---------------------------- MODULE FetcherProofs ----------------------------
(***************************************************************************)
(* Proofs about Fetcher for every cluster, channel size, number of wrong   *)
(* answers and pool of endpoints.                                          *)
(***************************************************************************)
EXTENDS Fetcher, SequenceTheorems, NaturalsInduction, FiniteSetTheorems, TLAPS

(* The blocks the fetcher can make of an answer.                           *)
GoodBlocks == {Block(s, BlockAt[s]) : s \in DOMAIN BlockAt}
BadBlocks == {Block(s, r) : s \in Slots, r \in BadAnswers}
Blocks == (GoodBlocks \cup BadBlocks) \ {Failed}

Begun == main \in {"run", "closing", "exited"}
Holding == fetching \in {"send", "full", "resend"}

(* The variables that tell which slots went where, before and after        *)
(* Connect.                                                                *)
SlotTypes ==
    /\ tip \in Slots /\ latest \in Slots /\ next \in 0..MaxSlot+1
    /\ start \in Slots \cup {None} /\ (Begun => start \in Slots /\ start <= next)
    /\ fetching \in {"off", "idle", "ask", "send", "full", "resend"}
    /\ received \in Seq(Blocks) /\ blocks \in Seq(Blocks)

ControlOK ==
    /\ main \in {"discover", "connect", "run", "closing", "exited", "failed"}
    /\ ~Begun => /\ fetching = "off" /\ received = <<>> /\ blocks = <<>>
                 /\ dropped = {} /\ saidSkipped = {}
    /\ fetching = "ask" \/ Holding => next <= latest
    /\ IF Holding THEN block \in Blocks /\ block.slot = next ELSE block = None

IInv == SlotTypes /\ ControlOK /\ SlotsAccounted

-----------------------------------------------------------------------------
(* SlotsAccounted over plain numbers: the slots handed on are out, of which *)
(* the first k were taken by main.                                         *)
Account(out, k, d, skipped, from, n) ==
    /\ \A i, j \in DOMAIN out : i < j => out[i] < out[j]
    /\ Range(out) \cup d \cup skipped = from..n-1
    /\ Range(out) \cap d = {} /\ skipped \cap (Range(out) \cup d) = {}
    /\ \A i \in DOMAIN out, s \in d : i > k => s < out[i]

Out == SlotsOf(received \o blocks)

(* Passing over a skipped slot: the next slot moves from the future to the *)
(* skipped ones (blockFetchingLoop, fetcher.go:255).                       *)
LEMMA AccountSkip ==
    ASSUME NEW out, NEW k \in Nat, NEW d, NEW skipped, NEW from \in Nat, NEW n \in Nat,
           from <= n, Account(out, k, d, skipped, from, n)
    PROVE  Account(out, k, d, skipped \cup {n}, from, n + 1)
<1>1. from..(n + 1) - 1 = (from..n-1) \cup {n} /\ n \notin from..n-1
  OBVIOUS
<1>. QED
  BY <1>1 DEF Account

(* Handing a block on: its slot is appended, and it is later than all the  *)
(* slots before it, the dropped ones included.                             *)
LEMMA AccountSend ==
    ASSUME NEW m \in Nat, NEW out \in [1..m -> Int], NEW k \in Nat, NEW d, NEW skipped,
           NEW from \in Nat, NEW n \in Nat, NEW new \in [1..m+1 -> Int],
           from <= n, Account(out, k, d, skipped, from, n),
           \A i \in 1..m : new[i] = out[i], new[m + 1] = n
    PROVE  Account(new, k, d, skipped, from, n + 1)
<1>1. from..(n + 1) - 1 = (from..n-1) \cup {n} /\ n \notin from..n-1
  OBVIOUS
<1>2. Range(new) = Range(out) \cup {n}
  BY DEF Range
<1>3. \A i \in 1..m : out[i] \in from..n-1
  BY DEF Account, Range
<1>4. \A i, j \in 1..m+1 : i < j => new[i] < new[j]
  <2>. SUFFICES ASSUME NEW i \in 1..m+1, NEW j \in 1..m+1, i < j PROVE new[i] < new[j]
    OBVIOUS
  <2>1. i \in 1..m
    OBVIOUS
  <2>2. CASE j = m + 1
    BY <1>3, <2>1, <2>2
  <2>3. CASE j \in 1..m
    BY <2>1, <2>3 DEF Account
  <2>. QED
    BY <2>2, <2>3
<1>5. \A i \in 1..m+1, s \in d : i > k => s < new[i]
  <2>. SUFFICES ASSUME NEW i \in 1..m+1, NEW s \in d, i > k PROVE s < new[i]
    OBVIOUS
  <2>1. CASE i = m + 1
    BY <2>1 DEF Account
  <2>2. CASE i \in 1..m
    BY <2>2 DEF Account
  <2>. QED
    BY <2>1, <2>2
<1>6. DOMAIN new = 1..m+1
  OBVIOUS
<1>. QED
  BY <1>1, <1>2, <1>4, <1>5, <1>6 DEF Account

(* Dropping the oldest block of the channel: its slot goes from those that *)
(* are handed on to the dropped ones, and what is left in the channel is   *)
(* later.                                                                  *)
LEMMA AccountDrop ==
    ASSUME NEW m \in Nat \ {0}, NEW out \in [1..m -> Int], NEW k \in 0..m-1, NEW d, NEW skipped,
           NEW from \in Nat, NEW n \in Nat, NEW new \in [1..m-1 -> Int],
           Account(out, k, d, skipped, from, n),
           \A i \in 1..m-1 : new[i] = IF i <= k THEN out[i] ELSE out[i + 1]
    PROVE  Account(new, k, d \cup {out[k + 1]}, skipped, from, n)
<1>1. DOMAIN out = 1..m /\ DOMAIN new = 1..m-1
  OBVIOUS
<1>2. \A i, j \in 1..m : i < j => out[i] < out[j]
  BY <1>1 DEF Account
<1>3. Range(out) = Range(new) \cup {out[k + 1]}
  <2>1. \A i \in 1..m : out[i] \in Range(new) \cup {out[k + 1]}
    <3>. SUFFICES ASSUME NEW i \in 1..m PROVE out[i] \in Range(new) \cup {out[k + 1]}
      OBVIOUS
    <3>1. CASE i <= k
      BY <3>1, <1>1 DEF Range
    <3>2. CASE i > k + 1
      <4>1. i - 1 \in 1..m-1 /\ new[i - 1] = out[i]
        BY <3>2
      <4>. QED
        BY <4>1, <1>1 DEF Range
    <3>3. CASE i = k + 1
      BY <3>3
    <3>. QED
      BY <3>1, <3>2, <3>3
  <2>2. \A i \in 1..m-1 : new[i] \in Range(out)
    BY <1>1 DEF Range
  <2>3. k + 1 \in 1..m
    OBVIOUS
  <2>. QED
    BY <2>1, <2>2, <2>3, <1>1 DEF Range
<1>4. out[k + 1] \notin Range(new)
  <2>1. \A i \in 1..m-1 : new[i] # out[k + 1]
    BY <1>2
  <2>. QED
    BY <2>1, <1>1 DEF Range
<1>5. \A i, j \in 1..m-1 : i < j => new[i] < new[j]
  <2>. SUFFICES ASSUME NEW i \in 1..m-1, NEW j \in 1..m-1, i < j PROVE new[i] < new[j]
    OBVIOUS
  <2>1. CASE j <= k
    BY <2>1, <1>2
  <2>2. CASE i <= k /\ ~(j <= k)
    <3>. new[i] = out[i] /\ new[j] = out[j + 1] /\ i < j + 1 /\ j + 1 \in 1..m /\ i \in 1..m
      BY <2>2
    <3>. QED
      BY <1>2
  <2>3. CASE ~(i <= k)
    <3>. new[i] = out[i + 1] /\ new[j] = out[j + 1] /\ i + 1 < j + 1 /\ {i + 1, j + 1} \subseteq 1..m
      BY <2>3
    <3>. QED
      BY <1>2
  <2>. QED
    BY <2>1, <2>2, <2>3
<1>6. \A i \in 1..m-1, s \in d \cup {out[k + 1]} : i > k => s < new[i]
  <2>. SUFFICES ASSUME NEW i \in 1..m-1, NEW s \in d \cup {out[k + 1]}, i > k PROVE s < new[i]
    OBVIOUS
  <2>1. i + 1 \in 1..m /\ k + 1 \in 1..m /\ k + 1 < i + 1 /\ new[i] = out[i + 1]
    OBVIOUS
  <2>2. CASE s \in d
    BY <2>1, <2>2, <1>1 DEF Account
  <2>3. CASE s = out[k + 1]
    BY <2>1, <2>3, <1>2
  <2>. QED
    BY <2>2, <2>3
<1>. QED
  BY <1>1, <1>3, <1>4, <1>5, <1>6 DEF Account

-----------------------------------------------------------------------------
(* The slots of the channel and of what main took, as one sequence.        *)
LEMMA OutDef ==
    ASSUME NEW r \in Seq(Blocks), NEW c \in Seq(Blocks)
    PROVE  /\ r \o c \in Seq(Blocks) /\ Len(r \o c) = Len(r) + Len(c)
           /\ Len(r) \in Nat /\ Len(c) \in Nat
           /\ DOMAIN SlotsOf(r \o c) = 1..Len(r) + Len(c)
           /\ \A i \in 1..Len(r) + Len(c) :
                 SlotsOf(r \o c)[i] = IF i <= Len(r) THEN r[i].slot ELSE c[i - Len(r)].slot
           /\ \A i \in 1..Len(r) : r[i] \in Blocks
           /\ \A i \in 1..Len(c) : c[i] \in Blocks
  BY ConcatProperties, LenProperties, ElementOfSeq DEF SlotsOf

(* A block is of the slot that was asked for.                              *)
LEMMA BlockSlot ==
    /\ \A s \in Slots : \A resp : Block(s, resp) # Failed => Block(s, resp).slot = s
    /\ \A b \in Blocks : b.slot \in Slots
<1>1. \A s, resp : Block(s, resp) # Failed => Block(s, resp).slot = s
  BY DEF Block
<1>. QED
  BY <1>1, FetcherAssumption DEF Blocks, GoodBlocks, BadBlocks

(* Out is a function from 1..m to slots.                                   *)
LEMMA OutType ==
    ASSUME NEW r \in Seq(Blocks), NEW c \in Seq(Blocks)
    PROVE  SlotsOf(r \o c) \in [1..Len(r) + Len(c) -> Int]
<1>1. \A b \in Blocks : b.slot \in Int
  BY BlockSlot, PoolAssumption DEF Slots
<1>2. \A i \in 1..Len(r) + Len(c) : (r \o c)[i] \in Blocks
  BY OutDef, ElementOfSeq
<1>. QED
  BY <1>1, <1>2, OutDef, LenProperties DEF SlotsOf

(* main takes a block: nothing changes but where it is.                    *)
LEMMA OutTake ==
    ASSUME NEW r \in Seq(Blocks), NEW c \in Seq(Blocks), c # <<>>
    PROVE  /\ Append(r, Head(c)) \in Seq(Blocks) /\ Tail(c) \in Seq(Blocks)
           /\ Len(Append(r, Head(c))) = Len(r) + 1
           /\ Append(r, Head(c)) \o Tail(c) = r \o c
<1>1. Head(c) \in Blocks /\ Tail(c) \in Seq(Blocks) /\ c = <<Head(c)>> \o Tail(c)
  OBVIOUS
<1>2. <<Head(c)>> \in Seq(Blocks) /\ Append(r, Head(c)) = r \o <<Head(c)>>
  BY <1>1, AppendIsConcat
<1>3. Append(r, Head(c)) \in Seq(Blocks) /\ Len(Append(r, Head(c))) = Len(r) + 1
  BY <1>1, AppendProperties
<1>4. (r \o <<Head(c)>>) \o Tail(c) = r \o (<<Head(c)>> \o Tail(c))
  BY <1>1, <1>2, ConcatAssociative
<1>. QED
  BY <1>1, <1>2, <1>3, <1>4

(* A block is sent to the channel ...                                      *)
LEMMA OutSend ==
    ASSUME NEW r \in Seq(Blocks), NEW c \in Seq(Blocks), NEW b \in Blocks
    PROVE  /\ SlotsOf(r \o Append(c, b)) \in [1..(Len(r) + Len(c)) + 1 -> Int]
           /\ \A i \in 1..Len(r) + Len(c) : SlotsOf(r \o Append(c, b))[i] = SlotsOf(r \o c)[i]
           /\ SlotsOf(r \o Append(c, b))[(Len(r) + Len(c)) + 1] = b.slot
<1>1. /\ Append(c, b) \in Seq(Blocks) /\ Len(Append(c, b)) = Len(c) + 1
      /\ \A i \in 1..Len(c) : Append(c, b)[i] = c[i]
      /\ Append(c, b)[Len(c) + 1] = b
      /\ Len(r) \in Nat /\ Len(c) \in Nat
  BY AppendProperties, LenProperties
<1>2. Len(r) + (Len(c) + 1) = (Len(r) + Len(c)) + 1
  BY <1>1
<1>3. SlotsOf(r \o Append(c, b)) \in [1..(Len(r) + Len(c)) + 1 -> Int]
  BY <1>1, <1>2, OutType
<1>4. \A i \in 1..Len(r) + Len(c) :
         SlotsOf(r \o c)[i] = IF i <= Len(r) THEN r[i].slot ELSE c[i - Len(r)].slot
  BY OutDef
<1>5. \A i \in 1..(Len(r) + Len(c)) + 1 :
         SlotsOf(r \o Append(c, b))[i] =
            IF i <= Len(r) THEN r[i].slot ELSE Append(c, b)[i - Len(r)].slot
  <2>1. Append(c, b) \in Seq(Blocks)
    BY <1>1
  <2>2. \A i \in 1..Len(r) + Len(Append(c, b)) :
           SlotsOf(r \o Append(c, b))[i] = IF i <= Len(r) THEN r[i].slot ELSE Append(c, b)[i - Len(r)].slot
    BY <2>1, OutDef, Zenon
  <2>. QED
    BY <1>1, <1>2, <2>2
<1>6. ASSUME NEW i \in 1..Len(r) + Len(c)
      PROVE  SlotsOf(r \o Append(c, b))[i] = SlotsOf(r \o c)[i]
  <2>1. CASE i <= Len(r)
    BY <1>1, <1>4, <1>5, <2>1
  <2>2. CASE ~(i <= Len(r))
    <3>1. i - Len(r) \in 1..Len(c)
      BY <1>1, <2>2
    <3>. QED
      BY <1>1, <1>4, <1>5, <2>2, <3>1
  <2>. QED
    BY <2>1, <2>2
<1>7. SlotsOf(r \o Append(c, b))[(Len(r) + Len(c)) + 1] = b.slot
  <2>1. /\ (Len(r) + Len(c)) + 1 \in 1..(Len(r) + Len(c)) + 1
        /\ ~((Len(r) + Len(c)) + 1 <= Len(r))
        /\ ((Len(r) + Len(c)) + 1) - Len(r) = Len(c) + 1
    BY <1>1
  <2>. QED
    BY <1>1, <1>5, <2>1
<1>. QED
  BY <1>3, <1>6, <1>7

(* ... and the oldest one is dropped from it.                              *)
LEMMA OutDrop ==
    ASSUME NEW r \in Seq(Blocks), NEW c \in Seq(Blocks), c # <<>>
    PROVE  /\ SlotsOf(r \o Tail(c)) \in [1..(Len(r) + Len(c)) - 1 -> Int]
           /\ \A i \in 1..(Len(r) + Len(c)) - 1 :
                 SlotsOf(r \o Tail(c))[i] =
                    IF i <= Len(r) THEN SlotsOf(r \o c)[i] ELSE SlotsOf(r \o c)[i + 1]
           /\ SlotsOf(r \o c)[Len(r) + 1] = Head(c).slot
           /\ Len(c) > 0
<1>1. /\ Tail(c) \in Seq(Blocks) /\ Len(Tail(c)) = Len(c) - 1
      /\ \A i \in 1..Len(c) - 1 : Tail(c)[i] = c[i + 1]
      /\ Head(c) = c[1]
      /\ Len(r) \in Nat /\ Len(c) \in Nat \ {0}
  BY HeadTailProperties, LenProperties, EmptySeq
<1>2. Len(r) + (Len(c) - 1) = (Len(r) + Len(c)) - 1
  BY <1>1
<1>3. SlotsOf(r \o Tail(c)) \in [1..(Len(r) + Len(c)) - 1 -> Int]
  BY <1>1, <1>2, OutType
<1>4. \A i \in 1..Len(r) + Len(c) :
         SlotsOf(r \o c)[i] = IF i <= Len(r) THEN r[i].slot ELSE c[i - Len(r)].slot
  BY OutDef
<1>5. \A i \in 1..(Len(r) + Len(c)) - 1 :
         SlotsOf(r \o Tail(c))[i] = IF i <= Len(r) THEN r[i].slot ELSE Tail(c)[i - Len(r)].slot
  <2>1. Tail(c) \in Seq(Blocks)
    BY <1>1
  <2>2. \A i \in 1..Len(r) + Len(Tail(c)) :
           SlotsOf(r \o Tail(c))[i] = IF i <= Len(r) THEN r[i].slot ELSE Tail(c)[i - Len(r)].slot
    BY <2>1, OutDef, Zenon
  <2>. QED
    BY <1>1, <1>2, <2>2
<1>6. ASSUME NEW i \in 1..(Len(r) + Len(c)) - 1
      PROVE  SlotsOf(r \o Tail(c))[i] =
                IF i <= Len(r) THEN SlotsOf(r \o c)[i] ELSE SlotsOf(r \o c)[i + 1]
  <2>1. CASE i <= Len(r)
    BY <1>1, <1>4, <1>5, <2>1
  <2>2. CASE ~(i <= Len(r))
    <3>1. /\ i - Len(r) \in 1..Len(c) - 1 /\ i + 1 \in 1..Len(r) + Len(c)
          /\ (i + 1) - Len(r) = (i - Len(r)) + 1 /\ ~(i + 1 <= Len(r))
      BY <1>1, <2>2
    <3>2. SlotsOf(r \o Tail(c))[i] = Tail(c)[i - Len(r)].slot
      BY <1>5, <2>2
    <3>3. SlotsOf(r \o c)[i + 1] = c[(i - Len(r)) + 1].slot
      BY <1>4, <3>1
    <3>. QED
      BY <1>1, <2>2, <3>1, <3>2, <3>3
  <2>. QED
    BY <2>1, <2>2
<1>7. SlotsOf(r \o c)[Len(r) + 1] = Head(c).slot
  <2>1. /\ Len(r) + 1 \in 1..Len(r) + Len(c)
        /\ ~(Len(r) + 1 <= Len(r)) /\ (Len(r) + 1) - Len(r) = 1
    BY <1>1
  <2>. QED
    BY <1>1, <1>4, <2>1
<1>. QED
  BY <1>1, <1>3, <1>6, <1>7

-----------------------------------------------------------------------------
(* What a call may bring back: a slot of the cluster's, or wrong ones ...  *)
LEMMA SlotAnswers ==
    ASSUME tip \in Slots, NEW u, NEW reply \in GetSlot(u), reply.got.kind = "result"
    PROVE  reply.got.value \in Slots
<1>1. \A right, wrong : reply \in Replies(u, right, wrong) =>
         reply.got \in right \cup wrong \cup {Other("down")}
  BY DEF Replies
<1>2. reply.got \in {Result(s) : s \in tip..MaxSlot} \cup {Result(s) : s \in WrongSlots}
                      \cup {Other("down"), Other("error")}
  BY <1>1 DEF GetSlot
<1>3. tip..MaxSlot \subseteq Slots
  BY PoolAssumption DEF Slots
<1>. QED
  BY <1>2, <1>3, PoolAssumption DEF Result, Other

(* ... or a slot's block, or one of the answers of a slot without one ...   *)
LEMMA TrueAnswersAre ==
    ASSUME NEW slot, NEW got \in TrueAnswers(slot)
    PROVE  \/ slot \in DOMAIN BlockAt /\ got = Result(BlockAt[slot])
           \/ got.kind \in {"error", "unavailable", "null", "missing"}
<1>1. CASE slot > tip
  BY <1>1 DEF TrueAnswers, Other
<1>2. CASE ~(slot > tip) /\ slot \in DOMAIN BlockAt
  BY <1>2 DEF TrueAnswers
<1>3. CASE ~(slot > tip) /\ slot \notin DOMAIN BlockAt
  <2>1. PICK k \in SkipReplies : got = Other(k)
    BY <1>3 DEF TrueAnswers
  <2>. QED
    BY <2>1, FetcherAssumption DEF Other
<1>. QED
  BY <1>1, <1>2, <1>3

(* ... and the slot's block, or what does not become a block.              *)
LEMMA BlockAnswers ==
    ASSUME NEW slot \in Slots, NEW u, NEW reply \in GetBlock(u, slot), reply.got.kind = "result",
           Block(slot, reply.got.value) # Failed
    PROVE  Block(slot, reply.got.value) \in Blocks /\ Block(slot, reply.got.value).slot = slot
<1>1. \A right, wrong : reply \in Replies(u, right, wrong) =>
         reply.got \in right \cup wrong \cup {Other("down")}
  BY DEF Replies
<1>2. reply.got \in TrueAnswers(slot)
        \cup ({Result(r) : r \in BadAnswers}
                \cup {Other(k) : k \in {"down", "error", "null", "missing", "unavailable"}})
        \cup {Other("down")}
  BY <1>1 DEF GetBlock
<1>3. \/ slot \in DOMAIN BlockAt /\ reply.got.value = BlockAt[slot]
      \/ reply.got.value \in BadAnswers
  BY <1>2, TrueAnswersAre DEF Result, Other
<1>. QED
  BY <1>3, BlockSlot DEF Blocks, GoodBlocks, BadBlocks

(* Connect happens once and before everything else.                        *)
LEMMA InvInit == Init => IInv
<1>1. <<>> \in Seq(Blocks)
  BY EmptySeq
<1>. QED
  BY <1>1, PoolAssumption, FetcherAssumption
     DEF Init, PoolInit, IInv, SlotTypes, ControlOK, SlotsAccounted, Begun, Holding, Slots

(* Every step keeps the types of the slots and of the blocks on their way. *)
LEMMA SlotStep == IInv /\ [Next]_vars => SlotTypes'
<1>. SUFFICES ASSUME IInv, [Next]_vars PROVE SlotTypes'
  OBVIOUS
<1>0. SlotTypes /\ ControlOK
  BY DEF IInv
<1>1. MaxSlot \in Nat /\ Slots = 0..MaxSlot /\ FromSlots \subseteq Slots \cup {None}
  BY PoolAssumption, FetcherAssumption DEF Slots
<1>2. tip' \in Slots
  BY <1>0, <1>1 DEF Next, MainNext, PollNext, FetchNext, Around, PoolNext, Advance, BeginCheck,
     CheckEndpoint, Rediscover, Signal, Exited, MakePool, ConnectAt, ConnectAsk, ConnectAnswer,
     Process, Status, Stop, Close, PollAsk, PollAnswer, PollStop, FetchAsk, FetchAnswer, Send, DropOldest,
     Resend, FetchStop, SlotTypes, vars
<1>3. ASSUME UNCHANGED <<latest, next, start, fetching, received, blocks>>,
             Begun' => Begun
      PROVE  SlotTypes'
  BY <1>0, <1>2, <1>3 DEF SlotTypes
<1>4. CASE UNCHANGED vars \/ Signal \/ Exited \/ (Around /\ PoolNext) \/ PollAsk \/ PollStop
           \/ MakePool \/ ConnectAsk \/ Status \/ Stop \/ Close
  BY <1>3, <1>4 DEF Signal, Exited, Around, PollAsk, PollStop, MakePool, ConnectAsk, Status, Stop, Close,
     vars, mainVars, pollVars, fetchVars, Begun
<1>5. ASSUME NEW slot \in Slots, Loops(slot) PROVE SlotTypes'
  BY <1>0, <1>1, <1>2, <1>5 DEF SlotTypes, Loops
<1>6. CASE ConnectAt
  BY <1>0, <1>5, <1>6 DEF ConnectAt, SlotTypes
<1>7. CASE ConnectAnswer
  <2>. PICK reply \in GetSlot(polling) :
          IF reply.got.kind = "result" THEN Loops(reply.got.value)
          ELSE /\ main' = "failed"
               /\ UNCHANGED <<start, received, pollVars, fetchVars>>
    BY <1>7 DEF ConnectAnswer
  <2>1. CASE reply.got.kind = "result"
    BY <2>1, <1>0, <1>5, SlotAnswers DEF SlotTypes
  <2>2. CASE reply.got.kind # "result"
    BY <2>2, <1>3 DEF pollVars, fetchVars, Begun
  <2>. QED
    BY <2>1, <2>2
<1>8. CASE PollAnswer
  <2>1. latest' \in Slots
    BY <1>0, <1>8, SlotAnswers DEF PollAnswer, SlotTypes
  <2>. QED
    BY <1>0, <1>2, <1>8, <2>1 DEF PollAnswer, SlotTypes, mainVars, fetchVars, Begun
<1>9. CASE FetchAsk \/ FetchStop
  BY <1>0, <1>2, <1>9 DEF FetchAsk, FetchStop, SlotTypes, mainVars, pollVars, Begun
<1>10. CASE FetchAnswer
  <2>1. next + 1 \in 0..MaxSlot+1
    BY <1>0, <1>1, <1>10 DEF FetchAnswer, SlotTypes, ControlOK
  <2>2. next' \in 0..MaxSlot+1 /\ fetching' \in {"idle", "send"}
    BY <1>0, <1>10, <2>1 DEF FetchAnswer, SlotTypes
  <2>3. Begun => start \in Slots /\ start <= next'
    BY <1>0, <1>1, <1>10 DEF FetchAnswer, SlotTypes
  <2>. QED
    BY <1>0, <1>2, <1>10, <2>2, <2>3 DEF FetchAnswer, SlotTypes, mainVars, pollVars, Begun
<1>11. CASE Send \/ Resend
  <2>1. Holding /\ block \in Blocks /\ next + 1 \in 0..MaxSlot+1
    BY <1>0, <1>1, <1>11 DEF Send, Resend, SlotTypes, ControlOK, Holding
  <2>2. Append(blocks, block) \in Seq(Blocks)
    BY <1>0, <2>1, AppendProperties DEF SlotTypes
  <2>3. Begun => start \in Slots /\ start <= next'
    BY <1>0, <1>1, <1>11 DEF Send, Resend, Sent, SlotTypes
  <2>. QED
    BY <1>0, <1>2, <1>11, <2>1, <2>2, <2>3 DEF Send, Resend, Sent, SlotTypes, mainVars, pollVars, Begun
<1>12. CASE DropOldest
  <2>1. blocks # <<>> => Tail(blocks) \in Seq(Blocks)
    BY <1>0, HeadTailProperties DEF SlotTypes
  <2>. QED
    BY <1>0, <1>2, <1>12, <2>1 DEF DropOldest, SlotTypes, mainVars, pollVars, Begun
<1>13. CASE Process
  <2>1. Append(received, Head(blocks)) \in Seq(Blocks) /\ Tail(blocks) \in Seq(Blocks)
    BY <1>0, <1>13, OutTake DEF SlotTypes, Process
  <2>. QED
    BY <1>0, <1>2, <1>13, <2>1 DEF Process, SlotTypes, pollVars, Begun
<1>. QED
  BY <1>4, <1>6, <1>7, <1>8, <1>9, <1>10, <1>11, <1>12, <1>13 DEF Next, MainNext, PollNext, FetchNext

(* Every step keeps what the fetching loop holds at each step: a block in  *)
(* hand has the slot the loop asked for.                                   *)
LEMMA ControlStep == IInv /\ [Next]_vars => ControlOK'
<1>. SUFFICES ASSUME IInv, [Next]_vars PROVE ControlOK'
  OBVIOUS
<1>0. SlotTypes /\ ControlOK
  BY DEF IInv
<1>1. latest \in Int /\ next \in Int /\ tip \in Int /\ Slots \subseteq Int
  BY <1>0, PoolAssumption DEF SlotTypes, Slots
<1>2. ASSUME UNCHANGED <<latest, next, main, fetching, block, received, blocks, dropped, saidSkipped>>
      PROVE  ControlOK'
  BY <1>0, <1>2 DEF ControlOK, Begun, Holding
<1>3. CASE UNCHANGED vars \/ Signal \/ Exited \/ (Around /\ PoolNext) \/ PollAsk \/ PollStop
           \/ ConnectAsk \/ Status
  BY <1>2, <1>3 DEF Signal, Exited, Around, PollAsk, PollStop, ConnectAsk, Status,
     vars, mainVars, pollVars, fetchVars
<1>4. CASE MakePool \/ Stop \/ Close
  BY <1>0, <1>4 DEF MakePool, Stop, Close, ControlOK, Begun, Holding, mainVars, pollVars, fetchVars
<1>5. ASSUME NEW slot \in Slots, Loops(slot), main = "connect" PROVE ControlOK'
  BY <1>0, <1>5 DEF ControlOK, Loops, Begun, Holding
<1>6. CASE ConnectAt
  BY <1>0, <1>5, <1>6 DEF ConnectAt, SlotTypes
<1>7. CASE ConnectAnswer
  <2>. PICK reply \in GetSlot(polling) :
          IF reply.got.kind = "result" THEN Loops(reply.got.value)
          ELSE /\ main' = "failed"
               /\ UNCHANGED <<start, received, pollVars, fetchVars>>
    BY <1>7 DEF ConnectAnswer
  <2>1. CASE reply.got.kind = "result"
    BY <1>7, <2>1, <1>0, <1>5, SlotAnswers DEF SlotTypes, ConnectAnswer
  <2>2. CASE reply.got.kind # "result"
    BY <1>0, <1>7, <2>2 DEF ConnectAnswer, ControlOK, pollVars, fetchVars, Begun, Holding
  <2>. QED
    BY <2>1, <2>2
<1>8. CASE PollAnswer
  <2>. PICK reply \in GetSlot(polling) :
          latest' = IF reply.got.kind = "result" /\ reply.got.value > latest
                      THEN reply.got.value ELSE latest
    BY <1>8 DEF PollAnswer
  <2>0. reply.got.kind = "result" => reply.got.value \in Int
    BY <1>0, <1>1, SlotAnswers DEF SlotTypes
  <2>1. latest' \in Int /\ latest' >= latest
    BY <1>1, <2>0
  <2>. QED
    BY <1>0, <1>1, <1>8, <2>1 DEF PollAnswer, ControlOK, mainVars, fetchVars, Begun, Holding
<1>9. CASE FetchAsk \/ FetchStop
  BY <1>0, <1>9 DEF FetchAsk, FetchStop, ControlOK, mainVars, pollVars, Begun, Holding
<1>10. CASE FetchAnswer
  <2>. PICK reply \in GetBlock(asked, next) :
          LET answer == IF reply.got.kind = "result" THEN Block(next, reply.got.value) ELSE Failed
          IN /\ next' = IF Skipped(reply.got) THEN next + 1 ELSE next
             /\ IF answer = Failed THEN fetching' = "idle" /\ UNCHANGED block
                ELSE fetching' = "send" /\ block' = answer
    BY <1>10 DEF FetchAnswer
  <2>1. Begun /\ next \in Slots /\ next <= latest /\ block = None
    BY <1>0, <1>1, <1>10, PoolAssumption DEF FetchAnswer, ControlOK, SlotTypes, Slots, Holding
  <2>2. CASE fetching' = "idle" /\ UNCHANGED block
    BY <1>10, <2>1, <2>2, <1>0 DEF FetchAnswer, ControlOK, Begun, Holding, mainVars, pollVars
  <2>3. CASE reply.got.kind = "result" /\ Block(next, reply.got.value) # Failed
    <3>1. block' \in Blocks /\ block'.slot = next
      BY <2>1, <2>3, BlockAnswers
    <3>2. next' = next /\ fetching' = "send"
      BY <2>3 DEF Skipped
    <3>. QED
      BY <1>10, <2>1, <3>1, <3>2, <1>0 DEF FetchAnswer, ControlOK, Begun, Holding, mainVars, pollVars
  <2>. QED
    BY <2>2, <2>3
<1>11. CASE Send \/ Resend \/ DropOldest
  BY <1>0, <1>11 DEF Send, Resend, DropOldest, Sent, ControlOK, Begun, Holding, mainVars, pollVars
<1>12. CASE Process
  BY <1>0, <1>12 DEF Process, ControlOK, Begun, Holding, pollVars
<1>. QED
  BY <1>3, <1>4, <1>6, <1>7, <1>8, <1>9, <1>10, <1>11, <1>12 DEF Next, MainNext, PollNext, FetchNext

-----------------------------------------------------------------------------
(* SlotsAccounted, read as an Account of the slots handed on.              *)
Accounted ==
    Begun => /\ Account(Out, Len(received), dropped, saidSkipped, start, next)
             /\ block # None => block.slot = next

(* SlotsAccounted, said of one sequence of slots: those main read and      *)
(* those still in the channel, in the order they were handed on.           *)
LEMMA Accounting == SlotTypes => (SlotsAccounted <=> Accounted)
<1>. SUFFICES ASSUME SlotTypes PROVE SlotsAccounted <=> Accounted
  OBVIOUS
<1>0. received \in Seq(Blocks) /\ blocks \in Seq(Blocks)
  BY DEF SlotTypes
<1>1. \A s \in dropped : (\A i \in DOMAIN blocks : s < blocks[i].slot)
                          <=> (\A i \in DOMAIN Out : i > Len(received) => s < Out[i])
  <2>. SUFFICES ASSUME NEW s \in dropped
                PROVE  (\A i \in DOMAIN blocks : s < blocks[i].slot)
                          <=> (\A i \in DOMAIN Out : i > Len(received) => s < Out[i])
    OBVIOUS
  <2>1. /\ DOMAIN Out = 1..Len(received) + Len(blocks)
        /\ Len(received) \in Nat /\ Len(blocks) \in Nat
        /\ DOMAIN blocks = 1..Len(blocks)
        /\ \A i \in 1..Len(received) + Len(blocks) :
              i > Len(received) => Out[i] = blocks[i - Len(received)].slot
    BY <1>0, OutDef, LenProperties DEF Out
  <2>2. ASSUME \A i \in DOMAIN blocks : s < blocks[i].slot,
               NEW i \in DOMAIN Out, i > Len(received)
        PROVE  s < Out[i]
    <3>1. i - Len(received) \in DOMAIN blocks /\ Out[i] = blocks[i - Len(received)].slot
      BY <2>1, <2>2
    <3>. QED
      BY <3>1, <2>2
  <2>3. ASSUME \A i \in DOMAIN Out : i > Len(received) => s < Out[i], NEW i \in DOMAIN blocks
        PROVE  s < blocks[i].slot
    <3>1. /\ i + Len(received) \in DOMAIN Out /\ i + Len(received) > Len(received)
          /\ Out[i + Len(received)] = blocks[(i + Len(received)) - Len(received)].slot
          /\ (i + Len(received)) - Len(received) = i
      BY <2>1
    <3>. QED
      BY <3>1, <2>3
  <2>. QED
    BY <2>2, <2>3
<1>2. (\A i \in DOMAIN blocks, s \in dropped : s < blocks[i].slot)
         <=> (\A i \in DOMAIN Out, s \in dropped : i > Len(received) => s < Out[i])
  BY <1>1
<1>. QED
  BY <1>2 DEF SlotsAccounted, Accounted, Account, Begun, Out

(* Every step keeps each passed slot accounted for: handed on, reported as *)
(* skipped, or dropped by a full channel.                                  *)
LEMMA AccountStep == IInv /\ [Next]_vars => SlotsAccounted'
<1>. SUFFICES ASSUME IInv, [Next]_vars PROVE SlotsAccounted'
  OBVIOUS
<1>0. SlotTypes /\ ControlOK /\ Accounted /\ SlotTypes' /\ ControlOK'
  BY SlotStep, ControlStep, Accounting DEF IInv
<1>1. Accounted' => SlotsAccounted'
  <2>1. (SlotTypes => (SlotsAccounted <=> Accounted))'
    BY Accounting, PTL
  <2>. QED
    BY <1>0, <2>1
<1>. SUFFICES Accounted'
  BY <1>1
<1>2. /\ received \in Seq(Blocks) /\ blocks \in Seq(Blocks)
      /\ received' \in Seq(Blocks) /\ blocks' \in Seq(Blocks)
      /\ next \in Nat /\ next' \in Nat
      /\ Begun => start \in Nat /\ start <= next
      /\ Len(received) \in Nat /\ Len(blocks) \in Nat
  BY <1>0, PoolAssumption DEF SlotTypes, Slots
<1>3. Out \in [1..Len(received) + Len(blocks) -> Int]
  BY <1>2, OutType DEF Out
<1>4. Begun => Account(Out, Len(received), dropped, saidSkipped, start, next)
  BY <1>0 DEF Accounted
<1>5. ASSUME UNCHANGED <<start, next, block, received, blocks, dropped, saidSkipped>>, Begun' => Begun
      PROVE  Accounted'
  BY <1>0, <1>5 DEF Accounted, Out
<1>6. CASE UNCHANGED vars \/ Signal \/ Exited \/ (Around /\ PoolNext) \/ PollAsk \/ PollStop
           \/ ConnectAsk \/ PollAnswer \/ Status
  BY <1>5, <1>6 DEF Signal, Exited, Around, PollAsk, PollStop, ConnectAsk, PollAnswer, Status,
     vars, mainVars, pollVars, fetchVars, Begun
<1>7. CASE MakePool \/ Stop \/ Close \/ FetchAsk \/ FetchStop
  BY <1>5, <1>7 DEF MakePool, Stop, Close, FetchAsk, FetchStop, mainVars, pollVars, fetchVars, Begun
<1>8. ASSUME NEW slot \in Slots, Loops(slot), main = "connect" PROVE Accounted'
  <2>1. received' = <<>> /\ blocks' = <<>> /\ dropped' = {} /\ saidSkipped' = {} /\ block' = None
    BY <1>0, <1>8 DEF ControlOK, Loops, Begun, Holding
  <2>2. Out' = <<>>
    BY <2>1 DEF Out, SlotsOf
  <2>3. start' = next' /\ start'..next'-1 = {}
    <3>1. start' = next' /\ next' \in Nat
      BY <1>2, <1>8 DEF Loops
    <3>2. \A n \in Nat : n..n-1 = {}
      OBVIOUS
    <3>. QED
      BY <3>1, <3>2
  <2>. QED
    BY <2>1, <2>2, <2>3 DEF Accounted, Account, Range
<1>9. CASE ConnectAt
  BY <1>0, <1>8, <1>9 DEF ConnectAt, SlotTypes
<1>10. CASE ConnectAnswer
  <2>. PICK reply \in GetSlot(polling) :
          IF reply.got.kind = "result" THEN Loops(reply.got.value)
          ELSE /\ main' = "failed"
               /\ UNCHANGED <<start, received, pollVars, fetchVars>>
    BY <1>10 DEF ConnectAnswer
  <2>1. CASE reply.got.kind = "result"
    BY <1>10, <2>1, <1>0, <1>8, SlotAnswers DEF SlotTypes, ConnectAnswer
  <2>2. CASE reply.got.kind # "result"
    BY <2>2 DEF Accounted, Begun
  <2>. QED
    BY <2>1, <2>2
<1>11. CASE FetchAnswer
  <2>0. Begun /\ block = None /\ Begun'
    BY <1>0, <1>11 DEF FetchAnswer, ControlOK, Holding, mainVars, Begun
  <2>1. UNCHANGED <<start, received, blocks, dropped>> /\ Out' = Out
    BY <1>11 DEF FetchAnswer, mainVars, Out
  <2>2. block' # None => block'.slot = next'
    BY <1>0 DEF ControlOK
  <2>3. CASE next' = next + 1 /\ saidSkipped' = saidSkipped \cup {next}
    BY <1>2, <1>4, <2>0, <2>1, <2>2, <2>3, AccountSkip DEF Accounted
  <2>4. CASE UNCHANGED <<next, saidSkipped>>
    BY <1>4, <2>0, <2>1, <2>2, <2>4 DEF Accounted
  <2>. QED
    BY <1>11, <2>3, <2>4 DEF FetchAnswer, Skipped
<1>12. CASE Send \/ Resend
  <2>0. Begun /\ Begun' /\ block \in Blocks /\ block.slot = next
    BY <1>0, <1>12 DEF Send, Resend, ControlOK, Holding, mainVars, Begun
  <2>1. UNCHANGED <<start, received, dropped, saidSkipped>>
    BY <1>12 DEF Send, Resend, Sent, mainVars
  <2>2. CASE UNCHANGED <<next, block, blocks>>
    BY <1>5, <2>0, <2>1, <2>2
  <2>3. CASE blocks' = Append(blocks, block) /\ block' = None /\ next' = next + 1
    <3>1. /\ Out' \in [1..(Len(received) + Len(blocks)) + 1 -> Int]
          /\ \A i \in 1..Len(received) + Len(blocks) : Out'[i] = Out[i]
          /\ Out'[(Len(received) + Len(blocks)) + 1] = next
      BY SMTT(30), <1>2, <2>0, <2>1, <2>3, OutSend DEF Out
    <3>2. Len(received) + Len(blocks) \in Nat
      BY <1>2
    <3>4. Account(Out', Len(received), dropped, saidSkipped, start, next + 1)
      BY <1>2, <1>3, <1>4, <2>0, <3>1, <3>2, AccountSend
    <3>. QED
      BY <2>1, <2>3, <3>4 DEF Accounted
  <2>. QED
    BY <1>12, <2>2, <2>3 DEF Send, Resend, Sent
<1>13. CASE DropOldest
  <2>0. Begun /\ Begun' /\ UNCHANGED <<start, received, next, block, saidSkipped>>
    BY <1>0, <1>13 DEF DropOldest, ControlOK, Holding, mainVars, Begun
  <2>1. CASE UNCHANGED <<blocks, dropped>>
    BY <1>5, <2>0, <2>1
  <2>2. CASE /\ blocks # <<>>
             /\ blocks' = Tail(blocks) /\ dropped' = dropped \cup {Head(blocks).slot}
    <3>1. /\ Out' \in [1..(Len(received) + Len(blocks)) - 1 -> Int]
          /\ \A i \in 1..(Len(received) + Len(blocks)) - 1 :
                Out'[i] = IF i <= Len(received) THEN Out[i] ELSE Out[i + 1]
          /\ Out[Len(received) + 1] = Head(blocks).slot
          /\ Len(blocks) > 0
      BY <1>2, <2>0, <2>2, OutDrop DEF Out
    <3>2. /\ Len(received) + Len(blocks) \in Nat \ {0}
          /\ Len(received) \in 0..(Len(received) + Len(blocks)) - 1
      BY <1>2, <3>1
    <3>5. Account(Out', Len(received), dropped \cup {Out[Len(received) + 1]}, saidSkipped, start, next)
      BY <1>2, <1>3, <1>4, <2>0, <3>1, <3>2, AccountDrop
    <3>. QED
      BY <1>0, <2>0, <2>2, <3>1, <3>5 DEF Accounted
  <2>. QED
    BY <1>13, <2>1, <2>2 DEF DropOldest
<1>14. CASE Process
  <2>0. Begun /\ UNCHANGED <<start, next, block, dropped, saidSkipped>>
    BY <1>14 DEF Process, Begun
  <2>1. Out' = Out /\ Len(received') = Len(received) + 1
    BY <1>2, <1>14, OutTake DEF Process, Out
  <2>2. DOMAIN Out \subseteq Int
    BY <1>3
  <2>3. Account(Out, Len(received) + 1, dropped, saidSkipped, start, next)
    BY <1>2, <1>4, <2>0, <2>2 DEF Account
  <2>. QED
    BY <1>0, <2>0, <2>1, <2>3 DEF Accounted
<1>. QED
  BY <1>6, <1>7, <1>9, <1>10, <1>11, <1>12, <1>13, <1>14 DEF Next, MainNext, PollNext, FetchNext

(* The strengthening holds in every reachable state.                       *)
LEMMA InvHolds == Spec => []IInv
<1>1. IInv /\ [Next]_vars => IInv'
  BY SlotStep, ControlStep, AccountStep DEF IInv
<1>. QED
  BY <1>1, InvInit, PTL DEF Spec

(* blockFetchingLoop, fetcher.go:255: blocks are handed on in slot order,  *)
(* and every slot that was passed was handed on, skipped or dropped.       *)
THEOREM Accounts == Spec => []SlotsAccounted
<1>1. IInv => SlotsAccounted
  BY DEF IInv
<1>. QED
  BY <1>1, InvHolds, PTL
-----------------------------------------------------------------------------
(* What is handed on is a block of the cluster's, converted.               *)
LEMMA BlockIsTold ==
    ASSUME NEW b \in Blocks
    PROVE  b.slot \in DOMAIN BlockAt /\ b = Block(b.slot, BlockAt[b.slot])
<1>1. b \in GoodBlocks
  BY AnswersAssumption DEF Blocks, BadBlocks
<1>2. PICK s \in DOMAIN BlockAt : b = Block(s, BlockAt[s]) /\ b # Failed
  BY <1>1 DEF GoodBlocks, Blocks
<1>. QED
  BY <1>2, BlockSlot, FetcherAssumption

(* convertTransaction, client.go:331: the header asks for one signer for   *)
(* each signature.                                                         *)
LEMMA SignersKept ==
    ASSUME NEW tx, Sanitized(tx)
    PROVE  /\ Transaction(tx).header.signers = Len(tx.sigs)
           /\ Transaction(tx).header.signers <= Len(Transaction(tx).keys)
<1>1. Header(tx).signers = Len(tx.sigs)
  BY DEF Sanitized, Header, Count
<1>2. Len(Transaction(tx).keys) = Len(tx.keys)
  <2>1. tx.keys \in Seq(Range(tx.keys))
    BY DEF Sanitized
  <2>2. DOMAIN tx.keys = 1..Len(tx.keys) /\ Len(tx.keys) \in Nat
    BY <2>1, LenProperties
  <2>. DEFINE new == Map(LAMBDA k : Value(k.pubkey), tx.keys)
  <2>3. new = [i \in 1..Len(tx.keys) |-> Value(tx.keys[i].pubkey)]
    BY <2>2 DEF Map
  <2>4. Len(new) = Len(tx.keys)
    BY <2>2, <2>3
  <2>. QED
    BY <2>4 DEF Transaction
<1>. QED
  BY <1>1, <1>2 DEF Sanitized, Transaction

(* isVoteTransaction: it counts as a vote when an instruction of the       *)
(* answer calls the vote program; a missing program index, read as the     *)
(* first account, makes no difference.                                     *)
LEMMA VotesKept ==
    ASSUME NEW tx, Sanitized(tx)
    PROVE  Transaction(tx).vote <=>
              \E j \in DOMAIN tx.ixs : /\ tx.ixs[j].program # None
                                       /\ tx.keys[tx.ixs[j].program + 1].pubkey = VoteProgram
<1>. DEFINE keys == [i \in DOMAIN tx.keys |-> Value(tx.keys[i].pubkey)]
            program(j) == IF tx.ixs[j].program = None THEN 0 ELSE tx.ixs[j].program
<1>1. tx.keys \in Seq(Range(tx.keys))
  BY DEF Sanitized
<1>2. /\ DOMAIN tx.keys = 1..Len(tx.keys) /\ Len(tx.keys) \in Nat
      /\ Len(keys) = Len(tx.keys)
      /\ \A i \in 1..Len(tx.keys) : keys[i] = Value(tx.keys[i].pubkey)
  BY <1>1, LenProperties
<1>3. Transaction(tx).vote <=> \E j \in DOMAIN tx.ixs : program(j) < Len(keys)
                                                        /\ keys[program(j) + 1] = VoteProgram
  BY DEF Transaction, IsVote, Map, Instruction
<1>4. \A i \in 1..Len(tx.keys) : keys[i] = VoteProgram <=> tx.keys[i].pubkey = VoteProgram
  BY <1>2, AnswersAssumption DEF Value
<1>. HIDE DEF keys
<1>5. ASSUME NEW j \in DOMAIN tx.ixs
      PROVE  (program(j) < Len(keys) /\ keys[program(j) + 1] = VoteProgram)
                <=> (tx.ixs[j].program # None /\ tx.keys[tx.ixs[j].program + 1].pubkey = VoteProgram)
  <2>1. CASE tx.ixs[j].program = None
    <3>1. ASSUME 0 < Len(keys) PROVE keys[0 + 1] # VoteProgram
      <4>1. 1 \in 1..Len(tx.keys) /\ tx.keys # <<>>
        BY <1>2, <3>1, EmptySeq
      <4>2. tx.keys[1].pubkey # VoteProgram
        BY <4>1 DEF Sanitized
      <4>. QED
        BY <1>4, <4>1, <4>2
    <3>. QED
      BY <2>1, <3>1
  <2>2. CASE tx.ixs[j].program # None
    <3>1. PICK n \in 1..Len(tx.keys) : tx.ixs[j].program = n - 1
      BY <1>2, <2>2 DEF Sanitized
    <3>. QED
      BY <1>2, <1>4, <2>2, <3>1
  <2>. QED
    BY <2>1, <2>2
<1>. QED
  BY <1>3, <1>5

(* Blocks are converted as the cluster meant them, whichever of the two    *)
(* forms the account keys had.                                             *)
THEOREM Converted == Spec => []HeadersKept
<1>1. IInv => HeadersKept
  <2>. SUFFICES ASSUME IInv, NEW b \in Range(received \o blocks), NEW i \in DOMAIN b.txs
                PROVE  LET told == BlockAt[b.slot].txs[i]
                       IN /\ b.txs[i].header.signers = Len(told.sigs)
                          /\ b.txs[i].header.signers <= Len(b.txs[i].keys)
                          /\ b.txs[i].vote <=> \E j \in DOMAIN told.ixs :
                                /\ told.ixs[j].program # None
                                /\ told.keys[told.ixs[j].program + 1].pubkey = VoteProgram
    BY DEF HeadersKept
  <2>. DEFINE told == BlockAt[b.slot].txs[i]
  <2>1. b \in Blocks
    BY ConcatProperties, RangeOfSeq DEF IInv, SlotTypes
  <2>2. b.slot \in DOMAIN BlockAt /\ b = Block(b.slot, BlockAt[b.slot]) /\ b # Failed
    BY <2>1, BlockIsTold DEF Blocks
  <2>3. b.txs = Map(Transaction, BlockAt[b.slot].txs)
    BY <2>2 DEF Block
  <2>4. i \in DOMAIN BlockAt[b.slot].txs /\ b.txs[i] = Transaction(told)
    BY <2>3 DEF Map
  <2>5. Sanitized(told)
    BY <2>2, <2>4, AnswersAssumption
  <2>. HIDE DEF told
  <2>6. /\ Transaction(told).header.signers = Len(told.sigs)
        /\ Transaction(told).header.signers <= Len(Transaction(told).keys)
    BY <2>5, SignersKept
  <2>7. Transaction(told).vote <=>
              \E j \in DOMAIN told.ixs : /\ told.ixs[j].program # None
                                         /\ told.keys[told.ixs[j].program + 1].pubkey = VoteProgram
    BY <2>5, VotesKept
  <2>. QED
    BY <2>4, <2>6, <2>7 DEF told
<1>. QED
  BY <1>1, InvHolds, PTL
-----------------------------------------------------------------------------
(* Numbers and folds                                                       *)

(* Induction, for the set of numbers that have a property.                 *)
LEMMA Induction ==
    ASSUME NEW S, 0 \in S, \A n \in Nat : n \in S => n + 1 \in S
    PROVE  Nat \subseteq S
<1>. SUFFICES ASSUME Nat \ S # {} PROVE FALSE
  OBVIOUS
<1>1. PICK m \in Nat \ S : \A x \in Nat \ S : ~ (<<x, m>> \in OpToRel(<, Nat))
  BY NatLessThanWellFounded, WFMin
<1>2. \A x \in Nat \ S : ~ (x < m)
  BY <1>1, Zenon DEF OpToRel
<1>3. m - 1 \in Nat /\ (m - 1) + 1 = m /\ m - 1 < m
  OBVIOUS
<1>. QED
  BY <1>2, <1>3

(* A set of places has a last one.                                         *)
LEMMA LastPlace ==
    ASSUME NEW n \in Nat, NEW T \in SUBSET (1..n), T # {}
    PROVE  Max(T) \in T /\ \A y \in T : y <= Max(T)
<1>. DEFINE S == {k \in Nat : \A t \in SUBSET (1..k) : t # {} => \E x \in t : \A y \in t : x >= y}
<1>1. 0 \in S
  <2>1. 1..0 = {}
    OBVIOUS
  <2>. QED
    BY <2>1
<1>2. ASSUME NEW k \in Nat, k \in S PROVE k + 1 \in S
  <2>. SUFFICES ASSUME NEW t \in SUBSET (1..k + 1), t # {}
                PROVE  \E x \in t : \A y \in t : x >= y
    OBVIOUS
  <2>1. CASE k + 1 \in t
    BY <2>1
  <2>2. CASE k + 1 \notin t
    <3>1. t \in SUBSET (1..k)
      BY <2>2
    <3>. QED
      BY <1>2, <3>1
  <2>. QED
    BY <2>1, <2>2
<1>3. n \in S
  <2>. HIDE DEF S
  <2>. QED
    BY <1>1, <1>2, Induction
<1>4. \E x \in T : \A y \in T : x >= y
  BY <1>3
<1>5. Max(T) \in T /\ \A y \in T : Max(T) >= y
  BY <1>4 DEF Max
<1>. QED
  BY <1>5

(* And a first one.                                                        *)
LEMMA FirstPlace ==
    ASSUME NEW T \in SUBSET Nat, T # {}
    PROVE  \E x \in T : \A y \in T : x <= y
<1>1. PICK x \in T : \A y \in T : ~ (<<y, x>> \in OpToRel(<, Nat))
  BY NatLessThanWellFounded, WFMin
<1>2. \A y \in T : ~ (y < x)
  BY <1>1, Zenon DEF OpToRel
<1>. QED
  BY <1>2

(* What a fold from the left unfolds to, over the first n places.          *)
FoldsTo(iter, F, base, n) ==
    iter = [T \in SUBSET (1..n) |-> IF T = {} THEN base ELSE F[<<iter[T \ {Max(T)}], Max(T)>>]]

(* The library's folds are given by a function that exists.                *)
LEMMA FoldExists ==
    ASSUME NEW n \in Nat, NEW U, NEW base \in U, NEW F \in [U \X (1..n) -> U]
    PROVE  \E iter \in [SUBSET (1..n) -> U] : FoldsTo(iter, F, base, n)
<1>. DEFINE S == {m \in Nat : m <= n =>
                    \E iter \in [SUBSET (1..m) -> U] : FoldsTo(iter, F, base, m)}
<1>1. 0 \in S
  <2>1. SUBSET (1..0) = {{}}
    OBVIOUS
  <2>2. FoldsTo([T \in SUBSET (1..0) |-> base], F, base, 0)
    BY <2>1 DEF FoldsTo
  <2>. QED
    BY <2>2
<1>2. ASSUME NEW m \in Nat, m \in S PROVE m + 1 \in S
  <2>. DEFINE l == m + 1
  <2>. SUFFICES ASSUME l <= n
                PROVE  \E iter \in [SUBSET (1..l) -> U] : FoldsTo(iter, F, base, l)
    <3>1. l \in Nat
      OBVIOUS
    <3>. HIDE DEF l
    <3>. QED
      BY <3>1 DEF l
  <2>1. l \in Nat /\ 1..m \subseteq 1..l /\ 1..l \subseteq 1..n /\ m <= n
        /\ \A y \in 1..l : y <= m => y \in 1..m
    OBVIOUS
  <2>2. PICK g \in [SUBSET (1..m) -> U] : FoldsTo(g, F, base, m)
    BY <1>2, <2>1
  <2>. DEFINE longer == [T \in SUBSET (1..l) |->
                         IF T = {} THEN base ELSE F[<<g[T \ {Max(T)}], Max(T)>>]]
  <2>3. ASSUME NEW T \in SUBSET (1..l), T # {}
        PROVE  Max(T) \in 1..n /\ T \ {Max(T)} \in SUBSET (1..m)
    <3>. DEFINE top == Max(T)
    <3>1. top \in T /\ \A y \in T : y <= top
      <4>. HIDE DEF l
      <4>. QED
        BY <2>1, <2>3, LastPlace
    <3>. HIDE DEF top
    <3>2. top \in 1..l /\ \A y \in T : y \in 1..l
      BY <3>1
    <3>3. \A y \in T \ {top} : y \in 1..m
      BY <3>1, <3>2
    <3>. QED
      BY <2>1, <3>2, <3>3 DEF top
  <2>4. longer \in [SUBSET (1..l) -> U]
    <3>1. \A T \in SUBSET (1..l) : T # {} =>
             <<g[T \ {Max(T)}], Max(T)>> \in U \X (1..n)
      BY <2>3
    <3>. QED
      BY <3>1
  <2>5. \A T \in SUBSET (1..m) : T \in SUBSET (1..l) /\ longer[T] = g[T]
    <3>. SUFFICES ASSUME NEW T \in SUBSET (1..m) PROVE T \in SUBSET (1..l) /\ longer[T] = g[T]
      OBVIOUS
    <3>1. T \in SUBSET (1..l)
      BY <2>1
    <3>2. longer[T] = IF T = {} THEN base ELSE F[<<g[T \ {Max(T)}], Max(T)>>]
      BY <3>1
    <3>3. g[T] = IF T = {} THEN base ELSE F[<<g[T \ {Max(T)}], Max(T)>>]
      BY <2>2 DEF FoldsTo
    <3>. QED
      BY <3>1, <3>2, <3>3
  <2>6. longer = [T \in SUBSET (1..l) |->
                  IF T = {} THEN base ELSE F[<<g[T \ {Max(T)}], Max(T)>>]]
    OBVIOUS
  <2>. HIDE DEF longer, l
  <2>7. \A T \in SUBSET (1..l) : T # {} => longer[T \ {Max(T)}] = g[T \ {Max(T)}]
    BY <2>3, <2>5
  <2>8. FoldsTo(longer, F, base, l)
    BY <2>6, <2>7 DEF FoldsTo
  <2>. QED
    BY <2>4, <2>8
<1>3. n \in S
  <2>. HIDE DEF S
  <2>. QED
    BY <1>1, <1>2, Induction
<1>4. n <= n
  OBVIOUS
<1>. QED
  BY <1>3, <1>4

(* What each step of a fold keeps holds of its result.                     *)
LEMMA FoldKeeps ==
    ASSUME NEW n \in Nat, NEW U, NEW iter, iter[{}] \in U,
           \A T \in SUBSET (1..n) : T # {} /\ iter[T \ {Max(T)}] \in U => iter[T] \in U
    PROVE  iter[1..n] \in U
<1>. DEFINE S == {k \in Nat : k <= n => iter[1..k] \in U}
<1>1. 0 \in S
  <2>1. 1..0 = {}
    OBVIOUS
  <2>. QED
    BY <2>1
<1>2. ASSUME NEW k \in Nat, k \in S PROVE k + 1 \in S
  <2>. SUFFICES ASSUME k + 1 <= n PROVE iter[1..k + 1] \in U
    OBVIOUS
  <2>. DEFINE T == 1..k + 1
  <2>1. T \in SUBSET (1..n) /\ T # {} /\ k + 1 \in T
    OBVIOUS
  <2>2. Max(T) \in T /\ k + 1 <= Max(T)
    <3>. HIDE DEF T
    <3>. QED
      BY <2>1, LastPlace
  <2>3. Max(T) = k + 1
    BY <2>2
  <2>4. T \ {k + 1} = 1..k
    OBVIOUS
  <2>5. iter[1..k] \in U
    BY <1>2
  <2>. HIDE DEF T
  <2>. QED
    BY <2>1, <2>3, <2>4, <2>5 DEF T
<1>3. n \in S
  <2>. HIDE DEF S
  <2>. QED
    BY <1>1, <1>2, Induction
<1>. QED
  BY <1>3

-----------------------------------------------------------------------------
(* Discovery: what it finds are sequences of URLs                          *)

(* Leaving nodes out of a list leaves a list.                              *)
LEMMA OnlyOK ==
    ASSUME NEW X, NEW list \in Seq(X), NEW nodes
    PROVE  Only(list, nodes) \in Seq(X)
<1>. DEFINE n == Len(list)
            op(i, kept) == IF list[i] \in nodes THEN Append(kept, list[i]) ELSE kept
            F == [p \in Seq(X) \X (1..n) |-> op(p[2], p[1])]
            Unfolds(iter) == iter = [T \in SUBSET (DOMAIN list) |->
                                IF T = {} THEN <<>> ELSE op(Max(T), iter[T \ {Max(T)}])]
            it == CHOOSE iter : Unfolds(iter)
<1>1. n \in Nat /\ DOMAIN list = 1..n /\ <<>> \in Seq(X)
  OBVIOUS
<1>2. \A i \in 1..n, kept \in Seq(X) : op(i, kept) \in Seq(X)
  BY <1>1
<1>3. Only(list, nodes) = it[1..n]
  <2>1. Only(list, nodes) = it[DOMAIN list]
    BY DEF Only, FoldLeft, MapThenFoldSet
  <2>. QED
    BY <1>1, <2>1
<1>4. F \in [Seq(X) \X (1..n) -> Seq(X)]
  <2>. HIDE DEF op
  <2>. QED
    BY <1>2
<1>5. PICK iter \in [SUBSET (1..n) -> Seq(X)] : FoldsTo(iter, F, <<>>, n)
  <2>. HIDE DEF F, n
  <2>. QED
    BY <1>1, <1>4, FoldExists
<1>6. \A T \in SUBSET (1..n) : T # {} => Max(T) \in 1..n
  <2>. HIDE DEF n
  <2>. QED
    BY <1>1, LastPlace
<1>. HIDE DEF op
<1>7. Unfolds(iter)
  BY <1>1, <1>5, <1>6 DEF FoldsTo
<1>8. Unfolds(it)
  BY <1>7
<1>. HIDE DEF it, n
<1>9. it[{}] \in Seq(X)
  BY <1>1, <1>8
<1>10. ASSUME NEW T \in SUBSET (1..n), T # {}, it[T \ {Max(T)}] \in Seq(X)
       PROVE  it[T] \in Seq(X)
  <2>1. it[T] = op(Max(T), it[T \ {Max(T)}])
    BY <1>1, <1>8, <1>10
  <2>. QED
    BY <1>2, <1>6, <1>10, <2>1
<1>11. \A T \in SUBSET (1..n) : T # {} /\ it[T \ {Max(T)}] \in Seq(X) => it[T] \in Seq(X)
  BY <1>10
<1>12. it[1..n] \in Seq(X)
  BY <1>1, <1>9, <1>11, FoldKeeps
<1>. QED
  BY <1>3, <1>12

\* A sequence, of whatever it holds.
IsList(s) == s \in Seq(Range(s))

(* What has the places of a list is one.                                   *)
LEMMA Lists ==
    ASSUME NEW s
    PROVE  /\ \A n \in Nat : s = [i \in 1..n |-> s[i]] => IsList(s)
           /\ \A X : s \in Seq(X) => IsList(s)
           /\ IsList(s) => Len(s) \in Nat /\ DOMAIN s = 1..Len(s) /\ s = [i \in 1..Len(s) |-> s[i]]
<1>1. ASSUME NEW n \in Nat, s = [i \in 1..n |-> s[i]] PROVE IsList(s)
  <2>1. \A i \in 1..n : s[i] \in Range(s)
    BY <1>1 DEF Range
  <2>. QED
    BY <1>1, <2>1 DEF IsList
<1>2. ASSUME NEW X, s \in Seq(X) PROVE IsList(s)
  <2>1. Len(s) \in Nat /\ s = [i \in 1..Len(s) |-> s[i]]
    BY <1>2
  <2>. QED
    BY <1>1, <2>1
<1>3. ASSUME IsList(s)
      PROVE  Len(s) \in Nat /\ DOMAIN s = 1..Len(s) /\ s = [i \in 1..Len(s) |-> s[i]]
  BY <1>3 DEF IsList
<1>. QED
  BY <1>1, <1>2, <1>3

(* The lists the discovery makes of a list.                                *)
LEMMA ListsMade ==
    ASSUME NEW list, IsList(list)
    PROVE  /\ \A nodes : IsList(Only(list, nodes))
           /\ IsList(RpcUrls(list)) /\ IsList(ClusterNodes(list)) /\ IsList(Matching(list))
<1>1. \A nodes : IsList(Only(list, nodes))
  BY OnlyOK, Lists DEF IsList
<1>2. IsList(RpcUrls(list))
  <2>. DEFINE rpc == Only(list, {n \in Range(list) : n.url # None})
              urls == [i \in DOMAIN rpc |-> rpc[i].url]
  <2>1. Len(rpc) \in Nat /\ DOMAIN rpc = 1..Len(rpc)
    <3>1. IsList(rpc)
      BY <1>1
    <3>. HIDE DEF rpc
    <3>. QED
      BY <3>1, Lists
  <2>. HIDE DEF rpc
  <2>2. urls = [i \in 1..Len(rpc) |-> urls[i]]
    BY <2>1
  <2>3. IsList(urls)
    <3>. HIDE DEF urls
    <3>. QED
      BY <2>1, <2>2, Lists
  <2>. QED
    BY <2>3 DEF RpcUrls, rpc
<1>3. IsList(ClusterNodes(list))
  <2>. DEFINE valid == Only(list, {n \in Range(list) : n.id # None})
              nodes == [i \in DOMAIN valid |-> [valid[i] EXCEPT !.clock = 0]]
  <2>1. Len(valid) \in Nat /\ DOMAIN valid = 1..Len(valid)
    <3>1. IsList(valid)
      BY <1>1
    <3>. HIDE DEF valid
    <3>. QED
      BY <3>1, Lists
  <2>. HIDE DEF valid
  <2>2. nodes = [i \in 1..Len(valid) |-> nodes[i]]
    BY <2>1
  <2>3. IsList(nodes)
    <3>. HIDE DEF nodes
    <3>. QED
      BY <2>1, <2>2, Lists
  <2>. QED
    BY <2>3 DEF ClusterNodes, valid
<1>. QED
  BY <1>1, <1>2, <1>3 DEF Matching

(* Lists are joined to lists, and begin with lists.                        *)
LEMMA ListsJoined ==
    ASSUME NEW one, IsList(one)
    PROVE  /\ \A two : IsList(two) => IsList(one \o two)
           /\ \A k \in 0..Len(one) : IsList(SubSeq(one, 1, k))
<1>1. ASSUME NEW two, IsList(two) PROVE IsList(one \o two)
  <2>. DEFINE X == Range(one) \cup Range(two)
  <2>1. one \in Seq(X) /\ two \in Seq(X)
    <3>1. one \in Seq(Range(one)) /\ two \in Seq(Range(two))
      BY <1>1 DEF IsList
    <3>2. \A A, B, s : s \in Seq(A) /\ A \subseteq B => s \in Seq(B)
      OBVIOUS
    <3>3. Range(one) \subseteq X /\ Range(two) \subseteq X
      OBVIOUS
    <3>. HIDE DEF X
    <3>. QED
      BY <3>1, <3>2, <3>3
  <2>. HIDE DEF X
  <2>2. one \o two \in Seq(X)
    BY <2>1
  <2>. QED
    BY <2>2, Lists
<1>2. ASSUME NEW k \in 0..Len(one) PROVE IsList(SubSeq(one, 1, k))
  <2>1. SubSeq(one, 1, k) \in Seq(Range(one))
    BY DEF IsList
  <2>. QED
    BY <2>1, Lists
<1>. QED
  BY <1>1, <1>2

(* What the RPC fallback finds, and what is collected behind it.           *)
LEMMA Collections ==
    /\ \A view \in ClusterViews : IsList(ClusterNodes(view)) /\ IsList(DiscoverViaRPC(view))
    /\ \A list, order : IsList(list) /\ IsList(order) => IsList(Collected(list, order))
<1>1. ASSUME NEW view \in ClusterViews
      PROVE  IsList(ClusterNodes(view)) /\ IsList(DiscoverViaRPC(view))
  <2>1. IsList(view)
    BY GossipAssumption DEF IsList
  <2>. DEFINE match == Matching(ClusterNodes(view))
              k == IF Len(match) < MaxNodes THEN Len(match) ELSE MaxNodes
  <2>2. IsList(ClusterNodes(view)) /\ IsList(match)
    BY <2>1, ListsMade
  <2>3. DiscoverViaRPC(view) = SubSeq(match, 1, k)
    BY DEF DiscoverViaRPC
  <2>. HIDE DEF match
  <2>4. k \in 0..Len(match)
    <3>1. Len(match) \in Nat
      BY <2>2, Lists
    <3>2. MaxNodes \in Nat
      BY GossipAssumption
    <3>. QED
      BY <3>1, <3>2
  <2>. HIDE DEF k
  <2>. QED
    BY <2>2, <2>3, <2>4, ListsJoined
<1>2. ASSUME NEW list, NEW order, IsList(list), IsList(order)
      PROVE  IsList(Collected(list, order))
  <2>. DEFINE upTo(k) == list \o Matching(SubSeq(order, 1, k))
              full == {k \in DOMAIN order : Len(upTo(k)) >= MaxNodes}
              first == CHOOSE k \in full : \A j \in full : k <= j
  <2>1. Len(order) \in Nat /\ DOMAIN order = 1..Len(order)
    BY <1>2, Lists
  <2>2. \A k \in 1..Len(order) : IsList(upTo(k))
    <3>1. \A k \in 1..Len(order) : IsList(SubSeq(order, 1, k))
      <4>1. 1..Len(order) \subseteq 0..Len(order)
        BY <2>1
      <4>. QED
        BY <1>2, <4>1, ListsJoined
    <3>2. \A k \in 1..Len(order) : IsList(Matching(SubSeq(order, 1, k)))
      BY <3>1, ListsMade
    <3>. QED
      BY <1>2, <3>2, ListsJoined
  <2>3. IsList(list \o Matching(order))
    BY <1>2, ListsMade, ListsJoined
  <2>4. Collected(list, order) = IF full = {} THEN list \o Matching(order) ELSE upTo(first)
    BY DEF Collected
  <2>5. full \subseteq 1..Len(order)
    BY <2>1
  <2>. HIDE DEF upTo
  <2>6. full # {} => first \in full
    <3>. HIDE DEF full
    <3>. SUFFICES ASSUME full # {} PROVE \E k \in full : \A j \in full : k <= j
      OBVIOUS
    <3>. QED
      BY <2>1, <2>5, FirstPlace
  <2>. HIDE DEF full, first
  <2>. QED
    BY <2>2, <2>3, <2>4, <2>5, <2>6
<1>. QED
  BY <1>1, <1>2

(* Every discovery that does not fail gives a list of URLs.                *)
LEMMA DiscoveriesAreLists == \A urls \in Discoveries \ {Failed} : IsList(urls)
<1>1. \A list \in FallbackLists : IsList(list)
  <2>1. IsList(<<>>)
    <3>1. <<>> \in Seq({})
      OBVIOUS
    <3>. QED
      BY <3>1, Lists
  <2>. QED
    BY <2>1, Collections DEF FallbackLists
<1>2. \A msgs, list : \A order \in SetToSeqs(Range(Cached(msgs, list)) \ {None}) : IsList(order)
  <2>. SUFFICES ASSUME NEW msgs, NEW list,
                       NEW order \in SetToSeqs(Range(Cached(msgs, list)) \ {None})
                PROVE  IsList(order)
    OBVIOUS
  <2>. DEFINE cache == Cached(msgs, list)
              nodes == Range(cache) \ {None}
  <2>1. IsFiniteSet(Range(cache))
    <3>1. DOMAIN cache = Ids
      BY DEF Cached
    <3>. HIDE DEF cache
    <3>2. cache = [i \in Ids |-> cache[i]]
      <4>1. cache = [i \in DOMAIN cache |-> cache[i]]
        BY DEF cache, Cached
      <4>. QED
        BY <3>1, <4>1
    <3>3. cache \in Surjection(Ids, Range(cache))
      BY <3>1, <3>2 DEF Range, Surjection
    <3>. QED
      BY <3>3, FS_Surjection, GossipAssumption DEF ExistsSurjection
  <2>2. Cardinality(nodes) \in Nat
    <3>1. IsFiniteSet(nodes)
      <4>1. nodes \subseteq Range(cache)
        OBVIOUS
      <4>. HIDE DEF nodes, cache
      <4>. QED
        BY <2>1, <4>1, FS_Subset
    <3>. HIDE DEF nodes
    <3>. QED
      BY <3>1, FS_CardinalityType
  <2>3. order \in [1..Cardinality(nodes) -> nodes]
    BY DEF SetToSeqs
  <2>. HIDE DEF nodes
  <2>4. order \in Seq(nodes)
    BY <2>2, <2>3
  <2>. QED
    BY <2>4, Lists
<1>3. \A msgs : \A list \in Discovered(msgs) : IsList(list)
  <2>. SUFFICES ASSUME NEW msgs, NEW list \in Discovered(msgs) PROVE IsList(list)
    OBVIOUS
  <2>1. PICK found \in FallbackLists :
             list \in {Collected(found, order) :
                         order \in SetToSeqs(Range(Cached(msgs, found)) \ {None})}
    BY DEF Discovered
  <2>2. PICK order \in SetToSeqs(Range(Cached(msgs, found)) \ {None}) :
             list = Collected(found, order)
    BY <2>1
  <2>. QED
    BY <1>1, <1>2, <2>2, Collections
<1>4. \A list \in UNION {Discovered(msgs) : msgs \in Heard} : IsList(RpcUrls(list))
  BY <1>3, ListsMade
<1>5. \A urls \in QuickDiscoveries : IsList(urls)
  BY Collections, ListsMade DEF QuickDiscoveries
<1>. QED
  BY <1>4, <1>5 DEF Discoveries

-----------------------------------------------------------------------------
(* The pool                                                                *)

AllUrls == UNION {Range(urls) : urls \in (Discoveries \ {Failed}) \cup {References}}

\* The endpoints of a pool: no URL twice.
Pools ==
    {eps \in Seq([url : AllUrls, healthy : BOOLEAN]) :
        \A i, j \in DOMAIN eps : eps[i].url = eps[j].url => i = j}

\* The endpoints keep their places, whatever their flags.
Kept(eps, new) ==
    /\ DOMAIN eps \subseteq DOMAIN new
    /\ \A i \in DOMAIN eps : new[i].url = eps[i].url

(* What a pool is.                                                         *)
LEMMA PoolIs ==
    ASSUME NEW eps \in Pools
    PROVE  /\ Len(eps) \in Nat /\ DOMAIN eps = 1..Len(eps)
           /\ eps = [i \in 1..Len(eps) |-> eps[i]]
           /\ \A i \in 1..Len(eps) : /\ eps[i] \in [url : AllUrls, healthy : BOOLEAN]
                                     /\ eps[i].url \in AllUrls
           /\ \A i, j \in 1..Len(eps) : eps[i].url = eps[j].url => i = j
<1>1. eps \in Seq([url : AllUrls, healthy : BOOLEAN])
  BY DEF Pools
<1>2. Len(eps) \in Nat /\ DOMAIN eps = 1..Len(eps) /\ eps = [i \in 1..Len(eps) |-> eps[i]]
  BY <1>1
<1>3. \A i \in 1..Len(eps) : eps[i] \in [url : AllUrls, healthy : BOOLEAN]
  <2>. DEFINE R == [url : AllUrls, healthy : BOOLEAN]
  <2>. HIDE DEF R
  <2>. QED
    BY <1>1, ElementOfSeq DEF R
<1>. QED
  BY <1>2, <1>3 DEF Pools

(* NewSmartPool and rediscoverEndpoints add a URL that is not there.       *)
LEMMA WithUrlOK ==
    ASSUME NEW eps \in Pools, NEW url \in AllUrls
    PROVE  WithUrl(eps, url) \in Pools /\ Kept(eps, WithUrl(eps, url))
<1>1. CASE url \in {e.url : e \in Range(eps)}
  BY <1>1 DEF WithUrl, Kept
<1>2. CASE url \notin {e.url : e \in Range(eps)}
  <2>. DEFINE e == [url |-> url, healthy |-> TRUE]
              n == Len(eps)
              new == Append(eps, e)
  <2>1. WithUrl(eps, url) = new
    BY <1>2 DEF WithUrl
  <2>2. n \in Nat /\ DOMAIN eps = 1..n /\ eps \in Seq([url : AllUrls, healthy : BOOLEAN])
    BY PoolIs DEF Pools
  <2>3. e \in [url : AllUrls, healthy : BOOLEAN] /\ e.url = url
    OBVIOUS
  <2>4. \A i \in 1..n : eps[i].url # url
    BY <1>2, <2>2 DEF Range
  <2>. HIDE DEF e, n
  <2>5. /\ new \in Seq([url : AllUrls, healthy : BOOLEAN])
        /\ DOMAIN new = 1..n + 1 /\ new[n + 1] = e
        /\ \A i \in 1..n : new[i] = eps[i]
    BY <2>2, <2>3, AppendProperties DEF n
  <2>. HIDE DEF new
  <2>6. \A i, j \in 1..n + 1 : new[i].url = new[j].url => i = j
    <3>. SUFFICES ASSUME NEW i \in 1..n + 1, NEW j \in 1..n + 1, new[i].url = new[j].url
                  PROVE  i = j
      OBVIOUS
    <3>1. \A k \in 1..n + 1 : k \in 1..n \/ k = n + 1
      BY <2>2
    <3>2. CASE i \in 1..n /\ j \in 1..n
      BY <2>2, <2>5, <3>2, PoolIs
    <3>3. CASE i \in 1..n /\ j = n + 1
      BY <2>3, <2>4, <2>5, <3>3
    <3>4. CASE i = n + 1 /\ j \in 1..n
      BY <2>3, <2>4, <2>5, <3>4
    <3>. QED
      BY <3>1, <3>2, <3>3, <3>4
  <2>7. Kept(eps, new)
    <3>1. 1..n \subseteq 1..n + 1
      BY <2>2
    <3>. QED
      BY <2>2, <2>5, <3>1 DEF Kept
  <2>. QED
    BY <2>1, <2>5, <2>6, <2>7 DEF Pools
<1>. QED
  BY <1>1, <1>2

(* And so do they with a list of URLs.                                     *)
LEMMA WithUrlsOK ==
    ASSUME NEW eps \in Pools, NEW urls, IsList(urls), Range(urls) \subseteq AllUrls
    PROVE  WithUrls(eps, urls) \in Pools /\ Kept(eps, WithUrls(eps, urls))
<1>. DEFINE U == {new \in Pools : Kept(eps, new)}
            n == Len(urls)
            op(i, new) == WithUrl(new, urls[i])
            F == [p \in U \X (1..n) |-> op(p[2], p[1])]
            Unfolds(iter) == iter = [T \in SUBSET (DOMAIN urls) |->
                                IF T = {} THEN eps ELSE op(Max(T), iter[T \ {Max(T)}])]
            it == CHOOSE iter : Unfolds(iter)
<1>1. n \in Nat /\ DOMAIN urls = 1..n
  BY Lists
<1>2. eps \in U
  BY DEF Kept
<1>3. \A i \in 1..n, new \in U : op(i, new) \in U
  <2>. SUFFICES ASSUME NEW i \in 1..n, NEW new \in U PROVE op(i, new) \in U
    OBVIOUS
  <2>1. urls[i] \in AllUrls
    BY <1>1 DEF Range
  <2>2. WithUrl(new, urls[i]) \in Pools /\ Kept(new, WithUrl(new, urls[i]))
    BY <2>1, WithUrlOK
  <2>3. Kept(eps, WithUrl(new, urls[i]))
    BY <2>2 DEF Kept
  <2>. QED
    BY <2>2, <2>3
<1>4. WithUrls(eps, urls) = it[1..n]
  <2>1. WithUrls(eps, urls) = it[DOMAIN urls]
    BY DEF WithUrls, FoldLeft, MapThenFoldSet
  <2>. QED
    BY <1>1, <2>1
<1>5. F \in [U \X (1..n) -> U]
  <2>. HIDE DEF op, U
  <2>. QED
    BY <1>3
<1>6. PICK iter \in [SUBSET (1..n) -> U] : FoldsTo(iter, F, eps, n)
  <2>. HIDE DEF F, n, U
  <2>. QED
    BY <1>1, <1>2, <1>5, FoldExists
<1>7. \A T \in SUBSET (1..n) : T # {} => Max(T) \in 1..n
  <2>. HIDE DEF n
  <2>. QED
    BY <1>1, LastPlace
<1>. HIDE DEF op, U
<1>8. Unfolds(iter)
  BY <1>1, <1>6, <1>7 DEF FoldsTo
<1>9. Unfolds(it)
  BY <1>8
<1>. HIDE DEF it, n
<1>10. it[{}] \in U
  BY <1>1, <1>2, <1>9
<1>11. \A T \in SUBSET (1..n) : T # {} /\ it[T \ {Max(T)}] \in U => it[T] \in U
  <2>. SUFFICES ASSUME NEW T \in SUBSET (1..n), T # {}, it[T \ {Max(T)}] \in U PROVE it[T] \in U
    OBVIOUS
  <2>1. it[T] = op(Max(T), it[T \ {Max(T)}])
    BY <1>1, <1>9
  <2>. QED
    BY <1>3, <1>7, <2>1
<1>12. it[1..n] \in U
  BY <1>1, <1>10, <1>11, FoldKeeps
<1>. QED
  BY <1>4, <1>12 DEF U

(* A function with the places of a pool and its URLs is a pool.            *)
LEMMA SamePlaces ==
    ASSUME NEW eps \in Pools, NEW new, new = [i \in 1..Len(eps) |-> new[i]],
           \A i \in 1..Len(eps) : /\ new[i] \in [url : AllUrls, healthy : BOOLEAN]
                                  /\ new[i].url = eps[i].url
    PROVE  new \in Pools /\ Kept(eps, new)
<1>. DEFINE n == Len(eps)
            R == [url : AllUrls, healthy : BOOLEAN]
<1>1. n \in Nat /\ DOMAIN eps = 1..n /\ DOMAIN new = 1..n /\ \A i \in 1..n : new[i] \in R
  BY PoolIs
<1>2. new \in Seq(R)
  <2>. HIDE DEF R, n
  <2>1. new = [i \in 1..n |-> new[i]]
    BY DEF n
  <2>2. new \in [1..n -> R]
    BY <1>1, <2>1
  <2>. QED
    BY <1>1, <2>2, SeqDef
<1>3. \A i, j \in 1..n : new[i].url = new[j].url => i = j
  BY PoolIs
<1>. QED
  BY <1>1, <1>2, <1>3 DEF Pools, Kept

(* MarkHealthy and MarkUnhealthy only change flags ...                     *)
LEMMA MarkedOK ==
    ASSUME endpoints \in Pools, NEW url, NEW healthy \in BOOLEAN
    PROVE  Marked(url, healthy) \in Pools /\ Kept(endpoints, Marked(url, healthy))
<1>. DEFINE n == Len(endpoints)
            R == [url : AllUrls, healthy : BOOLEAN]
            new == Marked(url, healthy)
<1>1. n \in Nat /\ DOMAIN endpoints = 1..n /\ \A i \in 1..n : endpoints[i] \in R
  BY PoolIs
<1>2. new = [i \in 1..n |-> new[i]]
  BY <1>1 DEF Marked
<1>3. \A i \in 1..n : new[i] \in R /\ new[i].url = endpoints[i].url
  <2>. SUFFICES ASSUME NEW i \in 1..n PROVE new[i] \in R /\ new[i].url = endpoints[i].url
    OBVIOUS
  <2>1. new[i] = IF endpoints[i].url = url THEN [endpoints[i] EXCEPT !.healthy = healthy]
                 ELSE endpoints[i]
    BY <1>1 DEF Marked
  <2>2. endpoints[i] \in R
    BY <1>1
  <2>. HIDE DEF new
  <2>. QED
    BY <2>1, <2>2
<1>4. new \in Pools /\ Kept(endpoints, new)
  <2>. HIDE DEF new
  <2>. QED
    BY <1>2, <1>3, SamePlaces
<1>. QED
  BY <1>4

(* ... and so does a health check.                                         *)
LEMMA CheckedOK ==
    ASSUME endpoints \in Pools, NEW k \in DOMAIN endpoints, NEW healthy \in BOOLEAN,
           NEW new, new = [endpoints EXCEPT ![k].healthy = healthy]
    PROVE  new \in Pools /\ Kept(endpoints, new)
<1>. DEFINE n == Len(endpoints)
            R == [url : AllUrls, healthy : BOOLEAN]
<1>1. n \in Nat /\ DOMAIN endpoints = 1..n /\ \A i \in 1..n : endpoints[i] \in R
  BY PoolIs
<1>2. new = [i \in 1..n |-> new[i]] /\ DOMAIN new = 1..n
  BY <1>1
<1>3. \A i \in 1..n : new[i] \in R /\ new[i].url = endpoints[i].url
  <2>. SUFFICES ASSUME NEW i \in 1..n PROVE new[i] \in R /\ new[i].url = endpoints[i].url
    OBVIOUS
  <2>1. new[i] = IF i = k THEN [endpoints[i] EXCEPT !.healthy = healthy] ELSE endpoints[i]
    BY <1>1
  <2>2. endpoints[i] \in R
    BY <1>1
  <2>. QED
    BY <2>1, <2>2
<1>. QED
  BY <1>2, <1>3, SamePlaces

(* GetEndpoint leaves the index at an endpoint there is.                   *)
LEMMA GetEndpointOK ==
    ASSUME endpoints \in Pools, idx \in DOMAIN endpoints, NEW url, GetEndpoint(url)
    PROVE  idx' \in DOMAIN endpoints
<1>. DEFINE n == Len(endpoints)
<1>1. n \in Nat \ {0} /\ DOMAIN endpoints = 1..n /\ idx \in 1..n
  BY PoolIs
<1>2. CASE Healthy = {}
  BY <1>2 DEF GetEndpoint
<1>3. CASE Healthy # {}
  <2>. DEFINE Turns == {Turn(i) : i \in Healthy}
  <2>1. \A i \in Healthy : i \in 1..n /\ Turn(i) \in Nat
    <3>1. \A i \in Healthy : i \in 1..n
      BY <1>1 DEF Healthy
    <3>2. \A i \in 1..n : (i - idx) % n \in Nat
      <4>. HIDE DEF n
      <4>. QED
        BY <1>1
    <3>. QED
      BY <3>1, <3>2 DEF Turn
  <2>2. Turns \in SUBSET Nat /\ Turns # {}
    BY <1>3, <2>1
  <2>3. PICK x \in Turns : \A y \in Turns : x <= y
    <3>. HIDE DEF Turns
    <3>. QED
      BY <2>2, FirstPlace
  <2>4. \E i \in Healthy : \A j \in Healthy : Turn(i) <= Turn(j)
    BY <2>3
  <2>5. Picked \in Healthy
    BY <1>3, <2>4 DEF Picked
  <2>6. Picked \in 1..n
    BY <2>1, <2>5
  <2>. HIDE DEF Turns
  <2>7. idx' = (Picked % n) + 1
    BY <1>3 DEF GetEndpoint
  <2>8. \A p \in 1..n : (p % n) + 1 \in 1..n
    <3>. HIDE DEF n
    <3>. QED
      BY <1>1
  <2>. QED
    BY <1>1, <2>6, <2>7, <2>8
<1>. QED
  BY <1>2, <1>3

(* What an answer can be.                                                  *)
LEMMA AnswersAre ==
    ASSUME NEW u, NEW right, NEW wrong, NEW reply \in Replies(u, right, wrong),
           \A got \in right \cup wrong : got.kind \in {"down", "error", "missing", "unavailable", "null", "result"},
           faults \in 0..MaxFaults
    PROVE  /\ reply.got \in right \cup wrong \cup {Other("down")}
           /\ reply.got.kind \in {"down", "error", "missing", "unavailable", "null", "result"}
           /\ reply.faults \in 0..MaxFaults
<1>1. reply.got \in right \cup wrong \cup {Other("down")}
  BY DEF Replies
<1>2. reply.faults \in {faults} \cup ({faults + 1} \cap 0..MaxFaults)
  BY DEF Replies
<1>. QED
  BY <1>1, <1>2 DEF Other

(* A call that is settled leaves a pool.                                   *)
LEMMA SettledOK ==
    ASSUME endpoints \in Pools, faults \in 0..MaxFaults, NEW u, NEW slot,
           NEW reply \in GetSlot(u) \cup GetBlock(u, slot), Settled(u, reply)
    PROVE  endpoints' \in Pools /\ Kept(endpoints, endpoints') /\ faults' \in 0..MaxFaults
<1>1. reply.got.kind \in {"down", "error", "missing", "unavailable", "null", "result"} /\ reply.faults \in 0..MaxFaults
  <2>1. CASE reply \in GetSlot(u)
    BY <2>1, AnswersAre DEF GetSlot, Result, Other
  <2>2. CASE reply \in GetBlock(u, slot)
    <3>. DEFINE kinds == {"down", "error", "missing", "unavailable", "null", "result"}
                wrong == {Result(r) : r \in BadAnswers}
                           \cup {Other(k) : k \in {"down", "error", "null", "missing", "unavailable"}}
    <3>1. \A got \in TrueAnswers(slot) : got.kind \in kinds
      BY TrueAnswersAre DEF Result
    <3>2. \A got \in wrong : got.kind \in kinds
      BY DEF Result, Other
    <3>3. reply \in Replies(u, TrueAnswers(slot), wrong)
      BY <2>2 DEF GetBlock
    <3>. QED
      BY <3>1, <3>2, <3>3, AnswersAre
  <2>. QED
    BY <2>1, <2>2
<1>2. endpoints' = Mark(u, reply.got) /\ faults' = reply.faults
  BY DEF Settled
<1>3. \/ Mark(u, reply.got) = endpoints
      \/ \E healthy \in BOOLEAN : Mark(u, reply.got) = Marked(u, healthy)
  BY <1>1 DEF Mark
<1>4. Kept(endpoints, endpoints)
  BY DEF Kept
<1>. QED
  BY <1>1, <1>2, <1>3, <1>4, MarkedOK

-----------------------------------------------------------------------------
(* The types                                                               *)

\* The pool, and the health check in progress.
PoolOK ==
    /\ endpoints \in Pools
    /\ IF endpoints = <<>> THEN idx = 1 ELSE idx \in DOMAIN endpoints
    /\ faults \in 0..MaxFaults /\ cancelled \in BOOLEAN
    /\ check = None \/ check \in [ref : Slots, todo : SUBSET DOMAIN endpoints]

\* The calls in progress, and the channel.
CallsOK ==
    /\ polling \in {"off", "idle"} \cup Urls
    /\ asked \in IF fetching = "ask" THEN Urls ELSE {None}
    /\ Len(blocks) <= ChanSize
    /\ main = "discover" => endpoints = <<>> /\ polling = "off" /\ check = None

(* No step takes an endpoint away or moves it.                             *)
LEMMA EndpointsKept ==
    ASSUME IInv, PoolOK, CallsOK, [Next]_vars
    PROVE  endpoints' \in Pools /\ Kept(endpoints, endpoints') /\ faults' \in 0..MaxFaults
<1>0. endpoints \in Pools /\ faults \in 0..MaxFaults
  BY DEF PoolOK
<1>1. Kept(endpoints, endpoints)
  BY DEF Kept
<1>2. ASSUME UNCHANGED <<endpoints, faults>>
      PROVE  endpoints' \in Pools /\ Kept(endpoints, endpoints') /\ faults' \in 0..MaxFaults
  BY <1>0, <1>1, <1>2
<1>3. CASE UNCHANGED vars \/ Signal \/ Exited \/ ConnectAt \/ ConnectAsk \/ Process \/ Stop \/ Close
           \/ PollAsk \/ PollStop \/ Status
  BY <1>2, <1>3 DEF Signal, Exited, ConnectAt, ConnectAsk, Process, Stop, Close, PollAsk, PollStop,
                    Status, vars, poolVars
<1>4. CASE FetchAsk \/ Send \/ DropOldest \/ Resend \/ FetchStop
  BY <1>2, <1>4 DEF FetchAsk, Send, DropOldest, Resend, FetchStop, poolVars
<1>5. \A urls \in (Discoveries \ {Failed}) \cup {References} :
         IsList(urls) /\ Range(urls) \subseteq AllUrls
  BY DiscoveriesAreLists, PoolAssumption DEF AllUrls, IsList
<1>6. CASE MakePool
  <2>1. endpoints = <<>> /\ UNCHANGED faults
    BY <1>6 DEF MakePool, CallsOK
  <2>2. \E urls \in (Discoveries \ {Failed}) \cup {References} : endpoints' = WithUrls(<<>>, urls)
    BY <1>6 DEF MakePool
  <2>. QED
    BY <1>0, <1>5, <2>1, <2>2, WithUrlsOK
<1>7. CASE ConnectAnswer \/ PollAnswer
  <2>1. \E reply \in GetSlot(polling) : Settled(polling, reply)
    BY <1>7 DEF ConnectAnswer, PollAnswer
  <2>. QED
    BY <1>0, <2>1, SettledOK
<1>8. CASE FetchAnswer
  <2>1. \E reply \in GetBlock(asked, next) : Settled(asked, reply)
    BY <1>8 DEF FetchAnswer
  <2>. QED
    BY <1>0, <2>1, SettledOK
<1>9. ASSUME NEW u, NEW reply \in SlotReplies(u) PROVE reply.faults \in 0..MaxFaults
  BY <1>0, <1>9, AnswersAre DEF SlotReplies, Result, Other
<1>10. CASE PoolNext
  <2>1. CASE Advance
    BY <1>2, <2>1 DEF Advance, poolVars
  <2>2. CASE BeginCheck
    <3>. DEFINE failing(k) == {j \in 1..k-1 : References[j] \notin Down}
    <3>0. PICK k \in DOMAIN References :
             \E reply \in SlotReplies(References[k]) :
                faults' = reply.faults + Cardinality(failing(k)) /\ faults' <= MaxFaults
      BY <2>2 DEF BeginCheck
    <3>1. PICK reply \in SlotReplies(References[k]) :
             faults' = reply.faults + Cardinality(failing(k)) /\ faults' <= MaxFaults
      BY <3>0
    <3>2. Cardinality(failing(k)) \in Nat
      <4>1. k - 1 \in Int
        BY PoolAssumption
      <4>2. IsFiniteSet(1..k-1)
        BY <4>1, FS_Interval
      <4>3. failing(k) \subseteq 1..k-1
        OBVIOUS
      <4>. HIDE DEF failing
      <4>. QED
        BY <4>2, <4>3, FS_Subset, FS_CardinalityType
    <3>. HIDE DEF failing
    <3>3. faults' \in 0..MaxFaults
      BY <1>9, <3>1, <3>2
    <3>4. UNCHANGED endpoints
      BY <2>2 DEF BeginCheck
    <3>. QED
      BY <1>0, <1>1, <3>3, <3>4
  <2>3. CASE CheckEndpoint
    <3>0. PICK i \in check.todo :
             \E reply \in SlotReplies(endpoints[i].url) :
                /\ endpoints' = [endpoints EXCEPT ![i].healthy = Checked(i, reply.got)]
                /\ faults' = reply.faults
      BY <2>3 DEF CheckEndpoint
    <3>1. PICK reply \in SlotReplies(endpoints[i].url) :
             /\ endpoints' = [endpoints EXCEPT ![i].healthy = Checked(i, reply.got)]
             /\ faults' = reply.faults
      BY <3>0
    <3>2. i \in DOMAIN endpoints /\ Checked(i, reply.got) \in BOOLEAN
      BY <2>3 DEF CheckEndpoint, Checked, PoolOK
    <3>. QED
      BY <1>0, <1>9, <3>1, <3>2, CheckedOK
  <2>4. CASE Rediscover
    <3>1. \E urls \in Discoveries \ {Failed} : endpoints' = WithUrls(endpoints, urls)
      BY <2>4 DEF Rediscover
    <3>2. UNCHANGED faults
      BY <2>4 DEF Rediscover
    <3>. QED
      BY <1>0, <1>5, <3>1, <3>2, WithUrlsOK
  <2>. QED
    BY <1>10, <2>1, <2>2, <2>3, <2>4 DEF PoolNext
<1>. QED
  BY <1>3, <1>4, <1>6, <1>7, <1>8, <1>10 DEF Next, MainNext, PollNext, FetchNext

(* The pool stays one, its index in it, and a health check checks what is  *)
(* there.                                                                  *)
LEMMA PoolStep == IInv /\ PoolOK /\ CallsOK /\ [Next]_vars => PoolOK'
<1>. SUFFICES ASSUME IInv, PoolOK, CallsOK, [Next]_vars PROVE PoolOK'
  OBVIOUS
<1>1. endpoints' \in Pools /\ Kept(endpoints, endpoints') /\ faults' \in 0..MaxFaults
  BY EndpointsKept
<1>2. DOMAIN endpoints \subseteq DOMAIN endpoints'
  BY <1>1 DEF Kept
<1>3. \A eps \in Pools : eps = <<>> \/ 1 \in DOMAIN eps
  <2>. SUFFICES ASSUME NEW eps \in Pools, eps # <<>> PROVE 1 \in DOMAIN eps
    OBVIOUS
  <2>1. eps \in Seq([url : AllUrls, healthy : BOOLEAN])
    BY DEF Pools
  <2>. DEFINE R == [url : AllUrls, healthy : BOOLEAN]
  <2>. HIDE DEF R
  <2>. QED
    BY <2>1, EmptySeq DEF R
<1>4. DOMAIN <<>> = {}
  OBVIOUS
<1>5. cancelled' \in BOOLEAN
  BY DEF PoolOK, Next, MainNext, PollNext, FetchNext, Around, PoolNext, Advance, BeginCheck,
     CheckEndpoint, Rediscover, Signal, Exited, MakePool, ConnectAt, ConnectAsk, ConnectAnswer,
     Process, Status, Stop, Close, PollAsk, PollAnswer, PollStop, FetchAsk, FetchAnswer, Send,
     DropOldest, Resend, FetchStop, vars
<1>6. \/ UNCHANGED idx
      \/ \E u \in Urls : GetEndpoint(u) /\ UNCHANGED endpoints
  BY DEF Next, MainNext, PollNext, FetchNext, Around, PoolNext, Advance, BeginCheck,
     CheckEndpoint, Rediscover, Signal, Exited, MakePool, ConnectAt, ConnectAsk, ConnectAnswer,
     Process, Status, Stop, Close, PollAsk, PollAnswer, PollStop, FetchAsk, FetchAnswer, Send,
     DropOldest, Resend, FetchStop, vars, poolVars
<1>7. IF endpoints' = <<>> THEN idx' = 1 ELSE idx' \in DOMAIN endpoints'
  <2>1. CASE UNCHANGED idx
    BY <1>1, <1>2, <1>3, <1>4, <2>1 DEF PoolOK
  <2>2. CASE \E u \in Urls : GetEndpoint(u) /\ UNCHANGED endpoints
    <3>1. endpoints # <<>>
      BY <2>2 DEF Urls, Range
    <3>2. idx' \in DOMAIN endpoints
      BY <2>2, <3>1, GetEndpointOK DEF PoolOK
    <3>. QED
      BY <2>2, <3>1, <3>2
  <2>. QED
    BY <1>6, <2>1, <2>2
<1>8. check' = None \/ check' \in [ref : Slots, todo : SUBSET DOMAIN endpoints']
  <2>1. CASE UNCHANGED check
    BY <1>2, <2>1 DEF PoolOK
  <2>2. CASE BeginCheck
    <3>0. PICK k \in DOMAIN References :
             \E reply \in SlotReplies(References[k]) :
                /\ reply.got.kind = "result"
                /\ check' = [ref |-> reply.got.value, todo |-> DOMAIN endpoints]
      BY <2>2 DEF BeginCheck
    <3>1. PICK reply \in SlotReplies(References[k]) :
             /\ reply.got.kind = "result"
             /\ check' = [ref |-> reply.got.value, todo |-> DOMAIN endpoints]
      BY <3>0
    <3>2. reply.got \in {Result(tip)} \cup {Result(s) : s \in WrongSlots} \cup {Other("down")}
      BY DEF SlotReplies, Replies
    <3>3. reply.got.value \in Slots
      BY <3>1, <3>2, PoolAssumption DEF Result, Other, IInv, SlotTypes
    <3>. QED
      BY <1>2, <3>1, <3>3
  <2>3. CASE CheckEndpoint
    <3>1. check \in [ref : Slots, todo : SUBSET DOMAIN endpoints]
      BY <2>3 DEF CheckEndpoint, PoolOK
    <3>2. \/ check' = None
          \/ \E i \in check.todo : check' = [check EXCEPT !.todo = @ \ {i}]
      BY <2>3 DEF CheckEndpoint
    <3>. QED
      BY <1>2, <3>1, <3>2
  <2>4. UNCHANGED check \/ BeginCheck \/ CheckEndpoint
    BY DEF Next, MainNext, PollNext, FetchNext, Around, PoolNext, Advance, Rediscover, Signal,
       Exited, MakePool, ConnectAt, ConnectAsk, ConnectAnswer, Process, Status, Stop, Close, PollAsk,
       PollAnswer, PollStop, FetchAsk, FetchAnswer, Send, DropOldest, Resend, FetchStop, vars,
       poolVars
  <2>. QED
    BY <2>1, <2>2, <2>3, <2>4
<1>. QED
  BY <1>1, <1>5, <1>7, <1>8 DEF PoolOK

(* Whoever waits for an endpoint waits for one of the pool's, and the      *)
(* channel is not overfilled.                                              *)
LEMMA CallsStep == IInv /\ PoolOK /\ CallsOK /\ [Next]_vars => CallsOK'
<1>. SUFFICES ASSUME IInv, PoolOK, CallsOK, [Next]_vars PROVE CallsOK'
  OBVIOUS
<1>1. Urls \subseteq Urls'
  BY EndpointsKept DEF Kept, Urls, Range
<1>2. polling' \in {"off", "idle"} \cup Urls'
  <2>1. polling' \in {polling, "off", "idle"} \cup Urls
    BY DEF Next, MainNext, PollNext, FetchNext, Around, Loops, Signal, Exited, MakePool,
       ConnectAt, ConnectAsk, ConnectAnswer, Process, Status, Stop, Close, PollAsk, PollAnswer, PollStop,
       FetchAsk, FetchAnswer, Send, DropOldest, Resend, FetchStop, vars, pollVars
  <2>. QED
    BY <1>1, <2>1 DEF CallsOK
<1>3. asked' \in IF fetching' = "ask" THEN Urls' ELSE {None}
  <2>1. CASE FetchAsk
    BY <1>1, <2>1 DEF FetchAsk
  <2>2. CASE FetchAnswer
    BY <2>2 DEF FetchAnswer
  <2>3. CASE Send \/ DropOldest \/ Resend \/ FetchStop
    BY <2>3 DEF Send, DropOldest, Resend, FetchStop, Sent, CallsOK
  <2>4. CASE ConnectAt \/ ConnectAnswer
    BY <2>4 DEF ConnectAt, ConnectAnswer, Loops, CallsOK, IInv, ControlOK, Begun, fetchVars
  <2>5. CASE UNCHANGED <<asked, fetching>>
    BY <1>1, <2>5 DEF CallsOK
  <2>. QED
    BY <2>1, <2>2, <2>3, <2>4, <2>5
    DEF Next, MainNext, PollNext, FetchNext, Around, Signal, Exited, MakePool, ConnectAsk,
        Process, Status, Stop, Close, PollAsk, PollAnswer, PollStop, vars, fetchVars
<1>4. Len(blocks') <= ChanSize
  <2>1. blocks \in Seq(Blocks) /\ ChanSize \in Nat /\ Len(blocks) \in Nat
    BY FetcherAssumption DEF IInv, SlotTypes
  <2>2. \/ UNCHANGED blocks
        \/ blocks' = Append(blocks, block) /\ Len(blocks) < ChanSize
        \/ blocks # <<>> /\ blocks' = Tail(blocks)
    BY DEF Next, MainNext, PollNext, FetchNext, Around, Loops, Signal, Exited, MakePool,
       ConnectAt, ConnectAsk, ConnectAnswer, Process, Status, Stop, Close, PollAsk, PollAnswer, PollStop,
       FetchAsk, FetchAnswer, Send, Sent, DropOldest, Resend, FetchStop, vars, fetchVars
  <2>3. CASE blocks' = Append(blocks, block) /\ Len(blocks) < ChanSize
    <3>1. Len(blocks') = Len(blocks) + 1
      BY <2>1, <2>3
    <3>. QED
      BY <2>1, <2>3, <3>1
  <2>4. CASE blocks # <<>> /\ blocks' = Tail(blocks)
    <3>1. Len(blocks') = Len(blocks) - 1
      BY <2>1, <2>4, HeadTailProperties
    <3>. QED
      BY <2>1, <3>1 DEF CallsOK
  <2>. QED
    BY <2>2, <2>3, <2>4 DEF CallsOK
<1>5. main' = "discover" => endpoints' = <<>> /\ polling' = "off" /\ check' = None
  <2>. SUFFICES ASSUME main' = "discover" PROVE endpoints' = <<>> /\ polling' = "off" /\ check' = None
    OBVIOUS
  <2>1. main = "discover"
    BY DEF Next, MainNext, PollNext, FetchNext, Around, Loops, Signal, Exited, MakePool,
       ConnectAt, ConnectAsk, ConnectAnswer, Process, Status, Stop, Close, PollAsk, PollAnswer, PollStop,
       FetchAsk, FetchAnswer, Send, DropOldest, Resend, FetchStop, vars, mainVars
  <2>2. endpoints = <<>> /\ polling = "off" /\ check = None /\ fetching = "off" /\ blocks = <<>>
    BY <2>1 DEF CallsOK, IInv, ControlOK, Begun
  <2>3. CASE Around /\ PoolNext
    BY <2>2, <2>3 DEF Around, PoolNext, Advance, BeginCheck, CheckEndpoint, Rediscover,
                      pollVars, poolVars
  <2>4. CASE Signal \/ Exited \/ UNCHANGED vars
    BY <2>2, <2>4 DEF Signal, Exited, vars, pollVars, poolVars
  <2>5. ~ MainNext
    BY <2>1 DEF MainNext, MakePool, ConnectAt, ConnectAsk, ConnectAnswer, Process, Stop, Close
  <2>6. ~ PollNext /\ ~ FetchNext
    BY <2>1, <2>2 DEF PollNext, FetchNext, PollAsk, PollAnswer, PollStop,
       FetchAsk, FetchAnswer, Send, DropOldest, Resend, FetchStop
  <2>7. ~ Status
    BY <2>1 DEF Status
  <2>. QED
    BY <2>3, <2>4, <2>5, <2>6, <2>7 DEF Next
<1>. QED
  BY <1>2, <1>3, <1>4, <1>5 DEF CallsOK

(* What the invariants say of the types.                                   *)
LEMMA Types == IInv /\ PoolOK /\ CallsOK => TypeOK
<1>. SUFFICES ASSUME IInv, PoolOK, CallsOK PROVE TypeOK
  OBVIOUS
<1>1. PoolTypeOK
  <2>1. \A i, j \in DOMAIN endpoints : endpoints[i].url = endpoints[j].url => i = j
    BY DEF PoolOK, Pools
  <2>2. IsInjective([i \in DOMAIN endpoints |-> endpoints[i].url])
    BY <2>1 DEF IsInjective
  <2>. QED
    BY <2>2 DEF PoolTypeOK, PoolOK, IInv, SlotTypes
<1>2. dropped \cup saidSkipped \subseteq Slots
  <2>1. CASE Begun
    <3>1. dropped \cup saidSkipped \subseteq start..next-1
      BY <2>1 DEF IInv, SlotsAccounted, Begun
    <3>2. start \in Slots /\ next \in 0..MaxSlot + 1 /\ MaxSlot \in Nat
      BY <2>1, PoolAssumption DEF IInv, SlotTypes
    <3>3. start..next-1 \subseteq Slots
      BY <3>2 DEF Slots
    <3>. QED
      BY <3>1, <3>3
  <2>2. CASE ~Begun
    BY <2>2 DEF IInv, ControlOK
  <2>. QED
    BY <2>1, <2>2
<1>. QED
  BY <1>1, <1>2 DEF TypeOK, CallsOK, IInv, SlotTypes, ControlOK

(* SmartPool, main.go:230: no URL is in the pool twice, its index names an *)
(* endpoint whatever is added, and what the loops and the health check     *)
(* wait for is in it; the channel holds ChanSize blocks at most.           *)
THEOREM TypeCorrect == Spec => []TypeOK
<1>1. Init => PoolOK /\ CallsOK
  <2>1. <<>> \in Pools
    <3>1. \A R : <<>> \in Seq(R)
      OBVIOUS
    <3>. QED
      BY <3>1 DEF Pools
  <2>2. Init => PoolOK
    <3>1. 0 \in 0..MaxFaults
      BY PoolAssumption
    <3>. QED
      BY <2>1, <3>1 DEF Init, PoolInit, PoolOK
  <2>3. Init => CallsOK
    <3>1. Len(<<>>) = 0 /\ 0 <= ChanSize
      BY FetcherAssumption
    <3>. QED
      BY <3>1 DEF Init, PoolInit, CallsOK
  <2>. QED
    BY <2>2, <2>3
<1>2. IInv /\ PoolOK /\ CallsOK /\ [Next]_vars => IInv' /\ PoolOK' /\ CallsOK'
  BY SlotStep, ControlStep, AccountStep, PoolStep, CallsStep DEF IInv
<1>. QED
  BY <1>1, <1>2, InvInit, Types, PTL DEF Spec

=============================================================================
