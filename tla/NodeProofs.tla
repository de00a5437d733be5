----------------------------- MODULE NodeProofs -----------------------------
(***************************************************************************)
(* Proofs about Node for every chain, configuration and bound.             *)
(***************************************************************************)
EXTENDS Node, SequenceTheorems, TLAPS

InProgress == proc \in {"put", "replay", "exec"}

(* Where each loop is, and what it then holds.                             *)
ControlOK ==
    /\ InProgress => block \in Produced /\ block = expected
    /\ ~ InProgress => block = 0
    /\ proc # "exec" => txDone = 0
    /\ ingest \in {"evict", "push"} => ingestBlock \in Produced
    /\ ingest = "push" => Len(queue) < QueueCap
    /\ ~ Running => proc = "exited" /\ ingest = "exited" /\ rSlot = 0

(* The order of the slot counters, at every point of the processing loop.  *)
ProgressOK ==
    /\ dbLatest > 0 => dbLatest \in stored
    /\ Running => /\ latestCache = dbLatest
                  /\ currentSlot <= rSlot /\ rSlot <= dbLatest
                  /\ rSlot < expected
                  /\ IF proc \in {"replay", "exec"} THEN dbLatest = expected
                     ELSE dbLatest < expected

(* Nothing beyond the latest slot has been executed or replayed, and the   *)
(* block in progress only as far as the loop has come.                     *)
ExecOK ==
    /\ \A s \in Produced : s > dbLatest => execs[s] = 0
    /\ \A s \in Produced : execs[s] <= NumTxs
    /\ proc = "replay" => execs[block] = 0
    /\ proc = "exec" => execs[block] = txDone
    /\ \A s \in replayed : s <= dbLatest
    /\ proc \in {"replay", "exec"} => block \notin replayed

(* The replayer's slot was replayed or is where it was initialised, and a  *)
(* block under execution names it as parent.                               *)
LinkOK ==
    /\ rSlot > 0 => rSlot \in replayed \cup bases
    /\ proc = "exec" /\ rSlot > 0 => Parent[block] = rSlot

IInv ==
    /\ TypeOK
    /\ ControlOK
    /\ ProgressOK
    /\ ExecOK
    /\ LinkOK
    /\ LinkedReplay
    /\ NothingSkippedSilently

-----------------------------------------------------------------------------
(* Append and Tail keep blockQueue a sequence of blocks.                   *)
LEMMA QueueSteps ==
    ASSUME NEW q \in Seq(Produced), NEW s \in Produced
    PROVE  /\ Append(q, s) \in Seq(Produced)
           /\ Len(Append(q, s)) = Len(q) + 1
           /\ Len(q) \in Nat
           /\ q # <<>> => /\ Head(q) \in Produced
                          /\ Tail(q) \in Seq(Produced)
                          /\ Len(Tail(q)) = Len(q) - 1
<1>1. /\ Append(q, s) \in Seq(Produced)
      /\ Len(Append(q, s)) = Len(q) + 1
  BY AppendProperties
<1>2. Len(q) \in Nat
  BY LenProperties
<1>3. q # <<>> => /\ Head(q) \in Produced
                  /\ Tail(q) \in Seq(Produced)
                  /\ Len(Tail(q)) = Len(q) - 1
  BY HeadTailProperties
<1>. QED  BY <1>1, <1>2, <1>3

(* Types and control, which every other part of the invariant rests on.    *)
Basic == TypeOK /\ ControlOK

(* A node that has not been started.                                       *)
LEMMA BasicInit == Init => Basic
<1>1. <<>> \in Seq(Produced) /\ Len(<<>>) = 0
  OBVIOUS
<1>2. ASSUME Init PROVE TypeOK
  <2>1. StoreTypes /\ StatusTypes
    BY <1>2 DEF Init, StoreTypes, StatusTypes
  <2>2. IngestTypes
    BY <1>1, <1>2, ConfigAssumption DEF Init, IngestTypes
  <2>3. ProcTypes /\ HistoryTypes
    BY <1>2, ConfigAssumption DEF Init, ProcTypes, HistoryTypes
  <2>. QED  BY <2>1, <2>2, <2>3 DEF TypeOK
<1>3. ASSUME Init PROVE ControlOK
  BY <1>3, ConfigAssumption DEF Init, ControlOK, InProgress, Running
<1>. QED  BY <1>2, <1>3 DEF Basic

(* Every step keeps the types and what each loop holds at each step.       *)
LEMMA BasicStep == Basic /\ [Next]_vars => Basic'
<1>. SUFFICES ASSUME Basic, [Next]_vars
              PROVE  Basic'
  OBVIOUS
<1>. USE ChainAssumption, ConfigAssumption
<1>. USE DEF Basic, TypeOK, StoreTypes, StatusTypes, IngestTypes, ProcTypes,
             HistoryTypes, ControlOK, InProgress, Running, diskVars,
             cacheVars, ingestVars, procVars, statusVars, histVars
<1>1. CASE Start
  BY <1>1 DEF Start, ResumeSlot, FirstExpected, Streams
<1>2. CASE Crash
  <2>1. StoreTypes' /\ StatusTypes'
    BY <1>2 DEF Crash, GoDown
  <2>2. IngestTypes'
    BY <1>2 DEF Crash, GoDown
  <2>3. ProcTypes'
    BY <1>2 DEF Crash, GoDown
  <2>4. HistoryTypes'
    BY <1>2 DEF Crash, GoDown
  <2>5. ControlOK'
    BY <1>2 DEF Crash, GoDown
  <2>. QED  BY <2>1, <2>2, <2>3, <2>4, <2>5
<1>3. CASE BeginStop
  BY <1>3 DEF BeginStop
<1>4. CASE IngestExit
  BY <1>4 DEF IngestExit
<1>5. CASE ProcExit
  BY <1>5 DEF ProcExit
<1>6. CASE FinishStop
  <2>1. StoreTypes' /\ StatusTypes'
    BY <1>6 DEF FinishStop, GoDown
  <2>2. IngestTypes'
    BY <1>6 DEF FinishStop, GoDown
  <2>3. ProcTypes'
    BY <1>6 DEF FinishStop, GoDown
  <2>4. HistoryTypes'
    BY <1>6 DEF FinishStop, GoDown
  <2>5. ControlOK'
    BY <1>6 DEF FinishStop, GoDown
  <2>. QED  BY <2>1, <2>2, <2>3, <2>4, <2>5
<1>7. CASE Stream
  <2>. PICK s \in Produced : Receive(s)
    BY <1>7 DEF Stream
  <2>1. /\ Append(queue, s) \in Seq(Produced)
        /\ Len(queue) < QueueCap => Len(Append(queue, s)) <= QueueCap
    BY QueueSteps
  <2>2. StoreTypes' /\ ProcTypes' /\ HistoryTypes'
    BY DEF Receive
  <2>3. StatusTypes'
    BY DEF Receive, Larger
  <2>4. IngestTypes'
    BY <2>1 DEF Receive
  <2>5. ControlOK'
    BY <2>1 DEF Receive
  <2>. QED  BY <2>2, <2>3, <2>4, <2>5
<1>8. CASE EvictOldest
  BY SMTT(30), <1>8 DEF EvictOldest
<1>9. CASE PushBlock
  BY SMTT(30), <1>9 DEF PushBlock
<1>10. CASE \E s \in Produced : LoseBlock(s)
  BY <1>10 DEF LoseBlock
<1>11. CASE Resubscribe
  BY <1>11 DEF Resubscribe, Streams
<1>12. CASE TakeBlock
  <2>1. /\ Head(queue) \in Produced
        /\ Tail(queue) \in Seq(Produced)
        /\ Len(Tail(queue)) = Len(queue) - 1
    BY <1>12, QueueSteps DEF TakeBlock
  <2>2. StoreTypes' /\ StatusTypes' /\ HistoryTypes'
    BY <1>12 DEF TakeBlock
  <2>3. IngestTypes'
    BY <1>12, <2>1 DEF TakeBlock
  <2>4. ProcTypes'
    BY <1>12, <2>1 DEF TakeBlock
  <2>5. ControlOK'
    BY <1>12, <2>1 DEF TakeBlock
  <2>. QED  BY <2>2, <2>3, <2>4, <2>5
<1>13. CASE NextInOrder
  BY <1>13 DEF NextInOrder
<1>14. CASE CleanPending
  BY <1>14 DEF CleanPending, StaleBlocks
<1>15. CASE PutBlock
  BY <1>15 DEF PutBlock, Larger
<1>16. CASE PutBlockFails
  BY <1>16 DEF PutBlockFails, NextSlot, ReportError
<1>17. CASE BeginReplay
  BY <1>17 DEF BeginReplay
<1>18. CASE RejectReplay
  BY <1>18 DEF RejectReplay, NextSlot, ReportError
<1>19. CASE ExecuteTx
  BY <1>19 DEF ExecuteTx
<1>20. CASE CommitSlot
  <2>1. StoreTypes' /\ StatusTypes'
    BY <1>20 DEF CommitSlot, AdvanceReplayer, NextSlot
  <2>2. IngestTypes'
    BY <1>20 DEF CommitSlot, AdvanceReplayer, NextSlot
  <2>3. ProcTypes'
    BY <1>20 DEF CommitSlot, AdvanceReplayer, NextSlot
  <2>4. HistoryTypes'
    BY <1>20 DEF CommitSlot, AdvanceReplayer, NextSlot
  <2>5. ControlOK'
    BY <1>20 DEF CommitSlot, AdvanceReplayer, NextSlot
  <2>. QED  BY <2>1, <2>2, <2>3, <2>4, <2>5
<1>21. CASE CommitFails
  <2>1. StoreTypes' /\ StatusTypes'
    BY <1>21 DEF CommitFails, AdvanceReplayer, NextSlot, ReportError
  <2>2. IngestTypes'
    BY <1>21 DEF CommitFails, AdvanceReplayer, NextSlot, ReportError
  <2>3. ProcTypes'
    BY <1>21 DEF CommitFails, AdvanceReplayer, NextSlot, ReportError
  <2>4. HistoryTypes'
    <3>1. block \in Produced /\ Parent[block] \in Nat
      BY <1>21 DEF CommitFails, AdvanceReplayer
    <3>2. replayed' = replayed \cup {block} /\ bases' \subseteq Nat
      BY <1>21, <3>1 DEF CommitFails, AdvanceReplayer
    <3>. QED
      BY <1>21, <3>1, <3>2 DEF CommitFails, ReportError
  <2>5. ControlOK'
    BY <1>21 DEF CommitFails, AdvanceReplayer, NextSlot, ReportError
  <2>. QED  BY <2>1, <2>2, <2>3, <2>4, <2>5
<1>22. CASE SyncTick
  BY <1>22 DEF SyncTick
<1>23. CASE PrunePass
  BY <1>23 DEF PrunePass
<1>24. CASE UNCHANGED vars
  BY <1>24 DEF vars
<1>. QED
  BY <1>1, <1>2, <1>3, <1>4, <1>5, <1>6, <1>7, <1>8, <1>9, <1>10, <1>11, <1>12, <1>13, <1>14, <1>15, <1>16, <1>17, <1>18, <1>19, <1>20, <1>21, <1>22, <1>23, <1>24 DEF Next, Process

-----------------------------------------------------------------------------
(* The steps that change none of the variables the slot counters, the      *)
(* execution record and the chain links are made of.                       *)
Quiet ==
    /\ UNCHANGED <<stored, dbLatest, execs, latestCache, phase, currentSlot,
                   expected, block, txDone, rSlot, replayed, bases, reported,
                   crashes>>
    /\ proc' = proc \/ {proc, proc'} \subseteq {"idle", "drain", "exited"}

(* Every step is quiet or is one of the ten that matter below.             *)
LEMMA StepKinds ==
    ASSUME [Next]_vars
    PROVE  \/ Start \/ Crash \/ FinishStop \/ BeginStop \/ NextInOrder \/ PrunePass
           \/ PutBlock \/ PutBlockFails
           \/ BeginReplay \/ RejectReplay \/ ExecuteTx \/ CommitSlot \/ CommitFails
           \/ Quiet
<1>. USE DEF Quiet, diskVars, cacheVars, ingestVars, procVars, statusVars, histVars
<1>1. CASE IngestExit \/ ProcExit
  BY <1>1 DEF IngestExit, ProcExit
<1>2. CASE Stream \/ \E s \in Produced : LoseBlock(s)
  BY <1>2 DEF Stream, Receive, LoseBlock
<1>3. CASE EvictOldest \/ PushBlock \/ Resubscribe
  BY <1>3 DEF EvictOldest, PushBlock, Resubscribe
<1>4. CASE TakeBlock \/ CleanPending
  BY <1>4 DEF TakeBlock, CleanPending
<1>5. CASE SyncTick
  BY <1>5 DEF SyncTick
<1>6. CASE UNCHANGED vars
  BY <1>6 DEF vars
<1>. QED
  BY <1>1, <1>2, <1>3, <1>4, <1>5, <1>6 DEF Next, Process

(* Every step keeps the order of the slot counters.                        *)
LEMMA ProgressStep ==
    ASSUME Basic, ProgressOK, [Next]_vars
    PROVE  ProgressOK'
<1>. USE ChainAssumption, ConfigAssumption
<1>. USE DEF Basic, TypeOK, StoreTypes, StatusTypes, ProcTypes, ControlOK,
             ProgressOK, InProgress, Running, diskVars, cacheVars, procVars,
             statusVars
<1>1. CASE Start
  BY <1>1 DEF Start, ResumeSlot, FirstExpected
<1>2. CASE Crash
  BY <1>2 DEF Crash, GoDown
<1>3. CASE FinishStop
  BY <1>3 DEF FinishStop, GoDown
<1>4. CASE BeginStop
  BY <1>4 DEF BeginStop
<1>5. CASE NextInOrder
  BY <1>5 DEF NextInOrder
<1>6. CASE PrunePass
  BY <1>6 DEF PrunePass
<1>7. CASE PutBlock
  BY <1>7 DEF PutBlock, Larger
<1>8. CASE PutBlockFails
  BY <1>8 DEF PutBlockFails, NextSlot
<1>9. CASE BeginReplay
  BY <1>9 DEF BeginReplay
<1>10. CASE RejectReplay
  BY <1>10 DEF RejectReplay, NextSlot
<1>11. CASE ExecuteTx
  BY <1>11 DEF ExecuteTx
<1>12. CASE CommitSlot
  BY <1>12 DEF CommitSlot, AdvanceReplayer, NextSlot
<1>13. CASE CommitFails
  BY <1>13 DEF CommitFails, AdvanceReplayer, NextSlot
<1>14. CASE Quiet
  BY <1>14 DEF Quiet
<1>. QED
  BY StepKinds, <1>1, <1>2, <1>3, <1>4, <1>5, <1>6, <1>7, <1>8, <1>9, <1>10,
     <1>11, <1>12, <1>13, <1>14

(* Every step keeps what has been executed behind the latest stored block, *)
(* the block in progress apart.                                            *)
LEMMA ExecStep ==
    ASSUME Basic, ProgressOK, ExecOK, [Next]_vars
    PROVE  ExecOK'
<1>. USE ChainAssumption, ConfigAssumption
<1>. USE DEF Basic, TypeOK, StoreTypes, StatusTypes, ProcTypes, HistoryTypes,
             ControlOK, ProgressOK, ExecOK, InProgress, Running, diskVars,
             cacheVars, procVars, histVars
<1>1. CASE Start
  BY <1>1 DEF Start
<1>2. CASE Crash
  BY <1>2 DEF Crash, GoDown
<1>3. CASE FinishStop
  BY <1>3 DEF FinishStop, GoDown
<1>4. CASE BeginStop
  BY <1>4 DEF BeginStop
<1>5. CASE NextInOrder
  BY <1>5 DEF NextInOrder
<1>6. CASE PrunePass
  BY <1>6 DEF PrunePass
<1>7. CASE PutBlock
  BY <1>7 DEF PutBlock
<1>8. CASE PutBlockFails
  BY <1>8 DEF PutBlockFails, NextSlot
<1>9. CASE BeginReplay
  BY <1>9 DEF BeginReplay
<1>10. CASE RejectReplay
  BY <1>10 DEF RejectReplay, NextSlot
<1>11. CASE ExecuteTx
  BY <1>11 DEF ExecuteTx
<1>12. CASE CommitSlot
  BY <1>12 DEF CommitSlot, AdvanceReplayer, NextSlot
<1>13. CASE CommitFails
  BY <1>13 DEF CommitFails, AdvanceReplayer, NextSlot
<1>14. CASE Quiet
  BY <1>14 DEF Quiet
<1>. QED
  BY StepKinds, <1>1, <1>2, <1>3, <1>4, <1>5, <1>6, <1>7, <1>8, <1>9, <1>10,
     <1>11, <1>12, <1>13, <1>14

(* Every step keeps the replayed blocks linked to one another.             *)
LEMMA LinkStep ==
    ASSUME Basic, LinkOK, LinkedReplay, [Next]_vars
    PROVE  LinkOK' /\ LinkedReplay'
<1>. USE ChainAssumption
<1>. USE DEF Basic, TypeOK, StoreTypes, ProcTypes, HistoryTypes, ControlOK, LinkOK,
             LinkedReplay, InProgress, Running, procVars, histVars
<1>1. CASE Start
  BY <1>1 DEF Start
<1>2. CASE Crash \/ FinishStop
  <2>1. rSlot' = 0 /\ proc' = "exited" /\ UNCHANGED <<replayed, bases>>
    BY <1>2 DEF Crash, FinishStop, GoDown
  <2>. QED  BY <2>1
<1>3. CASE BeginStop \/ NextInOrder \/ PrunePass \/ PutBlock
  BY <1>3 DEF BeginStop, NextInOrder, PrunePass, PutBlock
<1>4. CASE PutBlockFails \/ RejectReplay
  BY <1>4 DEF PutBlockFails, RejectReplay, NextSlot
<1>5. CASE BeginReplay
  BY <1>5 DEF BeginReplay, Replayable
<1>6. CASE ExecuteTx
  BY <1>6 DEF ExecuteTx
<1>7. CASE CommitSlot \/ CommitFails
  <2>1. /\ proc = "exec" /\ proc' = "drain" /\ rSlot' = block
        /\ replayed' = replayed \cup {block}
        /\ bases' = IF rSlot = 0 THEN bases \cup {Parent[block]} ELSE bases
    BY <1>7 DEF CommitSlot, CommitFails, AdvanceReplayer, NextSlot
  <2>2. Parent[block] \in replayed \cup bases'
    BY <2>1
  <2>. QED  BY <2>1, <2>2
<1>8. CASE Quiet
  BY <1>8 DEF Quiet
<1>. QED
  BY StepKinds, <1>1, <1>2, <1>3, <1>4, <1>5, <1>6, <1>7, <1>8

(* Every step keeps a block replayed, waiting, or reported as failed.      *)
LEMMA SilentStep ==
    ASSUME Basic, ProgressOK, ExecOK, NothingSkippedSilently, [Next]_vars
    PROVE  NothingSkippedSilently'
<1>. USE ChainAssumption
<1>. USE DEF Basic, TypeOK, StoreTypes, ProcTypes, HistoryTypes, ControlOK, ExecOK,
             NothingSkippedSilently, InProgress, Running, diskVars, procVars,
             histVars
<1>1. CASE Start
  BY <1>1 DEF Start
<1>2. CASE Crash
  BY <1>2 DEF Crash
<1>3. CASE FinishStop
  BY <1>3 DEF FinishStop, GoDown
<1>4. CASE BeginStop \/ NextInOrder
  BY <1>4 DEF BeginStop, NextInOrder
<1>5. CASE PrunePass
  BY <1>5 DEF PrunePass
<1>6. CASE PutBlock
  BY <1>6 DEF PutBlock
<1>7. CASE PutBlockFails \/ RejectReplay
  BY <1>7 DEF PutBlockFails, RejectReplay, ReportError, NextSlot
<1>8. CASE BeginReplay
  BY <1>8 DEF BeginReplay
<1>9. CASE ExecuteTx
  BY <1>9 DEF ExecuteTx
<1>10. CASE CommitSlot
  BY <1>10 DEF CommitSlot, AdvanceReplayer, NextSlot
<1>11. CASE CommitFails
  BY <1>11 DEF CommitFails, AdvanceReplayer, ReportError, NextSlot
<1>12. CASE Quiet
  BY <1>12 DEF Quiet
<1>. QED
  BY StepKinds, <1>1, <1>2, <1>3, <1>4, <1>5, <1>6, <1>7, <1>8, <1>9, <1>10,
     <1>11, <1>12

(* The strengthening holds at first.                                       *)
LEMMA IInvInit == Init => IInv
<1>1. Init => Basic
  BY BasicInit
<1>2. Init => ProgressOK /\ ExecOK
  BY ConfigAssumption DEF Init, ProgressOK, ExecOK, Running
<1>3. Init => LinkOK /\ LinkedReplay /\ NothingSkippedSilently
  BY DEF Init, LinkOK, LinkedReplay, NothingSkippedSilently
<1>. QED  BY <1>1, <1>2, <1>3 DEF IInv, Basic

(* Every step keeps the strengthening.                                     *)
LEMMA IInvStep == IInv /\ [Next]_vars => IInv'
  BY BasicStep, ProgressStep, ExecStep, LinkStep, SilentStep DEF IInv, Basic

(* The strengthening holds in every reachable state.                       *)
THEOREM IInvHolds == Spec => []IInv
  BY IInvInit, IInvStep, PTL DEF Spec

-----------------------------------------------------------------------------
(* The variables of the node, its stores and its queue keep their types,   *)
(* and blockQueue never exceeds its capacity.                              *)
THEOREM TypeCorrect == Spec => []TypeOK
  BY IInvHolds, PTL DEF IInv

(* No transaction is executed twice on the accounts, however the stream    *)
(* repeats blocks and wherever the process dies: resuming at the latest    *)
(* durable block (node.go:317-326) is always safe, if not complete.        *)
THEOREM ExecutedAtMostOnce == Spec => []AtMostOnce
<1>1. IInv => AtMostOnce
  BY DEF IInv, ExecOK, AtMostOnce
<1>. QED  BY <1>1, IInvHolds, PTL

(* Without a crash, a stored block is fully executed or was reported:      *)
(* neither Stop nor a failing PutBlock, ReplaySlot or Commit loses one.    *)
THEOREM NoSilentSkip == Spec => []NothingSkippedSilently
  BY IInvHolds, PTL DEF IInv

(* Replay follows parent links (replayer.go:141-147).                      *)
THEOREM ReplayIsLinked == Spec => []LinkedReplay
  BY IInvHolds, PTL DEF IInv

(* currentSlot, the replayer's slot, latest_slot and expectedSlot keep     *)
(* their order, and latest_slot always names a stored block.               *)
THEOREM ProgressIsOrdered == Spec => []ProgressOrder
<1>1. IInv => ProgressOrder
  BY DEF IInv, TypeOK, StoreTypes, ProcTypes, ProgressOK, ProgressOrder
<1>. QED  BY <1>1, IInvHolds, PTL

(* The send that follows an eviction (node.go:508-515) never waits.        *)
THEOREM PushFindsRoom == Spec => []IngestNeverBlocks
<1>1. IInv => IngestNeverBlocks
  BY DEF IInv, ControlOK, IngestNeverBlocks
<1>. QED  BY <1>1, IInvHolds, PTL

(* latest_slot never goes back, although PutBlock overwrites it without    *)
(* a comparison: in slot order, the block it stores is always later.       *)
THEOREM LatestIsMonotone == Spec => LatestNeverRegresses
<1>1. IInv /\ [Next]_vars => [dbLatest' >= dbLatest]_dbLatest
  <2>. SUFFICES ASSUME IInv, [Next]_vars
                PROVE  dbLatest' >= dbLatest
    OBVIOUS
  <2>. USE DEF IInv, TypeOK, StoreTypes, ProcTypes, ControlOK, ProgressOK,
               InProgress, Running, diskVars
  <2>1. CASE PutBlock
    BY <2>1 DEF PutBlock
  <2>2. CASE FinishStop
    BY <2>2 DEF FinishStop
  <2>3. CASE Start \/ Crash \/ BeginStop \/ PrunePass \/ Quiet
    BY <2>3 DEF Start, Crash, BeginStop, PrunePass, Quiet
  <2>4. CASE NextInOrder \/ PutBlockFails \/ BeginReplay \/ RejectReplay \/ ExecuteTx
    BY <2>4 DEF NextInOrder, PutBlockFails, BeginReplay, RejectReplay, ExecuteTx
  <2>5. CASE CommitSlot \/ CommitFails
    BY <2>5 DEF CommitSlot, CommitFails
  <2>. QED  BY StepKinds, <2>1, <2>2, <2>3, <2>4, <2>5
<1>. QED  BY <1>1, IInvHolds, PTL DEF Spec, LatestNeverRegresses

-----------------------------------------------------------------------------
(* The refinement: a step of the node extends the ledger, resumes it at a  *)
(* later head, or leaves it alone.                                         *)
LEMMA LedgerStep ==
    ASSUME IInv, [Next]_vars
    PROVE  L!LedgerNext \/ UNCHANGED <<AbsHead, replayed>>
<1>. USE ChainAssumption
<1>. USE DEF IInv, TypeOK, StoreTypes, StatusTypes, ProcTypes, HistoryTypes,
             ControlOK, ProgressOK, InProgress, Running, AbsHead, diskVars
<1>1. CASE Start
  BY <1>1 DEF Start, ResumeSlot
<1>2. CASE Crash \/ FinishStop
  <2>1. /\ AbsHead = rSlot /\ AbsHead' = dbLatest
        /\ rSlot <= dbLatest
        /\ UNCHANGED replayed
    BY <1>2 DEF Crash, FinishStop, GoDown
  <2>2. CASE dbLatest = 0
    BY <2>1, <2>2
  <2>3. CASE dbLatest > 0
    <3>1. dbLatest \in Produced
      BY <2>3
    <3>2. L!Resume(dbLatest)
      BY <2>1 DEF L!Resume
    <3>. QED  BY <3>1, <3>2 DEF L!LedgerNext
  <2>. QED  BY <2>2, <2>3
<1>3. CASE CommitSlot \/ CommitFails
  <2>1. /\ block \in Produced
        /\ AbsHead = rSlot /\ AbsHead' = block
        /\ replayed' = replayed \cup {block}
    BY <1>3 DEF CommitSlot, CommitFails, AdvanceReplayer
  <2>2. /\ block > rSlot
        /\ block \notin replayed
        /\ rSlot > 0 => Parent[block] = rSlot
    BY <1>3 DEF CommitSlot, CommitFails, AdvanceReplayer, ExecOK, LinkOK
  <2>3. L!Extend(block)
    BY <2>1, <2>2 DEF L!Extend
  <2>. QED  BY <2>1, <2>3 DEF L!LedgerNext
<1>4. CASE BeginStop \/ NextInOrder \/ PrunePass \/ Quiet
  BY <1>4 DEF BeginStop, NextInOrder, PrunePass, Quiet, histVars
<1>5. CASE PutBlock \/ PutBlockFails
  BY <1>5 DEF PutBlock, PutBlockFails, histVars
<1>6. CASE BeginReplay \/ RejectReplay \/ ExecuteTx
  BY <1>6 DEF BeginReplay, RejectReplay, ExecuteTx, histVars
<1>. QED  BY StepKinds, <1>1, <1>2, <1>3, <1>4, <1>5, <1>6

(* The node implements the ledger: its verified slots form a chain that    *)
(* only grows at its head, across crashes, restarts and failed writes.     *)
THEOREM NodeImplementsLedger == Spec => ImplementsLedger
<1>1. Init => L!LedgerInit
  BY DEF Init, L!LedgerInit, AbsHead, Running
<1>2. IInv /\ [Next]_vars => [L!LedgerNext]_(L!ledgerVars)
  BY LedgerStep DEF L!ledgerVars
<1>. QED  BY <1>1, <1>2, IInvHolds, PTL DEF Spec, ImplementsLedger, L!LedgerSpec
=============================================================================
