------------------------------- MODULE Ledger -------------------------------
(***************************************************************************)
(* What the verification pipeline of X1-Stratus promises, seen from        *)
(* outside: a head that only moves forward along the chain, and a set of   *)
(* verified slots that only grows, each slot entering it once and only     *)
(* when its parent block is the head.  The single freedom the node keeps   *)
(* is to resume, after a restart, at a later slot than the head.           *)
(*                                                                         *)
(* A block is identified with its slot, its blockhash with the slot, and   *)
(* its previous blockhash with Parent[slot].                               *)
(***************************************************************************)
EXTENDS Naturals

CONSTANTS Produced,   \* the slots for which the network produced a block
          Parent      \* the slot whose blockhash a block names as previous

VARIABLES head,       \* slot of the last block accepted, 0 when there is none
          verified    \* slots whose replay has completed

ledgerVars == <<head, verified>>

LedgerTypeOK ==
    /\ head \in Nat
    /\ verified \subseteq Produced

LedgerInit ==
    /\ head = 0
    /\ verified = {}

(* A block extends the head: it is later, new, and names the head as its   *)
(* parent, unless there is no head to name.                                *)
Extend(s) ==
    /\ s > head
    /\ s \notin verified
    /\ head # 0 => Parent[s] = head
    /\ head' = s
    /\ verified' = verified \cup {s}

(* A new process resumes at a head that is never earlier than the old one. *)
Resume(h) ==
    /\ h >= head
    /\ head' = h
    /\ UNCHANGED verified

LedgerNext ==
    \/ \E s \in Produced : Extend(s)
    \/ \E h \in Produced : Resume(h)

LedgerSpec == LedgerInit /\ [][LedgerNext]_ledgerVars
=============================================================================
