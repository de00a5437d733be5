------------------------------ MODULE Syscalls ------------------------------
(***************************************************************************)
(* pkg/svm/syscall: the host functions a program may call.  A call works   *)
(* on [state, r0, mem, cu, ret]: the memory, the compute units the context *)
(* has counted, the return data and who set it.  It goes on while state    *)
(* is "go"; it is "done" when it answers early with a code in r0, and      *)
(* "err" when it fails the program.  What was written before a failure     *)
(* stays written.                                                          *)
(*                                                                         *)
(* The context's meter is apart from the interpreter's, and digests are    *)
(* the constant Digest.                                                    *)
(***************************************************************************)
EXTENDS Sbpf

CONSTANTS
    CuLimit,           \* svm.CUMax
    CuBase,            \* cost of an ordinary system call
    CuPda, CuCpi,      \* cost of a derivation, and of an invocation
    MaxLogMsgLen, MaxReturnData, MaxMemOpSize, MaxSlices,
    MaxSeeds, MaxSeedLen, MaxBump, MaxCPIAccountInfos, MaxCPIInstructionSize,
    HeapMax,
    KeySize, Digest,
    OnCurve            \* bump seeds that give an address on the curve

ASSUME SyscallsAssumption ==
    /\ {CuLimit, CuBase, CuPda, CuCpi, MaxLogMsgLen, MaxReturnData, MaxMemOpSize, MaxSlices,
        MaxSeeds, MaxSeedLen, MaxBump, MaxCPIAccountInfos, MaxCPIInstructionSize,
        HeapMax, KeySize} \subseteq Nat
    /\ CuPda > 0 /\ 2 * HeapMax + Long < Half /\ MaxReturnData < Word
    /\ Digest \in Seq(Bytes)
    /\ OnCurve \subseteq 0..MaxBump

(* What a call does next, if it still goes on.                             *)
Then(st, Do(_)) == With(st, LAMBDA s : IF s.state = "go" THEN Do(s) ELSE s)

Err(st) == [st EXCEPT !.state = "err"]
Answer(st, code) == Then(st, LAMBDA s : [s EXCEPT !.state = "done", !.r0 = code])

Check(st, holds) == Then(st, LAMBDA s : IF holds THEN s ELSE Err(s))

(* ConsumeCU: what does not fit is refused, and not counted.               *)
Charge(st, cost) ==
    Then(st, LAMBDA s : IF s.cu + cost <= CuLimit THEN [s EXCEPT !.cu = @ + cost] ELSE Err(s))

Reads(st, addr, n) == Then(st, LAMBDA s : IF CanRead(s.mem, addr, n) THEN s ELSE Err(s))

ReadsLong(st, addr) == Check(Reads(st, addr, Long), Aligned(addr, Long))

Writes(st, addr, bytes) ==
    Then(st, LAMBDA s : IF CanWrite(s.mem, addr, Len(bytes))
                        THEN [s EXCEPT !.mem = Written(@, addr, bytes)] ELSE Err(s))

Plus(addr, n) == (addr + n) % Word
LongAt(st, addr) == IntAt(st.mem, addr, Long)

(* An array of n (pointer, length) pairs, each read, checked and charged.  *)
(* A length over the bound fails the program, or answers 1 for the seeds   *)
(* of an address; an empty seed of an invocation is not read.              *)
Slices(st, addr, n, max, kind) ==
    LET Part(s, ptr, length) ==
            IF length > max THEN IF kind = "seeds" THEN Answer(s, 1) ELSE Err(s)
            ELSE IF kind = "data" THEN Reads(Charge(s, length), ptr, length)
            ELSE IF kind = "signer" /\ length = 0 THEN s
            ELSE Reads(s, ptr, length)
        Slice(s, i) ==
            LET pair == Plus(addr, i * 2 * Long) IN
            Then(ReadsLong(ReadsLong(s, pair), Plus(pair, Long)),
                 LAMBDA t : Part(t, LongAt(t, pair), LongAt(t, Plus(pair, Long))))
    IN Then(st, LAMBDA s : FoldLeft(Slice, s, [i \in 1..n |-> i - 1]))

Least(a, b) == IF a < b THEN a ELSE b

-----------------------------------------------------------------------------
(* Logging                                                                 *)

Log(st, a) ==
    LET n == Least(a[2], MaxLogMsgLen) IN Reads(Charge(st, CuBase + n), a[1], n)

LogPubkey(st, a) == Reads(Charge(st, CuBase), a[1], KeySize)

LogData(st, a) ==
    IF a[2] = 0 \/ a[2] > MaxSlices THEN Err(st)
    ELSE Slices(Charge(st, CuBase), a[1], a[2], MaxLogMsgLen, "data")

-----------------------------------------------------------------------------
(* Memory                                                                  *)

MemOp(st, n) == Charge(Check(st, n <= MaxMemOpSize), CuBase + n)

(* sol_memcpy_ and sol_memmove_ read everything before they write.         *)
Memcpy(st, a) ==
    IF a[3] = 0 THEN st
    ELSE Then(Reads(MemOp(st, a[3]), a[2], a[3]),
              LAMBDA s : Writes(s, a[1], BytesAt(s.mem, a[2], a[3])))

Memset(st, a) ==
    IF a[3] = 0 THEN st
    ELSE Then(MemOp(st, a[3]), LAMBDA s : Writes(s, a[1], [i \in 1..a[3] |-> a[2] % ByteRange]))

(* Of the first bytes that differ, as a 32-bit integer.                    *)
Difference(one, two, n) ==
    LET differ == {i \in 1..n : one[i] # two[i]}
    IN IF differ = {} THEN 0 ELSE (one[Min(differ)] - two[Min(differ)]) % Half

(* The address of the answer has to be aligned.                            *)
Memcmp(st, a) ==
    LET n == a[3]
        Answered(s, v) ==
            Writes(Check(s, Aligned(a[4], Size["w"])), a[4], BytesOf(v, Size["w"]))
        compared == MemOp(st, n)
    IN
    IF n = 0 THEN Answered(compared, 0)
    ELSE Then(Reads(Reads(compared, a[1], n), a[2], n),
              LAMBDA s : Answered(s, Difference(BytesAt(s.mem, a[1], n), BytesAt(s.mem, a[2], n), n)))

(* UpdateHeapSize *)
Grown(heap, size) ==
    IF size <= HeapMax /\ size > Len(heap)
    THEN heap \o [i \in 1..size - Len(heap) |-> 0] ELSE heap

RoundedUp(n) == (((n + Long - 1) % Word) \div Long) * Long

AllocFree_NoGrow(st, a) ==
    LET ready == Charge(st, CuBase)
        top == Len(st.mem.heap)
    IN IF ready.state # "go" \/ a[1] = 0 \/ (top + RoundedUp(a[1])) % Word > HeapMax
       THEN ready ELSE Answer(ready, VaddrHeap + top)

(* sol_alloc_free_: a block at the end of the heap, which it grows; 0 when *)
(* there is no room.  Freeing does nothing.                                *)
AllocFree(st, a) ==
    LET ready == Charge(st, CuBase)
        size == RoundedUp(a[1])
        top == Len(st.mem.heap)
    IN
    IF ready.state # "go" \/ a[1] = 0 \/ (top + size) % Word > HeapMax THEN ready
    ELSE Answer([ready EXCEPT !.mem.heap = Grown(@, (top + size) % Word)], VaddrHeap + top)

-----------------------------------------------------------------------------
(* Digests, return data                                                    *)

(* sol_sha256, sol_keccak256, sol_blake3 *)
HashSlices(st, a) ==
    IF a[2] > MaxSlices THEN Err(st)
    ELSE Writes(Slices(Charge(st, CuBase), a[1], a[2], MaxMemOpSize, "data"), a[3], Digest)

SetReturnData(st, a, key) ==
    Then(Reads(Check(Charge(st, CuBase), a[2] <= MaxReturnData), a[1], a[2]),
         LAMBDA s : [s EXCEPT !.ret = [id |-> key, data |-> BytesAt(s.mem, a[1], a[2])]])

(* As much of the data as there is room for, and the key of the program    *)
(* that set it; the answer is the length of all of it.                     *)
GetReturnData(st, a) ==
    LET n == Least(Len(st.ret.data), a[2])
        charged == Charge(st, CuBase)
        copied == IF n > 0 THEN Writes(charged, a[1], SubSeq(st.ret.data, 1, n)) ELSE charged
    IN Answer(Writes(copied, a[3], st.ret.id), Len(st.ret.data))

-----------------------------------------------------------------------------
(* Program addresses                                                       *)

SeedsOf(st, a) == Slices(Reads(st, a[3], KeySize), a[1], a[2], MaxSeedLen, "seeds")

(* The last byte of the seeds decides, like a bump seed.                   *)
IsOnCurve(st, a) ==
    /\ a[2] > 0
    /\ LET pair == Plus(a[1], (a[2] - 1) * 2 * Long)
           length == LongAt(st, Plus(pair, Long))
       IN length > 0 /\ IntAt(st.mem, Plus(LongAt(st, pair), length - 1), 1) \in OnCurve

CreateProgramAddress(st, a) ==
    LET charged == Charge(st, CuPda) IN
    IF a[2] > MaxSeeds THEN Answer(charged, 1)
    ELSE Then(SeedsOf(charged, a), LAMBDA s :
                IF IsOnCurve(s, a) THEN Answer(s, 1) ELSE Writes(s, a[4], Digest))

(* Bump seeds are tried from the largest down, each for the price of a     *)
(* derivation; when units run out, or no bump fits, the answer is 1 and    *)
(* the program goes on.                                                    *)
FindProgramAddress(st, a) ==
    LET fits == (0..MaxBump) \ OnCurve
        tries == IF fits = {} THEN MaxBump + 1 ELSE MaxBump - Max(fits) + 1
        paid == Least(tries, (CuLimit - st.cu) \div CuPda)
        Found(s) ==
            IF fits = {} \/ paid < tries THEN Answer(s, 1)
            ELSE Writes(Writes(s, a[4], Digest), a[5], <<Max(fits) % ByteRange>>)
    IN
    IF a[2] > MaxSeeds - 1 THEN Answer(st, 1)
    ELSE Then(Charge(SeedsOf(st, a), paid * CuPda), Found)

-----------------------------------------------------------------------------
(* sol_invoke_signed_c and _rust: the instruction, its accounts, its data  *)
(* and the signer seeds are read and checked; the invocation itself does   *)
(* nothing and succeeds, at a stack height that is always 1.               *)

MetaSize == Long + 2

(* The accounts, MetaSize apart: a pointer to a key, and two flags.        *)
MetasOf(st, addr, n) ==
    LET Meta(s, i) ==
            LET meta == Plus(addr, i * MetaSize) IN
            Then(ReadsLong(s, meta), LAMBDA t :
                 Reads(Reads(Reads(t, LongAt(t, meta), KeySize),
                             Plus(meta, Long), 1), Plus(meta, Long + 1), 1))
    IN Then(st, LAMBDA s : FoldLeft(Meta, s, [i \in 1..n |-> i - 1]))

(* The fields: program, accounts and their number, data and its length.    *)
InvokeSigned(st, a) ==
    LET Field(s, i) == LongAt(s, Plus(a[1], i * Long))
        Instruction(s) ==
            Then(Charge(Check(s, /\ Field(s, 2) <= MaxCPIAccountInfos
                                 /\ Field(s, 4) <= MaxCPIInstructionSize),
                        CuCpi + Field(s, 2) + Field(s, 4)),
                 LAMBDA t : MetasOf(Reads(t, Field(t, 0), KeySize), Field(t, 1), Field(t, 2)))
        Data(s) == IF Field(s, 4) > 0 THEN Reads(s, Field(s, 3), Field(s, 4)) ELSE s
        Signers(s) ==
            IF a[4] = 0 \/ a[5] = 0 THEN s
            ELSE Slices(Check(s, a[5] <= MaxSeeds), a[4], a[5], MaxSeedLen, "signer")
        fields == {Plus(a[1], i * Long) : i \in 0..4}
        Readable(at) == CanRead(st.mem, at, Long) /\ Aligned(at, Long)
    IN Then(Then(Then(Check(st, \A at \in fields : Readable(at)), Instruction), Data), Signers)

-----------------------------------------------------------------------------
SyscallNames == {"log", "log64", "logPubkey", "logData", "memcpy", "memset", "memcmp",
                 "alloc", "hash", "abort", "setReturn", "getReturn", "stackHeight",
                 "createPda", "findPda", "invoke"}

(* The outcome of a system call with the arguments r1 to r5, for a program *)
(* with the given key.                                                     *)
Invoked(name, st, a, key) ==
    CASE name = "log" -> Log(st, a)
      [] name = "log64" -> Charge(st, CuBase)
      [] name = "logPubkey" -> LogPubkey(st, a)
      [] name = "logData" -> LogData(st, a)
      [] name = "memcpy" -> Memcpy(st, a)
      [] name = "memset" -> Memset(st, a)
      [] name = "memcmp" -> Memcmp(st, a)
      [] name = "alloc" -> AllocFree(st, a)
      [] name = "hash" -> HashSlices(st, a)
      [] name = "abort" -> Err(st)
      [] name = "setReturn" -> SetReturnData(st, a, key)
      [] name = "getReturn" -> GetReturnData(st, a)
      [] name = "stackHeight" -> Answer(Charge(st, CuBase), 1)
      [] name = "createPda" -> CreateProgramAddress(st, a)
      [] name = "findPda" -> FindProgramAddress(st, a)
      [] name = "invoke" -> InvokeSigned(st, a)
=============================================================================
