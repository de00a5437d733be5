-------------------------------- MODULE Sbpf --------------------------------
(***************************************************************************)
(* pkg/svm/sbpf: the instruction set, the cost of an instruction, and the  *)
(* memory of the virtual machine.  Words are as wide as Size and Byte      *)
(* make them, 64 bits in the code, and arithmetic wraps at that width.     *)
(*                                                                         *)
(* An instruction is [class, code, x, size, dst, src, off, imm, fn]: x     *)
(* tells the register form from the immediate one, imm is signed, and fn   *)
(* is the name whose hash the immediate of a call holds, or NoName.        *)
(***************************************************************************)
EXTENDS Integers, Sequences, FiniteSets, SequencesExt, FiniteSetsExt

CONSTANTS
    ByteBits,          \* 8
    Size,              \* bytes of "b", "h", "w" and "dw": 1, 2, 4 and 8
    StackFrameSize, StackGap, StackDepth,
    NoName

ASSUME SbpfAssumption ==
    /\ ByteBits \in Nat \ {0}
    /\ Size \in [{"b", "h", "w", "dw"} -> Nat \ {0}]
    /\ Size["dw"] = 2 * Size["w"] /\ \A s \in DOMAIN Size : Size[s] <= Size["dw"]
    /\ StackFrameSize \in Nat \ {0} /\ StackGap \in Nat /\ StackDepth \in Nat \ {0}

ByteRange == 2 ^ ByteBits
Long == Size["dw"]
WordBits == ByteBits * Long          \* 64
HalfBits == ByteBits * Size["w"]     \* 32
Word == 2 ^ WordBits
Half == 2 ^ HalfBits

\* A register holds 0..Word-1, a byte of memory 0..ByteRange-1.
Words == 0..Word - 1
Bytes == 0..ByteRange - 1

(* How powers of two multiply, up to the width of a word, and that places  *)
(* in a region fit in half a word.                                         *)
ASSUME WidthAssumption ==
    /\ \A n \in 0..WordBits : 2 ^ n > 0 /\ 2 ^ (n + 1) = 2 * 2 ^ n
    /\ \A n \in 0..Long : ByteRange ^ n > 0 /\ ByteRange ^ (n + 1) = ByteRange * ByteRange ^ n
    /\ ByteRange ^ 0 = 1 /\ ByteRange ^ Long = Word /\ Half * Half = Word
    /\ StackFrameSize < Half /\ 5 <= Half

\* An instruction, of any program.
Instructions ==
    [class : STRING, code : STRING, x : BOOLEAN, size : DOMAIN Size, dst : Nat, src : Nat,
     off : Int, imm : Int, fn : STRING \cup {NoName}]

Registers == 0..10

VaddrProgram == 1 * Half
VaddrStack == 2 * Half
VaddrHeap == 3 * Half
VaddrInput == 4 * Half

(* Op of a value, which TLC evaluates only once.                           *)
With(v, Op(_)) == CHOOSE x \in {Op(w) : w \in {v}} : TRUE

-----------------------------------------------------------------------------
(* Arithmetic                                                              *)

Signed(a, bits) == IF a >= 2 ^ (bits - 1) THEN a - 2 ^ bits ELSE a

BitsOf(a, bits) == {i \in 0..bits - 1 : (a \div 2 ^ i) % 2 = 1}
OfBits(S) == FoldLeft(LAMBDA v, i : IF i \in S THEN v + 2 ^ i ELSE v, 0, [i \in 1..WordBits |-> i - 1])

AluCodes == {"add", "sub", "mul", "div", "or", "and", "lsh", "rsh",
             "neg", "mod", "xor", "mov", "arsh"}

Alu_NoWrap(code, a, b, bits) == IF code = "add" THEN a + b ELSE b

(* The operations, at either width.                                        *)
Alu(code, a, b, bits) ==
    LET w == 2 ^ bits
        A == BitsOf(a, bits)
        B == BitsOf(b, bits)
    IN
    CASE code = "add" -> (a + b) % w
      [] code = "sub" -> (a - b) % w
      [] code = "mul" -> (a * b) % w
      [] code = "div" -> a \div b
      [] code = "mod" -> a % b
      [] code = "or" -> OfBits(A \cup B)
      [] code = "and" -> OfBits(A \cap B)
      [] code = "xor" -> OfBits((A \cup B) \ (A \cap B))
      [] code = "lsh" -> (a * 2 ^ (b % bits)) % w
      [] code = "rsh" -> a \div 2 ^ (b % bits)
      [] code = "arsh" -> (Signed(a, bits) \div 2 ^ (b % bits)) % w
      [] code = "neg" -> (-a) % w
      [] code = "mov" -> b

(* The width an instruction works at.                                      *)
BitsIn(ins) == IF ins.class \in {"alu", "jmp32"} THEN HalfBits ELSE WordBits

(* The second operand.  An immediate is sign-extended, except in 64-bit    *)
(* division and remainder, where it is taken for a 32-bit word.            *)
Operand(ins, r) ==
    IF ins.x THEN r[ins.src] % 2 ^ BitsIn(ins)
    ELSE IF ins.code \in {"div", "mod"} THEN ins.imm % Half
    ELSE ins.imm % 2 ^ BitsIn(ins)

DividesByZero(ins, r) == ins.code \in {"div", "mod"} /\ Operand(ins, r) = 0

AluResult(ins, r) ==
    Alu(ins.code, r[ins.dst] % 2 ^ BitsIn(ins), Operand(ins, r), BitsIn(ins))

(* The condition of a jump.                                                *)
Holds(ins, r) ==
    LET bits == BitsIn(ins)
        a == r[ins.dst] % 2 ^ bits
        b == Operand(ins, r)
        sa == Signed(a, bits)
        sb == Signed(b, bits)
    IN
    CASE ins.code = "ja" -> TRUE
      [] ins.code = "jeq" -> a = b
      [] ins.code = "jne" -> a # b
      [] ins.code = "jgt" -> a > b
      [] ins.code = "jge" -> a >= b
      [] ins.code = "jlt" -> a < b
      [] ins.code = "jle" -> a <= b
      [] ins.code = "jset" -> BitsOf(a, bits) \cap BitsOf(b, bits) # {}
      [] ins.code = "jsgt" -> sa > sb
      [] ins.code = "jsge" -> sa >= sb
      [] ins.code = "jslt" -> sa < sb
      [] ins.code = "jsle" -> sa <= sb

JumpCodes == {"jeq", "jne", "jgt", "jge", "jlt", "jle", "jset",
              "jsgt", "jsge", "jslt", "jsle"}

(* The opcodes the interpreter knows.                                      *)
Known(ins) ==
    \/ ins.class \in {"alu", "alu64"} /\ ins.code \in AluCodes /\ (ins.code = "neg" => ~ins.x)
    \/ ins.class = "ld" /\ ins.code = "lddw"
    \/ ins.class \in {"ldx", "st", "stx"} /\ ins.code = "mem"
    \/ ins.class = "jmp" /\ ins.code \in JumpCodes
    \/ ins.class = "jmp" /\ ins.code \in {"ja", "call", "exit"} /\ ~ins.x
    \/ ins.class = "jmp32" /\ ins.code \in JumpCodes

Cost_FreeJumps(ins) == IF ins.class \in {"jmp", "jmp32"} THEN 0 ELSE 1

Cost(ins) ==
    CASE ins.class \in {"alu", "alu64"} ->
            (CASE ins.code = "mul" -> 4 [] ins.code \in {"div", "mod"} -> 12 [] OTHER -> 1)
      [] ins.class \in {"ld", "ldx", "st", "stx"} -> 2
      [] OTHER -> IF ins.code = "call" THEN 5 ELSE 1

-----------------------------------------------------------------------------
(* Memory: [ro, stack, heap, input], sequences of bytes                    *)

NoPlace == [region |-> "none", at |-> 0]

(* Frames are apart by a gap in the address space and adjacent in memory.  *)
GetFrame(lo) ==
    LET unit == StackFrameSize + StackGap IN
    IF lo % unit >= StackFrameSize THEN -1
    ELSE (lo \div unit) * StackFrameSize + (lo % unit)

Translate_IgnoresWrite(mem, addr, n, write) ==
    LET lo == addr % Half IN
    CASE addr \div Half = 1 /\ lo + n <= Len(mem.ro) -> [region |-> "ro", at |-> lo]
      [] addr \div Half = 3 /\ lo + n <= Len(mem.heap) -> [region |-> "heap", at |-> lo]
      [] addr \div Half = 4 /\ lo + n <= Len(mem.input) -> [region |-> "input", at |-> lo]
      [] OTHER -> NoPlace

(* Where n bytes at an address are, if they may be accessed.  Only the     *)
(* first byte of a stack access is looked for in a frame.                  *)
Translate(mem, addr, n, write) ==
    LET hi == addr \div Half
        lo == addr % Half
        end == (lo + n) % Word
        Fits(size) == end <= size /\ lo <= end
        frame == GetFrame(lo)
    IN
    IF n > 0 /\ lo > Word - 1 - n THEN NoPlace
    ELSE IF hi = 1 /\ ~write /\ Fits(Len(mem.ro)) THEN [region |-> "ro", at |-> lo]
    ELSE IF /\ hi = 2 /\ frame >= 0
            /\ frame < Len(mem.stack) /\ n <= Len(mem.stack) - frame
         THEN [region |-> "stack", at |-> frame]
    ELSE IF hi = 3 /\ Fits(Len(mem.heap)) THEN [region |-> "heap", at |-> lo]
    ELSE IF hi = 4 /\ ~write /\ Fits(Len(mem.input)) THEN [region |-> "input", at |-> lo]
    ELSE NoPlace

CanRead(mem, addr, n) == Translate(mem, addr, n, FALSE) # NoPlace
CanWrite(mem, addr, n) == Translate(mem, addr, n, TRUE) # NoPlace

BytesAt(mem, addr, n) ==
    LET place == Translate(mem, addr, n, FALSE) IN
    SubSeq(mem[place.region], place.at + 1, place.at + n)

Written(mem, addr, bytes) ==
    LET place == Translate(mem, addr, Len(bytes), TRUE) IN
    [mem EXCEPT ![place.region] = SubSeq(@, 1, place.at) \o bytes
                                     \o SubSeq(@, place.at + Len(bytes) + 1, Len(@))]

(* Integers are little-endian, and accesses to them aligned.               *)
Aligned(addr, n) == addr % n = 0
IntOf(bytes) == FoldRight(LAMBDA b, v : v * ByteRange + b, bytes, 0)
BytesOf(v, n) == [i \in 1..n |-> (v \div ByteRange ^ (i - 1)) % ByteRange]
IntAt(mem, addr, n) == IntOf(BytesAt(mem, addr, n))
=============================================================================
