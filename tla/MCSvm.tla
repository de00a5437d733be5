------------------------------- MODULE MCSvm -------------------------------
(* The virtual machine with bytes of 3 bits and words of 4 bytes, on all   *)
(* short programs of Core, on every ALU and jump operation, *)
(* on every host call with interesting arguments, and on a few files.      *)
EXTENDS BpfExecutor

MCSize == [b |-> 1, h |-> 2, w |-> 2, dw |-> 4]
MCDigest == <<1, 2, 3, 4>>
MCKey == <<5, 6, 7, 1>>

I(class, code, x, dst, src, imm) ==
    [class |-> class, code |-> code, x |-> x, size |-> "dw", dst |-> dst, src |-> src,
     off |-> 0, imm |-> imm, fn |-> NoName]
Mov(dst, imm) == I("alu64", "mov", FALSE, dst, 0, imm)
Copy(dst, src) == I("alu64", "mov", TRUE, dst, src, 0)
Exit == I("jmp", "exit", FALSE, 0, 0, 0)
Ja(off) == [I("jmp", "ja", FALSE, 0, 0, 0) EXCEPT !.off = off]
Call(name) == [I("jmp", "call", FALSE, 0, 0, 0) EXCEPT !.fn = name]
Rel(imm) == I("jmp", "call", FALSE, 0, 1, imm)
St(size, dst, off, imm) ==
    [I("st", "mem", FALSE, dst, 0, imm) EXCEPT !.size = size, !.off = off]
Stx(size, dst, off, src) ==
    [I("stx", "mem", TRUE, dst, src, 0) EXCEPT !.size = size, !.off = off]
Ldx(size, dst, src, off) ==
    [I("ldx", "mem", TRUE, dst, src, 0) EXCEPT !.size = size, !.off = off]
Lddw(dst, v) == <<I("ld", "lddw", FALSE, dst, 0, v % Half), I("ld", "slot", FALSE, 0, 0, v \div Half)>>

Core == {Mov(6, -1), Mov(1, 3), Copy(1, 0), Copy(0, 6), Copy(6, 10),
         St("b", 10, 0, 7), Stx("dw", 10, -3, 6), Ldx("b", 6, 1, 4), St("b", 1, 0, 1),
         [I("jmp", "jeq", FALSE, 6, 0, 0) EXCEPT !.off = 1], Ja(-2),
         Rel(0), Rel(-2), Call("f"), Call("alloc"), Exit}

Small == {Mov(6, -1), Copy(6, 10), Stx("dw", 10, -3, 6), Rel(0), Rel(-2), Call("f"), Ja(-2), Exit}

Ops ==
    {<<Mov(3, a), Mov(4, b)>> \o <<I(c, code, x, 3, 4, b), Exit>> :
        a \in {0, -1, 5, 37}, b \in {0, -1, 3, 32}, c \in {"alu", "alu64"},
        code \in AluCodes, x \in BOOLEAN}
Jumps ==
    {<<Mov(3, a), Mov(4, b)>> \o
        <<[I(c, code, x, 3, 4, b) EXCEPT !.off = 1], Mov(0, 1), Exit>> :
        a \in {0, -1, 5}, b \in {0, -1, 5}, c \in {"jmp", "jmp32"},
        code \in JumpCodes \cup {"ja"}, x \in BOOLEAN}
Wide == {Lddw(d, v) \o <<Exit>> : d \in {2, 10}, v \in {0, 4095}}
            \cup {SubSeq(Lddw(2, 9), 1, 1), <<Exit>>, <<I("alu", "neg", TRUE, 11, 0, 0), Exit>>}

(* Arguments: places in each region of the memory, and sizes.              *)
Places == {VaddrProgram, VaddrStack, VaddrHeap, VaddrInput + 4, 0}
Args2(name, A, B) ==
    {Lddw(1, a) \o Lddw(2, b) \o <<Call(name), Exit>> : a \in A, b \in B}
Args3(name, A, B, C) ==
    {Lddw(1, a) \o Lddw(2, b) \o Lddw(3, c) \o <<Call(name), Exit>> : a \in A, b \in B, c \in C}
Sizes == {0, 1, 4, 8, 4095}

(* Two pairs and an instruction of an invocation, in the read-only data.   *)
Ro == FlattenSeq([i \in 1..7 |-> BytesOf(
        <<VaddrInput + 8, 4, VaddrInput + 8, 1, VaddrInput + 8, 2, 1>>[i], 4)])
SeedCalls ==
    {Lddw(1, VaddrProgram) \o Lddw(2, n) \o Lddw(3, VaddrInput + 8) \o Lddw(4, out)
        \o Lddw(5, VaddrStack) \o <<Call(name), Exit>> :
        n \in {0, 1, 2, 3}, out \in {VaddrHeap, VaddrProgram}, name \in {"createPda", "findPda"}}
Invokes ==
    {Lddw(1, a) \o Lddw(4, s) \o Lddw(5, n) \o <<Call("invoke"), Exit>> :
        a \in {VaddrProgram, VaddrProgram + 8, VaddrInput}, s \in {0, VaddrProgram}, n \in {0, 1, 3}}
Compare ==
    {Lddw(1, a) \o Lddw(2, b) \o Lddw(3, n) \o Lddw(4, out) \o <<Call("memcmp"), Exit>> :
        a \in Places, b \in {VaddrInput, VaddrHeap}, n \in {0, 4}, out \in {VaddrHeap, VaddrHeap + 1}}
Twice == {Lddw(1, a) \o <<Call("alloc")>> \o Lddw(1, b) \o <<Call("alloc"), Call("alloc"), Exit>> :
            a \in Sizes, b \in Sizes}
Kept == {Lddw(1, a) \o Lddw(2, n) \o <<Call("setReturn")>> \o Lddw(1, b) \o Lddw(3, c)
            \o <<Call("getReturn"), Exit>> :
            a \in {VaddrInput, VaddrHeap}, n \in {0, 2, 5}, b \in {VaddrStack, VaddrInput}, c \in {VaddrHeap, 0}}
Host ==
    UNION {Args2(name, Places, Sizes) :
              name \in {"log", "logPubkey", "logData", "log64", "stackHeight", "abort", "none"}}
    \cup UNION {Args3(name, Places, Places, Sizes) : name \in {"memcpy"}}
    \cup Args3("memset", Places, {9}, Sizes)
    \cup Args3("hash", {VaddrProgram, VaddrInput}, {0, 1, 3}, Places)
    \cup SeedCalls \cup Invokes \cup Compare \cup Twice \cup Kept

Header == [class |-> "64", data |-> "lsb", machine |-> "sbpf", type |-> "dyn"]
Sect(body) == [addr |-> 0, end |-> 8, body |-> body]
Sym(name, value) == [name |-> name, hash |-> 37, func |-> TRUE, defined |-> value # 0, value |-> value]
Elf(sections) ==
    [size |-> 9, header |-> Header, entry |-> 0, tableEnd |-> 8, namesOK |-> TRUE,
     aligned |-> TRUE, sections |-> sections]
Text(text) ==
    Elf((".text" :> Sect(text)) @@ (".rodata" :> Sect(Ro))
        @@ (".symtab" :> Sect(<<Sym("f", 8)>>)) @@ (".strtab" :> Sect(<<>>)))

Rela(offset, type, sym, addend) ==
    [offset |-> offset, type |-> type, sym |-> sym, addend |-> addend]
Linked(addr, rela) ==
    [Elf((".text" :> [Sect(Lddw(1, 0) \o <<Call(NoName), Mov(0, 0), Exit>>) EXCEPT !.addr = addr])
         @@ (".dynsym" :> Sect(<<Sym("f", addr + 24), Sym("log64", 0)>>)) @@ (".dynstr" :> Sect(<<>>))
         @@ (".rel.dyn" :> Sect(rela))) EXCEPT !.entry = addr]
Files ==
    {Linked(addr, <<Rela(0, "64_64", 1, 4), Rela(16, "64_32", s, 0)>>) : addr \in {0, 8}, s \in 1..3}
    \cup {Linked(0, <<Rela(8, "relative", 1, 1), Rela(64, "64_32", 1, 0), Rela(32, "64_64", 1, 0),
                      Rela(0, "other", 1, 0)>>)}
    \cup {[Text(<<Exit>>) EXCEPT !.size = 0], [Text(<<Exit>>) EXCEPT !.size = 5],
          [Text(<<Exit>>) EXCEPT !.header.class = "32"], [Text(<<Exit>>) EXCEPT !.aligned = FALSE],
          [Text(<<Exit>>) EXCEPT !.namesOK = FALSE], [Text(<<Exit>>) EXCEPT !.entry = 8],
          Elf(<<>>)}

Programs == {<<a, b, c, Exit>> : a, b, c \in Core} \cup [1..4 -> Small]
                \cup Ops \cup Jumps \cup Wide \cup Host

Account(executable, elf) == [executable |-> executable, elf |-> elf]
MCReused == {Account(TRUE, elf) : elf \in {Text(<<Exit>>), Text(<<Mov(0, 3), Exit>>)}}
MCElfs ==
    {NoProgram, Account(FALSE, Text(<<Exit>>))}
        \cup MCReused \cup {Account(TRUE, elf) : elf \in {Text(text) : text \in Programs} \cup Files}
MCUpgrades == {Account(TRUE, Text(<<Mov(0, 1), Exit>>))}

Given(writable, data) ==
    [key |-> <<1, 1, 1, 1>>, owner |-> MCKey, lamports |-> 300, data |-> data,
     executable |-> FALSE, rent |-> 7, signer |-> TRUE, writable |-> writable]
MCInputs == {[accounts |-> <<Given(FALSE, <<1, 2>>), Given(TRUE, <<3>>)>>, data |-> <<4>>],
             [accounts |-> <<>>, data |-> <<4, 4>>]}
=============================================================================
