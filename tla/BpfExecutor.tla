----------------------------- MODULE BpfExecutor -----------------------------
(***************************************************************************)
(* pkg/svm/executor, loader and the interpreter of sbpf: a program account *)
(* is loaded, the accounts of an instruction are laid out in the input of  *)
(* the virtual machine, the program runs instruction by instruction under  *)
(* its compute meter, and what the input holds then is read back.          *)
(*                                                                         *)
(* One behaviour is one executor with one program account, whose content   *)
(* may be replaced between executions: the executor keeps what it loaded.  *)
(***************************************************************************)
EXTENDS Syscalls

CONSTANTS
    Elfs,              \* program accounts, [executable, elf] or NoProgram, at first
    Upgrades,          \* and later
    Inputs,            \* instructions: [accounts, data]
    ProgramKey,
    ComputeLimit, HeapDefault,
    InsSize,           \* bytes of an instruction, 8
    MinELFSize, MaxELFSize, MaxSections, MaxSymbols, MaxRelocations, MaxInstructions,
    MaxInstructionDataSize,
    NoProgram,
    Reused, MaxRuns    \* bounds: accounts executed more than once, and how often

ASSUME BpfAssumption ==
    /\ {ComputeLimit, HeapDefault, MinELFSize, MaxELFSize, MaxSections, MaxSymbols,
        MaxRelocations, MaxInstructions, MaxInstructionDataSize, MaxRuns} \subseteq Nat
    /\ HeapDefault <= HeapMax /\ InsSize \in Nat \ {0}
    /\ ProgramKey \in Seq(Bytes)
    /\ Long >= 4
    /\ \A in \in Inputs :
          /\ in.data \in Seq(Bytes)
          /\ in.accounts \in Seq([key : Seq(Bytes), owner : Seq(Bytes), lamports : Words,
                data : Seq(Bytes), executable : BOOLEAN, rent : Words,
                signer : BOOLEAN, writable : BOOLEAN])
          /\ \A i \in DOMAIN in.accounts :
                /\ Len(in.accounts[i].key) = KeySize /\ Len(in.accounts[i].owner) = KeySize
                /\ Len(in.accounts[i].data) < Word

VARIABLES
    db,        \* the program account: [executable, elf], or NoProgram
    cache,     \* what was loaded: [text, ro, entry, functions], or NoProgram
    pc, r, frames, mem, meter,
    cu, ret,   \* of the execution context: units counted, return data
    accts,     \* the accounts of the instruction
    status,    \* "idle", "run", "done", "error", "refused"
    modified,  \* keys of the accounts found modified
    left,      \* instructions there may still be
    calls,     \* history: return address and registers at each open call
    allocs     \* history: the blocks handed out by sol_alloc_free_

context == <<db, cache, accts, modified, left>>
history == <<calls, allocs>>
vars == <<context, pc, r, frames, mem, meter, cu, ret, status, history>>

Zeros(n) == [i \in 1..n |-> 0]

-----------------------------------------------------------------------------
(* Loading an ELF file: [size, header, entry, tableEnd, namesOK, sections] *)
(* where a section has its address, where it ends in the file, and what it *)
(* holds.                                                                  *)

HeaderOK(h) ==
    /\ h.class = "64" /\ h.data = "lsb"
    /\ h.machine \in {"bpf", "sbpf"} /\ h.type \in {"exec", "dyn"}

Has(elf, names) == names \subseteq DOMAIN elf.sections
Body(elf, name) == IF Has(elf, {name}) THEN elf.sections[name].body ELSE <<>>

SymbolsIn(elf) ==
    IF Has(elf, {".symtab", ".strtab"}) THEN <<".symtab", ".strtab">>
    ELSE IF Has(elf, {".dynsym", ".dynstr"}) THEN <<".dynsym", ".dynstr">> ELSE <<>>

Symbols(elf) == IF SymbolsIn(elf) = <<>> THEN <<>> ELSE Body(elf, SymbolsIn(elf)[1])

RelocationSections == <<".rel.text", ".rel.dyn">>

LoadOK(elf) ==
    /\ elf.size \in MinELFSize..MaxELFSize
    /\ HeaderOK(elf.header)
    /\ Cardinality(DOMAIN elf.sections) <= MaxSections /\ elf.tableEnd <= elf.size
    /\ elf.namesOK /\ Has(elf, {".text"})
    /\ \A name \in {".text", ".rodata"} \cup ToSet(SymbolsIn(elf) \o RelocationSections) :
          Has(elf, {name}) => elf.sections[name].end <= elf.size
    /\ elf.aligned /\ Len(Body(elf, ".text")) <= MaxInstructions
    /\ Len(Symbols(elf)) <= MaxSymbols
    /\ \A i \in DOMAIN RelocationSections :
          Len(Body(elf, RelocationSections[i])) <= MaxRelocations

(* The functions of the file by name, at value over InsSize whatever the   *)
(* address of the text; the last symbol of a name wins.                    *)
FunctionsOf(elf) ==
    LET symbols == Symbols(elf)
        Named(name) == {i \in DOMAIN symbols : /\ symbols[i].name = name
                                               /\ symbols[i].func /\ symbols[i].defined}
    IN [name \in {symbols[i].name : i \in {j \in DOMAIN symbols :
                    symbols[j].func /\ symbols[j].defined}} |->
            symbols[Max(Named(name))].value \div InsSize]

(* A new immediate, and the function of which it is the hash.              *)
Patched(ins, name, v) == [ins EXCEPT !.fn = name, !.imm = Signed(v % Half, HalfBits)]

(* One relocation.  Those of unknown symbols, or past the text, are        *)
(* skipped, and so are those of other types.                               *)
Relocated(text, rela, symbols) ==
    LET at == rela.offset \div InsSize + 1
        sym == symbols[rela.sym]
        target == (sym.value + rela.addend) % Word
    IN
    IF rela.sym \notin DOMAIN symbols \/ at \notin DOMAIN text THEN text
    ELSE IF rela.type = "64_32" THEN [text EXCEPT ![at] = Patched(@, sym.name, sym.hash)]
    ELSE IF rela.type = "64_64" /\ at + 1 \in DOMAIN text
    THEN [text EXCEPT ![at] = Patched(@, NoName, target),
                      ![at + 1] = Patched(@, NoName, target \div Half)]
    ELSE IF rela.type = "relative"
    THEN [text EXCEPT ![at] = Patched(@, NoName, (at - 1) * InsSize + rela.addend)]
    ELSE text

Load(elf) ==
    [text |-> FoldLeft(LAMBDA text, rela : Relocated(text, rela, Symbols(elf)),
                       Body(elf, ".text"),
                       Body(elf, ".rel.text") \o Body(elf, ".rel.dyn")),
     ro |-> Body(elf, ".rodata"),
     entry |-> ((elf.entry - elf.sections[".text"].addr) % Word) \div InsSize,
     functions |-> FunctionsOf(elf)]

(* What a file may hold; the hash of a symbol is its name's.  Where a      *)
(* section ends is offset + size, which is taken not to wrap: it would pass *)
(* the comparison with the size of the file, and the loader panic then.    *)
IsElf(elf) ==
    /\ elf.entry \in Nat /\ elf.tableEnd \in Words
    /\ \A name \in DOMAIN elf.sections :
          elf.sections[name].addr \in Nat /\ elf.sections[name].end \in Words
    /\ Body(elf, ".text") \in Seq(Instructions) /\ Body(elf, ".rodata") \in Seq(Bytes)
    /\ Symbols(elf) \in Seq([name : STRING, hash : 0..Half-1, func : BOOLEAN,
                             defined : BOOLEAN, value : Words])
    /\ \A i \in DOMAIN RelocationSections :
          Body(elf, RelocationSections[i]) \in
             Seq([offset : Words, type : STRING, sym : Nat, addend : Int])

ASSUME ElfAssumption ==
    \A program \in (Elfs \cup Upgrades) \ {NoProgram} : IsElf(program.elf)

-----------------------------------------------------------------------------
(* The input: accounts, instruction data, program key                      *)

Padding(n) == (Long - (n % Long)) % Long
Bit(b) == IF b THEN 1 ELSE 0

SerialAccount(a, i) ==
    <<(i - 1) % ByteRange, Bit(a.signer), Bit(a.writable), Bit(a.executable)>>
    \o Zeros(Long - 4) \o a.key \o a.owner \o BytesOf(a.lamports, Long)
    \o BytesOf(Len(a.data), Long) \o a.data \o Zeros(Padding(Len(a.data)))
    \o BytesOf(a.rent, Long)

SerializeInput(accounts, data) ==
    BytesOf(Len(accounts), Long)
    \o FlattenSeq([i \in DOMAIN accounts |-> SerialAccount(accounts[i], i)])
    \o BytesOf(Len(data), Long) \o data \o ProgramKey

(* A writable account takes lamports, data and rent epoch from the input;  *)
(* what is not there fails the instruction, after the fields before it and *)
(* the accounts before this one were changed.                              *)
DeserializeAccount(bytes, s, a) ==
    LET Field(at) == IntOf(SubSeq(bytes, at + 1, at + Long))
        at == s.at + Long + 2 * KeySize
        sized == at + 2 * Long <= Len(bytes)
        n == IF a.writable THEN Field(at + Long) ELSE Len(a.data)
        rent == at + 2 * Long + n + Padding(n)
        paid == IF at + Long <= Len(bytes) THEN [a EXCEPT !.lamports = Field(at)] ELSE a
        filled == IF sized /\ at + 2 * Long + n <= Len(bytes)
                  THEN [paid EXCEPT !.data = SubSeq(bytes, at + 2 * Long + 1, at + 2 * Long + n)]
                  ELSE paid
    IN
    IF ~s.ok THEN [s EXCEPT !.accts = Append(@, a)]
    ELSE IF ~a.writable
    THEN [s EXCEPT !.at = rent + Long, !.accts = Append(@, a)]
    ELSE IF sized /\ rent + Long <= Len(bytes)
    THEN [s EXCEPT !.at = rent + Long, !.accts = Append(@, [filled EXCEPT !.rent = Field(rent)])]
    ELSE [s EXCEPT !.ok = FALSE, !.accts = Append(@, filled)]

DeserializeOutput(bytes, accounts) ==
    FoldLeft(LAMBDA s, a : With(s, LAMBDA t : DeserializeAccount(bytes, t, a)),
             [at |-> Long, ok |-> TRUE, accts |-> <<>>], accounts)

FindModified(before, after) ==
    {after[i].key : i \in {j \in DOMAIN after : /\ after[j].writable
            /\ \/ after[j].lamports # before[j].lamports
               \/ after[j].data # before[j].data}}

-----------------------------------------------------------------------------
NoReturn == [id |-> Zeros(KeySize), data |-> <<>>]
NoMemory == [ro |-> <<>>, stack |-> <<>>, heap |-> <<>>, input |-> <<>>]

Init ==
    /\ db \in Elfs
    /\ cache = NoProgram /\ left = IF db \in Reused THEN MaxRuns ELSE 1
    /\ pc = 0 /\ r = [i \in Registers |-> 0] /\ frames = <<>> /\ mem = NoMemory
    /\ meter = 0 /\ cu = 0 /\ ret = NoReturn
    /\ accts = <<>> /\ status = "idle" /\ modified = {}
    /\ calls = <<>> /\ allocs = <<>>

machine == <<pc, r, frames, mem, meter, cu, ret, history>>

Resting == status # "run" /\ left > 0

(* The account is replaced behind the executor, which keeps its copy.      *)
Deploy ==
    /\ Resting /\ status # "idle"
    /\ db' \in Upgrades
    /\ UNCHANGED <<cache, accts, status, modified, left, machine>>

ClearCache ==
    /\ Resting /\ cache # NoProgram
    /\ cache' = NoProgram
    /\ UNCHANGED <<db, accts, status, modified, left, machine>>

LoadProgramOK == cache # NoProgram \/ (db # NoProgram /\ db.executable /\ LoadOK(db.elf))

(* ExecuteInstruction, refused before the program runs.                    *)
Refuse ==
    /\ Resting
    /\ \E in \in Inputs :
          /\ Len(in.data) > MaxInstructionDataSize \/ ~LoadProgramOK
          /\ accts' = in.accounts
    /\ status' = "refused" /\ left' = left - 1
    /\ UNCHANGED <<db, cache, modified, machine>>

(* ExecuteInstruction, up to the first instruction of the program.         *)
Execute ==
    /\ Resting /\ LoadProgramOK
    /\ cache' = IF cache # NoProgram THEN cache ELSE Load(db.elf)
    /\ \E in \in Inputs :
          /\ Len(in.data) <= MaxInstructionDataSize
          /\ accts' = in.accounts
          /\ mem' = [ro |-> cache'.ro, stack |-> Zeros(StackFrameSize * StackDepth),
                     heap |-> Zeros(HeapDefault),
                     input |-> SerializeInput(in.accounts, in.data)]
    /\ r' = [[i \in Registers |-> 0] EXCEPT ![1] = VaddrInput,
                                            ![10] = VaddrStack + StackFrameSize - 1]
    /\ pc' = cache'.entry /\ frames' = <<>>
    /\ meter' = ComputeLimit /\ cu' = 0 /\ ret' = NoReturn
    /\ status' = "run" /\ left' = left - 1 /\ modified' = {}
    /\ calls' = <<>> /\ allocs' = <<>>
    /\ UNCHANGED db

-----------------------------------------------------------------------------
(* Interpreter.Run: one turn of its loop                                   *)

InText == pc \in 0..Len(cache.text) - 1
Ins == cache.text[pc + 1]
Paid == InText /\ Cost(Ins) <= meter
Valid == Paid /\ {Ins.dst, Ins.src} \subseteq Registers /\ Known(Ins)

At(class) == status = "run" /\ Valid /\ Ins.class \in class /\ meter' = meter - Cost(Ins)
Is(class, codes) == At(class) /\ Ins.code \in codes

Advance == pc' = pc + 1
SetReg(i, v) == r' = [r EXCEPT ![i] = v]

AluStep ==
    /\ At({"alu", "alu64"})
    /\ ~DividesByZero(Ins, r)
    /\ SetReg(Ins.dst, AluResult(Ins, r)) /\ Advance
    /\ UNCHANGED <<context, frames, mem, cu, ret, status, history>>

(* The second slot holds the high half.                                    *)
LoadImmOK == pc + 1 < Len(cache.text) /\ Ins.dst # 10
LoadImm ==
    /\ At({"ld"}) /\ LoadImmOK
    /\ SetReg(Ins.dst, (Ins.imm % Half) + (cache.text[pc + 2].imm % Half) * Half)
    /\ pc' = pc + 2
    /\ UNCHANGED <<context, frames, mem, cu, ret, status, history>>

Address(i) == (r[i] + Ins.off) % Word
AccessOK ==
    IF Ins.class = "ldx"
    THEN LET addr == Address(Ins.src) IN
         Aligned(addr, Size[Ins.size]) /\ CanRead(mem, addr, Size[Ins.size])
    ELSE LET addr == Address(Ins.dst) IN
         Aligned(addr, Size[Ins.size]) /\ CanWrite(mem, addr, Size[Ins.size])

LoadMem ==
    /\ At({"ldx"}) /\ AccessOK
    /\ SetReg(Ins.dst, IntAt(mem, Address(Ins.src), Size[Ins.size])) /\ Advance
    /\ UNCHANGED <<context, frames, mem, cu, ret, status, history>>

StoreMem ==
    /\ At({"st", "stx"}) /\ AccessOK
    /\ LET value == IF Ins.class = "stx" THEN r[Ins.src] ELSE Ins.imm % Word IN
       mem' = Written(mem, Address(Ins.dst), BytesOf(value, Size[Ins.size]))
    /\ Advance
    /\ UNCHANGED <<context, r, frames, cu, ret, status, history>>

Jump ==
    /\ Is({"jmp", "jmp32"}, JumpCodes \cup {"ja"})
    /\ pc' = IF Holds(Ins, r) THEN pc + 1 + Ins.off ELSE pc + 1
    /\ UNCHANGED <<context, r, frames, mem, cu, ret, status, history>>

Args == [i \in 1..5 |-> r[i]]
Result == Invoked(Ins.fn, [state |-> "go", r0 |-> 0, mem |-> mem, cu |-> cu, ret |-> ret],
                  Args, ProgramKey)
CallsHost == Ins.fn \in SyscallNames

(* A call of the host, which may fail the program.                         *)
CallHost ==
    /\ Is({"jmp"}, {"call"}) /\ CallsHost
    /\ \E res \in {Result} :
       /\ mem' = res.mem /\ cu' = res.cu /\ ret' = res.ret
       /\ IF res.state = "err"
          THEN status' = "error" /\ UNCHANGED <<pc, r, allocs>>
          ELSE /\ SetReg(0, res.r0) /\ Advance
               /\ allocs' = IF Ins.fn = "alloc" /\ res.r0 # 0 /\ r[1] <= HeapMax
                            THEN Append(allocs, [at |-> res.r0, n |-> r[1]]) ELSE allocs
               /\ UNCHANGED status
    /\ UNCHANGED <<context, frames, calls>>

CalleeSaved == 6..9

(* Stack.Push: the caller's registers and where to return to.              *)
PushOK == Len(frames) < StackDepth
Push ==
    /\ PushOK
    /\ frames' = Append(frames, [fp |-> r[10], ret |-> pc + 1,
                                 nv |-> [i \in CalleeSaved |-> r[i]]])
    /\ SetReg(10, (r[10] + StackFrameSize + StackGap) % Word)
    /\ calls' = Append(calls, [ret |-> pc + 1, r |-> r])

CallFunction ==
    /\ Is({"jmp"}, {"call"}) /\ ~CallsHost /\ Ins.fn \in DOMAIN cache.functions
    /\ Push /\ pc' = cache.functions[Ins.fn]
    /\ UNCHANGED <<context, mem, cu, ret, status, allocs>>

(* An unknown function with a source register of 1 is a relative call.     *)
CallRelative ==
    /\ Is({"jmp"}, {"call"}) /\ ~CallsHost /\ Ins.fn \notin DOMAIN cache.functions
    /\ Ins.src = 1
    /\ Push /\ pc' = pc + Ins.imm + 1
    /\ UNCHANGED <<context, mem, cu, ret, status, allocs>>

Pop_KeepsRegisters(frame) == [r EXCEPT ![10] = frame.fp]

(* Stack.Pop: the registers of the caller.                                 *)
Pop(frame) ==
    [i \in Registers |-> IF i \in CalleeSaved THEN frame.nv[i]
                         ELSE IF i = 10 THEN frame.fp ELSE r[i]]

Return ==
    /\ Is({"jmp"}, {"exit"}) /\ frames # <<>>
    /\ r' = Pop(Last(frames)) /\ pc' = Last(frames).ret
    /\ frames' = Front(frames) /\ calls' = Front(calls)
    /\ UNCHANGED <<context, mem, cu, ret, status, allocs>>

(* The program ends; with 0 in r0, the accounts are read back.             *)
Halt ==
    /\ Is({"jmp"}, {"exit"}) /\ frames = <<>>
    /\ \E out \in {DeserializeOutput(mem.input, accts)} :
       IF r[0] # 0
       THEN status' = "error" /\ UNCHANGED <<accts, modified>>
       ELSE /\ accts' = out.accts
            /\ IF out.ok
               THEN status' = "done" /\ modified' = FindModified(accts, out.accts)
               ELSE status' = "error" /\ UNCHANGED modified
    /\ UNCHANGED <<db, cache, left, pc, r, frames, mem, cu, ret, history>>

(* What ends the program with an error: the counter out of the text, too   *)
(* few units, an instruction that is none, and those that fail.            *)
Fails ==
    CASE Ins.class \in {"alu", "alu64"} -> DividesByZero(Ins, r)
      [] Ins.class = "ld" -> ~LoadImmOK
      [] Ins.class \in {"ldx", "st", "stx"} -> ~AccessOK
      [] Ins.class = "jmp" /\ Ins.code = "call" ->
            /\ ~CallsHost
            /\ IF Ins.fn \in DOMAIN cache.functions \/ Ins.src = 1 THEN ~PushOK ELSE TRUE
      [] OTHER -> FALSE

Fault ==
    /\ status = "run" /\ (~Valid \/ (Valid /\ Fails))
    /\ meter' = IF ~InText THEN meter ELSE IF ~Paid THEN 0 ELSE meter - Cost(Ins)
    /\ status' = "error"
    /\ UNCHANGED <<context, pc, r, frames, mem, cu, ret, history>>

Step ==
    \/ AluStep \/ LoadImm \/ LoadMem \/ StoreMem \/ Jump
    \/ CallHost \/ CallFunction \/ CallRelative \/ Return \/ Halt \/ Fault

Next == Deploy \/ ClearCache \/ Refuse \/ Execute \/ Step

(* The loop of Run goes on by itself.                                      *)
Spec == Init /\ [][Next]_vars /\ WF_vars(Step)

-----------------------------------------------------------------------------
(* Registers and memory keep their width, and the bounds on depth, heap    *)
(* and units hold.                                                         *)
TypeOK ==
    /\ r \in [Registers -> Words] /\ pc \in Int
    /\ meter \in 0..ComputeLimit /\ cu \in 0..CuLimit
    /\ Len(frames) <= StackDepth /\ Len(mem.heap) <= HeapMax
    /\ \A region \in DOMAIN mem : ToSet(mem[region]) \subseteq Bytes
    /\ Len(ret.data) <= MaxReturnData
    /\ status \in {"idle", "run", "done", "error", "refused"}

(* Every program comes to an end: the meter pays for loops and recursion,  *)
(* and whatever an instruction or a call of the host meets, Run goes on or *)
(* returns.                                                                *)
Halts == (status = "run") ~> (status # "run")

(* A return, from a call of either kind and after whatever the callee did, *)
(* goes to the instruction after its call, with r6 to r10 as they were.    *)
CallsReturn ==
    [][(status = "run" /\ Len(frames') < Len(frames)) =>
          /\ pc' = Last(calls).ret
          /\ \A i \in CalleeSaved \cup {10} : r'[i] = Last(calls).r[i]]_vars

(* vm.go:11, memory.go:51: the program and its input are read-only, for    *)
(* every store and for every call of the host that writes to an address it *)
(* is given.  Hence what deserializeOutput reads back "to update accounts"  *)
(* (bpf_executor.go:489) is what was laid out: no program changes any      *)
(* account, its own included (SvmProofs!NothingModified).                  *)
InputIsKept == [][status = "run" => mem'.ro = mem.ro /\ mem'.input = mem.input]_vars

(* The blocks sol_alloc_free_ hands out for sizes up to HeapMax are whole  *)
(* inside the heap, apart from each other and from the heap there was at   *)
(* first, through any later growth.  (The sum wraps for larger sizes.)     *)
AllocsSound ==
    \A i \in DOMAIN allocs :
        /\ allocs[i].at >= VaddrHeap + HeapDefault
        /\ CanWrite(mem, allocs[i].at, allocs[i].n)
        /\ \A j \in 1..i - 1 : allocs[j].at + allocs[j].n <= allocs[i].at
=============================================================================
