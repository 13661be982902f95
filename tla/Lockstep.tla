------------------------------ MODULE Lockstep ------------------------------
(***************************************************************************)
(* The block lockstep of sh4_diff_harness.c: a block is translated, run    *)
(* natively from a starting state, run by the interpreter's helpers from   *)
(* the same state, and the two ends are compared.                          *)
(*                                                                         *)
(* A block is [code, pc, set]: set is "thumb", "arm" or "mvp" (the first   *)
(* Thumb translator), code a sequence of [i, cond, entry]: i an            *)
(* instruction of GuestOps, a memory-cycle charge or a branch (below),     *)
(* cond its condition, entry whether a branch targets it.  Each action     *)
(* translates one instruction, or runs the native code up to its next call *)
(* or exit, or runs one instruction of the reference.  The banking routine *)
(* and the op2 trampolines (sh4_stub.S) are services of the machine; the C *)
(* helper a trampoline names is GuestOps!Execute.                          *)
(*                                                                         *)
(* A charge is [k |-> "charge", form, seq, word, count]: the cycles of the *)
(* guest access at r2, count times (form "count": r3 times), or of the     *)
(* refill at r2 (forms "bx" and "refill").  A branch is [k |-> "b", to]:   *)
(* to another block, or forward to the next entry of this one.             *)
(***************************************************************************)
EXTENDS Sh4DataProc

G == INSTANCE GuestOps

CONSTANTS Blocks,   \* the blocks
          Starts(_),  \* those a block is run from: [guest |-> [g, spsr, bank, io], budget]
          SeqCost, NseqCost  \* ws_cyc_seq and ws_cyc_nseq: [0 .. 31 -> 0 .. 255]

VARIABLES phase,  \* "emit", "ready", "native", "oracle", "done"
          block,
          k,      \* the instruction to translate or to interpret next
          em,     \* the emitter
          last,   \* the condition of the open run
          due,    \* cycle_count: base cycles not yet charged
          nat,    \* the machine
          ora,    \* the reference: a guest state with the cycles used
          start   \* the starting state: [guest, budget]
vars == <<phase, block, k, em, last, due, nat, ora, start>>

Width(b) == IF b.set = "arm" THEN 4 ELSE 2
\* The cycles of fetching one instruction, folded into the code at translation.
FetchCost == SeqCost[((block.pc[1] \div 256) % 16) * 2 + (IF block.set = "arm" THEN 1 ELSE 0)]
PcOf(b, n) == Add(b.pc, Uns((n - 1) * Width(b)))
\* The instructions of the block that pc names.
Targets(b, pc) == {n \in DOMAIN b.code : PcOf(b, n) = pc}
\* The refill of the pipeline at pc.
RefillCost(pc) == NseqCost[((pc[1] \div 256) % 16) * 2 + (IF block.set = "arm" THEN 1 ELSE 0)]
Insn(n) == block.code[n].i
NoRun == 14

-----------------------------------------------------------------------------
\* Liveness: the flags each instruction may write, must write and requires
\* (thumb_flag_status, arm_flag_status), and the bottom-up pass.

CondReads == [c \in 0 .. 14 |->
    CASE c \in {0, 1} -> {"Z"} [] c \in {2, 3} -> {"C"} [] c \in {4, 5} -> {"N"}
      [] c \in {6, 7} -> {"V"} [] c \in {8, 9} -> {"C", "Z"} [] c \in {10, 11} -> {"N", "V"}
      [] c \in {12, 13} -> {"N", "Z", "V"} [] OTHER -> {}]
ThumbFlagStatus(i) ==
    LET both(f) == [may |-> f, must |-> f, needs |-> {}]
        NZf == {"N", "Z"}
    IN  CASE i.k = "shimm" /\ i.op = 0 /\ i.imm5 = 0 -> both(NZf)
          [] i.k = "shimm" /\ ~(i.op = 0 /\ i.imm5 = 0) -> both(NZf \cup {"C"})
          [] i.k = "imm8" -> both(IF i.sub = 0 THEN NZf ELSE Flags)
          [] i.k = "addsub" -> both(Flags)
          [] i.k = "alu" /\ i.alu \in {2, 3, 4, 7} -> [may |-> NZf \cup {"C"}, must |-> NZf, needs |-> {}]
          [] i.k = "alu" /\ i.alu \in {5, 6} -> [may |-> Flags, must |-> Flags, needs |-> {"C"}]
          [] i.k = "alu" /\ i.alu \in {9, 10, 11} -> both(Flags)
          [] i.k = "alu" /\ i.alu \in {0, 1, 8, 12, 13, 14, 15} -> both(NZf)
          [] i.k = "hireg" /\ i.op = 1 -> both(Flags)
          [] i.k = "hireg" /\ i.op # 1 ->
               [may |-> {}, must |-> {}, needs |-> IF i.rd = GPC THEN Flags ELSE {}]
          [] i.k = "b" -> [may |-> {}, must |-> {}, needs |-> Flags]
          [] OTHER -> both({})
ArmFlagStatus(i, cond) ==
    LET writes(may, must, needs) ==
            [may |-> may, must |-> IF cond = 14 THEN must ELSE {}, needs |-> needs \cup CondReads[cond]]
        NZf == {"N", "Z"}
        needs == (IF i.rd = GPC THEN Flags ELSE {}) \cup (IF i.op \in 5 .. 7 THEN {"C"} ELSE {})
                 \cup (IF i.o2.form # "imm" /\ i.o2.type = 3 THEN {"C"} ELSE {})
    IN  CASE i.k \in {"mul", "mull"} -> IF i.s THEN writes(NZf, NZf, {}) ELSE writes({}, {}, {})
          [] i.k \in {"mrs", "msr"} -> writes(Flags, {}, Flags)
          [] i.k = "dp" /\ ~i.s -> writes({}, {}, needs)
          [] i.k = "dp" /\ i.s /\ Logical(i.op) -> writes(NZf \cup {"C"}, NZf, needs)
          [] i.k = "dp" /\ i.s /\ ~Logical(i.op) -> writes(Flags, Flags, needs)
          [] i.k = "b" -> writes({}, {}, Flags)
          [] OTHER -> writes({}, {}, {})
InsnFlagStatus(b, n) == IF b.set # "arm" THEN ThumbFlagStatus(b.code[n].i)
                        ELSE ArmFlagStatus(b.code[n].i, b.code[n].cond)
\* Mutant: the exit at a branch target reads no flag.
FlagStatusSeamless(b, n) == InsnFlagStatus(b, n)

\* At the target of a branch an interrupt may observe the whole CPSR.
FlagStatus(b, n) ==
    [InsnFlagStatus(b, n) EXCEPT !.needs = IF b.code[n].entry THEN Flags ELSE @]
\* Needed(b)[n]: the flags needed below instruction n.
Needed(b) ==
    LET need[n \in 1 .. Len(b.code)] ==
            IF n = Len(b.code) THEN Flags
            ELSE LET s == FlagStatus(b, n + 1) IN (need[n + 1] \ s.must) \cup s.needs
    IN  need
LiveAt(b, n) == FlagStatus(b, n).may \cap Needed(b)[n]

-----------------------------------------------------------------------------
\* Translation of one instruction.

ChargeInsn(i) ==
    LET region == LoadGreg(2, ARG1) \o RegionOf(ARG1) \o I2("mov", RET, ARG2) IN
    CASE i.form = "run" -> LoadGreg(2, ARG1) \o ChargeRun(ARG1, i.seq, i.word, i.count)
      [] i.form = "spec" -> region \o ChargeSpecialized(ARG2, i.seq, i.word, i.count)
      [] i.form = "count" -> region \o LoadGreg(3, T1) \o ChargeCountSpecialized(ARG2, T1, i.seq, i.word)
      [] i.form = "bx" -> LoadGreg(2, ARG1) \o ChargeThumbBxFetch(ARG1)
      [] i.form = "refill" -> LoadGreg(2, ARG1) \o ChargeIndirectRefill(ARG1)

\* A taken branch debits the cycles due and the refill at its target; a Thumb
\* condition guards its own branch, an ARM one the run the branch is in.
BranchOff(i, cond, cycles) ==
    LET taken == CycleDebit(cycles + RefillCost(i.to)) \o BranchExit(i.to, Targets(block, i.to) # {})
    IN  IF block.set = "thumb" /\ cond # 14 THEN CondToT(cond) \o Over("else", "bf", taken) ELSE taken
\* The cycles still due below it: an unconditional branch has paid them.
DueBelow(i, cond, n, cycles) ==
    IF i.k # "b" \/ (cond # 14 /\ block.set = "arm") THEN cycles
    ELSE IF cond = 14 THEN 0 ELSE cycles + RefillCost(PcOf(block, n + 1))

\* A helper that may write the PC carries the cycles to charge when it does.
Native(i, fm) == CASE i.k = "dp"   -> ArmDpNative(i, fm)
                   [] i.k = "mul"  -> MultiplyNative(i)
                   [] i.k = "mull" -> MultiplyLongNative(i)
                   [] i.k \in {"mrs", "msr"} -> PsrNative(i)
                   [] OTHER -> TRUE
WritesPc(i) == i.k \in {"msr", "mrs"} \/ (i.k = "dp" /\ i.op \notin 8 .. 11)
CallHelper(i, n, pc, cycles) ==
    IF WritesPc(i) THEN Tramp(OpPcTramp, <<Helper[i.k], Uns(n), pc, Uns(cycles)>>)
    ELSE Tramp(OpTramp, <<Helper[i.k], Uns(n), pc>>)
\* cycles is the count accumulated so far, this instruction's included.
Translated(i, n, pc, fm, cycles) ==
    CASE block.set = "mvp" -> Mvp(i)
      [] block.set # "mvp" /\ i.k = "charge" -> ChargeInsn(i)
      [] block.set # "mvp" /\ i.k = "imm8"   -> ThumbImm8(i, fm)
      [] block.set # "mvp" /\ i.k = "addsub" -> ThumbAddSub(i, fm)
      [] block.set # "mvp" /\ i.k = "shimm"  -> ShiftImm(i, fm)
      [] block.set # "mvp" /\ i.k = "alu"    ->
           IF i.alu \in {2, 3, 4, 7} THEN ThumbShiftReg(i, fm) ELSE ThumbAlu(i, fm)
      [] i.k = "hireg"  -> ThumbHireg(i, Add(pc, Uns(4)), fm, cycles)
      [] i.k = "dp"     -> ArmDp(i, Add(pc, Uns(8)), LiveFlags(i, fm))
      [] i.k = "mul"    -> Multiply32(i, fm)
      [] i.k = "mull"   -> Multiply64(i, fm)
      [] OTHER          -> Psr(i, <<Helper[i.k], Uns(n), pc, Uns(cycles)>>)
EmitInsn(i, n, pc, fm, cycles) ==
    IF i.k = "b" THEN BranchOff(i, block.code[n].cond, cycles)
    ELSE IF Native(i, fm) THEN Translated(i, n, pc, fm, cycles) ELSE CallHelper(i, n, pc, cycles)

\* Mutant: the cycles due are charged inside the open run.
EntryInside(pc) == CycleSub(due, pc) \o At("run") \o At("entry")
                   \o CycleGate(pc, IF block.set = "arm" THEN 1 ELSE 0)

\* The target of a branch: the open run is closed, the cycles due are charged
\* whatever its condition, and the gate, where a branch lands, lets a spinning
\* loop out.
Entry(pc) == At("run") \o CycleSub(due, pc) \o At("entry")
             \o CycleGate(pc, IF block.set = "arm" THEN 1 ELSE 0)

\* A run of ARM instructions of one condition shares one skip; one that may
\* write flags is a run of its own, and so are branches.
RunTag(n) ==
    LET x == block.code[n] IN
    IF block.set # "arm" THEN NoRun
    ELSE x.cond + (IF x.i.k = "b" THEN 16 ELSE 0) + (IF FlagStatus(block, n).may # {} THEN 32 ELSE 0)
Emit ==
    /\ phase = "emit" /\ k <= Len(block.code)
    /\ LET x    == block.code[k]
           tag  == RunTag(k)
           new  == tag # (IF x.entry THEN NoRun ELSE last) \/ tag >= 32
           used == (IF x.entry THEN 0 ELSE due) + FetchCost
       IN  /\ em' = LitsegMaybeFlush(Assemble(em,
                       When(x.entry, Entry(PcOf(block, k))) \o When(new, At("run"))
                       \o When(new /\ tag % 16 # 14, CondToT(x.cond) \o Skip("run"))
                       \o EmitInsn(x.i, k, PcOf(block, k), LiveAt(block, k), used)))
           /\ last' = tag /\ due' = DueBelow(x.i, x.cond, k, used)
    /\ k' = k + 1
    /\ UNCHANGED <<phase, block, nat, ora, start>>

\* The end of the block: the pool, the end of an open run, and, unless an
\* unconditional branch left nothing to fall past, the gate that charges the
\* cycles due and dispatches the next address.  The first translator only
\* returns, its pool behind it.
EndedUncond == block.code[Len(block.code)].i.k = "b" /\ block.code[Len(block.code)].cond = 14
TranslationGate(pc) == CycleSub(due, pc) \o Const(pc, ARG0) \o VecJmp("pc_redispatch")
Close ==
    /\ phase = "emit" /\ k > Len(block.code)
    /\ em' = IF block.set = "mvp" THEN FlushPool(Assemble(em, << <<"rts">>, <<"nop">> >>))
             ELSE Assemble(LitsegEnd(em),
                           At("run") \o When(~EndedUncond, TranslationGate(PcOf(block, k))))
    /\ phase' = "ready" /\ last' = NoRun /\ due' = 0
    /\ UNCHANGED <<block, k, nat, ora, start>>

-----------------------------------------------------------------------------
\* The machine: its memory holds the guest state, the vector table, the
\* wait-state tables and the constant tables.

Garbage == <<43981, 13398>>
Swap(h) == (h % 256) * 256 + h \div 256
VecFn(j) == <<FnPage, 1024 + j>>
Memory0(o) ==
    (RegPage :> [a \in {4 * n : n \in 0 .. 17} \cup {4096} |->
                   IF a \in {0, 64, 4096} THEN Garbage ELSE o.g[a \div 4]])
    @@ (VecPage :> [a \in {4 * n : n \in 0 .. 14} |->
                      CASE a \div 4 = VecIndex("ws_cyc_seq") -> <<SeqPage, 0>>
                        [] a \div 4 = VecIndex("ws_cyc_nseq") -> <<NseqPage, 0>>
                        [] OTHER -> VecFn(a \div 4)])
    @@ (SeqPage :> [a \in 0 .. 31 |-> Uns(SeqCost[a])])
    @@ (NseqPage :> [a \in 0 .. 31 |-> Uns(NseqCost[a])])
    @@ (SpsrPage :> [a \in {4 * n : n \in 0 .. 5} |-> o.spsr[a \div 4]])
    @@ (BankPage :> [a \in {4 * n : n \in 0 .. 48} |-> o.bank[a \div 28][(a % 28) \div 4]])
    @@ (ModesPage :> [a \in {4 * n : n \in 0 .. 15} |-> Uns(G!CpuModes[a \div 4])])
    @@ (IoPage :> [a \in {512, 514, 520} |->
                     Uns(Swap(Low(CASE a = 512 -> o.io.ie [] a = 514 -> o.io.if [] OTHER -> o.io.ime)))])

Begin ==
    /\ phase = "ready" /\ ~em.error
    /\ \E st \in Starts(block) : LET o == st.guest IN
         /\ start' = st
         /\ nat' = [r |-> [n \in 0 .. 15 |->
                             CASE n = CPSR -> o.g[GCPSR] [] n = GR0 -> o.g[0]
                               [] n = CYCLES -> Sgn(st.budget) [] n = BASE -> <<RegPage, 0>>
                               [] n = VEC -> <<VecPage, 0>> [] n = BEXIT -> BlockExit
                               [] OTHER -> Garbage],
                    t |-> 1, mach |-> Garbage, macl |-> Garbage, mem |-> Memory0(o), at |-> 0,
                    out |-> Running]
         /\ ora' = [g |-> o.g, spsr |-> o.spsr, bank |-> o.bank, io |-> o.io, code |-> 0, cyc |-> 0]
    /\ phase' = "native" /\ k' = 1
    /\ UNCHANGED <<block, em, last, due>>

\* The guest state the machine holds.
GuestOf(s) ==
    [g |-> [n \in 0 .. 17 |-> CASE n = 0 -> s.r[GR0] [] n = GCPSR -> s.r[CPSR]
                                [] OTHER -> s.mem[RegPage][4 * n]],
     spsr |-> [n \in 0 .. 5 |-> s.mem[SpsrPage][4 * n]],
     bank |-> [n \in 0 .. 6 |-> [j \in 0 .. 6 |-> s.mem[BankPage][28 * n + 4 * j]]],
     io |-> start.guest.io, code |-> 0]
WithGuest(s, o) ==
    [s EXCEPT !.r = [n \in 0 .. 15 |-> CASE n \in 0 .. 7 -> Garbage [] n = GR0 -> o.g[0]
                                          [] n = CPSR -> o.g[GCPSR] [] OTHER -> @[n]],
              !.mem[RegPage] = [a \in DOMAIN @ |-> IF a = 4096 THEN @[a] ELSE o.g[a \div 4]],
              !.mem[SpsrPage] = [a \in DOMAIN @ |-> o.spsr[a \div 4]],
              !.mem[BankPage] = [a \in DOMAIN @ |-> o.bank[a \div 28][(a % 28) \div 4]]]

\* An op2 trampoline: the literals after the call name the helper, the
\* instruction and its address; a helper that wrote the PC leaves the block,
\* charging the cycles of the fifth literal.
LiteralAt(at, n) == em.code[at + 2 + 2 * n + 1][2]
Helped(s, o) ==
    IF s.out = OpPcTramp /\ o.code # 0
    THEN [WithGuest(s, o) EXCEPT !.r[CYCLES] = Sub(@, LiteralAt(s.at, 4)), !.r[ARG0] = o.g[GPC],
                                 !.out = VecFn(VecIndex("helper_exit"))]
    ELSE [WithGuest(s, o) EXCEPT !.out = Running]
Trampoline(s) == Helped(s, G!Execute(GuestOf(s), Insn(Low(LiteralAt(s.at, 2))), LiteralAt(s.at, 3)))
LegSteps == 80  \* the instructions of one leg at most
RoutineCode == Assemble(Empty, Rebank).code
Resume(s, u) == IF u.out = Returned THEN [u EXCEPT !.at = s.at, !.out = Running] ELSE Fault(s)
RunRebank(s) == Resume(s, Run([s EXCEPT !.at = 0, !.out = Running], RoutineCode, 2 * LegSteps))

\* One leg of the native run: to the next call, the exit or a fault.
RunNative ==
    /\ phase = "native" /\ nat.out = Running
    /\ nat' = Run(nat, em.code, LegSteps)
    /\ UNCHANGED <<phase, block, k, em, last, due, ora, start>>
Service ==
    /\ phase = "native" /\ nat.out \in {RebankFn, OpTramp, OpPcTramp}
    /\ nat' = IF nat.out = RebankFn THEN RunRebank(nat) ELSE Trampoline(nat)
    /\ UNCHANGED <<phase, block, k, em, last, due, ora, start>>
Exits == {BlockExit, VecFn(VecIndex("helper_exit")), VecFn(VecIndex("pc_redispatch")), Returned}
NativeEnds ==
    /\ phase = "native" /\ nat.out \notin {Running, RebankFn, OpTramp, OpPcTramp}
    /\ phase' = IF nat.out \in Exits THEN "oracle" ELSE "done"
    /\ UNCHANGED <<block, k, em, last, due, nat, ora, start>>

-----------------------------------------------------------------------------
\* The reference, one instruction at a time.

CondHolds(c, cpsr) ==
    LET n == Bit(cpsr, 31)
        z == Bit(cpsr, 30)
        f == Bit(cpsr, 29)
        v == Bit(cpsr, 28)
        base == CASE c \div 2 = 0 -> z = 1 [] c \div 2 = 1 -> f = 1 [] c \div 2 = 2 -> n = 1
                  [] c \div 2 = 3 -> v = 1 [] c \div 2 = 4 -> f = 1 /\ z = 0
                  [] c \div 2 = 5 -> n = v [] c \div 2 = 6 -> n = v /\ z = 0 [] OTHER -> TRUE
    IN  base = (c % 2 = 0)

Cost(table, o, word) == table[(Region(o.g[2]) % 16) * 2 + word]
ChargeOf(o, i) ==
    LET t == IF i.seq THEN SeqCost ELSE NseqCost IN
    CASE i.form \in {"run", "spec"} -> i.count * Cost(t, o, i.word)
      [] i.form = "count" -> Val(o.g[3]) * Cost(t, o, i.word)
      [] i.form = "bx" -> IF Bit(o.g[2], 0) = 1 THEN Cost(SeqCost, o, 0) ELSE 0
      [] i.form = "refill" -> IF Bit(o.g[2], 0) = 1 THEN 0
                              ELSE Cost(NseqCost, o, 1) + Cost(SeqCost, o, 1)
\* At the target of a branch the run stops when the budget is spent; the
\* first instruction of the block is reached by a jump, which fetches it.
Spent(n) == block.code[n].entry /\ start.budget <= ora.cyc
\* A branch: taken, to another block (code 3) or on to an instruction of this
\* one; not taken, a Thumb branch still fetches afresh.
BranchTo(o, x, n) ==
    IF CondHolds(x.cond, o.g[GCPSR])
    THEN [o EXCEPT !.g[GPC] = x.i.to, !.cyc = @ + RefillCost(x.i.to),
                   !.code = IF Targets(block, x.i.to) = {} THEN 3 ELSE 0]
    ELSE [o EXCEPT !.cyc = @ + IF block.set = "thumb" THEN RefillCost(PcOf(block, n + 1)) ELSE 0]
NextIndex(x, n) ==
    IF x.i.k = "b" /\ CondHolds(x.cond, ora.g[GCPSR]) /\ Targets(block, x.i.to) # {}
    THEN CHOOSE t \in Targets(block, x.i.to) : TRUE ELSE n + 1
Oracle ==
    /\ phase = "oracle" /\ k <= Len(block.code) /\ ora.code = 0
    /\ LET x == block.code[k] IN
       IF Spent(k)
       THEN /\ ora' = [ora EXCEPT !.code = 2, !.g[GPC] = PcOf(block, k),
                                  !.cyc = @ + IF k = 1 THEN FetchCost ELSE 0]
            /\ k' = k
       ELSE /\ ora' = [IF x.i.k = "charge" THEN [ora EXCEPT !.cyc = @ + ChargeOf(ora, x.i)]
                       ELSE IF x.i.k = "b" THEN BranchTo(ora, x, k)
                       ELSE IF CondHolds(x.cond, ora.g[GCPSR]) THEN G!Execute(ora, x.i, PcOf(block, k))
                       ELSE ora EXCEPT !.cyc = @ + FetchCost]
            /\ k' = NextIndex(x, k)
    /\ UNCHANGED <<phase, block, em, last, due, nat, start>>
OracleEnds ==
    /\ phase = "oracle" /\ (k > Len(block.code) \/ ora.code # 0)
    /\ phase' = "done"
    /\ UNCHANGED <<block, k, em, last, due, nat, ora, start>>

-----------------------------------------------------------------------------
NoState == [out |-> "none"]
Init ==
    /\ phase = "emit" /\ block \in Blocks /\ k = 1 /\ last = NoRun /\ due = 0
    /\ em = IF block.set = "mvp" THEN Empty ELSE LitsegBegin(Empty)
    /\ nat = NoState /\ ora = NoState /\ start = NoState
\* A block ends compared, or abandoned because its pool overflowed.
Stop == (phase = "done" \/ (phase = "ready" /\ em.error)) /\ UNCHANGED vars
Next == Emit \/ Close \/ Begin \/ RunNative \/ Service \/ NativeEnds \/ Oracle \/ OracleEnds \/ Stop
Spec == Init /\ [][Next]_vars

-----------------------------------------------------------------------------
\* Properties.

TypeOK ==
    /\ phase \in {"emit", "ready", "native", "oracle", "done"}
    /\ block \in Blocks /\ k \in 1 .. Len(block.code) + 1
    /\ Len(em.refs) <= IF block.set = "mvp" THEN LitPoolMax ELSE LitsegMaxRefs

\* Translated code is closed: every PC-relative load finds a literal, every
\* branch lands further on, on an instruction of the code, never inside a
\* literal pool; so a block that is entered is left.
CodeClosed ==
    phase = "ready" /\ ~em.error =>
      \A p \in 0 .. Pos(em) - 1 :
        LET ins == em.code[p + 1] IN
        /\ ins[1] = "ldlpc" => LET l == LitIndex(p, ins[2]) + 1
                               IN  l \in DOMAIN em.code /\ em.code[l][1] = "lit"
        /\ ins[1] \in {"bt", "bf", "bra"} =>
             LET to == p + 2 + (IF ins[1] = "bra" THEN Disp12(ins[2]) ELSE Disp8(ins[2]))
             IN  to \in p + 1 .. Pos(em) /\ (to < Pos(em) => em.code[to + 1][1] \notin {"lit", "lit2"})

\* The native end is the interpreter's end: the registers, the whole CPSR, the
\* banked state, the address the block leaves for and how it leaves: at its end,
\* by a taken branch, from the helper that wrote the PC, or at the gate of a
\* branch target, where an interrupt sees the flags an instruction before it set.
Leaves == CASE ora.code = 1 -> VecFn(VecIndex("helper_exit"))
            [] ora.code = 0 /\ start.budget > ora.cyc -> VecFn(VecIndex("pc_redispatch"))
            [] OTHER -> BlockExit
LockstepAgrees ==
    phase = "done" /\ block.set # "mvp" =>
      LET o == GuestOf(nat) IN
      /\ \A n \in (0 .. 14) \cup {GMODE, GCPSR} : o.g[n] = ora.g[n]
      /\ o.spsr = ora.spsr /\ o.bank = ora.bank
      /\ nat.r[ARG0] = IF ora.code = 0 THEN PcOf(block, Len(block.code) + 1) ELSE ora.g[GPC]
      /\ nat.out = Leaves

\* The first translator keeps N and Z only: the registers and those two
\* flags are the interpreter's, and the rest of the CPSR is untouched.
MvpAgrees ==
    phase = "done" /\ block.set = "mvp" =>
      /\ nat.out = Returned
      /\ \A n \in 0 .. 14 : GuestOf(nat).g[n] = ora.g[n]
      /\ \A b \in 30 .. 31 : Bit(nat.r[CPSR], b) = Bit(ora.g[GCPSR], b)
      /\ \A b \in 0 .. 29 : Bit(nat.r[CPSR], b) = Bit(start.guest.g[GCPSR], b)

\* The cycles taken from the budget are those the interpreter charges: the
\* fetch of each instruction reached, and the wait states of the guest accesses.
CyclesAgree ==
    phase = "done" /\ block.set # "mvp" => nat.r[CYCLES] = Sub(Sgn(start.budget), Uns(ora.cyc))
=============================================================================
