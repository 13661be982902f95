---------------------------- MODULE Sh4DataProc ----------------------------
(***************************************************************************)
(* The native emitters of the data-processing instructions: Thumb          *)
(* arithmetic, shifts and hi-register forms, ARM data processing, the      *)
(* multiplies and the PSR transfers (sh4_thumb_dp_emit.h,                  *)
(* sh4_arm_mul_emit.h, sh4_emit_glue.h, sh4_thumb_mvp.h).                  *)
(*                                                                         *)
(* Instructions are the records of GuestOps.  fm is the set of flags some  *)
(* later instruction may read.  Where an emitter declines, its predicate   *)
(* ...Native is false and the caller emits a call of the C helper.         *)
(***************************************************************************)
EXTENDS Sh4Emit, SequencesExt

\* An operand register, r15 being a constant of the translation.
Operand(idx, rn, r15) == IF idx = GPC THEN Const(r15, rn) ELSE LoadGreg(idx, rn)

\* R1 +- R2, the result in R1 and in rd when write; C and V in R4 and R5.
AddSub(sub, rd, write, fm) ==
    LET eff == FlagsRound(fm)
        c == "C" \in eff
        v == "V" \in eff
        minus == When(c, I2("cmphs", T1, T0) \o I1("movt", ARG0)) \o I2("sub", T1, T0)
                 \o When(v, I2("subv", T1, T2) \o I1("movt", ARG1))
        plus  == (IF c THEN I1("clrt", 0) \o I2("addc", T1, T0) \o I1("movt", ARG0)
                       ELSE I2("add", T1, T0))
                 \o When(v, I2("addv", T1, T2) \o I1("movt", ARG1))
    IN  When(v, I2("mov", T0, T2)) \o (IF sub THEN minus ELSE plus)
        \o When(write, StoreGreg(T0, rd)) \o SetFlags(T0, ARG0, ARG1, eff)

\* R1 + R2 + C and R1 - R2 - !C, V from the saved operand in R6.
CarryIn == I2("mov", CPSR, RET) \o I1("shll2", RET) \o I1("shll", RET)
BorrowIn == I2("mov", CPSR, T2) \o MovI(1, RET) \o I1("rotr", RET) \o I1("shlr2", RET)
            \o I2("tst", RET, T2)
WithCarry(sub, rd, write, fm) ==
    LET eff == FlagsRound(fm)
        c == "C" \in eff
        adc == CarryIn \o I2("addc", T1, T0) \o When(c, I1("movt", ARG0))
        sbc == BorrowIn \o I2("subc", T1, T0)
               \o When(c, I1("movt", ARG0) \o I2("not", ARG0, RET) \o I1("andi", 1)
                          \o I2("mov", RET, ARG0))
        v == I2("mov", ARG2, T2) \o I2("xor", T1, T2) \o When(~sub, I2("not", T2, T2))
             \o I2("mov", ARG2, RET) \o I2("xor", T0, RET) \o I2("and", RET, T2)
             \o I1("shll", T2) \o I1("movt", ARG1)
    IN  When("V" \in eff, I2("mov", T0, ARG2)) \o (IF sub THEN sbc ELSE adc)
        \o When("V" \in eff, v) \o When(write, StoreGreg(T0, rd)) \o SetFlags(T0, ARG0, ARG1, eff)

Compute(op) ==
    CASE op = "and" -> I2("and", T1, T0)
      [] op = "orr" -> I2("or", T1, T0)
      [] op = "eor" -> I2("xor", T1, T0)
      [] op = "bic" -> I2("not", T1, T1) \o I2("and", T1, T0)
      [] op = "mul" -> I2("mull", T1, T0) \o I1("stsl", T0)
      [] op = "mov" -> I2("mov", T1, T0)
      [] op = "mvn" -> I2("not", T1, T0)
SecondOnly(op) == op \in {"mov", "mvn"}

\* Thumb LSL, LSR and ASR (kind 0, 1, 2) by an immediate; the 0 of a right
\* shift means 32.
TopBit(rn) == I1("shll", rn) \o I1("movt", rn)
ShiftImm(i, fm) ==
    LET wantC == "C" \in fm /\ ~(i.op = 0 /\ i.imm5 = 0)
        right == IF i.imm5 = 0 THEN 31 ELSE i.imm5
        shift == MovI(IF i.op = 0 THEN i.imm5 ELSE -right, RET)
                 \o I2(IF i.op = 2 THEN "shad" ELSE "shld", RET, T0)
        carry == I2("mov", T0, ARG0) \o MovI(IF i.op = 0 THEN -(32 - i.imm5) ELSE -(i.imm5 - 1), RET)
                 \o I2("shld", RET, ARG0) \o I2("mov", ARG0, RET) \o I1("andi", 1)
                 \o I2("mov", RET, ARG0)
        body  == CASE i.imm5 # 0 -> When(wantC, carry) \o shift
                   [] i.imm5 = 0 /\ i.op = 0 -> <<>>
                   [] OTHER -> When(wantC, I2("mov", T0, ARG0) \o TopBit(ARG0))
                               \o (IF i.op = 1 THEN MovI(0, T0) ELSE shift)
    IN  LoadGreg(i.rs, T0) \o body \o StoreGreg(T0, i.rd)
        \o SetFlags(T0, ARG0, ARG0, FlagsRound(fm \cap (IF wantC THEN {"N", "Z", "C"} ELSE {"N", "Z"})))

ThumbImm8(i, fm) ==
    LET load == LoadGreg(i.rd, T0) \o Const(Uns(i.imm), T1) IN
    CASE i.sub = 0 -> Const(Uns(i.imm), T0) \o StoreGreg(T0, i.rd) \o SetNzM(T0, fm)
      [] i.sub = 1 /\ fm = {} -> <<>>
      [] i.sub = 2 -> load \o AddSub(FALSE, i.rd, TRUE, fm)
      [] OTHER     -> load \o AddSub(TRUE, i.rd, i.sub = 3, fm)

ThumbAddSub(i, fm) ==
    LoadGreg(i.rn, T0) \o (IF i.lit THEN Const(Uns(i.arg), T1) ELSE LoadGreg(i.arg, T1))
    \o AddSub(i.sub, i.rd, TRUE, fm)

AluName == [k \in {0, 1, 8, 12, 13, 14, 15} |->
              CASE k \in {0, 8} -> "and" [] k = 1 -> "eor" [] k = 12 -> "orr"
                [] k = 13 -> "mul" [] k = 14 -> "bic" [] k = 15 -> "mvn"]
AluOp(i, op, fm) ==
    When(~SecondOnly(op), LoadGreg(i.rd, T0)) \o LoadGreg(i.rs, T1) \o Compute(op)
    \o When(i.alu # 8, StoreGreg(T0, i.rd)) \o SetNzM(T0, fm)
ThumbAlu(i, fm) ==
    LET both == LoadGreg(i.rd, T0) \o LoadGreg(i.rs, T1) IN
    CASE i.alu \in {5, 6} -> both \o WithCarry(i.alu = 6, i.rd, TRUE, fm)
      [] i.alu \in {8, 10, 11} /\ fm = {} -> <<>>
      [] i.alu = 9 -> MovI(0, T0) \o LoadGreg(i.rs, T1) \o AddSub(TRUE, i.rd, TRUE, fm)
      [] i.alu \in {10, 11} /\ fm # {} -> both \o AddSub(i.alu = 10, i.rd, FALSE, fm)
      [] OTHER -> AluOp(i, AluName[i.alu], fm)

\* Hi-register ADD, CMP and MOV (op 0, 1, 2); a PC destination leaves the
\* block through helper_exit with R4 = the address and R1 = 1.
HiregJump(i, r15, cycles) ==
    CycleDebit(cycles)
    \o (IF i.op = 0 THEN Const(r15, RET) \o Operand(i.rs, T1, r15) \o I2("add", T1, RET)
                     ELSE Operand(i.rs, RET, r15))
    \o MovI(-2, T1) \o I2("and", T1, RET) \o StoreGreg(RET, GPC)
    \o I2("mov", RET, ARG0) \o MovI(1, T0) \o VecJmp("helper_exit")
ThumbHireg(i, r15, fm, cycles) ==
    LET both == Operand(i.rd, T0, r15) \o Operand(i.rs, T1, r15) IN
    CASE i.op = 2 /\ i.rd = 8 /\ i.rs = 8 -> <<>>
      [] i.op = 1 /\ fm = {} -> <<>>
      [] i.op = 1 /\ fm # {} -> both \o AddSub(TRUE, i.rd, FALSE, fm)
      [] i.op # 1 /\ i.rd = GPC -> HiregJump(i, r15, cycles)
      [] i.op = 0 /\ i.rd # GPC -> both \o AddSub(FALSE, i.rd, TRUE, {})
      [] OTHER -> Operand(i.rs, T0, r15) \o StoreGreg(T0, i.rd)

\* Thumb shifts by a register.  R1 value, R0 amount, R3 amount - 32, R4 carry.
RorReg(wantC) ==
    I1("andi", 31) \o I2("tst", RET, RET)
    \o Over("whole", "bt", I2("mov", T0, ARG0) \o I2("neg", RET, ARG2) \o I2("shld", ARG2, ARG0)
                           \o MovI(32, ARG1) \o I2("sub", RET, ARG1) \o I2("shld", ARG1, T0)
                           \o I2("or", ARG0, T0))
    \o When(wantC, I2("mov", T0, ARG0) \o TopBit(ARG0))
SmallShift(alu, wantC) ==
    When(wantC, (IF alu = 2 THEN I2("mov", T0, ARG0) \o I2("shld", T2, ARG0)
                 ELSE MovI(1, ARG1) \o I2("sub", RET, ARG1) \o I2("mov", T0, ARG0)
                      \o I2("shld", ARG1, ARG0))
                \o MovI(1, ARG1) \o I2("and", ARG1, ARG0))
    \o (IF alu = 2 THEN I2("shld", RET, T0)
        ELSE I2("neg", RET, ARG2) \o I2(IF alu = 3 THEN "shld" ELSE "shad", ARG2, T0))
BigShift(alu, wantC) ==
    IF alu = 4
    THEN When(wantC, I2("mov", T0, ARG0) \o TopBit(ARG0)) \o MovI(-31, ARG2) \o I2("shad", ARG2, T0)
    ELSE When(wantC, I2("tst", T2, T2) \o I1("movt", ARG1) \o I2("mov", T0, ARG0)
                     \o (IF alu = 2 THEN MovI(1, ARG2) \o I2("and", ARG2, ARG0) ELSE TopBit(ARG0))
                     \o I2("and", ARG1, ARG0))
         \o MovI(0, T0)
\* Small for amounts below 32, Big from 32 on, one join.
SmallOrBig(small, big) ==
    I2("mov", RET, T2) \o I2("addi", 224, T2) \o I1("cmppz", T2) \o Br("bt", "big")
    \o small \o Bra("shifted") \o At("big") \o big \o At("shifted")
ThumbShiftReg(i, fm) ==
    LET wantC == "C" \in fm
        flags(live) == SetFlags(T0, ARG0, ARG0, FlagsRound(fm \cap live))
    IN  LoadGreg(i.rd, T0) \o LoadGreg(i.rs, RET) \o I1("andi", 255) \o I2("tst", RET, RET)
        \o Br("bt", "zero")
        \o (IF i.alu = 7 THEN RorReg(wantC) ELSE SmallOrBig(SmallShift(i.alu, wantC), BigShift(i.alu, wantC)))
        \o StoreGreg(T0, i.rd) \o flags(IF wantC THEN {"N", "Z", "C"} ELSE {"N", "Z"}) \o Bra("end")
        \o At("zero") \o flags({"N", "Z"}) \o At("end")

-----------------------------------------------------------------------------
\* ARM data processing.

O2Value(o2) == Ror(Uns(o2.imm), 2 * o2.rot)
IsShifted(o2) == o2.form = "regsh" \/ (o2.form = "reg" /\ (o2.type # 0 \/ o2.amount # 0))
Logical(op) == op \in {0, 1, 8, 9, 12, 13, 14, 15}
LiveFlags(i, fm) == IF i.s THEN fm ELSE {}

ArmDpNative(i, fm) ==
    /\ i.rd # GPC
    /\ i.o2.form # "imm" /\ i.o2.rm = GPC => ~IsShifted(i.o2)
    /\ i.o2.form = "regsh" => ~i.s /\ i.op \in {13, 15} /\ i.o2.rs # GPC
    /\ i.o2.form = "reg" /\ i.o2.type = 3 =>
          i.o2.amount # 0 /\ ~("C" \in LiveFlags(i, fm) /\ Logical(i.op))

\* An immediate shift of R2, the shifter's carry not wanted; and with the
\* carry in R6, the value loaded there first.
RorImm(n) == I2("mov", T1, T2) \o MovI(-n, RET) \o I2("shld", RET, T1) \o MovI(32 - n, RET)
             \o I2("shld", RET, T2) \o I2("or", T2, T1)
ShiftR2(type, n) ==
    CASE type = 0 -> MovI(n, RET) \o I2("shld", RET, T1)
      [] type = 1 /\ n = 0 -> MovI(0, T1)
      [] type = 1 /\ n # 0 -> MovI(-n, RET) \o I2("shld", RET, T1)
      [] type = 2 -> MovI(IF n = 0 THEN -32 ELSE -n, RET) \o I2("shad", RET, T1)
ShiftImmOp2(o2) ==
    LoadGreg(o2.rm, T1) \o (IF o2.type = 3 THEN RorImm(o2.amount) ELSE ShiftR2(o2.type, o2.amount))
ShiftImmFull(o2) ==
    LET n == o2.amount
        carry == IF n = 0 THEN I2("mov", ARG2, RET) \o TopBit(RET)
                 ELSE I2("mov", ARG2, T2) \o MovI(IF o2.type = 0 THEN -(32 - n) ELSE -(n - 1), RET)
                      \o I2("shld", RET, T2) \o I2("mov", T2, RET) \o I1("andi", 1)
    IN  LoadGreg(o2.rm, ARG2) \o I2("mov", ARG2, T1) \o ShiftR2(o2.type, n) \o carry
        \o I2("mov", RET, ARG2)

\* A shift by a register, no flags: R2 value, R0 amount, R3 amount - 32.
ShiftRegOp2(o2) ==
    LET small == IF o2.type = 0 THEN I2("shld", RET, T1)
                 ELSE I2("neg", RET, ARG0) \o I2(IF o2.type = 1 THEN "shld" ELSE "shad", ARG0, T1)
        big   == IF o2.type = 2 THEN MovI(-31, ARG0) \o I2("shad", ARG0, T1) ELSE MovI(0, T1)
        rotate == I2("mov", T1, ARG0) \o I2("neg", RET, ARG1) \o I2("shld", ARG1, ARG0)
                  \o MovI(32, ARG1) \o I2("sub", RET, ARG1) \o I2("shld", ARG1, T1)
                  \o I2("or", ARG0, T1)
    IN  LoadGreg(o2.rm, T1) \o LoadGreg(o2.rs, RET) \o I1("andi", 255) \o I2("tst", RET, RET)
        \o Over("zero", "bt",
                 IF o2.type = 3
                 THEN I1("andi", 31) \o I2("tst", RET, RET) \o Over("whole", "bt", rotate)
                 ELSE SmallOrBig(small, big))

LoadOp2(o2, r15, wantC) ==
    CASE o2.form = "imm" -> Const(O2Value(o2), T1)
      [] o2.form = "regsh" -> ShiftRegOp2(o2)
      [] o2.form = "reg" /\ ~IsShifted(o2) -> Operand(o2.rm, T1, r15)
      [] OTHER -> IF wantC THEN ShiftImmFull(o2) ELSE ShiftImmOp2(o2)

LogicalName == [op \in {0, 1, 8, 9, 12, 13, 14, 15} |->
                  CASE op \in {0, 8} -> "and" [] op \in {1, 9} -> "eor" [] op = 12 -> "orr"
                    [] op = 13 -> "mov" [] op = 14 -> "bic" [] op = 15 -> "mvn"]
ArmLogical(i, r15, fm) ==
    LET op == LogicalName[i.op]
        rotated == i.o2.form = "imm" /\ i.o2.rot # 0
    IN  When(~SecondOnly(op), Operand(i.rn, T0, r15)) \o LoadOp2(i.o2, r15, "C" \in fm)
        \o Compute(op) \o When(i.op \notin {8, 9}, StoreGreg(T0, i.rd))
        \o (IF "C" \in fm /\ (IsShifted(i.o2) \/ rotated)
            THEN When(rotated, MovI(Sign(O2Value(i.o2)), ARG2)) \o SetFlags(T0, ARG2, ARG2, {"N", "Z", "C"})
            ELSE SetNzM(T0, fm))

Reversed == I2("mov", T0, RET) \o I2("mov", T1, T0) \o I2("mov", RET, T1)
ArmDp(i, r15, fm) ==
    LET both == Operand(i.rn, T0, r15) \o LoadOp2(i.o2, r15, FALSE) IN
    CASE i.op \in 8 .. 11 /\ fm = {} -> <<>>
      [] Logical(i.op) /\ ~(i.op \in 8 .. 11 /\ fm = {}) -> ArmLogical(i, r15, fm)
      [] i.op \in {2, 4} \/ (i.op \in {10, 11} /\ fm # {}) ->
           both \o AddSub(i.op \in {2, 10}, i.rd, i.op \in {2, 4}, fm)
      [] i.op = 3 -> both \o Reversed \o AddSub(TRUE, i.rd, TRUE, fm)
      [] i.op \in 5 .. 7 -> both \o When(i.op = 7, Reversed) \o WithCarry(i.op # 5, i.rd, TRUE, fm)

-----------------------------------------------------------------------------
\* Multiplies.

MultiplyNative(i) == GPC \notin {i.rd, i.rm, i.rs} /\ (i.acc => i.rn # GPC)
Multiply32(i, fm) ==
    LoadGreg(i.rm, T0) \o LoadGreg(i.rs, T1) \o I2("mull", T0, T1) \o I1("stsl", T0)
    \o When(i.acc, LoadGreg(i.rn, T1) \o I2("add", T1, T0))
    \o StoreGreg(T0, i.rd) \o When(i.s, SetNzM(T0, fm))

MultiplyLongNative(i) == GPC \notin {i.hi, i.lo, i.rm, i.rs} /\ i.hi # i.lo
Multiply64(i, fm) ==
    LoadGreg(i.rm, T0) \o LoadGreg(i.rs, T1)
    \o I2(IF i.signed THEN "dmuls" ELSE "dmulu", T0, T1) \o I1("stsl", T0) \o I1("stsh", T1)
    \o When(i.acc, LoadGreg(i.lo, T2) \o LoadGreg(i.hi, ARG0) \o I1("clrt", 0)
                   \o I2("addc", T2, T0) \o I2("addc", ARG0, T1))
    \o StoreGreg(T0, i.lo) \o StoreGreg(T1, i.hi)
    \o When(i.s /\ fm \cap {"N", "Z"} # {}, SetNz64(T0, T1))

-----------------------------------------------------------------------------
\* MRS and MSR.

SpsrIndex(rn) ==
    LoadGreg(GMODE, RET) \o I1("andi", 15) \o I1("shll2", RET) \o Const(<<SpsrPage, 0>>, rn)

PsrNative(i) ==
    IF i.k = "mrs" THEN i.rd # GPC
    ELSE i.field # 0 /\ ~(i.o2.form # "imm" /\ i.o2.rm = GPC)

Mrs(i) == (IF i.spsr THEN SpsrIndex(T1) \o I2("ldlr0", T1, T0) ELSE LoadGreg(GCPSR, T0))
          \o StoreGreg(T0, i.rd)

FieldMask(field) == <<IF field >= 2 THEN 61440 ELSE 0, IF field % 2 = 1 THEN 239 ELSE 0>>
\* R2 = value & mask, a register operand masked through rn.
MaskedValue(o2, mask, rn) ==
    IF o2.form = "imm" THEN Const(And(O2Value(o2), mask), T1)
    ELSE LoadGreg(o2.rm, T1) \o Const(mask, rn) \o I2("and", rn, T1)
Cleared(mask) == Const(Not(mask), T1) \o I2("and", T1, T0)
MsrSpsr(o2, mask) ==
    SpsrIndex(T2) \o I2("ldlr0", T2, T0) \o Cleared(mask) \o MaskedValue(o2, mask, ARG1)
    \o I2("or", T1, T0) \o I2("stlr0", T0, T2)
MsrFlags(o2, mask) ==
    LoadGreg(GCPSR, T0) \o Cleared(mask) \o MaskedValue(o2, mask, T2)
    \o I2("or", T1, T0) \o StoreGreg(T0, GCPSR)

\* The functions the code leaves for.
RebankFn  == <<FnPage, 256>>
OpTramp   == <<FnPage, 257>>
OpPcTramp == <<FnPage, 258>>
Helper    == [dp |-> <<FnPage, 261>>, mul |-> <<FnPage, 262>>, mull |-> <<FnPage, 263>>,
              mrs |-> <<FnPage, 264>>, msr |-> <<FnPage, 264>>]
IoPage == 35846

\* MSR of the control byte.  User mode, a change of the Thumb bit, and an
\* interrupt the new value would let in go to the helper; a change of mode
\* goes through the resident routine; the rest is a store.  R1 is the new
\* CPSR, R5 the old one, R7 the value.
MsrControl(o2, mask, literals) ==
    (IF o2.form = "imm" THEN Const(O2Value(o2), ARG3) ELSE LoadGreg(o2.rm, ARG3))
    \o LoadGreg(GCPSR, T0) \o I2("mov", T0, ARG1) \o Cleared(mask) \o Const(mask, T1)
    \o I2("mov", ARG3, T2) \o I2("and", T1, T2) \o I2("or", T2, T0)
    \o LoadGreg(GMODE, RET) \o I1("tsti", 16) \o Br("bt", "helper")
    \o I2("mov", ARG1, RET) \o I2("xor", T0, RET) \o I1("andi", 32) \o I2("tst", RET, RET)
    \o Br("bf", "helper")
    \o I2("mov", T0, RET) \o I1("tsti", 128) \o Br("bf", "native")
    \o Const(<<IoPage, 512>>, T2) \o I2("ldw", T2, T1) \o I2("extuw", T1, T1) \o I2("addi", 2, T2)
    \o I2("ldw", T2, ARG2) \o I2("extuw", ARG2, ARG2) \o I2("tst", T1, ARG2) \o Br("bt", "native")
    \o I2("addi", 6, T2) \o I2("ldw", T2, RET) \o I2("swapb", RET, RET) \o I1("tsti", 1)
    \o Br("bt", "native")
    \o At("helper") \o Tramp(OpPcTramp, literals) \o Bra("msr")
    \o At("native") \o I2("mov", ARG1, RET) \o I2("xor", T0, RET) \o I1("andi", 15) \o I2("tst", RET, RET)
    \o Over("mode", "bt", Const(RebankFn, RET) \o I1("jsr", RET) \o Nop)
    \o StoreGreg(T0, GCPSR) \o At("msr")

Psr(i, literals) ==
    CASE i.k = "mrs" -> Mrs(i)
      [] i.k = "msr" /\ i.spsr -> MsrSpsr(i.o2, FieldMask(i.field))
      [] i.k = "msr" /\ ~i.spsr /\ i.field = 2 -> MsrFlags(i.o2, FieldMask(2))
      [] OTHER -> MsrControl(i.o2, FieldMask(i.field), literals)

\* The resident routine: retire the old bank, load the new one, set the mode.
\* R7 the new mode, R5 the old, R6 and R3 their rows, of seven words.
BankPage == 35847
ModesPage == 35848
Row(mode, keep) == I2("mov", mode, RET) \o I1("andi", 15) \o I1("shll2", RET) \o I2("mov", RET, T1)
                   \o I1("shll2", RET) \o I2("add", T1, RET) \o I2("add", T1, RET) \o I2("add", T1, RET)
                   \o keep
Retire == [k \in 0 .. 6 |-> LoadGreg(8 + k, T1) \o << <<"stldisp", T1, ARG2, k>> >>]
Reload == [k \in 0 .. 6 |-> << <<"ldldisp", T2, T1, k>> >> \o StoreGreg(T1, 8 + k)]
\* r8 .. r14 when T, r13 and r14 when not.
Banked(l, end, each) ==
    Br("bt", l) \o each[5] \o each[6] \o Bra(end)
    \o At(l) \o FlattenSeq([k \in 1 .. 7 |-> each[k - 1]]) \o At(end)
Rebank ==
    I2("mov", T0, RET) \o I1("andi", 15) \o I1("shll2", RET) \o Const(<<ModesPage, 0>>, T1)
    \o I2("ldlr0", T1, ARG3) \o LoadGreg(GMODE, ARG1) \o Const(<<BankPage, 0>>, T2)
    \o Row(ARG1, I2("mov", T2, ARG2) \o I2("add", RET, ARG2)) \o Row(ARG3, I2("add", RET, T2))
    \o I2("mov", ARG3, RET) \o I1("cmpeqi", 18) \o Banked("out7", "out", Retire)
    \o I2("mov", ARG1, RET) \o I1("cmpeqi", 18) \o Banked("in7", "in", Reload)
    \o StoreGreg(ARG3, GMODE) \o << <<"rts">> >> \o Nop

-----------------------------------------------------------------------------
\* sh4_thumb_mvp.h, the first translator: Thumb arithmetic with N and Z only,
\* its constants in the deferred pool.

\* Mutant: the old N and Z are not cleared first.
MvpNzKept(rn) ==
    LoadGreg(GCPSR, T1) \o I2("mov", rn, T2) \o Pooled(Top, RET) \o I2("and", RET, T2) \o I2("or", T2, T1)
    \o I2("tst", rn, rn) \o I1("movt", T2) \o MovI(30, RET) \o I2("shld", RET, T2) \o I2("or", T2, T1)
    \o StoreGreg(T1, GCPSR)

MvpNz(rn) ==
    LoadGreg(GCPSR, T1) \o Pooled(<<16383, 65535>>, T2) \o I2("and", T2, T1) \o I2("mov", rn, T2)
    \o Pooled(Top, RET) \o I2("and", RET, T2) \o I2("or", T2, T1) \o I2("tst", rn, rn) \o I1("movt", T2)
    \o MovI(30, RET) \o I2("shld", RET, T2) \o I2("or", T2, T1) \o StoreGreg(T1, GCPSR)
MvpImm8(i) ==
    LET both == LoadGreg(i.rd, T0) \o Pooled(Uns(i.imm), T1)
        keep == StoreGreg(T0, i.rd) \o MvpNz(T0)
    IN  CASE i.sub = 0 -> Pooled(Uns(i.imm), T0) \o keep
          [] i.sub = 1 -> both \o I2("mov", T0, T2) \o I2("sub", T1, T2) \o MvpNz(T2)
          [] i.sub = 2 -> both \o I2("add", T1, T0) \o keep
          [] i.sub = 3 -> both \o I2("sub", T1, T0) \o keep
MvpAddSub(i) ==
    LoadGreg(i.rn, T0) \o (IF i.lit THEN MovI(i.arg, T1) ELSE LoadGreg(i.arg, T1))
    \o I2(IF i.sub THEN "sub" ELSE "add", T1, T0) \o StoreGreg(T0, i.rd) \o MvpNz(T0)
MvpShiftImm(i) ==
    LoadGreg(i.rs, T0)
    \o When(i.imm5 # 0, MovI(IF i.op = 0 THEN i.imm5 ELSE -i.imm5, RET)
                        \o I2(IF i.op = 2 THEN "shad" ELSE "shld", RET, T0))
    \o StoreGreg(T0, i.rd) \o MvpNz(T0)
MvpAlu(i) ==
    LET op == CASE i.alu = 0 -> "and" [] i.alu = 1 -> "xor" [] i.alu = 12 -> "or" [] i.alu = 15 -> "not"
    IN  LoadGreg(i.rd, T0) \o LoadGreg(i.rs, T1) \o I2(op, T1, T0) \o StoreGreg(T0, i.rd) \o MvpNz(T0)
MvpNative(i) == CASE i.k \in {"imm8", "addsub"} -> TRUE
                  [] i.k = "shimm" -> ~(i.imm5 = 0 /\ i.op # 0)
                  [] i.k = "alu" -> i.alu \in {0, 1, 12, 15}
                  [] OTHER -> FALSE
Mvp(i) == CASE i.k = "imm8" -> MvpImm8(i) [] i.k = "addsub" -> MvpAddSub(i)
            [] i.k = "shimm" -> MvpShiftImm(i) [] i.k = "alu" -> MvpAlu(i)
=============================================================================
