------------------------------ MODULE GuestOps ------------------------------
(***************************************************************************)
(* What the guest instructions mean: the C helpers of                      *)
(* sh4_interp_helpers.c, which the native code must agree with and which   *)
(* it falls back to.                                                       *)
(*                                                                         *)
(* A guest state o holds g (r0 .. r15, CPSR at 16, CPU mode at 17), spsr   *)
(* and bank (reg_mode), io (the words of IE, IF and IME), and code, the    *)
(* helper's return code: 0, or 1 when it wrote the PC.                     *)
(*                                                                         *)
(* An instruction is a record, its fields named as the opcode's:           *)
(*   Thumb  k = "imm8" (sub, rd, imm), "addsub" (sub, lit, rd, rn, arg),   *)
(*          "alu" (alu, rd, rs), "hireg" (op, rd, rs), "shimm" (op, imm5,  *)
(*          rs, rd)                                                        *)
(*   ARM    k = "dp" (op, s, rn, rd, o2), "mul" (acc, s, rd, rn, rs, rm),  *)
(*          "mull" (signed, acc, s, hi, lo, rs, rm),                       *)
(*          "mrs" (spsr, rd), "msr" (spsr, field, o2)                      *)
(* where o2 is the second operand: form "imm" (imm, rot), "reg" (rm, type, *)
(* amount) or "regsh" (rm, type, rs).                                      *)
(***************************************************************************)
EXTENDS Word32, FiniteSets, TLC

rPC == 15
rCPSR == 16
rMODE == 17

R(o, n) == o.g[n]
Put(o, n, w) == [o EXCEPT !.g[n] = w]
FlagC(o) == Bit(o.g[rCPSR], 29)
FlagV(o) == Bit(o.g[rCPSR], 28)

\* The CPSR with the named flags replaced: f maps "N", "Z", "C", "V" to 0 or 1.
FlagBit == [N |-> 31, Z |-> 30, C |-> 29, V |-> 28]
WithFlags(cpsr, f) ==
    LET part(k) == IF k \in DOMAIN f
                   THEN f[k] ELSE Bit(cpsr, FlagBit[k])
    IN  <<(cpsr[1] % 4096) + 32768 * part("N") + 16384 * part("Z") + 8192 * part("C")
          + 4096 * part("V"), cpsr[2]>>
NZ(w) == [N |-> Sign(w), Z |-> IF w = Zero THEN 1 ELSE 0]
SetNZ(o, w) == [o EXCEPT !.g[rCPSR] = WithFlags(@, NZ(w))]
SetNZC(o, w, c) == [o EXCEPT !.g[rCPSR] = WithFlags(@, NZ(w) @@ [C |-> c])]
SetNZCV(o, w, c, v) == [o EXCEPT !.g[rCPSR] = WithFlags(@, NZ(w) @@ [C |-> c, V |-> v])]

\* do_addc: every sum and difference is an addition with carry.
AddcV(a, b, w) == Sign(And(Not(Xor(a, b)), Xor(a, w)))
DoAddc(o, a, b, c) ==
    LET w == AddC(a, b, c) IN SetNZCV(o, w, CarryOut(a, b, c), AddcV(a, b, w))

\* A shift by a register or immediate amount, with its carry: [w, c].  The
\* amount 0 keeps both, 32 and more behave as ARM's barrel shifter does.
Shifted(type, v, n, c) ==
    IF n = 0 THEN [w |-> v, c |-> c]
    ELSE CASE type = 0 -> [w |-> Shl(v, n),
                           c |-> IF n <= 32 THEN Bit(v, 32 - n) ELSE 0]
           [] type = 1 -> [w |-> Shr(v, n), c |-> IF n <= 32 THEN Bit(v, n - 1) ELSE 0]
           [] type = 2 -> [w |-> Sar(v, IF n < 32 THEN n ELSE 31),
                           c |-> IF n < 32 THEN Bit(v, n - 1) ELSE Sign(v)]
           [] type = 3 -> [w |-> Ror(v, n), c |-> Bit(v, (n - 1) % 32)]

SetShifted(o, rd, s) == SetNZC(Put(o, rd, s.w), s.w, s.c)
ThumbShiftReg(o, i) ==
    LET type == CASE i.alu = 2 -> 0 [] i.alu = 3 -> 1 [] i.alu = 4 -> 2 [] i.alu = 7 -> 3
    IN  SetShifted(o, i.rd, Shifted(type, R(o, i.rd), Low(R(o, i.rs)) % 256, FlagC(o)))
ThumbShiftImm(o, i) ==
    SetShifted(o, i.rd, Shifted(i.op, R(o, i.rs), IF i.imm5 = 0 /\ i.op # 0 THEN 32 ELSE i.imm5, FlagC(o)))

ThumbAddSub(o, i) ==
    LET a == R(o, i.rn)
        b == IF i.lit THEN Uns(i.arg) ELSE R(o, i.arg)
        u == IF i.sub THEN DoAddc(o, a, Not(b), 1) ELSE DoAddc(o, a, b, 0)
    IN  Put(u, i.rd, IF i.sub THEN Sub(a, b) ELSE Add(a, b))

ThumbImm8(o, i) ==
    LET a == R(o, i.rd)
        b == Uns(i.imm)
    IN  CASE i.sub = 0 -> SetNZ(Put(o, i.rd, b), b)
          [] i.sub = 1 -> DoAddc(o, a, Not(b), 1)
          [] i.sub = 2 -> Put(DoAddc(o, a, b, 0), i.rd, Add(a, b))
          [] i.sub = 3 -> Put(DoAddc(o, a, Not(b), 1), i.rd, Sub(a, b))

ThumbAlu(o, i) ==
    LET a == R(o, i.rd)
        b == R(o, i.rs)
        c == FlagC(o)
        logic(w) == SetNZ(Put(o, i.rd, w), w)
    IN  CASE i.alu = 0  -> logic(And(a, b))
          [] i.alu = 1  -> logic(Xor(a, b))
          [] i.alu \in {2, 3, 4, 7} -> ThumbShiftReg(o, i)
          [] i.alu = 5  -> Put(DoAddc(o, a, b, c), i.rd, AddC(a, b, c))
          [] i.alu = 6  -> Put(DoAddc(o, a, Not(b), c), i.rd, AddC(a, Not(b), c))
          [] i.alu = 8  -> SetNZ(o, And(a, b))
          [] i.alu = 9  -> Put(DoAddc(o, Not(b), Zero, 1), i.rd, Neg(b))
          [] i.alu = 10 -> DoAddc(o, a, Not(b), 1)
          [] i.alu = 11 -> DoAddc(o, a, b, 0)
          [] i.alu = 12 -> logic(Or(a, b))
          [] i.alu = 13 -> logic(Mul(a, b))
          [] i.alu = 14 -> logic(And(a, Not(b)))
          [] i.alu = 15 -> logic(Not(b))

ThumbHireg(o, i, pc) ==
    LET read(n) == IF n = rPC THEN Add(pc, Uns(4)) ELSE R(o, n)
        a == read(i.rd)
        b == read(i.rs)
        w == IF i.op = 0 THEN Add(a, b) ELSE b
    IN  CASE i.op = 1 -> DoAddc(o, a, Not(b), 1)
          [] i.op # 1 /\ i.rd = rPC -> [Put(o, rPC, And(w, Sgn(-2))) EXCEPT !.code = 1]
          [] i.op # 1 /\ i.rd # rPC -> Put(o, i.rd, w)

-----------------------------------------------------------------------------
\* ARM data processing.

RotImm(o2) == Ror(Uns(o2.imm), 2 * o2.rot)

\* The second operand and the shifter's carry out.
ShiftCount(o, o2) ==
    CASE o2.form = "regsh" -> Low(R(o, o2.rs)) % 256
      [] o2.form = "reg" /\ o2.amount = 0 /\ o2.type # 0 -> 32
      [] OTHER -> o2.amount
ReadPc(o, n, pc, o2) == IF n = rPC THEN Add(pc, Uns(IF o2.form = "regsh" THEN 12 ELSE 8)) ELSE R(o, n)
Rrx(v, c) == [w |-> Or(Shr(v, 1), Shl(Uns(c), 31)), c |-> Bit(v, 0)]
ShifterOperand(o, o2, pc) ==
    CASE o2.form = "imm" -> [w |-> RotImm(o2), c |-> IF o2.rot # 0 THEN Sign(RotImm(o2)) ELSE FlagC(o)]
      [] o2.form = "reg" /\ o2.amount = 0 /\ o2.type = 3 -> Rrx(ReadPc(o, o2.rm, pc, o2), FlagC(o))
      [] OTHER -> Shifted(o2.type, ReadPc(o, o2.rm, pc, o2), ShiftCount(o, o2), FlagC(o))

\* The ALU result [w, c, v] of operation op on a and b; s is the shifter's carry.
ArmAlu(op, a, b, s, oldc, oldv) ==
    LET sum(x, y, c) == LET w == AddC(x, y, c) IN [w |-> w, c |-> CarryOut(x, y, c), v |-> AddcV(x, y, w)]
        logic(w) == [w |-> w, c |-> s, v |-> oldv]
    IN  CASE op \in {0, 8}  -> logic(And(a, b))
          [] op \in {1, 9}  -> logic(Xor(a, b))
          [] op \in {2, 10} -> sum(a, Not(b), 1)
          [] op = 3         -> sum(b, Not(a), 1)
          [] op \in {4, 11} -> sum(a, b, 0)
          [] op = 5         -> sum(a, b, oldc)
          [] op = 6         -> sum(a, Not(b), oldc)
          [] op = 7         -> sum(b, Not(a), oldc)
          [] op = 12        -> logic(Or(a, b))
          [] op = 13        -> logic(b)
          [] op = 14        -> logic(And(a, Not(b)))
          [] op = 15        -> logic(Not(b))

\* Banking.  Rows of reg_mode and entries of spsr are indexed by mode & 0xF.
ModeUser == 0
ModeSystem == 16
ModeIrq == 17
ModeFiq == 18
ModeInvalid == 22
CpuModes == [n \in 0 .. 15 |-> CASE n = 0 -> ModeUser [] n = 1 -> ModeFiq [] n = 2 -> ModeIrq
                                 [] n = 3 -> 19 [] n = 7 -> 20 [] n = 11 -> 21
                                 [] n = 15 -> ModeSystem [] OTHER -> ModeInvalid]
Mode(o) == Low(o.g[rMODE])

SetCpuMode(o, new) ==
    LET old == Mode(o)
        saved == IF new = ModeFiq THEN 8 .. 14 ELSE {13, 14}
        loaded == IF old = ModeFiq THEN 8 .. 14 ELSE {13, 14}
        bank == [o.bank EXCEPT ![old % 16] =
                   [k \in 0 .. 6 |-> IF k + 8 \in saved THEN R(o, k + 8) ELSE @[k]]]
    IN  IF old = new THEN o
        ELSE [o EXCEPT !.bank = bank,
                       !.g = [n \in DOMAIN @ |-> IF n = rMODE THEN Uns(new)
                                ELSE IF n \in loaded THEN bank[new % 16][n - 8] ELSE @[n]]]

\* Re-bank to the mode the CPSR names, and take an interrupt it unmasked.
IrqTaken(o) == /\ And(o.io.ie, o.io.if) # Zero
               /\ o.io.ime # Zero
               /\ Bit(R(o, rCPSR), 7) = 0
TakeIrq(p, next) ==
    LET q == [p EXCEPT !.bank[ModeIrq % 16][6] = Add(next, Uns(4)),
                       !.spsr[ModeIrq % 16] = R(p, rCPSR),
                       !.g[rCPSR] = Uns(210)]
    IN  IF IrqTaken(p) THEN [SetCpuMode(q, ModeIrq) EXCEPT !.code = 1] ELSE p
RebankAndIrq(o, next) == TakeIrq(SetCpuMode(o, CpuModes[Low(R(o, rCPSR)) % 16]), next)

IrqVector == Uns(24)

\* Exception return: the restored CPSR, and the address with its Thumb bit.
Restored(p, address) ==
    Put(p, rPC, IF p.code = 1 THEN IrqVector
                ELSE IF Bit(R(p, rCPSR), 5) = 1 THEN Or(address, One) ELSE address)
SpsrRestore(o, address) ==
    IF Mode(o) \in {ModeUser, ModeSystem} THEN Put(o, rPC, address)
    ELSE Restored(RebankAndIrq(Put(o, rCPSR, o.spsr[Mode(o) % 16]), address), address)

AlignPc(j) == [Put(j, rPC, And(R(j, rPC), Sgn(IF Bit(R(j, rCPSR), 5) = 1 THEN -2 ELSE -4))) EXCEPT !.code = 1]
SetResult(o, i, x) ==
    IF i.rd = rPC /\ i.op \notin 8 .. 11
    THEN AlignPc(IF i.s THEN SpsrRestore(o, x.w) ELSE Put(o, rPC, x.w))
    ELSE LET f == IF i.s THEN SetNZCV(o, x.w, x.c, x.v) ELSE o
         IN  IF i.op \in 8 .. 11 THEN f ELSE Put(f, i.rd, x.w)
ArmDpWith(o, i, pc, b) ==
    SetResult(o, i, ArmAlu(i.op, ReadPc(o, i.rn, pc, i.o2), b.w, b.c, FlagC(o), FlagV(o)))
ArmDp(o, i, pc) == ArmDpWith(o, i, pc, ShifterOperand(o, i.o2, pc))

SetProduct(o, i, w) == IF i.s THEN SetNZ(Put(o, i.rd, w), w) ELSE Put(o, i.rd, w)
ArmMultiply(o, i) ==
    SetProduct(o, i, Add(Mul(R(o, i.rm), R(o, i.rs)), IF i.acc THEN R(o, i.rn) ELSE Zero))

SetLong(o, i, lo, hi) ==
    LET u == Put(Put(o, i.lo, lo), i.hi, hi)
        f == [N |-> Sign(hi), Z |-> IF hi = Zero /\ lo = Zero THEN 1 ELSE 0]
    IN  IF i.s THEN [u EXCEPT !.g[rCPSR] = WithFlags(@, f)] ELSE u
AddLong(o, i, p) ==
    IF ~i.acc THEN SetLong(o, i, p.lo, p.hi)
    ELSE SetLong(o, i, Add(p.lo, R(o, i.lo)), AddC(p.hi, R(o, i.hi), CarryOut(p.lo, R(o, i.lo), 0)))
ArmMultiplyLong(o, i) ==
    AddLong(o, i, IF i.signed THEN MulS64(R(o, i.rm), R(o, i.rs)) ELSE Mul64(R(o, i.rm), R(o, i.rs)))

\* MRS and MSR; a field is 0 .. 3, its bit 0 the control byte, bit 1 the flags.
PsrMask(field, privileged) ==
    <<IF field >= 2 THEN 61440 ELSE 0,
      IF field % 2 = 0 THEN 0 ELSE IF privileged THEN 239 ELSE 32>>
Merge(old, new, mask) == Or(And(new, mask), And(old, Not(mask)))
ArmMrs(o, i) == Put(o, i.rd, IF i.spsr THEN o.spsr[Mode(o) % 16] ELSE R(o, rCPSR))
SetPsr(o, i, pc, v, mask) ==
    LET u == [o EXCEPT !.g[rCPSR] = Merge(@, v, mask)]
        enter(w) == IF w.code = 1 THEN Put(w, rPC, IrqVector) ELSE w
    IN  IF i.spsr THEN [o EXCEPT !.spsr[Mode(o) % 16] = Merge(@, v, mask)]
        ELSE IF Low(mask) % 256 = 0 THEN u
        ELSE enter(RebankAndIrq(u, Add(pc, Uns(4))))
ArmMsr(o, i, pc) ==
    SetPsr(o, i, pc, IF i.o2.form = "imm" THEN RotImm(i.o2) ELSE R(o, i.o2.rm),
           PsrMask(i.field, i.spsr \/ Mode(o) >= 16))

Execute(o, i, pc) ==
    CASE i.k = "imm8"   -> ThumbImm8(o, i)
      [] i.k = "addsub" -> ThumbAddSub(o, i)
      [] i.k = "alu"    -> ThumbAlu(o, i)
      [] i.k = "hireg"  -> ThumbHireg(o, i, pc)
      [] i.k = "shimm"  -> ThumbShiftImm(o, i)
      [] i.k = "dp"     -> ArmDp(o, i, pc)
      [] i.k = "mul"    -> ArmMultiply(o, i)
      [] i.k = "mull"   -> ArmMultiplyLong(o, i)
      [] i.k = "mrs"    -> ArmMrs(o, i)
      [] i.k = "msr"    -> ArmMsr(o, i, pc)
=============================================================================
