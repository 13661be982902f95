------------------------------- MODULE Sh4Cpu -------------------------------
(***************************************************************************)
(* The SH-4 instructions the block emitter uses, as a machine.             *)
(*                                                                         *)
(* sh4_codegen.h packs each instruction into one halfword; here a halfword *)
(* is the tuple <<mnemonic, operands>>, the operands in the encoder's      *)
(* order (source Rm, then destination Rn), so code is a sequence of        *)
(* halfwords and a displacement counts what the processor's counts.  A     *)
(* 32-bit literal takes two halfwords, <<"lit", w>> and <<"lit2">>:        *)
(* executing one, or loading a halfword that is not one, is a fault.       *)
(*                                                                         *)
(* A machine state s holds r (R0 .. R15), t (the T bit), mach and macl,    *)
(* mem (mem[page][offset], the words and bytes of the few areas generated  *)
(* code touches), at (the halfword being executed, from 0) and out:        *)
(* Running, Ended when the code ran off its end, Returned from a routine,  *)
(* Faulted, or the function a call or a jump left for.                     *)
(***************************************************************************)
EXTENDS Word32, Sequences, TLC

(* Pages of the host address space: the register file (R14), the resident  *)
(* vector table (R9), the functions it names, sh4_block_exit (R10), the    *)
(* wait-state tables, and the banked SPSRs.                                *)
RegPage == 35840
VecPage == 35841
FnPage  == 35842
SeqPage == 35843
NseqPage == 35844
SpsrPage == 35845
BlockExit == <<FnPage, 65535>>

(* MOV.L @(disp,PC) and MOVA count words from the aligned PC + 4; branches *)
(* count halfwords from PC + 4, in the 8 or 12 bits that are encoded.      *)
Disp8(d)  == SignByte(d)
Disp12(d) == IF d % 4096 >= 2048 THEN (d % 4096) - 4096 ELSE d % 4096
LitIndex(at, disp) == at - (at % 2) + 2 + 2 * disp

Running == <<0, 0>>
Ended == <<0, 1>>
Returned == <<0, 2>>
Faulted == <<0, 3>>

Set(s, n, w) == [s EXCEPT !.r[n] = w]
Fault(s) == [s EXCEPT !.out = Faulted]
Load(s, a, n) == IF a[1] \in DOMAIN s.mem /\ a[2] \in DOMAIN s.mem[a[1]]
                 THEN Set(s, n, s.mem[a[1]][a[2]]) ELSE Fault(s)
Store(s, a, w) == IF a[1] \in DOMAIN s.mem /\ a[2] \in DOMAIN s.mem[a[1]]
                  THEN [s EXCEPT !.mem[a[1]][a[2]] = w] ELSE Fault(s)
(* Byte and halfword loads sign-extend. *)
LoadW(s, a, n) == IF a[1] \in DOMAIN s.mem /\ a[2] \in DOMAIN s.mem[a[1]]
                  THEN Set(s, n, Sgn(SignHalf(Low(s.mem[a[1]][a[2]])))) ELSE Fault(s)
LoadB(s, a, n) == IF a[1] \in DOMAIN s.mem /\ a[2] \in DOMAIN s.mem[a[1]]
                  THEN Set(s, n, Sgn(SignByte(Low(s.mem[a[1]][a[2]])))) ELSE Fault(s)

MoveOps == {"mov", "movi", "movt", "extub", "extuw", "extsb", "extsw", "swapb", "swapw",
            "xtrct"}
Move(s, op, m, n) ==
    LET v == IF op \in {"movi", "movt"} THEN Zero ELSE s.r[m] IN
    CASE op = "mov"   -> Set(s, n, v)
      [] op = "movi"  -> Set(s, n, Sgn(SignByte(m)))
      [] op = "movt"  -> Set(s, n, Uns(s.t))
      [] op = "extub" -> Set(s, n, Uns(Low(v) % 256))
      [] op = "extuw" -> Set(s, n, <<0, Low(v)>>)
      [] op = "extsb" -> Set(s, n, Sgn(SignByte(Low(v))))
      [] op = "extsw" -> Set(s, n, Sgn(SignHalf(Low(v))))
      [] op = "swapb" -> Set(s, n, <<v[1], (v[2] % 256) * 256 + v[2] \div 256>>)
      [] op = "swapw" -> Set(s, n, <<v[2], v[1]>>)
      [] op = "xtrct" -> Set(s, n, <<v[2], s.r[n][1]>>)

ArithOps == {"add", "addi", "addc", "addv", "sub", "subc", "subv", "neg", "negc", "dt"}
Arith(s, op, m, n) ==
    LET a == s.r[n]
        b == IF op = "addi" THEN Sgn(SignByte(m)) ELSE IF op = "dt" THEN One ELSE s.r[m]
        sum == Add(a, b)
        dif == Sub(a, b)
        SetT(w, t) == [s EXCEPT !.r[n] = w, !.t = t]
    IN  CASE op \in {"add", "addi"} -> Set(s, n, sum)
          [] op = "addc" -> SetT(AddC(a, b, s.t), CarryOut(a, b, s.t))
          [] op = "addv" -> SetT(sum, Sign(And(Not(Xor(a, b)), Xor(a, sum))))
          [] op = "sub"  -> Set(s, n, dif)
          [] op = "subc" -> SetT(AddC(a, Not(b), 1 - s.t), 1 - CarryOut(a, Not(b), 1 - s.t))
          [] op = "subv" -> SetT(dif, Sign(And(Xor(a, b), Xor(a, dif))))
          [] op = "neg"  -> Set(s, n, Neg(b))
          [] op = "negc" -> SetT(AddC(Zero, Not(b), 1 - s.t),
                                 1 - CarryOut(Zero, Not(b), 1 - s.t))
          [] op = "dt"   -> SetT(dif, IF dif = Zero THEN 1 ELSE 0)

CompareOps == {"cmpeq", "cmphs", "cmpge", "cmphi", "cmpgt", "cmppz", "cmppl", "cmpeqi",
               "tst", "tsti", "sett", "clrt"}
Holds(s, op, m, n) ==
    CASE op = "cmpeq" -> s.r[n] = s.r[m]
      [] op = "cmphs" -> Leu(s.r[m], s.r[n])
      [] op = "cmpge" -> Les(s.r[m], s.r[n])
      [] op = "cmphi" -> Ltu(s.r[m], s.r[n])
      [] op = "cmpgt" -> Lts(s.r[m], s.r[n])
      [] op = "cmppz" -> Sign(s.r[n]) = 0
      [] op = "cmppl" -> Sign(s.r[n]) = 0 /\ s.r[n] # Zero
      [] op = "cmpeqi" -> s.r[0] = Sgn(SignByte(m))
      [] op = "tst"   -> And(s.r[m], s.r[n]) = Zero
      [] op = "tsti"  -> And(s.r[0], Uns(m)) = Zero
      [] op = "sett"  -> TRUE
      [] op = "clrt"  -> FALSE
Compare(s, op, m, n) == [s EXCEPT !.t = IF Holds(s, op, m, n) THEN 1 ELSE 0]

(* Multiplication: MUL.L leaves the product in MACL, DMUL in MACH and MACL. *)
MulOps == {"mull", "dmuls", "dmulu", "stsl", "stsh", "clrmac"}
Multiply(s, op, m, n) ==
    CASE op = "mull"  -> [s EXCEPT !.macl = Mul(s.r[m], s.r[n])]
      [] op = "dmuls" -> LET p == MulS64(s.r[m], s.r[n])
                         IN  [s EXCEPT !.macl = p.lo, !.mach = p.hi]
      [] op = "dmulu" -> LET p == Mul64(s.r[m], s.r[n])
                         IN  [s EXCEPT !.macl = p.lo, !.mach = p.hi]
      [] op = "stsl"  -> Set(s, n, s.macl)
      [] op = "stsh"  -> Set(s, n, s.mach)
      [] op = "clrmac" -> [s EXCEPT !.macl = Zero, !.mach = Zero]

LogicOps == {"and", "or", "xor", "not", "andi", "ori", "xori"}
Logic(s, op, m, n) ==
    CASE op = "and"  -> Set(s, n, And(s.r[n], s.r[m]))
      [] op = "or"   -> Set(s, n, Or(s.r[n], s.r[m]))
      [] op = "xor"  -> Set(s, n, Xor(s.r[n], s.r[m]))
      [] op = "not"  -> Set(s, n, Not(s.r[m]))
      [] op = "andi" -> Set(s, 0, And(s.r[0], Uns(m)))
      [] op = "ori"  -> Set(s, 0, Or(s.r[0], Uns(m)))
      [] op = "xori" -> Set(s, 0, Xor(s.r[0], Uns(m)))

(* SHLD and SHAD read the sign and the low five bits of the count: a       *)
(* negative count whose low bits are zero shifts by 32.                    *)
ShiftOps == {"shld", "shad", "shll", "shlr", "shal", "shar", "shll2", "shlr2", "shll8", "shlr8",
             "shll16", "shlr16", "rotl", "rotr", "rotcl", "rotcr"}
DynShift(v, count, arithmetic) ==
    LET k == Low(count) % 32 IN
    IF Sign(count) = 0 THEN Shl(v, k)
    ELSE IF k # 0 THEN (IF arithmetic THEN Sar(v, 32 - k) ELSE Shr(v, 32 - k))
    ELSE IF arithmetic /\ Sign(v) = 1 THEN Ones ELSE Zero
Shift(s, op, m, n) ==
    LET v == s.r[n]
        SetT(w, t) == [s EXCEPT !.r[n] = w, !.t = t]
        low == Bit(v, 0)
        top == Sign(v)
    IN  CASE op = "shld" -> Set(s, n, DynShift(v, s.r[m], FALSE))
          [] op = "shad" -> Set(s, n, DynShift(v, s.r[m], TRUE))
          [] op \in {"shll", "shal"} -> SetT(Shl(v, 1), top)
          [] op = "shlr" -> SetT(Shr(v, 1), low)
          [] op = "shar" -> SetT(Sar(v, 1), low)
          [] op = "shll2" -> Set(s, n, Shl(v, 2))
          [] op = "shlr2" -> Set(s, n, Shr(v, 2))
          [] op = "shll8" -> Set(s, n, Shl(v, 8))
          [] op = "shlr8" -> Set(s, n, Shr(v, 8))
          [] op = "shll16" -> Set(s, n, Shl(v, 16))
          [] op = "shlr16" -> Set(s, n, Shr(v, 16))
          [] op = "rotl" -> SetT(Or(Shl(v, 1), Uns(top)), top)
          [] op = "rotr" -> SetT(Ror(v, 1), low)
          [] op = "rotcl" -> SetT(Or(Shl(v, 1), Uns(s.t)), top)
          [] op = "rotcr" -> SetT(Or(Shr(v, 1), Shl(Uns(s.t), 31)), low)

MemoryOps == {"ldl", "stl", "ldb", "ldw", "ldldisp", "stldisp", "ldlr0", "stlr0", "ldbr0"}
Memory(s, op, m, n, d) ==
    CASE op = "ldl"  -> Load(s, s.r[m], n)
      [] op = "stl"  -> Store(s, s.r[n], s.r[m])
      [] op = "ldb"  -> LoadB(s, s.r[m], n)
      [] op = "ldw"  -> LoadW(s, s.r[m], n)
      [] op = "ldldisp" -> Load(s, Add(s.r[m], Uns(4 * d)), n)
      [] op = "stldisp" -> Store(s, Add(s.r[n], Uns(4 * d)), s.r[m])
      [] op = "ldlr0" -> Load(s, Add(s.r[m], s.r[0]), n)
      [] op = "stlr0" -> Store(s, Add(s.r[n], s.r[0]), s.r[m])
      [] op = "ldbr0" -> LoadB(s, Add(s.r[m], s.r[0]), n)

(* MOV.L @(disp,PC),Rn: the literal must be there.                         *)
LoadPc(s, code, disp, n) ==
    LET i == LitIndex(s.at, disp) + 1
    IN  IF i \in DOMAIN code /\ code[i][1] = "lit" THEN Set(s, n, code[i][2]) ELSE Fault(s)

(* An instruction that is not a branch. *)
Plain(s, code, ins) ==
    LET op == ins[1]
        m  == IF Len(ins) >= 2 THEN ins[2] ELSE 0
        n  == IF Len(ins) >= 3 THEN ins[3] ELSE m
    IN  CASE op = "nop" -> s
          [] op \in MoveOps    -> Move(s, op, m, n)
          [] op \in ArithOps   -> Arith(s, op, m, n)
          [] op \in CompareOps -> Compare(s, op, m, n)
          [] op \in LogicOps   -> Logic(s, op, m, n)
          [] op \in ShiftOps   -> Shift(s, op, m, n)
          [] op \in MemoryOps  -> Memory(s, op, m, n, IF Len(ins) >= 4 THEN ins[4] ELSE 0)
          [] op \in MulOps     -> Multiply(s, op, m, n)
          [] op = "ldlpc"      -> LoadPc(s, code, m, n)
          [] OTHER             -> Fault(s)

(* A branch: BT and BF have no delay slot; BRA, JMP, JSR and RTS execute   *)
(* the halfword that follows them first (u is the state after it).  A call *)
(* leaves at past its slot.                                                *)
Branches == {"bt", "bf", "bra", "jmp", "jsr", "rts"}
Slotted == Branches \ {"bt", "bf"}
Branch(s, u, op, d) ==
    CASE op \in {"bt", "bf"} ->
           [s EXCEPT !.at = IF (s.t = 1) = (op = "bt") THEN @ + 2 + Disp8(d) ELSE @ + 1]
      [] op = "bra" -> [u EXCEPT !.at = @ + 2 + Disp12(d)]
      [] op = "rts" -> [u EXCEPT !.out = Returned]
      [] op \in {"jmp", "jsr"} ->
           IF s.r[d][1] = FnPage /\ u.out = Running
           THEN [u EXCEPT !.out = s.r[d], !.at = @ + 2] ELSE Fault(s)

(* One instruction, with its delay slot: u is the state after the          *)
(* instruction of either that is not a branch.                             *)
After(s, ins, u) ==
    IF ins[1] \in Branches THEN Branch(s, u, ins[1], IF Len(ins) = 1 THEN 0 ELSE ins[2])
    ELSE [u EXCEPT !.at = @ + 1]
Step(s, code) ==
    IF s.at \notin 0 .. Len(code) THEN Fault(s)
    ELSE IF s.at = Len(code) THEN [s EXCEPT !.out = Ended]
    ELSE LET ins == code[s.at + 1]
             slot == IF ins[1] \in Slotted /\ s.at + 2 <= Len(code) THEN code[s.at + 2] ELSE ins
         IN  After(s, ins, IF slot[1] \in Branches THEN Fault(s) ELSE Plain(s, code, slot))

(* At most n instructions.                                                 *)
RECURSIVE Run(_, _, _)
Run(s, code, n) == IF n = 0 \/ s.out # Running THEN s ELSE Run(Step(s, code), code, n - 1)
=============================================================================
