------------------------------ MODULE Sh4Emit ------------------------------
(***************************************************************************)
(* The emission primitives of the block translator: constants and their    *)
(* literal pools, patched branches, flags, cycle charges, block exits      *)
(* (sh4_emit_core.h, sh4_emit_glue.h, sh4_arm_mul_emit.h).                 *)
(*                                                                         *)
(* What an emitter writes is a fragment, a sequence of halfwords and of     *)
(* directives whose form depends on where they land: a constant, a branch  *)
(* to the next label of a name (every branch here is forward), a jump      *)
(* whose literal is patched, a call with its literals.  Assemble appends a  *)
(* fragment to an emitter e = [code, refs, active, error, open]: the       *)
(* halfwords so far, the pending references of the segmented literal pool, *)
(* whether that pool collects, the sticky error of the pool of             *)
(* sh4_emit_core.h, and the placeholders still to patch.  A position is a  *)
(* halfword index; position 0 is 4-byte aligned.                           *)
(***************************************************************************)
EXTENDS Sh4Cpu

CONSTANTS LitPoolMax,     \* SH4_LITPOOL_MAX: references of one pool
          LitsegMaxRefs,  \* SH4G_LITSEG_MAX_REFS: references of one segment
          LitsegDistance  \* SH4G_LITSEG_FLUSH_DISTANCE, in halfwords

ASSUME EmitAssumption ==
    /\ LitPoolMax \in Nat \ {0} /\ LitsegMaxRefs \in Nat \ {0} /\ LitsegDistance \in Nat

\* Host registers: scratch, arguments, and the resident ones.
RET == 0
T0 == 1
T1 == 2
T2 == 3
ARG0 == 4
ARG1 == 5
ARG2 == 6
ARG3 == 7
CPSR == 8
VEC == 9
BEXIT == 10
GR0 == 11
CYCLES == 13
BASE == 14

\* Guest register-file indices beyond r0 .. r15.
GPC == 15
GCPSR == 16
GMODE == 17

Empty == [code |-> <<>>, refs |-> <<>>, active |-> FALSE, error |-> FALSE, open |-> {}]
Pos(e) == Len(e.code)
e ++ s == [e EXCEPT !.code = @ \o s]
I1(op, a) == << <<op, a>> >>
I2(op, m, n) == << <<op, m, n>> >>
Nop == << <<"nop">> >>
MovI(k, rn) == I2("movi", k % 256, rn)
Literal(v) == << <<"lit", v>>, <<"lit2">> >>
Align(e) == IF Pos(e) % 2 = 1 THEN e ++ Nop ELSE e
When(b, s) == IF b THEN s ELSE <<>>

\* The directives.
Const(v, rn)  == << <<"const", v, rn>> >>
Pooled(v, rn) == << <<"pooled", v, rn>> >>
Br(op, l)     == << <<"br", op, l>> >>
Bra(l)        == << <<"br", "bra", l>>, <<"nop">> >>
At(l)         == << <<"label", l>> >>
Over(l, op, s) == Br(op, l) \o s \o At(l)
JumpTo(fn)    == << <<"jump", fn>> >>
Tramp(tramp, literals) == << <<"tramp", <<tramp>> \o literals>> >>
Skip(l)       == << <<"skip", l>> >>

\* Guest register idx into host rn, and back: the cached CPSR and guest r0
\* have host registers; indices past r15 go through R0.
LoadGreg(idx, rn) ==
    CASE idx = GCPSR -> I2("mov", CPSR, rn)
      [] idx = 0     -> I2("mov", GR0, rn)
      [] idx \in 1 .. 15 -> << <<"ldldisp", BASE, rn, idx>> >>
      [] OTHER       -> I2("movi", 4 * idx, RET) \o I2("ldlr0", BASE, rn)
StoreGreg(rn, idx) ==
    CASE idx = GCPSR -> I2("mov", rn, CPSR)
      [] idx = 0     -> I2("mov", rn, GR0)
      [] idx \in 1 .. 15 -> << <<"stldisp", rn, BASE, idx>> >>
      [] OTHER       -> I2("movi", 4 * idx, RET) \o I2("stlr0", rn, BASE)

IsS8(v) == Val(v) \in -128 .. 127

-----------------------------------------------------------------------------
\* The literal pools.

\* One pass over the pending references: each distinct value is written once,
\* at position at, and every reference to it is patched if its displacement
\* fits; one that does not fit keeps displacement 0.
Displacement(at, site) == (at - LitIndex(site, 0)) \div 2
Point(e, at, sites) ==
    [e EXCEPT !.code = [k \in 1 .. Len(@) |->
        IF k - 1 \in sites THEN [@[k] EXCEPT ![2] = Displacement(at, k - 1)] ELSE @[k]]]
FillOne(e, at, same, strict) ==
    [Point(e, at, {s \in same : Displacement(at, s) \in 0 .. 255})
        EXCEPT !.error = @ \/ (strict /\ \E s \in same : Displacement(at, s) \notin 0 .. 255)]
RECURSIVE Fill(_, _, _)
Fill(e, refs, strict) ==
    IF refs = <<>> THEN e
    ELSE Fill(FillOne(e ++ Literal(refs[1].value), Pos(e),
                      {refs[j].site : j \in {j \in 1 .. Len(refs) : refs[j].value = refs[1].value}},
                      strict),
              SelectSeq(refs, LAMBDA r : r.value # refs[1].value), strict)

\* A reference: the load, its displacement to come.
Refer(e, v, rn) ==
    [e EXCEPT !.refs = Append(@, [site |-> Pos(e), value |-> v])] ++ I2("ldlpc", 0, rn)

\* sh4_emit_core.h: deferred PC-relative loads, flushed once after the code.
LoadImm32(e, v, rn) ==
    IF IsS8(v) THEN e ++ MovI(Low(v), rn)
    ELSE IF Len(e.refs) >= LitPoolMax THEN [e EXCEPT !.error = TRUE]
    ELSE Refer(e, v, rn)
FlushPool(e) ==
    IF e.refs = <<>> THEN e ELSE [Fill(Align(e), e.refs, TRUE) EXCEPT !.refs = <<>>]

\* Mutant: the displacement counts from PC + 2.
PatchShort(e, site, to) ==
    LET w == IF e.code[site + 1][1] = "bra" THEN 4096 ELSE 256
    IN  [e EXCEPT !.code[site + 1][2] = (to - (site + 1)) % w]

\* The placeholder at site now branches to position to: BT, BF and BRA get
\* their displacement.  A patched jump becomes BRA and a NOP when the target
\* is within reach; beyond it, only its literal is patched.
Patch(e, site, to) ==
    LET w == IF e.code[site + 1][1] = "bra" THEN 4096 ELSE 256
    IN  [e EXCEPT !.code[site + 1][2] = (to - (site + 2)) % w]
JumpLiteral(site) == site + 3 + ((site + 3) % 2)
PatchTarget(e, site, fn) == [e EXCEPT !.code[JumpLiteral(site) + 1] = <<"lit", fn>>]
ChainPatch(e, site, to) ==
    IF to - (site + 2) \in -2048 .. 2047
    THEN [e EXCEPT !.code[site + 1] = <<"bra", (to - (site + 2)) % 4096>>,
                   !.code[site + 2] = <<"nop">>]
    ELSE PatchTarget(e, site, <<FnPage, to>>)
PatchSite(e, site, to) ==
    IF e.code[site + 1][1] = "ldlpc" THEN ChainPatch(e, site, to) ELSE Patch(e, site, to)
RECURSIVE PatchAll(_, _, _)
PatchAll(e, sites, to) ==
    IF sites = {} THEN e
    ELSE LET s == CHOOSE s \in sites : TRUE IN PatchAll(PatchSite(e, s, to), sites \ {s}, to)
Resolve(e, l) ==
    PatchAll([e EXCEPT !.open = {o \in @ : o[2] # l}], {o[1] : o \in {o \in e.open : o[2] = l}}, Pos(e))
Open(e, op, l) == [e EXCEPT !.open = @ \cup {<<Pos(e), l>>}] ++ I1(op, 0)

LitsegFlush(e) ==
    IF ~e.active \/ e.refs = <<>> THEN e
    ELSE [Resolve(Fill(Align(Open(e, "bra", "pool") ++ Nop), e.refs, FALSE), "pool")
             EXCEPT !.refs = <<>>]
LitsegBegin(e) == [e EXCEPT !.active = TRUE, !.refs = <<>>]
LitsegMaybeFlush(e) ==
    IF e.active /\ e.refs # <<>> /\ Pos(e) - e.refs[1].site >= LitsegDistance
    THEN LitsegFlush(e) ELSE e
LitsegEnd(e) == [LitsegFlush(e) EXCEPT !.active = FALSE]
\* Mutant: a full segment keeps collecting.
LitsegAddUnbounded(e, v, rn) == Refer(e, v, rn)

LitsegAdd(e, v, rn) == Refer(IF Len(e.refs) = LitsegMaxRefs THEN LitsegFlush(e) ELSE e, v, rn)

\* A self-contained island: a load of Rn, what must follow it at once, then
\* the literal, four-byte aligned, which the code branches over.
Island(e, rn, tail, v) ==
    LET p   == Pos(e)
        end == p + 1 + Len(tail)
        lit == end + (end % 2)
        bra(j) == IF tail[j][1] = "bra" THEN <<"bra", lit - p - j>> ELSE tail[j]
    IN  e ++ (I2("ldlpc", (lit - LitIndex(p, 0)) \div 2, rn)
              \o [j \in 1 .. Len(tail) |-> bra(j)] \o When(lit > end, Nop) \o Literal(v))
JumpTail == << <<"jmp", RET>>, <<"nop">> >>

\* Byte constants shifted left by sums of 16, 8 and 2, fewest shifts first.
ShiftTiers == << <<16, <<"shll16">>>>, <<8, <<"shll8">>>>, <<2, <<"shll2">>>>,
                 <<24, <<"shll16", "shll8">>>>, <<18, <<"shll16", "shll2">>>>,
                 <<10, <<"shll8", "shll2">>>>, <<4, <<"shll2", "shll2">>>>,
                 <<26, <<"shll16", "shll8", "shll2">>>> >>
ByteShifted(v, n) == Shl(Shr(v, n), n) = v /\ IsS8(Sar(v, n))
Tiers(v) == SelectSeq(ShiftTiers, LAMBDA t : ByteShifted(v, t[1]))
Tiered(v, t, rn) == MovI(Low(Sar(v, t[1])), rn) \o [j \in 1 .. Len(t[2]) |-> <<t[2][j], rn>>]

PutConst(e, v, rn) ==
    CASE IsS8(v) -> e ++ MovI(Low(v), rn)
      [] v[1] = 0 /\ v[2] \in 128 .. 255 -> e ++ (MovI(Low(v), rn) \o I2("extub", rn, rn))
      [] IsS8(Not(v)) -> e ++ (MovI(Low(Not(v)), rn) \o I2("not", rn, rn))
      [] ~IsS8(v) /\ ~IsS8(Not(v)) /\ Low(v) % 4 = 0 /\ Tiers(v) # <<>> -> e ++ Tiered(v, Head(Tiers(v)), rn)
      [] OTHER -> IF e.active THEN LitsegAdd(e, v, rn)
                  ELSE Island(e, rn, << <<"bra">>, <<"nop">> >>, v)

\* A call of a C helper: the literals after it name the trampoline, the
\* helper, the instruction, its address, and the cycles to charge on an exit.
RECURSIVE Literals(_)
Literals(ws) == IF ws = <<>> THEN <<>> ELSE Literal(Head(ws)) \o Literals(Tail(ws))
PutTramp(e, ws) ==
    (IF Pos(e) % 2 = 0 THEN e ++ Nop ELSE e)
    ++ (I2("ldlpc", 2, RET) \o I1("jsr", RET) \o Nop \o I1("bra", 2 * Len(ws)) \o Nop \o Literals(ws))

\* A jump whose target is patched later, v until then; a conditional run's
\* skip: BT over such a jump, patched at the run's end.
PutChain(e, l, v) == [Island(e, RET, JumpTail, v) EXCEPT !.open = @ \cup {<<Pos(e), l>>}]
PutSkip(e, l) == Resolve(PutChain(Open(e, "bt", "over"), l, Zero), "over")

Put(e, x) ==
    CASE x[1] = "const"   -> PutConst(e, x[2], x[3])
      [] x[1] = "pooled"  -> LoadImm32(e, x[2], x[3])
      [] x[1] = "br"      -> Open(e, x[2], x[3])
      [] x[1] = "label"   -> Resolve(e, x[2])
      [] x[1] = "jump"    -> Island(e, RET, JumpTail, x[2])
      [] x[1] = "tramp"   -> PutTramp(e, x[2])
      [] x[1] = "skip"    -> PutSkip(e, x[2])
      [] x[1] = "chain"   -> PutChain(e, x[2], BlockExit)
      [] OTHER            -> e ++ <<x>>
RECURSIVE Assemble(_, _)
Assemble(e, s) == IF s = <<>> THEN e ELSE Assemble(Put(e, Head(s)), Tail(s))

-----------------------------------------------------------------------------
\* Calls, jumps and block exits.

VecNames == <<"pc_redispatch", "ib_arm", "ib_thumb", "ib_dual", "ib_dual_thumb_current",
              "update_gba", "helper_exit", "execute_swi", "cheat_hook", "hle_div",
              "ws_cyc_seq", "ws_cyc_nseq", "iwram_data", "ewram_data", "palette_dirty">>
VecIndex(name) == CHOOSE i \in 0 .. Len(VecNames) - 1 : VecNames[i + 1] = name
VecLoad(name, rn) == << <<"ldldisp", VEC, rn, VecIndex(name)>> >>
VecJmp(name)  == VecLoad(name, RET) \o I1("jmp", RET) \o Nop
BlockExitJmp  == I1("jmp", BEXIT) \o Nop

\* ADD #-n, or through R1 when n does not fit.
CycleDebit(n) ==
    IF n = 0 THEN <<>>
    ELSE IF n \in -128 .. 127 THEN I2("addi", (-n) % 256, CYCLES)
    ELSE Const(Sgn(-n), T0) \o I2("add", T0, CYCLES)
CycleSub(n, pc) ==
    When(n # 0, CycleDebit(n) \o I1("cmppl", CYCLES)
                \o Over("left", "bt", Const(pc, ARG0) \o BlockExitJmp))

Region(pc) == pc[1] \div 256
\* The sequential fetch of pc, from the live wait-state table.
ChargeFetchCell(pc, word) ==
    VecLoad("ws_cyc_seq", T2) \o I2("addi", (Region(pc) % 16) * 2 + word, T2)
    \o I2("ldb", T2, T1) \o I2("extub", T1, T1) \o I2("sub", T1, CYCLES)
CycleGate(pc, word) ==
    I1("cmppl", CYCLES)
    \o Over("gate", "bt", ChargeFetchCell(pc, word) \o Const(pc, ARG0) \o BlockExitJmp)

\* A branch leaves when the budget is spent, and otherwise takes a jump that
\* the driver patches: to the next entry of the block when that is its target.
BranchExit(pc, inside) ==
    Const(pc, ARG0) \o I1("cmppl", CYCLES) \o Over("exit", "bt", BlockExitJmp)
    \o (IF inside THEN << <<"chain", "entry">> >> ELSE JumpTo(BlockExit))
-----------------------------------------------------------------------------
\* Memory-access cycles, from the wait-state tables of the guest region.

TableFor(seq) == IF seq THEN "ws_cyc_seq" ELSE "ws_cyc_nseq"
ByteIndex(word) == I1("shll", RET) \o When(word = 1, I2("addi", 1, RET))
TableByte(table, rn) == VecLoad(table, T2) \o I2("ldbr0", T2, rn) \o I2("extub", rn, rn)
ChargeRegion(reg, seq, word, count) ==
    When(count # 0,
         When(reg # RET, I2("mov", reg, RET)) \o ByteIndex(word) \o TableByte(TableFor(seq), T1)
         \o When(count > 1, MovI(count, T0) \o I2("mull", T1, T0) \o I1("stsl", T1))
         \o I2("sub", T1, CYCLES))
RegionOf(reg) == I2("mov", reg, RET) \o I1("shlr16", RET) \o I1("shlr8", RET)
ChargeRun(addr, seq, word, count) == RegionOf(addr) \o ChargeRegion(RET, seq, word, count)

TableCost(table) == TableByte(table, T1) \o I2("sub", T1, CYCLES)
ChargeThumbBxFetch(target) ==
    I2("mov", target, RET) \o I1("tsti", 1)
    \o Over("arm", "bt", I1("shlr16", RET) \o I1("shlr8", RET) \o ByteIndex(0) \o TableCost("ws_cyc_seq"))
ChargeIndirectRefill(target) ==
    I2("mov", target, RET) \o I1("tsti", 1)
    \o Over("thumb", "bf", I1("shlr16", RET) \o I1("shlr8", RET) \o ByteIndex(1)
                           \o TableCost("ws_cyc_nseq") \o TableCost("ws_cyc_seq"))

\* Fixed-cost regions are told apart first, each arm ending at one join: the
\* live table, EWRAM, the two-cycle regions (words only), everything else.
Classified(reg, word, cmp, dynamic, ewram, two, one) ==
    I2("mov", reg, RET) \o I1("cmpeqi", 2) \o Br("bt", "ewram")
    \o When(word = 1, MovI(5, cmp) \o I2("cmphs", cmp, RET) \o Br("bf", "one"))
    \o MovI(8, cmp) \o I2("cmphs", cmp, RET) \o Br("bf", IF word = 1 THEN "two" ELSE "one")
    \o dynamic \o Bra("charged")
    \o At("ewram") \o ewram \o Bra("charged")
    \o When(word = 1, At("two") \o two \o Bra("charged"))
    \o At("one") \o one \o At("charged")
EwramCycles(word) == IF word = 1 THEN 6 ELSE 3
ChargeSpecialized(reg, seq, word, count) ==
    When(count # 0,
         Classified(reg, word, T1, ChargeRegion(reg, seq, word, count),
                    CycleDebit(EwramCycles(word) * count), CycleDebit(2 * count), CycleDebit(count)))

Times(r, cnt) == I2("mull", r, cnt) \o I1("stsl", r) \o I2("sub", r, CYCLES)
ChargeCountSpecialized(reg, cnt, seq, word) ==
    Classified(reg, word, IF cnt = T1 THEN ARG3 ELSE T1,
               I2("mov", reg, RET) \o ByteIndex(word) \o TableByte(TableFor(seq), ARG0) \o Times(ARG0, cnt),
               MovI(EwramCycles(word), RET) \o Times(RET, cnt),
               I2("mov", cnt, RET) \o I1("shll", RET) \o I2("sub", RET, CYCLES),
               I2("sub", cnt, CYCLES))

-----------------------------------------------------------------------------
\* Flags.  A liveness mask is the set of the flags some later instruction may
\* read; it is rounded up to a set that is contiguous from the top.

Flags == {"N", "Z", "C", "V"}
FlagsRound(m) == CASE m = {} -> {}
                   [] "V" \in m -> Flags
                   [] "V" \notin m /\ "C" \in m -> {"N", "Z", "C"}
                   [] m \cap {"V", "C"} = {} /\ "Z" \in m -> {"N", "Z"}
                   [] OTHER -> {"N"}

\* The old flags are shifted out of a copy of the CPSR and the live ones are
\* rotated in from the lowest up; N and Z come from result, C and V from rc, rv.
SetFlags(result, rc, rv, eff) ==
    LET drop == CASE eff = {"N"} -> I1("shll", T1)
                  [] eff = {"N", "Z"} -> I1("shll2", T1)
                  [] eff = {"N", "Z", "C"} -> I1("shll2", T1) \o I1("shll", T1)
                  [] OTHER -> I1("shll2", T1) \o I1("shll2", T1)
        rot(r) == I2("mov", r, T2) \o I1("shlr", T2) \o I1("rotcr", T1)
    IN  IF eff = {} THEN <<>>
        ELSE I2("mov", CPSR, T1) \o drop
             \o (IF "V" \in eff THEN rot(rv) ELSE <<>>)
             \o (IF "C" \in eff THEN rot(rc) ELSE <<>>)
             \o (IF "Z" \in eff THEN I2("tst", result, result) \o I1("rotcr", T1) ELSE <<>>)
             \o I2("mov", result, T2) \o I1("shll", T2) \o I1("rotcr", T1)
             \o I2("mov", T1, CPSR)
SetNzM(result, m) == SetFlags(result, ARG0, ARG0, FlagsRound(m \cap {"N", "Z"}))

\* N and Z of a 64-bit result.
SetNz64(rlo, rhi) ==
    I2("mov", CPSR, ARG1) \o I1("shll2", ARG1) \o I1("shlr2", ARG1)
    \o I2("mov", rhi, ARG2) \o I2("movi", 1, RET) \o I1("rotr", RET)
    \o I2("and", RET, ARG2) \o I2("or", ARG2, ARG1)
    \o I2("mov", rlo, ARG2) \o I2("or", rhi, ARG2) \o I2("tst", ARG2, ARG2)
    \o I1("movt", ARG2) \o I2("movi", 30, RET) \o I2("shld", RET, ARG2)
    \o I2("or", ARG2, ARG1) \o I2("mov", ARG1, CPSR)

\* T = the ARM condition.  Sixteen conditions: eight test one flag, six test
\* a sign bit built from two or three flags, and there are always and never.
FlagPos == [c \in 0 .. 7 |-> CASE c \in {0, 1} -> 30 [] c \in {2, 3} -> 29
                               [] c \in {4, 5} -> 31 [] c \in {6, 7} -> 28]
CondToT(c) ==
    CASE c = 14 -> I1("sett", 0)
      [] c = 15 -> I1("clrt", 0)
      [] c \in 0 .. 7 -> I2("mov", CPSR, RET) \o I2("movi", (-FlagPos[c]) % 256, T2)
                         \o I2("shld", T2, RET) \o I1("andi", 1) \o I1("cmpeqi", 1 - (c % 2))
      [] OTHER ->
           I2("mov", CPSR, T0) \o I2("mov", T0, RET) \o I1("shll2", RET)
           \o (CASE c \in {8, 9} -> I2("not", T0, T1) \o I1("shll", T1) \o I2("and", T1, RET)
                 [] c \in {10, 11} -> I1("shll", RET) \o I2("xor", T0, RET)
                 [] OTHER -> I1("shll", RET) \o I2("xor", T0, RET) \o I2("mov", T0, T1)
                             \o I1("shll", T1) \o I2("or", T1, RET))
           \o I1(IF c \in {8, 11, 13} THEN "shll" ELSE "cmppz", RET)
=============================================================================
