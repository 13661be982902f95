----------------------------- MODULE MCLockstep -----------------------------
(* Lockstep on blocks of one to three instructions and boundary operands.  *)
EXTENDS Lockstep

W(hi, lo) == <<hi, lo>>
Max32 == W(32767, 65535)

\* Guest states.  r1 and r2 are the operands, r3 a shift amount or a count.
Bank0 == [n \in 0 .. 6 |-> [j \in 0 .. 6 |-> W(100 + n, j)]]
Spsr0 == [n \in 0 .. 5 |-> W(4096 * n, 16 + (IF n = 1 THEN 15 ELSE 3))]
Io0 == [ie |-> Zero, if |-> Zero, ime |-> Zero]
Guest(r1, r2, r3, cpsr, mode, io) ==
    [g |-> [n \in 0 .. 17 |-> CASE n = 1 -> r1 [] n = 2 -> r2 [] n = 3 -> r3 [] n = 15 -> Garbage
                                [] n = 16 -> cpsr [] n = 17 -> Uns(mode)
                                [] OTHER -> W(7 * n, 257 * n)],
     spsr |-> Spsr0, bank |-> Bank0, io |-> io]
SysCpsr(flags) == W(4096 * flags, 31)
Sys(r1, r2, r3, flags) == Guest(r1, r2, r3, SysCpsr(flags), G!ModeSystem, Io0)

Operands == {Sys(Zero, Zero, Zero, 0), Sys(Max32, One, One, 2), Sys(Top, One, Uns(31), 13),
             Sys(Ones, Ones, Uns(32), 15), Sys(Top, Top, Uns(33), 1),
             Sys(W(4660, 22136), W(61183, 43981), Uns(255), 6), Sys(One, Top, Uns(256), 9)}

Modes == {Guest(W(32768, m), Ones, One, W(16384, mode[2]), mode[1], [Io0 EXCEPT !.if = One, !.ie = One, !.ime = x]) :
            m \in {16, 31, 146, 223, 63}, x \in {Zero, One},
            mode \in {<<G!ModeSystem, 31>>, <<G!ModeFiq, 209>>, <<G!ModeUser, 16>>}}
Regions == {Sys(Zero, W(256 * n, d), Uns(3), 0) : n \in {0, 2, 3, 4, 5, 7, 8, 13, 14}, d \in {4, 5}}

\* Thumb instructions.
Imm8s == {[k |-> "imm8", sub |-> s, rd |-> 1, imm |-> m] : s \in 0 .. 3, m \in {0, 200}}
AddSubs == {[k |-> "addsub", sub |-> s, lit |-> l, rd |-> 0, rn |-> 1, arg |-> 2] :
              s \in BOOLEAN, l \in BOOLEAN}
Alus == {[k |-> "alu", alu |-> a, rd |-> 1, rs |-> s] : a \in 0 .. 15, s \in {2, 3}}
Hiregs == {[k |-> "hireg", op |-> o, rd |-> d, rs |-> s] :
             o \in 0 .. 2, d \in {1, 8, 15}, s \in {2, 8, 15}}
Shimms == {[k |-> "shimm", op |-> o, imm5 |-> n, rs |-> 1, rd |-> 2] : o \in 0 .. 2, n \in {0, 1, 31}}
ThumbSingles == Imm8s \cup AddSubs \cup {i \in Alus : i.rs = 2 \/ i.alu \in {2, 3, 4, 7}}
                \cup Hiregs \cup Shimms
Adc == [k |-> "alu", alu |-> 5, rd |-> 1, rs |-> 2]
Adds == [k |-> "addsub", sub |-> FALSE, lit |-> FALSE, rd |-> 1, rn |-> 1, arg |-> 2]
Cmp == [k |-> "alu", alu |-> 10, rd |-> 1, rs |-> 3]
\* Flags set by the first, partly overwritten by the second, read by the third.
ThumbFirst == {Adds, Cmp, [k |-> "shimm", op |-> 1, imm5 |-> 1, rs |-> 2, rd |-> 3]}
ThumbSecond == {[k |-> "alu", alu |-> a, rd |-> 2, rs |-> 3] : a \in {2, 7, 8, 13}}
               \cup {[k |-> "shimm", op |-> 0, imm5 |-> 0, rs |-> 1, rd |-> 2]}

\* The first translator's CMP immediate takes its flags from the wrong register.
MvpCmp(i) == i.k = "imm8" /\ i.sub = 1

\* ARM instructions.
Imm(m, r) == [form |-> "imm", imm |-> m, rot |-> r]
Reg(m, t, n) == [form |-> "reg", rm |-> m, type |-> t, amount |-> n]
RegSh(m, t, s) == [form |-> "regsh", rm |-> m, type |-> t, rs |-> s]
O2s == {Imm(255, 0), Imm(18, 4), Reg(2, 0, 0), Reg(15, 0, 0), Reg(2, 0, 31), Reg(2, 1, 0),
        Reg(2, 1, 1), Reg(2, 2, 0), Reg(2, 3, 1), Reg(2, 3, 0)}
      \cup {RegSh(2, t, 3) : t \in 0 .. 3}
Dp(op, s, rn, rd, o2) == [k |-> "dp", op |-> op, s |-> s, rn |-> rn, rd |-> rd, o2 |-> o2]
Dps == {Dp(op, TRUE, 1, 4, o2) : op \in 0 .. 15, o2 \in {Imm(18, 4), Reg(2, 1, 0)}}
       \cup {Dp(op, s, 1, 4, o2) : op \in {2, 13}, s \in BOOLEAN, o2 \in O2s}
       \cup {Dp(op, TRUE, 15, 4, Reg(2, 0, 0)) : op \in {0, 4}}
       \cup {Dp(4, FALSE, 1, 15, Imm(4, 0)), Dp(2, TRUE, 15, 15, Imm(4, 0))}
Muls == {[k |-> "mul", acc |-> a, s |-> TRUE, rd |-> 4, rn |-> 3, rs |-> 2, rm |-> 1] : a \in BOOLEAN}
        \cup {[k |-> "mull", signed |-> g, acc |-> a, s |-> TRUE, hi |-> h, lo |-> 3, rs |-> 2, rm |-> 1] :
                 g \in BOOLEAN, a \in BOOLEAN, h \in {0, 3}}
Mrss == {[k |-> "mrs", spsr |-> p, rd |-> 4] : p \in BOOLEAN}
Msrs == {[k |-> "msr", spsr |-> p, field |-> f, o2 |-> o2] :
           p \in BOOLEAN, f \in {1, 2, 3}, o2 \in {Imm(210, 0), Reg(1, 0, 0)}}
Step0(i, c, e) == [i |-> i, cond |-> c, entry |-> e]
Plain0(is) == [n \in 1 .. Len(is) |-> Step0(is[n], 14, FALSE)]
Charges == {[k |-> "charge", form |-> f, seq |-> q, word |-> w, count |-> c] :
              f \in {"run", "spec"}, q \in BOOLEAN, w \in 0 .. 1, c \in {1, 3}}
           \cup {[k |-> "charge", form |-> f, seq |-> TRUE, word |-> w, count |-> 1] :
                    f \in {"count", "bx", "refill"}, w \in 0 .. 1}

\* The wait states of the regions: fixed below 8, those of the cartridge by WAITCNT.
SeqT == [n \in 0 .. 31 |-> CASE n \in {4} -> 3 [] n = 5 -> 6 [] n \in {11, 13, 15} -> 2
                             [] n \in 16 .. 19 -> 3 + 3 * (n % 2) [] n \in 20 .. 23 -> 5 + 5 * (n % 2)
                             [] n \in 24 .. 27 -> 9 + 9 * (n % 2) [] OTHER -> 1]
NseqT == [n \in 0 .. 31 |-> IF n \in 16 .. 27 THEN 5 + 4 * (n % 2) ELSE SeqT[n]]

\* The instruction that sets the flags a branch reads.
Cond(set) == IF set = "arm" THEN Dp(10, TRUE, 1, 0, Reg(2, 0, 0)) ELSE Cmp
Block(set, code) == [set |-> set, code |-> code, pc |-> W(2048, 256)]
Singles == {Block("thumb", Plain0(<<i>>)) : i \in ThumbSingles}
           \cup {Block("arm", Plain0(<<i>>)) : i \in Dps \cup Muls}
           \cup {Block("thumb", Plain0(<<i, j, Adc>>)) : i \in ThumbFirst, j \in ThumbSecond}
           \cup {Block("mvp", Plain0(<<i>>)) : i \in {i \in ThumbSingles : MvpNative(i) /\ ~MvpCmp(i)}}
\* Every condition over a run of two, one of them called, and one that writes flags.
Sub4(s) == Dp(2, s, 4, 4, Imm(1, 0))
CondBlocks == {Block("arm", <<Step0(Dp(10, TRUE, 1, 0, Reg(2, 0, 0)), 14, FALSE), Step0(Sub4(FALSE), c, FALSE),
                              Step0(Dp(4, FALSE, 5, 5, Reg(2, 3, 0)), c, FALSE),
                              Step0(Dp(5, TRUE, 5, 6, Imm(255, 4)), c, e)>>) :
                 c \in 0 .. 14, e \in BOOLEAN}
PsrBlocks == {Block("arm", Plain0(<<i, Sub4(TRUE)>>)) : i \in Mrss \cup Msrs}
ChargeBlocks == {Block("thumb", Plain0(<<i>>)) : i \in Charges}
GateBlocks == {Block(set, <<Step0(i, 14, TRUE), Step0(i, 14, FALSE), Step0(i, 14, e)>>) :
                 set \in {"thumb"}, i \in {Adds}, e \in BOOLEAN}
              \cup {Block("arm", <<Step0(Sub4(FALSE), 14, TRUE), Step0(Sub4(FALSE), 1, FALSE), Step0(Sub4(FALSE), 1, TRUE)>>)}
\* A branch target below instructions whose flags something after it overwrites.
SeamBlocks == {Block("thumb", <<Step0(i, 14, FALSE), Step0(j, 14, FALSE), Step0(l, 14, TRUE)>>) :
                 i \in ThumbFirst, j \in ThumbSecond, l \in {Adc, Adds}}
              \cup {Block("arm", <<Step0(Dp(op, TRUE, 1, 4, Reg(2, 0, 0)), c, FALSE), Step0(Sub4(FALSE), 1, FALSE),
                                   Step0(Dp(4, TRUE, 5, 5, Imm(1, 0)), 14, TRUE)>>) : op \in {2, 12}, c \in {2, 14}}
\* Branches: out of the block, over an instruction of it, and the if/then form,
\* where an unconditional branch does not end the block.
B(hi, lo) == [k |-> "b", to |-> W(hi, lo)]
BranchBlocks ==
    {Block(set, <<Step0(Cond(set), 14, FALSE), Step0(B(t, 64), c, FALSE)>>) :
        set \in {"thumb", "arm"}, t \in {512, 2304}, c \in {0, 3, 14}}
    \cup {Block(set, <<Step0(Cond(set), 14, FALSE), Step0(B(512, 64), c, FALSE), Step0(Cond(set), 14, e)>>) :
        set \in {"thumb", "arm"}, c \in {0, 3}, e \in BOOLEAN}
    \cup {Block("arm", <<Step0(Cond("arm"), 14, FALSE), Step0(Sub4(FALSE), c, FALSE), Step0(B(2048, 272), c, FALSE),
                         Step0(Cond("arm"), d, FALSE), Step0(Sub4(FALSE), 14, TRUE)>>) : c \in {0, 3}, d \in {1, 14}}
    \cup {Block("thumb", <<Step0(Cond("thumb"), 14, FALSE), Step0(B(2048, 262), c, FALSE),
                           Step0(B(768, 2), 14, FALSE), Step0(Adc, 14, TRUE)>>) : c \in {0, 3}}
\* Long blocks: pools that fill, and that are flushed by distance.
Big(n) == Dp(12 - 8 * (n % 2), TRUE, n % 4, n % 4, Imm(3 + n, 5 + (n % 3)))
LongBlocks == {Block("arm", [n \in 1 .. 60 |-> Step0(Big(n), IF n % 7 = 0 THEN 1 ELSE 14, n = 31)]),
               Block("arm", Plain0([n \in 1 .. 80 |-> Dp(13, FALSE, 0, 1 + (n % 4), Imm(129 + n, 5))])),
               Block("mvp", Plain0([n \in 1 .. 40 |-> [k |-> "imm8", sub |-> 2, rd |-> n % 5, imm |-> 120 + n]])),
               Block("mvp", Plain0([n \in 1 .. 60 |-> [k |-> "imm8", sub |-> 2, rd |-> n % 5, imm |-> 120 + n]]))}
AllBlocks == Singles \cup CondBlocks \cup PsrBlocks \cup ChargeBlocks \cup GateBlocks \cup SeamBlocks
             \cup BranchBlocks \cup LongBlocks
\* Each block meets the states, and the budgets, that matter to it.
StartsOf(b) ==
    [guest : IF b \in PsrBlocks THEN Modes ELSE IF b \in ChargeBlocks THEN Regions ELSE Operands,
     budget : CASE b \in GateBlocks -> {0, 3, 6, 7, 100} [] b \in SeamBlocks -> {6, 12, 100}
                [] b \in BranchBlocks -> {12, 30, 1000} [] b \in ChargeBlocks -> {2} [] OTHER -> {1000}]
=============================================================================
