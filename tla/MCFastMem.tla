------------------------------ MODULE MCFastMem ------------------------------
(* Memory accesses at the boundaries of every region, through every form.  *)
EXTENDS FastMem

\* Wait states that tell the regions of the cartridge and the widths apart.
MCSeq == [k \in 0 .. 31 |-> CASE k = 4 -> 3 [] k = 5 -> 6 [] k \in {11, 13, 15} -> 2 [] k >= 16 -> k - 12 [] OTHER -> 1]
MCNseq == [k \in 0 .. 31 |-> IF k >= 16 THEN k - 7 ELSE MCSeq[k]]

\* The bytes of host memory the cases reach.
Upto(area, o, m) == {<<area, o + k>> : k \in 0 .. m - 1}
Ram == Upto("iwram", 32768, 16) \cup Upto("iwram", 65520, 16) \cup Upto("ewram", 0, 12)
       \cup Upto("ewram", 32756, 24) \cup Upto("ewram", 262136, 8)
TagOf(c) == <<c[1], IF c[1] = "iwram" THEN c[2] - 32768 ELSE c[2] + 262144>>
Other == Upto("vram", 0, 12) \cup Upto("vram", 65536, 16) \cup Upto("pal", 1016, 8) \cup Upto("conv", 1016, 8)
         \cup Upto("oam", 0, 8) \cup Upto("io", 0, 8) \cup Upto("io", 16, 4) \cup Upto("io", 64, 20)
         \cup Upto("io", 220, 4) \cup Upto("io", 504, 20) \cup Upto("io", 768, 4)
MCCells == Ram \cup {TagOf(c) : c \in Ram} \cup Other
Pages == [p \in 0 .. 2 |-> <<"mapped", "odd", "null">>[p + 1]]
MCMachine ==
    [r |-> [k \in 0 .. 15 |-> k], pages |-> Pages,
     mem |-> [c \in MCCells |-> IF c \notin Ram \cup Other \/ c[1] = "io" THEN 0
                              ELSE (3 * (c[2] % 64) + 131) % 256],
     code |-> {}, dirty |-> FALSE, oam |-> FALSE, dma |-> FALSE, masked |-> FALSE,
     alert |-> {}, cyc |-> 0, to |-> "next"]
\* Interrupts enabled with one pending, and the same with the I bit set.
Armed(m) == [MCMachine EXCEPT !.masked = m, !.mem[<<"io", 514>>] = 8, !.mem[<<"io", 520>>] = 1]
MCMachines == {MCMachine, Armed(FALSE), Armed(TRUE)}

\* Guest addresses: offset o of region b.
A(b, o) == 16777216 * b + o
Ewram == {A(2, o) : o \in {0, 2, 32764, 32766, 32767, 32768, 262140}} \cup {A(2, 262144)}
Iwram == {A(3, o) : o \in {0, 3, 4, 32764, 32766}} \cup {A(3, 32768)}
Video == {A(5, 1016), A(5, 1018), A(5, 1019), A(6, 0), A(6, 65540), A(6, 98308), A(6, 1), A(7, 4)}
Io == {A(4, o) : o \in {0, 4, 18, 72, 82, 222, 512, 514, 516, 520}}
Rom == {A(8, 256), A(8, 257), A(8, 32770), A(8, 32772), A(8, 65540), A(8, 73728), A(10, 98300), A(12, 4)}
Nowhere == {16, A(16, 0), -16}
Anywhere == Ewram \cup Iwram \cup Video \cup Io \cup Rom \cup Nowhere

Arm == A(8, 512)
ArmRam == A(3, 16)
Thumb == A(8, 770)
Imm(m) == [form |-> "imm", n |-> m, rm |-> 0]
Reg(form, m) == [form |-> form, n |-> m, rm |-> 5]
Transfer(set, load, kind, rd, rn, off, pre, up, wb, known) ==
    [k |-> "single", set |-> set, load |-> load, kind |-> kind, rd |-> rd, rn |-> rn, off |-> off,
     pre |-> pre, up |-> up, wb |-> wb, known |-> known]
Regs(rn, a, v) == [k \in 0 .. 15 |-> CASE k = rn -> a [] k = 5 -> 4 [] k = 0 -> v [] k = 1 -> -2
                                       [] k = 14 -> A(8, 1025) [] OTHER -> A(1, 515 * k)]
Simple(set, load, kind, rd, a, v) ==
    <<Transfer(set, load, kind, rd, 4, Imm(0), TRUE, TRUE, FALSE, FALSE), Regs(4, a, v),
      IF set = "arm" THEN Arm ELSE Thumb>>
Loads == {Simple("arm", TRUE, kind, 0, a, 0) : kind \in {"W", "B", "UH", "SH", "SB"}, a \in Anywhere}
Stores == {Simple("thumb", FALSE, kind, 0, a, v) : kind \in {"W", "B", "UH"}, a \in Anywhere \ Io, v \in {A(1, 33023)}}
          \cup {Simple("thumb", FALSE, kind, 0, a, v) : kind \in {"B", "UH"}, a \in Io \cup {A(4, 769)}, v \in {8, 65535}}
          \cup {Simple("thumb", FALSE, "UH", 0, A(4, 222), 32776), Simple("thumb", FALSE, "UH", 0, A(4, 516), 16384)}
          \cup {Simple("arm", FALSE, "W", 0, A(4, o), v) : o \in {0, 72, 512, 520}, v \in {524296, 65537}}
\* Write-back, offsets, the PC as base, source or destination, one register twice.
Base == {A(3, 4), A(2, 32764), A(8, 32772), A(5, 1016), A(4, 72), A(4, 512)}
Forms ==
    {<<Transfer("arm", load, kind, 0, 4, Imm(4), pre, up, ~pre \/ wb, FALSE), Regs(4, a, 8), Arm>> :
       load \in BOOLEAN, kind \in {"W", "UH"}, pre \in BOOLEAN, up \in BOOLEAN, wb \in BOOLEAN, a \in Base \ {A(5, 1016)}}
    \cup {<<Transfer("arm", load, "W", 0, 4, off, TRUE, up, TRUE, FALSE), Regs(4, A(3, 4), 8), Arm>> :
            load \in BOOLEAN, up \in BOOLEAN,
            off \in {Reg("reg", 0), Reg("lsr", 0), Reg("lsl", 1), Reg("lsr", 1), Reg("asr", 2), Reg("ror", 1)}}
    \cup {<<Transfer("arm", load, "W", rd, rn, Imm(8), TRUE, TRUE, wb, FALSE), Regs(rn, A(8, 248), 8), Arm>> :
            load \in {TRUE}, rd \in {4, 15}, rn \in {4, 15}, wb \in {FALSE}}
    \cup {<<Transfer("arm", load, "W", 4, 4, Imm(4), TRUE, TRUE, TRUE, FALSE), Regs(4, A(3, 4), 8), Arm>> : load \in BOOLEAN}
    \cup {<<Transfer("arm", FALSE, "W", 15, 4, Imm(4), TRUE, TRUE, FALSE, FALSE), Regs(4, A(3, 4), 8), Arm>>}
    \cup {<<Transfer("arm", TRUE, kind, 0, 4, Imm(1), FALSE, TRUE, TRUE, FALSE), Regs(4, a, 0), ArmRam>> :
            kind \in {"SH", "SB", "B"}, a \in {A(3, 4), A(3, 3), A(2, 2)}}
    \cup {<<Transfer("thumb", TRUE, kind, rd, 4 - 4 * rd, Imm(0), TRUE, TRUE, FALSE, known), Regs(4 - 4 * rd, a, 0), Thumb>> :
            kind \in {"W", "B", "UH"}, rd \in {0, 1}, known \in {FALSE}, a \in {A(4, 512), A(4, 73), A(3, 4)}}
    \cup {<<Transfer("thumb", TRUE, kind, 0, 4, Reg("reg", 0), TRUE, TRUE, FALSE, TRUE), Regs(4, a, 0), Thumb>> :
            kind \in {"W", "UH", "SH", "SB", "B"}, a \in {A(4, 508), A(4, 515)}}
    \cup {<<Transfer("thumb", TRUE, "W", 0, 15, Imm(8), TRUE, TRUE, FALSE, FALSE), Regs(4, 0, 0), Thumb>>}
Multi(set, load, rn, list, pre, up, wb) ==
    [k |-> "block", set |-> set, load |-> load, rn |-> rn, list |-> list, pre |-> pre, up |-> up, wb |-> wb]
ArmBlocks ==
    {<<Multi("arm", load, 4, list, pre, up, wb), Regs(4, a, 8), Arm>> :
       load \in BOOLEAN, list \in {<<0, 1>>, <<0, 1, 4>>}, pre \in BOOLEAN, up \in {TRUE}, wb \in BOOLEAN,
       a \in {A(3, 0), A(2, 32760), A(8, 32768), A(6, 98304)}}
    \cup {<<Multi("arm", load, 4, <<1, 4, 15>>, TRUE, FALSE, FALSE), Regs(4, A(3, 14), 8), Arm>> : load \in BOOLEAN}
    \cup {<<Multi("arm", TRUE, 4, <<0, 1, 5>>, FALSE, TRUE, TRUE), Regs(4, a, 8), Arm>> :
            a \in {A(8, 252), A(8, 32768), A(8, 65536), 16, A(16, 0), A(4, 512)}}
    \cup {<<Multi("arm", FALSE, 4, <<0, 1, 5>>, FALSE, TRUE, TRUE), Regs(4, a, 8), Arm>> :
            a \in {A(6, 65536), A(8, 0), A(3, 32764), A(2, 262136)}}
ThumbBlocks ==
    {<<Multi("thumb", FALSE, 13, list, TRUE, FALSE, TRUE), Regs(13, a, 8), Thumb>> :
       list \in {<<14>>, <<4, 14>>, <<0, 1, 14>>}, a \in {A(3, 16), A(3, 14), A(2, 32772), A(6, 8)}}
    \cup {<<Multi("thumb", TRUE, 13, list, FALSE, TRUE, TRUE), Regs(13, a, 8), Thumb>> :
            list \in {<<15>>, <<0, 15>>, <<0, 1, 15>>, <<0, 1, 4>>, <<0>>}, a \in {A(3, 4), A(2, 32760), A(8, 256), A(3, 2)}}
    \cup {<<Multi("thumb", load, 4, list, FALSE, TRUE, TRUE), Regs(4, a, 8), Thumb>> :
            load \in BOOLEAN, list \in {<<0, 4>>, <<0, 1, 4>>}, a \in {A(3, 0), A(2, 32756), A(6, 98304)}}
MCSwaps == {<<[k |-> "swap", set |-> "arm", kind |-> kind, rd |-> 0, rn |-> 4, rm |-> 1], Regs(4, a, 8), Arm>> :
            kind \in {"W", "B"}, a \in {A(3, 5), A(2, 0)}}
All == Loads \cup Stores \cup Forms \cup ArmBlocks \cup ThumbBlocks \cup MCSwaps
\* Before: an enable register, a fill of the page cache, a store near code.
Some == {Simple("thumb", FALSE, "UH", 0, A(4, o), 8) : o \in {512, 514}}
        \cup {Simple("arm", TRUE, "B", 0, A(8, 73728), 0), Simple("arm", FALSE, "W", 0, A(3, 4), 7)}
MCCases == <<Some, All>>
MCBlocks == {<<A(3, 6), 2>>, <<A(2, 32764), 8>>}
MCFragments == {16}
=============================================================================
