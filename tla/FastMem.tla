------------------------------- MODULE FastMem -------------------------------
(***************************************************************************)
(* The native memory paths of the SH-4 back end: the resident routines of  *)
(* sh4_fastmem.h and the sites and unrolled bodies the four emitters of    *)
(* loads and stores place in a block.  Each path tests its guards before   *)
(* it changes anything; where one fails the site's tuple hands the whole   *)
(* instruction to the C helper.  GuestMem says what that helper does.      *)
(*                                                                         *)
(* Two copies of the machine run side by side: nat executes what the block *)
(* executes, ref executes every access in gpSP's C.                        *)
(***************************************************************************)
EXTENDS GuestMem, FiniteSets

CONSTANTS Cases,    \* the accesses <<instruction, registers, pc>> step by step
          Machines, \* the machines it may start from
          Blocks,   \* guest blocks that may be translated: <<address, bytes>>
          Cells     \* the cells of host memory the instance holds
Steps == Len(Cases)

Null == <<"null", 0>>

\* memory_map_read, and the pointer an access of 32 KiB page a forms.
HostPage(s, a) ==
    CASE Region(a) = 0 -> <<"bios", 0>> [] Region(a) = 2 -> <<"ewram", Masked(a % (256 * Kib), PageBytes)>>
      [] Region(a) = 3 -> <<"iwram", PageBytes>> [] Region(a) = 4 -> <<"io", 0>>
      [] Region(a) = 6 -> <<"vram", Fold(Masked(a % (128 * Kib), PageBytes))>>
      [] Region(a) \in 8 .. 12 /\ s.pages[PageOf(a)] # "null" -> <<"rom", PageOf(a) * PageBytes>>
      [] OTHER -> Null
At(page, a) == <<page[1], page[2] + (a % PageBytes)>>
\* A NOR page may start at an odd host address.
HostAligned(s, a, n) == n = 1 \/ Region(a) \notin 8 .. 12 \/ s.pages[PageOf(a)] # "odd"

\* The out-of-line 4 KiB fragment a null page may still be read through.
Fragment(s, a) ==
    IF Region(a) \in 8 .. 12 /\ RomOffset(a) < RomBytes /\ (RomOffset(a) \div 4096) \in Fragments
    THEN <<"rom", Masked(RomOffset(a), PageBytes)>> ELSE Null
LoadPage(s, a) == IF HostPage(s, a) # Null THEN HostPage(s, a) ELSE Fragment(s, a)

DebitByte(seq, region, word) ==
    CASE region = 2 -> IF word THEN 6 ELSE 3
      [] region >= 8 -> (IF seq THEN SeqCost ELSE NseqCost)[2 * region + (IF word THEN 1 ELSE 0)]
      [] OTHER -> 1
\* The region-specialised debits: EWRAM, IWRAM and I/O, video, then the table.
Debit(seq, region, word) ==
    CASE region = 2 -> IF word THEN 6 ELSE 3
      [] region \in {5, 6, 7} /\ word -> 2
      [] region >= 8 -> (IF seq THEN SeqCost ELSE NseqCost)[2 * region + (IF word THEN 1 ELSE 0)]
      [] OTHER -> 1
Charging(s, a, n) == Charged(s, Debit(FALSE, Region(a), n = 4))

-----------------------------------------------------------------------------
\* The single-transfer routines.  new is the base a writeback form commits.

Back(s, i, new) == IF WritesBack(i) THEN Set(s, i.rn, new) ELSE s
Extended(kind, b) ==
    CASE kind = "SH" -> Signed(Half(b), 65536) [] kind = "SB" -> Signed(b[1], 256)
      [] kind = "UH" -> Half(b) [] kind = "B" -> b[1] [] OTHER -> Whole(b)
\* IWRAM and EWRAM, without a probe of the map; everything else through it.
Direct(a, n) == Region(a) \in {2, 3} /\ a % n = 0
LoadGuards(s, a, n) ==
    /\ a \in 0 .. MapEnd - 1 /\ LoadPage(s, a) # Null /\ Region(a) \in 2 .. 12
    /\ a % n = 0 /\ (HostPage(s, a) = Null \/ HostAligned(s, a, n))
LoadCell(s, a) == IF Region(a) \in {2, 3} THEN Place(a) ELSE At(LoadPage(s, a), a)
RoutineLoad(s, i, a, n, new) ==
    Charging(Back(Set(s, i.rd, Extended(i.kind, Host(s, LoadCell(s, a), n))), i, new), a, n)

\* An aligned palette store also converts the colours.
PaletteGuards(a, n) == Region(a) = 5 /\ n > 1 /\ a % n = 0
PaletteStore(s, i, a, n, new) ==
    LET o == a % Kib
        put == Put(s, <<"pal", o>>, n, StoreValue(s.r[i.rd], n))
        low == Converted(put, o)
    IN  Charged(Back(IF n = 4 THEN Converted(low, o + 2) ELSE low, i, new), IF n = 4 THEN 2 ELSE 1)

\* Plain stores: RAM whose tags are clear, and VRAM but for bytes.
TagCell(page, a) == <<page[1], page[2] + (a % PageBytes) + (IF Region(a) = 2 THEN 256 * Kib ELSE -PageBytes)>>
TagsClear(s, page, a, n) ==
    Region(a) = 6 \/ \A k \in 1 .. n : Host(s, TagCell(page, a), n)[k] = 0
StoreGuards(s, a, n) ==
    /\ Region(a) \in {2, 3} \/ (Region(a) = 6 /\ n > 1)
    /\ a % n = 0 /\ TagsClear(s, HostPage(s, a), a, n)
RoutineStore(s, i, a, n, new) ==
    Charging(Back(Put(s, At(HostPage(s, a), a), n, StoreValue(s.r[i.rd], n)), i, new), a, n)

\* The halfword register tail: exact addresses, IF and IE last.
IoDirect == {64, 68, 72, 74, 76, 80, 82, 84}
IoPairs == {16, 20, 24, 28}
IoTail(o) == o \in {0, 4, 512, 514} \cup IoDirect \cup IoPairs \cup {p + 2 : p \in IoPairs}
IoStore(s, o, v) ==
    CASE o = 0 -> [Put(s, <<"io", 0>>, 2, v) EXCEPT !.oam = @ \/ v % 8 # HostHalf(s, "io", 0) % 8]
      [] o = 4 -> Put(s, <<"io", 4>>, 2, (v - (v % 8)) + (HostHalf(s, "io", 4) % 8))
      [] o = 514 -> Put(s, <<"io", 514>>, 2, Cleared(HostHalf(s, "io", 514), v))
      [] OTHER -> Put(s, <<"io", o>>, 2, v)
\* A new IE that would let a pending interrupt in is left to the helper.
Unmasks(s) == Pending(s) /\ HostHalf(s, "io", 520) % 2 = 1 /\ ~s.masked
IoRoutine(s, i, a, new, pc) ==
    LET o == a % Kib
        t == IoStore(s, o, StoreValue(s.r[i.rd], 2))
    IN  IF o = 512 /\ Unmasks(t) THEN Helper(t, i, pc, TRUE) ELSE Charging(Back(t, i, new), a, 2)

Routine(s, i, a, n, new, pc) ==
    CASE i.load /\ (Direct(a, n) \/ LoadGuards(s, a, n)) -> RoutineLoad(s, i, a, n, new)
      [] ~i.load /\ PaletteGuards(a, n) -> PaletteStore(s, i, a, n, new)
      [] ~i.load /\ StoreGuards(s, a, n) -> RoutineStore(s, i, a, n, new)
      [] ~i.load /\ n = 2 /\ Region(a) = 4 /\ IoTail(IoOffset(a)) -> IoRoutine(s, i, a, new, pc)
      [] OTHER -> Helper(s, i, pc, TRUE)

-----------------------------------------------------------------------------
\* Block transfers.  a is the lowest address; Thumb bases may be unaligned.

AnyPage(a, m) == TRUE
OnePage(a, m) == a \div PageBytes = (a + 4 * m - 1) \div PageBytes
RunClear(s, i, a) == \A k \in 1 .. Count(i) : TagsClear(s, HostPage(s, a), Word(a, k), 4)
Mapped(s, a) == a \in 0 .. MapEnd - 1 /\ HostPage(s, a) # Null
StoreRegions == {2, 3, 6}

\* Every listed register, lowest first, then the base.
MoveWord(t, i, a, k) ==
    LET cell == At(HostPage(t, a), Word(a, k)) IN
    IF i.load THEN Set(t, i.list[k], Whole(Host(t, cell, 4))) ELSE Put(t, cell, 4, t.r[i.list[k]])
MovedWords(s, i, a) ==
    LET done[k \in 0 .. Count(i)] == IF k = 0 THEN s ELSE MoveWord(done[k - 1], i, a, k)
    IN  done[Count(i)]
Transferred(s, i, a) ==
    IF i.wb /\ ~(i.load /\ InList(i, i.rn)) THEN Set(MovedWords(s, i, a), i.rn, NewBase(s, i)) ELSE MovedWords(s, i, a)

\* Three registers or more: the resident routine.  Its stores debit constants.
RoutineRun(s, i, a) ==
    /\ a % 4 = 0 /\ OnePage(a, Count(i)) /\ Mapped(s, a)
    /\ IF i.load THEN Region(a) # 0 /\ HostAligned(s, a, 4)
                 ELSE Region(a) \in StoreRegions /\ RunClear(s, i, a)
RoutineCost(i, a) == Count(i) * (IF i.load THEN SeqCost[2 * Region(a) + 1] ELSE Debit(TRUE, Region(a), TRUE))
RoutineBlock(s, i, a, pc) ==
    IF RoutineRun(s, i, a) THEN Charged(Transferred(s, i, a), RoutineCost(i, a)) ELSE Helper(s, i, pc, TRUE)
\* Fewer: a body unrolled at the site.
UnrolledCost(i, a) == Count(i) * SeqCost[2 * Region(a) + 1]

\* sh4g_arm_block_native.
ArmBlockDeclines(i) == InList(i, 15) \/ i.rn = 15 \/ (~i.load /\ i.wb /\ InList(i, i.rn))
ArmRun(s, i, a) ==
    /\ OnePage(a, Count(i)) /\ Mapped(s, a)
    /\ IF i.load THEN Region(a) # 0 /\ HostAligned(s, a, 4)
                 ELSE Region(a) \in StoreRegions /\ RunClear(s, i, a)
ArmUnrolled(s, i, a, pc) ==
    IF ArmRun(s, i, a) THEN Charged(Transferred(s, i, a), UnrolledCost(i, a)) ELSE Helper(s, i, pc, TRUE)
ArmBlock(s, i, a, pc) ==
    CASE ArmBlockDeclines(i) -> Helper(s, i, pc, TRUE)
      [] ~ArmBlockDeclines(i) /\ Count(i) >= 3 -> RoutineBlock(s, i, a, pc)
      [] OTHER -> ArmUnrolled(s, i, a, pc)

\* sh4g_thumb_block_native.  PUSH {lr} and PUSH {r4, lr} have a body for IWRAM
\* only; POP of the PC stays unrolled and leaves through the dispatcher.
IwramPush(s, i, a) == /\ a % 4 = 0 /\ Region(a) = 3 /\ OnePage(a, Count(i)) /\ RunClear(s, i, a)
ThumbRun(s, i, a) ==
    /\ a % 4 = 0 /\ OnePage(a, Count(i)) /\ Mapped(s, a)
    /\ Region(a) \in IF i.load THEN {2, 3} ELSE StoreRegions
    /\ i.load \/ RunClear(s, i, a)
ThumbUnrolled(s, i, a, pc, run) ==
    LET t == Charged(Transferred(s, i, a), UnrolledCost(i, a)) IN
    CASE ~run -> Helper(s, i, pc, TRUE)
      [] run /\ InList(i, 15) -> [t EXCEPT !.r[15] = @ - (@ % 2), !.to = "redispatch"]
      [] OTHER -> t
ThumbBlock(s, i, a, pc) ==
    CASE ~i.load /\ i.rn = 13 /\ i.list \in {<<14>>, <<4, 14>>} -> ThumbUnrolled(s, i, a, pc, IwramPush(s, i, a))
      [] Count(i) >= 3 /\ ~InList(i, 15) -> RoutineBlock(s, i, a, pc)
      [] OTHER -> ThumbUnrolled(s, i, a, pc, ThumbRun(s, i, a))

-----------------------------------------------------------------------------
\* The emitters' choice for one instruction.

InlineLoad(s, i, at, n, new, cost) == Charged(Back(Set(s, i.rd, Extended(i.kind, Host(s, at, n))), i, new), cost)

\* sh4g_arm_ldst_native: the forms it leaves to the helper, and the signed
\* loads of code in IWRAM it places in line.
ArmDeclines(i) ==
    \/ i.rd = 15 \/ (i.rn = 15 /\ (~i.load \/ WritesBack(i) \/ i.off.form # "imm"))
    \/ (i.load /\ WritesBack(i) /\ i.rd = i.rn)
    \/ i.off.form = "ror" \/ (i.off.form # "imm" /\ i.off.rm = 15)
ArmInline(i, a, n, pc) == i.load /\ Region(pc) = 3 /\ i.kind \in {"SB", "SH"} /\ Region(a) = 3 /\ a % n = 0
ArmSingle(s, i, a, n, new, pc) ==
    CASE ArmDeclines(i) -> Helper(s, i, pc, TRUE)
      [] ~ArmDeclines(i) /\ ArmInline(i, a, n, pc) -> InlineLoad(s, i, Place(a), n, new, 1)
      [] OTHER -> Routine(s, i, a, n, new, pc)

\* Thumb loads of I/O whose address the translator knows, or of the three hot
\* opcodes LDR r0,[r4], LDRB r0,[r4] and LDRH r1,[r0]; the rest by routine.
IoAligned(i, a, n) == i.load /\ i.rn # 15 /\ a % n = 0
KnownIo(i, a) == i.known /\ Region(a) % 16 = 4
Hot(i) == /\ i.off = [form |-> "imm", n |-> 0, rm |-> 0]
          /\ <<i.kind, i.rd, i.rn>> \in {<<"W", 0, 4>>, <<"B", 0, 4>>, <<"UH", 1, 0>>}
HotIo(i, a) == Hot(i) /\ Region(a) = 4
ThumbSingle(s, i, a, n, new, pc) ==
    IF IoAligned(i, a, n) /\ (KnownIo(i, a) \/ HotIo(i, a))
    THEN InlineLoad(s, i, <<"io", a % Kib>>, n, new, NseqCost[8 + (IF n = 4 THEN 1 ELSE 0)])
    ELSE Routine(s, i, a, n, new, pc)

Executed(s, i, pc) ==
    CASE i.k = "single" /\ i.set = "arm" -> ArmSingle(s, i, AddressOf(s, i, pc), SizeOf(i.kind), Moved(s, i, pc), pc)
      [] i.k = "single" /\ i.set = "thumb" -> ThumbSingle(s, i, AddressOf(s, i, pc), SizeOf(i.kind), Moved(s, i, pc), pc)
      [] i.k = "block" /\ i.set = "arm" -> ArmBlock(s, i, FirstOf(s, i), pc)
      [] i.k = "block" /\ i.set = "thumb" -> ThumbBlock(s, i, FirstOf(s, i), pc)
      [] OTHER -> Helper(s, i, pc, TRUE)

-----------------------------------------------------------------------------
\* What the two paths are compared on.  Instructions the decoders produce:

MinInt == -2147483647 - 1
MaxInt == 2147483647
Int32 == MinInt .. MaxInt
Register == 0 .. 15
Shift == [form : {"imm", "reg", "lsl", "lsr", "asr", "ror"}, n : Nat, rm : Register]
Singles ==
    {i \in [k : {"single"}, set : {"arm", "thumb"}, load : BOOLEAN, kind : {"W", "B", "UH", "SH", "SB"},
            rd : Register, rn : Register, off : Shift, pre : BOOLEAN, up : BOOLEAN, wb : BOOLEAN, known : BOOLEAN] :
       /\ i.load \/ i.kind \in {"W", "B", "UH"}
       /\ i.set = "thumb" => i.pre /\ ~i.wb /\ i.rd # 15}
Multiples ==
    {i \in [k : {"block"}, set : {"arm", "thumb"}, load : BOOLEAN, rn : Register, list : Seq(Register),
            pre : BOOLEAN, up : BOOLEAN, wb : BOOLEAN] :
       /\ i.list # <<>>
       /\ i.set = "thumb" => i.rn # 15 /\ (i.load \/ ~InList(i, 15))}
Swaps == [k : {"swap"}, set : {"arm"}, kind : {"W", "B"}, rd : Register, rn : Register, rm : Register]

\* Accesses that stay within the registers of the I/O page, that load within
\* the image, and whose words and tags the instance holds.  Beyond the image,
\* and beyond the registers, a native load reads the host page as mapped.
InImage(i, a) == i.k # "swap" /\ i.load /\ Region(a) \in 8 .. 12 => RomOffset(a) < RomBytes
Around(a) == Masked(a, 4) .. Masked(a, 4) + 3
Held(a) == /\ Region(a) \in 2 .. 7 => {Place(b) : b \in Around(a)} \subseteq Cells
           /\ Region(a) \in {2, 3} => {Tag(b) : b \in Around(a)} \subseteq Cells
Plain(i, a) ==
    /\ a \in Int32 /\ InImage(i, a) /\ Held(a)
    /\ Region(a) = 4 => IoOffset(a) < Kib
    /\ i.k = "single" /\ KnownIo(i, a) => Region(a) = 4
Reached(s, i, pc) ==
    CASE i.k = "single" -> {AddressOf(s, i, pc)}
      [] i.k = "block" -> {Word(FirstOf(s, i), k) : k \in 1 .. Count(i)}
      [] OTHER -> {s.r[i.rn]}
Rebased(s, i, pc) ==
    CASE i.k = "single" -> Moved(s, i, pc) [] i.k = "block" -> NewBase(s, i) [] OTHER -> s.r[i.rn]
Comparable(c) ==
    /\ c[1] \in Singles \cup Multiples \cup Swaps
    /\ c[2] \in [Register -> Int32] /\ c[3] \in 0 .. MapEnd - 1
    /\ Rebased([r |-> c[2]], c[1], c[3]) \in Int32
    /\ \A a \in Reached([r |-> c[2]], c[1], c[3]) : Plain(c[1], a)
ASSUME StepsBounded == Steps \in Nat
ASSUME AccessesComparable == \A k \in 1 .. Steps : \A c \in Cases[k] : Comparable(c)

\* A machine before its first access, and the blocks of its RAM.
ASSUME CellsNamed == Cells \subseteq {"iwram", "ewram", "vram", "pal", "conv", "oam", "io"} \X Nat
Machine == [r : [Register -> Int32], pages : [0 .. RomPages - 1 -> {"mapped", "odd", "null"}],
            mem : [Cells -> 0 .. 255], code : {{}}, dirty : BOOLEAN, oam : BOOLEAN, dma : BOOLEAN,
            masked : BOOLEAN, alert : {{}}, cyc : Int, to : {"next"}]
ASSUME MachinesWhole == Machines \subseteq Machine

-----------------------------------------------------------------------------
VARIABLES nat, ref,     \* the machine of the block and of the interpreter
          taken         \* steps so far, at most Steps
vars == <<nat, ref, taken>>

Init == taken = 0 /\ nat \in Machines /\ ref = nat
\* The program sets its registers and accesses memory.
Access(c) ==
    /\ nat' = Executed([nat EXCEPT !.r = c[2], !.to = "next"], c[1], c[3])
    /\ ref' = Helper([ref EXCEPT !.r = c[2], !.to = "next"], c[1], c[3], FALSE)

\* The translator tags every halfword of a block it scans in RAM.
Covered(b) == {<<Place(b[1])[1], Place(b[1])[2] + k>> : k \in 0 .. b[2] - 1}
TagFor(c) == <<c[1], IF c[1] = "ewram" THEN c[2] + 256 * Kib ELSE c[2] - PageBytes>>
TagsOf(b) == {TagFor(c) : c \in Covered(b)}
\* A block is scanned within one area of RAM, whose bytes and tags the
\* instance holds.
InData(c) ==
  \/ c[1] = "iwram" /\ PageBytes <= c[2] /\ c[2] < 2 * PageBytes
  \/ c[1] = "ewram" /\ 0 <= c[2] /\ c[2] < 256 * Kib
ASSUME BlocksHeld ==
    \A b \in Blocks : Covered(b) \cup TagsOf(b) \subseteq Cells /\ \A c \in Covered(b) : InData(c)
Marked(s, b) ==
    [s EXCEPT !.mem = [c \in DOMAIN @ |-> IF c \in TagsOf(b) THEN 1 ELSE @[c]],
              !.code = @ \cup {<<c, s.mem[c]>> : c \in Covered(b)}]
Translate(b) == /\ nat.code = {} /\ ref.code = {}
                /\ nat' = Marked(nat, b) /\ ref' = Marked(ref, b)
\* The page cache drops a page; an interrupt source sets its flag.
Evict(p) == /\ nat.pages[p] # "null"
            /\ nat' = [nat EXCEPT !.pages[p] = "null"] /\ ref' = [ref EXCEPT !.pages[p] = "null"]
Interrupt == /\ HostHalf(nat, "io", 514) = 0
             /\ nat' = Put(nat, <<"io", 514>>, 2, 8) /\ ref' = Put(ref, <<"io", 514>>, 2, 8)
Next == /\ taken < Steps /\ taken' = taken + 1
        /\ \/ \E c \in Cases[taken + 1] : Access(c)
           \/ \E b \in Blocks : Translate(b)
           \/ \E p \in 0 .. RomPages - 1 : Evict(p)
           \/ Interrupt
Spec == Init /\ [][Next]_vars

-----------------------------------------------------------------------------
\* Registers are 32-bit values and memory is bytes.
Words32(r) == \A k \in DOMAIN r : r[k] \in Int32
TypeOK ==
    /\ taken \in 0 .. Steps
    /\ \A s \in {nat, ref} : /\ s.mem \in [DOMAIN s.mem -> 0 .. 255]
                             /\ Words32(s.r) /\ s.alert = {}
                             /\ s.to \in {"next", "redispatch", "scheduler"}

\* Whatever path a load or store takes (a resident routine, an unrolled body,
\* a register tail that gives up half way, or the helper its guard failed to),
\* registers, memory, tags, converted colours, pending flags and the block's
\* continuation are those of gpSP's own access: no path commits a write-back
\* before a guard, skips a tag or folds an address differently.
FastAgrees ==
    /\ nat.r = ref.r /\ nat.mem = ref.mem /\ nat.to = ref.to /\ nat.code = ref.code
    /\ nat.oam = ref.oam /\ nat.dma = ref.dma /\ nat.dirty = ref.dirty /\ nat.pages = ref.pages

\* The constants the routines debit for RAM and video, the live tables they
\* read for the rest and the helper's charges add up to the same cycles, so
\* the block ends at the same point of the emulated frame either way.
ChargesAgree == nat.cyc = ref.cyc

\* Code translated from RAM is never left stale by a native store: while a
\* block is in the cache every byte it was translated from is still in memory.
CodeFresh == \A s \in {nat, ref} : \A b \in s.code : s.mem[b[1]] = b[2]
=============================================================================
