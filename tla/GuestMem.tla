------------------------------ MODULE GuestMem ------------------------------
(***************************************************************************)
(* Guest loads and stores as the C helpers of sh4_interp_helpers.c execute *)
(* them over gpSP's memory, with the cycles they charge, the alerts they   *)
(* raise and what the block does next.                                     *)
(*                                                                         *)
(* Registers and addresses are 32-bit two's-complement numbers.  Host      *)
(* memory is one function from cells <<area, offset>> to bytes; the tag    *)
(* mirror of IWRAM is its first 32 KiB, that of EWRAM lies 256 KiB behind  *)
(* the data.  Registers >= 2^31 as addresses, the backup chips and reads   *)
(* of BIOS and open bus are one opaque value: only helpers produce them.   *)
(* An instruction is a single transfer                                     *)
(*   [k |-> "single", set, load, kind, rd, rn, off, pre, up, wb, known],   *)
(* a block transfer [k |-> "block", set, load, rn, list, pre, up, wb] with *)
(* an ascending register list, or a swap [k |-> "swap", set, kind, rd, rn, *)
(* rm].  Transfers of the user bank (the S bit) are left out.              *)
(***************************************************************************)
EXTENDS Integers, Sequences

CONSTANTS RomPages,           \* 32 KiB pages of the image
          Fragments,          \* 4 KiB blocks readable through the fragment table
          SeqCost, NseqCost   \* ws_cyc_seq, ws_cyc_nseq, flattened: 2 * region + word
ASSUME ImageSize == RomPages \in Nat \ {0}
\* The program can change the wait states of the cartridge, and only those.
ASSUME WaitStates ==
    \A t \in {SeqCost, NseqCost} :
       /\ t \in [0 .. 31 -> Int] /\ t[4] = 3 /\ t[5] = 6
       /\ \A x \in {0, 1, 2, 3, 6, 7, 8, 9, 10, 12, 14} : t[x] = 1
       /\ \A x \in {11, 13, 15} : t[x] = 2

Kib == 1024
PageBytes == 32 * Kib
RomBytes == RomPages * PageBytes
MapEnd == 268435456          \* memory_map_read ends at 0x10000000
Region(a) == IF a < 0 THEN 255 ELSE a \div 16777216
IoOffset(a) == a % 16777216
Masked(a, n) == a - (a % n)

\* Bytes of a value, little end first, and back.
Bytes(v, n) == [k \in 1 .. n |-> (v \div <<1, 256, 65536, 16777216>>[k]) % 256]
Signed(v, n) == IF v >= n \div 2 THEN v - n ELSE v
Half(b) == b[1] + 256 * b[2]
Upper(b) == b[3] + 256 * b[4]
Whole(b) == Half(b) + 65536 * Signed(Upper(b), 65536)

RomByte(o) == (7 * o + (o \div 4096) + 129) % 256
HostByte(s, c) == CASE c[1] = "rom" -> RomByte(c[2]) [] c[1] = "bios" -> 17 [] OTHER -> s.mem[c]
Host(s, c, n) == [k \in 1 .. n |-> HostByte(s, <<c[1], c[2] + k - 1>>)]
HostHalf(s, area, o) == Half(Host(s, <<area, o>>, 2))
Put(s, c, n, v) ==
    [s EXCEPT !.mem = [d \in DOMAIN @ |-> IF d[1] = c[1] /\ d[2] - c[2] \in 0 .. n - 1
                                          THEN Bytes(v, n)[d[2] - c[2] + 1] ELSE @[d]]]
Set(s, n, v) == [s EXCEPT !.r[n] = v]
Raise(s, alert) == [s EXCEPT !.alert = @ \cup {alert}]
Charged(s, cycles) == [s EXCEPT !.cyc = @ + cycles]
Charge(s, seq, a, size) ==
    IF Region(a) > 15 THEN s
    ELSE Charged(s, (IF seq THEN SeqCost ELSE NseqCost)[2 * Region(a) + (IF size = 4 THEN 1 ELSE 0)])

-----------------------------------------------------------------------------
\* gpSP's memory, gba_memory.c.

Fold(o) == IF o >= 98304 THEN o - PageBytes ELSE o
Place(a) ==
    CASE Region(a) = 2 -> <<"ewram", a % (256 * Kib)>> [] Region(a) = 3 -> <<"iwram", PageBytes + (a % PageBytes)>>
      [] Region(a) = 4 -> <<"io", a % Kib>> [] Region(a) = 5 -> <<"pal", a % Kib>>
      [] Region(a) = 6 -> <<"vram", Fold(a % (128 * Kib))>> [] OTHER -> <<"oam", a % Kib>>
RomOffset(a) == a % 33554432
RomRead(a) == Region(a) \in 8 .. 12 /\ RomOffset(a) < RomBytes
\* read_memory: past the image the bus returns half the address.
Read(s, a, n) ==
    CASE Region(a) \in 2 .. 7 -> Host(s, Place(a), n)
      [] RomRead(a) -> Host(s, <<"rom", RomOffset(a)>>, n)
      [] Region(a) \in 8 .. 12 /\ ~RomRead(a) ->
           [k \in 1 .. n |-> Bytes((a + k - 1) \div 2, 2)[1 + ((a + k - 1) % 2)]]
      [] OTHER -> [k \in 1 .. n |-> 170]
\* A read of a page that is neither mapped nor in the fragment table fills it.
PageOf(a) == (RomOffset(a) \div PageBytes) % RomPages
Filled(s, a) == IF RomRead(a) /\ s.pages[PageOf(a)] = "null" /\ RomOffset(a) \div 4096 \notin Fragments
                THEN [s EXCEPT !.pages[PageOf(a)] = "mapped"] ELSE s

\* convert_palette: BGR555 to the RGB565 of the display.
Convert(v) == (v % 32) * 2048 + ((v \div 32) % 32) * 64 + ((v \div 1024) % 32)
Converted(s, o) == Put([s EXCEPT !.dirty = TRUE], <<"conv", o>>, 2, Convert(HostHalf(s, "pal", o)))
\* The bits x and y have in common.
Bit(x, y, b) == IF (x \div b) % 2 = 1 /\ (y \div b) % 2 = 1 THEN b ELSE 0
Nibble(x, y, b) == Bit(x, y, b) + Bit(x, y, 2 * b) + Bit(x, y, 4 * b) + Bit(x, y, 8 * b)
Common(x, y) == Nibble(x, y, 1) + Nibble(x, y, 16) + Nibble(x, y, 256) + Nibble(x, y, 4096)
Cleared(x, y) == x - Common(x, y)
Pending(s) == Common(HostHalf(s, "io", 512), HostHalf(s, "io", 514)) # 0
\* check_interrupt.
Checked(s) == IF Pending(s) /\ HostHalf(s, "io", 520) % 2 = 1 /\ ~s.masked THEN Raise(s, "irq") ELSE s
Flushed(s) == [s EXCEPT !.code = {}, !.mem = [c \in DOMAIN @ |->
                 IF (c[1] = "iwram" /\ c[2] < PageBytes) \/ (c[1] = "ewram" /\ c[2] >= 256 * Kib) THEN 0 ELSE @[c]]]
\* trigger_dma: an armed channel ignores the write, and an immediate transfer
\* is over when it returns.  What the transfer copies is left out.
TriggerDma(s, v) ==
    LET put(x) == Put(s, <<"io", 222>>, 2, x) IN
    CASE v < 32768 -> [put(v) EXCEPT !.dma = FALSE]
      [] v >= 32768 /\ s.dma -> s
      [] v >= 32768 /\ ~s.dma /\ (v \div 4096) % 4 = 0 -> Raise(put(v - 32768), "dma")
      [] OTHER -> [put(v) EXCEPT !.dma = TRUE]
\* The bits of WAITCNT that the wait states depend on.
TimingBits(v) == (v % 2048) \div 4
WriteIo16(s, o, v) ==
    LET put(x) == Put(s, <<"io", o>>, 2, x) IN
    CASE o = 0 -> [put(v) EXCEPT !.oam = @ \/ v % 8 # HostHalf(s, "io", 0) % 8]
      [] o = 4 -> put((v - (v % 8)) + (HostHalf(s, "io", 4) % 8))
      [] o = 514 -> put(Cleared(HostHalf(s, "io", 514), v))
      [] o \in {512, 520} -> Checked(put(v))
      [] o = 516 -> IF TimingBits(HostHalf(s, "io", 516)) = TimingBits(v) THEN put(v) ELSE Raise(Flushed(put(v)), "timing")
      [] o = 222 -> TriggerDma(s, v)
      [] OTHER -> IF o < 1024 THEN put(v) ELSE s
WriteIo(s, a, n, v) ==
    LET o == IoOffset(a)
        old == HostHalf(s, "io", o - (o % 2))
    IN  CASE n = 2 -> WriteIo16(s, o, v)
          [] n = 4 -> WriteIo16(WriteIo16(s, o, Half(Bytes(v, 4))), o + 2, Upper(Bytes(v, 4)))
          [] n = 1 -> IF o = 769 THEN Raise(s, "halt")
                      ELSE WriteIo16(s, o - (o % 2), IF o % 2 = 1 THEN v * 256 + (old % 256) ELSE v + old - (old % 256))
\* write_memory; a byte stored into palette or VRAM fills its halfword.
Write(s, a, n, v) ==
    LET at == IF n = 1 THEN <<Place(a)[1], Masked(Place(a)[2], 2)>> ELSE Place(a)
        put == Put(s, at, IF n = 1 THEN 2 ELSE n, IF n = 1 THEN 257 * v ELSE v)
    IN  CASE Region(a) \in {2, 3} -> Put(s, Place(a), n, v)
          [] Region(a) = 4 -> WriteIo(s, a, n, v)
          [] Region(a) = 5 -> IF n = 4 THEN Converted(Converted(put, at[2]), at[2] + 2) ELSE Converted(put, at[2])
          [] Region(a) = 6 -> put
          [] Region(a) = 7 -> IF n = 1 THEN s ELSE [put EXCEPT !.oam = TRUE]
          [] OTHER -> s

-----------------------------------------------------------------------------
\* The helpers' loads and stores.  With fast FALSE a halfword store is gpSP's
\* own: the reference the helper's register switch is compared with.

SizeOf(kind) == CASE kind = "W" -> 4 [] kind \in {"UH", "SH"} -> 2 [] OTHER -> 1
\* An unaligned word or halfword is rotated; a signed one is its high byte.
Loaded(s, kind, a) ==
    CASE kind = "W" -> LET b == Read(s, Masked(a, 4), 4) IN Whole([k \in 1 .. 4 |-> b[1 + ((k - 1 + (a % 4)) % 4)]])
      [] kind = "UH" -> LET b == Read(s, Masked(a, 2), 2) IN IF a % 2 = 1 THEN Whole(<<b[2], 0, 0, b[1]>>) ELSE Half(b)
      [] kind = "SH" -> IF a % 2 = 1 THEN Signed(Read(s, a, 1)[1], 256) ELSE Signed(Half(Read(s, a, 2)), 65536)
      [] kind = "SB" -> Signed(Read(s, a, 1)[1], 256)
      [] OTHER -> Read(s, a, 1)[1]
ExecuteLoad(s, kind, a, seq) == Filled(Charge(s, seq, a, SizeOf(kind)), a)

\* cgba_sh4_store_u16_io_fast: the registers it handles and what it does.
IoFastPlain == {22, 28, 30, 72, 74, 76, 82}
IoFast(s, a, v) == Region(a) = 4 /\ ((a % Kib) \in IoFastPlain \cup {0, 4, 520} \/ (a % Kib = 222 /\ v < 32768))
IoFastStore(s, o, v) ==
    LET put(x) == Put(s, <<"io", o>>, 2, x) IN
    CASE o = 0 -> [put(v) EXCEPT !.oam = @ \/ v % 8 # HostHalf(s, "io", 0) % 8]
      [] o = 4 -> put((v - (v % 8)) + (HostHalf(s, "io", 4) % 8))
      [] o = 520 -> IF v # 0 /\ Pending(s) /\ ~s.masked THEN Raise(put(v), "irq") ELSE put(v)
      [] o = 222 -> [put(v) EXCEPT !.dma = FALSE]
      [] OTHER -> put(v)
Tag(a) == IF Region(a) = 3 THEN <<"iwram", a % PageBytes>> ELSE <<"ewram", (a % (256 * Kib)) + 256 * Kib>>
Tags(s, a, n) == IF Region(a) \in {2, 3} THEN Host(s, Tag(a), n) ELSE <<0>>
SmcFirst(s, a, n) == IF Tags(s, a, n)[1] # 0 THEN Raise(s, "smc") ELSE s
SmcCheck(s, a, n) == IF \E k \in DOMAIN Tags(s, a, n) : Tags(s, a, n)[k] # 0 THEN Raise(s, "smc") ELSE s
StoreValue(v, n) == IF n = 4 THEN v ELSE IF n = 2 THEN v % 65536 ELSE v % 256
Stored(s, a, n, v, fast) ==
    IF fast /\ n = 2 /\ IoFast(s, a, v) THEN IoFastStore(s, a % Kib, v) ELSE SmcCheck(Write(s, a, n, v), a, n)
ExecuteStore(s, addr, n, v, seq, fast) ==
    LET a == Masked(addr, n) IN Stored(Charge(s, seq, a, n), a, n, StoreValue(v, n), fast)

\* cgba_store_alert_break, and the end of a helper that wrote the PC.
Leave(s, to, pc) == [s EXCEPT !.to = to, !.r[15] = pc, !.alert = {}]
AlertKept(s, next) == IF s.alert \subseteq {"irq"} THEN s ELSE Leave(IF "smc" \in s.alert THEN Flushed(s) ELSE s, "scheduler", next)
AlertBreak(s, next) ==
    LET t == IF "smc" \in s.alert THEN Flushed(s) ELSE s IN
    CASE s.alert \subseteq {"irq"} -> [t EXCEPT !.alert = {}]
      [] s.alert \subseteq {"irq", "timing"} /\ "timing" \in s.alert -> Leave(t, "redispatch", next)
      [] OTHER -> Leave(t, "scheduler", next)

-----------------------------------------------------------------------------
\* The instructions.

Width(i) == IF i.set = "arm" THEN 4 ELSE 2
\* The shifts of an offset register; a left shift loses no bit and a rotation
\* moves none to the top, as for the small offsets of the instances.
ShiftOf(v, off) ==
    CASE off.form = "lsl" -> v * 2 ^ off.n
      [] off.form = "lsr" /\ off.n > 0 -> IF v < 0 THEN (v \div 2 ^ off.n) + 2 ^ (31 - off.n) + 2 ^ (31 - off.n) ELSE v \div 2 ^ off.n
      [] off.form \in {"asr", "ror"} /\ off.n > 0 -> v \div 2 ^ off.n
      [] off.form = "asr" /\ off.n = 0 -> IF v < 0 THEN -1 ELSE 0
      [] off.form = "lsr" /\ off.n = 0 -> 0
      [] OTHER -> v
Offset(s, off) == IF off.form = "imm" THEN off.n ELSE ShiftOf(s.r[off.rm], off)
BaseOf(s, i, pc) == IF i.rn # 15 THEN s.r[i.rn] ELSE IF i.set = "arm" THEN pc + 8 ELSE Masked(pc, 4) + 4
Moved(s, i, pc) == BaseOf(s, i, pc) + (IF i.up THEN 1 ELSE -1) * Offset(s, i.off)
AddressOf(s, i, pc) == IF i.pre THEN Moved(s, i, pc) ELSE BaseOf(s, i, pc)
WritesBack(i) == i.wb \/ ~i.pre

SingleLoad(s, i, pc, a) ==
    LET v == Loaded(s, i.kind, a)
        t == ExecuteLoad(IF WritesBack(i) THEN Set(s, i.rn, Moved(s, i, pc)) ELSE s, i.kind, a, FALSE)
    IN  IF i.rd = 15 THEN Leave(t, "redispatch", v - (v % 2)) ELSE AlertBreak(Set(t, i.rd, v), pc + Width(i))
SingleStore(s, i, pc, a, fast) ==
    LET t == ExecuteStore(s, a, SizeOf(i.kind), IF i.rd = 15 THEN pc + 12 ELSE s.r[i.rd], FALSE, fast)
    IN  AlertBreak(IF WritesBack(i) THEN Set(t, i.rn, Moved(s, i, pc)) ELSE t, pc + Width(i))

\* The first address of a block, and the base it leaves.
Count(i) == Len(i.list)
NewBase(s, i) == s.r[i.rn] + (IF i.up THEN 4 ELSE -4) * Count(i)
FirstOf(s, i) ==
    LET low == IF i.up THEN s.r[i.rn] ELSE NewBase(s, i)
    IN  (IF i.set = "arm" THEN Masked(low, 4) ELSE low) + (IF i.pre = i.up THEN 4 ELSE 0)
InList(i, n) == \E k \in 1 .. Count(i) : i.list[k] = n
\* Register k of the list, lowest first; the loops below move them in order.
Word(a, k) == a + 4 * (k - 1)
LoadWord(t, i, a, k) == Set(ExecuteLoad(t, "W", Word(a, k), TRUE), i.list[k], Loaded(t, "W", Word(a, k)))
LoadedWords(s, i, a) ==
    LET done[k \in 0 .. Count(i)] == IF k = 0 THEN s ELSE LoadWord(done[k - 1], i, a, k)
    IN  done[Count(i)]
BlockLoad(s, i, a, pc) ==
    LET back == IF i.wb /\ ~InList(i, i.rn) THEN Set(s, i.rn, NewBase(s, i)) ELSE s
        done == LoadedWords(back, i, a)
    IN  IF InList(i, 15) THEN Leave(done, "redispatch", done.r[15] - (done.r[15] % 2))
        ELSE AlertBreak(done, pc + Width(i))
\* STM of the base: the old value only when it is the lowest register.
Listed(t, i, k, pc) ==
    CASE i.list[k] = 15 -> pc + 12
      [] i.list[k] = i.rn /\ i.wb /\ i.rn # i.list[1] /\ i.rn # 15 /\ i.set = "arm" -> NewBase(t, i)
      [] OTHER -> t.r[i.list[k]]
StoreWord(t, i, a, k, pc, fast) == ExecuteStore(t, Word(a, k), 4, Listed(t, i, k, pc), TRUE, fast)
StoredWords(s, i, a, pc, fast) ==
    LET done[k \in 0 .. Count(i)] == IF k = 0 THEN s ELSE StoreWord(done[k - 1], i, a, k, pc, fast)
    IN  done[Count(i)]
BlockStore(s, i, a, pc, fast) ==
    LET done == StoredWords(s, i, a, pc, fast)
    IN  AlertBreak(IF i.wb THEN Set(done, i.rn, NewBase(s, i)) ELSE done, pc + Width(i))
Swap(s, i, pc, fast) ==
    LET a == s.r[i.rn]
        t == ExecuteStore(ExecuteLoad(s, i.kind, a, FALSE), a, SizeOf(i.kind), s.r[i.rm], FALSE, fast)
    IN  AlertBreak(Set(t, i.rd, Loaded(s, i.kind, a)), pc + Width(i))

Helper(s, i, pc, fast) ==
    CASE i.k = "single" /\ i.load -> SingleLoad(s, i, pc, AddressOf(s, i, pc))
      [] i.k = "single" /\ ~i.load -> SingleStore(s, i, pc, AddressOf(s, i, pc), fast)
      [] i.k = "block" /\ i.load -> BlockLoad(s, i, FirstOf(s, i), pc)
      [] i.k = "block" /\ ~i.load -> BlockStore(s, i, FirstOf(s, i), pc, fast)
      [] OTHER -> Swap(s, i, pc, fast)
=============================================================================
