---------------------------- MODULE FastMem_proofs ----------------------------
(***************************************************************************)
(* What TLC checks of the native memory paths at the boundaries of every   *)
(* region, proved for every register file, address, register list, memory, *)
(* state of the page map and number of accesses.                           *)
(***************************************************************************)
EXTENDS FastMem, WellFoundedInduction, TLAPS

Byte == 0 .. 255
Alerts == {"irq", "smc", "timing", "dma", "halt"}
\* Machines a path can leave, and pass through within one instruction.
State == [r : [Register -> Int32], pages : [0 .. RomPages - 1 -> {"mapped", "odd", "null"}],
          mem : [Cells -> Byte], code : SUBSET (Cells \X Byte), dirty : BOOLEAN, oam : BOOLEAN, dma : BOOLEAN,
          masked : BOOLEAN, alert : SUBSET Alerts, cyc : Int, to : {"next", "redispatch", "scheduler"}]
Spans == {1, 2, 4}

-----------------------------------------------------------------------------
(* Bytes and numbers.                                                      *)

LEMMA BytesType ==
  ASSUME NEW v \in Int, NEW n \in Spans
  PROVE  Bytes(v, n) \in [1 .. n -> Byte]
<1>1. ASSUME NEW k \in 1 .. n PROVE (v \div <<1, 256, 65536, 16777216>>[k]) % 256 \in Byte
  <2>1. k = 1 \/ k = 2 \/ k = 3 \/ k = 4
    BY SMT DEF Spans
  <2> QED
    BY SMT, <2>1 DEF Byte
<1> QED
  BY SMT, <1>1 DEF Bytes

\* The bounds of Int32, as inequalities: a range with a large end is of no use
\* to the provers.
LEMMA Int32Is ==
  ASSUME NEW x
  PROVE  x \in Int32 <=> x \in Int /\ -2147483648 <= x /\ x <= 2147483647
<1>1. /\ MinInt \in Int /\ MinInt <= -2147483648 /\ -2147483648 <= MinInt
      /\ MaxInt \in Int /\ 2147483647 <= MaxInt /\ MaxInt <= 2147483647
  BY SMT DEF MinInt, MaxInt
<1> QED
  BY SMT, <1>1 DEF Int32

Halfword(x) == x \in Int /\ 0 <= x /\ x <= 65535

LEMMA HalfType ==
  ASSUME NEW x \in Byte, NEW y \in Byte
  PROVE  Halfword(x + 256 * y)
BY SMT DEF Byte, Halfword

LEMMA SignedType ==
  ASSUME NEW x
  PROVE  /\ x \in Byte => Signed(x, 256) \in Int32
         /\ Halfword(x) => Signed(x, 65536) \in Int32
         /\ Halfword(x) => /\ Signed(x, 65536) \in Int
                            /\ -32768 <= Signed(x, 65536) /\ Signed(x, 65536) <= 32767
BY SMT, Int32Is DEF Signed, Byte, Halfword

LEMMA WholeType ==
  ASSUME NEW b, b[1] \in Byte, b[2] \in Byte, b[3] \in Byte, b[4] \in Byte
  PROVE  Halfword(Half(b)) /\ Halfword(Upper(b)) /\ Whole(b) \in Int32
<1>1. Halfword(Half(b)) /\ Halfword(Upper(b))
  BY SMT, HalfType DEF Half, Upper
<1>2. Signed(Upper(b), 65536) \in Int /\ -32768 <= Signed(Upper(b), 65536) /\ Signed(Upper(b), 65536) <= 32767
  BY <1>1, SignedType, SMT
<1> QED
  BY SMT, Int32Is, <1>1, <1>2 DEF Whole, Halfword

LEMMA MaskedType ==
  ASSUME NEW a \in Int, NEW n \in {2, 4, PageBytes}
  PROVE  /\ Masked(a, n) \in Int /\ Masked(a, n) % n = 0
         /\ Masked(a, n) <= a /\ a < Masked(a, n) + n
BY SMT DEF Masked, PageBytes, Kib

-----------------------------------------------------------------------------
(* One change to a machine.                                                *)

LEMMA SetType ==
  ASSUME NEW s \in State, NEW n \in Register, NEW v \in Int32
  PROVE  /\ Set(s, n, v) \in State
         /\ Set(s, n, v).r = [s.r EXCEPT ![n] = v]
         /\ Set(s, n, v).mem = s.mem /\ Set(s, n, v).pages = s.pages /\ Set(s, n, v).code = s.code
         /\ Set(s, n, v).alert = s.alert /\ Set(s, n, v).cyc = s.cyc
BY SMT DEF Set, State

PutCells(s, c, n, v) ==
  [d \in Cells |-> IF d[1] = c[1] /\ d[2] - c[2] \in 0 .. n - 1 THEN Bytes(v, n)[d[2] - c[2] + 1] ELSE s.mem[d]]
LEMMA PutIs ==
  ASSUME NEW s \in State, NEW c, NEW n \in Spans, NEW v \in Int
  PROVE  /\ Put(s, c, n, v) \in State
         /\ Put(s, c, n, v) = [s EXCEPT !.mem = PutCells(s, c, n, v)]
<1> DEFINE m == PutCells(s, c, n, v)
<1>1. Put(s, c, n, v) = [s EXCEPT !.mem = m]
  <2>1. DOMAIN s.mem = Cells
    BY SMT DEF State
  <2> QED
    BY <2>1 DEF Put, PutCells
<1>2. m \in [Cells -> Byte]
  <2>1. ASSUME NEW d \in Cells, d[2] - c[2] \in 0 .. n - 1
        PROVE  Bytes(v, n)[d[2] - c[2] + 1] \in Byte
    <3>1. PICK x \in 0 .. n - 1 : x = d[2] - c[2]
      BY SMT, <2>1
    <3>2. x + 1 \in 1 .. n
      BY SMT, <3>1 DEF Spans
    <3>3. Bytes(v, n) \in [1 .. n -> Byte]
      BY BytesType
    <3>4. Bytes(v, n)[x + 1] \in Byte
      BY <3>2, <3>3
    <3> QED
      BY <3>1, <3>4
  <2>2. \A d \in Cells : s.mem[d] \in Byte
    BY SMT DEF State
  <2> QED
    BY SMT, <2>1, <2>2 DEF PutCells
<1>3. [s EXCEPT !.mem = m] \in State
  <2> HIDE DEF m
  <2> QED
    BY SMT, <1>2 DEF State
<1> QED
  BY <1>1, <1>3

LEMMA PutType ==
  ASSUME NEW s \in State, NEW c, NEW n \in Spans, NEW v \in Int
  PROVE  /\ Put(s, c, n, v) \in State
         /\ Put(s, c, n, v).r = s.r /\ Put(s, c, n, v).pages = s.pages /\ Put(s, c, n, v).code = s.code
         /\ Put(s, c, n, v).alert = s.alert /\ Put(s, c, n, v).cyc = s.cyc
<1>1. PICK m : Put(s, c, n, v) = [s EXCEPT !.mem = m]
  BY PutIs
<1>2. Put(s, c, n, v) \in State
  BY PutIs
<1>3. /\ [s EXCEPT !.mem = m].r = s.r /\ [s EXCEPT !.mem = m].pages = s.pages /\ [s EXCEPT !.mem = m].code = s.code
      /\ [s EXCEPT !.mem = m].alert = s.alert /\ [s EXCEPT !.mem = m].cyc = s.cyc
  BY SMT DEF State
<1> QED
  BY <1>1, <1>2, <1>3

LEMMA PutMem ==
  ASSUME NEW s \in State, NEW c, NEW n \in Spans, NEW v \in Int, NEW d \in Cells
  PROVE  Put(s, c, n, v).mem[d] =
           IF d[1] = c[1] /\ d[2] - c[2] \in 0 .. n - 1 THEN Bytes(v, n)[d[2] - c[2] + 1] ELSE s.mem[d]
<1>1. Put(s, c, n, v) = [s EXCEPT !.mem = PutCells(s, c, n, v)]
  BY PutIs
<1>2. [s EXCEPT !.mem = PutCells(s, c, n, v)].mem = PutCells(s, c, n, v)
  BY SMT DEF State
<1> QED
  BY <1>1, <1>2 DEF PutCells

-----------------------------------------------------------------------------
(* What a step within one instruction keeps: registers, pages and cycles,  *)
(* and all of RAM unless it drops the blocks translated from it.           *)

RamKept(s, t) ==
  t.code = {} \/ (t.code = s.code /\ \A d \in Cells : d[1] \in {"iwram", "ewram"} => t.mem[d] = s.mem[d])
Kept(s, t) ==
  /\ t \in State /\ t.r = s.r /\ t.pages = s.pages /\ t.cyc = s.cyc
  /\ s.alert \subseteq t.alert /\ RamKept(s, t)

LEMMA KeptTrans ==
  ASSUME NEW s, NEW t, NEW u, Kept(s, t), Kept(t, u)
  PROVE  Kept(s, u)
BY DEF Kept, RamKept

LEMMA KeptSelf ==
  ASSUME NEW s \in State
  PROVE  Kept(s, s)
BY DEF Kept, RamKept

LEMMA KeptPut ==
  ASSUME NEW s \in State, NEW c, NEW n \in Spans, NEW v \in Int, c[1] \notin {"iwram", "ewram"}
  PROVE  Kept(s, Put(s, c, n, v))
<1>1. ASSUME NEW d \in Cells, d[1] \in {"iwram", "ewram"} PROVE Put(s, c, n, v).mem[d] = s.mem[d]
  <2>1. d[1] # c[1]
    BY <1>1
  <2> QED
    BY <2>1, PutMem
<1>2. /\ Put(s, c, n, v) \in State /\ Put(s, c, n, v).r = s.r /\ Put(s, c, n, v).pages = s.pages
      /\ Put(s, c, n, v).code = s.code /\ Put(s, c, n, v).alert = s.alert /\ Put(s, c, n, v).cyc = s.cyc
  BY PutType
<1> QED
  BY <1>1, <1>2 DEF Kept, RamKept

LEMMA KeptRaise ==
  ASSUME NEW s \in State, NEW x \in Alerts
  PROVE  /\ Kept(s, Raise(s, x)) /\ Raise(s, x).mem = s.mem
         /\ Raise(s, x).alert = s.alert \cup {x}
<1>1. s.alert \cup {x} \in SUBSET Alerts
  BY SMT DEF State
<1>2. Raise(s, x) = [s EXCEPT !.alert = s.alert \cup {x}]
  BY DEF Raise
<1>3. [s EXCEPT !.alert = s.alert \cup {x}] \in State
  BY <1>1, SMT DEF State
<1>4. [s EXCEPT !.alert = s.alert \cup {x}].alert = s.alert \cup {x}
  BY SMT DEF State
<1>5. /\ [s EXCEPT !.alert = s.alert \cup {x}].r = s.r /\ [s EXCEPT !.alert = s.alert \cup {x}].pages = s.pages
      /\ [s EXCEPT !.alert = s.alert \cup {x}].cyc = s.cyc /\ [s EXCEPT !.alert = s.alert \cup {x}].mem = s.mem
      /\ [s EXCEPT !.alert = s.alert \cup {x}].code = s.code
  BY SMT DEF State
<1> QED
  BY <1>2, <1>3, <1>4, <1>5 DEF Kept, RamKept

LEMMA KeptFlags ==
  ASSUME NEW s \in State, NEW b \in BOOLEAN
  PROVE  /\ Kept(s, [s EXCEPT !.dirty = b]) /\ Kept(s, [s EXCEPT !.oam = b]) /\ Kept(s, [s EXCEPT !.dma = b])
         /\ [s EXCEPT !.dirty = b].mem = s.mem /\ [s EXCEPT !.oam = b].mem = s.mem /\ [s EXCEPT !.dma = b].mem = s.mem
         /\ [s EXCEPT !.dirty = b].alert = s.alert /\ [s EXCEPT !.oam = b].alert = s.alert
         /\ [s EXCEPT !.dma = b].alert = s.alert
BY SMT DEF State, Kept, RamKept

LEMMA KeptFlushed ==
  ASSUME NEW s \in State
  PROVE  Kept(s, Flushed(s)) /\ Flushed(s).code = {} /\ Flushed(s).alert = s.alert
<1> DEFINE m == [c \in Cells |-> IF (c[1] = "iwram" /\ c[2] < PageBytes) \/ (c[1] = "ewram" /\ c[2] >= 256 * Kib)
                                THEN 0 ELSE s.mem[c]]
<1>1. Flushed(s) = [s EXCEPT !.code = {}, !.mem = m]
  <2>1. DOMAIN s.mem = Cells
    BY SMT DEF State
  <2> QED
    BY <2>1 DEF Flushed
<1>2. m \in [Cells -> Byte]
  <2>1. \A d \in Cells : s.mem[d] \in Byte
    BY SMT DEF State
  <2>2. 0 \in Byte
    BY SMT DEF Byte
  <2> QED
    BY <2>1, <2>2
<1> HIDE DEF m
<1> DEFINE t == [s EXCEPT !.code = {}]
<1>3. t \in State /\ t.r = s.r /\ t.pages = s.pages /\ t.cyc = s.cyc /\ t.alert = s.alert /\ t.code = {}
  BY SMT DEF State
<1>4. [t EXCEPT !.mem = m] = [s EXCEPT !.code = {}, !.mem = m]
  OBVIOUS
<1> HIDE DEF t
<1>5. /\ [t EXCEPT !.mem = m] \in State /\ [t EXCEPT !.mem = m].r = t.r
      /\ [t EXCEPT !.mem = m].pages = t.pages /\ [t EXCEPT !.mem = m].cyc = t.cyc
      /\ [t EXCEPT !.mem = m].alert = t.alert /\ [t EXCEPT !.mem = m].code = t.code
  BY <1>2, <1>3, SMT DEF State
<1> QED
  BY <1>1, <1>3, <1>4, <1>5 DEF Kept, RamKept

-----------------------------------------------------------------------------
(* Addresses.                                                              *)

LEMMA RegionType ==
  ASSUME NEW a \in Int
  PROVE  Region(a) \in Nat
BY SMT DEF Region

\* A word lies in one region, and its offsets follow each other.
Follows(a, k) ==
  /\ Region(a + k) = Region(a)
  /\ (a + k) % Kib = (a % Kib) + k /\ (a + k) % PageBytes = (a % PageBytes) + k
  /\ (a + k) % (128 * Kib) = (a % (128 * Kib)) + k /\ (a + k) % (256 * Kib) = (a % (256 * Kib)) + k
  /\ IoOffset(a + k) = IoOffset(a) + k /\ RomOffset(a + k) = RomOffset(a) + k
LEMMA SameWord ==
  ASSUME NEW a \in Int, NEW k \in Nat, (a % 4) + k <= 3
  PROVE  Follows(a, k)
BY SMT DEF Region, Follows, Kib, PageBytes, RomOffset, IoOffset

LEMMA PlaceStep ==
  ASSUME NEW a \in Int, NEW k \in Nat, (a % 4) + k <= 3
  PROVE  /\ Place(a + k) = <<Place(a)[1], Place(a)[2] + k>>
         /\ Tag(a + k) = <<Tag(a)[1], Tag(a)[2] + k>>
<1>1. Region(a + k) = Region(a) /\ (a + k) % Kib = (a % Kib) + k /\ (a + k) % PageBytes = (a % PageBytes) + k
      /\ (a + k) % (256 * Kib) = (a % (256 * Kib)) + k /\ (a + k) % (128 * Kib) = (a % (128 * Kib)) + k
  <2>1. Follows(a, k)
    BY SameWord
  <2> QED
    BY <2>1, SMT DEF Follows
<1>2. Fold((a + k) % (128 * Kib)) = Fold(a % (128 * Kib)) + k
  BY <1>1, SMT DEF Fold, Kib, PageBytes
<1>3. a % Kib \in Int /\ a % PageBytes \in Int /\ a % (256 * Kib) \in Int /\ PageBytes \in Int /\ 256 * Kib \in Int
  BY SMT DEF Kib, PageBytes
<1>4. Tag(a + k) = <<Tag(a)[1], Tag(a)[2] + k>>
  BY <1>1, <1>3, SMT DEF Tag
<1>5. Place(a + k) = <<Place(a)[1], Place(a)[2] + k>>
  BY <1>1, <1>2, <1>3, SMT DEF Place
<1> QED
  BY <1>4, <1>5

-----------------------------------------------------------------------------
(* Reads.                                                                  *)

LEMMA InWord ==
  ASSUME NEW a \in Int, NEW n \in Spans, NEW k \in 1 .. n
  PROVE  /\ Masked(a, n) \in Int /\ Masked(a, n) + (k - 1) \in Around(a)
         /\ k - 1 \in Nat /\ (Masked(a, n) % 4) + (k - 1) <= 3
         /\ Region(Masked(a, n)) = Region(a) /\ Masked(a, 1) = a
<1>1. n = 1 \/ n = 2 \/ n = 4
  BY DEF Spans
<1> QED
  BY <1>1, SMT DEF Masked, Around, Region

\* The cells of an access the instance holds.
LEMMA HeldCells ==
  ASSUME NEW a \in Int, Held(a), NEW n \in Spans, NEW k \in 1 .. n
  PROVE  /\ Region(a) \in 2 .. 7 =>
              <<Place(Masked(a, n))[1], Place(Masked(a, n))[2] + (k - 1)>> \in Cells
         /\ Region(a) \in {2, 3} =>
              <<Tag(Masked(a, n))[1], Tag(Masked(a, n))[2] + (k - 1)>> \in Cells
<1> DEFINE b == Masked(a, n) + (k - 1)
<1>1. b \in Around(a)
  BY InWord
<1>2. /\ Place(b) = <<Place(Masked(a, n))[1], Place(Masked(a, n))[2] + (k - 1)>>
      /\ Tag(b) = <<Tag(Masked(a, n))[1], Tag(Masked(a, n))[2] + (k - 1)>>
  BY InWord, PlaceStep
<1>3. Region(a) \in 2 .. 7 => Place(b) \in Cells
  BY <1>1 DEF Held
<1>4. Region(a) \in {2, 3} => Tag(b) \in Cells
  BY <1>1 DEF Held
<1> QED
  BY <1>2, <1>3, <1>4

LEMMA PlaceType ==
  ASSUME NEW a \in Int
  PROVE  /\ Place(a)[2] \in Int /\ Tag(a)[2] \in Int
         /\ Place(a)[1] \in {"iwram", "ewram", "vram", "pal", "oam", "io"}
BY SMT DEF Place, Tag, Kib, PageBytes, Fold

LEMMA RomByteType ==
  ASSUME NEW o \in Int
  PROVE  RomByte(o) \in Byte
BY SMT DEF RomByte, Byte

LEMMA HostType ==
  ASSUME NEW s \in State, NEW area, NEW o \in Int, NEW n \in Spans,
         area \in {"rom", "bios"} \/ \A k \in 1 .. n : <<area, o + (k - 1)>> \in Cells
  PROVE  Host(s, <<area, o>>, n) \in [1 .. n -> Byte]
<1>1. ASSUME NEW k \in 1 .. n
      PROVE  HostByte(s, <<area, o + k - 1>>) \in Byte
  <2>1. k \in Int /\ o + k - 1 \in Int /\ o + k - 1 = o + (k - 1)
    BY SMT DEF Spans
  <2>2. CASE area = "rom"
    BY <2>1, <2>2, RomByteType DEF HostByte
  <2>3. CASE area = "bios"
    <3>1. 17 \in Byte
      BY SMT DEF Byte
    <3> QED
      BY <2>3, <3>1 DEF HostByte
  <2>4. CASE area \notin {"rom", "bios"}
    <3>1. <<area, o + k - 1>> \in Cells
      BY <2>1, <2>4
    <3>2. s.mem[<<area, o + k - 1>>] \in Byte
      BY <3>1, SMT DEF State
    <3> QED
      BY <2>4, <3>2 DEF HostByte
  <2> QED
    BY <2>2, <2>3, <2>4
<1> QED
  BY <1>1 DEF Host

LEMMA HostHalfType ==
  ASSUME NEW s \in State, NEW area, NEW o \in Int, <<area, o>> \in Cells, <<area, o + 1>> \in Cells
  PROVE  HostHalf(s, area, o) \in Int /\ Halfword(HostHalf(s, area, o))
<1>1. \A k \in 1 .. 2 : <<area, o + (k - 1)>> \in Cells
  <2>1. ASSUME NEW k \in 1 .. 2 PROVE <<area, o + (k - 1)>> \in Cells
    <3>1. (k - 1 = 0 /\ o + (k - 1) = o) \/ o + (k - 1) = o + 1
      BY SMT
    <3> QED
      BY <3>1
  <2> QED
    BY <2>1
<1>2. Host(s, <<area, o>>, 2) \in [1 .. 2 -> Byte]
  BY <1>1, HostType DEF Spans
<1>3. Host(s, <<area, o>>, 2)[1] \in Byte /\ Host(s, <<area, o>>, 2)[2] \in Byte
  BY <1>2, SMT
<1> QED
  BY <1>3, HalfType DEF HostHalf, Half, Halfword

LEMMA ReadType ==
  ASSUME NEW s \in State, NEW a \in Int, Held(a), NEW n \in Spans
  PROVE  Read(s, Masked(a, n), n) \in [1 .. n -> Byte]
<1> DEFINE b == Masked(a, n)
<1>0. b \in Int /\ Region(b) = Region(a)
  <2>1. 1 \in 1 .. n
    BY SMT DEF Spans
  <2> QED
    BY <2>1, InWord
<1> SUFFICES Read(s, b, n) \in [1 .. n -> Byte]
  OBVIOUS
<1> HIDE DEF b
<1>1. CASE Region(b) \in 2 .. 7
  <2>1. \A k \in 1 .. n : <<Place(b)[1], Place(b)[2] + (k - 1)>> \in Cells
    BY <1>0, <1>1, HeldCells DEF b
  <2>2. Place(b) = <<Place(b)[1], Place(b)[2]>>
    BY DEF Place
  <2>3. Host(s, <<Place(b)[1], Place(b)[2]>>, n) \in [1 .. n -> Byte]
    BY <1>0, <2>1, HostType, PlaceType
  <2>4. Host(s, Place(b), n) \in [1 .. n -> Byte]
    BY <2>2, <2>3, Zenon
  <2>5. ~RomRead(b) /\ Region(b) \notin 8 .. 12
    BY <1>1, SMT DEF RomRead
  <2> QED
    BY <1>1, <2>4, <2>5 DEF Read
<1>2. CASE RomRead(b)
  <2>1. Region(b) \notin 2 .. 7
    BY <1>2, SMT DEF RomRead
  <2>2. RomOffset(b) \in Int
    BY <1>0, SMT DEF RomOffset
  <2>3. Host(s, <<"rom", RomOffset(b)>>, n) \in [1 .. n -> Byte]
    BY <2>2, HostType
  <2> QED
    BY <1>2, <2>1, <2>3 DEF Read
<1>3. CASE Region(b) \in 8 .. 12 /\ ~RomRead(b)
  <2>1. Region(b) \notin 2 .. 7
    BY <1>3, SMT
  <2>2. ASSUME NEW k \in 1 .. n PROVE Bytes((b + k - 1) \div 2, 2)[1 + ((b + k - 1) % 2)] \in Byte
    <3>1. (b + k - 1) \div 2 \in Int /\ 1 + ((b + k - 1) % 2) \in 1 .. 2
      BY <1>0, SMT DEF Spans
    <3>2. Bytes((b + k - 1) \div 2, 2) \in [1 .. 2 -> Byte]
      BY <3>1, BytesType DEF Spans
    <3> QED
      BY <3>1, <3>2
  <2>3. [k \in 1 .. n |-> Bytes((b + k - 1) \div 2, 2)[1 + ((b + k - 1) % 2)]] \in [1 .. n -> Byte]
    BY <2>2
  <2> QED
    BY <1>3, <2>1, <2>3 DEF Read
<1>4. CASE Region(b) \notin 2 .. 7 /\ ~RomRead(b) /\ Region(b) \notin 8 .. 12
  <2>1. 170 \in Byte
    BY SMT DEF Byte
  <2> QED
    BY <1>4, <2>1 DEF Read
<1> QED
  BY <1>1, <1>2, <1>3, <1>4 DEF b

LEMMA LoadedType ==
  ASSUME NEW s \in State, NEW kind \in {"W", "B", "UH", "SH", "SB"}, NEW a \in Int, Held(a)
  PROVE  Loaded(s, kind, a) \in Int32
<1>1. /\ Read(s, Masked(a, 4), 4) \in [1 .. 4 -> Byte] /\ Read(s, Masked(a, 2), 2) \in [1 .. 2 -> Byte]
      /\ Read(s, a, 1) \in [1 .. 1 -> Byte]
  <2>1. Masked(a, 1) = a
    BY SMT DEF Masked
  <2> QED
    BY <2>1, ReadType DEF Spans
<1>2. Read(s, a, 1)[1] \in Byte
  BY <1>1, SMT
<1>3. \A x \in Byte : x \in Int32
  BY Int32Is, SMT DEF Byte
<1>4. CASE kind = "W"
  <2> DEFINE b == Read(s, Masked(a, 4), 4)
             q == [k \in 1 .. 4 |-> b[1 + ((k - 1 + (a % 4)) % 4)]]
  <2>1. ASSUME NEW k \in 1 .. 4 PROVE b[1 + ((k - 1 + (a % 4)) % 4)] \in Byte
    <3>1. 1 + ((k - 1 + (a % 4)) % 4) \in 1 .. 4
      BY SMT
    <3> QED
      BY <1>1, <3>1
  <2>2. q[1] \in Byte /\ q[2] \in Byte /\ q[3] \in Byte /\ q[4] \in Byte
    <3> HIDE DEF b
    <3> QED
      BY <2>1, SMT
  <2>3. Whole(q) \in Int32
    <3> HIDE DEF q
    <3> QED
      BY <2>2, WholeType
  <2> QED
    BY <1>4, <2>3 DEF Loaded
<1>5. CASE kind = "UH"
  <2> DEFINE b == Read(s, Masked(a, 2), 2)
  <2>1. b[1] \in Byte /\ b[2] \in Byte /\ 0 \in Byte
    BY <1>1, SMT DEF Byte
  <2> HIDE DEF b
  <2>2. Whole(<<b[2], 0, 0, b[1]>>) \in Int32
    BY <2>1, WholeType
  <2>3. Half(b) \in Int32
    BY <2>1, HalfType, Int32Is, SMT DEF Half, Halfword
  <2> QED
    BY <1>5, <2>2, <2>3 DEF Loaded, b
<1>6. CASE kind = "SH"
  <2>1. a % 2 = 1 => Signed(Read(s, a, 1)[1], 256) \in Int32
    BY <1>2, SignedType
  <2>2. ASSUME a % 2 # 1 PROVE Signed(Half(Read(s, a, 2)), 65536) \in Int32
    <3>1. Masked(a, 2) = a
      BY <2>2, SMT DEF Masked
    <3>2. Read(s, a, 2)[1] \in Byte /\ Read(s, a, 2)[2] \in Byte
      BY <1>1, <3>1, SMT
    <3>3. Halfword(Half(Read(s, a, 2)))
      BY <3>2, HalfType DEF Half
    <3> QED
      BY <3>3, SignedType, SMT
  <2> QED
    BY <1>6, <2>1, <2>2, SMT DEF Loaded
<1>7. CASE kind = "SB"
  <2>1. Signed(Read(s, a, 1)[1], 256) \in Int32
    BY <1>2, SignedType
  <2> QED
    BY <1>7, <2>1 DEF Loaded
<1>8. CASE kind = "B"
  BY <1>2, <1>3, <1>8 DEF Loaded
<1> QED
  BY <1>4, <1>5, <1>6, <1>7, <1>8

-----------------------------------------------------------------------------
(* Charges, fills, and the stores of the registers.                        *)

LEMMA ChargedType ==
  ASSUME NEW s \in State, NEW x \in Int
  PROVE  /\ Charged(s, x) \in State /\ Charged(s, x) = [s EXCEPT !.cyc = s.cyc + x]
         /\ Charged(s, x).r = s.r /\ Charged(s, x).mem = s.mem /\ Charged(s, x).pages = s.pages
         /\ Charged(s, x).code = s.code /\ Charged(s, x).alert = s.alert /\ Charged(s, x).cyc = s.cyc + x
BY SMT DEF Charged, State

\* What an access to region Region(a) costs.
CostOf(seq, a, size) ==
  IF Region(a) > 15 THEN 0
  ELSE (IF seq THEN SeqCost ELSE NseqCost)[2 * Region(a) + (IF size = 4 THEN 1 ELSE 0)]
LEMMA CostType ==
  ASSUME NEW a \in Int, NEW seq \in BOOLEAN, NEW size
  PROVE  CostOf(seq, a, size) \in Int
<1>1. SeqCost \in [0 .. 31 -> Int] /\ NseqCost \in [0 .. 31 -> Int]
  BY WaitStates
<1>2. Region(a) <= 15 => 2 * Region(a) + (IF size = 4 THEN 1 ELSE 0) \in 0 .. 31
  BY RegionType, SMT
<1> QED
  BY <1>1, <1>2, RegionType, SMT DEF CostOf

LEMMA ChargeType ==
  ASSUME NEW s \in State, NEW a \in Int, NEW seq \in BOOLEAN, NEW size
  PROVE  /\ Charge(s, seq, a, size) = Charged(s, CostOf(seq, a, size))
         /\ Charge(s, seq, a, size) \in State
         /\ Charge(s, seq, a, size).r = s.r /\ Charge(s, seq, a, size).mem = s.mem
         /\ Charge(s, seq, a, size).pages = s.pages /\ Charge(s, seq, a, size).code = s.code
         /\ Charge(s, seq, a, size).alert = s.alert
         /\ Charge(s, seq, a, size).cyc = s.cyc + CostOf(seq, a, size)
<1>1. Charge(s, seq, a, size) = Charged(s, CostOf(seq, a, size))
  <2>1. CASE Region(a) > 15
    <3>1. Charged(s, 0) = s
      BY SMT DEF Charged, State
    <3> QED
      BY <2>1, <3>1 DEF Charge, CostOf
  <2>2. CASE ~(Region(a) > 15)
    BY <2>2 DEF Charge, CostOf
  <2> QED
    BY <2>1, <2>2
<1>2. CostOf(seq, a, size) \in Int
  BY CostType
<1> QED
  BY <1>1, <1>2, ChargedType

LEMMA FilledType ==
  ASSUME NEW s \in State, NEW a \in Int
  PROVE  /\ Filled(s, a) \in State
         /\ Filled(s, a).r = s.r /\ Filled(s, a).mem = s.mem /\ Filled(s, a).code = s.code
         /\ Filled(s, a).alert = s.alert /\ Filled(s, a).cyc = s.cyc
<1>1. PageOf(a) \in 0 .. RomPages - 1
  BY ImageSize, SMT DEF PageOf, RomOffset, PageBytes, Kib
<1> DEFINE p == [s.pages EXCEPT ![PageOf(a)] = "mapped"]
<1>2. p \in [0 .. RomPages - 1 -> {"mapped", "odd", "null"}]
  BY <1>1, SMT DEF State
<1>3. Filled(s, a) \in {s, [s EXCEPT !.pages = p]}
  BY DEF Filled
<1> HIDE DEF p
<1>4. LET t == [s EXCEPT !.pages = p]
      IN  t \in State /\ t.r = s.r /\ t.mem = s.mem /\ t.code = s.code /\ t.alert = s.alert /\ t.cyc = s.cyc
  BY <1>2, SMT DEF State
<1> QED
  BY <1>3, <1>4

LEMMA ExecuteLoadType ==
  ASSUME NEW s \in State, NEW kind, NEW a \in Int, NEW seq \in BOOLEAN
  PROVE  /\ ExecuteLoad(s, kind, a, seq) \in State
         /\ ExecuteLoad(s, kind, a, seq).r = s.r /\ ExecuteLoad(s, kind, a, seq).mem = s.mem
         /\ ExecuteLoad(s, kind, a, seq).code = s.code /\ ExecuteLoad(s, kind, a, seq).alert = s.alert
<1> DEFINE t == Charge(s, seq, a, SizeOf(kind))
<1>1. t \in State /\ t.r = s.r /\ t.mem = s.mem /\ t.code = s.code /\ t.alert = s.alert
  BY ChargeType
<1> HIDE DEF t
<1>2. Filled(t, a) \in State /\ Filled(t, a).r = t.r /\ Filled(t, a).mem = t.mem /\ Filled(t, a).code = t.code
      /\ Filled(t, a).alert = t.alert
  BY <1>1, FilledType
<1>3. ExecuteLoad(s, kind, a, seq) = Filled(t, a)
  BY DEF ExecuteLoad, t
<1> QED
  BY <1>1, <1>2, <1>3

LEMMA CommonType ==
  ASSUME NEW x \in Int, NEW y \in Int
  PROVE  Common(x, y) \in Int /\ Cleared(x, y) \in Int
<1>1. ASSUME NEW b \in Nat PROVE Bit(x, y, b) \in Int
  BY SMT DEF Bit
<1>2. ASSUME NEW b \in Nat PROVE Nibble(x, y, b) \in Int
  <2>1. b \in Nat /\ 2 * b \in Nat /\ 4 * b \in Nat /\ 8 * b \in Nat
    BY SMT
  <2> QED
    BY <1>1, <2>1, SMT DEF Nibble
<1>3. 1 \in Nat /\ 16 \in Nat /\ 256 \in Nat /\ 4096 \in Nat
  BY SMT
<1> QED
  BY <1>2, <1>3, SMT DEF Common, Cleared

LEMMA KeptChecked ==
  ASSUME NEW s \in State
  PROVE  Kept(s, Checked(s)) /\ Checked(s) \in {s, Raise(s, "irq")}
<1>1. Kept(s, s) /\ Kept(s, Raise(s, "irq"))
  BY KeptSelf, KeptRaise DEF Alerts
<1> QED
  BY <1>1 DEF Checked

LEMMA KeptConverted ==
  ASSUME NEW s \in State, NEW o \in Int, <<"pal", o>> \in Cells, <<"pal", o + 1>> \in Cells
  PROVE  Kept(s, Converted(s, o))
<1> DEFINE t == [s EXCEPT !.dirty = TRUE]
           v == Convert(HostHalf(s, "pal", o))
<1>1. Kept(s, t)
  BY KeptFlags
<1>2. v \in Int
  <2>1. HostHalf(s, "pal", o) \in Int
    BY HostHalfType
  <2> QED
    BY <2>1, SMT DEF Convert
<1>3. Kept(t, Put(t, <<"conv", o>>, 2, v))
  <2>1. t \in State
    BY <1>1 DEF Kept
  <2> HIDE DEF t, v
  <2> QED
    BY <1>2, <2>1, KeptPut DEF Spans
<1>4. Converted(s, o) = Put(t, <<"conv", o>>, 2, v)
  BY DEF Converted
<1> QED
  BY <1>1, <1>3, <1>4, KeptTrans

LEMMA KeptWriteIo16 ==
  ASSUME NEW s \in State, NEW o \in Int, NEW v \in Int, <<"io", o>> \in Cells, <<"io", o + 1>> \in Cells
  PROVE  Kept(s, WriteIo16(s, o, v))
<1> DEFINE put(x) == Put(s, <<"io", o>>, 2, x)
<1>1. ASSUME NEW x \in Int PROVE put(x) \in State /\ Kept(s, put(x))
  <2>1. Kept(s, Put(s, <<"io", o>>, 2, x))
    BY KeptPut DEF Spans
  <2> QED
    BY <2>1 DEF Kept
<1>2. HostHalf(s, "io", o) \in Int
  BY HostHalfType
<1> HIDE DEF put
<1>3. ASSUME NEW b \in BOOLEAN
      PROVE  Kept(s, [put(v) EXCEPT !.oam = b]) /\ Kept(s, [put(v) EXCEPT !.dma = b])
  BY <1>1, KeptFlags, KeptTrans
<1>4. CASE o = 0
  <2>1. (put(v).oam \/ v % 8 # HostHalf(s, "io", 0) % 8) \in BOOLEAN
    BY <1>1, SMT DEF State
  <2>2. WriteIo16(s, o, v) = [put(v) EXCEPT !.oam = put(v).oam \/ v % 8 # HostHalf(s, "io", 0) % 8]
    BY <1>4 DEF WriteIo16, put
  <2> QED
    BY <2>1, <2>2, <1>3
<1>5. CASE o = 4
  <2>1. (v - (v % 8)) + (HostHalf(s, "io", 4) % 8) \in Int
    BY <1>2, <1>5, SMT
  <2>2. WriteIo16(s, o, v) = put((v - (v % 8)) + (HostHalf(s, "io", 4) % 8))
    BY <1>5 DEF WriteIo16, put
  <2> QED
    BY <1>1, <2>1, <2>2
<1>6. CASE o = 514
  <2>1. Cleared(HostHalf(s, "io", 514), v) \in Int
    BY <1>2, <1>6, CommonType
  <2>2. WriteIo16(s, o, v) = put(Cleared(HostHalf(s, "io", 514), v))
    BY <1>6 DEF WriteIo16, put
  <2> QED
    BY <1>1, <2>1, <2>2
<1>7. CASE o \in {512, 520}
  <2>1. WriteIo16(s, o, v) = Checked(put(v))
    BY <1>7 DEF WriteIo16, put
  <2> QED
    BY <1>1, <2>1, KeptChecked, KeptTrans
<1>8. CASE o = 516
  <2>1. Kept(put(v), Flushed(put(v))) /\ Flushed(put(v)) \in State
    BY <1>1, KeptFlushed DEF Kept
  <2>2. Kept(Flushed(put(v)), Raise(Flushed(put(v)), "timing"))
    BY <2>1, KeptRaise DEF Alerts
  <2>3. Kept(s, Raise(Flushed(put(v)), "timing"))
    BY <1>1, <2>1, <2>2, KeptTrans
  <2>4. WriteIo16(s, o, v) \in {put(v), Raise(Flushed(put(v)), "timing")}
    BY <1>8 DEF WriteIo16, put
  <2> QED
    BY <1>1, <2>3, <2>4
<1>9. CASE o = 222
  <2> DEFINE off == [put(v) EXCEPT !.dma = FALSE]
             on == [put(v) EXCEPT !.dma = TRUE]
             over == Raise(put(v - 32768), "dma")
  <2>1. Kept(s, off) /\ Kept(s, on)
    BY <1>3
  <2>2. Kept(s, over)
    <3>1. v - 32768 \in Int
      BY SMT
    <3>2. put(v - 32768) \in State /\ Kept(s, put(v - 32768))
      BY <1>1, <3>1
    <3>3. Kept(put(v - 32768), Raise(put(v - 32768), "dma"))
      BY <3>2, KeptRaise DEF Alerts
    <3> QED
      BY <3>2, <3>3, KeptTrans
  <2>3. Kept(s, s)
    BY KeptSelf
  <2>4. WriteIo16(s, o, v) = TriggerDma(s, v)
    BY <1>9 DEF WriteIo16
  <2>5. TriggerDma(s, v) \in {off, s, over, on}
    BY <1>9, SMT DEF TriggerDma, put
  <2> HIDE DEF off, on, over
  <2>6. TriggerDma(s, v) = off \/ TriggerDma(s, v) = s \/ TriggerDma(s, v) = over \/ TriggerDma(s, v) = on
    BY <2>5
  <2> QED
    BY <2>1, <2>2, <2>3, <2>4, <2>6
<1>10. CASE o \notin {0, 4, 514, 512, 520, 516, 222}
  <2>1. WriteIo16(s, o, v) \in {put(v), s}
    BY <1>10 DEF WriteIo16, put
  <2> QED
    BY <1>1, <2>1, KeptSelf
<1> QED
  BY <1>4, <1>5, <1>6, <1>7, <1>8, <1>9, <1>10

\* The instance holds the whole word around an access.
LEMMA WordCells ==
  ASSUME NEW a \in Int, Held(a), Region(a) \in 2 .. 7, NEW x \in Int, x \div 4 = Place(a)[2] \div 4
  PROVE  <<Place(a)[1], x>> \in Cells
<1> DEFINE w == Masked(a, 4)
<1>1. w \in Int /\ w % 4 = 0 /\ a = w + (a % 4) /\ a % 4 \in Nat /\ a % 4 <= 3
  BY SMT DEF Masked
<1>2. Place(a) = <<Place(w)[1], Place(w)[2] + (a % 4)>>
  <2> HIDE DEF w
  <2>1. Place(w + (a % 4)) = <<Place(w)[1], Place(w)[2] + (a % 4)>>
    BY <1>1, PlaceStep, SMT
  <2> QED
    BY <1>1, <2>1
<1>3. Place(w)[2] \in Int /\ Place(w)[2] % 4 = 0
  BY <1>1, SMT DEF Place, Kib, PageBytes, Fold
<1>4. x - Place(w)[2] \in 0 .. 3
  <2>1. PICK p \in Int : p = Place(w)[2]
    BY <1>3
  <2>2. PICK k \in Nat : k = a % 4 /\ k <= 3
    BY <1>1
  <2>3. Place(a)[2] = p + k /\ p % 4 = 0
    BY <1>2, <1>3, <2>1, <2>2
  <2>4. x \div 4 = (p + k) \div 4
    BY <2>3
  <2>5. x - p \in 0 .. 3
    BY <2>2, <2>3, <2>4, SMT
  <2> QED
    BY <2>1, <2>5
<1>5. <<Place(w)[1], Place(w)[2] + ((x - Place(w)[2] + 1) - 1)>> \in Cells
  <2>1. (x - Place(w)[2] + 1) \in 1 .. 4
    BY <1>3, <1>4, SMT
  <2> QED
    BY <2>1, HeldCells DEF Spans
<1>6. Place(w)[2] + ((x - Place(w)[2] + 1) - 1) = x
  BY <1>3, SMT
<1> QED
  BY <1>2, <1>5, <1>6

LEMMA KeptWriteIo ==
  ASSUME NEW s \in State, NEW a \in Int, Held(a), Region(a) = 4, IoOffset(a) < Kib,
         NEW n \in Spans, a % n = 0, NEW v \in Int
  PROVE  Kept(s, WriteIo(s, a, n, v))
<1> DEFINE o == IoOffset(a)
           old == HostHalf(s, "io", o - (o % 2))
<1>1. o \in Int /\ Place(a) = <<"io", o>> /\ o % n = 0
  <2>1. n = 1 \/ n = 2 \/ n = 4
    BY DEF Spans
  <2> QED
    BY <2>1, SMT DEF Place, Kib, IoOffset
<1>2. ASSUME NEW x \in Int, x \div 4 = o \div 4 PROVE <<"io", x>> \in Cells
  <2>1. Region(a) \in 2 .. 7
    BY SMT
  <2>2. Place(a)[1] = "io" /\ Place(a)[2] = o
    BY <1>1
  <2> QED
    BY <1>2, <2>1, <2>2, WordCells
<1> HIDE DEF o
<1>3. ASSUME NEW t \in State, NEW x \in Int, x % 2 = 0, x \div 4 = o \div 4, NEW u \in Int
      PROVE  Kept(t, WriteIo16(t, x, u))
  <2>1. x + 1 \in Int /\ (x + 1) \div 4 = o \div 4
    BY <1>1, <1>3, SMT
  <2> QED
    BY <1>2, <1>3, <2>1, KeptWriteIo16
<1>4. CASE n = 2
  <2>1. WriteIo(s, a, n, v) = WriteIo16(s, o, v)
    BY <1>4 DEF WriteIo, o
  <2>2. o % 2 = 0
    BY <1>1, <1>4
  <2> QED
    BY <1>1, <1>3, <2>1, <2>2
<1>5. CASE n = 4
  <2> DEFINE t == WriteIo16(s, o, Half(Bytes(v, 4)))
  <2>1. WriteIo(s, a, n, v) = WriteIo16(t, o + 2, Upper(Bytes(v, 4)))
    BY <1>5 DEF WriteIo, o
  <2>2. Half(Bytes(v, 4)) \in Int /\ Upper(Bytes(v, 4)) \in Int
    <3>1. Bytes(v, 4) \in [1 .. 4 -> Byte]
      BY BytesType DEF Spans
    <3>2. Bytes(v, 4)[1] \in Byte /\ Bytes(v, 4)[2] \in Byte /\ Bytes(v, 4)[3] \in Byte /\ Bytes(v, 4)[4] \in Byte
      BY <3>1, SMT
    <3> QED
      BY <3>2, WholeType DEF Halfword
  <2>3. o % 2 = 0 /\ o + 2 \in Int /\ (o + 2) % 2 = 0 /\ (o + 2) \div 4 = o \div 4
    BY <1>1, <1>5, SMT
  <2>4. Kept(s, t)
    BY <1>1, <1>3, <2>2, <2>3
  <2>5. t \in State
    BY <2>4 DEF Kept
  <2>6. Kept(t, WriteIo16(t, o + 2, Upper(Bytes(v, 4))))
    <3> HIDE DEF t
    <3> QED
      BY <1>3, <2>2, <2>3, <2>5
  <2> QED
    BY <2>1, <2>4, <2>6, KeptTrans
<1>6. CASE n = 1
  <2>1. o - (o % 2) \in Int /\ (o - (o % 2)) % 2 = 0 /\ (o - (o % 2)) \div 4 = o \div 4
        /\ (o - (o % 2)) + 1 \in Int /\ ((o - (o % 2)) + 1) \div 4 = o \div 4
    BY <1>1, SMT
  <2>2. old \in Int
    BY <1>2, <2>1, HostHalfType
  <2> HIDE DEF old
  <2>3. (IF o % 2 = 1 THEN v * 256 + (old % 256) ELSE v + old - (old % 256)) \in Int
    BY <2>2, SMT
  <2>4. Kept(s, WriteIo16(s, o - (o % 2), IF o % 2 = 1 THEN v * 256 + (old % 256) ELSE v + old - (old % 256)))
    BY <1>3, <2>1, <2>3
  <2>5. Kept(s, Raise(s, "halt"))
    BY KeptRaise DEF Alerts
  <2>6. WriteIo(s, a, n, v) \in
          {Raise(s, "halt"), WriteIo16(s, o - (o % 2), IF o % 2 = 1 THEN v * 256 + (old % 256) ELSE v + old - (old % 256))}
    BY <1>6 DEF WriteIo, o, old
  <2> QED
    BY <2>4, <2>5, <2>6
<1> QED
  BY <1>4, <1>5, <1>6 DEF Spans

LEMMA EvenStep ==
  ASSUME NEW p \in Int, p % 2 = 0
  PROVE  /\ p + 1 \in Int /\ (p + 1) \div 4 = p \div 4
         /\ p % 4 = 0 => /\ p + 2 \in Int /\ (p + 2) \div 4 = p \div 4
                         /\ (p + 2) + 1 \in Int /\ ((p + 2) + 1) \div 4 = p \div 4
BY SMT

\* Every store outside RAM.
LEMMA KeptWrite ==
  ASSUME NEW s \in State, NEW a \in Int, Held(a), Region(a) \notin {2, 3},
         Region(a) = 4 => IoOffset(a) < Kib, NEW n \in Spans, a % n = 0, NEW v \in Int
  PROVE  Kept(s, Write(s, a, n, v))
<1> DEFINE at == IF n = 1 THEN <<Place(a)[1], Masked(Place(a)[2], 2)>> ELSE Place(a)
           put == Put(s, at, IF n = 1 THEN 2 ELSE n, IF n = 1 THEN 257 * v ELSE v)
<1>1. Place(a)[2] \in Int /\ Place(a) = <<Place(a)[1], Place(a)[2]>>
  <2>1. Place(a) = <<Place(a)[1], Place(a)[2]>>
    BY DEF Place
  <2> QED
    BY <2>1, PlaceType
<1>2. at[1] = Place(a)[1] /\ at[2] \in Int /\ at[2] % 2 = 0 /\ at[2] \div 4 = Place(a)[2] \div 4
      /\ (n = 4 => at[2] % 4 = 0)
  <2>1. CASE n = 1
    <3>1. Masked(Place(a)[2], 2) \in Int /\ Masked(Place(a)[2], 2) % 2 = 0
          /\ Masked(Place(a)[2], 2) \div 4 = Place(a)[2] \div 4
      BY <1>1, SMT DEF Masked
    <3> QED
      BY <2>1, <3>1
  <2>2. CASE n # 1
    <3>1. n = 2 \/ n = 4
      BY <2>2 DEF Spans
    <3>2. a % 2 = 0 /\ (n = 4 => a % 4 = 0)
      BY <3>1, SMT
    <3>3. Place(a)[2] % 2 = 0 /\ (n = 4 => Place(a)[2] % 4 = 0)
      BY <3>1, <3>2, SMT DEF Place, Kib, PageBytes, Fold
    <3> QED
      BY <1>1, <2>2, <3>3
  <2> QED
    BY <2>1, <2>2
<1>3. (IF n = 1 THEN 2 ELSE n) \in Spans /\ (IF n = 1 THEN 257 * v ELSE v) \in Int
  BY SMT DEF Spans
<1>4. ASSUME Region(a) \in {5, 6, 7} PROVE Kept(s, put)
  <2>1. Place(a)[1] \notin {"iwram", "ewram"}
    BY <1>4, SMT DEF Place
  <2> HIDE DEF at
  <2> QED
    BY <1>2, <1>3, <2>1, KeptPut
<1> HIDE DEF put, at
<1>5. CASE Region(a) = 4
  <2>1. Kept(s, WriteIo(s, a, n, v))
    BY <1>5, KeptWriteIo
  <2> QED
    BY <1>5, <2>1, SMT DEF Write
<1>6. CASE Region(a) = 5
  <2>1. ASSUME NEW x \in Int, x \div 4 = Place(a)[2] \div 4 PROVE <<"pal", x>> \in Cells
    <3>1. Place(a)[1] = "pal" /\ Region(a) \in 2 .. 7
      BY <1>6, SMT DEF Place
    <3> QED
      BY <2>1, <3>1, WordCells
  <2>2. Kept(s, put) /\ put \in State
    BY <1>4, <1>6 DEF Kept
  <2>9. PICK p \in Int : p = at[2] /\ p % 2 = 0 /\ p \div 4 = Place(a)[2] \div 4 /\ (n = 4 => p % 4 = 0)
    BY <1>2
  <2>3. at[2] + 1 \in Int /\ (at[2] + 1) \div 4 = Place(a)[2] \div 4
    <3>1. p + 1 \in Int /\ (p + 1) \div 4 = p \div 4
      BY <2>9, EvenStep
    <3> QED
      BY <2>9, <3>1
  <2>4. Kept(put, Converted(put, at[2])) /\ Converted(put, at[2]) \in State
    BY <1>2, <2>1, <2>2, <2>3, KeptConverted DEF Kept
  <2>5. ASSUME n = 4 PROVE Kept(Converted(put, at[2]), Converted(Converted(put, at[2]), at[2] + 2))
    <3>1. at[2] + 2 \in Int /\ (at[2] + 2) \div 4 = Place(a)[2] \div 4
          /\ (at[2] + 2) + 1 \in Int /\ ((at[2] + 2) + 1) \div 4 = Place(a)[2] \div 4
      <4>1. p + 2 \in Int /\ (p + 2) \div 4 = p \div 4 /\ (p + 2) + 1 \in Int /\ ((p + 2) + 1) \div 4 = p \div 4
        BY <2>5, <2>9, EvenStep
      <4> QED
        BY <2>9, <4>1
    <3> QED
      BY <2>1, <2>4, <3>1, KeptConverted
  <2>6. Kept(s, Converted(put, at[2])) /\ (n = 4 => Kept(s, Converted(Converted(put, at[2]), at[2] + 2)))
    BY <2>2, <2>4, <2>5, KeptTrans
  <2>7. Write(s, a, n, v) = IF n = 4 THEN Converted(Converted(put, at[2]), at[2] + 2) ELSE Converted(put, at[2])
    BY <1>6, SMT DEF Write, put, at
  <2> QED
    BY <2>6, <2>7
<1>7. CASE Region(a) = 6
  <2>1. Write(s, a, n, v) = put
    BY <1>7, SMT DEF Write, put, at
  <2> QED
    BY <1>4, <1>7, <2>1
<1>8. CASE Region(a) = 7
  <2>1. Kept(s, put) /\ put \in State
    BY <1>4, <1>8 DEF Kept
  <2>2. Kept(put, [put EXCEPT !.oam = TRUE])
    BY <2>1, KeptFlags
  <2>3. Write(s, a, n, v) \in {s, [put EXCEPT !.oam = TRUE]}
    BY <1>8, SMT DEF Write, put, at
  <2> QED
    BY <2>1, <2>2, <2>3, KeptTrans, KeptSelf
<1>9. CASE Region(a) \notin 2 .. 7
  <2>1. Write(s, a, n, v) = s
    BY <1>9, SMT DEF Write
  <2> QED
    BY <2>1, KeptSelf
<1> QED
  BY <1>5, <1>6, <1>7, <1>8, <1>9, RegionType, SMT

-----------------------------------------------------------------------------
(* Code in RAM.  Every byte a block was translated from is data whose tag  *)
(* is set, so a store over it raises the alert that drops the block.       *)

Fresh(s) ==
  \A b \in s.code : InData(b[1]) /\ TagFor(b[1]) \in Cells /\ s.mem[TagFor(b[1])] # 0 /\ s.mem[b[1]] = b[2]
Guarded(s) == "smc" \in s.alert \/ Fresh(s)

LEMMA CellType ==
  ASSUME NEW s \in State, NEW b \in s.code
  PROVE  /\ b[1] \in Cells /\ b[1][1] \in {"iwram", "ewram", "vram", "pal", "conv", "oam", "io"}
         /\ b[1][2] \in Int /\ b[1] = <<b[1][1], b[1][2]>>
<1>1. b \in Cells \X Byte
  BY SMT DEF State
<1>2. b[1] \in Cells
  BY <1>1
<1> QED
  BY <1>2, CellsNamed

LEMMA FreshKept ==
  ASSUME NEW s \in State, NEW t \in State, Fresh(s), RamKept(s, t)
  PROVE  Fresh(t)
<1>1. CASE t.code = {}
  BY <1>1 DEF Fresh
<1>2. CASE t.code = s.code /\ \A d \in Cells : d[1] \in {"iwram", "ewram"} => t.mem[d] = s.mem[d]
  <2> SUFFICES ASSUME NEW b \in t.code
               PROVE  InData(b[1]) /\ TagFor(b[1]) \in Cells /\ t.mem[TagFor(b[1])] # 0 /\ t.mem[b[1]] = b[2]
    BY DEF Fresh
  <2>1. InData(b[1]) /\ TagFor(b[1]) \in Cells /\ s.mem[TagFor(b[1])] # 0 /\ s.mem[b[1]] = b[2]
    BY <1>2 DEF Fresh
  <2>2. b[1] \in Cells
    BY <1>2, CellType
  <2>3. b[1][1] \in {"iwram", "ewram"}
    BY <2>1 DEF InData
  <2>4. TagFor(b[1])[1] = b[1][1]
    BY DEF TagFor
  <2> QED
    BY <1>2, <2>1, <2>2, <2>3, <2>4
<1> QED
  BY <1>1, <1>2 DEF RamKept

LEMMA TagOfPlace ==
  ASSUME NEW a \in Int, Region(a) \in {2, 3}
  PROVE  /\ TagFor(Place(a)) = Tag(a) /\ Place(a)[1] \in {"iwram", "ewram"}
         /\ Place(a) = <<Place(a)[1], Place(a)[2]>> /\ Tag(a) = <<Place(a)[1], Tag(a)[2]>>
         /\ Place(a)[2] \in Int /\ Tag(a)[2] \in Int
<1>1. PageBytes \in Int /\ 256 * Kib \in Int /\ a % PageBytes \in Int /\ a % (256 * Kib) \in Int
      /\ PageBytes + (a % PageBytes) - PageBytes = a % PageBytes
  BY SMT DEF PageBytes, Kib
<1>2. CASE Region(a) = 2
  BY <1>1, <1>2, SMT DEF Place, Tag, TagFor
<1>3. CASE Region(a) = 3
  BY <1>1, <1>3, SMT DEF Place, Tag, TagFor
<1> QED
  BY <1>2, <1>3

\* Tags are no data: a store leaves every tag alone.
LEMMA TagsApart ==
  ASSUME NEW a \in Int, Region(a) \in {2, 3}, NEW n \in Spans, a % n = 0, NEW c, InData(c), c[2] \in Int
  PROVE  TagFor(c)[1] = Place(a)[1] => TagFor(c)[2] - Place(a)[2] \notin 0 .. n - 1
<1>1. n = 1 \/ n = 2 \/ n = 4
  BY DEF Spans
<1>2. CASE Region(a) = 2
  <2>1. Place(a) = <<"ewram", a % (256 * Kib)>>
    BY <1>2, SMT DEF Place
  <2>2. (a % (256 * Kib)) + n <= 256 * Kib
    BY <1>1, SMT DEF Kib
  <2>3. ASSUME c[1] = "ewram" PROVE TagFor(c)[2] >= 256 * Kib /\ TagFor(c)[2] \in Int
    <3>1. 0 <= c[2]
      BY <2>3 DEF InData
    <3>2. TagFor(c)[2] = c[2] + 256 * Kib
      BY <2>3 DEF TagFor
    <3> QED
      BY <3>1, <3>2, SMT DEF Kib
  <2>4. TagFor(c)[1] = c[1]
    BY DEF TagFor
  <2>5. PICK m \in Int : m = a % (256 * Kib)
    BY SMT DEF Kib
  <2>6. PICK x \in Int : x = 256 * Kib
    BY SMT DEF Kib
  <2> QED
    BY <1>1, <2>1, <2>2, <2>3, <2>4, <2>5, <2>6, SMT
<1>3. CASE Region(a) = 3
  <2>1. Place(a) = <<"iwram", PageBytes + (a % PageBytes)>>
    BY <1>3, SMT DEF Place
  <2>3. ASSUME c[1] = "iwram" PROVE TagFor(c)[2] < PageBytes /\ TagFor(c)[2] \in Int
    <3>1. c[2] < 2 * PageBytes
      BY <2>3 DEF InData
    <3>2. TagFor(c)[2] = c[2] - PageBytes
      BY <2>3 DEF TagFor
    <3> QED
      BY <3>1, <3>2, SMT DEF PageBytes, Kib
  <2>4. TagFor(c)[1] = c[1]
    BY DEF TagFor
  <2>5. PICK m \in Int : m = PageBytes + (a % PageBytes) /\ m >= PageBytes
    BY SMT DEF PageBytes, Kib
  <2>6. PICK x \in Int : x = PageBytes
    BY SMT DEF PageBytes, Kib
  <2> QED
    BY <1>1, <2>1, <2>3, <2>4, <2>5, <2>6, SMT
<1> QED
  BY <1>2, <1>3

LEMMA FreshRamStore ==
  ASSUME NEW s \in State, Fresh(s), NEW a \in Int, Region(a) \in {2, 3}, NEW n \in Spans, a % n = 0, NEW v \in Int,
         \A k \in 1 .. n : Tags(Put(s, Place(a), n, v), a, n)[k] = 0
  PROVE  Fresh(Put(s, Place(a), n, v))
<1> DEFINE t == Put(s, Place(a), n, v)
<1>1. t \in State /\ t.code = s.code
  BY PutType
<1>2. \A d \in Cells : d[1] # Place(a)[1] \/ d[2] - Place(a)[2] \notin 0 .. n - 1 => t.mem[d] = s.mem[d]
  BY PutMem
<1>3. \A k \in 1 .. n : HostByte(t, <<Tag(a)[1], Tag(a)[2] + k - 1>>) = 0
  <2>1. \A k \in 1 .. n : Host(t, Tag(a), n)[k] = 0
    BY DEF Tags
  <2> HIDE DEF t
  <2> QED
    BY <2>1 DEF Host
<1> HIDE DEF t
<1> SUFFICES ASSUME NEW b \in t.code
             PROVE  InData(b[1]) /\ TagFor(b[1]) \in Cells /\ t.mem[TagFor(b[1])] # 0 /\ t.mem[b[1]] = b[2]
  BY DEF Fresh, t
<1>4. InData(b[1]) /\ TagFor(b[1]) \in Cells /\ s.mem[TagFor(b[1])] # 0 /\ s.mem[b[1]] = b[2]
  BY <1>1 DEF Fresh
<1>5. b[1] \in Cells /\ b[1][2] \in Int /\ b[1] = <<b[1][1], b[1][2]>>
  BY <1>1, CellType
<1>6. t.mem[TagFor(b[1])] = s.mem[TagFor(b[1])]
  BY <1>2, <1>4, <1>5, TagsApart
<1>7. ASSUME b[1][1] = Place(a)[1], b[1][2] - Place(a)[2] \in 0 .. n - 1 PROVE FALSE
  <2>1. PICK j \in 0 .. n - 1 : j = b[1][2] - Place(a)[2]
    BY <1>7
  <2>2. j + 1 \in 1 .. n /\ j \in Int
    BY SMT DEF Spans
  <2>3. TagFor(b[1]) = <<Tag(a)[1], Tag(a)[2] + (j + 1) - 1>>
    <3>1. b[1][2] = Place(a)[2] + j
      BY <1>5, <2>1, <2>2, TagOfPlace, SMT
    <3>2. TagFor(Place(a)) = Tag(a) /\ Tag(a)[2] \in Int /\ Place(a)[2] \in Int
      BY TagOfPlace
    <3>3. PageBytes \in Int /\ 256 * Kib \in Int
      BY SMT DEF PageBytes, Kib
    <3>4. CASE Place(a)[1] = "ewram"
      <4>1. Tag(a) = <<"ewram", Place(a)[2] + 256 * Kib>>
        BY <3>2, <3>4 DEF TagFor
      <4>2. TagFor(b[1]) = <<"ewram", b[1][2] + 256 * Kib>>
        BY <1>7, <3>4 DEF TagFor
      <4>3. b[1][2] + 256 * Kib = Place(a)[2] + 256 * Kib + (j + 1) - 1
        BY <2>2, <3>1, <3>2, <3>3, SMT
      <4> QED
        BY <4>1, <4>2, <4>3
    <3>5. CASE Place(a)[1] = "iwram"
      <4>1. Tag(a) = <<"iwram", Place(a)[2] - PageBytes>>
        BY <3>2, <3>5, SMT DEF TagFor
      <4>2. TagFor(b[1]) = <<"iwram", b[1][2] - PageBytes>>
        BY <1>7, <3>5, SMT DEF TagFor
      <4>3. b[1][2] - PageBytes = Place(a)[2] - PageBytes + (j + 1) - 1
        BY <2>2, <3>1, <3>2, <3>3, SMT
      <4> QED
        BY <4>1, <4>2, <4>3
    <3> QED
      BY <3>4, <3>5, TagOfPlace
  <2>4. HostByte(t, TagFor(b[1])) = 0
    BY <1>3, <2>2, <2>3
  <2>5. HostByte(t, TagFor(b[1])) = t.mem[TagFor(b[1])]
    <3>1. TagFor(b[1])[1] \in {"iwram", "ewram"}
      BY <2>3, TagOfPlace
    <3> QED
      BY <3>1 DEF HostByte
  <2> QED
    BY <1>4, <1>6, <2>4, <2>5
<1>8. t.mem[b[1]] = s.mem[b[1]]
  BY <1>2, <1>5, <1>7
<1> QED
  BY <1>4, <1>6, <1>8

-----------------------------------------------------------------------------
(* Stores and the end of a helper.                                         *)

\* What a store within one instruction does to a machine.
Advanced(s, t) ==
  /\ t \in State /\ t.r = s.r /\ t.pages = s.pages
  /\ s.alert \subseteq t.alert /\ (Guarded(s) => Guarded(t))

LEMMA AdvancedTrans ==
  ASSUME NEW s, NEW t, NEW u, Advanced(s, t), Advanced(t, u)
  PROVE  Advanced(s, u)
BY DEF Advanced

LEMMA KeptAdvanced ==
  ASSUME NEW s \in State, NEW t, Kept(s, t)
  PROVE  Advanced(s, t)
<1>1. t \in State /\ RamKept(s, t) /\ s.alert \subseteq t.alert
  BY DEF Kept
<1>2. Fresh(s) => Fresh(t)
  BY <1>1, FreshKept
<1> QED
  BY <1>1, <1>2 DEF Advanced, Guarded, Kept

LEMMA SmcCheckType ==
  ASSUME NEW s \in State, NEW a, NEW n
  PROVE  /\ SmcCheck(s, a, n) \in {s, Raise(s, "smc")} /\ Advanced(s, SmcCheck(s, a, n))
         /\ SmcCheck(s, a, n).cyc = s.cyc
<1>1. Kept(s, s) /\ Kept(s, Raise(s, "smc"))
  BY KeptSelf, KeptRaise DEF Alerts
<1>2. SmcCheck(s, a, n) \in {s, Raise(s, "smc")}
  BY DEF SmcCheck
<1>3. Kept(s, SmcCheck(s, a, n))
  BY <1>1, <1>2
<1> QED
  BY <1>2, <1>3, KeptAdvanced DEF Kept

LEMMA StoredType ==
  ASSUME NEW s \in State, NEW a \in Int, Held(a), Region(a) = 4 => IoOffset(a) < Kib,
         NEW n \in Spans, a % n = 0, NEW v \in Int
  PROVE  /\ Advanced(s, SmcCheck(Write(s, a, n, v), a, n))
         /\ SmcCheck(Write(s, a, n, v), a, n).cyc = s.cyc
<1> DEFINE t == Write(s, a, n, v)
<1>1. CASE Region(a) \notin {2, 3}
  <2>1. Kept(s, t)
    BY <1>1, KeptWrite
  <2>2. t \in State /\ t.cyc = s.cyc /\ Advanced(s, t)
    BY <2>1, KeptAdvanced DEF Kept
  <2> HIDE DEF t
  <2>3. Advanced(t, SmcCheck(t, a, n)) /\ SmcCheck(t, a, n).cyc = t.cyc
    BY <2>2, SmcCheckType
  <2>4. Advanced(s, SmcCheck(t, a, n)) /\ SmcCheck(t, a, n).cyc = s.cyc
    BY <2>2, <2>3, AdvancedTrans
  <2> QED
    BY <2>4 DEF t
<1>2. CASE Region(a) \in {2, 3}
  <2>1. t = Put(s, Place(a), n, v)
    BY <1>2, SMT DEF Write
  <2>2. t \in State /\ t.r = s.r /\ t.pages = s.pages /\ t.code = s.code /\ t.alert = s.alert /\ t.cyc = s.cyc
    BY <2>1, PutType
  <2> HIDE DEF t
  <2>3. Tags(t, a, n) = Host(t, Tag(a), n)
    BY <1>2 DEF Tags
  <2>4. DOMAIN Tags(t, a, n) = 1 .. n
    BY <2>3 DEF Host
  <2>5. CASE \A k \in 1 .. n : Tags(t, a, n)[k] = 0
    <3>1. SmcCheck(t, a, n) = t
      BY <2>4, <2>5 DEF SmcCheck
    <3>2. Fresh(s) => Fresh(t)
      BY <1>2, <2>1, <2>5, FreshRamStore
    <3>3. Advanced(s, t)
      BY <2>2, <3>2 DEF Advanced, Guarded
    <3>4. Advanced(s, SmcCheck(t, a, n)) /\ SmcCheck(t, a, n).cyc = s.cyc
      BY <2>2, <3>1, <3>3
    <3> QED
      BY <3>4 DEF t
  <2>6. CASE ~(\A k \in 1 .. n : Tags(t, a, n)[k] = 0)
    <3>1. SmcCheck(t, a, n) = Raise(t, "smc")
      BY <2>4, <2>6 DEF SmcCheck
    <3>2. Kept(t, Raise(t, "smc")) /\ Raise(t, "smc").alert = t.alert \cup {"smc"}
      BY <2>2, KeptRaise DEF Alerts
    <3>3. Advanced(s, Raise(t, "smc")) /\ Raise(t, "smc").cyc = s.cyc
      BY <2>2, <3>2 DEF Advanced, Guarded, Kept
    <3>4. Advanced(s, SmcCheck(t, a, n)) /\ SmcCheck(t, a, n).cyc = s.cyc
      BY <3>1, <3>3
    <3> QED
      BY <3>4 DEF t
  <2> QED
    BY <2>5, <2>6
<1> QED
  BY <1>1, <1>2

LEMMA StoreValueType ==
  ASSUME NEW v \in Int, NEW n \in Spans
  PROVE  StoreValue(v, n) \in Int
BY SMT DEF StoreValue

\* Alignment keeps an access within its word.
LEMMA MaskedHeld ==
  ASSUME NEW a \in Int, NEW n \in Spans, Held(a), Region(a) = 4 => IoOffset(a) < Kib
  PROVE  /\ Masked(a, n) \in Int /\ Masked(a, n) % n = 0 /\ Held(Masked(a, n))
         /\ Region(Masked(a, n)) = Region(a)
         /\ Region(Masked(a, n)) = 4 => IoOffset(Masked(a, n)) < Kib
<1>1. n = 1 \/ n = 2 \/ n = 4
  BY DEF Spans
<1>2. Masked(a, n) \in Int /\ Masked(a, n) % n = 0 /\ Region(Masked(a, n)) = Region(a)
      /\ Masked(Masked(a, n), 4) = Masked(a, 4)
  <2>1. /\ Masked(a, 1) \in Int /\ Masked(a, 1) % 1 = 0 /\ Region(Masked(a, 1)) = Region(a)
        /\ Masked(Masked(a, 1), 4) = Masked(a, 4)
    BY SMT DEF Masked, Region
  <2>2. /\ Masked(a, 2) \in Int /\ Masked(a, 2) % 2 = 0 /\ Region(Masked(a, 2)) = Region(a)
        /\ Masked(Masked(a, 2), 4) = Masked(a, 4)
    BY SMT DEF Masked, Region
  <2>3. /\ Masked(a, 4) \in Int /\ Masked(a, 4) % 4 = 0 /\ Region(Masked(a, 4)) = Region(a)
        /\ Masked(Masked(a, 4), 4) = Masked(a, 4)
    BY SMT DEF Masked, Region
  <2> QED
    BY <1>1, <2>1, <2>2, <2>3
<1>3. Around(Masked(a, n)) = Around(a)
  BY <1>2 DEF Around
<1>4. IoOffset(a) < Kib => IoOffset(Masked(a, n)) < Kib
  BY <1>1, SMT DEF IoOffset, Masked, Kib
<1> QED
  BY <1>2, <1>3, <1>4 DEF Held

LEMMA ExecuteStoreType ==
  ASSUME NEW s \in State, NEW a \in Int, Held(a), Region(a) = 4 => IoOffset(a) < Kib,
         NEW n \in Spans, NEW v \in Int, NEW seq \in BOOLEAN
  PROVE  /\ Advanced(s, ExecuteStore(s, a, n, v, seq, FALSE))
         /\ ExecuteStore(s, a, n, v, seq, FALSE).cyc = s.cyc + CostOf(seq, Masked(a, n), n)
<1> DEFINE b == Masked(a, n)
           t == Charge(s, seq, b, n)
<1>1. b \in Int /\ b % n = 0 /\ Held(b) /\ (Region(b) = 4 => IoOffset(b) < Kib)
  BY MaskedHeld
<1> HIDE DEF b
<1>2. t \in State /\ t.r = s.r /\ t.mem = s.mem /\ t.pages = s.pages /\ t.code = s.code /\ t.alert = s.alert
      /\ t.cyc = s.cyc + CostOf(seq, b, n)
  BY <1>1, ChargeType
<1>3. Advanced(s, t)
  BY <1>2 DEF Advanced, Guarded, Fresh
<1> HIDE DEF t
<1>4. /\ Advanced(t, SmcCheck(Write(t, b, n, StoreValue(v, n)), b, n))
      /\ SmcCheck(Write(t, b, n, StoreValue(v, n)), b, n).cyc = t.cyc
  BY <1>1, <1>2, StoredType, StoreValueType
<1>5. ExecuteStore(s, a, n, v, seq, FALSE) = SmcCheck(Write(t, b, n, StoreValue(v, n)), b, n)
  BY DEF ExecuteStore, Stored, t, b
<1>6. Advanced(s, ExecuteStore(s, a, n, v, seq, FALSE)) /\ ExecuteStore(s, a, n, v, seq, FALSE).cyc = s.cyc + CostOf(seq, b, n)
  BY <1>2, <1>3, <1>4, <1>5, AdvancedTrans
<1> QED
  BY <1>6 DEF b

\* A machine between two instructions.
Rested(s) == s \in State /\ s.alert = {} /\ Fresh(s)

Exits == {"next", "redispatch", "scheduler"}

LEMMA LeaveType ==
  ASSUME NEW s \in State, NEW to \in Exits, NEW pc \in Int32
  PROVE  /\ Leave(s, to, pc) \in State /\ Leave(s, to, pc).alert = {}
         /\ Leave(s, to, pc).mem = s.mem /\ Leave(s, to, pc).code = s.code
<1> DEFINE q == [s.r EXCEPT ![15] = pc]
<1>1. q \in [Register -> Int32]
  BY SMT DEF State, Register
<1>2. Leave(s, to, pc) = [s EXCEPT !.to = to, !.r = q, !.alert = {}]
  BY DEF Leave
<1> DEFINE t == [s EXCEPT !.to = to]
<1>3. t \in State /\ t.mem = s.mem /\ t.code = s.code
  BY SMT DEF State, Exits
<1>4. [s EXCEPT !.to = to, !.r = q, !.alert = {}] = [t EXCEPT !.r = q, !.alert = {}]
  OBVIOUS
<1> DEFINE u == [t EXCEPT !.r = q]
<1>5. [t EXCEPT !.r = q, !.alert = {}] = [u EXCEPT !.alert = {}]
  OBVIOUS
<1> HIDE DEF q, t
<1>6. u \in State /\ u.mem = t.mem /\ u.code = t.code
  BY <1>1, <1>3, SMT DEF State
<1> HIDE DEF u
<1>7. {} \in SUBSET Alerts
  OBVIOUS
<1>8. [u EXCEPT !.alert = {}] \in State /\ [u EXCEPT !.alert = {}].mem = u.mem /\ [u EXCEPT !.alert = {}].code = u.code
      /\ [u EXCEPT !.alert = {}].alert = {}
  BY <1>6, <1>7, SMT DEF State
<1> QED
  BY <1>2, <1>3, <1>4, <1>5, <1>6, <1>8

LEMMA AlertBreakType ==
  ASSUME NEW s \in State, Guarded(s), NEW pc \in Int32
  PROVE  Rested(AlertBreak(s, pc))
<1> DEFINE t == IF "smc" \in s.alert THEN Flushed(s) ELSE s
<1>1. t \in State /\ Fresh(t)
  <2>1. CASE "smc" \in s.alert
    <3>1. Flushed(s) \in State /\ Flushed(s).code = {}
      BY KeptFlushed DEF Kept
    <3> QED
      BY <2>1, <3>1 DEF Fresh
  <2>2. CASE "smc" \notin s.alert
    BY <2>2 DEF Guarded
  <2> QED
    BY <2>1, <2>2
<1> HIDE DEF t
<1>2. ASSUME NEW to \in Exits
      PROVE  Rested(Leave(t, to, pc))
  <2>1. /\ Leave(t, to, pc) \in State /\ Leave(t, to, pc).alert = {}
        /\ Leave(t, to, pc).mem = t.mem /\ Leave(t, to, pc).code = t.code
    BY <1>1, LeaveType
  <2> QED
    BY <1>1, <2>1 DEF Rested, Fresh
<1>3. Rested([t EXCEPT !.alert = {}])
  <2>1. {} \in SUBSET Alerts
    OBVIOUS
  <2>2. [t EXCEPT !.alert = {}] \in State /\ [t EXCEPT !.alert = {}].mem = t.mem
        /\ [t EXCEPT !.alert = {}].code = t.code /\ [t EXCEPT !.alert = {}].alert = {}
    BY <1>1, <2>1, SMT DEF State
  <2> QED
    BY <1>1, <2>2 DEF Rested, Fresh
<1>4. AlertBreak(s, pc) \in {[t EXCEPT !.alert = {}], Leave(t, "redispatch", pc), Leave(t, "scheduler", pc)}
  BY DEF AlertBreak, t
<1>5. "redispatch" \in Exits /\ "scheduler" \in Exits
  BY DEF Exits
<1>6. Rested(Leave(t, "redispatch", pc)) /\ Rested(Leave(t, "scheduler", pc))
  BY <1>2, <1>5
<1> QED
  BY <1>3, <1>4, <1>6

-----------------------------------------------------------------------------
(* The instructions: what each helper leaves of a resting machine.         *)

LEMMA SingleFields ==
  ASSUME NEW i \in Singles
  PROVE  /\ i.k = "single" /\ i.set \in {"arm", "thumb"} /\ i.load \in BOOLEAN
         /\ i.kind \in {"W", "B", "UH", "SH", "SB"} /\ i.rd \in Register /\ i.rn \in Register
         /\ i.off \in Shift /\ i.pre \in BOOLEAN /\ i.up \in BOOLEAN /\ i.wb \in BOOLEAN /\ i.known \in BOOLEAN
         /\ i.load \/ i.kind \in {"W", "B", "UH"}
         /\ i.set = "thumb" => i.pre /\ ~i.wb /\ i.rd # 15
BY DEF Singles

LEMMA MultipleFields ==
  ASSUME NEW i \in Multiples
  PROVE  /\ i.k = "block" /\ i.set \in {"arm", "thumb"} /\ i.load \in BOOLEAN
         /\ i.rn \in Register /\ i.list \in Seq(Register)
         /\ i.pre \in BOOLEAN /\ i.up \in BOOLEAN /\ i.wb \in BOOLEAN
         /\ i.list # <<>> /\ Count(i) \in Nat \ {0} /\ \A k \in 1 .. Count(i) : i.list[k] \in Register
         /\ i.set = "thumb" => i.rn # 15 /\ (i.load \/ ~InList(i, 15))
<1>1. /\ i.k = "block" /\ i.set \in {"arm", "thumb"} /\ i.load \in BOOLEAN
      /\ i.rn \in Register /\ i.list \in Seq(Register)
      /\ i.pre \in BOOLEAN /\ i.up \in BOOLEAN /\ i.wb \in BOOLEAN
      /\ i.list # <<>>
      /\ i.set = "thumb" => i.rn # 15 /\ (i.load \/ ~InList(i, 15))
  BY DEF Multiples
<1>2. Len(i.list) \in Nat \ {0} /\ \A k \in 1 .. Len(i.list) : i.list[k] \in Register
  BY <1>1
<1> QED
  BY <1>1, <1>2 DEF Count

LEMMA SwapFields ==
  ASSUME NEW i \in Swaps
  PROVE  /\ i.k = "swap" /\ i.kind \in {"W", "B"} /\ i.set = "arm"
         /\ i.rd \in Register /\ i.rn \in Register /\ i.rm \in Register
BY DEF Swaps

LEMMA MapEndIs == MapEnd \in Int /\ MapEnd - 1 = 268435455
BY SMT DEF MapEnd

\* The address of the next instruction, and of one the PC is loaded with.
LEMMA PcType ==
  ASSUME NEW pc \in 0 .. MapEnd - 1
  PROVE  /\ pc + 2 \in Int32 /\ pc + 4 \in Int32 /\ pc + 12 \in Int32 /\ \A i : pc + Width(i) \in Int32
         /\ pc \in Int /\ 0 <= pc /\ pc < MapEnd
<1>1. MapEnd \in Int
  BY MapEndIs
<1>2. pc \in Int /\ 0 <= pc /\ pc <= MapEnd - 1
  BY <1>1
<1>3. ASSUME NEW x \in Int, 0 <= x, x <= MapEnd - 1
      PROVE  x + 2 \in Int32 /\ x + 4 \in Int32 /\ x + 12 \in Int32
  <2>1. ASSUME NEW m \in Int, m = 268435455, x <= m
        PROVE  x + 2 \in Int32 /\ x + 4 \in Int32 /\ x + 12 \in Int32
    BY <2>1, <1>3, Int32Is, SMT
  <2>2. MapEnd - 1 \in Int
    BY <1>1
  <2> QED
    BY <1>3, <2>1, <2>2, MapEndIs
<1>4. pc + 2 \in Int32 /\ pc + 4 \in Int32 /\ pc + 12 \in Int32
  BY <1>2, <1>3
<1> QED
  BY <1>1, <1>2, <1>4 DEF Width

LEMMA HalfwordEven ==
  ASSUME NEW v \in Int32
  PROVE  v - (v % 2) \in Int32
<1>1. v \in Int /\ -2147483648 <= v /\ v <= 2147483647
  BY Int32Is, SMT
<1>2. v - (v % 2) \in Int /\ -2147483648 <= v - (v % 2) /\ v - (v % 2) <= 2147483647
  BY <1>1, SMT
<1> QED
  BY <1>2, Int32Is, SMT

\* A machine with only its registers, pages and cycles touched.
Tame(s, t) == t \in State /\ t.mem = s.mem /\ t.code = s.code /\ t.alert = s.alert
LEMMA TameRested ==
  ASSUME NEW s, Rested(s), NEW t, Tame(s, t)
  PROVE  Rested(t)
BY DEF Rested, Tame, Fresh

LEMMA TameSet ==
  ASSUME NEW s \in State, NEW n \in Register, NEW v \in Int32
  PROVE  Tame(s, Set(s, n, v))
BY SetType DEF Tame

LEMMA LeaveRested ==
  ASSUME NEW s, Rested(s), NEW to \in Exits, NEW pc \in Int32
  PROVE  Rested(Leave(s, to, pc))
<1>1. s \in State /\ Fresh(s)
  BY DEF Rested
<1>2. /\ Leave(s, to, pc) \in State /\ Leave(s, to, pc).alert = {}
      /\ Leave(s, to, pc).mem = s.mem /\ Leave(s, to, pc).code = s.code
  BY <1>1, LeaveType
<1> QED
  BY <1>1, <1>2 DEF Rested, Fresh

LEMMA BreakRested ==
  ASSUME NEW s, Rested(s), NEW pc \in Int32
  PROVE  Rested(AlertBreak(s, pc))
<1>1. s \in State /\ Guarded(s)
  BY DEF Rested, Guarded
<1> QED
  BY <1>1, AlertBreakType

LEMMA SingleLoadRested ==
  ASSUME NEW s, Rested(s), NEW i \in Singles, i.load, NEW pc \in 0 .. MapEnd - 1,
         NEW a \in Int, Held(a), Moved(s, i, pc) \in Int32
  PROVE  Rested(SingleLoad(s, i, pc, a))
<1> DEFINE b == IF WritesBack(i) THEN Set(s, i.rn, Moved(s, i, pc)) ELSE s
           v == Loaded(s, i.kind, a)
           t == ExecuteLoad(b, i.kind, a, FALSE)
<1>1. i.kind \in {"W", "B", "UH", "SH", "SB"} /\ i.rd \in Register /\ i.rn \in Register
  BY SingleFields
<1>2. s \in State
  BY DEF Rested
<1>3. v \in Int32
  BY <1>1, <1>2, LoadedType
<1>4. Tame(s, b)
  <2>1. Tame(s, Set(s, i.rn, Moved(s, i, pc)))
    BY <1>1, <1>2, SetType DEF Tame
  <2> QED
    BY <1>2, <2>1 DEF Tame
<1> HIDE DEF b, v
<1>5. Tame(s, t)
  <2>1. b \in State
    BY <1>4 DEF Tame
  <2>2. t \in State /\ t.mem = b.mem /\ t.code = b.code /\ t.alert = b.alert
    BY <2>1, ExecuteLoadType
  <2> QED
    BY <1>4, <2>2 DEF Tame
<1> HIDE DEF t
<1>6. Rested(t) /\ t \in State
  BY <1>5, TameRested DEF Tame
<1>7. Tame(t, Set(t, i.rd, v))
  BY <1>1, <1>3, <1>6, SetType DEF Tame
<1>8. Rested(AlertBreak(Set(t, i.rd, v), pc + Width(i)))
  BY <1>6, <1>7, TameRested, BreakRested, PcType
<1>9. Rested(Leave(t, "redispatch", v - (v % 2)))
  <2>1. "redispatch" \in Exits /\ v - (v % 2) \in Int32
    BY <1>3, HalfwordEven DEF Exits
  <2> QED
    BY <1>6, <2>1, LeaveRested
<1>10. SingleLoad(s, i, pc, a) = IF i.rd = 15 THEN Leave(t, "redispatch", v - (v % 2)) ELSE AlertBreak(Set(t, i.rd, v), pc + Width(i))
  BY DEF SingleLoad, t, v, b
<1> QED
  BY <1>8, <1>9, <1>10

LEMMA SizeType ==
  ASSUME NEW kind
  PROVE  SizeOf(kind) \in Spans
BY DEF SizeOf, Spans

LEMMA SingleStoreRested ==
  ASSUME NEW s, Rested(s), NEW i \in Singles, NEW pc \in 0 .. MapEnd - 1,
         NEW a \in Int, Held(a), Region(a) = 4 => IoOffset(a) < Kib, Moved(s, i, pc) \in Int32
  PROVE  Rested(SingleStore(s, i, pc, a, FALSE))
<1> DEFINE v == IF i.rd = 15 THEN pc + 12 ELSE s.r[i.rd]
           t == ExecuteStore(s, a, SizeOf(i.kind), v, FALSE, FALSE)
           u == IF WritesBack(i) THEN Set(t, i.rn, Moved(s, i, pc)) ELSE t
<1>1. i.rd \in Register /\ i.rn \in Register /\ s \in State
  BY SingleFields DEF Rested
<1>2. v \in Int
  <2>1. s.r[i.rd] \in Int32
    BY <1>1, SMT DEF State
  <2>2. s.r[i.rd] \in Int
    BY <2>1, Int32Is
  <2> QED
    BY <2>2, PcType
<1> HIDE DEF v
<1>3. Advanced(s, t)
  BY <1>1, <1>2, SizeType, ExecuteStoreType
<1> HIDE DEF t
<1>4. t \in State /\ Guarded(t)
  BY <1>3 DEF Advanced, Rested, Guarded
<1>5. u \in State /\ Guarded(u)
  <2>1. Tame(t, Set(t, i.rn, Moved(s, i, pc)))
    BY <1>1, <1>4, SetType DEF Tame
  <2> QED
    BY <1>4, <2>1 DEF Tame, Guarded, Fresh
<1> HIDE DEF u
<1>6. Rested(AlertBreak(u, pc + Width(i)))
  BY <1>5, AlertBreakType, PcType
<1> QED
  BY <1>6 DEF SingleStore, u, t, v

LEMMA SwapRested ==
  ASSUME NEW s, Rested(s), NEW i \in Swaps, NEW pc \in 0 .. MapEnd - 1,
         Held(s.r[i.rn]), Region(s.r[i.rn]) = 4 => IoOffset(s.r[i.rn]) < Kib
  PROVE  Rested(Swap(s, i, pc, FALSE))
<1> DEFINE a == s.r[i.rn]
           w == s.r[i.rm]
           b == ExecuteLoad(s, i.kind, a, FALSE)
           t == ExecuteStore(b, a, SizeOf(i.kind), w, FALSE, FALSE)
           v == Loaded(s, i.kind, a)
<1>1. i.rd \in Register /\ i.rn \in Register /\ i.rm \in Register /\ s \in State
      /\ i.kind \in {"W", "B", "UH", "SH", "SB"}
  BY SwapFields DEF Rested
<1>2. a \in Int /\ w \in Int
  <2>1. a \in Int32 /\ w \in Int32
    BY <1>1, SMT DEF State
  <2> QED
    BY <2>1, Int32Is
<1>3. Held(a) /\ (Region(a) = 4 => IoOffset(a) < Kib)
  OBVIOUS
<1> HIDE DEF a, w
<1>4. v \in Int32
  BY <1>1, <1>2, <1>3, LoadedType
<1>5. b \in State /\ b.mem = s.mem /\ b.code = s.code /\ b.alert = s.alert
  BY <1>1, <1>2, ExecuteLoadType
<1>6. b \in State /\ Guarded(b)
  BY <1>5 DEF Guarded, Rested, Fresh
<1> HIDE DEF b, v
<1>7. Advanced(b, t)
  BY <1>2, <1>3, <1>6, SizeType, ExecuteStoreType
<1> HIDE DEF t
<1>8. t \in State /\ Guarded(t)
  BY <1>6, <1>7 DEF Advanced
<1>9. Tame(t, Set(t, i.rd, v))
  BY <1>1, <1>4, <1>8, TameSet
<1>10. Set(t, i.rd, v) \in State /\ Guarded(Set(t, i.rd, v))
  BY <1>8, <1>9 DEF Tame, Guarded, Fresh
<1>11. Rested(AlertBreak(Set(t, i.rd, v), pc + Width(i)))
  BY <1>10, AlertBreakType, PcType
<1> QED
  BY <1>11 DEF Swap, t, v, a, b, w

-----------------------------------------------------------------------------
(* The loops of a block transfer.                                          *)

\* Induction, with the set of the numbers that have the property.
LEMMA Induction ==
  ASSUME NEW S, 0 \in S, \A k \in Nat : k \in S => k + 1 \in S
  PROVE  Nat \subseteq S
<1> DEFINE T == Nat \ S
<1>1. SUFFICES ASSUME T # {} PROVE FALSE
  OBVIOUS
<1>2. PICK x \in T : \A y \in T : ~(y < x)
  <2>1. T \subseteq Nat
    OBVIOUS
  <2> DEFINE R == {p \in Nat \X Nat : p[1] < p[2]}
  <2>2. IsWellFoundedOn(R, Nat)
    BY NatLessThanWellFounded DEF OpToRel
  <2>4. \A x, y \in Nat : y < x => <<y, x>> \in R
    OBVIOUS
  <2> HIDE DEF T, R
  <2>3. \E x \in T : \A y \in T : ~(<<y, x>> \in R)
    BY <1>1, <2>1, <2>2, WFMin
  <2> QED
    BY <2>1, <2>3, <2>4
<1>3. \A y \in T : ~(y < x)
  BY <1>2
<1>4. x \in Nat /\ x # 0 /\ x - 1 \in Nat
  OBVIOUS
<1>5. x - 1 \in S
  BY <1>3, <1>4
<1>6. (x - 1) + 1 \in S
  BY <1>4, <1>5
<1> QED
  BY <1>4, <1>6

\* Each loop is a function of the registers moved so far.
LoadLoop(f, s, i, a, n) == f = [k \in 0 .. n |-> IF k = 0 THEN s ELSE LoadWord(f[k - 1], i, a, k)]
StoreStep(t, i, a, k, pc) == StoreWord(t, i, a, k, pc, FALSE)
StoreLoop(f, s, i, a, pc, n) == f = [k \in 0 .. n |-> IF k = 0 THEN s ELSE StoreStep(f[k - 1], i, a, k, pc)]
MoveLoop(f, s, i, a, n) == f = [k \in 0 .. n |-> IF k = 0 THEN s ELSE MoveWord(f[k - 1], i, a, k)]

LEMMA LoadLoops ==
  ASSUME NEW s, NEW i, NEW a, Count(i) \in Nat
  PROVE  \E f : LoadLoop(f, s, i, a, Count(i)) /\ LoadedWords(s, i, a) = f[Count(i)]
<1> DEFINE S == {n \in Nat : \E f : LoadLoop(f, s, i, a, n)}
<1>1. 0 \in S
  <2>1. LoadLoop([k \in 0 .. 0 |-> s], s, i, a, 0)
    BY DEF LoadLoop
  <2> QED
    BY <2>1
<1>2. ASSUME NEW n \in Nat, n \in S
      PROVE  n + 1 \in S
  <2>1. PICK f : LoadLoop(f, s, i, a, n)
    BY <1>2
  <2> DEFINE g == [k \in 0 .. n + 1 |-> IF k <= n THEN f[k] ELSE LoadWord(f[n], i, a, n + 1)]
  <2>2. ASSUME NEW k \in 0 .. n + 1
        PROVE  g[k] = IF k = 0 THEN s ELSE LoadWord(g[k - 1], i, a, k)
    <3>1. CASE k = 0
      BY <2>1, <3>1 DEF LoadLoop
    <3>2. CASE k # 0 /\ k <= n
      <4>1. k \in 0 .. n /\ k - 1 \in 0 .. n /\ k - 1 \in 0 .. n + 1
        BY <3>2
      <4>2. g[k] = f[k] /\ g[k - 1] = f[k - 1]
        BY <3>2, <4>1
      <4>3. f[k] = LoadWord(f[k - 1], i, a, k)
        BY <2>1, <3>2, <4>1 DEF LoadLoop
      <4> QED
        BY <3>2, <4>2, <4>3
    <3>3. CASE k = n + 1
      <4>1. k # 0 /\ ~(k <= n) /\ k - 1 = n /\ n \in 0 .. n + 1
        BY <3>3
      <4>2. g[k] = LoadWord(f[n], i, a, n + 1) /\ g[n] = f[n]
        BY <4>1
      <4> QED
        BY <3>3, <4>1, <4>2
    <3> QED
      BY <3>1, <3>2, <3>3
  <2>3. LoadLoop(g, s, i, a, n + 1)
    <3>1. g = [k \in 0 .. n + 1 |-> g[k]]
      OBVIOUS
    <3> HIDE DEF g
    <3> QED
      BY <2>2, <3>1 DEF LoadLoop
  <2> QED
    BY <2>3
<1> HIDE DEF S
<1>3. Nat \subseteq S
  BY <1>1, <1>2, Induction
<1>4. PICK h : LoadLoop(h, s, i, a, Count(i))
  BY <1>3 DEF S
<1> DEFINE F == CHOOSE f : f = [k \in 0 .. Count(i) |-> IF k = 0 THEN s ELSE LoadWord(f[k - 1], i, a, k)]
<1>5. F = [k \in 0 .. Count(i) |-> IF k = 0 THEN s ELSE LoadWord(F[k - 1], i, a, k)]
  BY <1>4 DEF LoadLoop
<1>6. LoadedWords(s, i, a) = F[Count(i)]
  BY DEF LoadedWords
<1> QED
  BY <1>5, <1>6 DEF LoadLoop

LEMMA StoreLoops ==
  ASSUME NEW s, NEW i, NEW a, NEW pc, Count(i) \in Nat
  PROVE  \E f : StoreLoop(f, s, i, a, pc, Count(i)) /\ StoredWords(s, i, a, pc, FALSE) = f[Count(i)]
<1> DEFINE S == {n \in Nat : \E f : StoreLoop(f, s, i, a, pc, n)}
<1>1. 0 \in S
  <2>1. StoreLoop([k \in 0 .. 0 |-> s], s, i, a, pc, 0)
    BY DEF StoreLoop
  <2> QED
    BY <2>1
<1>2. ASSUME NEW n \in Nat, n \in S
      PROVE  n + 1 \in S
  <2>1. PICK f : StoreLoop(f, s, i, a, pc, n)
    BY <1>2
  <2> DEFINE g == [k \in 0 .. n + 1 |-> IF k <= n THEN f[k] ELSE StoreStep(f[n], i, a, n + 1, pc)]
  <2>2. ASSUME NEW k \in 0 .. n + 1
        PROVE  g[k] = IF k = 0 THEN s ELSE StoreStep(g[k - 1], i, a, k, pc)
    <3>1. CASE k = 0
      BY <2>1, <3>1 DEF StoreLoop
    <3>2. CASE k # 0 /\ k <= n
      <4>1. k \in 0 .. n /\ k - 1 \in 0 .. n /\ k - 1 \in 0 .. n + 1
        BY <3>2
      <4>2. g[k] = f[k] /\ g[k - 1] = f[k - 1]
        BY <3>2, <4>1
      <4>3. f[k] = StoreStep(f[k - 1], i, a, k, pc)
        BY <2>1, <3>2, <4>1 DEF StoreLoop
      <4> QED
        BY <3>2, <4>2, <4>3
    <3>3. CASE k = n + 1
      <4>1. k # 0 /\ ~(k <= n) /\ k - 1 = n /\ n \in 0 .. n + 1
        BY <3>3
      <4>2. g[k] = StoreStep(f[n], i, a, n + 1, pc) /\ g[n] = f[n]
        BY <4>1
      <4> QED
        BY <3>3, <4>1, <4>2
    <3> QED
      BY <3>1, <3>2, <3>3
  <2>3. StoreLoop(g, s, i, a, pc, n + 1)
    <3>1. g = [k \in 0 .. n + 1 |-> g[k]]
      OBVIOUS
    <3> HIDE DEF g
    <3> QED
      BY <2>2, <3>1 DEF StoreLoop
  <2> QED
    BY <2>3
<1> HIDE DEF S
<1>3. Nat \subseteq S
  BY <1>1, <1>2, Induction
<1>4. PICK h : StoreLoop(h, s, i, a, pc, Count(i))
  BY <1>3 DEF S
<1> DEFINE F == CHOOSE f : f = [k \in 0 .. Count(i) |-> IF k = 0 THEN s ELSE StoreStep(f[k - 1], i, a, k, pc)]
<1>5. F = [k \in 0 .. Count(i) |-> IF k = 0 THEN s ELSE StoreStep(F[k - 1], i, a, k, pc)]
  BY <1>4 DEF StoreLoop
<1>6. StoredWords(s, i, a, pc, FALSE) = F[Count(i)]
  BY DEF StoredWords, StoreStep
<1> QED
  BY <1>5, <1>6 DEF StoreLoop

LEMMA MoveLoops ==
  ASSUME NEW s, NEW i, NEW a, Count(i) \in Nat
  PROVE  \E f : MoveLoop(f, s, i, a, Count(i)) /\ MovedWords(s, i, a) = f[Count(i)]
<1> DEFINE S == {n \in Nat : \E f : MoveLoop(f, s, i, a, n)}
<1>1. 0 \in S
  <2>1. MoveLoop([k \in 0 .. 0 |-> s], s, i, a, 0)
    BY DEF MoveLoop
  <2> QED
    BY <2>1
<1>2. ASSUME NEW n \in Nat, n \in S
      PROVE  n + 1 \in S
  <2>1. PICK f : MoveLoop(f, s, i, a, n)
    BY <1>2
  <2> DEFINE g == [k \in 0 .. n + 1 |-> IF k <= n THEN f[k] ELSE MoveWord(f[n], i, a, n + 1)]
  <2>2. ASSUME NEW k \in 0 .. n + 1
        PROVE  g[k] = IF k = 0 THEN s ELSE MoveWord(g[k - 1], i, a, k)
    <3>1. CASE k = 0
      BY <2>1, <3>1 DEF MoveLoop
    <3>2. CASE k # 0 /\ k <= n
      <4>1. k \in 0 .. n /\ k - 1 \in 0 .. n /\ k - 1 \in 0 .. n + 1
        BY <3>2
      <4>2. g[k] = f[k] /\ g[k - 1] = f[k - 1]
        BY <3>2, <4>1
      <4>3. f[k] = MoveWord(f[k - 1], i, a, k)
        BY <2>1, <3>2, <4>1 DEF MoveLoop
      <4> QED
        BY <3>2, <4>2, <4>3
    <3>3. CASE k = n + 1
      <4>1. k # 0 /\ ~(k <= n) /\ k - 1 = n /\ n \in 0 .. n + 1
        BY <3>3
      <4>2. g[k] = MoveWord(f[n], i, a, n + 1) /\ g[n] = f[n]
        BY <4>1
      <4> QED
        BY <3>3, <4>1, <4>2
    <3> QED
      BY <3>1, <3>2, <3>3
  <2>3. MoveLoop(g, s, i, a, n + 1)
    <3>1. g = [k \in 0 .. n + 1 |-> g[k]]
      OBVIOUS
    <3> HIDE DEF g
    <3> QED
      BY <2>2, <3>1 DEF MoveLoop
  <2> QED
    BY <2>3
<1> HIDE DEF S
<1>3. Nat \subseteq S
  BY <1>1, <1>2, Induction
<1>4. PICK h : MoveLoop(h, s, i, a, Count(i))
  BY <1>3 DEF S
<1> DEFINE F == CHOOSE f : f = [k \in 0 .. Count(i) |-> IF k = 0 THEN s ELSE MoveWord(f[k - 1], i, a, k)]
<1>5. F = [k \in 0 .. Count(i) |-> IF k = 0 THEN s ELSE MoveWord(F[k - 1], i, a, k)]
  BY <1>4 DEF MoveLoop
<1>6. MovedWords(s, i, a) = F[Count(i)]
  BY DEF MovedWords
<1> QED
  BY <1>5, <1>6 DEF MoveLoop

\* The words a block transfer reaches.
Reaches(i, a) == \A k \in 1 .. Count(i) : /\ Word(a, k) \in Int /\ Held(Word(a, k))
                                          /\ Region(Word(a, k)) = 4 => IoOffset(Word(a, k)) < Kib

LEMMA LoadWordRested ==
  ASSUME NEW t, Rested(t), NEW i \in Multiples, NEW a, Reaches(i, a), NEW k \in 1 .. Count(i)
  PROVE  Rested(LoadWord(t, i, a, k))
<1> DEFINE b == Word(a, k)
           v == Loaded(t, "W", b)
           u == ExecuteLoad(t, "W", b, TRUE)
<1>1. b \in Int /\ Held(b) /\ t \in State /\ i.list[k] \in Register
  BY MultipleFields DEF Reaches, Rested
<1> HIDE DEF b
<1>2. v \in Int32
  BY <1>1, LoadedType
<1>3. Tame(t, u)
  BY <1>1, ExecuteLoadType DEF Tame
<1> HIDE DEF u, v
<1>4. Rested(u) /\ u \in State
  BY <1>3, TameRested DEF Tame
<1>5. Rested(Set(u, i.list[k], v))
  BY <1>1, <1>2, <1>4, TameSet, TameRested
<1> QED
  BY <1>5 DEF LoadWord, u, v, b

LEMMA LoadedWordsRested ==
  ASSUME NEW s, Rested(s), NEW i \in Multiples, NEW a, Reaches(i, a)
  PROVE  Rested(LoadedWords(s, i, a))
<1>1. Count(i) \in Nat
  BY MultipleFields
<1>2. PICK f : LoadLoop(f, s, i, a, Count(i)) /\ LoadedWords(s, i, a) = f[Count(i)]
  BY <1>1, LoadLoops
<1> DEFINE S == {k \in Nat : k <= Count(i) => Rested(f[k])}
<1>3. 0 \in S
  BY <1>1, <1>2 DEF LoadLoop
<1>4. ASSUME NEW k \in Nat, k \in S
      PROVE  k + 1 \in S
  <2>1. SUFFICES ASSUME k + 1 <= Count(i) PROVE Rested(f[k + 1])
    OBVIOUS
  <2>2. k + 1 \in 1 .. Count(i) /\ k + 1 \in 0 .. Count(i) /\ k + 1 # 0 /\ (k + 1) - 1 = k /\ k <= Count(i)
    BY <1>1, <2>1
  <2>3. f[k + 1] = LoadWord(f[k], i, a, k + 1)
    BY <1>2, <2>2 DEF LoadLoop
  <2>4. Rested(f[k])
    BY <1>4, <2>2
  <2> QED
    BY <2>2, <2>3, <2>4, LoadWordRested
<1> HIDE DEF S
<1>5. Nat \subseteq S
  BY <1>3, <1>4, Induction
<1> QED
  BY <1>1, <1>2, <1>5 DEF S

LEMMA BlockLoadRested ==
  ASSUME NEW s, Rested(s), NEW i \in Multiples, NEW pc \in 0 .. MapEnd - 1, NEW a, Reaches(i, a),
         NewBase(s, i) \in Int32
  PROVE  Rested(BlockLoad(s, i, a, pc))
<1> DEFINE back == IF i.wb /\ ~InList(i, i.rn) THEN Set(s, i.rn, NewBase(s, i)) ELSE s
           done == LoadedWords(back, i, a)
<1>1. Rested(back)
  <2>1. s \in State /\ i.rn \in Register
    BY MultipleFields DEF Rested
  <2>2. Rested(Set(s, i.rn, NewBase(s, i)))
    BY <2>1, TameSet, TameRested
  <2> QED
    BY <2>2
<1> HIDE DEF back
<1>2. Rested(done)
  BY <1>1, LoadedWordsRested
<1> HIDE DEF done
<1>3. Rested(AlertBreak(done, pc + Width(i)))
  BY <1>2, BreakRested, PcType
<1>4. Rested(Leave(done, "redispatch", done.r[15] - (done.r[15] % 2)))
  <2>1. done.r \in [Register -> Int32]
    BY <1>2, SMT DEF Rested, State
  <2>2. done.r[15] \in Int32
    BY <2>1, SMT DEF Register
  <2>3. "redispatch" \in Exits /\ done.r[15] - (done.r[15] % 2) \in Int32
    BY <2>2, HalfwordEven DEF Exits
  <2> QED
    BY <1>2, <2>3, LeaveRested
<1> QED
  BY <1>3, <1>4 DEF BlockLoad, done, back

LEMMA ListedType ==
  ASSUME NEW t \in State, NEW i \in Multiples, NEW k \in 1 .. Count(i), NEW pc \in 0 .. MapEnd - 1
  PROVE  Listed(t, i, k, pc) \in Int
<1>1. i.list[k] \in Register /\ i.rn \in Register /\ pc + 12 \in Int /\ Count(i) \in Nat
  BY MultipleFields, PcType
<1>2. t.r[i.list[k]] \in Int /\ t.r[i.rn] \in Int
  <2>1. t.r[i.list[k]] \in Int32 /\ t.r[i.rn] \in Int32
    BY <1>1, SMT DEF State
  <2> QED
    BY <2>1, Int32Is
<1>3. NewBase(t, i) \in Int
  BY <1>1, <1>2 DEF NewBase
<1> QED
  BY <1>1, <1>2, <1>3 DEF Listed

LEMMA StoreStepGuarded ==
  ASSUME NEW t \in State, Guarded(t), NEW i \in Multiples, NEW a, Reaches(i, a), NEW k \in 1 .. Count(i),
         NEW pc \in 0 .. MapEnd - 1
  PROVE  StoreStep(t, i, a, k, pc) \in State /\ Guarded(StoreStep(t, i, a, k, pc))
<1> DEFINE b == Word(a, k)
           v == Listed(t, i, k, pc)
<1>1. b \in Int /\ Held(b) /\ (Region(b) = 4 => IoOffset(b) < Kib) /\ v \in Int /\ 4 \in Spans
  BY ListedType DEF Reaches, Spans
<1> HIDE DEF b, v
<1>2. Advanced(t, ExecuteStore(t, b, 4, v, TRUE, FALSE))
  BY <1>1, ExecuteStoreType
<1>3. ExecuteStore(t, b, 4, v, TRUE, FALSE) \in State /\ Guarded(ExecuteStore(t, b, 4, v, TRUE, FALSE))
  BY <1>2 DEF Advanced
<1> QED
  BY <1>3 DEF StoreStep, StoreWord, b, v

LEMMA StoredWordsGuarded ==
  ASSUME NEW s \in State, Guarded(s), NEW i \in Multiples, NEW a, Reaches(i, a), NEW pc \in 0 .. MapEnd - 1
  PROVE  StoredWords(s, i, a, pc, FALSE) \in State /\ Guarded(StoredWords(s, i, a, pc, FALSE))
<1>1. Count(i) \in Nat
  BY MultipleFields
<1>2. PICK f : StoreLoop(f, s, i, a, pc, Count(i)) /\ StoredWords(s, i, a, pc, FALSE) = f[Count(i)]
  BY <1>1, StoreLoops
<1> DEFINE S == {k \in Nat : k <= Count(i) => f[k] \in State /\ Guarded(f[k])}
<1>3. 0 \in S
  BY <1>1, <1>2 DEF StoreLoop
<1>4. ASSUME NEW k \in Nat, k \in S
      PROVE  k + 1 \in S
  <2>1. SUFFICES ASSUME k + 1 <= Count(i) PROVE f[k + 1] \in State /\ Guarded(f[k + 1])
    OBVIOUS
  <2>2. k + 1 \in 1 .. Count(i) /\ k + 1 \in 0 .. Count(i) /\ k + 1 # 0 /\ (k + 1) - 1 = k /\ k <= Count(i)
    BY <1>1, <2>1
  <2>3. f[k + 1] = StoreStep(f[k], i, a, k + 1, pc)
    BY <1>2, <2>2 DEF StoreLoop
  <2>4. f[k] \in State /\ Guarded(f[k])
    BY <1>4, <2>2
  <2> QED
    BY <2>2, <2>3, <2>4, StoreStepGuarded
<1> HIDE DEF S
<1>5. Nat \subseteq S
  BY <1>3, <1>4, Induction
<1>6. f[Count(i)] \in State /\ Guarded(f[Count(i)])
  BY <1>1, <1>5 DEF S
<1> QED
  BY <1>2, <1>6

LEMMA BlockStoreRested ==
  ASSUME NEW s, Rested(s), NEW i \in Multiples, NEW pc \in 0 .. MapEnd - 1, NEW a, Reaches(i, a),
         NewBase(s, i) \in Int32
  PROVE  Rested(BlockStore(s, i, a, pc, FALSE))
<1> DEFINE done == StoredWords(s, i, a, pc, FALSE)
           u == IF i.wb THEN Set(done, i.rn, NewBase(s, i)) ELSE done
<1>1. s \in State /\ Guarded(s) /\ i.rn \in Register
  BY MultipleFields DEF Rested, Guarded
<1>2. done \in State /\ Guarded(done)
  BY <1>1, StoredWordsGuarded
<1> HIDE DEF done
<1>3. u \in State /\ Guarded(u)
  <2>1. Tame(done, Set(done, i.rn, NewBase(s, i)))
    BY <1>1, <1>2, TameSet
  <2> QED
    BY <1>2, <2>1 DEF Tame, Guarded, Fresh
<1> HIDE DEF u
<1>4. Rested(AlertBreak(u, pc + Width(i)))
  BY <1>3, AlertBreakType, PcType
<1> QED
  BY <1>4 DEF BlockStore, u, done

\* An access the assumptions admit, of the registers of a machine.
Proper(s, i, pc) ==
  /\ i \in Singles \cup Multiples \cup Swaps /\ pc \in 0 .. MapEnd - 1
  /\ Rebased(s, i, pc) \in Int32 /\ \A a \in Reached(s, i, pc) : Plain(i, a)

LEMMA ProperSingle ==
  ASSUME NEW s, NEW i \in Singles, NEW pc, Proper(s, i, pc)
  PROVE  /\ Plain(i, AddressOf(s, i, pc)) /\ AddressOf(s, i, pc) \in Int32 /\ AddressOf(s, i, pc) \in Int
         /\ Held(AddressOf(s, i, pc))
         /\ Region(AddressOf(s, i, pc)) = 4 => IoOffset(AddressOf(s, i, pc)) < Kib
         /\ Moved(s, i, pc) \in Int32 /\ pc \in 0 .. MapEnd - 1
<1>1. i.k = "single"
  BY SingleFields
<1>2. Reached(s, i, pc) = {AddressOf(s, i, pc)} /\ Rebased(s, i, pc) = Moved(s, i, pc)
  BY <1>1 DEF Reached, Rebased
<1>3. Plain(i, AddressOf(s, i, pc)) /\ Moved(s, i, pc) \in Int32 /\ pc \in 0 .. MapEnd - 1
  BY <1>2 DEF Proper
<1>4. AddressOf(s, i, pc) \in Int32
  BY <1>3 DEF Plain
<1> QED
  BY <1>3, <1>4, Int32Is DEF Plain

LEMMA ProperBlock ==
  ASSUME NEW s, NEW i \in Multiples, NEW pc, Proper(s, i, pc)
  PROVE  /\ Reaches(i, FirstOf(s, i)) /\ NewBase(s, i) \in Int32 /\ pc \in 0 .. MapEnd - 1
         /\ \A k \in 1 .. Count(i) : Plain(i, Word(FirstOf(s, i), k))
<1>1. i.k = "block" /\ i.k # "single"
  BY MultipleFields
<1>2. /\ Reached(s, i, pc) = {Word(FirstOf(s, i), k) : k \in 1 .. Count(i)}
      /\ Rebased(s, i, pc) = NewBase(s, i)
  BY <1>1 DEF Reached, Rebased
<1>3. \A k \in 1 .. Count(i) : Plain(i, Word(FirstOf(s, i), k))
  BY <1>2 DEF Proper
<1>4. NewBase(s, i) \in Int32 /\ pc \in 0 .. MapEnd - 1
  BY <1>2 DEF Proper
<1>5. ASSUME NEW k \in 1 .. Count(i)
      PROVE  /\ Word(FirstOf(s, i), k) \in Int /\ Held(Word(FirstOf(s, i), k))
             /\ Region(Word(FirstOf(s, i), k)) = 4 => IoOffset(Word(FirstOf(s, i), k)) < Kib
  BY <1>3, Int32Is DEF Plain
<1> QED
  BY <1>3, <1>4, <1>5 DEF Reaches

\* Every access of gpSP's own leaves a machine at rest: values of 32 bits,
\* bytes in memory, no alert pending, and no block whose code has changed.
LEMMA HelperRested ==
  ASSUME NEW s, Rested(s), NEW i, NEW pc, Proper(s, i, pc)
  PROVE  Rested(Helper(s, i, pc, FALSE))
<1>1. CASE i \in Singles
  <2>1. i.k = "single" /\ i.load \in BOOLEAN
    BY <1>1, SingleFields
  <2>2. /\ AddressOf(s, i, pc) \in Int /\ Held(AddressOf(s, i, pc))
        /\ Region(AddressOf(s, i, pc)) = 4 => IoOffset(AddressOf(s, i, pc)) < Kib
        /\ Moved(s, i, pc) \in Int32 /\ pc \in 0 .. MapEnd - 1
    BY <1>1, ProperSingle
  <2>3. CASE i.load
    <3>1. Rested(SingleLoad(s, i, pc, AddressOf(s, i, pc)))
      BY <1>1, <2>2, <2>3, SingleLoadRested
    <3> QED
      BY <2>1, <2>3, <3>1 DEF Helper
  <2>4. CASE ~i.load
    <3>1. Rested(SingleStore(s, i, pc, AddressOf(s, i, pc), FALSE))
      BY <1>1, <2>2, SingleStoreRested
    <3> QED
      BY <2>1, <2>4, <3>1 DEF Helper
  <2> QED
    BY <2>1, <2>3, <2>4
<1>2. CASE i \in Multiples
  <2>1. i.k = "block" /\ i.k # "single" /\ i.load \in BOOLEAN
    BY <1>2, MultipleFields
  <2>2. Reaches(i, FirstOf(s, i)) /\ NewBase(s, i) \in Int32 /\ pc \in 0 .. MapEnd - 1
    BY <1>2, ProperBlock
  <2>3. CASE i.load
    <3>1. Rested(BlockLoad(s, i, FirstOf(s, i), pc))
      BY <1>2, <2>2, BlockLoadRested
    <3> QED
      BY <2>1, <2>3, <3>1 DEF Helper
  <2>4. CASE ~i.load
    <3>1. Rested(BlockStore(s, i, FirstOf(s, i), pc, FALSE))
      BY <1>2, <2>2, BlockStoreRested
    <3> QED
      BY <2>1, <2>4, <3>1 DEF Helper
  <2> QED
    BY <2>1, <2>3, <2>4
<1>3. CASE i \in Swaps
  <2>1. i.k = "swap" /\ i.k # "single" /\ i.k # "block"
    BY <1>3, SwapFields
  <2>2. Reached(s, i, pc) = {s.r[i.rn]}
    BY <2>1 DEF Reached
  <2>3. Plain(i, s.r[i.rn]) /\ pc \in 0 .. MapEnd - 1
    BY <2>2 DEF Proper
  <2>4. Held(s.r[i.rn]) /\ (Region(s.r[i.rn]) = 4 => IoOffset(s.r[i.rn]) < Kib)
    BY <2>3 DEF Plain
  <2>5. Rested(Swap(s, i, pc, FALSE))
    BY <1>3, <2>3, <2>4, SwapRested
  <2> QED
    BY <2>1, <2>5 DEF Helper
<1> QED
  BY <1>1, <1>2, <1>3 DEF Proper

-----------------------------------------------------------------------------
(* Where a native access goes: the page of the map and the cell of gpSP.   *)

LEMMA AlignedIs ==
  ASSUME NEW a \in Int, NEW n \in Spans, a % n = 0
  PROVE  Masked(a, n) = a
BY DEF Masked, Spans

\* Two addresses of one page of the map.
SamePage(a, b) ==
  /\ Region(a) = Region(b) /\ Masked(a % (256 * Kib), PageBytes) = Masked(b % (256 * Kib), PageBytes)
  /\ Masked(a % (128 * Kib), PageBytes) = Masked(b % (128 * Kib), PageBytes)
  /\ RomOffset(a) \div PageBytes = RomOffset(b) \div PageBytes

LEMMA OfOnePage ==
  ASSUME NEW a \in Int, NEW b \in Int, a \div PageBytes = b \div PageBytes
  PROVE  SamePage(a, b)
<1>1. ASSUME NEW x \in Int
      PROVE  LET q == x \div PageBytes
             IN  /\ Region(x) = IF q < 0 THEN 255 ELSE q \div 512
                 /\ Masked(x % (256 * Kib), PageBytes) = (q % 8) * PageBytes
                 /\ Masked(x % (128 * Kib), PageBytes) = (q % 4) * PageBytes
                 /\ RomOffset(x) \div PageBytes = q % 1024
  <2>1. Region(x) = IF x \div PageBytes < 0 THEN 255 ELSE (x \div PageBytes) \div 512
    BY SMT DEF Region, Kib, PageBytes
  <2>2. Masked(x % (256 * Kib), PageBytes) = ((x \div PageBytes) % 8) * PageBytes
    BY SMT DEF Masked, Kib, PageBytes
  <2>3. Masked(x % (128 * Kib), PageBytes) = ((x \div PageBytes) % 4) * PageBytes
    BY SMT DEF Masked, Kib, PageBytes
  <2>4. RomOffset(x) \div PageBytes = (x \div PageBytes) % 1024
    BY SMT DEF RomOffset, Kib, PageBytes
  <2> QED
    BY <2>1, <2>2, <2>3, <2>4
<1> QED
  BY <1>1 DEF SamePage

LEMMA HostPageSame ==
  ASSUME NEW s, NEW a, NEW b, SamePage(a, b)
  PROVE  HostPage(s, a) = HostPage(s, b)
<1>1. Region(a) = Region(b) /\ PageOf(a) = PageOf(b)
  BY DEF SamePage, PageOf
<1> QED
  BY <1>1 DEF SamePage, HostPage

\* The offsets of the areas, from the page and the offset in it.
LEMMA AreaOffsets ==
  ASSUME NEW a \in Int
  PROVE  /\ Masked(a % (256 * Kib), PageBytes) + (a % PageBytes) = a % (256 * Kib)
         /\ Fold(Masked(a % (128 * Kib), PageBytes)) + (a % PageBytes) = Fold(a % (128 * Kib))
         /\ Masked(RomOffset(a), PageBytes) + (a % PageBytes) = RomOffset(a)
         /\ (RomOffset(a) \div PageBytes) * PageBytes + (a % PageBytes) = RomOffset(a)
         /\ IoOffset(a) < Kib => a % PageBytes = a % Kib /\ a % Kib = IoOffset(a)
         /\ RomOffset(a) \in Nat /\ RomOffset(a) \div PageBytes \in Nat
<1>1. /\ Masked(a % (256 * Kib), PageBytes) + (a % PageBytes) = a % (256 * Kib)
      /\ Fold(Masked(a % (128 * Kib), PageBytes)) + (a % PageBytes) = Fold(a % (128 * Kib))
  BY SMT DEF Masked, Kib, PageBytes, Fold
<1>2. /\ Masked(RomOffset(a), PageBytes) + (a % PageBytes) = RomOffset(a)
      /\ (RomOffset(a) \div PageBytes) * PageBytes + (a % PageBytes) = RomOffset(a)
      /\ RomOffset(a) \in Nat /\ RomOffset(a) \div PageBytes \in Nat
  BY SMT DEF Masked, Kib, PageBytes, RomOffset
<1>3. IoOffset(a) < Kib => a % PageBytes = a % Kib /\ a % Kib = IoOffset(a)
  BY SMT DEF Kib, PageBytes, IoOffset
<1> QED
  BY <1>1, <1>2, <1>3

LEMMA SmallModulo ==
  ASSUME NEW x \in Nat, NEW m \in Nat, x < m
  PROVE  x % m = x
OBVIOUS

LEMMA PageOfImage ==
  ASSUME NEW a \in Int, RomOffset(a) < RomBytes
  PROVE  PageOf(a) = RomOffset(a) \div PageBytes /\ PageOf(a) \in 0 .. RomPages - 1
<1> DEFINE x == RomOffset(a) \div PageBytes
<1>1. x \in Nat /\ RomOffset(a) \in Nat
  BY AreaOffsets
<1>2. RomPages \in Nat
  BY ImageSize
<1>3. x < RomPages
  BY <1>1, <1>2, SMT DEF RomBytes, PageBytes, Kib
<1> HIDE DEF x
<1>4. x % RomPages = x
  BY <1>1, <1>2, <1>3, SmallModulo
<1>5. PageOf(a) = x
  BY <1>4 DEF PageOf, x
<1>6. PageOf(a) \in 0 .. RomPages - 1
  BY <1>1, <1>2, <1>3, <1>5
<1> QED
  BY <1>5, <1>6 DEF x

\* The machines a page is mapped or in fragments for read it without a fill.
Settled(s, a) == \A t \in State : t.pages = s.pages => Filled(t, a) = t

LEMMA NullIs ==
  /\ <<"bios", 0>> # Null /\ \A x : <<"ewram", x>> # Null /\ <<"iwram", x>> # Null /\ <<"io", x>> # Null
                              /\ <<"vram", x>> # Null /\ <<"rom", x>> # Null
BY DEF Null

LEMMA HostPageIs ==
  ASSUME NEW s, NEW a \in Int
  PROVE  /\ Region(a) = 0 => HostPage(s, a) = <<"bios", 0>>
         /\ Region(a) = 2 => HostPage(s, a) = <<"ewram", Masked(a % (256 * Kib), PageBytes)>>
         /\ Region(a) = 3 => HostPage(s, a) = <<"iwram", PageBytes>>
         /\ Region(a) = 4 => HostPage(s, a) = <<"io", 0>>
         /\ Region(a) = 6 => HostPage(s, a) = <<"vram", Fold(Masked(a % (128 * Kib), PageBytes))>>
         /\ Region(a) \in 8 .. 12 => HostPage(s, a) = IF s.pages[PageOf(a)] # "null" THEN <<"rom", PageOf(a) * PageBytes>> ELSE Null
         /\ Region(a) \notin {0, 2, 3, 4, 6} \cup 8 .. 12 => HostPage(s, a) = Null
BY RegionType, SMT DEF HostPage

LEMMA PlaceIs ==
  ASSUME NEW a \in Int
  PROVE  /\ Region(a) = 2 => Place(a) = <<"ewram", a % (256 * Kib)>>
         /\ Region(a) = 3 => Place(a) = <<"iwram", PageBytes + (a % PageBytes)>>
         /\ Region(a) = 4 => Place(a) = <<"io", a % Kib>>
         /\ Region(a) = 5 => Place(a) = <<"pal", a % Kib>>
         /\ Region(a) = 6 => Place(a) = <<"vram", Fold(a % (128 * Kib))>>
BY RegionType, SMT DEF Place

LEMMA AtPlace ==
  ASSUME NEW s, NEW a \in Int, Region(a) \in {2, 3, 4, 6}, Region(a) = 4 => IoOffset(a) < Kib
  PROVE  At(HostPage(s, a), a) = Place(a) /\ HostPage(s, a) # Null
<1>1. At(<<"ewram", Masked(a % (256 * Kib), PageBytes)>>, a) = <<"ewram", a % (256 * Kib)>>
  BY AreaOffsets DEF At
<1>2. At(<<"iwram", PageBytes>>, a) = <<"iwram", PageBytes + (a % PageBytes)>>
  BY DEF At
<1>3. IoOffset(a) < Kib => At(<<"io", 0>>, a) = <<"io", a % Kib>>
  <2>1. a % PageBytes \in Int
    BY SMT DEF PageBytes, Kib
  <2>2. 0 + (a % PageBytes) = a % PageBytes
    BY <2>1
  <2> QED
    BY <2>2, AreaOffsets DEF At
<1>4. At(<<"vram", Fold(Masked(a % (128 * Kib), PageBytes))>>, a) = <<"vram", Fold(a % (128 * Kib))>>
  BY AreaOffsets DEF At
<1>5. CASE Region(a) = 2
  BY <1>1, <1>5, HostPageIs, PlaceIs, NullIs
<1>6. CASE Region(a) = 3
  BY <1>2, <1>6, HostPageIs, PlaceIs, NullIs
<1>7. CASE Region(a) = 4
  BY <1>3, <1>7, HostPageIs, PlaceIs, NullIs
<1>8. CASE Region(a) = 6
  BY <1>4, <1>8, HostPageIs, PlaceIs, NullIs
<1> QED
  BY <1>5, <1>6, <1>7, <1>8

LEMMA AtImage ==
  ASSUME NEW s \in State, NEW a \in Int, Region(a) \in 8 .. 12, RomOffset(a) < RomBytes
  PROVE  /\ HostPage(s, a) # Null => At(HostPage(s, a), a) = <<"rom", RomOffset(a)>> /\ Settled(s, a)
         /\ Fragment(s, a) # Null => At(Fragment(s, a), a) = <<"rom", RomOffset(a)>> /\ Settled(s, a)
<1>1. ASSUME HostPage(s, a) # Null
      PROVE  At(HostPage(s, a), a) = <<"rom", RomOffset(a)>> /\ Settled(s, a)
  <2>1. HostPage(s, a) = <<"rom", PageOf(a) * PageBytes>> /\ s.pages[PageOf(a)] # "null"
    BY <1>1, HostPageIs
  <2>2. (PageOf(a) * PageBytes) + (a % PageBytes) = RomOffset(a)
    BY PageOfImage, AreaOffsets
  <2>3. At(HostPage(s, a), a) = <<"rom", RomOffset(a)>>
    BY <2>1, <2>2 DEF At
  <2>4. Settled(s, a)
    BY <2>1 DEF Settled, Filled
  <2> QED
    BY <2>3, <2>4
<1>2. ASSUME Fragment(s, a) # Null
      PROVE  At(Fragment(s, a), a) = <<"rom", RomOffset(a)>> /\ Settled(s, a)
  <2>1. Fragment(s, a) = <<"rom", Masked(RomOffset(a), PageBytes)>> /\ RomOffset(a) \div 4096 \in Fragments
    BY <1>2, SMT DEF Fragment
  <2>2. At(Fragment(s, a), a) = <<"rom", RomOffset(a)>>
    BY <2>1, AreaOffsets DEF At
  <2>3. Settled(s, a)
    BY <2>1 DEF Settled, Filled
  <2> QED
    BY <2>2, <2>3
<1> QED
  BY <1>1, <1>2

LEMMA SettledBelow ==
  ASSUME NEW s, NEW a \in Int, Region(a) \notin 8 .. 12
  PROVE  Settled(s, a)
BY DEF Settled, Filled, RomRead

\* What read_memory returns where a native load may look.
LEMMA ReadIs ==
  ASSUME NEW s, NEW a \in Int, NEW n
  PROVE  /\ Region(a) \in 2 .. 7 => Read(s, a, n) = Host(s, Place(a), n)
         /\ Region(a) \in 8 .. 12 /\ RomOffset(a) < RomBytes => Read(s, a, n) = Host(s, <<"rom", RomOffset(a)>>, n)
BY RegionType, SMT DEF Read, RomRead

LEMMA NativeRead ==
  ASSUME NEW s \in State, NEW a \in Int, Region(a) \in 2 .. 12, LoadPage(s, a) # Null,
         Region(a) = 4 => IoOffset(a) < Kib, Region(a) \in 8 .. 12 => RomOffset(a) < RomBytes, NEW n
  PROVE  Host(s, At(LoadPage(s, a), a), n) = Read(s, a, n) /\ Settled(s, a)
<1>1. CASE Region(a) \in 8 .. 12
  <2>1. At(LoadPage(s, a), a) = <<"rom", RomOffset(a)>> /\ Settled(s, a)
    BY <1>1, AtImage DEF LoadPage
  <2> QED
    BY <1>1, <2>1, ReadIs
<1>2. CASE Region(a) \notin 8 .. 12
  <2>1. Fragment(s, a) = Null
    BY <1>2, SMT DEF Fragment
  <2>2. HostPage(s, a) # Null /\ LoadPage(s, a) = HostPage(s, a)
    BY <2>1 DEF LoadPage
  <2>3. Region(a) \in {2, 3, 4, 6}
    BY <1>2, <2>2, HostPageIs, SMT
  <2>4. Region(a) \in 2 .. 7
    BY <2>3
  <2>5. Host(s, At(LoadPage(s, a), a), n) = Read(s, a, n)
    BY <2>2, <2>3, <2>4, AtPlace, ReadIs
  <2> QED
    BY <1>2, <2>5, SettledBelow
<1> QED
  BY <1>1, <1>2

-----------------------------------------------------------------------------
(* Cycles: the debits of the routines are the charges of the helpers.      *)

LEMMA WaitStatesAre ==
  ASSUME NEW t \in {SeqCost, NseqCost}
  PROVE  /\ t \in [0 .. 31 -> Int] /\ t[4] = 3 /\ t[5] = 6 /\ t[6] = 1 /\ t[7] = 1 /\ t[8] = 1 /\ t[9] = 1
         /\ t[10] = 1 /\ t[11] = 2 /\ t[12] = 1 /\ t[13] = 2 /\ t[14] = 1 /\ t[15] = 2
BY WaitStates

\* The cost of an access of region r, as read from one table.
Tabled(t, r, word) ==
  CASE r = 2 -> IF word = 1 THEN 6 ELSE 3 [] r \in {5, 6, 7} /\ word = 1 -> 2
    [] r >= 8 -> t[2 * r + word] [] OTHER -> 1
LEMMA TabledIs ==
  ASSUME NEW t \in {SeqCost, NseqCost}, NEW r \in 2 .. 12, NEW word \in {0, 1}
  PROVE  Tabled(t, r, word) = t[2 * r + word]
<1>1. CASE r \in 8 .. 12
  BY <1>1 DEF Tabled
<1>2. CASE r \in 2 .. 7
  <2>1. r = 2 \/ r = 3 \/ r = 4 \/ r = 5 \/ r = 6 \/ r = 7
    BY <1>2
  <2>2. word = 0 \/ word = 1
    OBVIOUS
  <2>3. CASE r = 2
    BY <2>2, <2>3, WaitStatesAre DEF Tabled
  <2>4. CASE r = 3
    BY <2>2, <2>4, WaitStatesAre DEF Tabled
  <2>5. CASE r = 4
    BY <2>2, <2>5, WaitStatesAre DEF Tabled
  <2>6. CASE r = 5
    BY <2>2, <2>6, WaitStatesAre DEF Tabled
  <2>7. CASE r = 6
    BY <2>2, <2>7, WaitStatesAre DEF Tabled
  <2>8. CASE r = 7
    BY <2>2, <2>8, WaitStatesAre DEF Tabled
  <2> QED
    BY <2>1, <2>3, <2>4, <2>5, <2>6, <2>7, <2>8
<1> QED
  BY <1>1, <1>2

LEMMA CostIs ==
  ASSUME NEW a \in Int, Region(a) \in 2 .. 12, NEW n \in Spans
  PROVE  /\ CostOf(FALSE, a, n) = NseqCost[2 * Region(a) + (IF n = 4 THEN 1 ELSE 0)]
         /\ CostOf(TRUE, a, n) = SeqCost[2 * Region(a) + (IF n = 4 THEN 1 ELSE 0)]
BY DEF CostOf

LEMMA ChargingIs ==
  ASSUME NEW s, NEW a \in Int, Region(a) \in 2 .. 12, NEW n \in Spans
  PROVE  Charging(s, a, n) = Charged(s, CostOf(FALSE, a, n))
<1> DEFINE r == Region(a)
           w == IF n = 4 THEN 1 ELSE 0
<1>1. Debit(FALSE, r, n = 4) = Tabled(NseqCost, r, w)
  BY DEF Debit, Tabled
<1>2. Tabled(NseqCost, r, w) = NseqCost[2 * r + w]
  <2>1. w \in {0, 1} /\ r \in 2 .. 12 /\ NseqCost \in {SeqCost, NseqCost}
    OBVIOUS
  <2> HIDE DEF w, r
  <2> QED
    BY <2>1, TabledIs
<1>3. CostOf(FALSE, a, n) = NseqCost[2 * r + w]
  BY CostIs
<1>4. Debit(FALSE, r, n = 4) = CostOf(FALSE, a, n)
  BY <1>1, <1>2, <1>3
<1> QED
  BY <1>4 DEF Charging

LEMMA SeqDebitIs ==
  ASSUME NEW a \in Int, Region(a) \in 2 .. 12
  PROVE  /\ Debit(TRUE, Region(a), TRUE) = SeqCost[2 * Region(a) + 1]
         /\ CostOf(TRUE, a, 4) = SeqCost[2 * Region(a) + 1] /\ SeqCost[2 * Region(a) + 1] \in Int
<1> DEFINE r == Region(a)
<1>1. Debit(TRUE, r, TRUE) = Tabled(SeqCost, r, 1)
  BY DEF Debit, Tabled
<1>2. Tabled(SeqCost, r, 1) = SeqCost[2 * r + 1]
  <2>1. r \in 2 .. 12 /\ SeqCost \in {SeqCost, NseqCost}
    OBVIOUS
  <2> HIDE DEF r
  <2> QED
    BY <2>1, TabledIs
<1>3. CostOf(TRUE, a, 4) = SeqCost[2 * r + 1]
  BY CostIs DEF Spans
<1>4. CostOf(TRUE, a, 4) \in Int
  BY CostType
<1> QED
  BY <1>1, <1>2, <1>3, <1>4

-----------------------------------------------------------------------------
(* Updates of different fields commute.                                    *)

LEMMA BreakNothing ==
  ASSUME NEW s \in State, s.alert = {}, NEW pc
  PROVE  AlertBreak(s, pc) = s
<1>1. [s EXCEPT !.alert = {}] = s
  BY SMT DEF State
<1>2. s.alert \subseteq {"irq"} /\ "smc" \notin s.alert
  OBVIOUS
<1> QED
  BY <1>1, <1>2 DEF AlertBreak

WithR(s, x) == [s EXCEPT !.r = x]
WithMem(s, x) == [s EXCEPT !.mem = x]
WithCyc(s, x) == [s EXCEPT !.cyc = x]

LEMMA WithFields ==
  ASSUME NEW s \in State, NEW x
  PROVE  /\ WithR(s, x).r = x /\ WithR(s, x).mem = s.mem /\ WithR(s, x).cyc = s.cyc
         /\ WithMem(s, x).r = s.r /\ WithMem(s, x).mem = x /\ WithMem(s, x).cyc = s.cyc
         /\ WithCyc(s, x).r = s.r /\ WithCyc(s, x).mem = s.mem /\ WithCyc(s, x).cyc = x
         /\ WithR(s, s.r) = s /\ WithMem(s, s.mem) = s /\ WithCyc(s, s.cyc) = s
BY SMT DEF WithR, WithMem, WithCyc, State

\* Two updates of different places of a function commute.
LEMMA ExceptTwice ==
  ASSUME NEW f, NEW D, f = [z \in D |-> f[z]], NEW p \in D, NEW q \in D, p # q, NEW x, NEW y
  PROVE  [[f EXCEPT ![p] = x] EXCEPT ![q] = y] = [[f EXCEPT ![q] = y] EXCEPT ![p] = x]
OBVIOUS

LEMMA WithTwice ==
  ASSUME NEW s \in State, NEW x, NEW y
  PROVE  /\ WithR(WithR(s, x), y) = WithR(s, y) /\ WithMem(WithMem(s, x), y) = WithMem(s, y)
         /\ WithCyc(WithCyc(s, x), y) = WithCyc(s, y)
         /\ WithR(WithMem(s, x), y) = WithMem(WithR(s, y), x)
         /\ WithR(WithCyc(s, x), y) = WithCyc(WithR(s, y), x)
         /\ WithMem(WithCyc(s, x), y) = WithCyc(WithMem(s, y), x)
<1>1. WithR(WithR(s, x), y) = WithR(s, y)
  BY DEF WithR
<1>2. WithMem(WithMem(s, x), y) = WithMem(s, y)
  BY DEF WithMem
<1>3. WithCyc(WithCyc(s, x), y) = WithCyc(s, y)
  BY DEF WithCyc
<1> DEFINE D == DOMAIN s
<1>4. s = [z \in D |-> s[z]] /\ "r" \in D /\ "mem" \in D /\ "cyc" \in D
  BY SMT DEF State
<1> HIDE DEF D
<1>5. WithR(WithMem(s, x), y) = WithMem(WithR(s, y), x)
  <2>1. [[s EXCEPT !["mem"] = x] EXCEPT !["r"] = y] = [[s EXCEPT !["r"] = y] EXCEPT !["mem"] = x]
    BY <1>4, ExceptTwice
  <2> QED
    BY <2>1 DEF WithR, WithMem
<1>6. WithR(WithCyc(s, x), y) = WithCyc(WithR(s, y), x)
  <2>1. [[s EXCEPT !["cyc"] = x] EXCEPT !["r"] = y] = [[s EXCEPT !["r"] = y] EXCEPT !["cyc"] = x]
    BY <1>4, ExceptTwice
  <2> QED
    BY <2>1 DEF WithR, WithCyc
<1>7. WithMem(WithCyc(s, x), y) = WithCyc(WithMem(s, y), x)
  <2>1. [[s EXCEPT !["cyc"] = x] EXCEPT !["mem"] = y] = [[s EXCEPT !["mem"] = y] EXCEPT !["cyc"] = x]
    BY <1>4, ExceptTwice
  <2> QED
    BY <2>1 DEF WithMem, WithCyc
<1> QED
  BY <1>1, <1>2, <1>3, <1>5, <1>6, <1>7

LEMMA SetFields ==
  ASSUME NEW s \in State, NEW r \in Register, NEW v \in Int32
  PROVE  /\ Set(s, r, v) \in State /\ Set(s, r, v).mem = s.mem /\ Set(s, r, v).pages = s.pages
         /\ Set(s, r, v).code = s.code /\ Set(s, r, v).alert = s.alert /\ Set(s, r, v).cyc = s.cyc
BY SetType

\* The updates, by the field they replace.
LEMMA SetIs ==
  ASSUME NEW s, NEW r, NEW v
  PROVE  Set(s, r, v) = WithR(s, [s.r EXCEPT ![r] = v])
BY DEF Set, WithR
LEMMA ChargedIs ==
  ASSUME NEW s, NEW x
  PROVE  Charged(s, x) = WithCyc(s, s.cyc + x)
BY DEF Charged, WithCyc
LEMMA PutWith ==
  ASSUME NEW s \in State, NEW c, NEW n \in Spans, NEW v \in Int
  PROVE  Put(s, c, n, v) = WithMem(s, PutCells(s, c, n, v))
BY PutIs DEF WithMem

LEMMA ChargedSet ==
  ASSUME NEW s \in State, NEW r, NEW v, NEW x \in Int
  PROVE  Set(Charged(s, x), r, v) = Charged(Set(s, r, v), x)
<1> DEFINE q == [s.r EXCEPT ![r] = v]
           y == s.cyc + x
<1>1. Charged(s, x).r = s.r
  BY ChargedType
<1>2. Set(Charged(s, x), r, v) = WithR(WithCyc(s, y), q)
  BY <1>1, SetIs, ChargedIs
<1>3. WithR(s, q).cyc = s.cyc
  BY WithFields
<1>4. Charged(Set(s, r, v), x) = WithCyc(WithR(s, q), y)
  BY <1>3, SetIs, ChargedIs
<1> HIDE DEF q, y
<1> QED
  BY <1>2, <1>4, WithTwice

LEMMA ChargedTwice ==
  ASSUME NEW s \in State, NEW x \in Int, NEW y \in Int
  PROVE  Charged(Charged(s, x), y) = Charged(s, x + y) /\ Charged(s, 0) = s
<1>1. s.cyc \in Int
  BY SMT DEF State
<1>2. s.cyc + 0 = s.cyc /\ (s.cyc + x) + y = s.cyc + (x + y)
  BY <1>1
<1>3. Charged(s, 0) = s
  BY <1>2, ChargedIs, WithFields
<1>4. Charged(s, x).cyc = s.cyc + x
  BY ChargedType
<1>5. Charged(Charged(s, x), y) = WithCyc(WithCyc(s, s.cyc + x), (s.cyc + x) + y)
  BY <1>4, ChargedIs
<1>6. WithCyc(WithCyc(s, s.cyc + x), (s.cyc + x) + y) = WithCyc(s, (s.cyc + x) + y)
  BY WithTwice
<1>7. Charged(s, x + y) = WithCyc(s, s.cyc + (x + y))
  BY ChargedIs
<1> QED
  BY <1>2, <1>3, <1>5, <1>6, <1>7

LEMMA SetTwice ==
  ASSUME NEW s \in State, NEW p \in Register, NEW q \in Register, p # q, NEW v \in Int32, NEW w \in Int32
  PROVE  Set(Set(s, p, v), q, w) = Set(Set(s, q, w), p, v)
<1> DEFINE r1 == [[s.r EXCEPT ![p] = v] EXCEPT ![q] = w]
           r2 == [[s.r EXCEPT ![q] = w] EXCEPT ![p] = v]
<1>1. r1 = r2
  <2>1. s.r \in [Register -> Int32]
    BY SMT DEF State
  <2> QED
    BY <2>1
<1>2. Set(s, p, v).r = [s.r EXCEPT ![p] = v] /\ Set(s, q, w).r = [s.r EXCEPT ![q] = w]
  BY SetType
<1>3. Set(Set(s, p, v), q, w) = WithR(Set(s, p, v), r1) /\ Set(Set(s, q, w), p, v) = WithR(Set(s, q, w), r2)
  BY <1>2, SetIs
<1> DEFINE p1 == [s.r EXCEPT ![p] = v]
           q1 == [s.r EXCEPT ![q] = w]
<1>4. Set(s, p, v) = WithR(s, p1) /\ Set(s, q, w) = WithR(s, q1)
  BY SetIs
<1> HIDE DEF r1, r2, p1, q1
<1>5. WithR(Set(s, p, v), r1) = WithR(s, r1) /\ WithR(Set(s, q, w), r2) = WithR(s, r2)
  BY <1>4, WithTwice
<1> QED
  BY <1>1, <1>3, <1>5

LEMMA ChargedPut ==
  ASSUME NEW s \in State, NEW c, NEW n \in Spans, NEW v \in Int, NEW x \in Int
  PROVE  Put(Charged(s, x), c, n, v) = Charged(Put(s, c, n, v), x)
<1> DEFINE m == PutCells(s, c, n, v)
           y == s.cyc + x
<1>1. Charged(s, x) \in State /\ Charged(s, x).mem = s.mem /\ Put(s, c, n, v).cyc = s.cyc
  BY ChargedType, PutType
<1>2. PutCells(Charged(s, x), c, n, v) = m
  BY <1>1 DEF PutCells
<1>3. Put(Charged(s, x), c, n, v) = WithMem(Charged(s, x), m)
  BY <1>1, <1>2, PutWith
<1>4. Put(s, c, n, v) = WithMem(s, m)
  BY PutWith
<1>5. Charged(Put(s, c, n, v), x) = WithCyc(Put(s, c, n, v), y) /\ Charged(s, x) = WithCyc(s, y)
  BY <1>1, ChargedIs
<1> HIDE DEF m, y
<1>6. WithMem(WithCyc(s, y), m) = WithCyc(WithMem(s, m), y)
  BY WithTwice
<1> QED
  BY <1>3, <1>4, <1>5, <1>6

LEMMA PutSet ==
  ASSUME NEW s \in State, NEW c, NEW n \in Spans, NEW v \in Int, NEW r \in Register, NEW w \in Int32
  PROVE  Put(Set(s, r, w), c, n, v) = Set(Put(s, c, n, v), r, w)
<1> DEFINE m == PutCells(s, c, n, v)
           q == [s.r EXCEPT ![r] = w]
<1>1. Set(s, r, w) \in State /\ Set(s, r, w).mem = s.mem /\ Put(s, c, n, v).r = s.r
  BY SetFields, PutType
<1>2. PutCells(Set(s, r, w), c, n, v) = m
  BY <1>1 DEF PutCells
<1>3. Put(Set(s, r, w), c, n, v) = WithMem(Set(s, r, w), m)
  BY <1>1, <1>2, PutWith
<1>4. Put(s, c, n, v) = WithMem(s, m)
  BY PutWith
<1>5. Set(Put(s, c, n, v), r, w) = WithR(Put(s, c, n, v), q) /\ Set(s, r, w) = WithR(s, q)
  BY <1>1, SetIs
<1> HIDE DEF m, q
<1>6. WithR(WithMem(s, m), q) = WithMem(WithR(s, q), m)
  BY WithTwice
<1> QED
  BY <1>3, <1>4, <1>5, <1>6

-----------------------------------------------------------------------------
(* Single loads.                                                           *)

LEMMA LoadedAligned ==
  ASSUME NEW s \in State, NEW kind \in {"W", "B", "UH", "SH", "SB"}, NEW a \in Int, a % SizeOf(kind) = 0
  PROVE  Loaded(s, kind, a) = Extended(kind, Read(s, a, SizeOf(kind)))
<1>1. CASE kind = "W"
  <2>1. SizeOf(kind) = 4 /\ a % 4 = 0 /\ Masked(a, 4) = a
    BY <1>1, AlignedIs DEF SizeOf, Spans
  <2> DEFINE b == Read(s, Masked(a, 4), 4)
             w == [k \in 1 .. 4 |-> b[1 + ((k - 1 + (a % 4)) % 4)]]
  <2>2. w[1] = b[1] /\ w[2] = b[2] /\ w[3] = b[3] /\ w[4] = b[4]
    BY <2>1
  <2>3. Loaded(s, kind, a) = Whole(w)
    <3>1. PICK z : z = Whole(w)
      OBVIOUS
    <3>2. Loaded(s, kind, a) = z
      BY <1>1, <3>1, SMT DEF Loaded
    <3> QED
      BY <3>1, <3>2
  <2>5. Extended(kind, Read(s, a, SizeOf(kind))) = Whole(b)
    <3>1. b = Read(s, a, SizeOf(kind))
      BY <2>1
    <3> HIDE DEF b
    <3> QED
      BY <1>1, <3>1 DEF Extended
  <2> HIDE DEF b, w
  <2>4. Whole(w) = Whole(b)
    BY <2>2 DEF Whole, Half, Upper
  <2> QED
    BY <2>3, <2>4, <2>5
<1>2. CASE kind = "UH"
  <2>1. SizeOf(kind) = 2 /\ a % 2 = 0 /\ Masked(a, 2) = a
    BY <1>2, AlignedIs DEF SizeOf, Spans
  <2> QED
    BY <1>2, <2>1 DEF Loaded, Extended
<1>3. CASE kind = "SH"
  <2>1. SizeOf(kind) = 2 /\ a % 2 = 0
    BY <1>3 DEF SizeOf
  <2> QED
    BY <1>3, <2>1 DEF Loaded, Extended
<1>4. CASE kind = "SB"
  BY <1>4 DEF Loaded, Extended, SizeOf
<1>5. CASE kind = "B"
  BY <1>5 DEF Loaded, Extended, SizeOf
<1> QED
  BY <1>1, <1>2, <1>3, <1>4, <1>5

LEMMA ExecuteLoadIs ==
  ASSUME NEW t \in State, NEW kind, NEW a \in Int, NEW seq \in BOOLEAN, Settled(t, a)
  PROVE  ExecuteLoad(t, kind, a, seq) = Charged(t, CostOf(seq, a, SizeOf(kind)))
<1> DEFINE n == SizeOf(kind)
           u == Charge(t, seq, a, n)
<1>1. u = Charged(t, CostOf(seq, a, n)) /\ u \in State /\ u.pages = t.pages
  BY ChargeType
<1> HIDE DEF u
<1>2. Filled(u, a) = u
  BY <1>1 DEF Settled
<1>3. ExecuteLoad(t, kind, a, seq) = Filled(u, a)
  BY DEF ExecuteLoad, u
<1> QED
  BY <1>1, <1>2, <1>3

LEMMA SettledSame ==
  ASSUME NEW s, NEW t, t.pages = s.pages, NEW a, Settled(s, a)
  PROVE  Settled(t, a)
BY DEF Settled

LEMMA LoadAgrees ==
  ASSUME NEW s, Rested(s), NEW i \in Singles, i.rd # 15, ~(WritesBack(i) /\ i.rd = i.rn),
         NEW a \in Int, Held(a), a % SizeOf(i.kind) = 0, Settled(s, a), NEW pc, Moved(s, i, pc) \in Int32,
         NEW b, b = Read(s, a, SizeOf(i.kind))
  PROVE  SingleLoad(s, i, pc, a)
           = Charged(Back(Set(s, i.rd, Extended(i.kind, b)), i, Moved(s, i, pc)), CostOf(FALSE, a, SizeOf(i.kind)))
<1> DEFINE v == Loaded(s, i.kind, a)
           new == Moved(s, i, pc)
           back == IF WritesBack(i) THEN Set(s, i.rn, new) ELSE s
           x == CostOf(FALSE, a, SizeOf(i.kind))
           u == Set(back, i.rd, v)
<1>1. s \in State /\ s.alert = {} /\ i.kind \in {"W", "B", "UH", "SH", "SB"} /\ i.rd \in Register /\ i.rn \in Register
  BY SingleFields DEF Rested
<1>2. v = Extended(i.kind, b) /\ v \in Int32
  BY <1>1, LoadedAligned, LoadedType
<1>3. x \in Int
  BY CostType
<1>4. new \in Int32
  OBVIOUS
<1> HIDE DEF v, x, new
<1>5. back \in State /\ back.alert = {} /\ back.pages = s.pages
  BY <1>1, <1>4, SetFields
<1>6. u = Back(Set(s, i.rd, v), i, new)
  <2>1. CASE WritesBack(i)
    <3>1. Set(Set(s, i.rn, new), i.rd, v) = Set(Set(s, i.rd, v), i.rn, new)
      BY <1>1, <1>2, <1>4, <2>1, SetTwice
    <3> QED
      BY <2>1, <3>1 DEF Back
  <2>2. CASE ~WritesBack(i)
    BY <2>2 DEF Back
  <2> QED
    BY <2>1, <2>2
<1> HIDE DEF back
<1>7. ExecuteLoad(back, i.kind, a, FALSE) = Charged(back, x)
  <2>1. Settled(back, a)
    BY <1>5, SettledSame
  <2> QED
    BY <1>5, <2>1, ExecuteLoadIs DEF x
<1>8. Set(Charged(back, x), i.rd, v) = Charged(u, x)
  BY <1>3, <1>5, ChargedSet
<1>9. Charged(u, x) \in State /\ Charged(u, x).alert = {}
  <2>1. u \in State /\ u.alert = {}
    BY <1>1, <1>2, <1>5, SetFields
  <2> HIDE DEF u
  <2> QED
    BY <1>3, <2>1, ChargedType
<1>10. SingleLoad(s, i, pc, a) = AlertBreak(Set(ExecuteLoad(back, i.kind, a, FALSE), i.rd, v), pc + Width(i))
  BY DEF SingleLoad, back, v, new
<1>11. SingleLoad(s, i, pc, a) = Charged(u, x)
  BY <1>7, <1>8, <1>9, <1>10, BreakNothing
<1> QED
  BY <1>2, <1>6, <1>11 DEF x, new

LEMMA RoutineLoadAgrees ==
  ASSUME NEW s, Rested(s), NEW i \in Singles, i.load, i.rd # 15, ~(WritesBack(i) /\ i.rd = i.rn),
         NEW a \in Int, Plain(i, a), Direct(a, SizeOf(i.kind)) \/ LoadGuards(s, a, SizeOf(i.kind)),
         NEW pc, Moved(s, i, pc) \in Int32
  PROVE  RoutineLoad(s, i, a, SizeOf(i.kind), Moved(s, i, pc)) = SingleLoad(s, i, pc, a)
<1> DEFINE n == SizeOf(i.kind)
           b == Host(s, LoadCell(s, a), n)
           u == Back(Set(s, i.rd, Extended(i.kind, b)), i, Moved(s, i, pc))
<1>1. Held(a) /\ (Region(a) = 4 => IoOffset(a) < Kib) /\ (Region(a) \in 8 .. 12 => RomOffset(a) < RomBytes)
  BY SingleFields DEF Plain, InImage
<1>2. n \in Spans /\ s \in State
  BY SizeType DEF Rested
<1>3. a % n = 0 /\ Region(a) \in 2 .. 12
  BY DEF Direct, LoadGuards
<1> HIDE DEF n
<1>4. b = Read(s, a, n) /\ Settled(s, a)
  <2>1. CASE Region(a) \in {2, 3}
    <3>1. LoadCell(s, a) = Place(a)
      BY <2>1 DEF LoadCell
    <3>2. Region(a) \in 2 .. 7 /\ Region(a) \notin 8 .. 12
      BY <2>1
    <3> QED
      BY <3>1, <3>2, ReadIs, SettledBelow
  <2>2. CASE Region(a) \notin {2, 3}
    <3>1. LoadCell(s, a) = At(LoadPage(s, a), a)
      BY <2>2 DEF LoadCell
    <3>2. LoadPage(s, a) # Null
      BY <2>2 DEF Direct, LoadGuards
    <3>3. Host(s, At(LoadPage(s, a), a), n) = Read(s, a, n) /\ Settled(s, a)
      BY <1>1, <1>2, <1>3, <3>2, NativeRead
    <3> QED
      BY <3>1, <3>3
  <2> QED
    BY <2>1, <2>2
<1> HIDE DEF b
<1>5. SingleLoad(s, i, pc, a) = Charged(u, CostOf(FALSE, a, n))
  BY <1>1, <1>3, <1>4, LoadAgrees DEF n
<1> HIDE DEF u
<1>6. Charging(u, a, n) = Charged(u, CostOf(FALSE, a, n))
  BY <1>2, <1>3, ChargingIs
<1>7. RoutineLoad(s, i, a, n, Moved(s, i, pc)) = Charging(u, a, n)
  BY DEF RoutineLoad, u, b
<1> QED
  BY <1>5, <1>6, <1>7 DEF n

LEMMA InlineCosts ==
  ASSUME NEW a \in Int, NEW n \in Spans
  PROVE  /\ Region(a) = 3 /\ n # 4 => CostOf(FALSE, a, n) = 1
         /\ Region(a) = 4 => CostOf(FALSE, a, n) = NseqCost[8 + (IF n = 4 THEN 1 ELSE 0)]
<1>1. NseqCost[6] = 1
  BY WaitStatesAre
<1>2. CASE Region(a) = 3 /\ n # 4
  <2>1. 2 * Region(a) + (IF n = 4 THEN 1 ELSE 0) = 6
    BY <1>2
  <2> QED
    BY <1>1, <1>2, <2>1 DEF CostOf
<1>3. CASE Region(a) = 4
  <2>1. 2 * Region(a) = 8
    BY <1>3
  <2> QED
    BY <1>3, <2>1 DEF CostOf
<1> QED
  BY <1>2, <1>3

LEMMA ArmInlineAgrees ==
  ASSUME NEW s, Rested(s), NEW i \in Singles, i.rd # 15, ~(WritesBack(i) /\ i.rd = i.rn),
         NEW a \in Int, Plain(i, a), NEW pc, ArmInline(i, a, SizeOf(i.kind), pc), Moved(s, i, pc) \in Int32
  PROVE  InlineLoad(s, i, Place(a), SizeOf(i.kind), Moved(s, i, pc), 1) = SingleLoad(s, i, pc, a)
<1> DEFINE n == SizeOf(i.kind)
           b == Host(s, Place(a), n)
<1>1. Held(a) /\ Region(a) = 3 /\ a % n = 0 /\ n \in {1, 2} /\ i.kind \in {"SB", "SH"}
  BY DEF Plain, ArmInline, SizeOf
<1> HIDE DEF n
<1>2. b = Read(s, a, n) /\ Settled(s, a)
  <2>1. Region(a) \in 2 .. 7 /\ Region(a) \notin 8 .. 12
    BY <1>1
  <2> QED
    BY <2>1, ReadIs, SettledBelow
<1>3. CostOf(FALSE, a, n) = 1
  <2>1. n \in Spans /\ n # 4
    BY <1>1 DEF Spans
  <2> QED
    BY <1>1, <2>1, InlineCosts
<1> HIDE DEF b
<1>4. SingleLoad(s, i, pc, a) = Charged(Back(Set(s, i.rd, Extended(i.kind, b)), i, Moved(s, i, pc)), CostOf(FALSE, a, n))
  BY <1>1, <1>2, LoadAgrees DEF n
<1> QED
  BY <1>3, <1>4 DEF InlineLoad, b, n

LEMMA IoInlineAgrees ==
  ASSUME NEW s, Rested(s), NEW i \in Singles, i.load, i.rd # 15, ~(WritesBack(i) /\ i.rd = i.rn),
         NEW a \in Int, Plain(i, a), Region(a) = 4, a % SizeOf(i.kind) = 0, NEW pc, Moved(s, i, pc) \in Int32
  PROVE  InlineLoad(s, i, <<"io", a % Kib>>, SizeOf(i.kind), Moved(s, i, pc), NseqCost[8 + (IF SizeOf(i.kind) = 4 THEN 1 ELSE 0)])
           = SingleLoad(s, i, pc, a)
<1> DEFINE n == SizeOf(i.kind)
           b == Host(s, <<"io", a % Kib>>, n)
<1>1. Held(a) /\ n \in Spans
  BY SizeType DEF Plain
<1> HIDE DEF n
<1>2. b = Read(s, a, n) /\ Settled(s, a)
  <2>1. Region(a) \in 2 .. 7 /\ Region(a) \notin 8 .. 12 /\ Place(a) = <<"io", a % Kib>>
    BY PlaceIs
  <2> QED
    BY <2>1, ReadIs, SettledBelow
<1>3. CostOf(FALSE, a, n) = NseqCost[8 + (IF n = 4 THEN 1 ELSE 0)]
  BY <1>1, InlineCosts
<1> HIDE DEF b
<1>4. SingleLoad(s, i, pc, a) = Charged(Back(Set(s, i.rd, Extended(i.kind, b)), i, Moved(s, i, pc)), CostOf(FALSE, a, n))
  BY <1>1, <1>2, LoadAgrees DEF n
<1> QED
  BY <1>3, <1>4 DEF InlineLoad, b, n

-----------------------------------------------------------------------------
(* Single stores.                                                          *)

LEMMA HostSame ==
  ASSUME NEW s, NEW t, t.mem = s.mem
  PROVE  /\ \A c, n : Host(t, c, n) = Host(s, c, n)
         /\ \A area, o : HostHalf(t, area, o) = HostHalf(s, area, o)
<1>1. ASSUME NEW c PROVE HostByte(t, c) = HostByte(s, c)
  BY DEF HostByte
<1>2. ASSUME NEW c, NEW n PROVE Host(t, c, n) = Host(s, c, n)
  BY <1>1 DEF Host
<1> QED
  BY <1>2 DEF HostHalf

LEMMA ExecuteStoreIs ==
  ASSUME NEW s \in State, NEW a \in Int, NEW n \in Spans, a % n = 0, NEW v, NEW seq \in BOOLEAN
  PROVE  ExecuteStore(s, a, n, v, seq, FALSE)
           = SmcCheck(Write(Charged(s, CostOf(seq, a, n)), a, n, StoreValue(v, n)), a, n)
<1>1. Masked(a, n) = a
  BY AlignedIs
<1>2. Charge(s, seq, a, n) = Charged(s, CostOf(seq, a, n))
  BY ChargeType
<1>3. ExecuteStore(s, a, n, v, seq, FALSE) = Stored(Charge(s, seq, a, n), a, n, StoreValue(v, n), FALSE)
  BY <1>1 DEF ExecuteStore
<1> QED
  BY <1>2, <1>3 DEF Stored

\* A store whose tags are clear, or that has none, raises nothing.
LEMMA SmcNone ==
  ASSUME NEW t, NEW a, NEW n, Region(a) \in {2, 3} => \A k \in 1 .. n : Host(t, Tag(a), n)[k] = 0
  PROVE  SmcCheck(t, a, n) = t
<1>1. CASE Region(a) \in {2, 3}
  <2>1. Tags(t, a, n) = Host(t, Tag(a), n) /\ DOMAIN Tags(t, a, n) = 1 .. n
    BY <1>1 DEF Tags, Host
  <2> QED
    BY <1>1, <2>1 DEF SmcCheck
<1>2. CASE Region(a) \notin {2, 3}
  <2>1. Tags(t, a, n) = <<0>> /\ DOMAIN Tags(t, a, n) = {1}
    BY <1>2 DEF Tags
  <2> QED
    BY <2>1 DEF SmcCheck
<1> QED
  BY <1>1, <1>2

LEMMA RaiseSet ==
  ASSUME NEW s \in State, NEW r, NEW v
  PROVE  Set(Raise(s, "irq"), r, v) = Raise(Set(s, r, v), "irq")
<1> DEFINE q == [s.r EXCEPT ![r] = v]
           x == s.alert \cup {"irq"}
           D == DOMAIN s
<1>1. s = [z \in D |-> s[z]] /\ "r" \in D /\ "alert" \in D
  BY SMT DEF State
<1>2. [s EXCEPT !.alert = x].r = s.r /\ [s EXCEPT !.r = q].alert = s.alert
  BY SMT DEF State
<1>3. Set(Raise(s, "irq"), r, v) = [[s EXCEPT !.alert = x] EXCEPT !.r = q]
  BY <1>2 DEF Set, Raise
<1>4. Raise(Set(s, r, v), "irq") = [[s EXCEPT !.r = q] EXCEPT !.alert = x]
  BY <1>2 DEF Set, Raise
<1> HIDE DEF q, x, D
<1>5. [[s EXCEPT !["alert"] = x] EXCEPT !["r"] = q] = [[s EXCEPT !["r"] = q] EXCEPT !["alert"] = x]
  BY <1>1, ExceptTwice
<1> QED
  BY <1>3, <1>4, <1>5

LEMMA BreakIrq ==
  ASSUME NEW s \in State, s.alert = {}, NEW pc
  PROVE  AlertBreak(Raise(s, "irq"), pc) = s
<1>1. Raise(s, "irq").alert = {"irq"}
  BY SMT DEF Raise, State
<1>2. AlertBreak(Raise(s, "irq"), pc) = [Raise(s, "irq") EXCEPT !.alert = {}]
  BY <1>1 DEF AlertBreak
<1>3. [[s EXCEPT !.alert = {"irq"}] EXCEPT !.alert = {}] = [s EXCEPT !.alert = {}]
  OBVIOUS
<1>4. Raise(s, "irq") = [s EXCEPT !.alert = {"irq"}]
  BY DEF Raise
<1>5. [s EXCEPT !.alert = {}] = s
  BY SMT DEF State
<1> QED
  BY <1>2, <1>3, <1>4, <1>5

\* The end of a store: a pending interrupt is not what the block stops for.
LEMMA StoreEnds ==
  ASSUME NEW w \in State, w.alert = {}, NEW x \in Int, NEW t \in {Charged(w, x), Raise(Charged(w, x), "irq")},
         NEW i \in Singles, NEW new \in Int32, NEW pc
  PROVE  AlertBreak(Back(t, i, new), pc) = Charged(Back(w, i, new), x)
<1> DEFINE u == Charged(w, x)
           b == Back(w, i, new)
<1>1. i.rn \in Register
  BY SingleFields
<1>2. b \in State /\ b.alert = {}
  BY <1>1, SetFields DEF Back
<1>3. Charged(b, x) \in State /\ Charged(b, x).alert = {}
  <2> HIDE DEF b
  <2> QED
    BY <1>2, ChargedType
<1>4. Back(u, i, new) = Charged(b, x)
  BY ChargedSet DEF Back
<1>5. CASE t = u
  BY <1>3, <1>4, <1>5, BreakNothing
<1>6. CASE t = Raise(u, "irq")
  <2>1. u \in State
    BY ChargedType
  <2>2. Set(Raise(u, "irq"), i.rn, new) = Raise(Set(u, i.rn, new), "irq")
    BY <2>1, RaiseSet
  <2>3. Back(t, i, new) = Raise(Charged(b, x), "irq")
    BY <1>4, <1>6, <2>2 DEF Back
  <2> QED
    BY <1>3, <2>3, BreakIrq
<1> QED
  BY <1>5, <1>6

LEMMA PlaceInData ==
  ASSUME NEW a \in Int, Region(a) \in {2, 3}
  PROVE  InData(Place(a))
<1>1. CASE Region(a) = 2
  <2>1. 0 <= a % (256 * Kib) /\ a % (256 * Kib) < 256 * Kib
    BY SMT DEF Kib
  <2> QED
    BY <1>1, <2>1, PlaceIs DEF InData
<1>2. CASE Region(a) = 3
  <2>1. PageBytes <= PageBytes + (a % PageBytes) /\ PageBytes + (a % PageBytes) < 2 * PageBytes
    BY SMT DEF PageBytes, Kib
  <2> QED
    BY <1>2, <2>1, PlaceIs DEF InData
<1> QED
  BY <1>1, <1>2

\* A store into RAM touches no tag.
LEMMA TagsKept ==
  ASSUME NEW s \in State, NEW a \in Int, Region(a) \in {2, 3}, NEW n \in Spans, a % n = 0, NEW v \in Int,
         NEW b \in Int, Region(b) \in {2, 3}, NEW m \in Spans, b % m = 0, Held(b)
  PROVE  Host(Put(s, Place(a), n, v), Tag(b), m) = Host(s, Tag(b), m)
<1> DEFINE t == Put(s, Place(a), n, v)
<1>1. ASSUME NEW k \in 1 .. m
      PROVE  HostByte(t, <<Tag(b)[1], Tag(b)[2] + k - 1>>) = HostByte(s, <<Tag(b)[1], Tag(b)[2] + k - 1>>)
  <2>1. Masked(b, m) = b
    BY AlignedIs
  <2>2. PICK j \in Nat : j = k - 1 /\ (b % 4) + j <= 3
    BY <2>1, InWord
  <2> DEFINE d == <<Tag(b)[1], Tag(b)[2] + j>>
             y == b + j
  <2>3. d \in Cells
    BY <2>1, <2>2, HeldCells
  <2>4. y \in Int /\ Region(y) = Region(b) /\ Tag(y) = d
    <3>1. Region(y) = Region(b)
      <4>1. Follows(b, j)
        BY <2>2, SameWord
      <4> QED
        BY <4>1 DEF Follows
    <3> QED
      BY <2>2, <3>1, PlaceStep
  <2>5. TagFor(Place(y)) = d /\ Place(y)[2] \in Int /\ InData(Place(y)) /\ Tag(b)[2] \in Int
        /\ Tag(b)[1] \in {"iwram", "ewram"} /\ Place(a)[2] \in Int
    BY <2>4, TagOfPlace, PlaceInData
  <2> HIDE DEF y
  <2>6. d[1] = Place(a)[1] => d[2] - Place(a)[2] \notin 0 .. n - 1
    BY <2>5, TagsApart
  <2>7. t.mem[d] = s.mem[d]
    <3> HIDE DEF d
    <3> QED
      BY <2>3, <2>6, PutMem
  <2>8. d = <<Tag(b)[1], Tag(b)[2] + k - 1>>
    BY <2>2, <2>5
  <2>9. d[1] # "rom" /\ d[1] # "bios"
    BY <2>5
  <2> HIDE DEF d, t
  <2> QED
    BY <2>7, <2>8, <2>9 DEF HostByte
<1> HIDE DEF t
<1>2. Host(t, Tag(b), m) = Host(s, Tag(b), m)
  BY <1>1 DEF Host
<1> QED
  BY <1>2 DEF t

LEMMA TagCellIs ==
  ASSUME NEW s, NEW a \in Int, Region(a) \in {2, 3}
  PROVE  TagCell(HostPage(s, a), a) = Tag(a)
<1>1. Masked(a % (256 * Kib), PageBytes) + (a % PageBytes) = a % (256 * Kib)
  BY AreaOffsets
<1>2. PageBytes \in Int /\ a % PageBytes \in Int /\ Masked(a % (256 * Kib), PageBytes) \in Int /\ 256 * Kib \in Int
  BY SMT DEF PageBytes, Kib, Masked
<1>3. CASE Region(a) = 2
  <2>1. HostPage(s, a) = <<"ewram", Masked(a % (256 * Kib), PageBytes)>>
    BY <1>3, HostPageIs
  <2> QED
    BY <1>1, <1>3, <2>1 DEF TagCell, Tag
<1>4. CASE Region(a) = 3
  <2>1. HostPage(s, a) = <<"iwram", PageBytes>>
    BY <1>4, HostPageIs
  <2>2. PageBytes + (a % PageBytes) + (-PageBytes) = a % PageBytes
    BY <1>2
  <2> QED
    BY <1>4, <2>1, <2>2 DEF TagCell, Tag
<1> QED
  BY <1>3, <1>4

\* The native probe reads the tags write_memory's check reads.
LEMMA ProbeIs ==
  ASSUME NEW s, NEW a \in Int, Region(a) \in {2, 3, 6}, NEW n, TagsClear(s, HostPage(s, a), a, n)
  PROVE  Region(a) \in {2, 3} => \A k \in 1 .. n : Host(s, Tag(a), n)[k] = 0
BY TagCellIs DEF TagsClear

LEMMA ValueType ==
  ASSUME NEW s \in State, NEW r \in Register, NEW n \in Spans
  PROVE  StoreValue(s.r[r], n) \in Int
<1>1. s.r[r] \in Int32
  BY SMT DEF State
<1> QED
  BY <1>1, Int32Is, StoreValueType

LEMMA WriteCell ==
  ASSUME NEW t, NEW a \in Int, NEW n \in Spans, Region(a) \in {2, 3} \/ (Region(a) = 6 /\ n # 1), NEW v
  PROVE  Write(t, a, n, v) = Put(t, Place(a), n, v)
<1>1. CASE Region(a) \in {2, 3}
  BY <1>1, SMT DEF Write
<1>2. CASE Region(a) = 6 /\ n # 1
  BY <1>2, SMT DEF Write
<1> QED
  BY <1>1, <1>2

\* gpSP's own store, and what it does to a machine until the base is written.
OwnStore(s, i, pc, a) == SingleStore(s, i, pc, a, FALSE)
OwnWrite(s, a, n, v) == SmcCheck(Write(Charged(s, CostOf(FALSE, a, n)), a, n, StoreValue(v, n)), a, n)

LEMMA OwnStoreIs ==
  ASSUME NEW s \in State, NEW i, i.rd # 15, NEW a \in Int, NEW n \in Spans, n = SizeOf(i.kind), a % n = 0, NEW pc
  PROVE  OwnStore(s, i, pc, a) = AlertBreak(Back(OwnWrite(s, a, n, s.r[i.rd]), i, Moved(s, i, pc)), pc + Width(i))
<1>1. FALSE \in BOOLEAN
  OBVIOUS
<1>2. ExecuteStore(s, a, n, s.r[i.rd], FALSE, FALSE) = OwnWrite(s, a, n, s.r[i.rd])
  BY <1>1, ExecuteStoreIs DEF OwnWrite
<1> QED
  BY <1>2 DEF OwnStore, SingleStore, Back

LEMMA RoutineStoreAgrees ==
  ASSUME NEW s, Rested(s), NEW i \in Singles, i.rd # 15, NEW a \in Int, Plain(i, a),
         StoreGuards(s, a, SizeOf(i.kind)), NEW pc, Moved(s, i, pc) \in Int32
  PROVE  RoutineStore(s, i, a, SizeOf(i.kind), Moved(s, i, pc)) = OwnStore(s, i, pc, a)
<1> DEFINE n == SizeOf(i.kind)
           v == StoreValue(s.r[i.rd], n)
           x == CostOf(FALSE, a, n)
           w == Put(s, Place(a), n, v)
           new == Moved(s, i, pc)
<1>1. s \in State /\ s.alert = {} /\ i.rd \in Register /\ n \in Spans
  BY SingleFields, SizeType DEF Rested
<1>2. /\ Region(a) \in {2, 3} \/ (Region(a) = 6 /\ n # 1)
      /\ a % n = 0 /\ TagsClear(s, HostPage(s, a), a, n) /\ Held(a) /\ new \in Int32
  BY <1>1 DEF StoreGuards, Plain, Spans
<1>3. x \in Int
  BY CostType
<1> HIDE DEF n
<1>4. v \in Int
  BY <1>1, ValueType
<1> HIDE DEF v, x, new
<1>5. w \in State /\ w.alert = {}
  BY <1>1, <1>4, PutType
<1>6. Write(Charged(s, x), a, n, v) = Charged(w, x)
  BY <1>1, <1>2, <1>3, <1>4, WriteCell, ChargedPut
<1>7. SmcCheck(Charged(w, x), a, n) = Charged(w, x)
  <2>1. Region(a) \in {2, 3} => Host(w, Tag(a), n) = Host(s, Tag(a), n)
    BY <1>1, <1>2, <1>4, TagsKept
  <2>2. Region(a) \in {2, 3} => \A k \in 1 .. n : Host(s, Tag(a), n)[k] = 0
    BY <1>2, ProbeIs
  <2> HIDE DEF w
  <2>3. Charged(w, x).mem = w.mem
    BY <1>3, <1>5, ChargedType
  <2>4. Host(Charged(w, x), Tag(a), n) = Host(w, Tag(a), n)
    BY <2>3, HostSame
  <2> QED
    BY <2>1, <2>2, <2>4, SmcNone
<1>8. OwnWrite(s, a, n, s.r[i.rd]) = Charged(w, x)
  BY <1>6, <1>7 DEF OwnWrite, x, v
<1> HIDE DEF w
<1>9. AlertBreak(Back(Charged(w, x), i, new), pc + Width(i)) = Charged(Back(w, i, new), x)
  BY <1>2, <1>3, <1>5, StoreEnds
<1>10. OwnStore(s, i, pc, a) = Charged(Back(w, i, new), x)
  BY <1>1, <1>2, <1>8, <1>9, OwnStoreIs DEF n, new
<1>11. At(HostPage(s, a), a) = Place(a)
  BY <1>2, AtPlace
<1>12. Charging(Back(w, i, new), a, n) = Charged(Back(w, i, new), x)
  <2>1. Region(a) \in 2 .. 12
    BY <1>2
  <2> QED
    BY <1>1, <2>1, ChargingIs DEF x
<1>13. RoutineStore(s, i, a, n, new) = Charging(Back(w, i, new), a, n)
  BY <1>11 DEF RoutineStore, w, v
<1> QED
  BY <1>10, <1>12, <1>13 DEF n, new

WithDirty(s, x) == [s EXCEPT !.dirty = x]
WithOam(s, x) == [s EXCEPT !.oam = x]
LEMMA FlagTwice ==
  ASSUME NEW s \in State, NEW x, NEW y
  PROVE  /\ WithDirty(WithCyc(s, x), y) = WithCyc(WithDirty(s, y), x)
         /\ WithOam(WithCyc(s, x), y) = WithCyc(WithOam(s, y), x)
         /\ WithDirty(s, y).cyc = s.cyc /\ WithOam(s, y).cyc = s.cyc /\ WithDirty(s, y).mem = s.mem
         /\ WithCyc(s, x).oam = s.oam
<1> DEFINE D == DOMAIN s
<1>1. s = [z \in D |-> s[z]] /\ "cyc" \in D /\ "dirty" \in D /\ "oam" \in D
  BY SMT DEF State
<1>2. /\ WithDirty(s, y).cyc = s.cyc /\ WithOam(s, y).cyc = s.cyc /\ WithDirty(s, y).mem = s.mem
      /\ WithCyc(s, x).oam = s.oam
  BY SMT DEF State, WithDirty, WithOam, WithCyc
<1> HIDE DEF D
<1>3. WithDirty(WithCyc(s, x), y) = WithCyc(WithDirty(s, y), x)
  <2>1. [[s EXCEPT !["cyc"] = x] EXCEPT !["dirty"] = y] = [[s EXCEPT !["dirty"] = y] EXCEPT !["cyc"] = x]
    BY <1>1, ExceptTwice
  <2> QED
    BY <2>1 DEF WithDirty, WithCyc
<1>4. WithOam(WithCyc(s, x), y) = WithCyc(WithOam(s, y), x)
  <2>1. [[s EXCEPT !["cyc"] = x] EXCEPT !["oam"] = y] = [[s EXCEPT !["oam"] = y] EXCEPT !["cyc"] = x]
    BY <1>1, ExceptTwice
  <2> QED
    BY <2>1 DEF WithOam, WithCyc
<1> QED
  BY <1>2, <1>3, <1>4

LEMMA ConvertedCharged ==
  ASSUME NEW s \in State, NEW o \in Int, <<"pal", o>> \in Cells, <<"pal", o + 1>> \in Cells, NEW x \in Int
  PROVE  Converted(Charged(s, x), o) = Charged(Converted(s, o), x) /\ Converted(s, o) \in State
<1> DEFINE v == Convert(HostHalf(s, "pal", o))
           t == WithDirty(s, TRUE)
           c == <<"conv", o>>
<1>1. v \in Int
  <2>1. HostHalf(s, "pal", o) \in Int
    BY HostHalfType
  <2> QED
    BY <2>1, SMT DEF Convert
<1>2. t \in State
  <2>1. Kept(s, [s EXCEPT !.dirty = TRUE])
    BY KeptFlags
  <2> QED
    BY <2>1 DEF Kept, WithDirty
<1>3. HostHalf(Charged(s, x), "pal", o) = HostHalf(s, "pal", o)
  <2>1. Charged(s, x).mem = s.mem
    BY ChargedType
  <2> QED
    BY <2>1, HostSame
<1>4. WithDirty(Charged(s, x), TRUE) = Charged(t, x)
  <2>1. Charged(s, x) = WithCyc(s, s.cyc + x)
    BY ChargedIs
  <2>2. WithDirty(WithCyc(s, s.cyc + x), TRUE) = WithCyc(t, s.cyc + x)
    BY FlagTwice
  <2>3. t.cyc = s.cyc
    BY FlagTwice
  <2> HIDE DEF t
  <2>4. Charged(t, x) = WithCyc(t, t.cyc + x)
    BY ChargedIs
  <2> QED
    BY <2>1, <2>2, <2>3, <2>4
<1>5. Converted(Charged(s, x), o) = Put(Charged(t, x), c, 2, v)
  <2>1. [Charged(s, x) EXCEPT !.dirty = TRUE] = WithDirty(Charged(s, x), TRUE)
    BY DEF WithDirty
  <2> QED
    BY <1>3, <1>4, <2>1 DEF Converted
<1>6. Converted(s, o) = Put(t, c, 2, v)
  BY DEF Converted, WithDirty
<1> HIDE DEF t, v, c
<1>7. 2 \in Spans
  BY DEF Spans
<1>8. Put(Charged(t, x), c, 2, v) = Charged(Put(t, c, 2, v), x) /\ Put(t, c, 2, v) \in State
  BY <1>1, <1>2, <1>7, ChargedPut, PutType
<1> QED
  BY <1>5, <1>6, <1>8

LEMMA ConvertedAlert ==
  ASSUME NEW s \in State, NEW o
  PROVE  Converted(s, o).alert = s.alert
BY SMT DEF Converted, Put, State

LEMMA PaletteCost ==
  ASSUME NEW a \in Int, Region(a) = 5, NEW n
  PROVE  CostOf(FALSE, a, n) = IF n = 4 THEN 2 ELSE 1
<1>1. NseqCost[10] = 1 /\ NseqCost[11] = 2
  BY WaitStatesAre
<1>2. CASE n = 4
  <2>1. 2 * Region(a) + (IF n = 4 THEN 1 ELSE 0) = 11
    BY <1>2
  <2> QED
    BY <1>1, <1>2, <2>1 DEF CostOf
<1>3. CASE n # 4
  <2>1. 2 * Region(a) + (IF n = 4 THEN 1 ELSE 0) = 10
    BY <1>3
  <2> QED
    BY <1>1, <1>3, <2>1 DEF CostOf
<1> QED
  BY <1>2, <1>3

LEMMA PaletteAgrees ==
  ASSUME NEW s, Rested(s), NEW i \in Singles, i.rd # 15, NEW a \in Int, Plain(i, a),
         PaletteGuards(a, SizeOf(i.kind)), NEW pc, Moved(s, i, pc) \in Int32
  PROVE  PaletteStore(s, i, a, SizeOf(i.kind), Moved(s, i, pc)) = OwnStore(s, i, pc, a)
<1> DEFINE n == SizeOf(i.kind)
           v == StoreValue(s.r[i.rd], n)
           x == CostOf(FALSE, a, n)
           o == a % Kib
           put == Put(s, <<"pal", o>>, n, v)
           low == Converted(put, o)
           w == IF n = 4 THEN Converted(low, o + 2) ELSE low
           new == Moved(s, i, pc)
<1>1. s \in State /\ s.alert = {} /\ i.rd \in Register /\ n \in Spans
  BY SingleFields, SizeType DEF Rested
<1>2. Region(a) = 5 /\ (n = 2 \/ n = 4) /\ a % n = 0 /\ Held(a) /\ new \in Int32
  BY <1>1 DEF PaletteGuards, Plain, Spans
<1>3. x \in Int /\ x = IF n = 4 THEN 2 ELSE 1
  BY <1>1, <1>2, CostType, PaletteCost
<1> HIDE DEF n
<1>4. v \in Int
  BY <1>1, ValueType
<1>5. /\ o \in Int /\ Place(a) = <<"pal", o>> /\ <<"pal", o>> \in Cells /\ <<"pal", o + 1>> \in Cells
      /\ n = 4 => o + 2 \in Int /\ <<"pal", o + 2>> \in Cells /\ <<"pal", (o + 2) + 1>> \in Cells
  <2>1. o \in Int /\ o % 2 = 0 /\ (n = 4 => o % 4 = 0)
    BY <1>2, SMT DEF Kib
  <2> HIDE DEF o
  <2>2. Place(a) = <<"pal", o>>
    BY <1>2, PlaceIs DEF o
  <2>3. ASSUME NEW y \in Int, y \div 4 = o \div 4 PROVE <<"pal", y>> \in Cells
    <3>1. Region(a) \in 2 .. 7 /\ y \div 4 = Place(a)[2] \div 4 /\ Place(a)[1] = "pal"
      BY <1>2, <2>2, <2>3
    <3>2. <<Place(a)[1], y>> \in Cells
      BY <1>2, <3>1, WordCells
    <3> QED
      BY <3>1, <3>2
  <2> QED
    BY <2>1, <2>2, <2>3, EvenStep
<1> HIDE DEF v, x, o, new
<1>6. put \in State /\ put.alert = {} /\ Put(Charged(s, x), <<"pal", o>>, n, v) = Charged(put, x)
  BY <1>1, <1>3, <1>4, ChargedPut, PutType
<1> HIDE DEF put
<1>7. low \in State /\ low.alert = {} /\ Converted(Charged(put, x), o) = Charged(low, x)
  <2>1. low \in State /\ Converted(Charged(put, x), o) = Charged(low, x)
    BY <1>3, <1>5, <1>6, ConvertedCharged
  <2> QED
    BY <1>6, <2>1, ConvertedAlert
<1> HIDE DEF low
<1>8. n = 4 => /\ Converted(low, o + 2) \in State /\ Converted(low, o + 2).alert = {}
               /\ Converted(Charged(low, x), o + 2) = Charged(Converted(low, o + 2), x)
  BY <1>3, <1>5, <1>7, ConvertedCharged, ConvertedAlert
<1>9. w \in State /\ w.alert = {}
  BY <1>7, <1>8
<1>10. Write(Charged(s, x), a, n, v) = Charged(w, x)
  <2>1. n # 1
    BY <1>2
  <2>2. Write(Charged(s, x), a, n, v)
          = LET q == Put(Charged(s, x), Place(a), n, v)
            IN  IF n = 4 THEN Converted(Converted(q, Place(a)[2]), Place(a)[2] + 2) ELSE Converted(q, Place(a)[2])
    BY <1>2, <2>1, SMT DEF Write
  <2>3. Place(a)[2] = o
    BY <1>5
  <2> QED
    BY <1>5, <1>6, <1>7, <1>8, <2>2, <2>3
<1> HIDE DEF w
<1>11. SmcCheck(Charged(w, x), a, n) = Charged(w, x)
  BY <1>2, SmcNone
<1>12. OwnWrite(s, a, n, s.r[i.rd]) = Charged(w, x)
  BY <1>10, <1>11 DEF OwnWrite, x, v
<1>13. AlertBreak(Back(Charged(w, x), i, new), pc + Width(i)) = Charged(Back(w, i, new), x)
  BY <1>2, <1>3, <1>9, StoreEnds
<1>14. OwnStore(s, i, pc, a) = Charged(Back(w, i, new), x)
  BY <1>1, <1>2, <1>12, <1>13, OwnStoreIs DEF n, new
<1>15. PaletteStore(s, i, a, n, new) = Charged(Back(w, i, new), IF n = 4 THEN 2 ELSE 1)
  BY DEF PaletteStore, w, low, put, o, v
<1> QED
  BY <1>3, <1>14, <1>15 DEF n, new

\* The register switch of the helper: what gpSP's own write does, except that
\* the two may disagree whether a pending interrupt is worth an alert.
Irq(t, u) == t \in {u, Raise(u, "irq")}
IoPut(w, o, v) == Put(w, <<"io", o>>, 2, v)
LEMMA IoFastIs ==
  ASSUME NEW w, NEW v \in Int, NEW o, o \in IoFastPlain \cup {0, 4, 520} \/ (o = 222 /\ v < 32768), NEW d, d = IoFastStore(w, o, v)
  PROVE  d = WriteIo16(w, o, v) \/ (Irq(d, IoPut(w, o, v)) /\ Irq(WriteIo16(w, o, v), IoPut(w, o, v)))
<1>1. CASE o = 0
  BY <1>1, SMT DEF IoFastStore, WriteIo16
<1>2. CASE o = 4
  BY <1>2, SMT DEF IoFastStore, WriteIo16
<1>3. CASE o = 520
  <2> DEFINE u == Put(w, <<"io", o>>, 2, v)
  <2>1. WriteIo16(w, o, v) = Checked(u)
    BY <1>3, SMT DEF WriteIo16
  <2>2. d = IF v # 0 /\ Pending(w) /\ ~w.masked THEN Raise(u, "irq") ELSE u
    BY <1>3, SMT DEF IoFastStore
  <2>3. Irq(Checked(u), u) /\ Irq(d, u)
    <3> HIDE DEF u
    <3> QED
      BY <2>2 DEF Irq, Checked
  <2> QED
    BY <2>1, <2>3 DEF IoPut
<1>4. CASE o \in IoFastPlain
  <2>1. o \notin {0, 4, 222, 512, 514, 516, 520} /\ o < 1024
    BY <1>4, SMT DEF IoFastPlain
  <2>2. WriteIo16(w, o, v) = Put(w, <<"io", o>>, 2, v)
    BY <2>1, SMT DEF WriteIo16
  <2>3. d = Put(w, <<"io", o>>, 2, v)
    BY <2>1, SMT DEF IoFastStore
  <2> QED
    BY <2>2, <2>3
<1>5. CASE o = 222 /\ v < 32768
  <2>1. WriteIo16(w, o, v) = [Put(w, <<"io", o>>, 2, v) EXCEPT !.dma = FALSE]
    BY <1>5, SMT DEF WriteIo16, TriggerDma
  <2>2. d = [Put(w, <<"io", o>>, 2, v) EXCEPT !.dma = FALSE]
    BY <1>5, SMT DEF IoFastStore
  <2> QED
    BY <2>1, <2>2
<1> QED
  BY <1>1, <1>2, <1>3, <1>4, <1>5

LEMMA IrqEnds ==
  ASSUME NEW u \in State, u.alert = {}, NEW t, Irq(t, u), NEW i \in Singles, NEW new \in Int32, NEW pc
  PROVE  AlertBreak(Back(t, i, new), pc) = Back(u, i, new)
<1>1. Charged(u, 0) = u /\ 0 \in Int
  BY ChargedTwice
<1>2. t \in {Charged(u, 0), Raise(Charged(u, 0), "irq")}
  BY <1>1 DEF Irq
<1>3. AlertBreak(Back(t, i, new), pc) = Charged(Back(u, i, new), 0)
  BY <1>1, <1>2, StoreEnds
<1>4. Back(u, i, new) \in State
  BY SingleFields, SetFields DEF Back
<1> QED
  BY <1>3, <1>4, ChargedTwice

OwnCost(a, n) == CostOf(FALSE, a, n)
FastOf(s, a, n, v) == ExecuteStore(s, a, n, v, FALSE, TRUE)
StoreOf(s, a, n, v) == ExecuteStore(s, a, n, v, FALSE, FALSE)
LEMMA StoreOfIs ==
  ASSUME NEW s \in State, NEW a \in Int, NEW n \in Spans, NEW v, NEW m, m = Masked(a, n), m \in Int,
         NEW w, w = Charged(s, OwnCost(m, n)), NEW q, q = StoreValue(v, n)
  PROVE  /\ StoreOf(s, a, n, v) = SmcCheck(Write(w, m, n, q), m, n)
         /\ n = 2 /\ IoFast(w, m, q) => FastOf(s, a, n, v) = IoFastStore(w, m % Kib, q)
         /\ ~(n = 2 /\ IoFast(w, m, q)) => FastOf(s, a, n, v) = SmcCheck(Write(w, m, n, q), m, n)
<1>1. FALSE \in BOOLEAN
  OBVIOUS
<1>2. Charge(s, FALSE, m, n) = w
  BY <1>1, ChargeType DEF OwnCost
<1> QED
  BY <1>2 DEF StoreOf, FastOf, ExecuteStore, Stored

LEMMA FastStoreAgrees ==
  ASSUME NEW s, Rested(s), NEW i \in Singles, NEW a \in Int, Plain(i, a), NEW pc \in 0 .. MapEnd - 1,
         Moved(s, i, pc) \in Int32
  PROVE  SingleStore(s, i, pc, a, TRUE) = OwnStore(s, i, pc, a)
<1> DEFINE n == SizeOf(i.kind)
           v == IF i.rd = 15 THEN pc + 12 ELSE s.r[i.rd]
           q == StoreValue(v, n)
           m == Masked(a, n)
           x == OwnCost(m, n)
           w == Charged(s, x)
           new == Moved(s, i, pc)
           u == IoPut(w, m % Kib, q)
<1>1. s \in State /\ s.alert = {} /\ i.rd \in Register /\ n \in Spans
  BY SingleFields, SizeType DEF Rested
<1>2. Held(a) /\ (Region(a) = 4 => IoOffset(a) < Kib) /\ new \in Int32
  BY DEF Plain
<1>3. SingleStore(s, i, pc, a, TRUE) = AlertBreak(Back(FastOf(s, a, n, v), i, new), pc + Width(i))
  BY DEF SingleStore, FastOf, Back
<1>4. OwnStore(s, i, pc, a) = AlertBreak(Back(StoreOf(s, a, n, v), i, new), pc + Width(i))
  BY DEF OwnStore, SingleStore, StoreOf, Back
<1>5. v \in Int
  <2>1. pc + 12 \in Int32
    BY PcType
  <2>2. s.r[i.rd] \in Int32
    BY <1>1, SMT DEF State
  <2> QED
    BY <2>1, <2>2, Int32Is
<1> HIDE DEF n, v
<1>6. q \in Int
  BY <1>1, <1>5, StoreValueType
<1>7. m \in Int /\ m % n = 0 /\ (Region(m) = 4 => IoOffset(m) < Kib)
  BY <1>1, <1>2, MaskedHeld
<1> HIDE DEF q, m, new
<1>8. x \in Int
  BY <1>7, CostType DEF OwnCost
<1> HIDE DEF x
<1>9. w \in State /\ w.alert = {}
  BY <1>1, <1>8, ChargedType
<1> HIDE DEF w
<1>10. u \in State /\ u.alert = {}
  <2>1. 2 \in Spans
    BY DEF Spans
  <2> QED
    BY <1>6, <1>9, <2>1, PutType DEF IoPut
<1> HIDE DEF u
<1>11. ASSUME NEW t1, NEW t2, t1 = t2 \/ (Irq(t1, u) /\ Irq(t2, u))
       PROVE  AlertBreak(Back(t1, i, new), pc + Width(i)) = AlertBreak(Back(t2, i, new), pc + Width(i))
  BY <1>2, <1>10, <1>11, IrqEnds
<1>12. /\ StoreOf(s, a, n, v) = SmcCheck(Write(w, m, n, q), m, n)
       /\ n = 2 /\ IoFast(w, m, q) => FastOf(s, a, n, v) = IoFastStore(w, m % Kib, q)
       /\ ~(n = 2 /\ IoFast(w, m, q)) => FastOf(s, a, n, v) = SmcCheck(Write(w, m, n, q), m, n)
  <2>1. m = Masked(a, n) /\ q = StoreValue(v, n) /\ w = Charged(s, OwnCost(m, n))
    BY DEF w, x, q, m
  <2> QED
    BY <1>1, <1>5, <1>7, <2>1, StoreOfIs
<1>13. ASSUME n = 2, IoFast(w, m, q)
       PROVE  LET t1 == FastOf(s, a, n, v)
                  t2 == StoreOf(s, a, n, v)
              IN  t1 = t2 \/ (Irq(t1, u) /\ Irq(t2, u))
  <2> DEFINE o == m % Kib
  <2>1. Region(m) = 4 /\ (o \in IoFastPlain \cup {0, 4, 520} \/ (o = 222 /\ q < 32768))
    BY <1>13 DEF IoFast
  <2>2. IoOffset(m) = o
    BY <1>7, <2>1, AreaOffsets
  <2> HIDE DEF o
  <2>3. SmcCheck(Write(w, m, n, q), m, n) = Write(w, m, n, q)
    BY <2>1, SmcNone
  <2>4. Write(w, m, 2, q) = WriteIo(w, m, 2, q)
    BY <2>1, SMT DEF Write
  <2>5. WriteIo(w, m, 2, q) = WriteIo16(w, o, q)
    BY <2>2, SMT DEF WriteIo
  <2>6. FastOf(s, a, n, v) = IoFastStore(w, o, q)
    BY <1>12, <1>13 DEF o
  <2>7. StoreOf(s, a, n, v) = WriteIo16(w, o, q)
    BY <1>12, <1>13, <2>3, <2>4, <2>5
  <2>8. u = IoPut(w, o, q)
    BY DEF u, o
  <2> QED
    BY <1>6, <2>1, <2>6, <2>7, <2>8, IoFastIs
<1>14. LET t1 == FastOf(s, a, n, v)
           t2 == StoreOf(s, a, n, v)
       IN  t1 = t2 \/ (Irq(t1, u) /\ Irq(t2, u))
  BY <1>12, <1>13
<1> QED
  BY <1>3, <1>4, <1>11, <1>14

\* The native tail of the I/O registers writes what gpSP's register switch does.
LEMMA TailIs ==
  ASSUME NEW o, IoTail(o)
  PROVE  o \in Int /\ o % 2 = 0 /\ o \notin {222, 516, 520} /\ o < 1024 /\ 0 <= o
BY SMT DEF IoTail, IoDirect, IoPairs

LEMMA IoStoreIs ==
  ASSUME NEW w, NEW o, IoTail(o), o # 512, NEW v
  PROVE  IoStore(w, o, v) = WriteIo16(w, o, v)
<1>1. o \notin {222, 516, 520} /\ o < 1024
  BY TailIs
<1>2. CASE o = 0
  BY <1>2, SMT DEF IoStore, WriteIo16
<1>3. CASE o = 4
  BY <1>3, SMT DEF IoStore, WriteIo16
<1>4. CASE o = 514
  BY <1>4, SMT DEF IoStore, WriteIo16
<1>5. CASE o \notin {0, 4, 514}
  <2>1. WriteIo16(w, o, v) = Put(w, <<"io", o>>, 2, v)
    BY <1>1, <1>5, SMT DEF WriteIo16
  <2>2. IoStore(w, o, v) = Put(w, <<"io", o>>, 2, v)
    BY <1>5, SMT DEF IoStore
  <2> QED
    BY <2>1, <2>2
<1> QED
  BY <1>2, <1>3, <1>4, <1>5

LEMMA OamType ==
  ASSUME NEW s \in State, NEW b \in BOOLEAN
  PROVE  WithOam(s, b) \in State /\ WithOam(s, b).alert = s.alert
<1>1. Kept(s, [s EXCEPT !.oam = b]) /\ [s EXCEPT !.oam = b].alert = s.alert
  BY KeptFlags
<1> QED
  BY <1>1 DEF Kept, WithOam

LEMMA IoStoreCharged ==
  ASSUME NEW s \in State, NEW o, IoTail(o), o # 512, NEW v \in Int, NEW x \in Int,
         <<"io", o>> \in Cells, <<"io", o + 1>> \in Cells
  PROVE  /\ IoStore(s, o, v) \in State /\ IoStore(s, o, v).alert = s.alert
         /\ IoStore(Charged(s, x), o, v) = Charged(IoStore(s, o, v), x)
<1> DEFINE c == <<"io", o>>
           old == HostHalf(s, "io", o)
           d == Charged(s, x)
<1>1. 2 \in Spans /\ o \in Int
  BY TailIs DEF Spans
<1>2. old \in Int
  BY <1>1, HostHalfType
<1>3. HostHalf(d, "io", o) = old
  <2>1. d.mem = s.mem
    BY ChargedType
  <2> QED
    BY <2>1, HostSame
<1> HIDE DEF old
<1>4. ASSUME NEW q \in Int
      PROVE  /\ Put(s, c, 2, q) \in State /\ Put(s, c, 2, q).alert = s.alert
             /\ Put(d, c, 2, q) = Charged(Put(s, c, 2, q), x)
  BY <1>1, ChargedPut, PutType
<1> HIDE DEF c, d
<1>5. CASE o = 0
  <2> DEFINE p == Put(s, c, 2, v)
             f == v % 8 # old % 8
  <2>1. p \in State /\ p.alert = s.alert /\ Put(d, c, 2, v) = Charged(p, x)
    BY <1>4
  <2>2. IoStore(s, o, v) = WithOam(p, p.oam \/ f)
    BY <1>5 DEF IoStore, WithOam, c, old
  <2>3. IoStore(d, o, v) = WithOam(Charged(p, x), Charged(p, x).oam \/ f)
    BY <1>3, <1>5, <2>1 DEF IoStore, WithOam, c
  <2> HIDE DEF p, f
  <2>4. Charged(p, x) = WithCyc(p, p.cyc + x)
    BY ChargedIs
  <2>5. Charged(p, x).oam = p.oam
    BY <2>1, <2>4, FlagTwice
  <2>6. WithOam(Charged(p, x), p.oam \/ f) = WithCyc(WithOam(p, p.oam \/ f), p.cyc + x)
    BY <2>1, <2>4, FlagTwice
  <2>7. WithOam(p, p.oam \/ f).cyc = p.cyc
    BY <2>1, FlagTwice
  <2>8. Charged(WithOam(p, p.oam \/ f), x) = WithCyc(WithOam(p, p.oam \/ f), p.cyc + x)
    BY <2>7, ChargedIs
  <2>9. WithOam(p, p.oam \/ f) \in State /\ WithOam(p, p.oam \/ f).alert = s.alert
    <3>1. p.oam \in BOOLEAN
      BY <2>1, SMT DEF State
    <3>2. (p.oam \/ f) \in BOOLEAN
      BY <3>1
    <3> DEFINE b == p.oam \/ f
    <3> HIDE DEF b
    <3>3. b \in BOOLEAN
      BY <3>2 DEF b
    <3>4. WithOam(p, b) \in State /\ WithOam(p, b).alert = p.alert
      BY <2>1, <3>3, OamType
    <3> QED
      BY <2>1, <3>4 DEF b
  <2> QED
    BY <2>2, <2>3, <2>5, <2>6, <2>8, <2>9 DEF d
<1>6. CASE o = 4
  <2> DEFINE q == (v - (v % 8)) + (old % 8)
  <2>1. q \in Int
    BY <1>2, SMT
  <2>2. IoStore(s, o, v) = Put(s, c, 2, q)
    BY <1>6 DEF IoStore, c, old
  <2>3. IoStore(d, o, v) = Put(d, c, 2, q)
    BY <1>3, <1>6 DEF IoStore, c
  <2> HIDE DEF q
  <2> QED
    BY <1>4, <2>1, <2>2, <2>3 DEF d
<1>7. CASE o = 514
  <2> DEFINE q == Cleared(old, v)
  <2>1. q \in Int
    BY <1>2, CommonType
  <2>2. IoStore(s, o, v) = Put(s, c, 2, q)
    BY <1>7 DEF IoStore, c, old
  <2>3. IoStore(d, o, v) = Put(d, c, 2, q)
    BY <1>3, <1>7 DEF IoStore, c
  <2> HIDE DEF q
  <2> QED
    BY <1>4, <2>1, <2>2, <2>3 DEF d
<1>8. CASE o \notin {0, 4, 514}
  <2>1. \A w : IoStore(w, o, v) = Put(w, c, 2, v)
    BY <1>8, SMT DEF IoStore, c
  <2> QED
    BY <1>4, <2>1 DEF d
<1> QED
  BY <1>5, <1>6, <1>7, <1>8

\* A halfword store of an I/O register, and where the instance holds it.
LEMMA TailCells ==
  ASSUME NEW a \in Int, Held(a), Region(a) = 4, IoOffset(a) < Kib, IoTail(IoOffset(a))
  PROVE  /\ a % Kib = IoOffset(a) /\ a % 2 = 0 /\ IoTail(a % Kib)
         /\ <<"io", a % Kib>> \in Cells /\ <<"io", (a % Kib) + 1>> \in Cells
<1> DEFINE o == a % Kib
<1>1. o = IoOffset(a)
  BY AreaOffsets
<1>2. o \in Int /\ o % 2 = 0
  BY <1>1, TailIs
<1>3. a % 2 = 0
  BY <1>2, SMT DEF Kib
<1>4. Place(a) = <<"io", o>>
  BY PlaceIs
<1> HIDE DEF o
<1>5. ASSUME NEW y \in Int, y \div 4 = o \div 4 PROVE <<"io", y>> \in Cells
  <2>1. Region(a) \in 2 .. 7 /\ y \div 4 = Place(a)[2] \div 4 /\ Place(a)[1] = "io"
    BY <1>4, <1>5
  <2>2. <<Place(a)[1], y>> \in Cells
    BY <2>1, WordCells
  <2> QED
    BY <2>1, <2>2
<1>6. <<"io", o>> \in Cells /\ <<"io", o + 1>> \in Cells
  BY <1>2, <1>5, EvenStep
<1> QED
  BY <1>1, <1>3, <1>6 DEF o

LEMMA OwnIo ==
  ASSUME NEW s \in State, NEW a \in Int, Region(a) = 4, NEW w, w = Charged(s, OwnCost(a, 2)),
         NEW v, NEW q, q = StoreValue(v, 2)
  PROVE  OwnWrite(s, a, 2, v) = WriteIo16(w, IoOffset(a), q)
<1>1. OwnWrite(s, a, 2, v) = SmcCheck(Write(w, a, 2, q), a, 2)
  BY DEF OwnWrite, OwnCost
<1>2. SmcCheck(Write(w, a, 2, q), a, 2) = Write(w, a, 2, q)
  BY SmcNone
<1>3. Write(w, a, 2, q) = WriteIo(w, a, 2, q)
  BY SMT DEF Write
<1>4. WriteIo(w, a, 2, q) = WriteIo16(w, IoOffset(a), q)
  BY SMT DEF WriteIo
<1> QED
  BY <1>1, <1>2, <1>3, <1>4

LEMMA OwnCostType ==
  ASSUME NEW a \in Int, NEW n
  PROVE  OwnCost(a, n) \in Int
<1>1. FALSE \in BOOLEAN
  OBVIOUS
<1> QED
  BY <1>1, CostType DEF OwnCost

LEMMA OwnCharging ==
  ASSUME NEW s, NEW a \in Int, Region(a) \in 2 .. 12, NEW n \in Spans
  PROVE  Charging(s, a, n) = Charged(s, OwnCost(a, n))
BY ChargingIs DEF OwnCost

\* A halfword store to an I/O register, by the native tail and by the helper.
LEMMA TailAgrees ==
  ASSUME NEW s, Rested(s), NEW i \in Singles, i.rd # 15, SizeOf(i.kind) = 2, NEW a \in Int, Plain(i, a),
         Region(a) = 4, IoTail(IoOffset(a)), NEW pc, Moved(s, i, pc) \in Int32,
         NEW o, o = IoOffset(a), o # 512, NEW v, v = StoreValue(s.r[i.rd], 2)
  PROVE  Charging(Back(IoStore(s, o, v), i, Moved(s, i, pc)), a, 2) = OwnStore(s, i, pc, a)
<1> DEFINE x == OwnCost(a, 2)
           t == IoStore(s, o, v)
           new == Moved(s, i, pc)
<1>1. s \in State /\ s.alert = {} /\ i.rd \in Register /\ 2 \in Spans
  BY SingleFields DEF Rested, Spans
<1>2. Held(a) /\ IoOffset(a) < Kib /\ new \in Int32
  BY DEF Plain
<1>3. a % 2 = 0 /\ <<"io", o>> \in Cells /\ <<"io", o + 1>> \in Cells
  <2>1. a % Kib = IoOffset(a) /\ a % 2 = 0 /\ <<"io", a % Kib>> \in Cells /\ <<"io", (a % Kib) + 1>> \in Cells
    BY <1>2, TailCells
  <2> QED
    BY <2>1
<1>4. v \in Int /\ x \in Int
  BY <1>1, ValueType, OwnCostType
<1> HIDE DEF x, new
<1>5. t \in State /\ t.alert = {} /\ IoStore(Charged(s, x), o, v) = Charged(t, x)
  BY <1>1, <1>3, <1>4, IoStoreCharged
<1>6. OwnWrite(s, a, 2, s.r[i.rd]) = Charged(t, x)
  <2>1. OwnWrite(s, a, 2, s.r[i.rd]) = WriteIo16(Charged(s, x), o, v)
    BY <1>1, OwnIo DEF x
  <2>2. WriteIo16(Charged(s, x), o, v) = IoStore(Charged(s, x), o, v)
    BY IoStoreIs
  <2> QED
    BY <1>5, <2>1, <2>2
<1> HIDE DEF t
<1>7. AlertBreak(Back(Charged(t, x), i, new), pc + Width(i)) = Charged(Back(t, i, new), x)
  BY <1>2, <1>4, <1>5, StoreEnds
<1>8. OwnStore(s, i, pc, a) = Charged(Back(t, i, new), x)
  BY <1>1, <1>3, <1>6, <1>7, OwnStoreIs DEF new
<1>9. Charging(Back(t, i, new), a, 2) = Charged(Back(t, i, new), x)
  <2>1. Region(a) \in 2 .. 12
    OBVIOUS
  <2> QED
    BY <1>1, <2>1, OwnCharging DEF x
<1> QED
  BY <1>8, <1>9 DEF t, new

\* IE: the alert of the switch is not what the block stops for.
LEMMA OwnIe ==
  ASSUME NEW s, Rested(s), NEW i \in Singles, i.rd # 15, SizeOf(i.kind) = 2, NEW a \in Int, Plain(i, a),
         Region(a) = 4, IoOffset(a) = 512, NEW pc, NEW new, new = Moved(s, i, pc), new \in Int32,
         NEW v, v = StoreValue(s.r[i.rd], 2)
  PROVE  /\ OwnStore(s, i, pc, a) = Charged(Back(IoPut(s, 512, v), i, new), OwnCost(a, 2))
         /\ Rested(IoPut(s, 512, v)) /\ v \in Int
<1> DEFINE x == OwnCost(a, 2)
           t == IoPut(s, 512, v)
<1>1. s \in State /\ s.alert = {} /\ i.rd \in Register /\ 2 \in Spans
  BY SingleFields DEF Rested, Spans
<1>3. a % 2 = 0
  BY SMT DEF IoOffset
<1>4. v \in Int /\ x \in Int
  BY <1>1, ValueType, OwnCostType
<1> HIDE DEF x
<1>5. t \in State /\ t.alert = {} /\ IoPut(Charged(s, x), 512, v) = Charged(t, x)
  BY <1>1, <1>4, ChargedPut, PutType DEF IoPut
<1>6. OwnWrite(s, a, 2, s.r[i.rd]) \in {Charged(t, x), Raise(Charged(t, x), "irq")}
  <2>1. OwnWrite(s, a, 2, s.r[i.rd]) = WriteIo16(Charged(s, x), 512, v)
    BY <1>1, OwnIo DEF x
  <2>2. WriteIo16(Charged(s, x), 512, v) = Checked(IoPut(Charged(s, x), 512, v))
    BY SMT DEF WriteIo16, IoPut
  <2> HIDE DEF t
  <2>3. Checked(Charged(t, x)) \in {Charged(t, x), Raise(Charged(t, x), "irq")}
    BY <1>4, <1>5, ChargedType, KeptChecked
  <2> QED
    BY <1>5, <2>1, <2>2, <2>3
<1>7. Rested(t)
  <2>1. Kept(s, t)
    BY <1>1, <1>4, KeptPut DEF IoPut
  <2> HIDE DEF t
  <2> QED
    BY <1>5, <2>1, FreshKept DEF Rested, Kept
<1> HIDE DEF t
<1>8. ASSUME NEW u, u \in {Charged(t, x), Raise(Charged(t, x), "irq")}
      PROVE  AlertBreak(Back(u, i, new), pc + Width(i)) = Charged(Back(t, i, new), x)
  BY <1>4, <1>5, <1>8, StoreEnds
<1>9. OwnStore(s, i, pc, a) = Charged(Back(t, i, new), x)
  BY <1>1, <1>3, <1>6, <1>8, OwnStoreIs
<1> QED
  BY <1>4, <1>7, <1>9 DEF x, t

LEMMA PutTwice ==
  ASSUME NEW s \in State, NEW c, NEW n \in Spans, NEW v \in Int
  PROVE  Put(Put(s, c, n, v), c, n, v) = Put(s, c, n, v)
<1> DEFINE t == Put(s, c, n, v)
<1>1. t \in State /\ t = WithMem(s, PutCells(s, c, n, v))
  BY PutType, PutWith
<1>2. \A d \in Cells : t.mem[d] = PutCells(s, c, n, v)[d]
  BY PutMem DEF PutCells
<1> HIDE DEF t
<1>3. PutCells(t, c, n, v) = PutCells(s, c, n, v)
  BY <1>2 DEF PutCells
<1>4. Put(t, c, n, v) = WithMem(t, PutCells(s, c, n, v))
  BY <1>1, <1>3, PutWith
<1> DEFINE m == PutCells(s, c, n, v)
<1> HIDE DEF m
<1>5. WithMem(WithMem(s, m), m) = WithMem(s, m)
  BY WithTwice
<1> QED
  BY <1>1, <1>4, <1>5 DEF m, t

LEMMA SameRegisters ==
  ASSUME NEW s, NEW t, t.r = s.r, NEW i, NEW pc
  PROVE  AddressOf(t, i, pc) = AddressOf(s, i, pc) /\ Moved(t, i, pc) = Moved(s, i, pc)
BY DEF AddressOf, Moved, BaseOf, Offset

\* The whole tail.  IE is written before the interrupt is looked at; the helper
\* that then takes the instruction over writes the same value again.
LEMMA IoRoutineAgrees ==
  ASSUME NEW s, Rested(s), NEW i \in Singles, ~i.load, i.rd # 15, SizeOf(i.kind) = 2, NEW a \in Int, Plain(i, a),
         Region(a) = 4, IoTail(IoOffset(a)), NEW pc \in 0 .. MapEnd - 1, a = AddressOf(s, i, pc),
         NEW new, new = Moved(s, i, pc), new \in Int32
  PROVE  IoRoutine(s, i, a, new, pc) = OwnStore(s, i, pc, a)
<1> DEFINE o == a % Kib
           v == StoreValue(s.r[i.rd], 2)
           t == IoStore(s, o, v)
<1>1. o = IoOffset(a)
  BY AreaOffsets DEF Plain
<1>2. IoRoutine(s, i, a, new, pc)
        = IF o = 512 /\ Unmasks(t) THEN Helper(t, i, pc, TRUE) ELSE Charging(Back(t, i, new), a, 2)
  BY DEF IoRoutine
<1>3. CASE o # 512
  <2> HIDE DEF o, v
  <2>1. Charging(Back(IoStore(s, o, v), i, Moved(s, i, pc)), a, 2) = OwnStore(s, i, pc, a)
    BY <1>1, <1>3, TailAgrees DEF v
  <2> QED
    BY <1>2, <1>3, <2>1
<1>4. CASE o = 512
  <2> DEFINE u == IoPut(s, 512, v)
  <2>1. t = u
    BY <1>4, SMT DEF IoStore, IoPut
  <2>2. OwnStore(s, i, pc, a) = Charged(Back(u, i, new), OwnCost(a, 2)) /\ Rested(u) /\ v \in Int
    BY <1>1, <1>4, OwnIe
  <2> HIDE DEF v
  <2>3. u.r = s.r /\ IoPut(u, 512, v) = u
    <3>1. s \in State /\ 2 \in Spans
      BY DEF Rested, Spans
    <3> QED
      BY <2>2, <3>1, PutType, PutTwice DEF IoPut
  <2> HIDE DEF u
  <2>4. Charging(Back(u, i, new), a, 2) = Charged(Back(u, i, new), OwnCost(a, 2))
    <3>1. 2 \in Spans /\ Region(a) \in 2 .. 12
      BY DEF Spans
    <3> QED
      BY <3>1, OwnCharging
  <2>5. Helper(u, i, pc, TRUE) = SingleStore(u, i, pc, AddressOf(u, i, pc), TRUE)
    <3>1. i.k = "single"
      BY SingleFields
    <3> QED
      BY <3>1 DEF Helper
  <2>6. AddressOf(u, i, pc) = a /\ Moved(u, i, pc) = new
    BY <2>3, SameRegisters
  <2>7. SingleStore(u, i, pc, a, TRUE) = OwnStore(u, i, pc, a)
    BY <2>2, <2>6, FastStoreAgrees
  <2>8. v = StoreValue(u.r[i.rd], 2)
    BY <2>3 DEF v
  <2>9. OwnStore(u, i, pc, a) = Charged(Back(IoPut(u, 512, v), i, new), OwnCost(a, 2))
    BY <1>1, <1>4, <2>2, <2>6, <2>8, OwnIe
  <2>10. Helper(u, i, pc, TRUE) = Charged(Back(u, i, new), OwnCost(a, 2))
    BY <2>3, <2>5, <2>6, <2>7, <2>9
  <2> DEFINE b == o = 512 /\ Unmasks(t)
  <2>11. IoRoutine(s, i, a, new, pc) = IF b THEN Helper(u, i, pc, TRUE) ELSE Charging(Back(u, i, new), a, 2)
    BY <1>2, <2>1
  <2> HIDE DEF b
  <2> QED
    BY <2>2, <2>4, <2>10, <2>11
<1> QED
  BY <1>3, <1>4

-----------------------------------------------------------------------------
(* The helper a site hands its instruction to is gpSP's own access.        *)

Handed(s, i, pc) == Helper(s, i, pc, TRUE)
Own(s, i, pc) == Helper(s, i, pc, FALSE)

LEMMA StoreLoopOnce ==
  ASSUME NEW s, NEW i, NEW a, NEW pc, NEW n \in Nat, NEW f, StoreLoop(f, s, i, a, pc, n), NEW g, StoreLoop(g, s, i, a, pc, n)
  PROVE  f[n] = g[n]
<1> DEFINE S == {k \in Nat : k <= n => f[k] = g[k]}
<1>1. 0 \in S
  BY DEF StoreLoop
<1>2. ASSUME NEW k \in Nat, k \in S
      PROVE  k + 1 \in S
  <2>1. SUFFICES ASSUME k + 1 <= n PROVE f[k + 1] = g[k + 1]
    OBVIOUS
  <2>2. k + 1 \in 0 .. n /\ k + 1 # 0 /\ (k + 1) - 1 = k /\ k <= n
    BY <2>1
  <2>3. f[k + 1] = StoreStep(f[k], i, a, k + 1, pc)
    BY <2>2 DEF StoreLoop
  <2>4. g[k + 1] = StoreStep(g[k], i, a, k + 1, pc)
    BY <2>2 DEF StoreLoop
  <2>5. f[k] = g[k]
    BY <1>2, <2>2
  <2> QED
    BY <2>3, <2>4, <2>5
<1> HIDE DEF S
<1>3. Nat \subseteq S
  BY <1>1, <1>2, Induction
<1> QED
  BY <1>3 DEF S

FastStep(t, i, a, k, pc) == StoreWord(t, i, a, k, pc, TRUE)
LEMMA StepFast ==
  ASSUME NEW t, NEW i, NEW a, NEW k, NEW pc
  PROVE  FastStep(t, i, a, k, pc) = StoreStep(t, i, a, k, pc)
BY DEF FastStep, StoreStep, StoreWord, ExecuteStore, Stored

LEMMA StoredWordsFast ==
  ASSUME NEW s, NEW i, NEW a, NEW pc, Count(i) \in Nat
  PROVE  StoredWords(s, i, a, pc, TRUE) = StoredWords(s, i, a, pc, FALSE)
<1>1. PICK f : StoreLoop(f, s, i, a, pc, Count(i)) /\ StoredWords(s, i, a, pc, FALSE) = f[Count(i)]
  BY StoreLoops
<1> DEFINE F == CHOOSE g : g = [k \in 0 .. Count(i) |-> IF k = 0 THEN s ELSE FastStep(g[k - 1], i, a, k, pc)]
<1>2. StoredWords(s, i, a, pc, TRUE) = F[Count(i)]
  BY DEF StoredWords, FastStep
<1>3. f = [k \in 0 .. Count(i) |-> IF k = 0 THEN s ELSE FastStep(f[k - 1], i, a, k, pc)]
  BY <1>1, StepFast DEF StoreLoop
<1>4. F = [k \in 0 .. Count(i) |-> IF k = 0 THEN s ELSE FastStep(F[k - 1], i, a, k, pc)]
  BY <1>3
<1> HIDE DEF F
<1>5. StoreLoop(F, s, i, a, pc, Count(i))
  BY <1>4, StepFast DEF StoreLoop
<1>6. F[Count(i)] = f[Count(i)]
  BY <1>1, <1>5, StoreLoopOnce
<1> QED
  BY <1>1, <1>2, <1>6

LEMMA HandedSingle ==
  ASSUME NEW s, Rested(s), NEW i \in Singles, NEW pc, Proper(s, i, pc)
  PROVE  Handed(s, i, pc) = Own(s, i, pc)
<1> DEFINE a == AddressOf(s, i, pc)
<1>1. i.k = "single" /\ i.load \in BOOLEAN
  BY SingleFields
<1>2. a \in Int /\ Plain(i, a) /\ Moved(s, i, pc) \in Int32 /\ pc \in 0 .. MapEnd - 1
  BY ProperSingle
<1>3. CASE i.load
  BY <1>1, <1>3 DEF Handed, Own, Helper
<1>4. CASE ~i.load
  <2>1. Handed(s, i, pc) = SingleStore(s, i, pc, a, TRUE) /\ Own(s, i, pc) = OwnStore(s, i, pc, a)
    BY <1>1, <1>4 DEF Handed, Own, Helper, OwnStore
  <2> HIDE DEF a
  <2> QED
    BY <1>2, <2>1, FastStoreAgrees
<1> QED
  BY <1>1, <1>3, <1>4

LEMMA HandedBlock ==
  ASSUME NEW s, NEW i \in Multiples, NEW pc
  PROVE  Handed(s, i, pc) = Own(s, i, pc)
<1>1. i.k = "block" /\ i.k # "single" /\ i.load \in BOOLEAN /\ Count(i) \in Nat
  BY MultipleFields
<1>2. CASE i.load
  BY <1>1, <1>2 DEF Handed, Own, Helper
<1>3. CASE ~i.load
  <2>1. StoredWords(s, i, FirstOf(s, i), pc, TRUE) = StoredWords(s, i, FirstOf(s, i), pc, FALSE)
    BY <1>1, StoredWordsFast
  <2>2. BlockStore(s, i, FirstOf(s, i), pc, TRUE) = BlockStore(s, i, FirstOf(s, i), pc, FALSE)
    BY <2>1 DEF BlockStore
  <2> QED
    BY <1>1, <1>3, <2>2 DEF Handed, Own, Helper
<1> QED
  BY <1>1, <1>2, <1>3

LEMMA HandedSwap ==
  ASSUME NEW s, NEW i \in Swaps, NEW pc
  PROVE  Handed(s, i, pc) = Own(s, i, pc)
<1>1. i.k = "swap" /\ i.k # "single" /\ i.k # "block" /\ SizeOf(i.kind) # 2
  BY SwapFields DEF SizeOf
<1>2. Swap(s, i, pc, TRUE) = Swap(s, i, pc, FALSE)
  BY <1>1 DEF Swap, ExecuteStore, Stored
<1> QED
  BY <1>1, <1>2 DEF Handed, Own, Helper

\* A site with a single transfer.
LEMMA OwnSingle ==
  ASSUME NEW s, NEW i \in Singles, NEW pc, NEW a, a = AddressOf(s, i, pc)
  PROVE  (i.load => Own(s, i, pc) = SingleLoad(s, i, pc, a)) /\ (~i.load => Own(s, i, pc) = OwnStore(s, i, pc, a))
<1>1. i.k = "single"
  BY SingleFields
<1> QED
  BY <1>1 DEF Own, Helper, OwnStore

LEMMA RoutineAgrees ==
  ASSUME NEW s, Rested(s), NEW i \in Singles, NEW pc, Proper(s, i, pc), i.rd # 15,
         ~(i.load /\ WritesBack(i) /\ i.rd = i.rn), NEW a, a = AddressOf(s, i, pc),
         NEW n, n = SizeOf(i.kind), NEW new, new = Moved(s, i, pc)
  PROVE  Routine(s, i, a, n, new, pc) = Own(s, i, pc)
<1>1. a \in Int /\ Plain(i, a) /\ new \in Int32 /\ pc \in 0 .. MapEnd - 1 /\ i.load \in BOOLEAN
  BY ProperSingle, SingleFields
<1>2. (i.load => Own(s, i, pc) = SingleLoad(s, i, pc, a)) /\ (~i.load => Own(s, i, pc) = OwnStore(s, i, pc, a))
  BY OwnSingle
<1> DEFINE load == i.load /\ (Direct(a, n) \/ LoadGuards(s, a, n))
           pal == ~i.load /\ PaletteGuards(a, n)
           store == ~i.load /\ StoreGuards(s, a, n)
           io == ~i.load /\ n = 2 /\ Region(a) = 4 /\ IoTail(IoOffset(a))
<1>3. Routine(s, i, a, n, new, pc)
        = CASE load -> RoutineLoad(s, i, a, n, new) [] pal -> PaletteStore(s, i, a, n, new)
            [] store -> RoutineStore(s, i, a, n, new) [] io -> IoRoutine(s, i, a, new, pc)
            [] OTHER -> Handed(s, i, pc)
  BY DEF Routine, Handed
<1>4. load => RoutineLoad(s, i, a, n, new) = Own(s, i, pc)
  BY <1>1, <1>2, RoutineLoadAgrees
<1>5. pal => PaletteStore(s, i, a, n, new) = Own(s, i, pc)
  BY <1>1, <1>2, PaletteAgrees
<1>6. store => RoutineStore(s, i, a, n, new) = Own(s, i, pc)
  BY <1>1, <1>2, RoutineStoreAgrees
<1>7. io => IoRoutine(s, i, a, new, pc) = Own(s, i, pc)
  BY <1>1, <1>2, IoRoutineAgrees
<1>8. Handed(s, i, pc) = Own(s, i, pc)
  BY HandedSingle
<1> HIDE DEF load, pal, store, io
<1> QED
  BY <1>3, <1>4, <1>5, <1>6, <1>7, <1>8

LEMMA ArmSingleAgrees ==
  ASSUME NEW s, Rested(s), NEW i \in Singles, NEW pc, Proper(s, i, pc), NEW a, a = AddressOf(s, i, pc),
         NEW n, n = SizeOf(i.kind), NEW new, new = Moved(s, i, pc)
  PROVE  ArmSingle(s, i, a, n, new, pc) = Own(s, i, pc)
<1>1. a \in Int /\ Plain(i, a) /\ new \in Int32
  BY ProperSingle
<1>2. CASE ArmDeclines(i)
  <2>1. ArmSingle(s, i, a, n, new, pc) = Handed(s, i, pc)
    BY <1>2 DEF ArmSingle, Handed
  <2> QED
    BY <2>1, HandedSingle
<1>3. CASE ~ArmDeclines(i) /\ ArmInline(i, a, n, pc)
  <2>1. i.rd # 15 /\ i.load /\ ~(WritesBack(i) /\ i.rd = i.rn)
    BY <1>3 DEF ArmDeclines, ArmInline
  <2>2. ArmSingle(s, i, a, n, new, pc) = InlineLoad(s, i, Place(a), n, new, 1)
    BY <1>3 DEF ArmSingle
  <2>3. InlineLoad(s, i, Place(a), n, new, 1) = SingleLoad(s, i, pc, a)
    BY <1>1, <1>3, <2>1, ArmInlineAgrees
  <2> QED
    BY <2>1, <2>2, <2>3, OwnSingle
<1>4. CASE ~ArmDeclines(i) /\ ~ArmInline(i, a, n, pc)
  <2>1. i.rd # 15 /\ ~(i.load /\ WritesBack(i) /\ i.rd = i.rn)
    BY <1>4 DEF ArmDeclines
  <2>2. ArmSingle(s, i, a, n, new, pc) = Routine(s, i, a, n, new, pc)
    BY <1>4 DEF ArmSingle
  <2> QED
    BY <2>1, <2>2, RoutineAgrees
<1> QED
  BY <1>2, <1>3, <1>4

LEMMA ThumbSingleAgrees ==
  ASSUME NEW s, Rested(s), NEW i \in Singles, i.set = "thumb", NEW pc, Proper(s, i, pc), NEW a, a = AddressOf(s, i, pc),
         NEW n, n = SizeOf(i.kind), NEW new, new = Moved(s, i, pc)
  PROVE  ThumbSingle(s, i, a, n, new, pc) = Own(s, i, pc)
<1>1. a \in Int /\ Plain(i, a) /\ new \in Int32
  BY ProperSingle
<1>2. i.k = "single" /\ i.pre /\ ~i.wb /\ i.rd # 15
  BY SingleFields
<1>3. ~WritesBack(i)
  BY <1>2 DEF WritesBack
<1> DEFINE inline == IoAligned(i, a, n) /\ (KnownIo(i, a) \/ HotIo(i, a))
           at == <<"io", a % Kib>>
           cost == NseqCost[8 + (IF n = 4 THEN 1 ELSE 0)]
<1>4. ThumbSingle(s, i, a, n, new, pc) = IF inline THEN InlineLoad(s, i, at, n, new, cost) ELSE Routine(s, i, a, n, new, pc)
  BY DEF ThumbSingle
<1>5. inline => InlineLoad(s, i, at, n, new, cost) = Own(s, i, pc)
  <2>1. SUFFICES ASSUME inline PROVE InlineLoad(s, i, at, n, new, cost) = Own(s, i, pc)
    OBVIOUS
  <2>2. i.load /\ a % n = 0 /\ Region(a) = 4
    BY <1>1, <1>2, <2>1 DEF IoAligned, HotIo, Plain
  <2>3. InlineLoad(s, i, at, n, new, cost) = SingleLoad(s, i, pc, a)
    BY <1>1, <1>2, <1>3, <2>2, IoInlineAgrees
  <2> QED
    BY <2>2, <2>3, OwnSingle
<1>6. Routine(s, i, a, n, new, pc) = Own(s, i, pc)
  BY <1>2, <1>3, RoutineAgrees
<1> HIDE DEF inline, at, cost
<1> QED
  BY <1>4, <1>5, <1>6

-----------------------------------------------------------------------------
(* A site with a block transfer.                                           *)

LEMMA DivBetween ==
  ASSUME NEW a \in Int, NEW b \in Int, NEW w \in Int, a <= w, w <= b, a \div PageBytes = b \div PageBytes
  PROVE  w \div PageBytes = a \div PageBytes
BY SMT DEF PageBytes, Kib

\* The words of a run lie in one page of the map.
LEMMA WordsOfPage ==
  ASSUME NEW a \in Int, NEW m \in Nat, OnePage(a, m), a % 4 = 0, NEW k \in 1 .. m, NEW w, w = Word(a, k)
  PROVE  w \in Int /\ w % 4 = 0 /\ Region(w) = Region(a) /\ \A s : HostPage(s, w) = HostPage(s, a)
<1>1. PICK j \in Nat : j = k - 1 /\ j < m
  OBVIOUS
<1>2. w = a + 4 * j
  BY <1>1 DEF Word
<1>3. w \in Int /\ w % 4 = 0 /\ a <= w /\ w <= a + 4 * m - 1 /\ a + 4 * m - 1 \in Int
  BY <1>1, <1>2
<1>4. w \div PageBytes = a \div PageBytes
  BY <1>3, DivBetween DEF OnePage
<1>5. SamePage(w, a)
  BY <1>3, <1>4, OfOnePage
<1> QED
  BY <1>3, <1>5, HostPageSame DEF SamePage

Readable(s, i, a) ==
  /\ a \in Int /\ a % 4 = 0 /\ OnePage(a, Count(i)) /\ Region(a) \in 2 .. 12 /\ HostPage(s, a) # Null
  /\ i.load /\ \A k \in 1 .. Count(i) : Plain(i, Word(a, k))
WordCost(a) == SeqCost[2 * Region(a) + 1]

LEMMA WordCostIs ==
  ASSUME NEW a \in Int, Region(a) \in 2 .. 12, NEW w \in Int, Region(w) = Region(a)
  PROVE  CostOf(TRUE, w, 4) = WordCost(a) /\ WordCost(a) \in Int
<1>1. Region(w) \in 2 .. 12
  OBVIOUS
<1>2. CostOf(TRUE, w, 4) = SeqCost[2 * Region(w) + 1] /\ SeqCost[2 * Region(w) + 1] \in Int
  BY <1>1, SeqDebitIs
<1> QED
  BY <1>2 DEF WordCost

\* What a move does to a machine with the pages of s.
MoveIs(s, t, u, v, r) == u = Set(t, r, v) /\ v \in Int32 /\ r \in Register
LEMMA PagesSame ==
  ASSUME NEW s, NEW t, t.pages = s.pages, NEW a
  PROVE  HostPage(t, a) = HostPage(s, a)
BY DEF HostPage

\* One word, loaded by the block and by gpSP.
LEMMA LoadWordAgrees ==
  ASSUME NEW s \in State, NEW i \in Multiples, NEW a, Readable(s, i, a), NEW t \in State, t.pages = s.pages,
         NEW k \in 1 .. Count(i)
  PROVE  /\ LoadWord(t, i, a, k) = Charged(MoveWord(t, i, a, k), WordCost(a))
         /\ \E v \in Int32 : \A u \in State : u.mem = t.mem /\ u.pages = t.pages => MoveWord(u, i, a, k) = Set(u, i.list[k], v)
         /\ i.list[k] \in Register
<1> DEFINE w == Word(a, k)
           b == Host(t, At(HostPage(t, a), w), 4)
           v == Whole(b)
<1>1. i.list[k] \in Register /\ Count(i) \in Nat
  BY MultipleFields
<1>2. /\ a \in Int /\ a % 4 = 0 /\ OnePage(a, Count(i)) /\ Region(a) \in 2 .. 12 /\ HostPage(t, a) # Null
      /\ i.load /\ Plain(i, w)
  BY PagesSame DEF Readable
<1>3. w \in Int /\ w % 4 = 0 /\ Region(w) = Region(a) /\ HostPage(t, w) = HostPage(t, a)
  BY <1>1, <1>2, WordsOfPage
<1> HIDE DEF w
<1>4. LoadPage(t, w) = HostPage(t, a) /\ LoadPage(t, w) # Null
  BY <1>2, <1>3 DEF LoadPage
<1>5. Held(w) /\ (Region(w) = 4 => IoOffset(w) < Kib) /\ (Region(w) \in 8 .. 12 => RomOffset(w) < RomBytes)
  <2>1. i.k # "swap"
    BY MultipleFields
  <2> QED
    BY <1>2, <2>1 DEF Plain, InImage
<1>6. b = Read(t, w, 4) /\ Settled(t, w)
  <2>1. Region(w) \in 2 .. 12
    BY <1>2, <1>3
  <2>2. Host(t, At(LoadPage(t, w), w), 4) = Read(t, w, 4) /\ Settled(t, w)
    BY <1>3, <1>4, <1>5, <2>1, NativeRead
  <2> QED
    BY <1>4, <2>2
<1>7. Loaded(t, "W", w) = v /\ v \in Int32
  <2>1. SizeOf("W") = 4 /\ "W" \in {"W", "B", "UH", "SH", "SB"}
    BY DEF SizeOf
  <2>2. Loaded(t, "W", w) = Extended("W", Read(t, w, 4))
    BY <1>3, <2>1, LoadedAligned
  <2>3. Extended("W", Read(t, w, 4)) = Whole(Read(t, w, 4))
    BY DEF Extended
  <2>4. Loaded(t, "W", w) \in Int32
    BY <1>3, <1>5, <2>1, LoadedType
  <2> QED
    BY <1>6, <2>2, <2>3, <2>4
<1>8. ExecuteLoad(t, "W", w, TRUE) = Charged(t, WordCost(a))
  <2>1. SizeOf("W") = 4 /\ TRUE \in BOOLEAN
    BY DEF SizeOf
  <2>2. ExecuteLoad(t, "W", w, TRUE) = Charged(t, CostOf(TRUE, w, 4))
    BY <1>3, <1>6, <2>1, ExecuteLoadIs
  <2> QED
    BY <1>2, <1>3, <2>2, WordCostIs
<1>9. WordCost(a) \in Int
  BY <1>2, <1>3, WordCostIs
<1>10. ASSUME NEW u \in State, u.mem = t.mem, u.pages = t.pages
       PROVE  MoveWord(u, i, a, k) = Set(u, i.list[k], v)
  <2>1. HostPage(u, a) = HostPage(t, a)
    BY <1>10, PagesSame
  <2>2. Host(u, At(HostPage(t, a), w), 4) = b
    BY <1>10, HostSame
  <2> QED
    BY <1>2, <2>1, <2>2 DEF MoveWord, w
<1>11. LoadWord(t, i, a, k) = Set(Charged(t, WordCost(a)), i.list[k], v)
  BY <1>7, <1>8 DEF LoadWord, w
<1> HIDE DEF v
<1>12. Set(Charged(t, WordCost(a)), i.list[k], v) = Charged(Set(t, i.list[k], v), WordCost(a))
  BY <1>9, ChargedSet
<1> QED
  BY <1>1, <1>7, <1>10, <1>11, <1>12

\* A load also writes the base, before the words: unless it is in the list.
Rebase(u, i, new) == IF i.wb /\ ~InList(i, i.rn) THEN Set(u, i.rn, new) ELSE u
LEMMA RebaseType ==
  ASSUME NEW u \in State, NEW i \in Multiples, NEW new \in Int32
  PROVE  /\ Rebase(u, i, new) \in State /\ Rebase(u, i, new).mem = u.mem /\ Rebase(u, i, new).pages = u.pages
         /\ Rebase(u, i, new).alert = u.alert
BY MultipleFields, SetFields DEF Rebase

LEMMA LoadedStep ==
  ASSUME NEW s \in State, NEW i \in Multiples, NEW a, Readable(s, i, a), NEW u \in State, u.pages = s.pages,
         NEW k \in 1 .. Count(i), NEW new \in Int32, NEW y \in Int
  PROVE  /\ LoadWord(Charged(Rebase(u, i, new), y), i, a, k) = Charged(Rebase(MoveWord(u, i, a, k), i, new), y + WordCost(a))
         /\ MoveWord(u, i, a, k) \in State /\ MoveWord(u, i, a, k).pages = s.pages
         /\ MoveWord(u, i, a, k).alert = u.alert
<1> DEFINE b == Rebase(u, i, new)
           t == Charged(b, y)
           c == WordCost(a)
           l == i.list[k]
<1>1. b \in State /\ b.mem = u.mem /\ b.pages = u.pages
  BY RebaseType
<1>2. i.rn \in Register /\ Count(i) \in Nat
  BY MultipleFields
<1>3. c \in Int
  BY WordCostIs DEF Readable
<1>4. i.wb /\ ~InList(i, i.rn) => l # i.rn
  BY DEF InList
<1> HIDE DEF b
<1>5. t \in State /\ t.mem = u.mem /\ t.pages = u.pages
  BY <1>1, ChargedType
<1> HIDE DEF t
<1>6. /\ LoadWord(t, i, a, k) = Charged(MoveWord(t, i, a, k), c)
      /\ \E v \in Int32 : \A x \in State : x.mem = t.mem /\ x.pages = t.pages => MoveWord(x, i, a, k) = Set(x, l, v)
      /\ l \in Register
  BY <1>5, LoadWordAgrees
<1>7. PICK v \in Int32 : \A x \in State : x.mem = t.mem /\ x.pages = t.pages => MoveWord(x, i, a, k) = Set(x, l, v)
  BY <1>6
<1>8. MoveWord(t, i, a, k) = Set(t, l, v) /\ MoveWord(u, i, a, k) = Set(u, l, v)
  BY <1>5, <1>7
<1> HIDE DEF l, c
<1>9. Set(t, l, v) = Charged(Set(b, l, v), y)
  BY <1>1, ChargedSet DEF t
<1>10. Set(b, l, v) = Rebase(Set(u, l, v), i, new) /\ Set(b, l, v) \in State
  <2>1. CASE i.wb /\ ~InList(i, i.rn)
    <3>1. Set(Set(u, i.rn, new), l, v) = Set(Set(u, l, v), i.rn, new)
      BY <1>2, <1>4, <1>6, <2>1, SetTwice
    <3> QED
      BY <1>1, <1>6, <2>1, <3>1, SetFields DEF b, Rebase
  <2>2. CASE ~(i.wb /\ ~InList(i, i.rn))
    BY <1>1, <1>6, <2>2, SetFields DEF b, Rebase
  <2> QED
    BY <2>1, <2>2
<1>11. Charged(Charged(Set(b, l, v), y), c) = Charged(Set(b, l, v), y + c)
  BY <1>3, <1>10, ChargedTwice
<1>12. Set(u, l, v) \in State /\ Set(u, l, v).pages = s.pages /\ Set(u, l, v).alert = u.alert
  BY <1>6, SetFields
<1>13. LoadWord(t, i, a, k) = Charged(Rebase(MoveWord(u, i, a, k), i, new), y + c)
  BY <1>6, <1>8, <1>9, <1>10, <1>11
<1> QED
  BY <1>8, <1>12, <1>13 DEF t, b, c

LEMMA TimesStep ==
  ASSUME NEW k \in Nat, NEW c \in Int
  PROVE  k * c \in Int /\ (k * c) + c = (k + 1) * c /\ 0 * c = 0
OBVIOUS

LEMMA LoadedWordsAgree ==
  ASSUME NEW s \in State, NEW i \in Multiples, NEW a, Readable(s, i, a), NEW new \in Int32
  PROVE  /\ LoadedWords(Rebase(s, i, new), i, a) = Charged(Rebase(MovedWords(s, i, a), i, new), Count(i) * WordCost(a))
         /\ MovedWords(s, i, a) \in State /\ MovedWords(s, i, a).alert = s.alert
<1> DEFINE b == Rebase(s, i, new)
           c == WordCost(a)
           n == Count(i)
<1>1. n \in Nat
  BY MultipleFields
<1>2. c \in Int
  BY WordCostIs DEF Readable
<1>3. PICK h : LoadLoop(h, b, i, a, n) /\ LoadedWords(b, i, a) = h[n]
  BY <1>1, LoadLoops
<1>4. PICK m : MoveLoop(m, s, i, a, n) /\ MovedWords(s, i, a) = m[n]
  BY <1>1, MoveLoops
<1> DEFINE Same(k) == /\ m[k] \in State /\ m[k].pages = s.pages /\ m[k].alert = s.alert
                      /\ h[k] = Charged(Rebase(m[k], i, new), k * c)
           S == {k \in Nat : k <= n => Same(k)}
<1> HIDE DEF n, c
<1>5. Same(0)
  <2>1. h[0] = b /\ m[0] = s
    BY <1>1, <1>3, <1>4 DEF LoadLoop, MoveLoop
  <2>2. b \in State
    BY RebaseType
  <2>3. Charged(b, 0) = b /\ 0 * c = 0
    BY <1>2, <2>2, ChargedTwice, TimesStep
  <2> QED
    BY <2>1, <2>3
<1>6. ASSUME NEW k \in Nat, k \in S
      PROVE  k + 1 \in S
  <2>1. SUFFICES ASSUME k + 1 <= n PROVE Same(k + 1)
    OBVIOUS
  <2>2. k + 1 \in 1 .. n /\ k + 1 \in 0 .. n /\ k + 1 # 0 /\ (k + 1) - 1 = k /\ k <= n
    BY <1>1, <2>1
  <2>3. h[k + 1] = LoadWord(h[k], i, a, k + 1)
    BY <1>3, <2>2 DEF LoadLoop
  <2>4. m[k + 1] = MoveWord(m[k], i, a, k + 1)
    BY <1>4, <2>2 DEF MoveLoop
  <2>5. Same(k)
    BY <1>6, <2>2
  <2>6. k * c \in Int /\ (k * c) + c = (k + 1) * c
    BY <1>2, TimesStep
  <2> DEFINE u == m[k]
             y == k * c
             z == (k + 1) * c
  <2>7. u \in State /\ u.pages = s.pages /\ u.alert = s.alert /\ h[k] = Charged(Rebase(u, i, new), y)
    BY <2>5
  <2> HIDE DEF u
  <2>8. y \in Int /\ y + c = z
    BY <2>6
  <2> HIDE DEF y, z
  <2>9. k + 1 \in 1 .. Count(i)
    BY <2>2 DEF n
  <2>10. /\ LoadWord(Charged(Rebase(u, i, new), y), i, a, k + 1) = Charged(Rebase(MoveWord(u, i, a, k + 1), i, new), y + WordCost(a))
         /\ MoveWord(u, i, a, k + 1) \in State /\ MoveWord(u, i, a, k + 1).pages = s.pages
         /\ MoveWord(u, i, a, k + 1).alert = u.alert
    BY <2>7, <2>8, <2>9, LoadedStep
  <2>11. h[k + 1] = Charged(Rebase(m[k + 1], i, new), z)
    BY <2>3, <2>4, <2>7, <2>8, <2>10 DEF u, c
  <2> QED
    BY <2>4, <2>7, <2>10, <2>11 DEF u, z
<1>7. 0 \in S
  BY <1>5
<1> HIDE DEF S
<1>8. Nat \subseteq S
  BY <1>6, <1>7, Induction
<1>9. Same(n)
  BY <1>1, <1>8 DEF S
<1> QED
  BY <1>3, <1>4, <1>9 DEF n, c

Popped(t) == [t EXCEPT !.r[15] = @ - (@ % 2), !.to = "redispatch"]
LEMMA LeaveIs ==
  ASSUME NEW t \in State, t.alert = {}
  PROVE  Leave(t, "redispatch", t.r[15] - (t.r[15] % 2)) = Popped(t)
<1> DEFINE D == DOMAIN t
           q == [t.r EXCEPT ![15] = t.r[15] - (t.r[15] % 2)]
           x == [t EXCEPT !.to = "redispatch"]
           y == [t EXCEPT !.r = q]
<1>1. t = [z \in D |-> t[z]] /\ "to" \in D /\ "r" \in D /\ "alert" \in D
  BY SMT DEF State
<1>2. [t EXCEPT !.to = "redispatch"].r = t.r
  BY SMT DEF State
<1>3. Leave(t, "redispatch", t.r[15] - (t.r[15] % 2)) = [[x EXCEPT !.r = q] EXCEPT !.alert = {}]
  BY <1>2 DEF Leave
<1>4. Popped(t) = [y EXCEPT !.to = "redispatch"]
  BY DEF Popped
<1> HIDE DEF D, q
<1>5. [[t EXCEPT !["to"] = "redispatch"] EXCEPT !["r"] = q] = [[t EXCEPT !["r"] = q] EXCEPT !["to"] = "redispatch"]
  BY <1>1, ExceptTwice
<1>6. [[[t EXCEPT !["r"] = q] EXCEPT !["to"] = "redispatch"] EXCEPT !["alert"] = {}]
        = [[t EXCEPT !["r"] = q] EXCEPT !["to"] = "redispatch"]
  BY <1>1
<1> QED
  BY <1>3, <1>4, <1>5, <1>6

\* A whole block, loaded.
LEMMA BlockLoadAgrees ==
  ASSUME NEW s, Rested(s), NEW i \in Multiples, NEW a, Readable(s, i, a), NewBase(s, i) \in Int32, NEW pc,
         NEW t, t = Charged(Transferred(s, i, a), Count(i) * WordCost(a))
  PROVE  /\ ~InList(i, 15) => BlockLoad(s, i, a, pc) = t
         /\ InList(i, 15) => BlockLoad(s, i, a, pc) = Popped(t)
<1> DEFINE new == NewBase(s, i)
           y == Count(i) * WordCost(a)
           m == MovedWords(s, i, a)
<1>1. s \in State /\ s.alert = {} /\ i.load
  BY DEF Rested, Readable
<1>2. y \in Int
  <2>1. WordCost(a) \in Int
    BY WordCostIs DEF Readable
  <2>2. Count(i) \in Nat
    BY MultipleFields
  <2> QED
    BY <2>1, <2>2, TimesStep
<1> HIDE DEF new
<1>3. LoadedWords(Rebase(s, i, new), i, a) = Charged(Rebase(m, i, new), y) /\ m \in State /\ m.alert = {}
  BY <1>1, LoadedWordsAgree DEF new
<1>4. Transferred(s, i, a) = Rebase(m, i, new)
  BY <1>1 DEF Transferred, Rebase, new
<1> HIDE DEF m, y
<1>5. Rebase(m, i, new) \in State /\ Rebase(m, i, new).alert = {}
  BY <1>3, RebaseType DEF new
<1> DEFINE b == Rebase(m, i, new)
<1> HIDE DEF b
<1>6. t = Charged(b, y) /\ b \in State /\ b.alert = {}
  BY <1>4, <1>5 DEF b, y
<1>7. t \in State /\ t.alert = {}
  BY <1>2, <1>6, ChargedType
<1>8. LoadedWords(Rebase(s, i, new), i, a) = t
  BY <1>3, <1>6 DEF b
<1>9. Rebase(s, i, new) = IF i.wb /\ ~InList(i, i.rn) THEN Set(s, i.rn, NewBase(s, i)) ELSE s
  BY DEF Rebase, new
<1>10. BlockLoad(s, i, a, pc) = IF InList(i, 15) THEN Leave(t, "redispatch", t.r[15] - (t.r[15] % 2)) ELSE AlertBreak(t, pc + Width(i))
  BY <1>8, <1>9 DEF BlockLoad
<1> QED
  BY <1>7, <1>10, LeaveIs, BreakNothing

Writable(i, a) ==
  /\ a \in Int /\ a % 4 = 0 /\ OnePage(a, Count(i)) /\ Region(a) \in {2, 3, 6}
  /\ ~i.load /\ ~InList(i, 15) /\ ~(i.set = "arm" /\ i.wb /\ InList(i, i.rn))
  /\ \A k \in 1 .. Count(i) : Plain(i, Word(a, k))
\* No word of the run is in a block of the translation cache.
Clear(t, i, a) ==
  Region(a) \in {2, 3} => \A k \in 1 .. Count(i) : \A j \in 1 .. 4 : Host(t, Tag(Word(a, k)), 4)[j] = 0

LEMMA ClearSame ==
  ASSUME NEW s, NEW t, t.mem = s.mem, NEW i, NEW a, Clear(s, i, a)
  PROVE  Clear(t, i, a)
<1>1. \A c, m : Host(t, c, m) = Host(s, c, m)
  BY HostSame
<1> QED
  BY <1>1 DEF Clear

LEMMA RunClearIs ==
  ASSUME NEW s, NEW i \in Multiples, NEW a, Writable(i, a), RunClear(s, i, a)
  PROVE  Clear(s, i, a)
<1>1. ASSUME NEW k \in 1 .. Count(i), Region(a) \in {2, 3}
      PROVE  \A j \in 1 .. 4 : Host(s, Tag(Word(a, k)), 4)[j] = 0
  <2> DEFINE w == Word(a, k)
  <2>1. Count(i) \in Nat
    BY MultipleFields
  <2>2. w \in Int /\ Region(w) = Region(a) /\ HostPage(s, w) = HostPage(s, a)
    BY <2>1, WordsOfPage DEF Writable
  <2>3. TagsClear(s, HostPage(s, w), w, 4)
    BY <2>2 DEF RunClear
  <2> HIDE DEF w
  <2>4. Region(w) \in {2, 3, 6} /\ Region(w) \in {2, 3}
    BY <1>1, <2>2
  <2>5. \A j \in 1 .. 4 : Host(s, Tag(w), 4)[j] = 0
    BY <2>2, <2>3, <2>4, ProbeIs
  <2> QED
    BY <2>5 DEF w
<1> QED
  BY <1>1 DEF Clear

\* One word, stored by the block and by gpSP.
LEMMA StoreWordAgrees ==
  ASSUME NEW i \in Multiples, NEW a, Writable(i, a), NEW t \in State, Clear(t, i, a), NEW k \in 1 .. Count(i), NEW pc
  PROVE  /\ StoreStep(t, i, a, k, pc) = Charged(MoveWord(t, i, a, k), WordCost(a))
         /\ MoveWord(t, i, a, k) \in State /\ MoveWord(t, i, a, k).alert = t.alert
         /\ Clear(MoveWord(t, i, a, k), i, a)
         /\ \A y \in Int : MoveWord(Charged(t, y), i, a, k) = Charged(MoveWord(t, i, a, k), y)
<1> DEFINE w == Word(a, k)
           v == t.r[i.list[k]]
           p == Put(t, Place(w), 4, v)
           c == WordCost(a)
<1>1. i.list[k] \in Register /\ Count(i) \in Nat /\ 4 \in Spans
  BY MultipleFields DEF Spans
<1>2. /\ a \in Int /\ a % 4 = 0 /\ OnePage(a, Count(i)) /\ Region(a) \in {2, 3, 6}
      /\ ~i.load /\ i.list[k] # 15 /\ ~(i.set = "arm" /\ i.wb /\ i.list[k] = i.rn) /\ Held(w)
  BY DEF Writable, InList, Plain
<1>3. w \in Int /\ w % 4 = 0 /\ Region(w) = Region(a) /\ \A s : HostPage(s, w) = HostPage(s, a)
  BY <1>1, <1>2, WordsOfPage
<1> HIDE DEF w
<1>4. v \in Int
  <2>1. t.r[i.list[k]] \in Int32
    BY <1>1, SMT DEF State
  <2> QED
    BY <2>1, Int32Is
<1>5. ASSUME NEW s
      PROVE  MoveWord(s, i, a, k) = Put(s, Place(w), 4, s.r[i.list[k]])
  <2>1. At(HostPage(s, w), w) = Place(w)
    BY <1>2, <1>3, AtPlace
  <2> QED
    BY <1>2, <1>3, <2>1 DEF MoveWord, w
<1>6. Listed(t, i, k, pc) = v
  BY <1>2 DEF Listed
<1>7. c \in Int /\ CostOf(TRUE, w, 4) = c
  <2>1. Region(a) \in 2 .. 12
    BY <1>2
  <2> QED
    BY <1>2, <1>3, <2>1, WordCostIs
<1> HIDE DEF v, c
<1>8. p \in State /\ p.alert = t.alert
  BY <1>1, <1>4, PutType
<1>9. \A y \in Int : Put(Charged(t, y), Place(w), 4, v) = Charged(p, y)
  BY <1>1, <1>4, ChargedPut
<1>10. Clear(p, i, a)
  <2>1. ASSUME NEW j \in 1 .. Count(i), Region(a) \in {2, 3}
        PROVE  Host(p, Tag(Word(a, j)), 4) = Host(t, Tag(Word(a, j)), 4)
    <3> DEFINE x == Word(a, j)
    <3>1. x \in Int /\ x % 4 = 0 /\ Region(x) = Region(a)
      BY <1>1, <1>2, WordsOfPage
    <3>2. Held(x)
      BY DEF Writable, Plain
    <3> HIDE DEF x
    <3>3. Region(w) \in {2, 3} /\ Region(x) \in {2, 3}
      BY <1>3, <2>1, <3>1
    <3>4. Host(p, Tag(x), 4) = Host(t, Tag(x), 4)
      BY <1>1, <1>3, <1>4, <3>1, <3>2, <3>3, TagsKept
    <3> QED
      BY <3>4 DEF x
  <2> HIDE DEF p
  <2> QED
    BY <2>1 DEF Clear
<1> HIDE DEF p
<1>11. StoreStep(t, i, a, k, pc) = Charged(p, c)
  <2>1. TRUE \in BOOLEAN
    OBVIOUS
  <2>2. ExecuteStore(t, w, 4, v, TRUE, FALSE) = SmcCheck(Write(Charged(t, CostOf(TRUE, w, 4)), w, 4, StoreValue(v, 4)), w, 4)
    BY <1>1, <1>3, <2>1, ExecuteStoreIs
  <2>3. StoreValue(v, 4) = v
    BY DEF StoreValue
  <2>4. ExecuteStore(t, w, 4, v, TRUE, FALSE) = SmcCheck(Write(Charged(t, c), w, 4, v), w, 4)
    BY <1>7, <2>2, <2>3
  <2>5. Write(Charged(t, c), w, 4, v) = Put(Charged(t, c), Place(w), 4, v)
    <3>1. Region(w) \in {2, 3} \/ (Region(w) = 6 /\ 4 # 1)
      BY <1>2, <1>3
    <3> QED
      BY <1>1, <1>3, <3>1, WriteCell
  <2>6. Write(Charged(t, c), w, 4, v) = Charged(p, c)
    BY <1>7, <1>9, <2>5
  <2>7. SmcCheck(Charged(p, c), w, 4) = Charged(p, c)
    <3>1. Charged(p, c).mem = p.mem
      BY <1>7, <1>8, ChargedType
    <3>2. Host(Charged(p, c), Tag(w), 4) = Host(p, Tag(w), 4)
      BY <3>1, HostSame
    <3>3. Region(w) \in {2, 3} => \A j \in 1 .. 4 : Host(p, Tag(w), 4)[j] = 0
      BY <1>3, <1>10 DEF Clear, w
    <3> QED
      BY <3>2, <3>3, SmcNone
  <2> QED
    BY <1>6, <2>4, <2>6, <2>7 DEF StoreStep, StoreWord, w
<1>12. MoveWord(t, i, a, k) = p
  BY <1>5 DEF p, v
<1>13. ASSUME NEW y \in Int
       PROVE  MoveWord(Charged(t, y), i, a, k) = Charged(p, y)
  <2>1. Charged(t, y).r = t.r
    BY ChargedType
  <2>2. MoveWord(Charged(t, y), i, a, k) = Put(Charged(t, y), Place(w), 4, v)
    BY <1>5, <2>1 DEF v
  <2> QED
    BY <1>9, <2>2
<1> QED
  BY <1>8, <1>10, <1>11, <1>12, <1>13 DEF c

LEMMA StoredWordsAgree ==
  ASSUME NEW s \in State, NEW i \in Multiples, NEW a, Writable(i, a), Clear(s, i, a), NEW pc
  PROVE  /\ StoredWords(s, i, a, pc, FALSE) = Charged(MovedWords(s, i, a), Count(i) * WordCost(a))
         /\ MovedWords(s, i, a) \in State /\ MovedWords(s, i, a).alert = s.alert
<1> DEFINE c == WordCost(a)
           n == Count(i)
<1>1. n \in Nat
  BY MultipleFields
<1>2. c \in Int
  <2>1. a \in Int /\ Region(a) \in 2 .. 12
    BY DEF Writable
  <2> QED
    BY <2>1, WordCostIs
<1>3. PICK h : StoreLoop(h, s, i, a, pc, n) /\ StoredWords(s, i, a, pc, FALSE) = h[n]
  BY <1>1, StoreLoops
<1>4. PICK m : MoveLoop(m, s, i, a, n) /\ MovedWords(s, i, a) = m[n]
  BY <1>1, MoveLoops
<1> DEFINE Same(k) == /\ m[k] \in State /\ m[k].alert = s.alert /\ Clear(m[k], i, a)
                      /\ h[k] = Charged(m[k], k * c)
           S == {k \in Nat : k <= n => Same(k)}
<1> HIDE DEF n, c
<1>5. Same(0)
  <2>1. h[0] = s /\ m[0] = s
    BY <1>1, <1>3, <1>4 DEF StoreLoop, MoveLoop
  <2>2. Charged(s, 0) = s /\ 0 * c = 0
    BY <1>2, ChargedTwice, TimesStep
  <2> QED
    BY <2>1, <2>2
<1>6. ASSUME NEW k \in Nat, k \in S
      PROVE  k + 1 \in S
  <2>1. SUFFICES ASSUME k + 1 <= n PROVE Same(k + 1)
    OBVIOUS
  <2>2. k + 1 \in 1 .. n /\ k + 1 \in 0 .. n /\ k + 1 # 0 /\ (k + 1) - 1 = k /\ k <= n
    BY <1>1, <2>1
  <2>3. h[k + 1] = StoreStep(h[k], i, a, k + 1, pc)
    BY <1>3, <2>2 DEF StoreLoop
  <2>4. m[k + 1] = MoveWord(m[k], i, a, k + 1)
    BY <1>4, <2>2 DEF MoveLoop
  <2>5. Same(k)
    BY <1>6, <2>2
  <2>6. k * c \in Int /\ (k * c) + c = (k + 1) * c
    BY <1>2, TimesStep
  <2> DEFINE u == m[k]
             y == k * c
             z == (k + 1) * c
             x == MoveWord(u, i, a, k + 1)
  <2>7. u \in State /\ u.alert = s.alert /\ Clear(u, i, a) /\ h[k] = Charged(u, y)
    BY <2>5
  <2> HIDE DEF u
  <2>8. y \in Int /\ y + c = z
    BY <2>6
  <2> HIDE DEF y, z
  <2>9. k + 1 \in 1 .. Count(i)
    BY <2>2 DEF n
  <2>10. Charged(u, y) \in State /\ Clear(Charged(u, y), i, a)
    BY <2>7, <2>8, ChargedType, ClearSame
  <2>11. StoreStep(Charged(u, y), i, a, k + 1, pc) = Charged(MoveWord(Charged(u, y), i, a, k + 1), c)
    BY <2>9, <2>10, StoreWordAgrees DEF c
  <2>12. /\ x \in State /\ x.alert = u.alert /\ Clear(x, i, a)
         /\ MoveWord(Charged(u, y), i, a, k + 1) = Charged(x, y)
    BY <2>7, <2>8, <2>9, StoreWordAgrees
  <2> HIDE DEF x
  <2>13. Charged(Charged(x, y), c) = Charged(x, z)
    BY <1>2, <2>8, <2>12, ChargedTwice
  <2>14. h[k + 1] = Charged(x, z)
    BY <2>3, <2>7, <2>11, <2>12, <2>13
  <2>15. m[k + 1] = x
    BY <2>4 DEF x, u
  <2> QED
    BY <2>7, <2>12, <2>14, <2>15 DEF z
<1>7. 0 \in S
  BY <1>5
<1> HIDE DEF S
<1>8. Nat \subseteq S
  BY <1>6, <1>7, Induction
<1>9. Same(n)
  BY <1>1, <1>8 DEF S
<1> QED
  BY <1>3, <1>4, <1>9 DEF n, c

\* A whole block, stored.
LEMMA BlockStoreAgrees ==
  ASSUME NEW s, Rested(s), NEW i \in Multiples, NEW a, Writable(i, a), Clear(s, i, a), NewBase(s, i) \in Int32, NEW pc
  PROVE  BlockStore(s, i, a, pc, FALSE) = Charged(Transferred(s, i, a), Count(i) * WordCost(a))
<1> DEFINE new == NewBase(s, i)
           y == Count(i) * WordCost(a)
           m == MovedWords(s, i, a)
           b == IF i.wb THEN Set(m, i.rn, new) ELSE m
<1>1. s \in State /\ s.alert = {} /\ ~i.load /\ i.rn \in Register
  BY MultipleFields DEF Rested, Writable
<1>2. y \in Int
  <2>1. a \in Int /\ Region(a) \in 2 .. 12
    BY DEF Writable
  <2>2. WordCost(a) \in Int
    BY <2>1, WordCostIs
  <2>3. Count(i) \in Nat
    BY MultipleFields
  <2> QED
    BY <2>2, <2>3, TimesStep
<1>3. StoredWords(s, i, a, pc, FALSE) = Charged(m, y) /\ m \in State /\ m.alert = {}
  BY <1>1, StoredWordsAgree
<1>4. Transferred(s, i, a) = b
  BY <1>1 DEF Transferred
<1> HIDE DEF m, y, new
<1>5. b \in State /\ b.alert = {}
  BY <1>1, <1>3, SetFields DEF new
<1>6. Set(Charged(m, y), i.rn, new) = Charged(Set(m, i.rn, new), y)
  BY <1>2, <1>3, ChargedSet
<1> DEFINE t == Charged(b, y)
<1>7. BlockStore(s, i, a, pc, FALSE) = AlertBreak(t, pc + Width(i))
  <2>1. (IF i.wb THEN Set(Charged(m, y), i.rn, new) ELSE Charged(m, y)) = t
    BY <1>6
  <2> HIDE DEF t, b
  <2> QED
    BY <1>3, <2>1 DEF BlockStore, new
<1> HIDE DEF b
<1>8. t \in State /\ t.alert = {}
  BY <1>2, <1>5, ChargedType
<1>9. AlertBreak(t, pc + Width(i)) = t
  <2> HIDE DEF t
  <2> QED
    BY <1>8, BreakNothing
<1> QED
  BY <1>4, <1>7, <1>9 DEF y

OwnBlockIs(s, i, pc, a) == IF i.load THEN BlockLoad(s, i, a, pc) ELSE BlockStore(s, i, a, pc, FALSE)
LEMMA OwnBlock ==
  ASSUME NEW s, NEW i \in Multiples, NEW pc, NEW a, a = FirstOf(s, i)
  PROVE  Own(s, i, pc) = OwnBlockIs(s, i, pc, a)
<1>1. i.k = "block" /\ i.k # "single" /\ i.load \in BOOLEAN
  BY MultipleFields
<1> QED
  BY <1>1 DEF Own, Helper, OwnBlockIs

\* The guards of every body: one page of the map, and for stores no code.
Runs(s, i, a) ==
  /\ a % 4 = 0 /\ OnePage(a, Count(i)) /\ a \in Int /\ HostPage(s, a) # Null
  /\ IF i.load THEN Region(a) \in 1 .. 15 ELSE Region(a) \in {2, 3, 6} /\ RunClear(s, i, a) /\ ~(i.set = "arm" /\ i.wb /\ InList(i, i.rn)) /\ ~InList(i, 15)

LEMMA RunAgrees ==
  ASSUME NEW s, Rested(s), NEW i \in Multiples, NEW pc, Proper(s, i, pc), NEW a, a = FirstOf(s, i), Runs(s, i, a),
         NEW t, t = Charged(Transferred(s, i, a), Count(i) * WordCost(a))
  PROVE  Own(s, i, pc) = IF InList(i, 15) THEN Popped(t) ELSE t
<1>1. NewBase(s, i) \in Int32 /\ \A k \in 1 .. Count(i) : Plain(i, Word(a, k))
  BY ProperBlock
<1>2. a \in Int /\ a % 4 = 0 /\ OnePage(a, Count(i)) /\ HostPage(s, a) # Null
  BY DEF Runs
<1>3. Own(s, i, pc) = OwnBlockIs(s, i, pc, a)
  BY OwnBlock
<1>4. CASE i.load
  <2>1. Region(a) \in 1 .. 15
    BY <1>4 DEF Runs
  <2>2. Region(a) \in 2 .. 12
    <3>1. ~(Region(a) \notin {0, 2, 3, 4, 6} \cup 8 .. 12)
      BY <1>2, HostPageIs
    <3> QED
      BY <2>1, <3>1
  <2>3. Readable(s, i, a)
    BY <1>1, <1>2, <1>4, <2>2 DEF Readable
  <2>4. (~InList(i, 15) => BlockLoad(s, i, a, pc) = t) /\ (InList(i, 15) => BlockLoad(s, i, a, pc) = Popped(t))
    BY <1>1, <2>3, BlockLoadAgrees
  <2> QED
    BY <1>3, <1>4, <2>4 DEF OwnBlockIs
<1>5. CASE ~i.load
  <2>1. Writable(i, a) /\ RunClear(s, i, a) /\ ~InList(i, 15)
    BY <1>1, <1>2, <1>5 DEF Writable, Runs
  <2>2. Clear(s, i, a)
    BY <2>1, RunClearIs
  <2>3. BlockStore(s, i, a, pc, FALSE) = t
    BY <1>1, <2>1, <2>2, BlockStoreAgrees
  <2> QED
    BY <1>3, <1>5, <2>1, <2>3 DEF OwnBlockIs
<1> QED
  BY <1>4, <1>5

LEMMA FirstType ==
  ASSUME NEW s \in State, NEW i \in Multiples, NewBase(s, i) \in Int32, NEW a, a = FirstOf(s, i)
  PROVE  a \in Int /\ (i.set = "arm" => a % 4 = 0)
<1>1. s.r[i.rn] \in Int
  <2>1. s.r[i.rn] \in Int32
    BY MultipleFields, SMT DEF State
  <2> QED
    BY <2>1, Int32Is
<1>2. NewBase(s, i) \in Int
  BY Int32Is
<1> DEFINE low == IF i.up THEN s.r[i.rn] ELSE NewBase(s, i)
<1>3. low \in Int
  BY <1>1, <1>2
<1>4. a = (IF i.set = "arm" THEN Masked(low, 4) ELSE low) + (IF i.pre = i.up THEN 4 ELSE 0)
  BY DEF FirstOf
<1> HIDE DEF low
<1>5. Masked(low, 4) \in Int /\ Masked(low, 4) % 4 = 0
  BY <1>3, MaskedType
<1> QED
  BY <1>3, <1>4, <1>5

LEMMA RegionBelow ==
  ASSUME NEW a \in Int, 0 <= a, a <= 268435455
  PROVE  Region(a) \in 0 .. 15
BY SMT DEF Region

LEMMA MappedType ==
  ASSUME NEW s, NEW a, Mapped(s, a)
  PROVE  a \in Int /\ HostPage(s, a) # Null /\ Region(a) \in 0 .. 15
<1>1. a \in 0 .. MapEnd - 1 /\ HostPage(s, a) # Null
  BY DEF Mapped
<1>2. a \in Int /\ 0 <= a /\ a <= MapEnd - 1
  BY <1>1, MapEndIs
<1>3. a <= 268435455
  BY <1>2, MapEndIs
<1> QED
  BY <1>1, <1>2, <1>3, RegionBelow

LEMMA RoutineCostIs ==
  ASSUME NEW i \in Multiples, NEW a \in Int, i.load \/ Region(a) \in {2, 3, 6}
  PROVE  RoutineCost(i, a) = Count(i) * WordCost(a) /\ UnrolledCost(i, a) = Count(i) * WordCost(a)
<1>1. i.load \in BOOLEAN
  BY MultipleFields
<1>2. CASE i.load
  BY <1>2 DEF RoutineCost, UnrolledCost, WordCost
<1>3. CASE ~i.load
  <2>1. Region(a) \in 2 .. 12
    BY <1>3
  <2>2. Debit(TRUE, Region(a), TRUE) = WordCost(a)
    BY <2>1, SeqDebitIs DEF WordCost
  <2> QED
    BY <1>3, <2>2 DEF RoutineCost, UnrolledCost, WordCost
<1> QED
  BY <1>1, <1>2, <1>3

LEMMA RoutineBlockAgrees ==
  ASSUME NEW s, Rested(s), NEW i \in Multiples, NEW pc, Proper(s, i, pc), NEW a, a = FirstOf(s, i), ~InList(i, 15),
         ~(~i.load /\ i.set = "arm" /\ i.wb /\ InList(i, i.rn))
  PROVE  RoutineBlock(s, i, a, pc) = Own(s, i, pc)
<1>1. CASE ~RoutineRun(s, i, a)
  <2>1. RoutineBlock(s, i, a, pc) = Handed(s, i, pc)
    BY <1>1 DEF RoutineBlock, Handed
  <2> QED
    BY <2>1, HandedBlock
<1>2. CASE RoutineRun(s, i, a)
  <2>1. a \in Int /\ HostPage(s, a) # Null /\ Region(a) \in 0 .. 15
    BY <1>2, MappedType DEF RoutineRun
  <2>2. i.load => Region(a) # 0
    BY <1>2 DEF RoutineRun
  <2>3. Runs(s, i, a) /\ (i.load \/ Region(a) \in {2, 3, 6})
    BY <1>2, <2>1, <2>2 DEF Runs, RoutineRun, StoreRegions
  <2>4. RoutineBlock(s, i, a, pc) = Charged(Transferred(s, i, a), Count(i) * WordCost(a))
    BY <1>2, <2>1, <2>3, RoutineCostIs DEF RoutineBlock
  <2> QED
    BY <2>3, <2>4, RunAgrees
<1> QED
  BY <1>1, <1>2

LEMMA ArmBlockAgrees ==
  ASSUME NEW s, Rested(s), NEW i \in Multiples, i.set = "arm", NEW pc, Proper(s, i, pc), NEW a, a = FirstOf(s, i)
  PROVE  ArmBlock(s, i, a, pc) = Own(s, i, pc)
<1>1. Handed(s, i, pc) = Own(s, i, pc)
  BY HandedBlock
<1>2. CASE ArmBlockDeclines(i)
  BY <1>1, <1>2 DEF ArmBlock, Handed
<1>3. CASE ~ArmBlockDeclines(i) /\ Count(i) >= 3
  <2>1. ~InList(i, 15) /\ ~(~i.load /\ i.wb /\ InList(i, i.rn))
    BY <1>3 DEF ArmBlockDeclines
  <2>2. ArmBlock(s, i, a, pc) = RoutineBlock(s, i, a, pc)
    BY <1>3 DEF ArmBlock
  <2> QED
    BY <2>1, <2>2, RoutineBlockAgrees
<1>4. CASE ~ArmBlockDeclines(i) /\ ~(Count(i) >= 3)
  <2>1. ~InList(i, 15) /\ ~(~i.load /\ i.wb /\ InList(i, i.rn))
    BY <1>4 DEF ArmBlockDeclines
  <2>2. ArmBlock(s, i, a, pc) = ArmUnrolled(s, i, a, pc)
    BY <1>4 DEF ArmBlock
  <2>3. CASE ~ArmRun(s, i, a)
    BY <1>1, <2>2, <2>3 DEF ArmUnrolled, Handed
  <2>4. CASE ArmRun(s, i, a)
    <3>1. a \in Int /\ HostPage(s, a) # Null /\ Region(a) \in 0 .. 15
      BY <2>4, MappedType DEF ArmRun
    <3>2. i.load => Region(a) # 0
      BY <2>4 DEF ArmRun
    <3>3. a % 4 = 0
      <4>1. NewBase(s, i) \in Int32 /\ s \in State
        BY ProperBlock DEF Rested
      <4> QED
        BY <4>1, FirstType
    <3>4. Runs(s, i, a) /\ (i.load \/ Region(a) \in {2, 3, 6})
      BY <2>1, <2>4, <3>1, <3>2, <3>3 DEF Runs, ArmRun, StoreRegions
    <3>5. ArmUnrolled(s, i, a, pc) = Charged(Transferred(s, i, a), Count(i) * WordCost(a))
      BY <2>4, <3>1, <3>4, RoutineCostIs DEF ArmUnrolled
    <3> QED
      BY <2>1, <2>2, <3>4, <3>5, RunAgrees
  <2> QED
    BY <2>3, <2>4
<1> QED
  BY <1>2, <1>3, <1>4

LEMMA UnrolledAgrees ==
  ASSUME NEW s, Rested(s), NEW i \in Multiples, NEW pc, Proper(s, i, pc), NEW a, a = FirstOf(s, i),
         NEW run \in BOOLEAN, run => Runs(s, i, a)
  PROVE  ThumbUnrolled(s, i, a, pc, run) = Own(s, i, pc)
<1> DEFINE t == Charged(Transferred(s, i, a), Count(i) * WordCost(a))
<1>1. CASE ~run
  <2>1. ThumbUnrolled(s, i, a, pc, run) = Handed(s, i, pc)
    BY <1>1 DEF ThumbUnrolled, Handed
  <2> QED
    BY <2>1, HandedBlock
<1>2. CASE run
  <2>1. a \in Int /\ (i.load \/ Region(a) \in {2, 3, 6})
    BY <1>2 DEF Runs
  <2>2. UnrolledCost(i, a) = Count(i) * WordCost(a)
    BY <2>1, RoutineCostIs
  <2>3. Charged(Transferred(s, i, a), UnrolledCost(i, a)) = t
    BY <2>2
  <2>4. ThumbUnrolled(s, i, a, pc, run) = IF InList(i, 15) THEN Popped(Charged(Transferred(s, i, a), UnrolledCost(i, a)))
                                          ELSE Charged(Transferred(s, i, a), UnrolledCost(i, a))
    BY <1>2 DEF ThumbUnrolled, Popped
  <2> HIDE DEF t
  <2>5. ThumbUnrolled(s, i, a, pc, run) = IF InList(i, 15) THEN Popped(t) ELSE t
    BY <2>3, <2>4
  <2>6. Own(s, i, pc) = IF InList(i, 15) THEN Popped(t) ELSE t
    BY <1>2, RunAgrees DEF t
  <2> QED
    BY <2>5, <2>6
<1> QED
  BY <1>1, <1>2

LEMMA ShortList ==
  ASSUME NEW i, i.list \in {<< 14 >>, <<4, 14>>}
  PROVE  ~(Count(i) >= 3)
<1>1. CASE i.list = <<14>>
  BY <1>1 DEF Count
<1>2. CASE i.list = <<4, 14>>
  BY <1>2 DEF Count
<1> QED
  BY <1>1, <1>2

LEMMA ThumbBlockAgrees ==
  ASSUME NEW s, Rested(s), NEW i \in Multiples, i.set = "thumb", NEW pc, Proper(s, i, pc), NEW a, a = FirstOf(s, i)
  PROVE  ThumbBlock(s, i, a, pc) = Own(s, i, pc)
<1> DEFINE push == ~i.load /\ i.rn = 13 /\ i.list \in {<<14>>, <<4, 14>>}
           long == Count(i) >= 3 /\ ~InList(i, 15)
<1>1. i.load \in BOOLEAN /\ (i.load \/ ~InList(i, 15)) /\ i.set # "arm"
  BY MultipleFields
<1>2. a \in Int
  <2>1. NewBase(s, i) \in Int32 /\ s \in State
    BY ProperBlock DEF Rested
  <2> QED
    BY <2>1, FirstType
<1>3. CASE push
  <2>1. ThumbBlock(s, i, a, pc) = ThumbUnrolled(s, i, a, pc, IwramPush(s, i, a))
    <3>1. ~(Count(i) >= 3)
      BY <1>3, ShortList
    <3> QED
      BY <1>3, <3>1 DEF ThumbBlock
  <2>2. IwramPush(s, i, a) \in BOOLEAN
    BY DEF IwramPush
  <2>3. IwramPush(s, i, a) => Runs(s, i, a)
    <3>1. SUFFICES ASSUME IwramPush(s, i, a) PROVE Runs(s, i, a)
      OBVIOUS
    <3>2. Region(a) = 3
      BY <3>1 DEF IwramPush
    <3>3. HostPage(s, a) # Null
      BY <1>2, <3>2, HostPageIs, NullIs
    <3> QED
      BY <1>1, <1>2, <1>3, <3>1, <3>2, <3>3 DEF IwramPush, Runs
  <2> QED
    BY <2>1, <2>2, <2>3, UnrolledAgrees
<1>4. CASE ~push /\ long
  <2>1. ThumbBlock(s, i, a, pc) = RoutineBlock(s, i, a, pc)
    BY <1>4 DEF ThumbBlock
  <2> QED
    BY <1>1, <1>4, <2>1, RoutineBlockAgrees
<1>5. CASE ~push /\ ~long
  <2>1. ThumbBlock(s, i, a, pc) = ThumbUnrolled(s, i, a, pc, ThumbRun(s, i, a))
    BY <1>5 DEF ThumbBlock
  <2>2. ThumbRun(s, i, a) \in BOOLEAN
    BY DEF ThumbRun
  <2>3. ThumbRun(s, i, a) => Runs(s, i, a)
    <3>1. SUFFICES ASSUME ThumbRun(s, i, a) PROVE Runs(s, i, a)
      OBVIOUS
    <3>2. HostPage(s, a) # Null /\ a % 4 = 0 /\ OnePage(a, Count(i))
      BY <3>1 DEF ThumbRun, Mapped
    <3>3. (i.load => Region(a) \in {2, 3}) /\ (~i.load => Region(a) \in {2, 3, 6} /\ RunClear(s, i, a))
      BY <1>1, <3>1 DEF ThumbRun, StoreRegions
    <3> QED
      BY <1>1, <1>2, <3>2, <3>3 DEF Runs
  <2> QED
    BY <2>1, <2>2, <2>3, UnrolledAgrees
<1> QED
  BY <1>3, <1>4, <1>5

\* Whatever path an admitted access takes, it is gpSP's own.
LEMMA ExecutedAgrees ==
  ASSUME NEW s, Rested(s), NEW i, NEW pc, Proper(s, i, pc)
  PROVE  Executed(s, i, pc) = Own(s, i, pc)
<1>1. CASE i \in Singles
  <2>1. i.k = "single" /\ i.set \in {"arm", "thumb"}
    BY <1>1, SingleFields
  <2>2. CASE i.set = "arm"
    <3>1. Executed(s, i, pc) = ArmSingle(s, i, AddressOf(s, i, pc), SizeOf(i.kind), Moved(s, i, pc), pc)
      BY <2>1, <2>2 DEF Executed
    <3> QED
      BY <1>1, <3>1, ArmSingleAgrees
  <2>3. CASE i.set = "thumb"
    <3>1. Executed(s, i, pc) = ThumbSingle(s, i, AddressOf(s, i, pc), SizeOf(i.kind), Moved(s, i, pc), pc)
      BY <2>1, <2>3 DEF Executed
    <3> QED
      BY <1>1, <2>3, <3>1, ThumbSingleAgrees
  <2> QED
    BY <2>1, <2>2, <2>3
<1>2. CASE i \in Multiples
  <2>1. i.k = "block" /\ i.set \in {"arm", "thumb"}
    BY <1>2, MultipleFields
  <2>2. CASE i.set = "arm"
    <3>1. Executed(s, i, pc) = ArmBlock(s, i, FirstOf(s, i), pc)
      BY <2>1, <2>2 DEF Executed
    <3> QED
      BY <1>2, <2>2, <3>1, ArmBlockAgrees
  <2>3. CASE i.set = "thumb"
    <3>1. Executed(s, i, pc) = ThumbBlock(s, i, FirstOf(s, i), pc)
      BY <2>1, <2>3 DEF Executed
    <3> QED
      BY <1>2, <2>3, <3>1, ThumbBlockAgrees
  <2> QED
    BY <2>1, <2>2, <2>3
<1>3. CASE i \in Swaps
  <2>1. i.k = "swap"
    BY <1>3, SwapFields
  <2>2. Executed(s, i, pc) = Handed(s, i, pc)
    BY <2>1 DEF Executed, Handed
  <2> QED
    BY <1>3, <2>2, HandedSwap
<1> QED
  BY <1>1, <1>2, <1>3 DEF Proper

-----------------------------------------------------------------------------
(* The steps of the two machines.                                          *)

\* An access depends on nothing of the machine but its registers.
LEMMA ComparableProper ==
  ASSUME NEW s, NEW c, Comparable(c), s.r = c[2]
  PROVE  Proper(s, c[1], c[3])
<1> DEFINE m == [r |-> c[2]]
           i == c[1]
           pc == c[3]
<1>1. m.r = s.r
  OBVIOUS
<1>2. /\ i \in Singles \cup Multiples \cup Swaps /\ pc \in 0 .. MapEnd - 1
      /\ Rebased(m, i, pc) \in Int32 /\ \A a \in Reached(m, i, pc) : Plain(i, a)
  BY DEF Comparable
<1> HIDE DEF m, i, pc
<1>3. AddressOf(m, i, pc) = AddressOf(s, i, pc) /\ Moved(m, i, pc) = Moved(s, i, pc)
  BY <1>1, SameRegisters
<1>4. NewBase(m, i) = NewBase(s, i)
  BY <1>1 DEF NewBase
<1>5. FirstOf(m, i) = FirstOf(s, i)
  BY <1>1, <1>4 DEF FirstOf
<1>6. Reached(m, i, pc) = Reached(s, i, pc) /\ Rebased(m, i, pc) = Rebased(s, i, pc)
  BY <1>1, <1>3, <1>4, <1>5 DEF Reached, Rebased
<1>7. Proper(s, i, pc)
  BY <1>2, <1>6 DEF Proper
<1> QED
  BY <1>7 DEF i, pc

Started(s, c) == [s EXCEPT !.r = c[2], !.to = "next"]

LEMMA StartedRested ==
  ASSUME NEW s, Rested(s), NEW c, Comparable(c)
  PROVE  Rested(Started(s, c)) /\ Proper(Started(s, c), c[1], c[3])
<1>1. s \in State
  BY DEF Rested
<1>2. PICK x \in [Register -> Int32] : x = c[2]
  BY DEF Comparable
<1>3. [s EXCEPT !.r = x] \in State /\ [s EXCEPT !.r = x].mem = s.mem /\ [s EXCEPT !.r = x].code = s.code
      /\ [s EXCEPT !.r = x].alert = s.alert /\ [s EXCEPT !.r = x].r = x
  BY <1>1, SMT DEF State
<1> DEFINE u == [[s EXCEPT !.r = x] EXCEPT !.to = "next"]
<1>4. Started(s, c) = u
  BY <1>2 DEF Started
<1>5. ASSUME NEW t \in State
      PROVE  /\ [t EXCEPT !.to = "next"] \in State /\ [t EXCEPT !.to = "next"].mem = t.mem
             /\ [t EXCEPT !.to = "next"].code = t.code /\ [t EXCEPT !.to = "next"].alert = t.alert
             /\ [t EXCEPT !.to = "next"].r = t.r
  BY SMT DEF State
<1>6. Tame(s, u) /\ u.r = x
  BY <1>3, <1>5 DEF Tame
<1> HIDE DEF u
<1> QED
  BY <1>2, <1>4, <1>6, TameRested, ComparableProper

LEMMA MachineRested ==
  ASSUME NEW s \in Machine
  PROVE  Rested(s)
<1>1. s \in State
  BY SMT DEF Machine, State, Byte
<1>2. s.alert = {} /\ s.code = {}
  BY SMT DEF Machine
<1> QED
  BY <1>1, <1>2 DEF Rested, Fresh

LEMMA DataApart ==
  ASSUME NEW c, NEW d, c[2] \in Int, d[2] \in Int, InData(c), InData(d)
  PROVE  c # TagFor(d)
<1>1. CASE c[1] = "iwram" /\ PageBytes <= c[2]
  <2>1. SUFFICES ASSUME c = TagFor(d) PROVE FALSE
    OBVIOUS
  <2>2. TagFor(d)[1] = d[1] /\ TagFor(d)[2] = IF d[1] = "ewram" THEN d[2] + 256 * Kib ELSE d[2] - PageBytes
    BY DEF TagFor
  <2>3. d[1] = "iwram" /\ d[2] < 2 * PageBytes /\ c[2] = d[2] - PageBytes
    BY <1>1, <2>1, <2>2 DEF InData
  <2> QED
    BY <1>1, <2>3, SMT DEF PageBytes, Kib
<1>2. CASE c[1] = "ewram" /\ c[2] < 256 * Kib
  <2>1. SUFFICES ASSUME c = TagFor(d) PROVE FALSE
    OBVIOUS
  <2>2. TagFor(d)[1] = d[1] /\ TagFor(d)[2] = IF d[1] = "ewram" THEN d[2] + 256 * Kib ELSE d[2] - PageBytes
    BY DEF TagFor
  <2>3. d[1] = "ewram" /\ 0 <= d[2] /\ c[2] = d[2] + 256 * Kib
    BY <1>2, <2>1, <2>2 DEF InData
  <2> QED
    BY <1>2, <2>3, SMT DEF Kib
<1> QED
  BY <1>1, <1>2 DEF InData

\* A translation tags what it scans, over the tags and not over the data.
LEMMA MarkedRested ==
  ASSUME NEW s, Rested(s), s.code = {}, NEW b \in Blocks
  PROVE  Rested(Marked(s, b))
<1> DEFINE m == [c \in Cells |-> IF c \in TagsOf(b) THEN 1 ELSE s.mem[c]]
           k == {<<c, s.mem[c]>> : c \in Covered(b)}
<1>1. s \in State /\ s.alert = {}
  BY DEF Rested
<1>2. DOMAIN s.mem = Cells /\ \A c \in Cells : s.mem[c] \in Byte
  BY <1>1, SMT DEF State
<1>3. Covered(b) \subseteq Cells /\ TagsOf(b) \subseteq Cells /\ \A c \in Covered(b) : InData(c)
  BY BlocksHeld
<1>4. m \in [Cells -> Byte]
  <2>1. 1 \in Byte
    BY SMT DEF Byte
  <2> QED
    BY <1>2, <2>1
<1>5. k \in SUBSET (Cells \X Byte)
  BY <1>2, <1>3
<1>6. Marked(s, b) = [s EXCEPT !.mem = m, !.code = k]
  BY <1>2 DEF Marked
<1>7. /\ [s EXCEPT !.mem = m, !.code = k] \in State /\ [s EXCEPT !.mem = m, !.code = k].alert = s.alert
      /\ [s EXCEPT !.mem = m, !.code = k].mem = m /\ [s EXCEPT !.mem = m, !.code = k].code = k
  <2> HIDE DEF m, k
  <2>1. ASSUME NEW t \in State, NEW x \in [Cells -> Byte]
        PROVE  /\ [t EXCEPT !.mem = x] \in State /\ [t EXCEPT !.mem = x].alert = t.alert
               /\ [t EXCEPT !.mem = x].mem = x
    BY SMT DEF State
  <2>2. ASSUME NEW t \in State, NEW x \in SUBSET (Cells \X Byte)
        PROVE  /\ [t EXCEPT !.code = x] \in State /\ [t EXCEPT !.code = x].alert = t.alert
               /\ [t EXCEPT !.code = x].mem = t.mem /\ [t EXCEPT !.code = x].code = x
    BY SMT DEF State
  <2>3. PICK t \in State : t = [s EXCEPT !.mem = m] /\ t.alert = s.alert /\ t.mem = m
    BY <1>1, <1>4, <2>1
  <2>4. [t EXCEPT !.code = k] \in State /\ [t EXCEPT !.code = k].alert = t.alert
        /\ [t EXCEPT !.code = k].mem = t.mem /\ [t EXCEPT !.code = k].code = k
    BY <1>5, <2>2
  <2>5. [s EXCEPT !.mem = m, !.code = k] = [t EXCEPT !.code = k]
    BY <2>3
  <2> QED
    BY <2>3, <2>4, <2>5
<1>8. ASSUME NEW c \in Covered(b)
      PROVE  InData(c) /\ TagFor(c) \in Cells /\ m[TagFor(c)] # 0 /\ m[c] = s.mem[c]
  <2>1. TagFor(c) \in TagsOf(b) /\ InData(c) /\ c \in Cells
    BY <1>3 DEF TagsOf
  <2>2. TagFor(c) \in Cells /\ m[TagFor(c)] = 1
    BY <1>3, <2>1
  <2>3. \A d \in Cells : d[2] \in Int
    BY CellsNamed, SMT
  <2>4. c \notin TagsOf(b)
    <3>1. SUFFICES ASSUME NEW d \in Covered(b), c = TagFor(d) PROVE FALSE
      BY DEF TagsOf
    <3> QED
      BY <1>3, <2>1, <2>3, <3>1, DataApart
  <2>5. m[c] = s.mem[c]
    BY <2>1, <2>4
  <2> QED
    BY <2>1, <2>2, <2>5
<1>9. ASSUME NEW e \in k
      PROVE  InData(e[1]) /\ TagFor(e[1]) \in Cells /\ m[TagFor(e[1])] # 0 /\ m[e[1]] = e[2]
  <2>1. PICK c \in Covered(b) : e = <<c, s.mem[c]>>
    OBVIOUS
  <2>2. e[1] = c /\ e[2] = s.mem[c]
    BY <2>1
  <2> QED
    BY <1>8, <2>2
<1> HIDE DEF m, k
<1> QED
  BY <1>1, <1>6, <1>7, <1>9 DEF Rested, Fresh

LEMMA EvictRested ==
  ASSUME NEW s, Rested(s), NEW p \in 0 .. RomPages - 1
  PROVE  Rested([s EXCEPT !.pages[p] = "null"])
<1>1. s \in State
  BY DEF Rested
<1> DEFINE q == [s.pages EXCEPT ![p] = "null"]
<1>2. q \in [0 .. RomPages - 1 -> {"mapped", "odd", "null"}]
  BY <1>1, SMT DEF State
<1> HIDE DEF q
<1>3. [s EXCEPT !.pages = q] \in State /\ [s EXCEPT !.pages = q].mem = s.mem /\ [s EXCEPT !.pages = q].code = s.code
      /\ [s EXCEPT !.pages = q].alert = s.alert
  BY <1>1, <1>2, SMT DEF State
<1>4. [s EXCEPT !.pages[p] = "null"] = [s EXCEPT !.pages = q]
  BY DEF q
<1> QED
  BY <1>3, <1>4, TameRested DEF Tame

LEMMA InterruptRested ==
  ASSUME NEW s, Rested(s)
  PROVE  Rested(Put(s, <<"io", 514>>, 2, 8))
<1> DEFINE t == Put(s, <<"io", 514>>, 2, 8)
<1>1. s \in State /\ s.alert = {} /\ Fresh(s)
  BY DEF Rested
<1>2. Kept(s, t)
  BY <1>1, KeptPut, SMT DEF Spans
<1>3. t.alert = s.alert
  BY <1>1, PutType, SMT DEF Spans
<1> HIDE DEF t
<1>4. t \in State /\ Fresh(t)
  BY <1>1, <1>2, FreshKept DEF Kept
<1> QED
  BY <1>1, <1>3, <1>4 DEF Rested, t

-----------------------------------------------------------------------------
(* The invariant: the two machines are one, at rest between instructions.  *)

IInv == taken \in 0 .. Steps /\ nat = ref /\ Rested(nat)

LEMMA Initially ==
  ASSUME Init
  PROVE  IInv
<1>1. nat \in Machine /\ nat = ref
  BY MachinesWhole DEF Init
<1>2. taken \in 0 .. Steps
  BY StepsBounded, SMT DEF Init
<1> QED
  BY <1>1, <1>2, MachineRested DEF IInv

LEMMA Stepwise ==
  ASSUME IInv, Next
  PROVE  IInv'
<1>1. taken \in 0 .. Steps /\ nat = ref /\ Rested(nat)
  BY DEF IInv
<1>2. taken' \in 0 .. Steps /\ taken + 1 \in 1 .. Steps
  BY <1>1, StepsBounded, SMT DEF Next
<1>3. ASSUME NEW c \in Cases[taken + 1], Access(c)
      PROVE  nat' = ref' /\ Rested(nat')
  <2>1. Comparable(c)
    BY <1>2, <1>3, AccessesComparable
  <2> DEFINE s == Started(nat, c)
  <2>2. Rested(s) /\ Proper(s, c[1], c[3])
    BY <1>1, <2>1, StartedRested
  <2>3. nat' = Executed(s, c[1], c[3]) /\ ref' = Own(s, c[1], c[3])
    BY <1>1, <1>3 DEF Access, Started, Own
  <2> HIDE DEF s
  <2>4. Executed(s, c[1], c[3]) = Own(s, c[1], c[3])
    BY <2>2, ExecutedAgrees
  <2>5. Rested(Own(s, c[1], c[3]))
    BY <2>2, HelperRested DEF Own
  <2> QED
    BY <2>3, <2>4, <2>5
<1>4. ASSUME NEW b \in Blocks, Translate(b)
      PROVE  nat' = ref' /\ Rested(nat')
  BY <1>1, <1>4, MarkedRested DEF Translate
<1>5. ASSUME NEW p \in 0 .. RomPages - 1, Evict(p)
      PROVE  nat' = ref' /\ Rested(nat')
  BY <1>1, <1>5, EvictRested DEF Evict
<1>6. ASSUME Interrupt
      PROVE  nat' = ref' /\ Rested(nat')
  BY <1>1, <1>6, InterruptRested DEF Interrupt
<1>7. nat' = ref' /\ Rested(nat')
  BY <1>3, <1>4, <1>5, <1>6 DEF Next
<1> QED
  BY <1>2, <1>7 DEF IInv

LEMMA Stutters ==
  ASSUME IInv, UNCHANGED vars
  PROVE  IInv'
BY DEF IInv, vars, Rested, State, Fresh

THEOREM Invariant == Spec => []IInv
<1>1. Init => IInv
  BY Initially
<1>2. IInv /\ [Next]_vars => IInv'
  BY Stepwise, Stutters
<1> QED
  BY <1>1, <1>2, PTL DEF Spec

LEMMA RestedTyped ==
  ASSUME NEW s, Rested(s)
  PROVE  s.mem \in [DOMAIN s.mem -> 0 .. 255] /\ Words32(s.r) /\ s.to \in Exits /\ s.alert = {}
<1>1. s \in State
  BY DEF Rested
<1>2. s.mem \in [Cells -> 0 .. 255] /\ s.r \in [Register -> Int32] /\ s.to \in Exits
  BY <1>1, SMT DEF State, Exits, Byte
<1>3. DOMAIN s.mem = Cells /\ DOMAIN s.r = Register
  BY <1>2
<1>4. Words32(s.r)
  BY <1>2, <1>3 DEF Words32
<1> QED
  BY <1>2, <1>3, <1>4 DEF Rested

\* Machines keep their types: after any number of accesses, translations,
\* evictions and interrupts the registers are 32-bit values, memory is bytes
\* and no alert outlives the instruction that raised it.
THEOREM TypesHold == Spec => []TypeOK
<1>1. IInv => TypeOK
  BY RestedTyped DEF IInv, TypeOK, Exits
<1> QED
  BY <1>1, Invariant, PTL

\* The native memory paths of sh4_fastmem.h and of the four emitters leave the
\* machine gpSP's own load and store functions leave.
THEOREM PathsAgree == Spec => []FastAgrees
<1>1. IInv => FastAgrees
  BY DEF IInv, FastAgrees
<1> QED
  BY <1>1, Invariant, PTL

\* And they charge the cycles those functions charge.
THEOREM CyclesAgree == Spec => []ChargesAgree
<1>1. IInv => ChargesAgree
  BY DEF IInv, ChargesAgree
<1> QED
  BY <1>1, Invariant, PTL

\* No store, native or not, changes a byte a block in the cache was translated
\* from: the tags send it to the helper, whose alert drops the block first.
THEOREM CodeStaysFresh == Spec => []CodeFresh
<1>1. IInv => CodeFresh
  BY DEF IInv, Rested, Fresh, CodeFresh
<1> QED
  BY <1>1, Invariant, PTL
=============================================================================
