----------------------------- MODULE MCHleBios -----------------------------
(* A small machine for HleBios: a few elements of each region, stacks in    *)
(* IWRAM, and one call of each kind.                                        *)
EXTENDS HleBios, TLC

Named == ("bios" :> 0 .. 7) @@ ("rom" :> 100 .. 107) @@ ("ewram" :> 200 .. 207)
         @@ ("iwram" :> (300 .. 307) \cup (1000 .. HandlerCell)) @@ ("oam" :> 400 .. 405)
Addresses == UNION {Named[n] : n \in DOMAIN Named}
RegionOf == [a \in Addresses |-> CHOOSE n \in DOMAIN Named : a \in Named[n]]
HostOf == [a \in Addresses |-> a]
WaitOf == ("bios" :> 1) @@ ("rom" :> 9) @@ ("ewram" :> 5) @@ ("iwram" :> 2) @@ ("oam" :> 3)
WorkRam == {"ewram", "iwram"}

CpuSet(src, dst, n, bits) == [num |-> 11, r0 |-> src, r1 |-> dst, r2 |-> n + bits]
CpuFastSet(src, dst, n, bits) == [num |-> 12, r0 |-> src, r1 |-> dst, r2 |-> n + bits]

GameCalls == {
  CpuSet(100, 300, 3, WordBit),             \* cartridge to work RAM
  CpuSet(200, 400, 2, 0),                   \* halfwords to OAM
  CpuSet(201, 303, 2, WordBit + FillBit),   \* fills
  CpuSet(300, 200, 0, WordBit),             \* nothing to do
  CpuFastSet(200, 302, 3, 0),               \* rounded up to two rounds
  CpuFastSet(101, 400, 3, 0),
  CpuFastSet(300, 302, 3, FillBit)}
HandlerCalls == {CpuSet(201, 303, 2, WordBit)}
HandlerWrites == {201}
CodeAt == {{303}, 1013 .. 1017}

(* A pattern fill: each word read is the one just written.                  *)
OverlapCalls == {CpuSet(200, 201, 3, WordBit)}

(* A copy that fits the longer slice.                                       *)
OneCopy == {CpuSet(100, 300, 3, WordBit)}
None == {}

Even == {IsrPc}
Odd  == {IsrPc, IsrPc + 2}
============================================================================
