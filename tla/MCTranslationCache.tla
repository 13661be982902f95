------------------------ MODULE MCTranslationCache ------------------------
(* Small instances of TranslationCache for TLC. *)
EXTENDS TranslationCache

CONSTANTS r1, r2, w1, w2, w3, bios

NoExits == <<>>
To(at, k) == <<[at |-> at, to |-> k]>>

(* Two cartridge blocks that branch to each other, an ARM block in RAM that *)
(* one of them calls, a Thumb block at the same address, and a block behind *)
(* them that calls the BIOS.                                                *)
TwoRom   == {r1, r2}
ThreeRam == {w1, w2, w3}
OneBios  == {bios}

MixedSize == [k \in {r1, r2, w1, w2, w3} |->
  CASE k = r1 -> 2 [] k = r2 -> 1 [] k = w1 -> 2 [] k = w2 -> 1 [] k = w3 -> 1]
MixedExits == [k \in {r1, r2, w1, w2, w3} |->
  CASE k = r1 -> To(0, r2) \o To(1, w1)
    [] k = r2 -> To(0, r1)
    [] k = w1 -> To(0, r2) \o To(1, w3)
    [] k = w2 -> To(0, w3)
    [] k = w3 -> To(0, bios)]
MixedFirst == [k \in {w1, w2, w3} |-> IF k = w3 THEN 5 ELSE 0]
MixedThumb == [k \in {w1, w2, w3} |-> k = w2]

Apart   == [k \in {r1, r2} |-> IF k = r1 THEN 0 ELSE 1]
Aliased == [k \in {r1, r2} |-> 0]

(* A cartridge block that calls two RAM routines at one address, ARM and    *)
(* Thumb.  The longer is longer than an empty RAM cache holds, until the    *)
(* scan cap is halved; the last slot is plain data.                         *)
OneRom   == {r1}
TwoRam   == {w1, w2}
SmcSize  == [k \in {r1, w1, w2} |-> CASE k = r1 -> 2 [] k = w1 -> 3 [] k = w2 -> 1]
SmcExits == [k \in {r1, w1, w2} |-> IF k = r1 THEN To(0, w1) \o To(1, w2) ELSE NoExits]
SmcFirst == [k \in {w1, w2} |-> 0]
SmcThumb == [k \in {w1, w2} |-> k = w2]
OnlySlot == [k \in {r1} |-> 0]

=============================================================================
