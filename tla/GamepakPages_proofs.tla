------------------------ MODULE GamepakPages_proofs ------------------------
(***************************************************************************)
(* What TLC checks of the page cache on small instances, proved for every  *)
(* image, window and cache size and for every way the image lies in flash. *)
(***************************************************************************)
EXTENDS GamepakPages, TLAPS

(* The flash side does not change while the guest plays: the open image is  *)
(* the one that was loaded, and its tables either hold its addresses now, or *)
(* nothing but the shadow of page 0.                                        *)
Addressed ==
  disk.layout.sane /\ table = Table("rom") /\ pages = PageTable("rom")

ThroughFile == table = NoTable /\ pages = [NoPages EXCEPT ![0] = Shadow]

NorWhole ==
  /\ disk.layout \in Layouts
  /\ fd = "rom" /\ shadow = "rom"
  /\ Addressed \/ ThroughFile

MapTyped == map \in [Windows \X Indices -> Pointers]

PhyTyped ==
  /\ phy \in [SlotIds -> Pages \cup {Free}]
  /\ held \in [SlotIds -> Pages \cup {Wrong}]

CallTyped ==
  /\ call \in [stage : {"idle", "evict", "load"}, use : {"none", "execute", "read"},
              at : Regions \cup {NoPc}, spins : Nat]
  /\ ~ Ready => call.at \in Regions
  /\ ~ Ready /\ call.use = "execute" => call.at = pc /\ pc \in ExecRegions

NextTyped == next \in [SlotIds -> 0 .. Slots]

(* The three things an entry may be. *)
Below(e) == e[1] = "lo" \/ e[2] < WindowPages \div 2

EntryWhole(e) ==
  LET p == e[2] % RomPages
  IN  \/ map[e] = Null
      \/ map[e] = pages[p]
      \/ Below(e) /\ \E s \in SlotIds : map[e] = Slot(s) /\ phy[s] = p

EntriesWhole == \A e \in Windows \X Indices : EntryWhole(e)

HeldWhole == \A s \in SlotIds : phy[s] # Free => held[s] = phy[s]

(* The slot about to be filled holds no page that is sticky. *)
VictimFree == call.stage = "load" => phy[tail] = Free \/ phy[tail] \notin sticky

(* The interpreter's view is a flash or shadow view, or a slot that holds   *)
(* the sticky page it executes.                                             *)
ViewWhole ==
  view # NoView /\ (Ready \/ call.use # "execute") =>
    /\ pc \in ExecRegions
    /\ \/ view.ptr.kind # "slot" /\ Found(view.ptr, view.off) = Image(pc)
       \/ \E s \in SlotIds : /\ view = [ptr |-> Slot(s), off |-> pc.b]
                             /\ phy[s] = pc.i /\ pc.i \in sticky

GpioTyped == DOMAIN drawn = ImagePointers

FlashAndSlots == NorWhole /\ MapTyped /\ PhyTyped /\ EntriesWhole /\ HeldWhole

PagesInv ==
  /\ FlashAndSlots
  /\ QueueWhole /\ NextTyped
  /\ CallTyped /\ VictimFree
  /\ GpioTyped /\ GpioCurrent

-----------------------------------------------------------------------------
(* Arithmetic of pages and blocks *)

LEMMA ModOf ==
  ASSUME NEW x \in Nat, NEW q \in Nat, NEW m \in Nat, NEW T \in Nat \ {0},
         x = q * T + m, m < T
  PROVE  x % T = m
OBVIOUS

LEMMA DivMod ==
  \A x \in Nat, T \in Nat \ {0} :
    /\ x % T \in 0 .. T - 1
    /\ x \div T \in Nat
    /\ x = (x \div T) * T + (x % T)
OBVIOUS

LEMMA BlockBelow ==
  ASSUME NEW i \in Nat, NEW b \in Nat, NEW P \in Nat \ {0}, NEW B \in Nat \ {0},
         i < P, b < B
  PROVE  i * B + b \in 0 .. P * B - 1
OBVIOUS

LEMMA PageOfBlock ==
  ASSUME NEW i \in Nat, NEW b \in Nat, NEW B \in Nat \ {0}, b < B
  PROVE  (i * B + b) \div B = i
OBVIOUS

(* Taking a block of the window modulo the image takes its page modulo the  *)
(* image's pages: the two mirrors agree.                                    *)
LEMMA MirrorBlock ==
  ASSUME NEW i \in Nat, NEW b \in Nat, NEW P \in Nat \ {0}, NEW B \in Nat \ {0}, b < B
  PROVE  (i * B + b) % (P * B) = (i % P) * B + b
<1> DEFINE q == i \div P
           k == i % P
<1>1. k \in 0 .. P - 1 /\ q \in Nat /\ i = q * P + k
  BY DivMod
<1>2. k * B + b \in 0 .. P * B - 1
  BY <1>1, BlockBelow
<1>3. P * B \in Nat \ {0} /\ k * B + b \in Nat /\ i * B + b \in Nat
  BY <1>1
<1> HIDE DEF q, k
<1>4. i * B + b = q * (P * B) + (k * B + b)
  <2>1. i * B = (q * P + k) * B
    BY <1>1
  <2>2. (q * P + k) * B = q * (P * B) + k * B
    BY <1>1
  <2> QED
    BY <2>1, <2>2, <1>1
<1>5. (i * B + b) % (P * B) = k * B + b
  <2> DEFINE x == i * B + b
             T == P * B
             m == k * B + b
  <2>1. x \in Nat /\ T \in Nat \ {0} /\ m \in Nat /\ x = q * T + m /\ m < T
    BY <1>1, <1>2, <1>3, <1>4
  <2> HIDE DEF x, T, m
  <2>2. x % T = m
    BY <2>1, <1>1, ModOf
  <2> QED
    BY <2>2 DEF x, T, m
<1> QED
  BY <1>5 DEF k

(* The constants, as the steps below use them. *)
LEMMA Sizes ==
  /\ RomPages \in Nat \ {0} /\ BlocksPerPage \in Nat \ {0}
  /\ WindowPages \in Nat \ {0} /\ Slots \in Nat \ {0}
  /\ RomPages <= WindowPages
  /\ Total \in Nat \ {0}
  /\ FullBlocks \in Nat
  /\ 0 \in Pages /\ 0 \in Indices /\ PageZero \in Windows \X Indices
  /\ 0 % RomPages = 0
  /\ \A i \in Indices : i % RomPages \in Pages
BY RomAssumption, PagesAssumption
   DEF Total, Pages, Indices, PageZero, Windows

-----------------------------------------------------------------------------
(* Reading through the table *)

(* What the table holds for a block of the image is its address now.        *)
LEMMA TableShows ==
  ASSUME NorWhole, NEW b \in TableBlocks, table[b] # Null
  PROVE  /\ table[b] = Nor(b % Total, disk.era)
         /\ b % Total < FullBlocks
<1>1. disk.layout.sane /\ table[b] = PublishedBlock("rom", b % Total)
  BY DEF NorWhole, Addressed, ThroughFile, NoTable, Table
<1>2. b % Total \in Nat
  BY Sizes, DivMod DEF TableBlocks
<1> QED
  BY <1>1, <1>2, Sizes DEF NorWhole, PublishedBlock

LEMMA GatherHolds ==
  ASSUME NorWhole, NEW p \in Pages
  PROVE  GatherRight(p)
<1> SUFFICES ASSUME NEW b \in BlocksOf(p), table[b] # Null
             PROVE  table[b] = Nor(b, disk.era) /\ b < FullBlocks
  BY DEF GatherRight, ReadsBlock, NorWhole
<1>1. b \in 0 .. Total - 1 /\ b \in TableBlocks
  <2>1. b \in p * BlocksPerPage .. (p + 1) * BlocksPerPage - 1
    BY DEF BlocksOf
  <2>2. p * BlocksPerPage >= 0 /\ (p + 1) * BlocksPerPage <= RomPages * BlocksPerPage
    BY Sizes DEF Pages
  <2>3. RomPages * BlocksPerPage <= WindowPages * BlocksPerPage
    BY Sizes
  <2> QED
    BY <2>1, <2>2, <2>3, Sizes DEF Total, TableBlocks, Pages
<1>2. b % Total = b
  BY <1>1, Sizes, ModOf, b = 0 * Total + b
<1> QED
  BY <1>1, <1>2, TableShows

(* A pointer of the page table shows its page, block by block. *)
LEMMA PageShows ==
  ASSUME NorWhole, NEW p \in Pages, NEW off \in 0 .. BlocksPerPage - 1,
         pages[p] # Null
  PROVE  /\ Found(pages[p], off) = p * BlocksPerPage + off
         /\ pages[p].kind # "slot"
<1>1. CASE p = 0
  <2>1. pages[p] = Shadow
    BY <1>1 DEF NorWhole, Addressed, ThroughFile, NoPages, PageTable
  <2> QED
    BY <1>1, <2>1, Sizes DEF Found, NorWhole, Shadow, Pointer
<1>2. CASE p # 0
  <2>1. /\ disk.layout.sane
        /\ Contiguous("rom", p) /\ pages[p] = PublishedBlock("rom", p * BlocksPerPage)
    BY <1>2 DEF NorWhole, Addressed, ThroughFile, NoPages, PageTable
  <2>2. p * BlocksPerPage \in BlocksOf(p) /\ p * BlocksPerPage + off \in BlocksOf(p)
    BY Sizes DEF BlocksOf, Pages
  <2>3. pages[p] = Nor(p * BlocksPerPage, disk.era)
    BY <2>1, <2>2 DEF PublishedBlock, Contiguous
  <2>4. p * BlocksPerPage + off < FullBlocks
    <3>1. PublishedBlock("rom", p * BlocksPerPage + off) # Null
      BY <2>1, <2>2 DEF Contiguous
    <3> QED
      BY <3>1, Sizes DEF PublishedBlock, Pages
  <2>5. (p * BlocksPerPage) \div BlocksPerPage = p
    <3>1. (p * BlocksPerPage + 0) \div BlocksPerPage = p
      BY PageOfBlock, Sizes DEF Pages
    <3> QED
      BY <3>1, Sizes DEF Pages
  <2>6. p \in disk.layout.whole
    BY <2>1 DEF Contiguous
  <2>7. NorShows(pages[p], off)
    BY <2>3, <2>4, <2>5, <2>6 DEF NorShows, Nor, Pointer
  <2> QED
    BY <2>3, <2>7 DEF Found, Nor, Pointer
<1> QED
  BY <1>1, <1>2

(* Everything an address resolves to is the block that belongs there.       *)
LEMMA ResolvedShows ==
  ASSUME NorWhole, PhyTyped, HeldWhole, EntriesWhole,
         NEW r \in Regions, Resolved(r)
  PROVE  /\ Found(Direct(r).ptr, Direct(r).off) = Image(r)
         /\ Direct(r).ptr.kind = "slot" =>
              \E s \in SlotIds : /\ Direct(r) = [ptr |-> Slot(s), off |-> r.b]
                                /\ phy[s] = r.i % RomPages
<1> DEFINE e == <<r.w, r.i>>
           p == r.i % RomPages
           block == r.i * BlocksPerPage + r.b
<1>1. /\ r.w \in Windows /\ r.i \in Indices /\ r.b \in 0 .. BlocksPerPage - 1
      /\ e \in Windows \X Indices /\ p \in Pages /\ e[2] = r.i
  BY Sizes DEF Regions
<1>2. CASE map[e] # Null
  <2>1. Direct(r) = [ptr |-> map[e], off |-> r.b]
    BY <1>2 DEF Direct
  <2>2. EntryWhole(e)
    BY <1>1 DEF EntriesWhole
  <2>3. CASE map[e] = pages[p]
    <3>1. Found(pages[p], r.b) = p * BlocksPerPage + r.b /\ pages[p].kind # "slot"
      BY <1>1, <1>2, <2>3, PageShows
    <3> QED
      BY <2>1, <2>3, <3>1 DEF Image
  <2>4. CASE \E s \in SlotIds : map[e] = Slot(s) /\ phy[s] = p
    <3>1. PICK s \in SlotIds : map[e] = Slot(s) /\ phy[s] = p
      BY <2>4
    <3>2. held[s] = p /\ p # Wrong
      BY <1>1, <3>1 DEF HeldWhole, Free, Pages, Wrong
    <3>3. Found(Slot(s), r.b) = p * BlocksPerPage + r.b
      BY <3>2 DEF Found, Slot, Pointer
    <3> QED
      BY <2>1, <3>1, <3>3 DEF Image
  <2> QED
    BY <1>1, <1>2, <2>2, <2>3, <2>4 DEF EntryWhole
<1>3. CASE map[e] = Null
  <2>1. bound /\ Direct(r) = [ptr |-> table[block], off |-> 0] /\ table[block] # Null
    BY <1>3 DEF Direct, Resolved, NoView
  <2>2. block \in TableBlocks
    <3>1. r.i \in Nat /\ r.b \in Nat /\ r.i < WindowPages /\ r.b < BlocksPerPage
      BY <1>1, Sizes DEF Indices
    <3>2. WindowPages \in Nat \ {0} /\ BlocksPerPage \in Nat \ {0}
      BY Sizes
    <3> QED
      BY <3>1, <3>2, BlockBelow, Zenon DEF TableBlocks
  <2>3. table[block] = Nor(block % Total, disk.era) /\ block % Total < FullBlocks
    BY <2>1, <2>2, TableShows
  <2>4. block % Total = p * BlocksPerPage + r.b
    <3>1. r.i \in Nat /\ r.b \in Nat /\ r.b < BlocksPerPage
      BY <1>1, Sizes DEF Indices
    <3>2. RomPages \in Nat \ {0} /\ BlocksPerPage \in Nat \ {0}
      BY Sizes
    <3>3. (r.i * BlocksPerPage + r.b) % (RomPages * BlocksPerPage)
            = (r.i % RomPages) * BlocksPerPage + r.b
      BY <3>1, <3>2, MirrorBlock, Zenon
    <3> QED
      BY <3>3 DEF Total
  <2>5. block % Total \in Nat
    BY <2>4, <1>1, Sizes DEF Pages
  <2> HIDE DEF block
  <2>6. NorShows(table[block], 0)
    BY <2>3, <2>5 DEF NorShows, Nor, Pointer
  <2>7. Found(table[block], 0) = block % Total
    BY <2>3, <2>5, <2>6 DEF Found, Nor, Pointer
  <2>8. table[block].kind = "nor"
    BY <2>3 DEF Nor, Pointer
  <2> QED
    BY <2>1, <2>4, <2>7, <2>8 DEF Image
<1> QED
  BY <1>2, <1>3

-----------------------------------------------------------------------------
(* The invariant *)

LEMMA SlotsDiffer ==
  /\ \A s, t \in SlotIds : Slot(s) = Slot(t) => s = t
  /\ \A s \in SlotIds : Slot(s) # Null /\ Slot(s) # Shadow /\ Slot(s).kind = "slot"
  /\ Shadow # Null
BY DEF Slot, Null, Shadow, Pointer

LEMMA PagesAreNotSlots ==
  ASSUME NorWhole, NEW p \in Pages, NEW s \in SlotIds
  PROVE  pages[p] # Slot(s)
BY PageShows, SlotsDiffer, Sizes

LEMMA PageZeroShadow ==
  ASSUME NorWhole
  PROVE  pages[0] = Shadow
BY Sizes DEF NorWhole, Addressed, ThroughFile, NoPages, PageTable

(* Page 0 is a RAM page, the proof of GpioInRam: an entry is what the page  *)
(* table says, and for page 0 that is the shadow, or a slot.                *)
LEMMA ZeroInRam ==
  ASSUME NorWhole, EntriesWhole
  PROVE  map[PageZero] \in {Null} \cup ImagePointers
<1>1. EntryWhole(PageZero)
  BY Sizes DEF EntriesWhole
<1> QED
  BY <1>1, Sizes, PageZeroShadow DEF EntryWhole, PageZero, ImagePointers

(* What is neither the map nor the queue, nor the flash, disturbs little.   *)
LEMMA NorStays ==
  ASSUME NorWhole, UNCHANGED norVars
  PROVE  NorWhole'
BY DEF NorWhole, Addressed, ThroughFile, norVars, Table, PageTable, NoTable, NoPages,
       PublishedBlock, Contiguous, BlocksOf

LEMMA MapStays ==
  ASSUME FlashAndSlots, UNCHANGED <<norVars, map, phy, held>>
  PROVE  FlashAndSlots'
<1>1. NorWhole'
  BY NorStays DEF FlashAndSlots
<1>2. MapTyped' /\ PhyTyped' /\ HeldWhole'
  BY DEF FlashAndSlots, MapTyped, PhyTyped, HeldWhole
<1>3. EntriesWhole'
  BY DEF FlashAndSlots, EntriesWhole, EntryWhole, norVars
<1> QED
  BY <1>1, <1>2, <1>3 DEF FlashAndSlots

LEMMA QueueStays ==
  ASSUME QueueWhole, UNCHANGED <<next, head, tail>>
  PROVE  QueueWhole'
BY DEF QueueWhole, Ordered

(* One turn of the queue takes its order one place further. *)
LEMMA QueueTurns ==
  ASSUME QueueWhole, Slots >= 2,
         next \in [SlotIds -> Int],
         head' = next[head], next' = Rotated, tail' = head
  PROVE  QueueWhole'
<1>1. PICK order \in [SlotIds -> SlotIds] : Ordered(order)
  BY DEF QueueWhole
<1> DEFINE turned == [n \in SlotIds |-> IF n < Slots - 1 THEN order[n + 1] ELSE order[0]]
<1>2. Slots \in Nat /\ Slots - 1 \in SlotIds /\ 0 \in SlotIds /\ 1 \in SlotIds
  BY Sizes DEF SlotIds
<1>3. turned \in [SlotIds -> SlotIds]
  BY <1>2 DEF SlotIds
<1>4. turned[0] = head' /\ turned[Slots - 1] = tail'
  BY <1>1, <1>2 DEF Ordered
<1>5. \A m, n \in SlotIds : turned[m] = turned[n] => m = n
  <2> SUFFICES ASSUME NEW m \in SlotIds, NEW n \in SlotIds, turned[m] = turned[n]
               PROVE  m = n
    OBVIOUS
  <2>1. \A i, j \in SlotIds : order[i] = order[j] => i = j
    BY <1>1 DEF Ordered
  <2>2. m < Slots - 1 => m + 1 \in SlotIds
    BY <1>2 DEF SlotIds
  <2>3. n < Slots - 1 => n + 1 \in SlotIds
    BY <1>2 DEF SlotIds
  <2>4. ~ m < Slots - 1 => m = Slots - 1
    BY <1>2 DEF SlotIds
  <2>5. ~ n < Slots - 1 => n = Slots - 1
    BY <1>2 DEF SlotIds
  <2>6. m \in Nat /\ n \in Nat
    BY DEF SlotIds
  <2> QED
    BY <1>2, <2>1, <2>2, <2>3, <2>4, <2>5, <2>6
<1>6. \A n \in SlotIds : n < Slots - 1 => next'[turned[n]] = turned[n + 1]
  <2> SUFFICES ASSUME NEW n \in SlotIds, n < Slots - 1
               PROVE  next'[turned[n]] = turned[n + 1]
    OBVIOUS
  <2>1. n + 1 \in SlotIds /\ n \in Nat /\ turned[n] = order[n + 1]
    BY <1>2 DEF SlotIds
  <2>2. tail = order[Slots - 1] /\ head = order[0] /\ tail \in SlotIds
    BY <1>1, <1>2 DEF Ordered
  <2>3. CASE n + 1 = Slots - 1
    BY <2>1, <2>2, <2>3, <1>2 DEF Rotated
  <2>4. CASE n + 1 # Slots - 1
    <3>1. n + 1 < Slots - 1 /\ turned[n + 1] = order[n + 2]
      BY <1>2, <2>1, <2>4 DEF SlotIds
    <3>2. order[n + 1] # tail
      BY <1>1, <1>2, <2>1, <2>2, <2>4 DEF Ordered
    <3>3. next'[order[n + 1]] = next[order[n + 1]]
      BY <1>1, <2>1, <3>2 DEF Rotated
    <3>4. next[order[n + 1]] = order[n + 1 + 1] /\ n + 1 + 1 = n + 2
      BY <1>1, <2>1, <3>1 DEF Ordered
    <3> QED
      BY <2>1, <3>1, <3>3, <3>4
  <2> QED
    BY <2>3, <2>4
<1> HIDE DEF turned
<1> QED
  BY <1>3, <1>4, <1>5, <1>6 DEF QueueWhole, Ordered

-----------------------------------------------------------------------------
(* The steps *)

LEMMA QuietStep ==
  ASSUME PagesInv, UNCHANGED <<norVars, map, queueVars, held, gpioVars>>,
         CallTyped', VictimFree'
  PROVE  PagesInv'
<1>1. FlashAndSlots'
  BY MapStays DEF PagesInv, queueVars
<1>2. QueueWhole'
  BY QueueStays DEF PagesInv, queueVars
<1>3. NextTyped' /\ GpioTyped' /\ GpioCurrent'
  BY DEF PagesInv, NextTyped, GpioTyped, GpioCurrent, queueVars, gpioVars
<1> QED
  BY <1>1, <1>2, <1>3 DEF PagesInv

LEMMA GuestHolds ==
  ASSUME PagesInv, GuestStep, UNCHANGED norVars
  PROVE  PagesInv'
<1> USE DEF Ready, pageVars, guestVars
<1>0. Ready /\ CallTyped /\ ExecRegions \subseteq Regions /\ ReadRegions \subseteq Regions
  BY PagesAssumption
     DEF PagesInv, GuestStep, Execute, ExecuteMiss, ReadMiss, TranslateMiss, RunTranslated,
         LeaveCartridge, ExecuteRam, FrameStart, WriteGpio
<1>1. ASSUME UNCHANGED <<map, queueVars, held, call, gpioVars>>
      PROVE  PagesInv'
  <2>1. CallTyped' /\ VictimFree'
    BY <1>0, <1>1 DEF CallTyped, VictimFree
  <2> QED
    BY <1>1, <2>1, QuietStep
<1>2. ASSUME NEW r \in ExecRegions, Execute(r) PROVE PagesInv'
  BY <1>1, <1>2 DEF Execute
<1>3. ASSUME NEW r \in ExecRegions, ExecuteMiss(r) PROVE PagesInv'
  <2>1. CallTyped' /\ VictimFree'
    BY <1>0, <1>3 DEF CallTyped, VictimFree, ExecuteMiss
  <2> QED
    BY <1>3, <2>1, QuietStep DEF ExecuteMiss
<1>4. ASSUME NEW r \in Regions, ReadMiss(r) \/ TranslateMiss(r) PROVE PagesInv'
  <2>1. CallTyped' /\ VictimFree'
    BY <1>0, <1>4 DEF CallTyped, VictimFree, ReadMiss, TranslateMiss
  <2> QED
    BY <1>4, <2>1, QuietStep DEF ReadMiss, TranslateMiss
<1>5. ASSUME NEW r \in ExecRegions, RunTranslated(r) PROVE PagesInv'
  BY <1>1, <1>5 DEF RunTranslated
<1>6. CASE LeaveCartridge \/ ExecuteRam \/ FrameStart
  BY <1>1, <1>6 DEF LeaveCartridge, ExecuteRam, FrameStart
<1>7. CASE WriteGpio
  <2>1. FlashAndSlots'
    BY <1>7, MapStays DEF PagesInv, WriteGpio, queueVars
  <2>2. QueueWhole' /\ NextTyped'
    BY <1>7, QueueStays DEF PagesInv, WriteGpio, queueVars, NextTyped
  <2>3. CallTyped' /\ VictimFree'
    BY <1>0, <1>7 DEF CallTyped, VictimFree, WriteGpio
  <2>4. map[PageZero] \in {Null} \cup ImagePointers
    BY ZeroInRam DEF PagesInv, FlashAndSlots
  <2>5. GpioTyped' /\ GpioCurrent'
    BY <1>7, <2>4 DEF PagesInv, WriteGpio, Redrawn, GpioTyped, GpioCurrent
  <2> QED
    BY <2>1, <2>2, <2>3, <2>5 DEF PagesInv
<1> QED
  BY <1>0, <1>2, <1>3, <1>4, <1>5, <1>6, <1>7 DEF GuestStep

LEMMA EvictHolds ==
  ASSUME PagesInv, Evict, UNCHANGED norVars
  PROVE  PagesInv'
<1> USE DEF Ready
<1>1. FlashAndSlots'
  BY MapStays DEF PagesInv, Evict
<1>2. head \in SlotIds /\ tail \in SlotIds
  BY Sizes DEF PagesInv, QueueWhole, Ordered, SlotIds
<1>3. QueueWhole'
  <2>1. next \in [SlotIds -> Int] /\ Slots >= 2
    BY PagesAssumption DEF PagesInv, NextTyped
  <2> QED
    BY <2>1, QueueTurns DEF PagesInv, Evict
<1>4. NextTyped'
  BY <1>2, Sizes DEF PagesInv, NextTyped, Evict, Rotated, SlotIds
<1>5. CallTyped'
  BY Sizes DEF PagesInv, CallTyped, Evict
<1>6. VictimFree'
  BY DEF PagesInv, CallTyped, VictimFree, Evict
<1>7. GpioTyped' /\ GpioCurrent'
  BY DEF PagesInv, GpioTyped, GpioCurrent, Evict, gpioVars
<1> QED
  BY <1>1, <1>3, <1>4, <1>5, <1>6, <1>7 DEF PagesInv

(* A load replaces the victim's page by the one that was missing.           *)
LEMMA LoadHolds ==
  ASSUME PagesInv, Load, UNCHANGED norVars
  PROVE  PagesInv'
<1> DEFINE e == tail
           p == call.at.i % RomPages
           m1 == Vacated(e)
           d == [drawn EXCEPT ![Slot(e)] = Raw]
<1> USE DEF Ready, FlashAndSlots
<1>1. e \in SlotIds /\ p \in Pages /\ p # Free
  <2>1. call.at \in Regions
    BY DEF PagesInv, CallTyped, Load
  <2>2. call.at.i \in Indices
    BY <2>1 DEF Regions
  <2>3. p \in Pages
    BY <2>2, Sizes
  <2>4. e \in SlotIds
    BY Sizes DEF PagesInv, QueueWhole, Ordered, SlotIds
  <2> QED
    BY <2>3, <2>4 DEF Pages, Free
<1>2. /\ phy' = [phy EXCEPT ![e] = p]
      /\ held' = [held EXCEPT ![e] = p]
      /\ map' = MapRomEntry(m1, p, Slot(e))
      /\ drawn' = IF p = 0 THEN Redrawn(map', d, gpio) ELSE d
      /\ UNCHANGED <<next, head, tail, pc, gpio>>
      /\ call' = Idle
  BY <1>1, GatherHolds DEF Load, PagesInv
<1>3. NorWhole'
  BY NorStays DEF PagesInv
<1>4. PhyTyped' /\ HeldWhole'
  BY <1>1, <1>2 DEF PagesInv, PhyTyped, HeldWhole
<1>5. Slot(e) \in Pointers /\ Null \in Pointers
  BY <1>1 DEF Pointers, ImagePointers
<1>6. MapTyped'
  BY <1>2, <1>5 DEF PagesInv, MapTyped, MapRomEntry, Vacated
(* Nothing of the victim's page is left, so no entry leads to the slot.     *)
<1>7. \A x \in Windows \X Indices :
        /\ m1[x] # Slot(e)
        /\ m1[x] = map[x] \/ m1[x] = Null
  <2> SUFFICES ASSUME NEW x \in Windows \X Indices
               PROVE  m1[x] # Slot(e) /\ (m1[x] = map[x] \/ m1[x] = Null)
    OBVIOUS
  <2>1. EntryWhole(x)
    BY DEF PagesInv, EntriesWhole
  <2>2. x[2] % RomPages \in Pages
    BY Sizes
  <2>3. map[x] = Slot(e) => Below(x) /\ phy[e] = x[2] % RomPages
    BY <1>1, <2>1, <2>2, SlotsDiffer, PagesAreNotSlots DEF EntryWhole, PagesInv
  <2>4. phy[e] = x[2] % RomPages => phy[e] # Free
    BY <2>2 DEF Pages, Free
  <2>5. Null # Slot(e)
    BY <1>1, SlotsDiffer
  <2> QED
    BY <2>3, <2>4, <2>5 DEF Vacated, MapRomEntry, Below
<1>8. \A x \in Windows \X Indices :
        map'[x] = IF x[2] % RomPages = p /\ Below(x) THEN Slot(e) ELSE m1[x]
  BY <1>2 DEF MapRomEntry, Below
<1>9. EntriesWhole'
  <2> SUFFICES ASSUME NEW x \in Windows \X Indices
               PROVE  EntryWhole(x)'
    BY DEF EntriesWhole
  <2>1. pages' = pages
    BY DEF norVars
  <2>2. CASE x[2] % RomPages = p /\ Below(x)
    <3>1. map'[x] = Slot(e) /\ phy'[e] = p
      BY <1>1, <1>2, <1>8, <2>2 DEF PagesInv, PhyTyped
    <3> QED
      BY <1>1, <2>2, <3>1 DEF EntryWhole, Below
  <2>3. CASE ~ (x[2] % RomPages = p /\ Below(x))
    <3>1. map'[x] = m1[x] /\ m1[x] # Slot(e)
      BY <1>7, <1>8, <2>3
    <3>2. CASE m1[x] = Null
      BY <3>1, <3>2 DEF EntryWhole
    <3>3. CASE m1[x] = map[x]
      <4>1. EntryWhole(x)
        BY DEF PagesInv, EntriesWhole
      <4>2. ASSUME NEW s \in SlotIds, map[x] = Slot(s), phy[s] = x[2] % RomPages, Below(x)
            PROVE  EntryWhole(x)'
        <5>1. s # e
          BY <3>1, <3>3, <4>2
        <5>2. phy'[s] = phy[s] /\ map'[x] = Slot(s)
          BY <1>2, <3>1, <3>3, <4>2, <5>1 DEF PagesInv, PhyTyped
        <5> QED
          BY <4>2, <5>2 DEF EntryWhole, Below
      <4> QED
        BY <2>1, <3>1, <3>3, <4>1, <4>2 DEF EntryWhole
    <3> QED
      BY <1>7, <3>2, <3>3
  <2> QED
    BY <2>2, <2>3
<1>10. QueueWhole' /\ NextTyped'
  BY <1>2, QueueStays DEF PagesInv, NextTyped
<1>11. CallTyped' /\ VictimFree'
  BY <1>2 DEF CallTyped, VictimFree, Idle
<1>12. GpioTyped'
  BY <1>2 DEF PagesInv, GpioTyped, Redrawn
<1>13. GpioCurrent'
  <2>1. Slot(e) \in DOMAIN drawn /\ PageZero[2] % RomPages = 0 /\ Below(PageZero)
    BY <1>1, Sizes DEF PagesInv, GpioTyped, ImagePointers, Below, PageZero
  <2>2. CASE p = 0
    <3>1. map'[PageZero] = Slot(e)
      BY <1>8, <2>1, <2>2, Sizes
    <3> QED
      BY <1>2, <2>1, <2>2, <3>1 DEF GpioCurrent, Redrawn
  <2>3. CASE p # 0
    <3>1. map'[PageZero] = m1[PageZero]
      BY <1>8, <2>1, <2>3, Sizes
    <3>2. drawn' = d /\ gpio' = gpio
      BY <1>2, <2>3
    <3>3. map'[PageZero] # Slot(e) /\ (map'[PageZero] = map[PageZero] \/ map'[PageZero] = Null)
      BY <1>7, <3>1, Sizes
    <3> QED
      BY <3>2, <3>3 DEF PagesInv, GpioCurrent
  <2> QED
    BY <2>2, <2>3
<1> QED
  BY <1>3, <1>4, <1>6, <1>9, <1>10, <1>11, <1>12, <1>13 DEF PagesInv

LEMMA PageTableTyped == Init => \A q \in Pages : pages[q] \in Pointers
<1> SUFFICES ASSUME Init, NEW q \in Pages PROVE pages[q] \in Pointers
  OBVIOUS
<1> USE DEF Init, NorInit
<1>1. CASE q = 0
  BY <1>1 DEF PageTable, Pointers, ImagePointers
<1>2. CASE q # 0
  <2>1. pages[q] = Null \/ (/\ Contiguous("rom", q)
                           /\ pages[q] = PublishedBlock("rom", q * BlocksPerPage))
    BY <1>2 DEF PageTable
  <2>2. q * BlocksPerPage + 0 \in 0 .. RomPages * BlocksPerPage - 1
    <3>1. q \in Nat /\ q < RomPages /\ 0 < BlocksPerPage /\ 0 \in Nat
      BY Sizes DEF Pages
    <3> QED
      BY <3>1, Sizes, BlockBelow
  <2>3. q * BlocksPerPage \in Blocks
    BY <2>2, Sizes DEF Blocks, Total, Pages
  <2>4. disk.era \in 0 .. MaxEra
    BY RomAssumption
  <2> QED
    BY <2>1, <2>3, <2>4 DEF PublishedBlock, Pointers
<1> QED
  BY <1>1, <1>2

LEMMA InitHolds == Init => PagesInv
<1> SUFFICES ASSUME Init PROVE PagesInv
  OBVIOUS
<1> USE DEF Init, PagesInit, NorInit
<1>1. NorWhole
  BY DEF NorWhole, Addressed, Table, PageTable, PublishedBlock, Contiguous, BlocksOf
<1>2. \A x \in Windows \X Indices :
        map[x] = Null \/ map[x] = pages[x[2] % RomPages]
  BY DEF MapPages, Unmapped
<1>3. MapTyped
  <2>1. \A q \in Pages : pages[q] \in Pointers
    BY PageTableTyped
  <2> QED
    BY <1>2, <2>1, Sizes DEF MapTyped, MapPages, Unmapped, Pointers
<1>4. EntriesWhole
  BY <1>2 DEF EntriesWhole, EntryWhole
<1>5. PhyTyped /\ HeldWhole /\ NextTyped
  BY Sizes DEF PhyTyped, HeldWhole, NextTyped, SlotIds, InitialLinks
<1>6. QueueWhole
  <2> DEFINE order == [n \in SlotIds |-> n]
  <2>1. order \in [SlotIds -> SlotIds]
    OBVIOUS
  <2>2. Ordered(order)
    BY Sizes DEF Ordered, SlotIds, InitialLinks
  <2> QED
    BY <2>1, <2>2 DEF QueueWhole
<1>7. CallTyped /\ VictimFree
  BY DEF CallTyped, VictimFree, Idle, Ready
<1>8. GpioTyped /\ GpioCurrent
  BY DEF GpioTyped, GpioCurrent, ImagePointers, Hidden
<1> QED
  BY <1>1, <1>3, <1>4, <1>5, <1>6, <1>7, <1>8 DEF PagesInv, FlashAndSlots

-----------------------------------------------------------------------------
(* What the guest may rely on *)

LEMMA NextHolds == PagesInv /\ [Next]_vars => PagesInv'
<1> SUFFICES ASSUME PagesInv, [Next]_vars PROVE PagesInv'
  OBVIOUS
<1>1. CASE Next
  BY <1>1, GuestHolds, EvictHolds, LoadHolds DEF Next, Resolve
<1>2. CASE UNCHANGED vars
  <2>1. CallTyped' /\ VictimFree'
    BY <1>2 DEF PagesInv, CallTyped, VictimFree, Ready, vars, pageVars, queueVars, guestVars
  <2> QED
    BY <1>2, <2>1, QuietStep DEF vars, pageVars
<1> QED
  BY <1>1, <1>2

(* The map, the cache, its queue and the GPIO copies stay consistent with   *)
(* one another through every fetch, read, eviction, load and GPIO write.    *)
THEOREM PagesInvHolds == Spec => []PagesInv
BY InitHolds, NextHolds, PTL DEF Spec

(* Whatever an address resolves to is the block of the image that belongs   *)
(* there, for every size of image, cache and window and every fragmentation *)
(* of the file (map_rom_entry, evict_gamepak_page, load_gamepak_page).      *)
THEOREM MapHolds == Spec => []MapFaithful
<1>1. PagesInv => MapFaithful
  BY ResolvedShows DEF PagesInv, FlashAndSlots, MapFaithful
<1> QED
  BY <1>1, PagesInvHolds, PTL

(* The links of gamepak_blk_queue always run through every slot once.       *)
THEOREM QueueHolds == Spec => []QueueWhole
<1>1. PagesInv => QueueWhole
  BY DEF PagesInv
<1> QED
  BY <1>1, PagesInvHolds, PTL

(* update_gpio_romregs never writes to flash. *)
THEOREM GpioRamHolds == Spec => []GpioInRam
<1>1. PagesInv => GpioInRam
  BY ZeroInRam DEF PagesInv, FlashAndSlots, GpioInRam
<1> QED
  BY <1>1, PagesInvHolds, PTL

-----------------------------------------------------------------------------
(* The interpreter's view *)

InPlace == \A r \in ExecRegions : r.i < RomPages

LEMMA OwnPage ==
  ASSUME InPlace, NEW r \in ExecRegions
  PROVE  /\ r \in Regions /\ r # NoPc
         /\ r.i \in Indices /\ r.i \in Nat
         /\ r.i % RomPages = r.i
<1>1. r \in Regions /\ r.w \in Windows /\ r.i \in Indices
  BY PagesAssumption DEF Regions
<1>2. r.i \in Nat /\ r.i < RomPages
  BY <1>1, Sizes DEF Indices, InPlace
<1>3. r.i % RomPages = r.i
  <2>1. RomPages \in Nat \ {0} /\ r.i = 0 * RomPages + r.i
    BY <1>2, Sizes
  <2> QED
    BY <1>2, <2>1, ModOf
<1>4. r # NoPc
  BY <1>1 DEF Windows, NoPc
<1> QED
  BY <1>1, <1>2, <1>3, <1>4

(* A step that leaves the view, its page and the slots alone keeps it.      *)
LEMMA ViewStays ==
  ASSUME ViewWhole, UNCHANGED <<norVars, view, pc, phy, held>>,
         view # NoView => Ready \/ call.use # "execute",
         pc \in ExecRegions => (pc.i \in sticky => pc.i \in sticky')
  PROVE  ViewWhole'
<1>1. Found(view.ptr, view.off)' = Found(view.ptr, view.off)
  BY DEF Found, NorShows, norVars
<1> QED
  BY <1>1 DEF ViewWhole, Image

LEMMA ViewGuest ==
  ASSUME InPlace, PagesInv, ViewWhole, GuestStep, UNCHANGED norVars
  PROVE  ViewWhole'
<1>0. Ready
  BY DEF GuestStep, Execute, ExecuteMiss, ReadMiss, TranslateMiss, RunTranslated,
         LeaveCartridge, ExecuteRam, FrameStart, WriteGpio
<1>1. ASSUME NEW r \in ExecRegions, Execute(r) PROVE ViewWhole'
  <2>1. r \in Regions /\ r.i % RomPages = r.i
    BY OwnPage
  <2>2. /\ view' = Direct(r) /\ pc' = r /\ r.i \in sticky'
        /\ UNCHANGED <<phy, held>>
    BY <1>1 DEF Execute, Touched, queueVars
  <2>3. /\ Found(Direct(r).ptr, Direct(r).off) = Image(r)
        /\ Direct(r).ptr.kind = "slot" =>
              \E s \in SlotIds : /\ Direct(r) = [ptr |-> Slot(s), off |-> r.b]
                                /\ phy[s] = r.i
    BY <1>1, <2>1, ResolvedShows DEF PagesInv, FlashAndSlots, Execute
  <2>4. Found(view.ptr, view.off)' = Found(Direct(r).ptr, Direct(r).off)
    BY <2>2 DEF Found, NorShows, norVars
  <2>5. Image(pc)' = Image(r)
    BY <2>2 DEF Image
  <2> QED
    BY <2>2, <2>3, <2>4, <2>5 DEF ViewWhole
<1>2. ASSUME NEW r \in ExecRegions, ExecuteMiss(r) PROVE ViewWhole'
  BY <1>2 DEF ExecuteMiss, ViewWhole, Ready
<1>3. ASSUME NEW r, ReadMiss(r) PROVE ViewWhole'
  BY <1>0, <1>3, ViewStays DEF ReadMiss, queueVars
<1>4. ASSUME NEW r, TranslateMiss(r) \/ RunTranslated(r) PROVE ViewWhole'
  BY <1>4 DEF TranslateMiss, RunTranslated, ViewWhole
<1>5. CASE LeaveCartridge \/ ExecuteRam \/ FrameStart
  BY <1>5 DEF LeaveCartridge, ExecuteRam, FrameStart, ViewWhole, guestVars
<1>6. CASE WriteGpio
  BY <1>0, <1>6, ViewStays DEF WriteGpio, guestVars, queueVars
<1> QED
  BY <1>1, <1>2, <1>3, <1>4, <1>5, <1>6 DEF GuestStep

LEMMA ViewEvict ==
  ASSUME InPlace, PagesInv, ViewWhole, Evict, UNCHANGED norVars
  PROVE  ViewWhole'
<1>1. CASE call.use = "execute"
  <2>1. call'.use = "execute" /\ call'.stage # "idle"
    BY <1>1 DEF Evict, PagesInv, CallTyped
  <2> QED
    BY <2>1 DEF ViewWhole, Ready
<1>2. CASE call.use # "execute"
  <2>1. pc \in ExecRegions => (pc.i \in sticky => pc.i \in sticky')
    BY OwnPage DEF Evict, StickyAfter
  <2> QED
    BY <1>2, <2>1, ViewStays DEF Evict
<1> QED
  BY <1>1, <1>2

LEMMA ViewLoad ==
  ASSUME InPlace, PagesInv, ViewWhole, Load, UNCHANGED norVars
  PROVE  ViewWhole'
<1>1. tail \in SlotIds /\ phy \in [SlotIds -> Pages \cup {Free}]
  BY Sizes DEF PagesInv, FlashAndSlots, PhyTyped, QueueWhole, Ordered, SlotIds
<1>2. /\ phy' = [phy EXCEPT ![tail] = call.at.i % RomPages]
      /\ UNCHANGED <<pc, tail>>
      /\ call.stage = "load"
  BY DEF Load
<1>3. CASE call.use = "execute"
  <2>1. call.at = pc /\ pc \in ExecRegions
    BY <1>2, <1>3 DEF PagesInv, CallTyped, Ready
  <2>2. pc.i % RomPages = pc.i
    BY <2>1, OwnPage
  <2>3. view' = [ptr |-> Slot(tail), off |-> pc.b] /\ pc.i \in sticky'
    BY <1>3, <2>1 DEF Load, Touched
  <2>4. phy'[tail] = pc.i
    BY <1>1, <1>2, <2>1, <2>2
  <2> QED
    BY <1>1, <1>2, <2>1, <2>3, <2>4 DEF ViewWhole
<1>4. CASE call.use # "execute"
  <2>1. UNCHANGED <<view, sticky>>
    BY <1>4 DEF Load
  <2> SUFFICES ASSUME view # NoView
               PROVE  ViewWhole'
    BY <2>1 DEF ViewWhole
  <2>2. pc \in ExecRegions
    BY <1>4 DEF ViewWhole
  <2>3. CASE view.ptr.kind # "slot" /\ Found(view.ptr, view.off) = Image(pc)
    <3>1. Found(view.ptr, view.off)' = Found(view.ptr, view.off)
      BY <2>1, <2>3 DEF Found, NorShows, norVars
    <3>2. Image(pc)' = Image(pc)
      BY <1>2 DEF Image
    <3> QED
      BY <1>2, <2>1, <2>2, <2>3, <3>1, <3>2 DEF ViewWhole
  <2>4. ASSUME NEW s \in SlotIds, view = [ptr |-> Slot(s), off |-> pc.b],
               phy[s] = pc.i, pc.i \in sticky
        PROVE  ViewWhole'
    <3>1. pc.i # Free
      BY <2>2, OwnPage DEF Free
    <3>2. s # tail
      BY <1>2, <2>4, <3>1 DEF PagesInv, VictimFree
    <3>3. phy'[s] = pc.i
      BY <1>1, <1>2, <2>4, <3>2
    <3> QED
      BY <1>2, <2>1, <2>2, <2>4, <3>3 DEF ViewWhole
  <2> QED
    BY <1>4, <2>3, <2>4 DEF ViewWhole
<1> QED
  BY <1>3, <1>4

LEMMA ViewNext ==
  ASSUME InPlace
  PROVE  PagesInv /\ ViewWhole /\ [Next]_vars => ViewWhole'
<1> SUFFICES ASSUME PagesInv, ViewWhole, [Next]_vars PROVE ViewWhole'
  OBVIOUS
<1>1. CASE Next
  BY <1>1, ViewGuest, ViewEvict, ViewLoad DEF Next, Resolve
<1>2. CASE UNCHANGED vars
  <2>1. Found(view.ptr, view.off)' = Found(view.ptr, view.off)
    BY <1>2 DEF Found, NorShows, norVars, vars, pageVars, guestVars
  <2> QED
    BY <1>2, <2>1
       DEF ViewWhole, Ready, Image, vars, pageVars, queueVars, guestVars
<1> QED
  BY <1>1, <1>2

(* The 4 KiB view the interpreter executes through always shows the code at *)
(* the program counter, provided the game executes the image itself and not *)
(* its mirrors: a mirror's page number is not the sticky one.               *)
THEOREM ViewHolds ==
  ASSUME InPlace
  PROVE  Spec => []ViewFaithful
<1>1. Init => ViewWhole
  BY DEF Init, PagesInit, ViewWhole
<1>2. PagesInv /\ ViewWhole => ViewFaithful
  <2> SUFFICES ASSUME PagesInv, ViewWhole, view # NoView, Ready
               PROVE  Found(view.ptr, view.off) = Image(pc)
    BY DEF ViewFaithful
  <2>1. pc \in ExecRegions
    BY DEF ViewWhole
  <2>2. pc.i \in Nat /\ pc.i % RomPages = pc.i
    BY <2>1, OwnPage
  <2>3. ASSUME NEW s \in SlotIds, view = [ptr |-> Slot(s), off |-> pc.b], phy[s] = pc.i
        PROVE  Found(view.ptr, view.off) = Image(pc)
    <3>1. held[s] = pc.i /\ pc.i # Wrong
      BY <2>2, <2>3 DEF PagesInv, FlashAndSlots, HeldWhole, Free, Wrong
    <3>2. Found(Slot(s), pc.b) = pc.i * BlocksPerPage + pc.b
      BY <3>1 DEF Found, Slot, Pointer
    <3> QED
      BY <2>2, <2>3, <3>2 DEF Image
  <2> QED
    BY <2>3 DEF ViewWhole
<1>3. PagesInv /\ ViewWhole /\ [Next]_vars => ViewWhole'
  BY ViewNext
<1> QED
  BY <1>1, <1>2, <1>3, PagesInvHolds, PTL DEF Spec

-----------------------------------------------------------------------------
(* Types *)

(* What TypeOK says beyond PagesInv. *)
GuestTyped ==
  /\ disk.era \in 0 .. MaxEra
  /\ bound \in BOOLEAN
  /\ sticky \subseteq Indices
  /\ pc \in Regions \cup {NoPc}
  /\ view \in [ptr : Pointers, off : 0 .. BlocksPerPage - 1]
  /\ call.spins \in 0 .. Slots - 1
  /\ gpio \in Registers
  /\ drawn \in [ImagePointers -> Registers \cup {Raw}]

LEMMA DirectTyped ==
  ASSUME PagesInv, GuestTyped, NEW r \in Regions, Resolved(r)
  PROVE  Direct(r) \in [ptr : Pointers, off : 0 .. BlocksPerPage - 1]
<1> DEFINE e == <<r.w, r.i>>
           block == r.i * BlocksPerPage + r.b
<1>1. /\ r.i \in Indices /\ r.b \in 0 .. BlocksPerPage - 1
      /\ e \in Windows \X Indices /\ 0 \in 0 .. BlocksPerPage - 1
  BY Sizes DEF Regions
<1>2. CASE map[e] # Null
  <2>1. Direct(r) = [ptr |-> map[e], off |-> r.b]
    BY <1>2 DEF Direct
  <2>2. map[e] \in Pointers
    BY <1>1 DEF PagesInv, FlashAndSlots, MapTyped
  <2> QED
    BY <1>1, <2>1, <2>2
<1>3. CASE map[e] = Null
  <2>1. Direct(r) = [ptr |-> table[block], off |-> 0] /\ table[block] # Null
    BY <1>3 DEF Direct, Resolved, NoView
  <2>2. block \in TableBlocks
    <3>1. /\ r.i \in Nat /\ r.b \in Nat /\ r.i < WindowPages /\ r.b < BlocksPerPage
          /\ WindowPages \in Nat \ {0} /\ BlocksPerPage \in Nat \ {0}
      BY <1>1, Sizes DEF Indices
    <3> QED
      BY <3>1, BlockBelow, Zenon DEF TableBlocks
  <2> HIDE DEF block
  <2>3. table[block] = Nor(block % Total, disk.era) /\ block % Total < FullBlocks
    BY <2>1, <2>2, TableShows DEF PagesInv, FlashAndSlots
  <2>4. block % Total \in Blocks
    <3>1. block \in Nat /\ Total \in Nat \ {0}
      BY <2>2, Sizes DEF TableBlocks
    <3> QED
      BY <3>1, DivMod, Zenon DEF Blocks
  <2>5. table[block] \in Pointers
    BY <2>3, <2>4 DEF Pointers, GuestTyped
  <2> QED
    BY <1>1, <2>1, <2>5
<1> QED
  BY <1>2, <1>3

LEMMA GuestTypedStep ==
  ASSUME PagesInv, GuestTyped, GuestStep, UNCHANGED norVars
  PROVE  GuestTyped'
<1> USE DEF GuestTyped
<1>0. /\ disk' = disk /\ 0 \in 0 .. Slots - 1
      /\ ExecRegions \subseteq Regions /\ RamPages \subseteq Indices
      /\ NoView \in [ptr : Pointers, off : 0 .. BlocksPerPage - 1]
  BY PagesAssumption, Sizes DEF norVars, NoView, Pointers
<1>1. ASSUME NEW r \in ExecRegions, Execute(r) PROVE GuestTyped'
  <2>1. r \in Regions /\ r.i \in Indices
    BY <1>0 DEF Regions
  <2>2. Direct(r) \in [ptr : Pointers, off : 0 .. BlocksPerPage - 1]
    BY <1>1, <2>1, DirectTyped DEF Execute
  <2> QED
    BY <1>0, <1>1, <2>1, <2>2 DEF Execute, Touched, gpioVars
<1>2. ASSUME NEW r \in ExecRegions, ExecuteMiss(r) PROVE GuestTyped'
  BY <1>0, <1>2 DEF ExecuteMiss, gpioVars
<1>3. ASSUME NEW r, ReadMiss(r) \/ TranslateMiss(r) PROVE GuestTyped'
  BY <1>0, <1>3 DEF ReadMiss, TranslateMiss, gpioVars
<1>4. ASSUME NEW r \in ExecRegions, RunTranslated(r) PROVE GuestTyped'
  BY <1>0, <1>4 DEF RunTranslated, gpioVars
<1>5. CASE LeaveCartridge
  BY <1>0, <1>5 DEF LeaveCartridge, gpioVars
<1>6. CASE ExecuteRam
  BY <1>0, <1>6 DEF ExecuteRam, gpioVars
<1>7. CASE FrameStart
  BY <1>0, <1>7 DEF FrameStart, guestVars, gpioVars
<1>8. CASE WriteGpio
  BY <1>0, <1>8 DEF WriteGpio, guestVars, Redrawn
<1> QED
  BY <1>1, <1>2, <1>3, <1>4, <1>5, <1>6, <1>7, <1>8 DEF GuestStep

LEMMA ResolveTypedStep ==
  ASSUME PagesInv, GuestTyped, Resolve, UNCHANGED norVars
  PROVE  GuestTyped'
<1> USE DEF GuestTyped
<1>0. disk' = disk /\ 0 \in 0 .. Slots - 1
  BY Sizes DEF norVars
<1>1. CASE Evict
  <2>1. sticky' \subseteq Indices
    BY <1>1 DEF Evict, StickyAfter, Regions, NoPc
  <2>2. call'.spins \in 0 .. Slots - 1
    <3>1. call.spins + 1 \in Nat /\ Slots \in Nat
      BY Sizes
    <3>2. \/ call.spins + 1 < Slots /\ call'.spins = call.spins + 1
          \/ call'.spins = 0
          \/ call'.spins = call.spins
      BY <1>1 DEF Evict, PagesInv, CallTyped
    <3> QED
      BY <1>0, <3>1, <3>2
  <2> QED
    BY <1>0, <1>1, <2>1, <2>2 DEF Evict, gpioVars
<1>2. CASE Load
  <2>1. tail \in SlotIds
    BY Sizes DEF PagesInv, QueueWhole, Ordered, SlotIds
  <2>2. call.at \in Regions /\ call.at.i \in Indices /\ call.at.b \in 0 .. BlocksPerPage - 1
    BY <1>2 DEF Load, PagesInv, CallTyped, Ready, Regions
  <2>3. Slot(tail) \in Pointers
    BY <2>1 DEF Pointers, ImagePointers
  <2>4. view' \in [ptr : Pointers, off : 0 .. BlocksPerPage - 1] /\ sticky' \subseteq Indices
    BY <1>2, <2>2, <2>3 DEF Load, Touched
  <2>5. drawn' \in [ImagePointers -> Registers \cup {Raw}]
    BY <1>2 DEF Load, Redrawn
  <2>6. bound' = bound /\ pc' = pc /\ gpio' = gpio /\ call'.spins = 0
    BY <1>2 DEF Load, Idle
  <2> QED
    BY <1>0, <2>4, <2>5, <2>6
<1> QED
  BY <1>1, <1>2 DEF Resolve

LEMMA GuestTypedInit == Init => GuestTyped
<1> SUFFICES ASSUME Init PROVE GuestTyped
  OBVIOUS
<1>1. disk.era \in 0 .. MaxEra
  BY RomAssumption DEF Init, NorInit
<1>2. /\ view \in [ptr : Pointers, off : 0 .. BlocksPerPage - 1]
      /\ call.spins \in 0 .. Slots - 1
  BY Sizes DEF Init, PagesInit, NoView, Pointers, Idle
<1>3. /\ bound \in BOOLEAN /\ sticky \subseteq Indices
      /\ pc \in Regions \cup {NoPc} /\ gpio \in Registers
      /\ drawn \in [ImagePointers -> Registers \cup {Raw}]
  BY PagesAssumption DEF Init, PagesInit, ImagePointers
<1> QED
  BY <1>1, <1>2, <1>3 DEF GuestTyped

(* Every variable keeps its shape, whatever the guest executes and reads:   *)
(* no page index leaves the window, the breaker's count stays below a lap.  *)
THEOREM TypesHold == Spec => []TypeOK
<1>1. Init => GuestTyped
  BY GuestTypedInit
<1>2. PagesInv /\ GuestTyped /\ [Next]_vars => GuestTyped'
  <2> SUFFICES ASSUME PagesInv, GuestTyped, [Next]_vars PROVE GuestTyped'
    OBVIOUS
  <2>1. CASE Next
    BY <2>1, GuestTypedStep, ResolveTypedStep DEF Next
  <2>2. CASE UNCHANGED vars
    BY <2>2 DEF GuestTyped, vars, pageVars, norVars, guestVars, gpioVars
  <2> QED
    BY <2>1, <2>2
<1>3. PagesInv /\ GuestTyped => TypeOK
  <2> SUFFICES ASSUME PagesInv, GuestTyped PROVE TypeOK
    OBVIOUS
  <2>1. head \in SlotIds /\ tail \in SlotIds
    BY Sizes DEF PagesInv, QueueWhole, Ordered, SlotIds
  <2>2. call.stage \in {"idle", "evict", "load"}
    BY DEF PagesInv, CallTyped
  <2>3. view.ptr \in Pointers /\ view.off \in 0 .. BlocksPerPage - 1
    BY DEF GuestTyped
  <2> QED
    BY <2>1, <2>2, <2>3
       DEF PagesInv, FlashAndSlots, MapTyped, PhyTyped, NextTyped, GuestTyped, TypeOK
<1> QED
  BY <1>1, <1>2, <1>3, PagesInvHolds, PTL DEF Spec

=============================================================================
