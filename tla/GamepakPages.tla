---------------------------- MODULE GamepakPages ----------------------------
(***************************************************************************)
(* The cartridge side of the guest's memory map: the 32 KiB page map that  *)
(* interpreter, translator, DMA and translated code read, the 4 KiB table  *)
(* of flash blocks behind it, and the fallback cache into which a page is  *)
(* gathered when neither leads to it.  The cache evicts the least recently *)
(* loaded page that is not sticky, because the interpreter keeps a pointer *)
(* into the page it executes.                                              *)
(*                                                                         *)
(* The windows at 0x08000000 and 0x0A000000 are always mapped alike; "lo"  *)
(* stands for both.  Of the window at 0x0C000000, "hi", only the lower     *)
(* half is ever mapped.                                                    *)
(***************************************************************************)
EXTENDS NorRom

CONSTANTS
  Slots,        \* 32 * gamepak_buffer_count, the cache's pages
  Registers,    \* contents of the GPIO registers, Hidden when not readable
  ExecRegions,  \* regions the guest executes from
  ReadRegions,  \* regions it reads as data
  RamPages      \* page indices that RAM code shares a sticky bit with

Windows == {"lo", "hi"}
Indices == 0 .. WindowPages - 1
Regions == [w : Windows, i : Indices, b : 0 .. BlocksPerPage - 1]
SlotIds == 0 .. Slots - 1

Slot(s) == Pointer("slot", s, 0)
NoView  == [ptr |-> Null, off |-> 0]
NoPc    == [w |-> "none", i |-> 0, b |-> 0]
Hidden  == 0       \* gpio_regs[2] is clear
Free    == -1      \* phy_rom of a slot that holds no page

ASSUME PagesAssumption ==
  /\ Slots \in Nat /\ Slots >= 2
  /\ ExecRegions \subseteq Regions /\ ReadRegions \subseteq Regions
  /\ RamPages \subseteq Indices
  /\ Registers \subseteq Nat /\ Hidden \in Registers

VARIABLES
  map,       \* memory_map_read, per window and page index
  bound,     \* the fragment table is bound
  next, head, tail,   \* gamepak_blk_queue's links, gamepak_lru_head, _tail
  phy,       \* gamepak_blk_queue's phy_rom
  held,      \* the page a slot's memory really holds, or Wrong
  sticky,    \* gamepak_sticky_bit
  pc,        \* the guest's program counter, when it is in the cartridge
  view,      \* the interpreter's pc_address_block
  call,      \* the page load under way: for what, where, and how far it is
  gpio       \* gpio_regs as far as they are visible

queueVars == <<next, head, tail, phy>>
guestVars == <<pc, view, call>>
gpioVars  == <<gpio, drawn>>
pageVars  == <<map, bound, queueVars, held, sticky, guestVars, gpioVars>>

Idle == [stage |-> "idle", use |-> "none", at |-> NoPc, spins |-> 0]

-----------------------------------------------------------------------------
(* The page map *)

(* map_rom_entry: page p and its mirrors, in every window, become ptr.      *)
MapRomEntry(m, p, ptr) ==
  [e \in Windows \X Indices |->
     IF e[2] % RomPages = p /\ (e[1] = "lo" \/ e[2] < WindowPages \div 2)
     THEN ptr ELSE m[e]]

Unmapped == [e \in Windows \X Indices |-> Null]

(* The loop over map_rom_entry in load_gamepak_from_pages and remap_pages.  *)
MapPages(m, ps) ==
  [e \in Windows \X Indices |->
     LET p == e[2] % RomPages
     IN  IF ps[p] # Null /\ (e[1] = "lo" \/ e[2] < WindowPages \div 2)
         THEN ps[p] ELSE m[e]]

PageZero == <<"lo", 0>>

(* update_gpio_romregs, for a cartridge with a clock: the registers are     *)
(* written into whatever page 0 is mapped to.                               *)
Redrawn(m, d, g) ==
  IF m[PageZero] \in DOMAIN d THEN [d EXCEPT ![m[PageZero]] = g] ELSE d

(* cgba_gamepak_resolve_4k up to the fallback: a mapped page, or a block of *)
(* the bound table.                                                         *)
Direct(r) ==
  LET block == r.i * BlocksPerPage + r.b
  IN  IF map[<<r.w, r.i>>] # Null
      THEN [ptr |-> map[<<r.w, r.i>>], off |-> r.b]
      ELSE IF bound THEN [ptr |-> table[block], off |-> 0]
      ELSE NoView

Resolved(r) == Direct(r).ptr # Null

-----------------------------------------------------------------------------
(* What the guest does *)

Ready == call.stage = "idle"

Unmasked(r) == sticky \cup {r.i + WindowPages}

Touched(r) == sticky \cup {r.i}

(* execute_arm and check_pc_region: at the start of an interpreted chunk    *)
(* and at every 4 KiB boundary the view is looked up and its page touched.  *)
Execute(r) ==
  /\ Ready
  /\ r # pc \/ view = NoView
  /\ Resolved(r)
  /\ pc' = r
  /\ view' = Direct(r)
  /\ sticky' = Touched(r)
  /\ UNCHANGED <<map, bound, queueVars, held, call, gpioVars>>

ExecuteMiss(r) ==
  /\ Ready
  /\ ~ Resolved(r)
  /\ pc' = r
  /\ call' = [stage |-> "evict", use |-> "execute", at |-> r, spins |-> 0]
  /\ UNCHANGED <<map, bound, queueVars, held, sticky, view, gpioVars>>

(* read_memory_gamepak and the DMA loops, which load nothing for addresses  *)
(* past the image; a resolved read changes nothing.                         *)
ReadMiss(r) ==
  /\ Ready
  /\ r.i < RomPages
  /\ ~ Resolved(r)
  /\ call' = [stage |-> "evict", use |-> "read", at |-> r, spins |-> 0]
  /\ UNCHANGED <<map, bound, queueVars, held, sticky, pc, view, gpioVars>>

(* The translator reads a block's code through a view of its own. *)
TranslateMiss(r) ==
  /\ Ready /\ view = NoView
  /\ ~ Resolved(r)
  /\ call' = [stage |-> "evict", use |-> "read", at |-> r, spins |-> 0]
  /\ UNCHANGED <<map, bound, queueVars, held, sticky, pc, view, gpioVars>>

(* Translated code runs without a view. *)
RunTranslated(r) ==
  /\ Ready /\ view = NoView /\ pc # r
  /\ pc' = r
  /\ UNCHANGED <<map, bound, queueVars, held, sticky, view, call, gpioVars>>

(* The interpreter returns. *)
LeaveCartridge ==
  /\ Ready /\ view # NoView
  /\ view' = NoView
  /\ UNCHANGED <<map, bound, queueVars, held, sticky, pc, call, gpioVars>>

(* It goes on in RAM, whose page numbers touch the same sticky bits. *)
ExecuteRam ==
  /\ Ready
  /\ \E i \in RamPages : sticky' = sticky \cup {i}
  /\ pc' = NoPc
  /\ view' = NoView
  /\ UNCHANGED <<map, bound, queueVars, held, call, gpioVars>>

(* cgba_gpsp_run_frame; no interpreter is active between two frames. *)
FrameStart ==
  /\ Ready /\ view = NoView /\ sticky # {}
  /\ sticky' = {}
  /\ UNCHANGED <<map, bound, queueVars, held, guestVars, gpioVars>>

WriteGpio ==
  /\ Ready
  /\ \E g \in Registers :
       /\ gpio' = g
       /\ drawn' = Redrawn(map, drawn, g)
  /\ UNCHANGED <<map, bound, queueVars, held, sticky, guestVars>>

-----------------------------------------------------------------------------
(* evict_gamepak_page, one candidate at a time, and load_gamepak_page *)

NoBreaker(spins) == sticky

NoRetouch(spins) == IF spins < Slots THEN sticky ELSE {}

(* After a full lap of sticky candidates only the executing page stays so.  *)
StickyAfter(spins) ==
  IF spins < Slots THEN sticky
  ELSE IF pc = NoPc THEN {} ELSE {pc.i}

SwappedLink == [next EXCEPT ![head] = tail]

Rotated == [next EXCEPT ![tail] = head]

(* The head becomes the tail; it is taken unless its page is sticky. *)
Evict ==
  /\ call.stage = "evict"
  /\ head' = next[head]
  /\ next' = Rotated
  /\ tail' = head
  /\ sticky' = StickyAfter(call.spins + 1)
  /\ call' =
       IF phy[head] # Free /\ phy[head] \in sticky'
       THEN [call EXCEPT !.spins = IF @ + 1 < Slots THEN @ + 1 ELSE 0]
       ELSE [call EXCEPT !.stage = "load"]
  /\ UNCHANGED <<map, bound, phy, held, pc, view, gpioVars>>

NotVacated(e) == map

(* The evicted page's entries go first. *)
Vacated(e) == IF phy[e] = Free THEN map ELSE MapRomEntry(map, phy[e], Null)

Load ==
  /\ call.stage = "load"
  /\ LET e == tail
         p == call.at.i % RomPages
         m == MapRomEntry(Vacated(e), p, Slot(e))
         d == [drawn EXCEPT ![Slot(e)] = Raw]
     IN  /\ phy' = [phy EXCEPT ![e] = p]
         /\ held' = [held EXCEPT ![e] = IF GatherRight(p) THEN p ELSE Wrong]
         /\ map' = m
         /\ drawn' = IF p = 0 THEN Redrawn(m, d, gpio) ELSE d
         /\ IF call.use = "execute"
            THEN /\ view' = [ptr |-> Slot(e), off |-> call.at.b]
                 /\ sticky' = Touched(call.at)
            ELSE UNCHANGED <<view, sticky>>
  /\ call' = Idle
  /\ UNCHANGED <<bound, next, head, tail, pc, gpio>>

-----------------------------------------------------------------------------
(* What the storage owner does while the guest is stopped *)

InitialLinks == [s \in SlotIds |-> s + 1]

Emptied ==
  /\ next' = InitialLinks
  /\ head' = 0 /\ tail' = Slots - 1
  /\ phy' = [s \in SlotIds |-> Free]

(* cgba_gamepak_cache_invalidate: the map forgets every page in the cache.  *)
CachedPages == {phy[s] : s \in SlotIds} \ {Free}

NotForgotten == map

Forgotten ==
  [e \in Windows \X Indices |->
     IF /\ e[2] % RomPages \in CachedPages
        /\ e[1] = "lo" \/ e[2] < WindowPages \div 2
     THEN Null ELSE map[e]]

CacheInvalidate ==
  /\ map' = Forgotten
  /\ Emptied
  /\ sticky' = {}

(* cgba_gamepak_unmap_pages: no cartridge address leads anywhere. *)
UnmapPages ==
  /\ bound' = FALSE
  /\ map' = Unmapped
  /\ Emptied
  /\ sticky' = {}

RemapUndrawn ==
  /\ pages[0] # Null
  /\ map' = MapPages(Unmapped, pages)
  /\ Emptied
  /\ sticky' = {}
  /\ UNCHANGED drawn

(* cgba_gamepak_remap_pages, which unmaps first. *)
RemapPages ==
  /\ pages[0] # Null
  /\ map' = MapPages(Unmapped, pages)
  /\ Emptied
  /\ sticky' = {}
  /\ drawn' = Redrawn(map', drawn, gpio)

-----------------------------------------------------------------------------
GuestStep ==
  \/ \E r \in ExecRegions : Execute(r) \/ ExecuteMiss(r) \/ RunTranslated(r)
  \/ \E r \in ReadRegions : ReadMiss(r)
  \/ \E r \in ExecRegions : TranslateMiss(r)
  \/ LeaveCartridge \/ ExecuteRam \/ FrameStart \/ WriteGpio

Resolve == Evict \/ Load

(* load_gamepak_from_pages and init_gamepak_buffer on a fresh start. *)
PagesInit ==
  /\ map = MapPages(Unmapped, pages)
  /\ bound = TRUE
  /\ next = InitialLinks /\ head = 0 /\ tail = Slots - 1
  /\ phy = [s \in SlotIds |-> Free]
  /\ held = [s \in SlotIds |-> Wrong]
  /\ sticky = {}
  /\ pc = NoPc /\ view = NoView /\ call = Idle
  /\ gpio = Hidden
  /\ drawn = [q \in {Shadow} \cup {Slot(s) : s \in SlotIds} |-> Raw]

NorInit ==
  /\ \E l \in Layouts : l.sane /\ disk = [era |-> 0, layout |-> l]
  /\ fd = "rom"
  /\ table = Table("rom") /\ ready = TRUE
  /\ pages = PageTable("rom") /\ shadow = "rom"

Init == NorInit /\ PagesInit

Next == UNCHANGED norVars /\ (GuestStep \/ Resolve)

vars == <<norVars, pageVars>>

(* load_gamepak_page is a C function on the only thread: it runs to its end *)
Spec == Init /\ [][Next]_vars /\ WF_vars(UNCHANGED norVars /\ Resolve)

-----------------------------------------------------------------------------
(* Properties *)

ImagePointers == {Shadow} \cup {Slot(s) : s \in SlotIds}
Pointers ==
  {Null, Alien} \cup ImagePointers \cup {Nor(b, e) : b \in Blocks, e \in 0 .. MaxEra}

(* Every variable has its shape. *)
TypeOK ==
  /\ map \in [Windows \X Indices -> Pointers]
  /\ bound \in BOOLEAN
  /\ next \in [SlotIds -> 0 .. Slots] /\ head \in SlotIds /\ tail \in SlotIds
  /\ phy \in [SlotIds -> Pages \cup {Free}]
  /\ held \in [SlotIds -> Pages \cup {Wrong}]
  /\ sticky \subseteq Indices
  /\ pc \in Regions \cup {NoPc}
  /\ view.ptr \in Pointers /\ view.off \in 0 .. BlocksPerPage - 1
  /\ call.stage \in {"idle", "evict", "load"} /\ call.spins \in 0 .. Slots - 1
  /\ gpio \in Registers
  /\ drawn \in [ImagePointers -> Registers \cup {Raw}]

(* The block of the image that is read at offset off of a host pointer now. *)
Found(ptr, off) ==
  CASE ptr.kind = "nor" /\ NorShows(ptr, off)  -> ptr.n + off
    [] ptr.kind = "shadow" /\ shadow = "rom"  -> off
    [] ptr.kind = "slot" /\ held[ptr.n] # Wrong ->
         held[ptr.n] * BlocksPerPage + off
    [] OTHER -> Wrong

(* The block a cartridge of that size shows in region r. *)
Image(r) == (r.i % RomPages) * BlocksPerPage + r.b

(* Whatever a map entry or the bound table leads to, mirrors included, is   *)
(* the block of the image that belongs there: a page that was evicted is    *)
(* not reachable any more, and none is reachable under a wrong number.      *)
MapFaithful ==
  \A r \in Regions :
    Resolved(r) => Found(Direct(r).ptr, Direct(r).off) = Image(r)

(* While the interpreter executes from the cartridge its cached 4 KiB view  *)
(* still shows the code at the program counter: no data read, DMA or page   *)
(* load in between reuses the slot the view points into.                    *)
ViewFaithful ==
  view # NoView /\ Ready => Found(view.ptr, view.off) = Image(pc)

(* The links lead from head to tail through all the slots, each once,       *)
(* whatever stale links the rotation leaves behind: no slot is lost.        *)
Ordered(order) ==
  /\ order[0] = head /\ order[Slots - 1] = tail
  /\ \A m, n \in SlotIds : order[m] = order[n] => m = n
  /\ \A n \in SlotIds : n < Slots - 1 => next[order[n]] = order[n + 1]

QueueWhole == \E order \in [SlotIds -> SlotIds] : Ordered(order)

(* Page 0 is mapped to RAM or not at all: drawing the GPIO registers into  *)
(* it never writes to flash.                                                *)
GpioInRam == map[PageZero] \in {Null} \cup ImagePointers

(* The registers of a readable GPIO port stand at 0xC4 of the page the      *)
(* guest sees there.                                                        *)
GpioCurrent ==
  map[PageZero] # Null /\ gpio # Hidden => drawn[map[PageZero]] = gpio

(* A page load ends: even when every slot's page has been executed in this  *)
(* frame, the deadlock breaker finds one to evict.                          *)
EvictTerminates == call.stage = "evict" ~> call.stage = "idle"

=============================================================================
