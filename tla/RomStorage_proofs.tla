-------------------------- MODULE RomStorage_proofs --------------------------
(***************************************************************************)
(* What TLC checks of a session on small instances, proved for every image *)
(* and cache, every way the file system moves the image, and any number of *)
(* writes to storage.                                                      *)
(***************************************************************************)
EXTENDS RomStorage, GamepakPages_proofs

(* The flash side, whether or not it is up to date. *)
DiskTyped ==
  /\ disk.layout \in Layouts
  /\ fd \in Fds /\ shadow \in Images /\ ready \in BOOLEAN
  /\ \A p \in Pages : pages[p] \in Pointers /\ pages[p].kind # "slot"

OwnerTyped ==
  /\ step \in Steps
  /\ cause \in {"sync", "save"} /\ after \in {"play", "saving", "loading"}
  /\ gen \in 0 .. MaxWrites /\ seen \in 0 .. gen /\ failed \in BOOLEAN

CacheWhole ==
  /\ MapTyped /\ PhyTyped /\ HeldWhole
  /\ QueueWhole /\ NextTyped
  /\ CallTyped /\ VictimFree
  /\ GuestTyped

(* The interpreter is not active outside the frames. *)
Stopped == step # "play" => Ready /\ view = NoView

(* Entries into the cache name the page their slot holds: what is left of   *)
(* EntriesWhole once the image is closed.                                   *)
SlotEntries ==
  \A e \in Windows \X Indices :
    map[e].kind = "slot" =>
      Below(e) /\ \E s \in SlotIds : map[e] = Slot(s) /\ phy[s] = e[2] % RomPages

(* The map, as far as it can be trusted at each step.                       *)
MapKnown ==
  /\ step \in {"play", "menu", "saving", "written", "loading", "refresh"} =>
       EntriesWhole /\ GpioCurrent
  /\ step \in {"query", "reopen", "bind", "off"} => map = Unmapped
  /\ step \in {"shutdown", "boot"} => SlotEntries

(* The tables are those of the image unless a write is unaccounted for.     *)
FlashKnown ==
  /\ step \in {"play", "saving", "loading"} => InSync
  /\ step \in {"play", "menu", "saving", "loading"} /\ InSync => NorWhole
  /\ step \in {"bind", "install"} => NorWhole
  /\ step \in {"shutdown", "boot", "install"} => ~ failed
  /\ step = "install" => seen = gen

SessionInv ==
  DiskTyped /\ OwnerTyped /\ CacheWhole /\ Stopped /\ MapKnown /\ FlashKnown

-----------------------------------------------------------------------------
(* What the storage owner does to the cache *)

LEMMA EmptiedWhole ==
  ASSUME Emptied
  PROVE  /\ QueueWhole' /\ NextTyped'
         /\ phy' = [s \in SlotIds |-> Free]
<1> DEFINE order == [n \in SlotIds |-> n]
<1>1. order \in [SlotIds -> SlotIds]
  OBVIOUS
<1>2. Ordered(order)'
  BY Sizes DEF Emptied, Ordered, SlotIds, InitialLinks
<1>3. QueueWhole'
  BY <1>1, <1>2 DEF QueueWhole
<1>4. NextTyped'
  BY Sizes DEF Emptied, NextTyped, SlotIds, InitialLinks
<1> QED
  BY <1>3, <1>4 DEF Emptied

(* An empty queue says nothing of the slots' memory. *)
LEMMA EmptySlots ==
  ASSUME phy' = [s \in SlotIds |-> Free], held' \in [SlotIds -> Pages \cup {Wrong}]
  PROVE  PhyTyped' /\ HeldWhole'
BY DEF PhyTyped, HeldWhole

(* cgba_gamepak_cache_invalidate leaves no way into the cache. *)
LEMMA InvalidateHolds ==
  ASSUME CacheInvalidate, MapTyped, EntriesWhole, PhyTyped, DiskTyped, UNCHANGED pages
  PROVE  /\ MapTyped' /\ EntriesWhole'
         /\ map'[PageZero] \in {map[PageZero], Null}
<1>1. MapTyped'
  BY DEF CacheInvalidate, Forgotten, MapTyped, Pointers
<1>2. ASSUME NEW e \in Windows \X Indices
      PROVE  map'[e] = Null \/ map'[e] = pages[e[2] % RomPages]
  <2>1. map'[e] = Null \/ map'[e] = map[e]
    BY DEF CacheInvalidate, Forgotten
  <2>2. ASSUME Below(e), NEW s \in SlotIds, phy[s] = e[2] % RomPages
        PROVE  map'[e] = Null
    <3>1. e[2] % RomPages \in Pages
      BY Sizes
    <3>2. e[2] % RomPages # Free
      BY <3>1, Sizes DEF Pages, Free
    <3>3. e[2] % RomPages \in CachedPages
      BY <2>2, <3>2 DEF CachedPages
    <3> QED
      BY <2>2, <3>3 DEF CacheInvalidate, Forgotten, Below
  <2> QED
    BY <2>1, <2>2 DEF EntriesWhole, EntryWhole
<1>3. EntriesWhole'
  BY <1>2 DEF EntriesWhole, EntryWhole
<1>4. map'[PageZero] \in {map[PageZero], Null}
  BY Sizes DEF CacheInvalidate, Forgotten
<1> QED
  BY <1>1, <1>3, <1>4

(* A map made from the page table alone. *)
LEMMA MappedHolds ==
  ASSUME map' = MapPages(Unmapped, pages), DiskTyped, UNCHANGED pages
  PROVE  MapTyped' /\ EntriesWhole' /\ map'[PageZero] \in {Null, pages[0]}
<1>1. ASSUME NEW e \in Windows \X Indices
      PROVE  map'[e] = Null \/ map'[e] = pages[e[2] % RomPages]
  BY DEF MapPages, Unmapped
<1>2. MapTyped'
  <2>1. \A e \in Windows \X Indices : map'[e] \in Pointers
    BY <1>1, Sizes DEF DiskTyped, Pointers
  <2> QED
    BY <2>1 DEF MapTyped, MapPages
<1>3. EntriesWhole'
  BY <1>1 DEF EntriesWhole, EntryWhole
<1>4. map'[PageZero] \in {Null, pages[0]}
  BY <1>1, Sizes DEF PageZero
<1> QED
  BY <1>2, <1>3, <1>4

(* What GuestTyped and CallTyped say of a stopped guest. *)
LEMMA StoppedTyped ==
  ASSUME CacheWhole, disk'.era \in 0 .. MaxEra, bound' \in BOOLEAN,
         sticky' = {} \/ sticky' = sticky,
         pc' \in ExecRegions \cup {NoPc} \/ pc' = pc,
         UNCHANGED <<view, call>>, Ready,
         gpio' \in Registers,
         drawn' \in [ImagePointers -> Registers \cup {Raw}]
  PROVE  GuestTyped' /\ CallTyped' /\ VictimFree'
<1>1. pc' \in Regions \cup {NoPc}
  BY PagesAssumption DEF CacheWhole, GuestTyped
<1>2. sticky' \subseteq Indices
  BY DEF CacheWhole, GuestTyped
<1>3. GuestTyped'
  BY <1>1, <1>2 DEF CacheWhole, GuestTyped
<1>4. CallTyped'
  BY DEF CacheWhole, CallTyped, Ready
<1>5. VictimFree'
  BY DEF VictimFree, Ready
<1> QED
  BY <1>3, <1>4, <1>5

LEMMA RedrawnTyped ==
  ASSUME drawn \in [ImagePointers -> Registers \cup {Raw}], NEW m, NEW g \in Registers
  PROVE  Redrawn(m, drawn, g) \in [ImagePointers -> Registers \cup {Raw}]
BY DEF Redrawn

(* Drawing the registers makes them current. *)
LEMMA RedrawnShows ==
  ASSUME drawn \in [ImagePointers -> Registers \cup {Raw}], NEW g,
         drawn' = Redrawn(map', drawn, g), gpio' = g,
         map'[PageZero] \in {Null} \cup ImagePointers
  PROVE  GpioCurrent'
BY DEF Redrawn, GpioCurrent

-----------------------------------------------------------------------------
(* What the file system and nor_rom.c do to the tables *)

LEMMA BuildTyped ==
  ASSUME NEW f, Build(f), disk' = disk, disk.era \in 0 .. MaxEra
  PROVE  /\ \A p \in Pages : pages'[p] \in Pointers /\ pages'[p].kind # "slot"
         /\ ready' \in BOOLEAN /\ shadow' \in Images
<1>1. ASSUME NEW p \in Pages
      PROVE  pages'[p] \in Pointers /\ pages'[p].kind # "slot"
  <2>1. \/ pages'[p] \in {Null, Shadow}
        \/ /\ \A b \in BlocksOf(p) : PublishedBlock(f, b) # Null
           /\ pages'[p] = PublishedBlock(f, p * BlocksPerPage)
    BY DEF Build, PageTable, Contiguous
  <2>2. CASE pages'[p] = PublishedBlock(f, p * BlocksPerPage)
    <3>1. p \in Nat /\ p < RomPages
      BY Sizes DEF Pages
    <3>2. p * BlocksPerPage + 0 \in 0 .. RomPages * BlocksPerPage - 1
      BY <3>1, Sizes, BlockBelow
    <3>3. p * BlocksPerPage \in Blocks
      BY <3>1, <3>2, Sizes DEF Blocks, Total
    <3>4. pages'[p] \in {Null, Alien, Nor(p * BlocksPerPage, disk.era)}
      BY <2>2 DEF PublishedBlock
    <3> QED
      BY <3>3, <3>4 DEF Pointers, Null, Alien, Nor, Pointer
  <2> QED
    BY <2>1, <2>2 DEF Pointers, ImagePointers, Null, Shadow, Pointer
<1> QED
  BY <1>1 DEF Build, Gathered, Images

LEMMA BuildHolds ==
  ASSUME NEW f, Build(f), disk' = disk, fd' = f, shadow' = "rom", DiskTyped
  PROVE  NorWhole'
<1>1. f = "rom" /\ disk.layout.sane
  BY DEF Build, Gathered
<1>2. Addressed'
  BY <1>1 DEF Addressed, Build, Table, PageTable, PublishedBlock, Contiguous, BlocksOf
<1> QED
  BY <1>1, <1>2 DEF NorWhole, DiskTyped

NorStep ==
  \/ RefreshRebuilt \/ RefreshThroughFile \/ RefreshFailed
  \/ OpenPath \/ CloseRom \/ Relocate

LEMMA NullTyped == Null \in Pointers /\ Null.kind # "slot"
BY DEF Pointers, Null, Pointer

LEMMA ResetTyped ==
  ASSUME DiskTyped, disk.era \in 0 .. MaxEra,
         fd' = "closed", ResetRom, UNCHANGED disk, UNCHANGED shadow
  PROVE  DiskTyped' /\ disk'.era \in 0 .. MaxEra
<1>1. \A p \in Pages : pages'[p] \in Pointers /\ pages'[p].kind # "slot"
  BY NullTyped DEF ResetRom, NoPages
<1> QED
  BY <1>1 DEF ResetRom, DiskTyped, Fds

LEMMA NorTyped ==
  ASSUME DiskTyped, disk.era \in 0 .. MaxEra, NorStep \/ UNCHANGED norVars
  PROVE  DiskTyped' /\ disk'.era \in 0 .. MaxEra
<1>1. CASE RefreshRebuilt
  BY <1>1, BuildTyped DEF RefreshRebuilt, DiskTyped
<1>2. CASE RefreshThroughFile
  <2>1. \A p \in Pages : pages'[p] \in {Null, Shadow}
    BY <1>2 DEF RefreshThroughFile, NoPages
  <2> QED
    BY <1>2, <2>1 DEF RefreshThroughFile, DiskTyped, Pointers, ImagePointers, Null, Shadow, Pointer
<1>3. CASE RefreshFailed
  BY <1>3 DEF RefreshFailed, norVars, NoPages, DiskTyped, Images, Pointers, Null, Pointer
<1>4. CASE OpenPath
  <2>1. CASE fd' \in {"rom", "other"} /\ Build(fd') /\ UNCHANGED disk
    BY <2>1, BuildTyped DEF DiskTyped, Fds
  <2>2. CASE fd' = "closed" /\ ResetRom /\ UNCHANGED <<disk, shadow, drawn>>
    BY <2>2, ResetTyped
  <2>3. \/ fd' \in {"rom", "other"} /\ Build(fd') /\ UNCHANGED disk
        \/ fd' = "closed" /\ ResetRom /\ UNCHANGED <<disk, shadow, drawn>>
    BY <1>4 DEF OpenPath
  <2> QED
    BY <2>1, <2>2, <2>3
<1>5. CASE CloseRom
  BY <1>5, ResetTyped DEF CloseRom
<1>6. CASE Relocate
  <2>1. PICK l \in Layouts : disk' = [era |-> disk.era + 1, layout |-> l]
    BY <1>6 DEF Relocate
  <2>2. disk'.era \in 0 .. MaxEra /\ disk'.layout \in Layouts
    BY <1>6, <2>1, RomAssumption DEF Relocate
  <2> QED
    BY <1>6, <2>2 DEF Relocate, DiskTyped, Fds
<1>7. CASE UNCHANGED norVars
  BY <1>7 DEF norVars, DiskTyped
<1> QED
  BY <1>1, <1>2, <1>3, <1>4, <1>5, <1>6, <1>7 DEF NorStep

(* cgba_nor_rom_refresh or a new open, when the header is the one first     *)
(* seen: the tables are the image's.                                        *)
LEMMA HeaderHolds ==
  ASSUME DiskTyped, RefreshRebuilt \/ RefreshThroughFile \/ OpenPath, HeaderMatches
  PROVE  NorWhole'
<1>1. CASE RefreshRebuilt
  BY <1>1, BuildHolds DEF RefreshRebuilt, HeaderMatches
<1>2. CASE RefreshThroughFile
  <2>1. ThroughFile'
    BY <1>2 DEF RefreshThroughFile, ThroughFile, NoTable, NoPages
  <2> QED
    BY <1>2, <2>1 DEF RefreshThroughFile, HeaderMatches, NorWhole, DiskTyped
<1>3. CASE OpenPath
  <2>1. 0 \in Pages
    BY Sizes
  <2>2. fd' \in {"rom", "other"} /\ Build(fd') /\ UNCHANGED disk
    BY <1>3, <2>1 DEF OpenPath, ResetRom, NoPages, HeaderMatches
  <2> QED
    BY <2>2, BuildHolds DEF HeaderMatches
<1> QED
  BY <1>1, <1>2, <1>3

-----------------------------------------------------------------------------
(* One step of a session *)

LEMMA CacheKept ==
  ASSUME CacheWhole, bound' \in BOOLEAN, disk'.era \in 0 .. MaxEra,
         drawn' \in [ImagePointers -> Registers \cup {Raw}],
         UNCHANGED <<map, queueVars, held, sticky, guestVars, gpio>>
  PROVE  CacheWhole'
<1>1. MapTyped' /\ PhyTyped' /\ HeldWhole' /\ NextTyped'
  BY DEF CacheWhole, MapTyped, PhyTyped, HeldWhole, NextTyped, queueVars
<1>2. QueueWhole'
  BY QueueStays DEF CacheWhole, queueVars
<1>3. CallTyped' /\ VictimFree'
  BY DEF CacheWhole, CallTyped, VictimFree, Ready, queueVars, guestVars
<1>4. GuestTyped'
  BY DEF CacheWhole, GuestTyped, guestVars
<1> QED
  BY <1>1, <1>2, <1>3, <1>4 DEF CacheWhole

LEMMA CacheStays ==
  ASSUME CacheWhole, bound' \in BOOLEAN, disk'.era \in 0 .. MaxEra,
         UNCHANGED <<map, queueVars, held, sticky, guestVars, gpioVars>>
  PROVE  CacheWhole'
<1>1. drawn' \in [ImagePointers -> Registers \cup {Raw}] /\ UNCHANGED gpio
  BY DEF CacheWhole, GuestTyped, gpioVars
<1> QED
  BY <1>1, CacheKept

(* Page 0's buffer is gathered again, or nothing is drawn or wiped.         *)
LEMMA SearchDraws ==
  ASSUME CacheWhole, RefreshRebuilt \/ RefreshThroughFile \/ RefreshFailed \/ OpenPath
  PROVE  drawn' \in [ImagePointers -> Registers \cup {Raw}]
<1>1. drawn \in [ImagePointers -> Registers \cup {Raw}]
  BY DEF CacheWhole, GuestTyped
<1>2. drawn' = Regathered \/ drawn' = drawn
  BY DEF RefreshRebuilt, RefreshThroughFile, RefreshFailed, OpenPath, Build
<1> QED
  BY <1>1, <1>2 DEF Regathered

LEMMA EntriesStay ==
  ASSUME UNCHANGED <<map, phy>>
  PROVE  /\ EntriesWhole /\ UNCHANGED pages => EntriesWhole'
         /\ SlotEntries => SlotEntries'
         /\ GpioCurrent /\ UNCHANGED gpioVars => GpioCurrent'
BY DEF EntriesWhole, EntryWhole, SlotEntries, GpioCurrent, gpioVars

LEMMA PlayingWhole ==
  ASSUME SessionInv, step = "play"
  PROVE  PagesInv /\ GuestTyped
<1>1. NorWhole /\ EntriesWhole /\ GpioCurrent
  BY DEF SessionInv, FlashKnown, MapKnown
<1>2. GpioTyped
  BY DEF SessionInv, CacheWhole, GuestTyped, GpioTyped
<1> QED
  BY <1>1, <1>2 DEF SessionInv, CacheWhole, PagesInv, FlashAndSlots

LEMMA PlayStep ==
  ASSUME SessionInv, Play
  PROVE  SessionInv'
<1>1. step = "play" /\ PagesInv /\ GuestTyped /\ UNCHANGED norVars
  BY PlayingWhole DEF Play
<1>2. PagesInv' /\ GuestTyped'
  BY <1>1, GuestHolds, EvictHolds, LoadHolds, GuestTypedStep, ResolveTypedStep DEF Play, Resolve
<1>3. DiskTyped'
  BY <1>1, NorTyped DEF SessionInv, GuestTyped
<1>4. OwnerTyped' /\ step' = "play" /\ (InSync <=> InSync')
  BY <1>1 DEF SessionInv, OwnerTyped, Play, ownerVars, InSync
<1>5. CacheWhole' /\ EntriesWhole' /\ GpioCurrent' /\ NorWhole'
  BY <1>2 DEF CacheWhole, PagesInv, FlashAndSlots
<1> QED
  BY <1>1, <1>3, <1>4, <1>5 DEF SessionInv, Stopped, MapKnown, FlashKnown

(* The loop moves on and touches neither flash nor cache. *)
LEMMA LoopStep ==
  ASSUME SessionInv, MenuOpen \/ MenuClose \/ SaveKey \/ LoadKey \/ Quit
  PROVE  SessionInv'
<1>1. UNCHANGED <<norVars, pageVars, gen, seen, failed>>
  BY DEF MenuOpen, MenuClose, SaveKey, LoadKey, Quit, Owner
<1>2. step \in {"play", "menu"} /\ Ready /\ view = NoView
  BY DEF SessionInv, Stopped, MenuOpen, MenuClose, SaveKey, LoadKey, Quit, Between
<1>3. /\ step' \in {"menu", "play", "saving", "loading", "refresh", "over"}
      /\ step' \in {"play", "saving", "loading"} => InSync
      /\ cause' \in {"sync", "save"} /\ after' \in {"play", "saving", "loading"}
  BY <1>2 DEF MenuOpen, MenuClose, SaveKey, LoadKey, Quit, Owner, Between,
              SessionInv, OwnerTyped, FlashKnown
<1>4. DiskTyped' /\ CacheWhole'
  BY <1>1, NorTyped, CacheStays
     DEF SessionInv, CacheWhole, GuestTyped, pageVars, norVars
<1>5. OwnerTyped' /\ (InSync <=> InSync')
  BY <1>1, <1>3 DEF SessionInv, OwnerTyped, Steps, InSync
<1>6. EntriesWhole' /\ GpioCurrent'
  BY <1>1, <1>2, EntriesStay DEF SessionInv, MapKnown, norVars, pageVars, queueVars
<1>7. InSync => NorWhole'
  BY <1>1, <1>2, NorStays DEF SessionInv, FlashKnown
<1>8. Stopped'
  BY <1>1, <1>2 DEF Stopped, Ready, pageVars, guestVars
<1> QED
  BY <1>3, <1>4, <1>5, <1>6, <1>7, <1>8 DEF SessionInv, MapKnown, FlashKnown

LEMMA WriteHolds ==
  ASSUME DiskTyped, OwnerTyped, disk.era \in 0 .. MaxEra, Write
  PROVE  /\ DiskTyped' /\ disk'.era \in 0 .. MaxEra
         /\ UNCHANGED pages
         /\ gen' \in 0 .. MaxWrites /\ gen' = gen + 1 /\ gen \in Nat
<1>1. DiskTyped' /\ disk'.era \in 0 .. MaxEra
  BY NorTyped DEF Write, NorStep
<1>2. UNCHANGED pages
  BY DEF Write, Relocate, norVars
<1> QED
  BY <1>1, <1>2, WritesAssumption DEF Write, OwnerTyped

LEMMA ConfigStep ==
  ASSUME SessionInv, ConfigSave
  PROVE  SessionInv'
<1>1. DiskTyped' /\ disk'.era \in 0 .. MaxEra /\ UNCHANGED pages
  BY WriteHolds DEF ConfigSave, SessionInv, CacheWhole, GuestTyped
<1>2. OwnerTyped' /\ step' = "menu" /\ ~ InSync'
  BY WriteHolds DEF ConfigSave, SessionInv, OwnerTyped, CacheWhole, GuestTyped, InSync
<1>3. CacheWhole' /\ Stopped'
  BY <1>1, CacheStays
     DEF ConfigSave, SessionInv, Stopped, Ready, pageVars, guestVars, CacheWhole, GuestTyped
<1>4. EntriesWhole' /\ GpioCurrent'
  BY <1>1, EntriesStay DEF ConfigSave, SessionInv, MapKnown, pageVars, queueVars
<1> QED
  BY <1>1, <1>2, <1>3, <1>4 DEF SessionInv, MapKnown, FlashKnown

-----------------------------------------------------------------------------
(* The three steps that throw the cache away and keep the map otherwise.    *)
LEMMA InvalidateStep ==
  ASSUME SessionInv, CacheInvalidate,
         step \in {"saving", "written", "loading"},
         UNCHANGED <<pages, view, call, bound>>,
         held' \in [SlotIds -> Pages \cup {Wrong}],
         disk'.era \in 0 .. MaxEra,
         pc' \in ExecRegions \cup {NoPc} \/ pc' = pc,
         gpio' \in Registers,
         drawn' \in [ImagePointers -> Registers \cup {Raw}]
  PROVE  /\ CacheWhole' /\ EntriesWhole' /\ Stopped'
         /\ UNCHANGED gpioVars => GpioCurrent'
<1>0. Ready /\ view = NoView /\ EntriesWhole /\ GpioCurrent
  BY DEF SessionInv, Stopped, MapKnown
<1>1. /\ MapTyped' /\ EntriesWhole'
      /\ map'[PageZero] \in {map[PageZero], Null}
  BY <1>0, InvalidateHolds DEF SessionInv, CacheWhole
<1>2. QueueWhole' /\ NextTyped' /\ PhyTyped' /\ HeldWhole'
  BY EmptiedWhole, EmptySlots DEF CacheInvalidate
<1>3. GuestTyped' /\ CallTyped' /\ VictimFree'
  BY <1>0, StoppedTyped DEF SessionInv, CacheWhole, GuestTyped, CacheInvalidate
<1>4. UNCHANGED gpioVars => GpioCurrent'
  BY <1>0, <1>1 DEF GpioCurrent, gpioVars
<1> QED
  BY <1>0, <1>1, <1>2, <1>3, <1>4 DEF CacheWhole, Stopped, Ready

LEMMA SaveStep ==
  ASSUME SessionInv, SaveState \/ SaveRelease
  PROVE  SessionInv'
<1>1. CASE SaveState
  <2>1. DiskTyped' /\ disk'.era \in 0 .. MaxEra /\ UNCHANGED pages
    BY <1>1, WriteHolds DEF SaveState, SessionInv, CacheWhole, GuestTyped
  <2>2. OwnerTyped' /\ step' = "written"
    BY <1>1, WriteHolds DEF SaveState, SessionInv, OwnerTyped, Steps, CacheWhole, GuestTyped
  <2>3. held' \in [SlotIds -> Pages \cup {Wrong}]
    BY <1>1 DEF SaveState, Scribbled
  <2>4. /\ gpio' \in Registers /\ drawn' \in [ImagePointers -> Registers \cup {Raw}]
        /\ UNCHANGED gpioVars /\ UNCHANGED <<pc, view, call, bound>> /\ step = "saving"
        /\ CacheInvalidate
    BY <1>1 DEF SaveState, SessionInv, CacheWhole, GuestTyped, gpioVars, guestVars
  <2>5. CacheWhole' /\ EntriesWhole' /\ Stopped' /\ GpioCurrent'
    BY <2>1, <2>3, <2>4, InvalidateStep
  <2> QED
    BY <2>1, <2>2, <2>5 DEF SessionInv, MapKnown, FlashKnown
<1>2. CASE SaveRelease
  <2>1. DiskTyped' /\ disk'.era \in 0 .. MaxEra /\ UNCHANGED pages
    BY <1>2, NorTyped DEF SaveRelease, SessionInv, CacheWhole, GuestTyped, norVars
  <2>2. OwnerTyped' /\ step' = "refresh"
    BY <1>2 DEF SaveRelease, SessionInv, OwnerTyped, Steps
  <2>3. held' \in [SlotIds -> Pages \cup {Wrong}]
    BY <1>2 DEF SaveRelease, SessionInv, CacheWhole, PhyTyped
  <2>4. /\ gpio' \in Registers /\ drawn' \in [ImagePointers -> Registers \cup {Raw}]
        /\ UNCHANGED gpioVars /\ UNCHANGED <<pc, view, call, bound>> /\ step = "written"
        /\ CacheInvalidate
    BY <1>2 DEF SaveRelease, SessionInv, CacheWhole, GuestTyped, gpioVars, guestVars
  <2>5. CacheWhole' /\ EntriesWhole' /\ Stopped' /\ GpioCurrent'
    BY <2>1, <2>3, <2>4, InvalidateStep
  <2> QED
    BY <2>1, <2>2, <2>5 DEF SessionInv, MapKnown, FlashKnown
<1> QED
  BY <1>1, <1>2

LEMMA LoadStep ==
  ASSUME SessionInv, LoadState
  PROVE  SessionInv'
<1>1. UNCHANGED norVars /\ step = "loading" /\ step' = "play" /\ CacheInvalidate
  BY DEF LoadState
<1>2. DiskTyped' /\ disk'.era \in 0 .. MaxEra /\ UNCHANGED pages
  BY <1>1, NorTyped DEF SessionInv, CacheWhole, GuestTyped, norVars
<1>3. OwnerTyped' /\ InSync' /\ NorWhole'
  BY <1>1, NorStays DEF LoadState, SessionInv, OwnerTyped, Steps, FlashKnown, InSync
<1>4. held' \in [SlotIds -> Pages \cup {Wrong}]
  BY DEF LoadState, Scribbled
<1>5. gpio' \in Registers /\ drawn' \in [ImagePointers -> Registers \cup {Raw}]
  BY RedrawnTyped DEF LoadState, SessionInv, CacheWhole, GuestTyped, gpioVars
<1>6. /\ CacheWhole' /\ EntriesWhole' /\ Stopped'
      /\ UNCHANGED gpioVars => GpioCurrent'
  BY <1>1, <1>2, <1>4, <1>5, InvalidateStep DEF LoadState
<1>7. GpioCurrent'
  <2>1. map'[PageZero] \in {Null} \cup ImagePointers
    <3>1. map[PageZero] \in {Null} \cup ImagePointers
      BY <1>1, ZeroInRam DEF SessionInv, FlashKnown, MapKnown
    <3>2. map'[PageZero] \in {map[PageZero], Null}
      BY <1>1, <1>2, InvalidateHolds DEF SessionInv, CacheWhole, MapKnown
    <3> QED
      BY <3>1, <3>2
  <2>2. \/ drawn' = Redrawn(map', drawn, gpio')
        \/ UNCHANGED gpioVars
    BY DEF LoadState
  <2>3. CASE drawn' = Redrawn(map', drawn, gpio')
    BY <2>1, <2>3, RedrawnShows DEF SessionInv, CacheWhole, GuestTyped
  <2> QED
    BY <1>6, <2>2, <2>3
<1> QED
  BY <1>1, <1>2, <1>3, <1>6, <1>7 DEF SessionInv, MapKnown, FlashKnown

-----------------------------------------------------------------------------
LEMMA UnmapStep ==
  ASSUME SessionInv, RefreshBegin
  PROVE  SessionInv'
<1>1. /\ UNCHANGED norVars /\ step = "refresh" /\ step' = "query"
      /\ UnmapPages /\ UNCHANGED <<held, guestVars, gpioVars>>
  BY DEF RefreshBegin, Owner
<1>2. Ready /\ view = NoView
  BY <1>1 DEF SessionInv, Stopped
<1>3. DiskTyped' /\ disk'.era \in 0 .. MaxEra
  BY <1>1, NorTyped DEF SessionInv, CacheWhole, GuestTyped
<1>4. OwnerTyped'
  BY DEF RefreshBegin, Owner, SessionInv, OwnerTyped, Steps
<1>5. MapTyped' /\ map' = Unmapped
  BY <1>1, NullTyped DEF UnmapPages, MapTyped, Unmapped
<1>6. QueueWhole' /\ NextTyped' /\ PhyTyped' /\ HeldWhole'
  BY <1>1, EmptiedWhole, EmptySlots DEF UnmapPages, SessionInv, CacheWhole, PhyTyped
<1>7. GuestTyped' /\ CallTyped' /\ VictimFree'
  BY <1>1, <1>2, <1>3, StoppedTyped
     DEF SessionInv, CacheWhole, GuestTyped, UnmapPages, guestVars, gpioVars
<1>8. Stopped'
  BY <1>1, <1>2 DEF Stopped, Ready, guestVars
<1> QED
  BY <1>1, <1>3, <1>4, <1>5, <1>6, <1>7, <1>8
     DEF SessionInv, CacheWhole, MapKnown, FlashKnown

(* The image is looked for again; the cache is empty, nothing is mapped.    *)
LEMMA SearchStep ==
  ASSUME SessionInv, Query \/ Reopen
  PROVE  SessionInv'
<1>1. /\ step \in {"query", "reopen"} /\ step' \in {"bind", "reopen", "off"}
      /\ UNCHANGED <<cacheVars, cause, after, gen, seen, failed>>
  BY DEF Query, Reopen, Owner
<1>2. NorStep
  BY DEF Query, Reopen, NorStep
<1>3. step' = "bind" => NorWhole'
  BY HeaderHolds DEF Query, Reopen, Owner, SessionInv
<1>4. DiskTyped' /\ disk'.era \in 0 .. MaxEra
  BY <1>2, NorTyped DEF SessionInv, CacheWhole, GuestTyped
<1>5. OwnerTyped'
  BY <1>1 DEF SessionInv, OwnerTyped, Steps
<1>6. CacheWhole'
  <2>1. drawn' \in [ImagePointers -> Registers \cup {Raw}]
    BY SearchDraws DEF SessionInv, Query, Reopen
  <2>2. CacheWhole /\ bound' \in BOOLEAN
    BY <1>1 DEF SessionInv, CacheWhole, GuestTyped, cacheVars
  <2> QED
    BY <1>1, <1>4, <2>1, <2>2, CacheKept DEF cacheVars
<1>7. Stopped' /\ map' = Unmapped
  BY <1>1 DEF SessionInv, Stopped, MapKnown, Ready, cacheVars, guestVars
<1> QED
  BY <1>1, <1>3, <1>4, <1>5, <1>6, <1>7 DEF SessionInv, MapKnown, FlashKnown

LEMMA BindStep ==
  ASSUME SessionInv, Bind
  PROVE  SessionInv'
<1>1. /\ UNCHANGED norVars /\ step = "bind" /\ step' \in {"play", "saving", "loading"}
      /\ RemapPages /\ UNCHANGED <<held, guestVars, gpio>>
  BY DEF Bind, SessionInv, OwnerTyped
<1>2. Ready /\ view = NoView /\ NorWhole
  BY <1>1 DEF SessionInv, Stopped, FlashKnown
<1>3. DiskTyped' /\ disk'.era \in 0 .. MaxEra /\ NorWhole' /\ UNCHANGED pages
  BY <1>1, <1>2, NorTyped, NorStays DEF SessionInv, CacheWhole, GuestTyped, norVars
<1>4. OwnerTyped' /\ InSync'
  <2>1. UNCHANGED <<cause, after, gen>> /\ failed' = FALSE /\ seen' = gen /\ gen \in 0 .. gen
    BY WritesAssumption DEF Bind, SessionInv, OwnerTyped
  <2> QED
    BY <1>1, <2>1 DEF SessionInv, OwnerTyped, Steps, InSync
<1>5. MapTyped' /\ EntriesWhole' /\ map'[PageZero] \in {Null, Shadow}
  BY <1>1, <1>2, <1>3, MappedHolds, PageZeroShadow DEF RemapPages, SessionInv
<1>6. QueueWhole' /\ NextTyped' /\ PhyTyped' /\ HeldWhole'
  BY <1>1, EmptiedWhole, EmptySlots DEF RemapPages, SessionInv, CacheWhole, PhyTyped
<1>7. drawn' \in [ImagePointers -> Registers \cup {Raw}] /\ gpio' \in Registers
  BY <1>1, RedrawnTyped DEF RemapPages, SessionInv, CacheWhole, GuestTyped
<1>8. GuestTyped' /\ CallTyped' /\ VictimFree'
  <2>1. bound' \in BOOLEAN /\ sticky' = {} /\ UNCHANGED <<view, call, pc>>
    BY <1>1 DEF Bind, RemapPages, SessionInv, DiskTyped, guestVars
  <2> QED
    BY <1>2, <1>3, <1>7, <2>1, StoppedTyped DEF SessionInv
<1>9. GpioCurrent'
  BY <1>1, <1>5, RedrawnShows DEF RemapPages, SessionInv, CacheWhole, GuestTyped, ImagePointers
<1>10. Stopped'
  BY <1>1, <1>2 DEF Stopped, Ready, guestVars
<1> QED
  BY <1>1, <1>3, <1>4, <1>5, <1>6, <1>8, <1>9, <1>10
     DEF SessionInv, CacheWhole, MapKnown, FlashKnown

LEMMA FailStep ==
  ASSUME SessionInv, MappingFailed
  PROVE  SessionInv'
<1>1. /\ UNCHANGED norVars /\ step = "off" /\ step' \in {"over", "refresh"}
      /\ UNCHANGED <<map, queueVars, held, sticky, guestVars, gpioVars>>
  BY DEF MappingFailed
<1>2. DiskTyped' /\ disk'.era \in 0 .. MaxEra
  BY <1>1, NorTyped DEF SessionInv, CacheWhole, GuestTyped
<1>3. OwnerTyped'
  BY <1>1 DEF MappingFailed, SessionInv, OwnerTyped, Steps
<1>4. CacheWhole'
  BY <1>1, <1>2, CacheStays DEF MappingFailed, SessionInv
<1>5. Stopped' /\ map' = Unmapped
  BY <1>1 DEF SessionInv, Stopped, MapKnown, Ready, guestVars
<1>6. EntriesWhole' /\ GpioCurrent'
  BY <1>5, Sizes DEF Unmapped, EntriesWhole, EntryWhole, GpioCurrent
<1> QED
  BY <1>1, <1>2, <1>3, <1>4, <1>5, <1>6 DEF SessionInv, MapKnown, FlashKnown

-----------------------------------------------------------------------------
LEMMA SlotsNamed ==
  ASSUME EntriesWhole, \A p \in Pages : pages[p].kind # "slot"
  PROVE  SlotEntries
<1> SUFFICES ASSUME NEW e \in Windows \X Indices, map[e].kind = "slot"
             PROVE  Below(e) /\ \E s \in SlotIds : map[e] = Slot(s) /\ phy[s] = e[2] % RomPages
  BY DEF SlotEntries
<1>1. EntryWhole(e) /\ map[e] # Null /\ map[e] # pages[e[2] % RomPages]
  BY NullTyped, Sizes DEF EntriesWhole
<1> QED
  BY <1>1 DEF EntryWhole

LEMMA ShutdownStep ==
  ASSUME SessionInv, Shutdown
  PROVE  SessionInv'
<1>1. /\ CloseRom /\ step = "menu" /\ step' = "shutdown" /\ ~ failed' /\ bound' = FALSE
      /\ UNCHANGED <<map, queueVars, held, sticky, guestVars, gpioVars>>
  BY DEF Shutdown
<1>2. DiskTyped' /\ disk'.era \in 0 .. MaxEra
  BY <1>1, NorTyped DEF NorStep, SessionInv, CacheWhole, GuestTyped
<1>3. OwnerTyped'
  BY <1>1 DEF Shutdown, SessionInv, OwnerTyped, Steps
<1>4. CacheWhole'
  BY <1>1, <1>2, CacheStays DEF SessionInv
<1>5. Stopped'
  BY <1>1 DEF SessionInv, Stopped, Ready, guestVars
<1>6. SlotEntries'
  <2>1. EntriesWhole /\ \A p \in Pages : pages[p].kind # "slot"
    BY <1>1 DEF SessionInv, MapKnown, DiskTyped
  <2>2. SlotEntries
    BY <2>1, SlotsNamed
  <2> QED
    BY <1>1, <2>2, EntriesStay DEF queueVars
<1> QED
  BY <1>1, <1>2, <1>3, <1>4, <1>5, <1>6 DEF SessionInv, MapKnown, FlashKnown

LEMMA FlushStep ==
  ASSUME SessionInv, BackupFlush
  PROVE  SessionInv'
<1>1. /\ step = "shutdown" /\ step' = "boot" /\ UNCHANGED <<pageVars, cause, after, failed>>
      /\ seen' = gen'
      /\ Write \/ UNCHANGED <<norVars, gen>>
  BY DEF BackupFlush
<1>2. DiskTyped' /\ disk'.era \in 0 .. MaxEra
  BY <1>1, WriteHolds, NorTyped DEF SessionInv, CacheWhole, GuestTyped
<1>3. OwnerTyped'
  <2>1. gen' \in 0 .. MaxWrites /\ seen' \in 0 .. gen'
    BY <1>1, WriteHolds, WritesAssumption DEF SessionInv, CacheWhole, GuestTyped, OwnerTyped
  <2> QED
    BY <1>1, <2>1 DEF SessionInv, OwnerTyped, Steps
<1>4. CacheWhole'
  BY <1>1, <1>2, CacheStays DEF SessionInv, CacheWhole, GuestTyped, pageVars
<1>5. Stopped'
  BY <1>1 DEF SessionInv, Stopped, Ready, pageVars, guestVars
<1>6. SlotEntries'
  BY <1>1, EntriesStay DEF SessionInv, MapKnown, pageVars, queueVars
<1> QED
  BY <1>1, <1>2, <1>3, <1>4, <1>5, <1>6 DEF SessionInv, MapKnown, FlashKnown

LEMMA BootStep ==
  ASSUME SessionInv, Boot
  PROVE  SessionInv'
<1>1. /\ step = "boot" /\ step' \in {"install", "over"} /\ OpenPath /\ Emptied
      /\ step' = "install" => fd' = "rom" /\ disk.layout.sane
      /\ seen' = gen
      /\ UNCHANGED <<map, bound, held, sticky, guestVars, gpio, cause, after, gen, failed>>
  BY DEF Boot
<1>2. DiskTyped' /\ disk'.era \in 0 .. MaxEra
  BY <1>1, NorTyped DEF NorStep, SessionInv, CacheWhole, GuestTyped
<1>3. OwnerTyped'
  <2>1. gen \in 0 .. gen
    BY WritesAssumption DEF SessionInv, OwnerTyped
  <2> QED
    BY <1>1, <2>1 DEF SessionInv, OwnerTyped, Steps
<1>4. QueueWhole' /\ NextTyped' /\ PhyTyped' /\ HeldWhole' /\ MapTyped'
  BY <1>1, EmptiedWhole, EmptySlots DEF SessionInv, CacheWhole, PhyTyped, MapTyped
<1>5. Ready /\ view = NoView
  BY <1>1 DEF SessionInv, Stopped
<1>6. GuestTyped' /\ CallTyped' /\ VictimFree'
  <2>1. drawn' \in [ImagePointers -> Registers \cup {Raw}]
    BY <1>1, SearchDraws DEF SessionInv
  <2> QED
    BY <1>1, <1>2, <1>5, <2>1, StoppedTyped DEF SessionInv, CacheWhole, GuestTyped, guestVars
<1>7. Stopped'
  BY <1>1, <1>5 DEF Stopped, Ready, guestVars
<1>8. step' = "install" => NorWhole'
  <2> SUFFICES ASSUME step' = "install" PROVE NorWhole'
    OBVIOUS
  <2>1. fd' = "rom" /\ Build("rom") /\ disk' = disk
    BY <1>1 DEF OpenPath
  <2>2. shadow' = "rom"
    BY <1>1, <2>1 DEF Build, Gathered
  <2> QED
    BY <2>1, <2>2, BuildHolds DEF SessionInv
<1> QED
  BY <1>1, <1>2, <1>3, <1>4, <1>6, <1>7, <1>8
     DEF SessionInv, CacheWhole, MapKnown, FlashKnown

LEMMA InstallStep ==
  ASSUME SessionInv, Install
  PROVE  SessionInv'
<1>1. /\ UNCHANGED <<norVars, queueVars, held, sticky, view, call, cause, after, gen, seen, failed>>
      /\ step = "install" /\ step' = "play" /\ bound' = ready
      /\ map' = MapPages(Unmapped, pages) /\ drawn' = Redrawn(map', drawn, gpio)
      /\ gpio' = Hidden /\ pc' = NoPc
  BY DEF Install, Owner
<1>2. Ready /\ view = NoView /\ NorWhole /\ InSync
  BY <1>1 DEF SessionInv, Stopped, FlashKnown, InSync
<1>3. DiskTyped' /\ disk'.era \in 0 .. MaxEra /\ NorWhole' /\ UNCHANGED pages
  BY <1>1, <1>2, NorTyped, NorStays DEF SessionInv, CacheWhole, GuestTyped, norVars
<1>4. OwnerTyped' /\ InSync'
  BY <1>1, <1>2 DEF SessionInv, OwnerTyped, Steps, InSync
<1>5. MapTyped' /\ EntriesWhole'
  BY <1>1, <1>3, MappedHolds DEF SessionInv
<1>6. QueueWhole' /\ NextTyped' /\ PhyTyped' /\ HeldWhole'
  BY <1>1, QueueStays DEF SessionInv, CacheWhole, PhyTyped, HeldWhole, NextTyped, queueVars
<1>7. GuestTyped' /\ CallTyped' /\ VictimFree'
  <2>1. drawn' \in [ImagePointers -> Registers \cup {Raw}] /\ gpio' \in Registers
    BY <1>1, RedrawnTyped, PagesAssumption DEF SessionInv, CacheWhole, GuestTyped
  <2>2. bound' \in BOOLEAN
    BY <1>1 DEF SessionInv, DiskTyped
  <2> QED
    BY <1>1, <1>2, <1>3, <2>1, <2>2, StoppedTyped DEF SessionInv
<1>8. GpioCurrent'
  BY <1>1 DEF GpioCurrent
<1>9. Stopped'
  BY <1>1 DEF Stopped
<1> QED
  BY <1>1, <1>3, <1>4, <1>5, <1>6, <1>7, <1>8, <1>9
     DEF SessionInv, CacheWhole, MapKnown, FlashKnown

-----------------------------------------------------------------------------
(* The invariant *)

LEMMA SessionStart == SessionInit => SessionInv
<1> SUFFICES ASSUME SessionInit PROVE SessionInv
  OBVIOUS
<1>1. PagesInv /\ GuestTyped
  BY InitHolds, GuestTypedInit DEF SessionInit
<1>2. DiskTyped
  <2>1. fd = "rom" /\ shadow = "rom" /\ ready = TRUE /\ disk.layout \in Layouts
    BY DEF SessionInit, Init, NorInit
  <2>2. \A p \in Pages : pages[p].kind # "slot"
    <3>1. \A p \in Pages : pages[p] # Null => pages[p].kind # "slot"
      BY <1>1, PageShows, Sizes DEF PagesInv, FlashAndSlots
    <3> QED
      BY <3>1, NullTyped
  <2>3. \A p \in Pages : pages[p] \in Pointers
    BY PageTableTyped DEF SessionInit
  <2> QED
    BY <2>1, <2>2, <2>3 DEF DiskTyped, Fds, Images
<1>3. OwnerTyped /\ step = "play" /\ InSync
  <2>1. 0 \in 0 .. MaxWrites /\ 0 \in 0 .. 0
    BY WritesAssumption
  <2> QED
    BY <2>1 DEF SessionInit, StorageInit, OwnerTyped, Steps, InSync
<1> QED
  BY <1>1, <1>2, <1>3
     DEF SessionInv, CacheWhole, PagesInv, FlashAndSlots, Stopped, MapKnown, FlashKnown

LEMMA SessionStep == SessionInv /\ [SessionNext]_allVars => SessionInv'
<1> SUFFICES ASSUME SessionInv, [SessionNext]_allVars PROVE SessionInv'
  OBVIOUS
<1>1. CASE SessionNext
  BY <1>1, PlayStep, LoopStep, ConfigStep, SaveStep, LoadStep, UnmapStep, SearchStep, BindStep,
     FailStep, ShutdownStep, FlushStep, BootStep, InstallStep DEF SessionNext, Refresh
<1>2. CASE UNCHANGED allVars
  <2>1. DiskTyped' /\ CacheWhole'
    BY <1>2, NorTyped, CacheStays DEF SessionInv, CacheWhole, GuestTyped, allVars, pageVars
  <2>2. OwnerTyped' /\ Stopped' /\ (InSync <=> InSync') /\ step' = step
    BY <1>2 DEF SessionInv, OwnerTyped, Stopped, Ready, InSync, allVars, pageVars, guestVars, ownerVars
  <2>3. (NorWhole => NorWhole') /\ map' = map
    BY <1>2, NorStays DEF allVars, pageVars
  <2>4. /\ EntriesWhole => EntriesWhole'
        /\ SlotEntries => SlotEntries'
        /\ GpioCurrent => GpioCurrent'
    BY <1>2, EntriesStay DEF allVars, pageVars, norVars, queueVars
  <2> QED
    BY <1>2, <2>1, <2>2, <2>3, <2>4
       DEF SessionInv, MapKnown, FlashKnown, allVars, ownerVars
<1> QED
  BY <1>1, <1>2

(* Whatever the user does between the frames and however the file system    *)
(* answers, what is mapped, published and cached is known at every step.    *)
THEOREM SessionInvHolds == SessionSpec => []SessionInv
BY SessionStart, SessionStep, PTL DEF SessionSpec

(* The guest is resumed only when every write to storage is accounted for   *)
(* and the mapping has not failed (cgba_gpsp_storage_sync).                 *)
THEOREM InSyncHolds == SessionSpec => []PlaysInSync
<1>1. SessionInv => PlaysInSync
  BY DEF SessionInv, FlashKnown, InSync, PlaysInSync
<1> QED
  BY <1>1, SessionInvHolds, PTL

(* While it plays, a readable GPIO port shows the registers: whatever read  *)
(* page 0's own bytes over them drew them again before the guest went on.   *)
THEOREM RegistersHold == SessionSpec => []PlaysTheRegisters
<1>1. SessionInv => PlaysTheRegisters
  BY DEF SessionInv, MapKnown, PlaysTheRegisters
<1> QED
  BY <1>1, SessionInvHolds, PTL

(* While it plays, every cartridge address leads to the image where it lies *)
(* now, and every page can be gathered from there: no stale flash address   *)
(* and no dead descriptor survives a write, a refresh or a reset.           *)
THEOREM ImageHolds == SessionSpec => []PlaysTheImage
<1>1. SessionInv => PlaysTheImage
  <2> SUFFICES ASSUME SessionInv, step = "play"
               PROVE  MapFaithful /\ \A p \in Pages : GatherRight(p)
    BY DEF PlaysTheImage
  <2>1. PagesInv
    BY PlayingWhole
  <2>2. MapFaithful
    BY <2>1, ResolvedShows DEF PagesInv, FlashAndSlots, MapFaithful
  <2>3. \A p \in Pages : GatherRight(p)
    BY <2>1, GatherHolds DEF PagesInv, FlashAndSlots
  <2> QED
    BY <2>2, <2>3
<1> QED
  BY <1>1, SessionInvHolds, PTL

(* No map entry leads into a slot that holds anything but its page: neither *)
(* while a savestate is assembled in the cache's memory nor after a reset.  *)
THEOREM SlotsHold == SessionSpec => []SlotsOwned
<1>1. SessionInv => SlotsOwned
  <2> SUFFICES ASSUME SessionInv, step \notin {"install", "over"},
                      NEW e \in Windows \X Indices, map[e].kind = "slot"
               PROVE  held[map[e].n] = e[2] % RomPages /\ phy[map[e].n] = held[map[e].n]
    BY DEF SlotsOwned
  <2>1. map # Unmapped
    BY DEF Unmapped, Null, Pointer
  <2>2. SlotEntries
    BY <2>1, SlotsNamed DEF SessionInv, OwnerTyped, Steps, MapKnown, DiskTyped
  <2>3. PICK s \in SlotIds : map[e] = Slot(s) /\ phy[s] = e[2] % RomPages
    BY <2>2 DEF SlotEntries
  <2>4. map[e].n = s
    BY <2>3 DEF Slot, Pointer
  <2>5. phy[s] # Free
    BY <2>3, Sizes DEF Pages, Free
  <2> QED
    BY <2>3, <2>4, <2>5 DEF SessionInv, CacheWhole, HeldWhole
<1> QED
  BY <1>1, SessionInvHolds, PTL

(* Every variable keeps its shape through every session.                    *)
THEOREM SessionTypesHold == SessionSpec => []SessionTypeOK
<1>1. SessionInv => SessionTypeOK
  <2> SUFFICES ASSUME SessionInv PROVE SessionTypeOK
    OBVIOUS
  <2>1. head \in SlotIds /\ tail \in SlotIds
    BY Sizes DEF SessionInv, CacheWhole, QueueWhole, Ordered, SlotIds
  <2>2. call.stage \in {"idle", "evict", "load"}
    BY DEF SessionInv, CacheWhole, CallTyped
  <2>3. view.ptr \in Pointers /\ view.off \in 0 .. BlocksPerPage - 1
    BY DEF SessionInv, CacheWhole, GuestTyped
  <2>4. TypeOK
    BY <2>1, <2>2, <2>3
       DEF SessionInv, CacheWhole, MapTyped, PhyTyped, NextTyped, GuestTyped, TypeOK
  <2> QED
    BY <2>4 DEF SessionInv, OwnerTyped, DiskTyped, SessionTypeOK
<1> QED
  BY <1>1, SessionInvHolds, PTL

-----------------------------------------------------------------------------
(* A session seen from the interpreter *)

LEMMA SessionView ==
  ASSUME InPlace
  PROVE  SessionInv /\ ViewWhole /\ [SessionNext]_allVars => ViewWhole'
<1> SUFFICES ASSUME SessionInv, ViewWhole, [SessionNext]_allVars PROVE ViewWhole'
  OBVIOUS
<1>1. CASE Play
  BY <1>1, PlayingWhole, ViewGuest, ViewEvict, ViewLoad DEF Play, Resolve
<1>2. CASE UNCHANGED allVars
  BY <1>2 DEF ViewWhole, Ready, Image, Found, NorShows, allVars, norVars, pageVars, queueVars, guestVars
<1>3. CASE SessionNext /\ ~ Play
  <2>1. view' = NoView
    BY <1>3 DEF SessionInv, Stopped, SessionNext, Refresh, MenuOpen, ConfigSave, MenuClose, SaveKey,
         LoadKey, Quit, SaveState, SaveRelease, LoadState, RefreshBegin, Query, Reopen, Bind,
         MappingFailed, Shutdown, BackupFlush, Boot, Install, Between, pageVars, cacheVars,
         guestVars
  <2> QED
    BY <2>1 DEF ViewWhole
<1> QED
  BY <1>1, <1>2, <1>3

Phase == CASE step = "play" -> "playing" [] step = "over" -> "over" [] OTHER -> "paused"
At    == IF Viewing THEN pc ELSE NoPc
Shows == IF Viewing THEN Found(view.ptr, view.off) ELSE NoPc

(* What is executed is the image's code, also while a page is loaded for data. *)
ViewRight == Viewing => pc \in ExecRegions /\ Found(view.ptr, view.off) = Image(pc)

LEMMA ViewShows ==
  ASSUME InPlace
  PROVE  SessionInv /\ ViewWhole => ViewRight
<1> SUFFICES ASSUME SessionInv, ViewWhole, Viewing
             PROVE  pc \in ExecRegions /\ Found(view.ptr, view.off) = Image(pc)
  BY DEF ViewRight
<1>1. pc \in ExecRegions
  BY DEF ViewWhole, Viewing
<1>2. CASE view.ptr.kind # "slot" /\ Found(view.ptr, view.off) = Image(pc)
  BY <1>1, <1>2
<1>3. ASSUME NEW s \in SlotIds, view = [ptr |-> Slot(s), off |-> pc.b], phy[s] = pc.i
      PROVE  Found(view.ptr, view.off) = Image(pc)
  <2>1. pc.i \in Nat /\ pc.i % RomPages = pc.i
    BY <1>1, OwnPage
  <2>2. held[s] = pc.i /\ held[s] # Wrong
    BY <1>3, <2>1 DEF SessionInv, CacheWhole, HeldWhole, Free, Wrong
  <2> QED
    BY <1>3, <2>1, <2>2 DEF Found, Slot, Pointer, Image
<1> QED
  BY <1>1, <1>2, <1>3 DEF ViewWhole, Viewing

LEMMA CartridgeStep ==
  ASSUME SessionInv, ViewRight', [SessionNext]_allVars
  PROVE  [Cart!Next]_<<Phase, At, Shows>>
<1>1. CASE Play
  <2>1. Phase = "playing" /\ Phase' = "playing"
    BY <1>1 DEF Play, Phase, ownerVars
  <2>2. CASE Viewing'
    <3>1. pc' \in ExecRegions /\ Shows' = Image(pc') /\ At' = pc'
      BY <2>2 DEF ViewRight, Shows, At
    <3>2. Cart!Fetch(pc')
      BY <2>1, <3>1 DEF Cart!Fetch, Phase, At, Shows, Image
    <3> QED
      BY <3>1, <3>2 DEF Cart!Next
  <2>3. CASE ~ Viewing'
    <3>1. Cart!Leave
      BY <2>1, <2>3 DEF Cart!Leave, Phase, At, Shows
    <3> QED
      BY <3>1 DEF Cart!Next
  <2> QED
    BY <2>2, <2>3
<1>2. CASE SessionNext /\ ~ Play
  <2>1. view = NoView /\ view' = NoView
    BY <1>2 DEF SessionInv, Stopped, SessionNext, Refresh, MenuOpen, ConfigSave, MenuClose, SaveKey,
         LoadKey, Quit, SaveState, SaveRelease, LoadState, RefreshBegin, Query, Reopen, Bind,
         MappingFailed, Shutdown, BackupFlush, Boot, Install, Between, pageVars, cacheVars,
         guestVars
  <2>2. At = NoPc /\ At' = NoPc /\ Shows = NoPc /\ Shows' = NoPc
    BY <2>1 DEF At, Shows, Viewing
  <2>3. \/ Phase' = Phase
        \/ Phase = "playing" /\ Phase' = "paused"
        \/ Phase = "paused" /\ Phase' \in {"playing", "over"}
    <3>1. step # "over"
      BY <1>2 DEF SessionNext, Refresh, MenuOpen, ConfigSave, MenuClose, SaveKey, LoadKey, Quit,
           SaveState, SaveRelease, LoadState, RefreshBegin, Query, Reopen, Bind, MappingFailed,
           Shutdown, BackupFlush, Boot, Install, Between
    <3>2. step = "play" => step' \in {"menu", "saving", "loading"}
      BY <1>2 DEF SessionNext, Refresh, MenuOpen, ConfigSave, MenuClose, SaveKey, LoadKey, Quit,
           SaveState, SaveRelease, LoadState, RefreshBegin, Query, Reopen, Bind, MappingFailed,
           Shutdown, BackupFlush, Boot, Install, Owner
    <3> QED
      BY <3>1, <3>2 DEF Phase
  <2>4. ASSUME NEW from, NEW to, Phase = from, Phase' = to
        PROVE  Cart!Turn(from, to)
    BY <2>2, <2>4 DEF Cart!Turn, Phase, At, Shows
  <2>5. CASE Phase' = Phase
    BY <2>2, <2>5
  <2>6. CASE Phase = "playing" /\ Phase' = "paused"
    BY <2>4, <2>6 DEF Cart!Next
  <2>7. CASE Phase = "paused" /\ Phase' \in {"playing", "over"}
    BY <2>4, <2>7 DEF Cart!Next
  <2> QED
    BY <2>3, <2>5, <2>6, <2>7
<1>3. CASE UNCHANGED allVars
  BY <1>3 DEF Phase, At, Shows, Viewing, Ready, Found, NorShows,
              allVars, norVars, pageVars, guestVars, ownerVars
<1> QED
  BY <1>1, <1>2, <1>3

(* gpsp_runner.c and the page cache together implement a Cartridge: the     *)
(* interpreter executes the image's own code and stops only between frames, *)
(* if it executes the image and not a mirror behind it.                     *)
THEOREM CartridgeHolds ==
  ASSUME InPlace
  PROVE  SessionSpec => CartridgeRefined
<1>1. SessionInit => ViewWhole /\ Cart!Init
  BY DEF SessionInit, StorageInit, Init, PagesInit, ViewWhole, Cart!Init, Viewing
<1>2. SessionInv /\ ViewWhole /\ [SessionNext]_allVars => ViewWhole'
  BY SessionView
<1>3. SessionInv /\ ViewWhole => ViewRight
  BY ViewShows
<1>4. SessionInv /\ ViewRight' /\ [SessionNext]_allVars => [Cart!Next]_<<Phase, At, Shows>>
  BY CartridgeStep
<1> QED
  BY <1>1, <1>2, <1>3, <1>4, SessionInvHolds, PTL
     DEF SessionSpec, CartridgeRefined, Cart!Spec, Phase, At, Shows

=============================================================================
