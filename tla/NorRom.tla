------------------------------- MODULE NorRom -------------------------------
(***************************************************************************)
(* How the cartridge image is reached in NOR flash.  The calculator's file *)
(* system (Fugue) is log-structured: it stores a file as 4 KiB blocks at   *)
(* any place, and every write to any file may move them.  nor_rom.c asks   *)
(* for the address of each block, keeps the table of those that may be     *)
(* read directly, and derives from it the pages that are contiguous.       *)
(*                                                                         *)
(* Addresses are abstracted to what tells them apart: the block they led   *)
(* to and the era, the number of moves so far, in which they were asked    *)
(* for.  A page of the source has eight blocks, a window 1024 pages.       *)
(***************************************************************************)
EXTENDS Integers, FiniteSets

CONSTANTS
  RomPages,       \* page_count of the image
  BlocksPerPage,  \* CGBA_FLASH_BLOCKS_PER_PAGE
  WindowPages,    \* pages of a 32 MiB cartridge window
  FullBlocks,     \* blocks of the image that the file fills completely
  Layouts,        \* what Fugue may make of the file; see LayoutAssumption
  MaxEra          \* bound on the number of moves

Pages       == 0 .. RomPages - 1
Total       == RomPages * BlocksPerPage
Blocks      == 0 .. Total - 1
TableBlocks == 0 .. WindowPages * BlocksPerPage - 1

ASSUME RomAssumption ==
  /\ {RomPages, BlocksPerPage, WindowPages} \subseteq Nat \ {0}
  /\ RomPages <= WindowPages
  /\ FullBlocks \in 0 .. Total
  /\ MaxEra \in Nat

(* direct: blocks with a durable, aligned address; whole: pages whose       *)
(* blocks lie side by side; sane: the addresses lead to the file at all.    *)
(* When they do not, they already do not for the header.                    *)
ASSUME LayoutAssumption ==
  \A l \in Layouts :
    /\ l.direct \subseteq Blocks
    /\ l.whole \subseteq Pages
    /\ l.sane \in BOOLEAN
    /\ ~ l.sane => 0 \in l.direct /\ FullBlocks > 0

VARIABLES
  disk,    \* [era, layout], where the file system has the image now
  fd,      \* what the open descriptor reads: the image, another file, nothing
  table,   \* cgba_block_addr
  ready,   \* cgba_block_total # 0
  pages,   \* rom->pages
  shadow,  \* the image in cgba_page0_buf
  drawn    \* what stands at 0xC4 of page 0's image, per buffer that holds one

norVars == <<disk, fd, table, ready, pages, shadow>>

Raw == -1   \* the cartridge's own bytes, no GPIO register over them

(* Host pointers: into flash (n is the block, era when it was valid), to    *)
(* another file's flash, to the RAM shadow of page 0, to a cache slot n.    *)
Pointer(kind, n, era) == [kind |-> kind, n |-> n, era |-> era]
Null      == Pointer("null", 0, 0)
Shadow    == Pointer("shadow", 0, 0)
Alien     == Pointer("alien", 0, 0)
Nor(b, e) == Pointer("nor", b, e)

Fds    == {"closed", "rom", "other", "dead"}
Images == {"blank", "rom", "other"}

-----------------------------------------------------------------------------
(* build_block_table *)

PublishedPartial(f, b) ==
  IF b \notin disk.layout.direct THEN Null
  ELSE IF f = "rom" /\ disk.layout.sane THEN Nor(b, disk.era) ELSE Alien

(* cached_nor_pointer and the checks around it: only a durable, aligned     *)
(* address of a complete block of the file is published.                    *)
PublishedBlock(f, b) ==
  IF b >= FullBlocks \/ b \notin disk.layout.direct THEN Null
  ELSE IF f = "rom" /\ disk.layout.sane THEN Nor(b, disk.era) ELSE Alien

Table(f) == [b \in TableBlocks |-> PublishedBlock(f, b % Total)]

BlocksOf(p) == p * BlocksPerPage .. (p + 1) * BlocksPerPage - 1

Contiguous(f, p) ==
  /\ p \in disk.layout.whole
  /\ \A b \in BlocksOf(p) : PublishedBlock(f, b) # Null

DirectPageZero(f) ==
  [p \in Pages |-> IF Contiguous(f, p)
                   THEN PublishedBlock(f, p * BlocksPerPage) ELSE Null]

PageTable(f) ==
  [p \in Pages |->
     IF p = 0 THEN Shadow
     ELSE IF Contiguous(f, p) THEN PublishedBlock(f, p * BlocksPerPage)
     ELSE Null]

Gathered(f) == IF f = "rom" /\ disk.layout.sane THEN "rom" ELSE "other"

(* Reading page 0 into its buffer again wipes the GPIO registers off it.    *)
Regathered == [drawn EXCEPT ![Shadow] = Raw]

(* All of build_block_table but its verdict: what it leaves behind. *)
Build(f) ==
  /\ table' = Table(f)
  /\ ready' = TRUE
  /\ pages' = PageTable(f)
  /\ shadow' = Gathered(f)
  /\ drawn' = Regathered

NoTable == [b \in TableBlocks |-> Null]
NoPages == [p \in Pages |-> Null]

(* cgba_nor_rom_reset *)
ResetRom ==
  /\ table' = NoTable
  /\ ready' = FALSE
  /\ pages' = NoPages

-----------------------------------------------------------------------------
(* cgba_nor_rom_refresh: three outcomes, told apart by its result *)

CanRefresh == fd # "closed" /\ pages[0] # Null

(* 0: the table is rebuilt and gives back the header seen before. *)
RefreshRebuilt ==
  /\ CanRefresh
  /\ Gathered(fd) = shadow /\ fd # "dead"
  /\ Build(fd)
  /\ UNCHANGED <<disk, fd>>

(* 1: the addresses do not give back the header, the file itself does:      *)
(* every block is read through the file system from now on.                 *)
RefreshThroughFile ==
  /\ CanRefresh
  /\ fd = shadow /\ Gathered(fd) # shadow
  /\ table' = NoTable
  /\ pages' = [NoPages EXCEPT ![0] = Shadow]
  /\ drawn' = Regathered
  /\ UNCHANGED <<disk, fd, ready, shadow>>

(* Negative: never started, a size that does not match, or no header.       *)
RefreshFailed ==
  \/ /\ ~ CanRefresh \/ fd \in {"dead", "other"}
     /\ UNCHANGED <<norVars, drawn>>
  \/ /\ CanRefresh
     /\ fd # shadow \/ Gathered(fd) # shadow
     /\ fd # "dead"
     /\ table' = NoTable
     /\ pages' = NoPages
     /\ shadow' \in {"blank", "other"}
     /\ drawn' = Regathered
     /\ UNCHANGED <<disk, fd, ready>>

(* cgba_nor_rom_open_path, which closes what is open first *)
OpenPath ==
  \/ /\ fd' \in {"rom", "other"}
     /\ Build(fd')
     /\ UNCHANGED disk
  \/ /\ fd' = "closed"
     /\ ResetRom
     /\ UNCHANGED <<disk, shadow, drawn>>

CloseRom ==
  /\ fd' = "closed"
  /\ ResetRom
  /\ UNCHANGED <<disk, shadow>>

(* A write to any file: Fugue moves blocks, and the open descriptor may or  *)
(* may not survive.                                                         *)
Relocate ==
  /\ disk.era < MaxEra
  /\ \E l \in Layouts : disk' = [era |-> disk.era + 1, layout |-> l]
  /\ fd' \in IF fd = "rom" THEN {"rom", "other", "dead"} ELSE {fd}
  /\ UNCHANGED <<table, ready, pages, shadow>>

-----------------------------------------------------------------------------
(* What a read through a pointer finds: a block of the image, or Wrong. *)

Wrong == -1

(* A pointer asked for in this era leads to its block; it leads past it only *)
(* within a page that is contiguous now, and never past the file's end.      *)
NorShows(ptr, off) ==
  /\ ptr.era = disk.era
  /\ ptr.n + off < FullBlocks
  /\ off = 0 \/ ptr.n \div BlocksPerPage \in disk.layout.whole

(* The image as cgba_nor_rom_read gathers it from the table.                *)
ReadsBlock(b) ==
  IF table[b] # Null
  THEN table[b] = Nor(b, disk.era) /\ b < FullBlocks
  ELSE fd = "rom"

GatherRight(p) == \A b \in BlocksOf(p) : ReadsBlock(b)

=============================================================================
