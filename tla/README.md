# Verification of gpSP on the SH-4 calculator

gpSP is a Game Boy Advance emulator; this repository ports it to the Casio
fx-CG100, whose CPU is an SH-4.  The port adds a recompiler back end (guest ARM
and Thumb code to SH-4 code) and a storage layer that executes cartridge images
straight out of the calculator's NOR flash.  The TLA+ modules here specify the
parts whose state outlives one guest instruction, the code the recompiler emits,
and the services it replaces; they are model-checked on small instances with
TLC, and proved about with TLAPS for every instance.

`PROJECT.json` lists components, runs, mutants, hazards, findings and theorems,
and maps each definition to the lines it is translated from.

## 1. The system

Everything runs on one thread.  There is no preemption, and the only
interleavings are those of nested calls and of the loops around them:

    main.c (application loop) --- menu, hotkeys, configuration
       |  one frame at a time
    gpsp_runner.c (storage owner) --- savestates, backup, refresh of the image
       |                    \
    execute_arm_translate    nor_rom.c --- addresses of the image's flash blocks
       |   \                     |
       |    cpu.cc (interpreter: BIOS, cold code)
       |        \                |
    translated   gba_memory.c --- page map, page cache, GPIO, DMA
    SH-4 code       |
       |         update_gba (events, timers, DMA)
    cpu_threaded.c + sh4_stub.S (lookup, translation, flush, dispatch)

What makes it hard is not concurrency but *staleness*: nearly every component
keeps pointers into what another one may discard while a call is under way.

| Component | State | Operations | What makes it correct |
|---|---|---|---|
| Translation caches (`cpu_threaded.c`, `sh4_stub.S`) | two emission areas, ROM hash, RAM tag mirror and tag table, hot table, patched exits, heat counters, scan caps | look up, translate with recursive exit resolution, patch, overflow, flush, dispatch | nothing that can be jumped to is discarded code or other code; RAM code equals RAM; a dispatch ends |
| Block emitter (`sh4_*_emit.h`, `sh4_emit_glue.h`, `sh4_fastmem.h`) | pending literals and patches, the flags that are live, cycles not yet charged; the resident memory routines | emit one instruction, close a condition, flush literals, end a block | the code does what the helper it replaces does: registers, live flags, memory, tags, cycles, way out |
| C helpers (`sh4_interp_helpers.c`) | the guest's registers, banks, memory | execute one instruction, charge it, raise alerts | the reference of the emitter |
| Interpreter (`cpu.cc`) | program counter, pointer to the 4 KiB it executes | execute, store, branch | executes the bytes at its program counter |
| Page map and page cache (`gba_memory.c`) | map of 32 KiB pages with mirrors, LRU queue of slots, sticky bits, GPIO copy in page 0 | resolve, evict, load, forget, remap | an address leads to its block of the image, or nowhere |
| NOR ROM access (`nor_rom.c`) | descriptor, block table, page table, shadow of page 0 | open, build, refresh, gather, close | published addresses are those of the image now |
| Storage owner (`gpsp_runner.c`) | mutation generations, failed flag | start, save, load, sync, refresh, shutdown | the guest never runs on a stale image or on borrowed memory |
| Application loop, menu (`main.c`, `fxcg100_menu.c`) | step of the loop | open menu, resume, save, load, reset, quit | storage is synchronised before the guest resumes |
| Configuration and blobs (`fxcg100_config.c`) | files; mutation generation | save, load | every write is counted before it happens |
| Backup chips (`gba_memory.c`) | SRAM, flash and EEPROM command states, dirty flag | guest commands, load, flush | a completed write is in the saved image |
| Savestates (`savestate.c`) | run-length stream | write, read | read inverts write; a bad file changes nothing |
| GPIO and clock (`gba_memory.c`) | serial protocol state | pin writes | the guest reads the date back bit by bit |
| Events (`main.c` of gpSP) | timers, video position, DMA channels | `update_gba` | no event is lost or late |
| HLE BIOS (`sh4_interp_helpers.c`, `bios/source`) | a copy in progress, held in the guest's registers at a loop top of the real routine | serve at once, park, resume, batch, finish, enter and leave an interrupt | the game cannot tell a service from the interpreted BIOS, by its memory, its time or its stacks |
| Frame pacing, video, sound, input, serial, cheats | | | see section 7 |

### Behaviours that are hard to test

- **Nested failure.** Translating a block translates what it branches to, to
  any depth; the cache may overflow at the innermost level, is flushed, and
  every caller on the stack then holds pointers into discarded code.
- **Self-modifying code.** Stores by translated code and by DMA probe a mirror
  of RAM; DMA runs while the block that may be overwritten waits to resume.
- **Reused memory.** A page-cache slot is reused under a pointer that the
  interpreter keeps; a savestate is assembled in that same memory.
- **Moving flash.** The calculator's file system may relocate the image when
  *any* file is written, silently.
- **Two ways to do one thing.**  Almost every guest instruction has a native
  form and a helper, every memory access a fast path and a slow one, and some
  BIOS calls three implementations.  Which one runs depends on the address, on
  flags that are live, on the cycles left; all must leave the same machine.
- **Interrupted copies.**  An event may end a BIOS copy at any loop top; the
  game's handler then runs, calls the BIOS itself, and returns into the middle.
- **Facts learned late.**  A chip's kind and size are learned from what the game
  sends to it, and a savestate brings back what was known before.
- **Searches that must end.**  Overflow retry, eviction among sticky pages,
  refresh of an image that is not readable any more.

`PROJECT.json` gives each of these hazards its line and the properties that
cover it, or says why none does.

## 2. Modules

| Module | Models | Extends |
|---|---|---|
| `TranslationCache` | lookup, translation, exit resolution, flushes, dispatch, self-modification | |
| `NorRom` | block table, page table and the outcomes of a refresh | |
| `GamepakPages` | page map, resolution, eviction, page load, GPIO copy | `NorRom` |
| `RomStorage` | a session: menu, savestates, refresh, reset | `GamepakPages` |
| `Cartridge` | abstract: what the interpreter is promised | |
| `Word32` | 32-bit words as pairs of halves | |
| `Sh4Cpu` | the SH-4 instructions that are emitted, as a machine | `Word32` |
| `Sh4Emit` | literals, patches, branches, flags, cycle charges, block exits | `Sh4Cpu` |
| `Sh4DataProc` | the native emitters of data processing, multiplication, PSR transfers | `Sh4Emit` |
| `GuestOps` | the C helpers of the same instructions | `Word32` |
| `Lockstep` | a block translated, run natively and run by the helpers | `Sh4DataProc`, an instance of `GuestOps` |
| `GuestMem` | the C helpers of loads, stores, block transfers, swaps | |
| `FastMem` | the native memory paths next to them | `GuestMem` |
| `OpenBios` | the BIOS routines that are replaced, as interpreted | |
| `HleBios` | their replacements next to them | `OpenBios` |
| `BackupSave` | the save chips, their registers in a savestate, their file | |
| `*_proofs` | theorems of `TranslationCache`, `GamepakPages`, `RomStorage`, `BackupSave`, `FastMem`, `HleBios`; for the last, `HleMachine_proofs` is about its operators, `HleSwi_proofs` about what its steps leave and `HleBios_proofs` about what they cost and overwrite | that module |
| `MC*` | values of the constants for TLC; `MCHleApart` adds `CallsClean` and `CallsUniform` to `MCHleBios` | that module |

They form four groups, and what joins the groups is narrow.  Code keys are
addresses, and no storage operation keeps or drops translations except loading a
state, which is an action of `TranslationCache` too.  To the caches an emitted
block is a size, its exits and the RAM it was made from; `Lockstep` and
`FastMem` say that what is inside does the right thing.  A BIOS service meets
the caches where it overwrites code (`SwiFlushes`), and the save meets the
storage session in the write that moves the image, an action of `RomStorage`
whatever is written.

### TranslationCache

Quantities are counted in instructions: a block of `n` instructions takes `n`
units of its cache.  `Size`, `Exits`, `First` and `Thumb` describe the guest
program; the program itself may be any.  `stack` is the C stack of nested
`translate_block` calls, innermost first; each `Frame` holds the loop counter of
its exit resolution.  One TLA+ step is the part of `block_lookup_address_*` or
`translate_block_*` between two calls, so that an overflow can strike at every
depth and every exit.

- `Emit` is one successful `translate_block` up to its exits: tag or hash entry,
  code, pointer.  `Overflow` is the failing one, with the shrinking of the scan
  cap and the flush (`cgba_block_overflow_shrink`, `flush_translation_cache_*`).
- `TopFound .. GiveUp` are the outcomes of one of the four attempts of the
  resolver; `GiveUp` is `REDISPATCH_IF_NULL`, which calls it again.
- `ExitSkip .. ReturnNested` are the outcomes of one pass of the loop over a
  block's exits.
- `DispatchHot`, `DispatchHash`, `DispatchCurrent`, `DispatchSlow` and
  `DispatchBios` are the paths through `sh4_stub.S`.
- `StoreTagged`, `StorePlain` are the store helpers, `DmaStore` the same by DMA
  from inside `update_gba`; `InterpStore` is a store by interpreted code, which
  acts on no tag.
- `Waitcnt`, `LoadState`, `LoadRefused` and `Reset` are the remaining flushes.

Two abstractions: EWRAM and IWRAM share one tag scheme and are one work RAM, and
the cold gate's counters are heated only by what the model calls a taken branch
(`InterpBranch`) or a refused lookup (`TopCold`).

### NorRom, GamepakPages

An address in flash is `Nor(b, e)`: it was the address of block `b` when the
image had been moved `e` times.  Reading through it finds the block only while
`e` is still the present era.  Likewise `held` says what a cache slot's memory
*really* contains, next to `phy`, what the queue believes.  `Found(ptr, off)` is
what a reader sees.  All properties compare it with `Image(r)`, the block that
belongs at region `r`, so a wrong entry, a reused slot and a stale flash address
are errors of one kind.

A region is a window, a page index and a block: `"lo"` is the pair of windows
at `0x08000000` and `0x0A000000`, always mapped alike; `"hi"` is the third
window, of which only the lower half is ever mapped.  `Execute` is
`check_pc_region` with its touch of the sticky bit; a miss starts a page load,
which is `Evict` (one candidate per step, as in the loop of
`evict_gamepak_page`) until one is taken and then `Load`.  `FrameStart` clears
the sticky bits.  `CacheInvalidate`, `UnmapPages` and `RemapPages` are the
operations the storage owner calls.

### RomStorage and Cartridge

`step` is where `main.c`'s loop and the functions it calls stand.  A `Write` is
`fxcg100_storage_note_mutation` followed by a write of any file; it may
`Relocate` the image, to any layout, and the open descriptor may die or come to
read another file.  `RefreshBegin`, `Query`, `Reopen`, `Bind` and `MappingFailed`
are the stages of `cgba_refresh_rom_after_storage`, with each outcome of
`cgba_nor_rom_refresh`.  `SaveState` borrows the page cache's memory:
`held' = Scribbled`.

`Cartridge` has no pages, slots, flash or files: only a place one executes from
and the block one executes there, in a session that can be paused between
frames.  `RomStorage` implements it (`CartridgeRefined`) under the mapping `at`
= program counter of the interpreter's view, `shows` = what is found through
that view.

### Lockstep: the block emitter

The repository tests the emitter with a harness, `sh4_diff_harness.c`: run a
block natively, run it through the helpers, compare.  `Lockstep` is that harness
over a model of both sides.  A halfword of SH-4 code is the tuple of its
mnemonic and operands, so displacements count what the processor's count and
`CodeClosed` can ask where each of them leads.  `Emit` translates one
instruction: it closes or continues a run of one condition, gates the block's
entries on the budget, takes the native emitter or, where that declines, the
trampoline to a helper, and leaves `due` cycles to charge; `Close` ends the
block.  `Begin` picks a starting state; `RunNative` runs SH-4 code up to its
next call or exit; `Service` is what is called (a helper, the banking routine);
`NativeEnds`, `Oracle` and `OracleEnds` run the reference from the same state,
instruction by instruction, for as long as the native side ran.

Emitters are told which flags some later instruction reads, and leave the others
unwritten; the reference writes them all.  A flag nobody reads again may be left
stale inside a block, and never at a way out of it: `LockstepAgrees` compares the
whole CPSR at the block's end, at a branch taken, where a helper writes the PC
and at the gate of an internal branch target, where the translator keeps all four
flags live because an interrupt taken there stores them.  Blocks of
the first Thumb translator (`set = "mvp"`), which keeps N and Z only, are
compared by `MvpAgrees`.

### FastMem: the memory paths

`nat` executes accesses the way a block does and `ref` the way `gba_memory.c`
does, on the same machine state: registers, the bytes of a few places of each
area with their tags, the page map, pending interrupt and DMA.  `Access` is one
instruction through whichever of the paths its guards choose: the
region-specialised routine, the page map, the out-of-line fragment, the unrolled
block transfer, the register tail that gives up after an enable was written, or
the helper.  `Translate` marks the tags of a block of RAM, `Evict` clears a page
under a pointer that is cached, `Interrupt` sets a flag the tail must notice.

### HleBios: BIOS services

`m` is the machine the port runs, `ref` one that interprets everything; both
receive the same calls and the same interrupts, and `at` says who has `m`:
translated code, an engine, the interpreted BIOS, the common return, the end of
a slice.  `OpenBios` steps from one loop top of a routine to the next, with the
cycles of the instructions in between; a copy that is cut lies in the guest's
registers at such a loop top, which is what lets an engine stop there (`Park`),
the interpreter continue it or an engine pick it up again (`Resume`, `Batch`).
`EnterIrq` and `LeaveIrq` are the emulated wrapper of the game's handler, which
may write the memory being copied and make a call of its own.

Writing over translated code ends in one of four ways, which the actions keep
apart.  A host copy drops the RAM translations itself (`Wrote`); a store through
`execute_store` leaves an alert (`Stored`), which the next slow access of the
game (`SlowAccess`), a call served at once, or an interrupt frame that has no
host array (`AlertTaken`) acts upon; and a store of the interpreter does nothing
(`Unseen`): `stale` has the cells written under a translation, `missed` those of
them the interpreter wrote.

Of the two currencies a cycle is charged in, only R13 reaches the event loop from
a service.  `budget` is R13, `lag` what the reference was charged and R13 was
not.  What the helpers add to `cgba_sh4_extra_cycles` on behalf of a service
(the frames of a parked call, an engine's stores, the loads of the epilogue, the
fetch of the number) is not in the model, because nothing debits it: the stub's
way back (`sh4_stub.S:851-863`) does not read the variable, and each of its
readers follows a helper that resets or assigns it (`sh4_interp_helpers.c:389`,
`1753`, `1807`, `1820`).  The same holds of the prediction that a call served at
once adds; `unpaid` sums those, and they are finding 4.

`Clean` is what is asked of a call: its ranges are mapped, its source is not in
the BIOS, neither range lies on the stacks or is folded onto itself by a mirror,
and the two ranges of a copy share no cell.  A call outside it is either one the
services get wrong (`swi_overlap`, the refused source of section 5) or one whose
BIOS routine destroys its own frame.
`CallsUniform`, which only the price needs, keeps a target in one region.

### BackupSave

`type`, `flash` and `eeprom` are the chip's registers, `backup` its bytes (of
some places), `dirty` the flag of the runner, `file` what is on storage.
`script` is the command a game is in the middle of, `saved` what its completed
operations should have left.  A game sends the accesses of its command one at a
time (`Begin`, `Send`), so that a savestate, a reset, the end of the session or
a power-off can fall between any two.  `Shutdown` writes the file or fails in
one of the ways the code distinguishes; `Boot` reads it or fails to.

## 3. Runs

| Run | Instance | Question | Result |
|---|---|---|---|
| `cache_overflow` | 2 ROM + 3 RAM blocks, caches of 6 | do nested translation, overflow, flush and retry leave anything that names discarded code? | holds |
| `cache_smc` | 1 ROM + 2 RAM blocks, 4 slots of 2 values, a routine longer than an empty RAM cache | is code whose RAM is overwritten always discarded, and does every dispatch end? | holds, if interpreted code stores to data only |
| `pages_cache` | image of 5 pages in a window of 10, 3 slots | is every address right, the interpreter's view never reused, no slot lost, every eviction finite? | holds |
| `exec_mirror` | executes page 1 through its mirror | `ViewFaithful` | violated |
| `storage` | 3 pages, 2 slots, 2 writes | is the guest only ever resumed on the image as it lies now, with the GPIO registers drawn over page 0 again, and does the interpreter see a `Cartridge`? | holds |
| `lockstep` | 335 blocks, branches among them, boundary operands | does emitted code do what the helpers do, at the same cost? | holds |
| `memory` | a step before any access, three machines | does every memory path leave what the helper leaves, and no stale code? | holds |
| `hle` | every kind of `CpuSet` and `CpuFastSet`, one interrupt | can the game tell a service from the BIOS, does one leave outdated code? | holds, for calls that are `Clean` and, for the price, `CallsUniform`, and counting what R13 is never debited; what the interpreter overwrites stays translated |
| `swi_overlap` | a pattern fill cut by an event | `SwiFaithful` | violated |
| `swi_unpaid` | a copy that fits its slice | `SwiDebited` | violated |
| `backup` | four games, two saves | is every completed save in the chip, and in the file after the session? | holds, for states made once the chip is known |
| `save_rollback` | states made at any time | `SaveKept` | violated |

### Bounds

Caches: six units hold two or three blocks, so that every pair of blocks and
every tag table entry compete; both caches overflow, at the top and inside a
resolution, in thousands of states.  The program of `cache_overflow` has two
ROM blocks that branch to each other (a resolution that must find what it is
working on), calls across the caches in both directions, an ARM and a Thumb
block at one address, a BIOS call, and two ROM keys that share a hot-table entry.  A unit size of one
for headers and tags makes every off-by-one of a limit visible.  `Attempts` is
the source's four.

Pages: two blocks stand for the source's eight: one is first, one is not, which
is all that resolution distinguishes.  Four pages without a shadow compete for
three slots, so that every slot can be sticky; the three layouts have nothing,
some single blocks or whole pages directly readable.  The last block of the
image is not full (`FullBlocks = 9` of 10), so it is never published.

Sessions: two writes (`MaxWrites`, `MaxEra`) allow a move during a save after a
move in the menu, and a second failure of a refresh after the first.  The
storage owner forgets all at each refresh, so a third write meets no new
state.

Emitter: a block of one instruction has its prologue, its flags and its exit;
two and three are needed for flags that are set, partly overwritten and read,
and for runs of one condition that a helper call or a write of the flags breaks.
All 15 conditions occur, every operand form, and operands at 0, 1, the largest
positive, the sign bit, all ones, with shift amounts 31, 32, 33, 255 and 256.
Cycle budgets lie at, just below and just above each gate.  Blocks of 40, 60 and
80 instructions fill the literal pools and flush them by count and by distance
under the source's own limits (`LitPoolMax` 128, `LitsegMaxRefs` 48,
`LitsegDistance` 352).

Memory: addresses lie at the first, last and misaligned places of every region,
of its mirrors, and of the 32 KiB pages; the three ROM pages are mapped, mapped
at an odd host address, and absent with one fragment readable.  One step before
the access suffices: what an access can find changed is one register, one page,
one tag or one flag.

BIOS: a call of each kind and width, fill and copy, none and some elements, and
two slices, one that cuts every copy and one that cuts none.  `Chunk` is 2 where
the BIOS moves 8 words, so that three elements take two rounds.  One interrupt
can fall at every loop top, and a second call is the handler's.

Saves: two saves are one before and one after anything that can be forgotten.
The single value written, `0xAA`, is also the first byte of each flash command.
The places kept are those a command, a bank switch or a wrong size can reach.

`CHECK_DEADLOCK FALSE` appears in `MC_storage.cfg`, because a session ends
(`step = "over"`), and in `MC_memory.cfg`, whose behaviours are `Steps` long.

### Restrictions a reader should know

- `pages_cache` executes the image itself and not a mirror behind it, and its
  image is half its window (section 5 has what lies beyond).
- `storage` boots only from a layout whose addresses lead to the file: at boot
  there is no earlier header to compare with.
- When a layout's addresses lead elsewhere, the header's already do
  (`LayoutAssumption`): `nor_rom.c` validates the first 0xC0 bytes only.
- Reads through a live descriptor succeed.
- No run loads a state of a different game.
- `lockstep` leaves out the first translator's `CMP` with an immediate
  (section 5).
- `memory` takes registers of I/O below `0x400` and cartridge addresses within
  the image; reads of I/O status, backup chips, BIOS and open bus are one opaque
  value, because only helpers produce them; transfers of the user bank are left
  out.
- `hle` has no overlapping ranges, no source that the BIOS refuses, no range
  given through a mirror; the user's stack is in IWRAM.  Addresses count elements, so alignment is out of sight.  At the top
  of a halfword copy `r12` is dead and not compared.  The fetches of the
  interrupt wrapper are charged on neither side.
- `backup` makes states only once the chip is known (`EarlyStates = FALSE`), its
  games' files have different names, and its SRAM game does not store `0xAA` at
  `0x5555`.  A game erases a byte of flash before it programs it.  A power-off
  loses what was saved since the session began, and a failed write or an unread
  file promises only what the file holds.  A block of
  eight EEPROM bytes counts as one, and its DMA as one step.

## 4. Fairness

`TranslationCache!Spec` assumes `WF_vars(Resolve)`, `GamepakPages!Spec`
`WF_vars(UNCHANGED norVars /\ Resolve)` and `RomStorage!SessionSpec`
`WF_allVars(Refresh)`.  Each is a C function on the only thread: once it is
called nothing else runs until it returns, and while it is active it is
continuously enabled.  Nothing is assumed about the guest or the user, who may
stop at any point.

`Lockstep`, `FastMem`, `HleBios` and `BackupSave` state no fairness: what is
asked of them is safety, and each of their comparisons is made when both sides
have arrived.

## 5. Findings

1. `exec_mirror`: the sticky bit is set under the page's number in the window,
   but tested under its number in the image; a page executed through a mirror
   is evicted under the interpreter.
2. `swi_overlap`: the services decline overlapping ranges, because `memmove` does
   not repeat a pattern as the BIOS does; but the engine that picks up a copy at
   a loop top does not ask.  A pattern fill that is interpreted, and that an
   event stops at a loop top, is finished by `memmove`.
3. `save_rollback`: the size of a save file is that of the chip's registers when
   the session ends, and loading a savestate restores registers of a time when
   the chip was not known yet; a save is then written short, or not at all.
4. `swi_unpaid`: a call served at once adds its predicted cycles to
   `cgba_sh4_extra_cycles` and returns R13 as it was.  Nothing moves the one into
   the other, so the game goes on with the whole slice and its events come late,
   where the comments speak of the interpreter's charge, debited at once.  An
   engine, whose cycles are R13's, charges a longer copy in full.

### Observations outside the runs

Met while modelling, and kept out of the runs by the restrictions above or by
the choice of an instance:

- Stores of interpreted code do not act on the tag mirror: a translation of the
  overwritten RAM stays live, also when it is a BIOS routine that stores (the
  cells `missed` of `HleBios`, without which `SwiFlushes` fails).  `InterpStores = {1}` in `MC_cache_smc.cfg`
  violates `Coherent`; the hypothesis of `CoherenceHolds` says the same.
- A chain of short RAM blocks that together exceed the cache overflows at the
  same place on every attempt: none is long enough for its scan cap to shrink.
- `init_dynarec_caches` starts the ROM cache at offset 0, which the hash reads as
  "absent"; the first block is translated again (`RomStart` is the constant).
- Pages of the never mapped half of the third window are loaded again at each
  access and may fill every slot; executed from, all of them are then protected.
- `sh4_thumb_mvp.h:91`: the first translator compares with an immediate and
  takes the flags from the register that holds the mask.
- `gba_memory.c`'s data reads past the image return open bus, while the page map
  and fragments mirror it; `sh4_fastmem.h:861` documents the difference.
- HLE: a call the BIOS refuses (a source below 0x02000000) is taken for an
  oversized copy when it falls near the end of a slice, and is parked and copied
  (`sh4_interp_helpers.c:3483`; such a call violates `SwiFaithful` at once); a
  range given through a mirror is tested by its guest address only; `SwiPriced` allows one fetch per call.
  A call whose target crosses from one region into another is interpreted
  (`sh4_interp_helpers.c:2195` says why), but when an event stops it at a loop
  top an engine picks it up, and prices every round as its first one
  (`:2550`, `:2556`): such a call violates `SwiPriced`, hence `CallsUniform`.
- A `0xAA` stored by an SRAM game at `0x5555` turns its chip into a flash
  (`gba_memory.c:1216`), and a flash of two banks that was never written, only
  identified, would be flushed as one.

## 6. Proofs

TLAPS checks every theorem to the last leaf; the constants are constrained only
by the `ASSUME`s of the modules, which TLC evaluates in every run.

**TranslationCache_proofs** (`KeysAssumption .. ExitAssumption`).  The safety
properties are not inductive one by one: that a tag finds live code depends on
which tags were handed out, on the range the next flush believes used, and on
the nested calls, which keep locations of blocks while they work.  The inductive
invariant is `IInv == CacheInv /\ CallInv`.

- `CacheInv` speaks of the caches: emitted code lies below its pointer
  (`CodeOK`), the tag table above it (`TableOK`), start tags are distinct, below
  `nextTag` and inside `codeMin .. codeMax` (`TagsOK`), and on top of these the
  checked invariants.
- `CallInv` speaks of the calls in progress: every frame of the stack works on a
  live block, and each waits for exactly the exit the next one was called for
  (`StackOK`).  This is what allows a returning call to patch its caller.

Per action there is one preservation lemma; `Emit` and the flushes have lemmas
of their own, shared by the actions that call them.  From `IInv` follow
`TypesHold`, `LinksHold`, `StubsHold`, `RamTagsHold`, `StoresHold` and
`RunningHolds`; `ResolvesHold` and `ProbesHold` are its action properties;
`DisjointHolds` and `CoherenceHolds` are each inductive relative to it.
`CoherenceHolds` has the hypothesis `InterpHarmless` (interpreted code writes no
slot of a RAM block); without it TLC finds a counterexample.

**GamepakPages_proofs** (`RomAssumption`, `LayoutAssumption`,
`PagesAssumption`).  `PagesInv` says that a map entry is null, what the page
table says, or a slot that holds this page *and lies where eviction will clear
it* (`EntryWhole`); that `held` is `phy`; that the queue is one line through all
slots (`QueueWhole`, by an explicit order that `Rotated` shifts by one); and
that the slot about to be filled holds no sticky page (`VictimFree`).  The third
alternative of `EntryWhole` is the heart: without the position an evicted slot
might stay mapped in the upper half of the third window, and without the number
a slot might be found under another page's.  `ResolvedShows` turns it into
`MapFaithful`; its arithmetic (a block of the window modulo the image is the
page modulo the image's pages, `MirrorBlock`) is proved for all sizes.
`ViewHolds` adds `ViewWhole`: a view into a slot has the slot's page sticky.  Its
hypothesis `InPlace` (the guest executes the image and not a mirror behind it)
is needed because of finding 1.  `TypesHold`, `MapHolds`, `QueueHolds` and
`GpioRamHolds` have no hypothesis.

**RomStorage_proofs** (the same assumptions).  A session is where the flash
moves, so what can be said of the tables depends on the step of the session.
`SessionInv` is the conjunction of what holds always, the types and the page
cache without the flash (`CacheWhole`), and of three facts that depend on
`step`.

- `Stopped`: outside the frames no resolution is under way and the interpreter
  has no view, so nothing outlives the tables it was taken from.
- `MapKnown`: from the frames to the writing of a state and the menu, map entries
  are whole and, while the guest plays, the GPIO registers drawn wherever page 0
  is read from memory; after `UnmapPages` the map is empty, through every outcome
  of the refresh, until pages are bound again; in between, entries into the cache
  still name what their slot holds.
- `FlashKnown`: the guest plays only in sync, where sync means that every write
  has been counted and the mapping has not failed; and when in sync the tables
  are those of the image where it lies now (`NorWhole`).

`NorWhole` has two alternatives, because a refresh has: the addresses lead to
the image, or nothing is mapped and pages are read through the file.  The
page-cache lemmas of `GamepakPages_proofs` are stated over either, so a step of
the guest within a session is a step they already cover.  From `SessionInv`
follow `SessionTypesHold`, `InSyncHolds`, `ImageHolds` (`PlaysTheImage`),
`RegistersHold` (`PlaysTheRegisters`) and `SlotsHold`.  `CartridgeHolds` is the
refinement: under `InPlace`, every session implements `Cartridge`, step by step
or by stuttering, with `ViewRight` (what is
executed is the image's code, also while a page is loaded for data) as the fact
that makes `Cartridge!Execute` fit.

**BackupSave_proofs** (`SaveAssumption`, and `Apart` for the two safety
theorems).  That the chip holds what the game saved says nothing of a command
the game is in the middle of, so it is not inductive.  `SaveInv` adds it.

- `ChipWaits`: what is left of the game's operation (`script`) is what the
  chip's registers wait for.  For a flash, `FlashWaits` pairs each position in
  the unlock sequence and each mode with the operations a game can still
  complete from there (`Orders`), across a change of bank; `EepromWaits` and
  `SramWaits` are the short cases.  A step of the chip is then a step of the
  operation, and completes it exactly when `saved` changes.
- `StatesWait`: the same of the registers and the operation in every savestate,
  with the type and the size of the chip known.  It is what carries `ChipWaits`
  over `LoadState`, into the middle of another command.
- `DirtySized`: when there is something to flush, the registers give the chip's
  real size, so `Shutdown` writes all of it.
- `CleanKept`: when there is nothing to flush, the file already holds it.

`TypesHold` has no hypothesis.  `LiveHolds` and `KeptHolds` have `Apart`, whose
three parts are each needed.  States are made only once the chip is known: a
state that is older forgets the chip's size, which is finding `save_rollback`.
No two games have one name, since they would share a file.  A flash of two banks
is recognised when its game is loaded; otherwise its size is learned from the
first change of bank, and a session that ends before one writes a single bank.
What TLC checks for one byte value and four games holds for any values and any
library that is `Apart`.

**FastMem_proofs** (`ImageSize`, `WaitStates`, `CellsNamed`, `MachinesWhole`,
`StepsBounded`, `AccessesComparable`, `BlocksHeld`).  The run compares the paths
on some 12 000 machines; the theorems compare them for every image, memory, page
map, register file, operand, register list and sequence of accesses.  The
inductive invariant is one line,

    IInv == taken \in 0 .. Steps /\ nat = ref /\ Rested(nat)

where `Rested` is what a machine is between two instructions: typed, no alert
pending, and `Fresh`, i.e. every byte of translated code lies in RAM, is what it
was translated from, *and carries a tag*.  The tag is what `CodeFresh` does not
say and its induction needs: it is what makes a store over the byte raise the
alert.  Two lemmas carry it.

- `HelperRested`: gpSP's own access leaves a machine at rest.  Within an
  instruction the alert may be pending (`Guarded`: an alert, or still fresh),
  which the exit then acts on by dropping every block of RAM.
- `ExecutedAgrees`: on a machine at rest, whatever path a `Proper` access takes
  is gpSP's own.  It splits as the emitters do.  Reads agree because a mapped
  page, or a fragment, is the area and offset `read_memory` would form
  (`NativeRead`, on `HostPageIs`, `AtPlace`, `AtImage`) and because an access to
  it fills nothing (`Settled`).  Stores agree because a store whose tags are
  clear raises no alert (`ProbeIs`, `SmcNone`, `StoreEnds`).  Block transfers
  commit the base after the words where gpSP commits it before or, for a store,
  computes it: `LoadedWordsAgree` and `StoredWordsAgree` go through the list word
  by word, with what has been loaded so far, and the cycles debited at once
  against those charged one by one.  The tail of IE writes its register before it
  looks, and hands over to a helper that writes it again (`PutTwice`).

Loops over a register list are recursive functions; `LoadLoops`, `StoreLoops`
and `MoveLoops` state what they compute, by the induction of `Induction`, which
is over a set and not an operator.

`Comparable` is what the theorems ask of an access, and each part stands for a
difference between the two paths: words that lie beyond the registers of the I/O
page or beyond the image are read from the host page as mapped (a native load
wraps at 32 KiB where gpSP's registers wrap at 1 KiB, and finds the image's
mirror where gpSP finds the open bus); `KnownIo` takes the region modulo 16, so a
known address must be one of region 4 itself; and addresses and bases do not wrap
at 32 bits.

**HleBios_proofs**, `Flushes` (no assumption on the map, the calls or the
slices).  The inductive invariant is `Told == alert \/ stale \subseteq missed`:
between any two steps, what is outdated is known to a pending alert, or the
interpreter wrote it.  There is one lemma for each way to store (`WroteTold`,
`StoredTold`, `TakenTold`, `UnseenTold`) and one for each group of services.

**HleMachine_proofs, HleSwi_proofs** (`MemoryNumbered`, `CostsCounted`,
`ChunkMoves`, `StacksMapped`, `CallsTyped`, `WritesOffStacks`, `SlicesPositive`,
`HandlersAligned`).  `Faithful` is `SwiFaithful` under `CallsClean`, for every
memory map, program of calls, slicing and price.  The hypothesis cannot go: each
of its parts stands for a call the services get wrong, and `swi_overlap` is one.

The property speaks only of the moments at which the game runs, and a call may
be anywhere when an event stops it, so the induction is about what happens in
between.  The inductive invariant is

    IInv == Agrees(at, m, ref) /\ budget \in Int

- `Proto(x)` says where in the protocol of BIOS and interrupts a machine is,
  without saying which implementation it runs: a task, which is the game or its
  handler, is in its own code (`Idle`), at the SWI vector (`Asking`), or in a
  copy whose frames lie on its stacks and whose registers are those of a loop top
  that still has a clean range ahead of it (`Copying`); if the task is the
  handler, the six words above its stack hold the thread that was interrupted
  (`Context`), and that thread, put back, is a task again.
- `Same(m, ref)`: registers, modes, banks and memory are equal, up to the words
  a stack has given back.
- `Settled`: the one moment the two differ.  The engine stops at the top of a
  loop that has nothing left, from where the interpreter has already gone on to
  the exit.

From these, each service is an equality between one step of `m` and a number of
steps of `ref`.

- A round of any of the six loops is a run of elements (`Ran`, a copy of `n`
  elements); runs compose (`RanJoin`), one round of the interpreter is a run of
  a unit (`RoundIs`), so `k` rounds are a run of `k` units (`StepsRounds`), and
  a batch of the engine is the same run at once.
- Opening and closing the frames (`Opened`, `Closed`) is pushing and popping:
  `Framed` and `Unframed`, which write the words where they belong, are
  `Dispatched` and `Completed`, which the BIOS does by STM and LDM.
- A call served at once is the whole interpreted call: dispatch, `Turns` rounds,
  completion (`ServeAtOnceInv`).
- A handler returns into what it interrupted, which may be a copy; nothing it
  may do has touched the frames of that copy (`WritesOffStacks`, and `Clean` of
  its own calls), but it may have written the memory being copied, on both
  sides.

What is left, the interplay of `at` with the protocol, has one lemma per action
(`NextInv`).  Sequences of steps are recursive functions here too, and the
induction on the number of elements is over a set.

**HleBios_proofs**, `Priced` (the assumptions of `Faithful`, and `CallsUniform`).
`SwiPriced` says that `lag - unpaid`, what the reference was charged and neither
R13 nor a prediction was, lies between 0 and one fetch a call whenever the game
runs.
In the middle of a call it may lie outside: the engine charges the fetch that
ends a word copy when it starts, and an interrupt may put such a copy aside for
a handler that makes a call of its own.  The inductive invariant keeps an account,

    PInv == IInv /\ Accounts
    Bal(y, p, s, k, n) ==
      /\ p \in {0, Fetch} /\ s \in {0, Fetch}
      /\ 0 <= k + p + s /\ k + p + s + Due(View(y)) + Due(Behind(y)) <= n
      /\ p # 0 => Engaged(View(y))
      /\ s # 0 => Engaged(Behind(y))

of the balance `k` of the reference `y` against the fetches `n` that its calls
allow.  `p` and `s` are what the engine has charged ahead for the call that runs
(`View`) and for the one an interrupt has put aside (`Behind`, read back from
the interrupt's frame); only a copy that an engine can carry on to its end
(`Engaged`) has any.  `Due` reserves a fetch for each call still open, which it
spends when the interpreter began it and the engine ends it, so that no call
uses its allowance twice, or another's.  `Accounts` adds the branch that an
engine at its exit will be refunded (`Leaving`).

- A round of any loop has one price, `RoundOf`, and the last one costs `EndOf`
  besides (`RoundCost`); over `n` rounds whose accesses stay in one region the
  prices add up (`RoundsCost`), to what a batch charges (`RoundsBal`).
- The start of a call (`StartPriced`), its rounds and its end (`ExitPriced`)
  make `PriceOf` the price of the interpreted call (`CallCost`); what the
  prediction charges is the same, case by case (`PredictPriced`).
- Each kind of step takes the account from one balance to another: `BalMove`
  for a step of the thread that runs, `BalTick`, `BalEnter` and `BalBack` for an
  interrupt, its handler's entry and its return.  One lemma per action
  (`ParkPriced`, `BatchPriced`, ...) puts them together in `NextPriced`.

Where the game runs no call is open and none is put aside (`HomeDue`), and the
account is the property.

**Only model-checked.**  Liveness (`DispatchTerminates`, `EvictTerminates`,
`RefreshEnds`), which needs fairness and `ENABLED`; and `Lockstep`, whose helpers
are recursive operators.

## 7. Not modelled

- *SH-4 instruction encodings*: `sh4_codegen.h` packs fields into halfwords; the
  repository tests its encoders one by one.  The stub's link-return and
  indirect-branch routines and the alignment of blocks to the cache's lines.
- *The interpreter's own loop* in `cpu.cc`: it executes the same instructions as
  the helpers, from a view that `GamepakPages` models.
- *BIOS services other than the two copies*: they are interpreted, or computed
  in one piece from their arguments.
- *GPIO clock protocol, timers, video events, the run-length stream of a
  savestate*: see the plan.
- *Loaders of built-in and streamed images*, and with them the 1 MiB mirror of
  Classic NES titles; the one-page fallback for unaligned files below 32 KiB;
  the directory scan and its path variants.
- *Video, sound, input, keys, platform layer*: pure functions or I/O.  Sound is
  replaced by a stub in this port; the serial port and cheats are unreachable.
- *Other back ends, the libretro front end, the web page*: not in this program.

## 8. Plan

Done: translation caches (checked, proved), page cache (checked, proved), storage
session (checked, proved, refining `Cartridge`), block emitter against the
helpers (checked), memory paths (checked, proved), BIOS copies (checked, proved),
saves (checked, proved).

1. **Savestates.**  The run-length stream as a pure algorithm against its
   definition (decode inverts encode; a truncated stream is refused before
   anything is written).
2. **Events.**  `update_gba`, timers with cascades and their 16-bit reload, DMA
   triggers; then liveness of an interrupted copy under the handler's return.
3. **GPIO clock protocol**, against the date it transmits.
4. **Proofs.**  `CodeClosed` for any block, from lemmas about `Assemble` with its
   recursion written as functions.

## 9. Running

In this directory, with the community modules on TLA+'s library path:
`java tlc2.TLC -workers 2 -config MC_<run>.cfg <module of the run>`, and
`tlapm <module>_proofs.tla` for each of the eight proof modules.  The longest
run takes about three minutes on two workers, the longest proof about twelve.
