----------------------------- MODULE RomStorage -----------------------------
(***************************************************************************)
(* A session on the calculator: the guest plays, the user opens the menu,  *)
(* changes the configuration, saves or loads a state, resets or quits.     *)
(* Each write to storage may move the cartridge image in flash; a savestate *)
(* is assembled in the page cache's own memory.  gpsp_runner.c must drop   *)
(* what points at either before the guest runs again.                      *)
(*                                                                         *)
(* Everything runs on one thread; the steps are those of main.c's loop.    *)
(***************************************************************************)
EXTENDS GamepakPages

CONSTANT MaxWrites   \* bound on the writes to storage

ASSUME WritesAssumption == MaxWrites \in Nat

VARIABLES
  step,     \* where main.c's loop is
  cause,    \* who refreshes: "sync" (cgba_gpsp_storage_sync) or "save"
  after,    \* the step that follows a refresh
  gen,      \* storage_mutation_generation
  seen,     \* cgba_storage_generation_seen
  failed    \* cgba_rom_mapping_failed

ownerVars == <<step, cause, after, gen, seen, failed>>
allVars   == <<norVars, pageVars, ownerVars>>

Steps == {"play", "menu", "saving", "written", "loading",
          "refresh", "query", "reopen", "bind", "off",
          "shutdown", "boot", "install", "over"}

Owner(s) == step' = s /\ UNCHANGED <<cause, after, gen, seen, failed>>

(* Between two frames: no interpreter is active, no page load under way. *)
Between == step = "play" /\ Ready /\ view = NoView

(* fxcg100_storage_note_mutation, then the write, which may move the image. *)
Write ==
  /\ gen < MaxWrites
  /\ gen' = gen + 1
  /\ Relocate \/ UNCHANGED norVars

-----------------------------------------------------------------------------
(* The menu *)

MenuOpen == Between /\ Owner("menu") /\ UNCHANGED <<norVars, pageVars>>

(* fxcg100_config_save *)
ConfigSave ==
  /\ step = "menu"
  /\ Write
  /\ UNCHANGED <<pageVars, step, cause, after, seen, failed>>

(* The early return of cgba_gpsp_storage_sync. *)
AlwaysInSync == TRUE

InSync == ~ failed /\ seen = gen

(* The menu closes on a resume, a save or a load: first cgba_gpsp_storage_sync. *)
MenuClose ==
  /\ step = "menu"
  /\ after' \in {"play", "loading"} \cup (IF gen < MaxWrites THEN {"saving"} ELSE {})
  /\ step' = IF InSync THEN after' ELSE "refresh"
  /\ cause' = "sync"
  /\ UNCHANGED <<norVars, pageVars, gen, seen, failed>>

(* The hotkeys do without. *)
SaveKey ==
  /\ Between /\ gen < MaxWrites
  /\ Owner("saving")
  /\ UNCHANGED <<norVars, pageVars>>

LoadKey == Between /\ Owner("loading") /\ UNCHANGED <<norVars, pageVars>>

Quit == step = "menu" /\ Owner("over") /\ UNCHANGED <<norVars, pageVars>>

-----------------------------------------------------------------------------
(* cgba_gpsp_state_save, cgba_gpsp_state_load *)

Scribbled == [s \in SlotIds |-> Wrong]

(* cgba_gamepak_scratch_acquire, and the state is assembled in the slots;   *)
(* then the file is written, well or not.                                   *)
SaveState ==
  /\ step = "saving"
  /\ CacheInvalidate
  /\ held' = Scribbled
  /\ Write
  /\ step' = "written"
  /\ UNCHANGED <<bound, guestVars, gpioVars, cause, after, seen, failed>>

(* cgba_gamepak_scratch_release, and the refresh whatever became of the file. *)
SaveRelease ==
  /\ step = "written"
  /\ CacheInvalidate
  /\ step' = "refresh" /\ cause' = "save" /\ after' = "play"
  /\ UNCHANGED <<norVars, bound, held, guestVars, gpioVars, gen, seen, failed>>

(* The state goes through the slots and, when it is accepted, gives the     *)
(* guest another program counter and other GPIO registers.                  *)
LoadState ==
  /\ step = "loading"
  /\ CacheInvalidate
  /\ held' = Scribbled
  /\ \/ /\ pc' \in ExecRegions \cup {NoPc}
        /\ gpio' \in Registers
        /\ drawn' = Redrawn(map', drawn, gpio')
     \/ UNCHANGED <<pc, gpioVars>>
  /\ step' = "play"
  /\ UNCHANGED <<norVars, bound, view, call, cause, after, gen, seen, failed>>

-----------------------------------------------------------------------------
(* cgba_refresh_rom_after_storage *)

RefreshBegin ==
  /\ step = "refresh"
  /\ UnmapPages
  /\ Owner("query")
  /\ UNCHANGED <<norVars, held, guestVars, gpioVars>>

(* The page cache and the guest as the owner of storage leaves them, with  *)
(* the buffer of page 0 in nor_rom.c's hands.                               *)
cacheVars == <<map, bound, queueVars, held, sticky, guestVars, gpio>>

(* The size and the first 0xC0 bytes are those of the image that was loaded. *)
AnyHeader == pages'[0] # Null

HeaderMatches == pages'[0] # Null /\ shadow' = "rom"

Query ==
  /\ step = "query"
  /\ \/ /\ RefreshRebuilt \/ RefreshThroughFile
        /\ Owner(IF HeaderMatches THEN "bind" ELSE "reopen")
     \/ RefreshFailed /\ Owner("reopen")
  /\ UNCHANGED cacheVars

Reopen ==
  /\ step = "reopen"
  /\ OpenPath
  /\ IF HeaderMatches THEN Owner("bind") ELSE Owner("off")
  /\ UNCHANGED cacheVars

(* cgba_gamepak_remap_pages, and the block table is published. *)
Bind ==
  /\ step = "bind"
  /\ RemapPages
  /\ bound' = ready
  /\ failed' = FALSE
  /\ seen' = gen
  /\ step' = after
  /\ UNCHANGED <<norVars, held, guestVars, gpio, cause, after, gen>>

NeverGivesUp == FALSE

GivesUp == cause = "sync"

(* The mapping failed.  After a save main.c tries once more, through        *)
(* cgba_gpsp_storage_sync; after that it gives up.                          *)
MappingFailed ==
  /\ step = "off"
  /\ bound' = FALSE
  /\ failed' = TRUE
  /\ step' = IF GivesUp THEN "over" ELSE "refresh"
  /\ cause' = "sync"
  /\ UNCHANGED <<norVars, map, queueVars, held, sticky, guestVars, gpioVars,
                 after, gen, seen>>

-----------------------------------------------------------------------------
(* A reset, or the same game chosen again *)

(* cgba_gpsp_shutdown: memory_term, and the image is closed. *)
Shutdown ==
  /\ step = "menu"
  /\ bound' = FALSE
  /\ CloseRom
  /\ failed' = FALSE
  /\ step' = "shutdown"
  /\ UNCHANGED <<map, queueVars, held, sticky, guestVars, gpioVars,
                 cause, after, gen, seen>>

(* A dirty backup is written last; nothing is open that could be refreshed. *)
BackupFlush ==
  /\ step = "shutdown"
  /\ \/ Write
     \/ UNCHANGED <<norVars, gen>>
  /\ seen' = gen'
  /\ step' = "boot"
  /\ UNCHANGED <<pageVars, cause, after, failed>>

(* cgba_gpsp_init as far as the image: the cache starts empty, and what is  *)
(* opened now is the image.                                                 *)
Boot ==
  /\ step = "boot" /\ disk.layout.sane
  /\ Emptied
  /\ OpenPath /\ fd' # "other"
  /\ seen' = gen
  /\ step' = IF fd' = "rom" THEN "install" ELSE "over"
  /\ UNCHANGED <<map, bound, held, sticky, guestVars, gpio,
                 cause, after, gen, failed>>

(* The block table is bound, load_gamepak_from_pages maps the pages and     *)
(* draws the registers as the last game left them, reset_gba clears them.   *)
Install ==
  /\ step = "install"
  /\ bound' = ready
  /\ map' = MapPages(Unmapped, pages)
  /\ drawn' = Redrawn(map', drawn, gpio)
  /\ gpio' = Hidden
  /\ pc' = NoPc
  /\ Owner("play")
  /\ UNCHANGED <<norVars, queueVars, held, sticky, view, call>>

-----------------------------------------------------------------------------
Play == step = "play" /\ (GuestStep \/ Resolve) /\ UNCHANGED <<norVars, ownerVars>>

StorageInit ==
  /\ step = "play" /\ cause = "sync" /\ after = "play"
  /\ gen = 0 /\ seen = 0 /\ failed = FALSE

SessionInit == Init /\ StorageInit

Refresh == RefreshBegin \/ Query \/ Reopen \/ Bind \/ MappingFailed

SessionNext ==
  \/ Play
  \/ MenuOpen \/ ConfigSave \/ MenuClose \/ SaveKey \/ LoadKey \/ Quit
  \/ SaveState \/ SaveRelease \/ LoadState
  \/ Refresh
  \/ Shutdown \/ BackupFlush \/ Boot \/ Install

SessionSpec ==
  SessionInit /\ [][SessionNext]_allVars /\ WF_allVars(Refresh)

-----------------------------------------------------------------------------
(* Properties *)

(* Every variable has its shape. *)
SessionTypeOK ==
  /\ TypeOK
  /\ step \in Steps
  /\ cause \in {"sync", "save"} /\ after \in {"play", "saving", "loading"}
  /\ gen \in 0 .. MaxWrites /\ seen \in 0 .. gen /\ failed \in BOOLEAN
  /\ fd \in Fds /\ shadow \in Images /\ ready \in BOOLEAN

(* While the guest plays, every cartridge address leads to the image as it  *)
(* lies in flash now, and a page that has to be gathered can be: no write   *)
(* to storage leaves a stale block address or a dead descriptor behind.     *)
PlaysTheImage ==
  step = "play" => MapFaithful /\ \A p \in Pages : GatherRight(p)

(* While the guest plays with a readable GPIO port it reads the registers   *)
(* at 0xC4, whatever gathered page 0 since it last wrote them: an eviction, *)
(* a savestate, or a refresh, which reads the cartridge's own bytes into    *)
(* the buffer behind the cache's back.                                      *)
PlaysTheRegisters == step = "play" => GpioCurrent

(* A session whose mapping failed is not played, and none is played while a *)
(* write to storage is unaccounted for.                                     *)
PlaysInSync == step = "play" => ~ failed /\ seen = gen

(* The page map leads into the cache's memory only where that memory holds  *)
(* the page: never while a savestate is assembled there, or after.  (A boot *)
(* empties the queue a moment before it clears the map.)                    *)
SlotsOwned ==
  step \notin {"install", "over"} =>
    \A e \in Windows \X Indices :
      map[e].kind = "slot" =>
        LET n == map[e].n IN held[n] = e[2] % RomPages /\ phy[n] = held[n]

(* A refresh ends, with the guest running again or with the session over.   *)
RefreshEnds == step = "refresh" ~> step \in {"play", "saving", "loading", "over"}

(* Seen from the interpreter this is a cartridge: the view it executes from *)
(* is out of use while a new one is looked up.                              *)
Viewing == view # NoView /\ (Ready \/ call.use # "execute")

Cart == INSTANCE Cartridge WITH
  Places  <- ExecRegions,
  Code    <- Image,
  Nowhere <- NoPc,
  phase   <- CASE step = "play" -> "playing" [] step = "over" -> "over"
               [] OTHER -> "paused",
  at      <- IF Viewing THEN pc ELSE NoPc,
  shows   <- IF Viewing THEN Found(view.ptr, view.off) ELSE NoPc

(* Across page loads, menus, savestates, relocations and resets, the        *)
(* interpreter executes the image's own code, and stops between frames.     *)
CartridgeRefined == Cart!Spec
=============================================================================
