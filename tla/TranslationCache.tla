-------------------------- MODULE TranslationCache --------------------------
(***************************************************************************)
(* The two translation caches of the SH-4 recompiler: block lookup, block  *)
(* translation with its recursive resolution of external exits, direct     *)
(* chaining, the cold-code gate, cache overflow and flush, the dispatch    *)
(* stubs' hot table, and the tag mirror that detects self-modifying code.  *)
(*                                                                         *)
(* Code of a cartridge address is emitted into the ROM cache and found     *)
(* through a hash of its key; code of work RAM is emitted into the RAM     *)
(* cache and found through a tag in a mirror of that RAM.  There is one    *)
(* guest thread: the steps of a resolution interleave with nothing else,   *)
(* and guest steps happen between resolutions.                             *)
(*                                                                         *)
(* Quantities are counted in instructions: a block of n instructions takes *)
(* n units of a cache, and RAM is an array of instruction slots.  EWRAM    *)
(* and IWRAM have the same tag scheme; one work RAM stands for both.       *)
(***************************************************************************)
EXTENDS Integers, Sequences, FiniteSets

CONSTANTS
  RomKeys,        \* keys (pc | thumb) of cartridge blocks
  RamKeys,        \* keys of work-RAM blocks
  Untranslated,   \* branch targets never linked: BIOS, or outside every domain
  Size,           \* [Keys -> length of the block when no cap shortens it]
  Exits,          \* [Keys -> Seq([at : position, to : target])], by position
  First,          \* [RamKeys -> slot of the block's first instruction]
  Thumb,          \* [RamKeys -> BOOLEAN], the instruction set of the key
  Slots,          \* number of instruction slots of work RAM
  Values,         \* what a slot may contain
  RomSize, RamSize,     \* ROM_, RAM_TRANSLATION_CACHE_SIZE
  Reserve,        \* TRANSLATION_CACHE_LIMIT_THRESHOLD
  HdrSize,        \* size of a hashhdr_type
  TagSize,        \* size of a ramtag_type
  RomWatermark, RamWatermark,  \* first offset used after a flush
  RomStart,       \* first offset used after init_dynarec_caches
  MaxBlock, CapFloor,   \* initial and least scan cap
  HotThreshold, FlushLeak,     \* cold gate: threshold and decay per flush
  HeatIncrements, \* what an interpreted branch may add to a counter
  HeatIdx,        \* [RomKeys -> index in cgba_hot_count]
  HotIdx,         \* [RomKeys -> index in the dual hot table]
  InterpStores    \* slots that interpreted code (cold chunks, BIOS) writes

Keys     == RomKeys \cup RamKeys
Caches   == {"rom", "ram"}
RamSlots == 0 .. Slots - 1
HeatSlots == {HeatIdx[k] : k \in RomKeys}
HotSlots == {HotIdx[k] : k \in RomKeys}

Data == 0         \* tag of a slot never translated
Code == -1        \* tag of a slot inside a block, 0x0101 in the source
Tags == 1 .. RamSize
Attempts == 4     \* for (i = 0; i < 4; i++) in block_lookup_address_*

NoKey   == "none"
Nowhere == [cache |-> "none", off |-> 0]
NoEntry == [key |-> NoKey, loc |-> Nowhere]

ASSUME KeysAssumption ==
  /\ RomKeys \cap RamKeys = {}
  /\ Untranslated \cap Keys = {}
  /\ NoKey \notin Keys
  /\ \A j, k \in RamKeys : First[j] = First[k] /\ Thumb[j] = Thumb[k] => j = k
ASSUME SizeAssumption ==
  /\ Slots \in Nat \ {0}
  /\ Size \in [Keys -> Nat \ {0}]
  /\ First \in [RamKeys -> RamSlots]
  /\ \A k \in RamKeys : First[k] + Size[k] <= Slots
  /\ Thumb \in [RamKeys -> BOOLEAN]
ASSUME CacheAssumption ==
  /\ {RomSize, RamSize, Reserve, RomStart} \subseteq Nat
  /\ {HdrSize, TagSize, RomWatermark, RamWatermark} \subseteq Nat \ {0}
  /\ {MaxBlock, CapFloor} \subseteq Nat \ {0}
  /\ RamWatermark < RamSize /\ RomWatermark < RomSize /\ RomStart < RomSize
ASSUME HeatAssumption ==
  /\ {HotThreshold, FlushLeak} \subseteq Nat
  /\ HeatIncrements \subseteq Nat
ASSUME ExitAssumption ==
  Exits \in [Keys -> Seq([at : Nat, to : Keys \cup Untranslated])]

VARIABLES
  mode,      \* "guest", "interp" or "lookup"
  cur,       \* location of the translated block that runs, or Nowhere
  want,      \* key the resolver was called for, or NoKey
  attempt,   \* tries made for it
  stack,     \* nested translate_block calls resolving exits, innermost first
  code,      \* emitted blocks that a flush has not discarded
  links,     \* exits patched to jump straight to a block
  romPtr, ramPtr,        \* rom_translation_ptr, ram_translation_ptr
  romHash,   \* rom_branch_hash with its chains: key -> header offset, 0 = none
  tag,       \* the tag mirror of work RAM
  entry,     \* ramtag_type table: tag -> offset_arm, offset_thumb
  nextTag,   \* ram_block_tag, counted upwards from 1
  codeMin, codeMax,      \* iwram_code_min, iwram_code_max
  cap,       \* cgba_{ram,rom}_block_scan_cap
  heat,      \* cgba_hot_count
  hot,       \* cgba_dynarec_dual_hot_key / _ptr
  ram        \* guest work RAM

resolver == <<mode, want, attempt, stack>>
ramSide  == <<ramPtr, tag, entry, nextTag, codeMin, codeMax>>
romSide  == <<romPtr, romHash>>
caches   == <<code, links, romSide, ramSide, cap, heat, hot>>
vars     == <<resolver, cur, caches, ram>>

-----------------------------------------------------------------------------
Least(a, b)    == IF a < b THEN a ELSE b
Greatest(a, b) == IF a > b THEN a ELSE b

CacheOf(k) == IF k \in RomKeys THEN "rom" ELSE "ram"

(* The scan stops at the domain's cap even when the block goes on. *)
BlockLen(k) == Least(Size[k], cap[CacheOf(k)])

CoveredBy(k, n) == First[k] .. First[k] + n - 1

(* Offset of the translation of k, or 0: the hash walk for a ROM key, the  *)
(* tag and its table entry for a RAM key.                                  *)
Found(k) ==
  IF k \in RomKeys THEN romHash[k]
  ELSE IF tag[First[k]] > 0 THEN entry[tag[First[k]]][Thumb[k]]
  ELSE 0

FoundLoc(k) == [cache |-> CacheOf(k), off |-> Found(k)]

(* The cold gate refuses to translate a cartridge block that has not proven *)
(* hot; RAM blocks are not gated.                                           *)
Cold(k) == k \in RomKeys /\ heat[HeatIdx[k]] < HotThreshold

(* translation_cache_limit; the RAM cache's tag table grows down to it.     *)
RomLimit    == RomSize - Reserve
RamLimitNoTable(n) == RamSize - Reserve
RamLimit(n) == RamSize - Reserve - n * TagSize

-----------------------------------------------------------------------------
(* Flushing *)

NoHot == [s \in HotSlots |-> NoEntry]

(* Leaky decay of the cold gate's counters. *)
Cooled(ht) == [h \in HeatSlots |-> Greatest(ht[h] - FlushLeak, 0)]

ClearTagsShort(tg, lo, hi) ==
  [u \in RamSlots |-> IF lo # Slots /\ (lo < hi => u \in lo .. hi - 1) THEN Data ELSE tg[u]]

(* Tags are wiped only between the lowest and the highest slot translated   *)
(* since the last flush; lo = Slots is the "nothing translated" sentinel.   *)
ClearTags(tg, lo, hi) ==
  [u \in RamSlots |->
     IF lo # Slots /\ (lo < hi => u \in (lo \div 4) * 4 .. hi + 1) THEN Data ELSE tg[u]]

FlushRom(ht) ==
  /\ romPtr' = RomWatermark
  /\ romHash' = [k \in RomKeys |-> 0]
  /\ heat' = Cooled(ht)

FlushRam(tg, lo, hi) ==
  /\ ramPtr' = RamWatermark
  /\ tag' = ClearTags(tg, lo, hi)
  /\ nextTag' = 1
  /\ codeMin' = Slots
  /\ codeMax' = 0

DiscardKeepHot(cs) ==
  /\ code' = {b \in code : b.loc.cache \notin cs}
  /\ links' = {l \in links : l.from.cache \notin cs}
  /\ UNCHANGED hot

(* What the flush functions do to the code they drop and to the hot table.  *)
Discard(cs) ==
  /\ code' = {b \in code : b.loc.cache \notin cs}
  /\ links' = {l \in links : l.from.cache \notin cs}
  /\ hot' = NoHot

(* flush_dynarec_caches *)
FlushBoth(ht) ==
  /\ FlushRom(ht)
  /\ FlushRam(tag, 0, Slots)
  /\ Discard(Caches)
  /\ UNCHANGED <<entry, cap>>

(* flush_translation_cache_ram *)
FlushRamNow ==
  /\ FlushRam(tag, codeMin, codeMax)
  /\ Discard({"ram"})
  /\ UNCHANGED <<romSide, entry, cap, heat>>

-----------------------------------------------------------------------------
(* Translating one block, without the resolution of its exits *)

Fresh(k)    == tag[First[k]] <= 0
TagFor(k)   == IF Fresh(k) THEN nextTag ELSE tag[First[k]]
TagsUsed(k) == IF Fresh(k) THEN nextTag ELSE nextTag - 1

(* Where emission starts and what it may not exceed. *)
Base(k)  == IF k \in RomKeys THEN romPtr + HdrSize ELSE ramPtr
Limit(k) == IF k \in RomKeys THEN RomLimit ELSE RamLimit(TagsUsed(k))
Fits(k)  == Base(k) + BlockLen(k) <= Limit(k)

(* Instructions emitted before the overflow test fires: at least one.       *)
Emitted(k) == Greatest(1, Limit(k) - Base(k) + 1)

TagStartOnly(k) == [tag EXCEPT ![First[k]] = TagFor(k)]

(* The lookup publishes the entry before it translates, and the scan tags   *)
(* every slot of the block before the first instruction is emitted.         *)
TagBlock(k) ==
  [u \in RamSlots |->
     IF u = First[k] THEN TagFor(k)
     ELSE IF u \in CoveredBy(k, BlockLen(k)) /\ tag[u] = Data THEN Code
     ELSE tag[u]]

PublishedStale(k) == [entry EXCEPT ![TagFor(k)][Thumb[k]] = ramPtr]

Published(k) ==
  [entry EXCEPT ![TagFor(k)] =
     [b \in BOOLEAN |-> IF b = Thumb[k] THEN ramPtr ELSE IF Fresh(k) THEN 0 ELSE @[b]]]

(* update_pc_limits over the first n instructions of block k. *)
NewMin(k)    == Least(First[k], codeMin)
NewMax(k, n) == Greatest(First[k] + n - 1, codeMax)

NewLoc(k) == [cache |-> CacheOf(k), off |-> IF k \in RomKeys THEN romPtr ELSE ramPtr]

NewBlock(k) ==
  [loc |-> NewLoc(k), key |-> k, len |-> BlockLen(k),
   src |-> IF k \in RamKeys THEN [u \in CoveredBy(k, BlockLen(k)) |-> ram[u]] ELSE <<>>]

Emit(k) ==
  /\ Fits(k)
  /\ code' = code \cup {NewBlock(k)}
  /\ IF k \in RomKeys
     THEN /\ romHash' = [romHash EXCEPT ![k] = romPtr]
          /\ romPtr' = romPtr + HdrSize + BlockLen(k)
          /\ UNCHANGED ramSide
     ELSE /\ tag' = TagBlock(k)
          /\ entry' = Published(k)
          /\ nextTag' = TagsUsed(k) + 1
          /\ ramPtr' = ramPtr + BlockLen(k)
          /\ codeMin' = NewMin(k)
          /\ codeMax' = NewMax(k, BlockLen(k))
          /\ UNCHANGED romSide
  /\ UNCHANGED <<cap, heat, hot>>

NeverShrunk(k) == cap

HalvedNoFloor(k) == [cap EXCEPT ![CacheOf(k)] = @ \div 2]

(* cgba_block_overflow_shrink *)
Shrunk(k) ==
  LET c    == CacheOf(k)
      size == IF k \in RomKeys THEN RomSize ELSE RamSize
  IN  IF 4 * Emitted(k) > size
      THEN [cap EXCEPT ![c] = Greatest(@ \div 2, CapFloor)]
      ELSE cap

(* The attempt overflows: its cache is flushed and every nested call fails. *)
Overflow(k) ==
  /\ ~ Fits(k)
  /\ cap' = Shrunk(k)
  /\ IF k \in RomKeys
     THEN /\ FlushRom(heat)
          /\ UNCHANGED ramSide
     ELSE /\ FlushRam(TagBlock(k), NewMin(k), NewMax(k, Emitted(k)))
          /\ entry' = Published(k)
          /\ UNCHANGED <<romSide, heat>>
  /\ Discard({CacheOf(k)})

-----------------------------------------------------------------------------
(* block_lookup_address_*: up to four attempts at the wanted key *)

(* A call of translate_block after it has emitted its block: i is its loop  *)
(* counter over the exits that the block of len instructions contains.      *)
Frame(k) == [key |-> k, loc |-> NewLoc(k), len |-> BlockLen(k), i |-> 1]

(* The resolver returns host code, and the stub jumps to it. *)
EnterBlock(loc) ==
  /\ mode' = "guest"
  /\ cur' = loc
  /\ want' = NoKey
  /\ attempt' = 0
  /\ stack' = <<>>

AtTop == mode = "lookup" /\ stack = <<>> /\ attempt < Attempts

TopFound ==
  /\ AtTop
  /\ Found(want) # 0
  /\ EnterBlock(FoundLoc(want))
  /\ UNCHANGED <<caches, ram>>

(* A cold key is heated, and the stub interprets a chunk of it instead. *)
TopCold ==
  /\ AtTop
  /\ Found(want) = 0 /\ Cold(want)
  /\ heat' = [heat EXCEPT ![HeatIdx[want]] = @ + 1]
  /\ mode' = "interp"
  /\ want' = NoKey
  /\ attempt' = 0
  /\ UNCHANGED <<stack, cur, code, links, romSide, ramSide, cap, hot, ram>>

TopTranslate ==
  /\ AtTop
  /\ Found(want) = 0 /\ ~ Cold(want)
  /\ Emit(want)
  /\ stack' = <<Frame(want)>>
  /\ UNCHANGED <<mode, want, attempt, cur, links, ram>>

TopOverflow ==
  /\ AtTop
  /\ Found(want) = 0 /\ ~ Cold(want)
  /\ Overflow(want)
  /\ attempt' = attempt + 1
  /\ UNCHANGED <<mode, want, stack, cur, ram>>

(* "bad jump": NULL without a cold key.  REDISPATCH_IF_NULL goes back to    *)
(* lookup_pc, which misses the hash again and calls the resolver anew.      *)
GiveUp ==
  /\ mode = "lookup" /\ attempt = Attempts
  /\ attempt' = 0
  /\ UNCHANGED <<mode, want, stack, cur, caches, ram>>

-----------------------------------------------------------------------------
(* Resolution of the external exits of the innermost block, in order *)

ExitOf(f)  == Exits[f.key][f.i]
Pending(f) == f.i <= Len(Exits[f.key]) /\ ExitOf(f).at < f.len

Resolving == mode = "lookup" /\ stack # <<>> /\ Pending(Head(stack))
Finished  == mode = "lookup" /\ stack # <<>> /\ ~ Pending(Head(stack))

Target == ExitOf(Head(stack)).to

(* The stack after its innermost call has dealt with its next exit. *)
Advanced(s) == <<[Head(s) EXCEPT !.i = @ + 1]>> \o Tail(s)

Link(f, loc) == [from |-> f.loc, exit |-> f.i, to |-> loc]

PatchedAcross(f, loc) == links \cup {Link(f, loc)}

(* Exits are patched within one cache only; others keep dispatching.        *)
Patched(f, loc) ==
  IF f.loc.cache = loc.cache THEN links \cup {Link(f, loc)} ELSE links

ExitSkipHeats ==
  /\ Resolving
  /\ \/ Target \in Untranslated /\ UNCHANGED heat
     \/ /\ Target \in RomKeys /\ Found(Target) = 0 /\ Cold(Target)
        /\ heat' = [heat EXCEPT ![HeatIdx[Target]] = @ + 1]
  /\ stack' = Advanced(stack)
  /\ UNCHANGED <<mode, want, attempt, cur, code, links, romSide, ramSide, cap, hot, ram>>

(* BIOS targets, the wild-target sentinel, and cold targets: a probe of the *)
(* gate does not heat.                                                      *)
ExitSkip ==
  /\ Resolving
  /\ \/ Target \in Untranslated
     \/ Target \in RomKeys /\ Found(Target) = 0 /\ Cold(Target)
  /\ stack' = Advanced(stack)
  /\ UNCHANGED <<mode, want, attempt, cur, caches, ram>>

ExitFound ==
  /\ Resolving
  /\ Target \in Keys
  /\ Found(Target) # 0
  /\ links' = Patched(Head(stack), FoundLoc(Target))
  /\ stack' = Advanced(stack)
  /\ UNCHANGED <<mode, want, attempt, cur, code, romSide, ramSide, cap, heat, hot, ram>>

ExitTranslate ==
  /\ Resolving
  /\ Target \in Keys
  /\ Found(Target) = 0 /\ ~ Cold(Target)
  /\ Emit(Target)
  /\ stack' = <<Frame(Target)>> \o stack
  /\ UNCHANGED <<mode, want, attempt, cur, links, ram>>

(* A nested overflow returns false through every level. *)
ExitOverflow ==
  /\ Resolving
  /\ Target \in Keys
  /\ Found(Target) = 0 /\ ~ Cold(Target)
  /\ Overflow(Target)
  /\ stack' = <<>>
  /\ attempt' = attempt + 1
  /\ UNCHANGED <<mode, want, cur, ram>>

(* translate_block returns true: the caller patches its exit, or the stub   *)
(* jumps to the block.                                                      *)
ReturnNested ==
  /\ Finished
  /\ Tail(stack) # <<>>
  /\ links' = Patched(Head(Tail(stack)), Head(stack).loc)
  /\ stack' = Advanced(Tail(stack))
  /\ UNCHANGED <<mode, want, attempt, cur, code, romSide, ramSide, cap, heat, hot, ram>>

ReturnTop ==
  /\ Finished
  /\ Tail(stack) = <<>>
  /\ EnterBlock(Head(stack).loc)
  /\ UNCHANGED <<caches, ram>>

Resolve ==
  \/ TopFound \/ TopCold \/ TopTranslate \/ TopOverflow \/ GiveUp
  \/ ExitSkip \/ ExitFound \/ ExitTranslate \/ ExitOverflow
  \/ ReturnNested \/ ReturnTop

-----------------------------------------------------------------------------
(* Guest steps between resolutions *)

Running == mode = "guest" /\ cur # Nowhere

(* A patched exit jumps from block to block with no dispatch. *)
FollowLink ==
  /\ Running
  /\ \E l \in links : l.from = cur /\ cur' = l.to
  /\ UNCHANGED <<resolver, caches, ram>>

(* sh4_indirect_branch_dual: the hot table, then the ROM hash. *)
DispatchHot(k) ==
  /\ mode = "guest"
  /\ hot[HotIdx[k]].key = k
  /\ cur' = hot[HotIdx[k]].loc
  /\ UNCHANGED <<resolver, caches, ram>>

DispatchHash(k) ==
  /\ mode = "guest"
  /\ romHash[k] # 0
  /\ cur' = FoundLoc(k)
  /\ hot' = [hot EXCEPT ![HotIdx[k]] = [key |-> k, loc |-> FoundLoc(k)]]
  /\ UNCHANGED <<resolver, code, links, romSide, ramSide, cap, heat, ram>>

(* sh4_indirect_branch_arm and _thumb, and lookup_pc through them: the hash *)
(* alone.                                                                   *)
DispatchCurrent(k) ==
  /\ mode = "guest"
  /\ romHash[k] # 0
  /\ cur' = FoundLoc(k)
  /\ UNCHANGED <<resolver, caches, ram>>

DispatchSlow(k) ==
  /\ mode = "guest"
  /\ k \in RomKeys => romHash[k] = 0
  /\ mode' = "lookup"
  /\ want' = k
  /\ cur' = Nowhere
  /\ UNCHANGED <<attempt, stack, caches, ram>>

DispatchBios ==
  /\ mode = "guest"
  /\ mode' = "interp"
  /\ cur' = Nowhere
  /\ UNCHANGED <<want, attempt, stack, caches, ram>>

Dispatch ==
  \/ \E k \in RomKeys : DispatchHot(k) \/ DispatchHash(k) \/ DispatchCurrent(k)
  \/ \E k \in Keys : DispatchSlow(k)
  \/ DispatchBios

Write(u, v) == ram' = [ram EXCEPT ![u] = v]

StoreTaggedResume(u, v) ==
  /\ tag[u] # Data
  /\ Write(u, v)
  /\ FlushRamNow
  /\ UNCHANGED cur

(* A store of a running block probes the mirror after it writes; a tagged   *)
(* slot flushes the RAM cache, and the block is left for lookup_pc.         *)
StoreTagged(u, v) ==
  /\ tag[u] # Data
  /\ Write(u, v)
  /\ FlushRamNow
  /\ cur' = Nowhere

StorePlain(u, v) ==
  /\ tag[u] = Data
  /\ Write(u, v)
  /\ UNCHANGED <<cur, caches>>

JitStore ==
  /\ Running
  /\ \E u \in RamSlots, v \in Values : StoreTagged(u, v) \/ StorePlain(u, v)
  /\ UNCHANGED resolver

DmaStoreQuiet ==
  /\ mode \in {"guest", "interp"}
  /\ \E u \in RamSlots, v \in Values : Write(u, v)
  /\ UNCHANGED <<resolver, cur, caches>>

(* Scheduled DMA, run by update_gba while a block or an interpreted chunk   *)
(* is suspended: an SMC hit flushes and forbids resuming the block.         *)
DmaStore ==
  /\ mode \in {"guest", "interp"}
  /\ \E u \in RamSlots, v \in Values : StoreTagged(u, v) \/ StorePlain(u, v)
  /\ UNCHANGED resolver

(* A write to WAITCNT flushes both caches; translated code then redispatches *)
Waitcnt ==
  /\ mode \in {"guest", "interp"}
  /\ FlushBoth(heat)
  /\ cur' = Nowhere
  /\ UNCHANGED <<resolver, ram>>

(* A state is loaded between two frames.  gba_load_state replaces work RAM  *)
(* and flushes both caches, and its caller flushes both again; of a file    *)
(* that gba_load_state refuses only the second flush takes place.           *)
LoadState ==
  /\ mode = "guest"
  /\ ram' \in [RamSlots -> Values]
  /\ FlushBoth(Cooled(heat))
  /\ cur' = Nowhere
  /\ UNCHANGED resolver

LoadRefused ==
  /\ mode = "guest"
  /\ FlushRom(heat)
  /\ FlushRam(tag, codeMin, codeMax)
  /\ Discard(Caches)
  /\ cur' = Nowhere
  /\ UNCHANGED <<resolver, entry, cap, ram>>

-----------------------------------------------------------------------------
(* Interpreted chunks: cold cartridge code and BIOS routines *)

(* fast_write_memory and the slow path behind it do not read the tags.      *)
InterpStore ==
  /\ mode = "interp"
  /\ \E u \in InterpStores, v \in Values : Write(u, v)
  /\ UNCHANGED <<resolver, cur, caches>>

(* A taken branch to k heats it up to the threshold, which ends the chunk.  *)
InterpBranch(k) ==
  /\ mode = "interp"
  /\ \E inc \in HeatIncrements :
       heat' = [heat EXCEPT ![HeatIdx[k]] = Least(@ + inc, HotThreshold)]
  /\ mode' = IF heat'[HeatIdx[k]] = HotThreshold THEN "guest" ELSE "interp"
  /\ UNCHANGED <<want, attempt, stack, cur, code, links, romSide, ramSide, cap, hot, ram>>

(* The chunk's budget or the BIOS routine ends. *)
InterpDone ==
  /\ mode = "interp"
  /\ mode' = "guest"
  /\ UNCHANGED <<want, attempt, stack, cur, caches, ram>>

-----------------------------------------------------------------------------
(* init_dynarec_caches, at power-on and again at every ROM load or reset    *)

NoEntries == [t \in Tags |-> [b \in BOOLEAN |-> 0]]

Init ==
  /\ mode = "guest" /\ cur = Nowhere /\ want = NoKey /\ attempt = 0 /\ stack = <<>>
  /\ code = {} /\ links = {}
  /\ romPtr = RomStart /\ ramPtr = RamWatermark
  /\ romHash = [k \in RomKeys |-> 0]
  /\ tag = [u \in RamSlots |-> Data]
  /\ entry = NoEntries
  /\ nextTag = 1
  /\ codeMin = 0 /\ codeMax = Slots
  /\ cap = [c \in Caches |-> MaxBlock]
  /\ heat = [h \in HeatSlots |-> 0]
  /\ hot = NoHot
  /\ ram \in [RamSlots -> Values]

Reset ==
  /\ mode = "guest"
  /\ cur' = Nowhere
  /\ code' = {} /\ links' = {} /\ hot' = NoHot
  /\ romPtr' = RomStart /\ ramPtr' = RamWatermark
  /\ romHash' = [k \in RomKeys |-> 0]
  /\ tag' = [u \in RamSlots |-> Data]
  /\ codeMin' = 0 /\ codeMax' = Slots
  /\ cap' = [c \in Caches |-> MaxBlock]
  /\ heat' = [h \in HeatSlots |-> 0]
  /\ ram' \in [RamSlots -> Values]
  /\ UNCHANGED <<resolver, entry, nextTag>>

Guest ==
  \/ FollowLink \/ Dispatch \/ JitStore \/ DmaStore \/ Waitcnt
  \/ LoadState \/ LoadRefused
  \/ InterpStore \/ InterpDone \/ \E k \in RomKeys : InterpBranch(k)
  \/ Reset

Next == Resolve \/ Guest

(* The resolver is a C function on the only thread: once called it runs.    *)
Spec == Init /\ [][Next]_vars /\ WF_vars(Resolve)

-----------------------------------------------------------------------------
(* Properties *)

Loc   == [cache : Caches, off : Nat]

(* Every variable has its shape: offsets and heat are naturals, the tag     *)
(* table is long enough for every tag that is handed out, and the scan caps *)
(* never fall to zero (which would stop translate_block from progressing).  *)
TypeOK ==
  /\ mode \in {"guest", "interp", "lookup"}
  /\ cur \in Loc \cup {Nowhere}
  /\ want \in Keys \cup {NoKey}
  /\ mode = "lookup" <=> want \in Keys
  /\ attempt \in 0 .. Attempts
  /\ romPtr \in Nat /\ ramPtr \in Nat
  /\ romHash \in [RomKeys -> Nat]
  /\ tag \in [RamSlots -> Tags \cup {Data, Code}]
  /\ entry \in [Tags -> [BOOLEAN -> Nat]]
  /\ nextTag \in Nat \ {0}
  /\ codeMin \in 0 .. Slots /\ codeMax \in 0 .. Slots
  /\ cap \in [Caches -> Nat \ {0}]
  /\ heat \in [HeatSlots -> 0 .. HotThreshold]
  /\ hot \in [HotSlots -> [key : RomKeys \cup {NoKey}, loc : Loc \cup {Nowhere}]]
  /\ ram \in [RamSlots -> Values]

LiveAs(loc, k) == \E b \in code : b.loc = loc /\ b.key = k
Live(loc)      == \E b \in code : b.loc = loc

(* A patched exit leads to code that no flush has discarded, in the same    *)
(* cache, and that is the translation of that exit's target: flushing one   *)
(* cache never leaves a dangling chain in the other.                        *)
NoDanglingLink ==
  \A l \in links :
    /\ l.from.cache = l.to.cache
    /\ \E b \in code :
         /\ b.loc = l.from
         /\ l.exit \in DOMAIN Exits[b.key]
         /\ LiveAs(l.to, Exits[b.key][l.exit].to)

(* What the dispatch stubs read without calling the resolver, the ROM hash  *)
(* and the dual hot table, names live code of exactly that key.             *)
StubTablesLive ==
  /\ \A k \in RomKeys : romHash[k] # 0 => LiveAs(FoundLoc(k), k)
  /\ \A s \in HotSlots : hot[s].key \in RomKeys => LiveAs(hot[s].loc, hot[s].key)

(* A tag that survives in the mirror and its table entry name live code of  *)
(* that RAM address and instruction set, although a flush wipes only the    *)
(* range of tags it believes used and never wipes the table itself.         *)
RamTagsLive == \A k \in RamKeys : Found(k) # 0 => LiveAs(FoundLoc(k), k)

EndOf(b) == b.loc.off + b.len + (IF b.key \in RomKeys THEN HdrSize ELSE 0)

(* Emitted blocks never overlap, and the RAM cache's code never grows into  *)
(* the tag table that grows down from the end of the same memory.           *)
BlocksDisjoint ==
  /\ \A b, c \in code :
       b # c /\ b.loc.cache = c.loc.cache =>
         EndOf(b) <= c.loc.off \/ EndOf(c) <= b.loc.off
  /\ \A b \in code :
       b.loc.cache = "ram" => EndOf(b) <= RamSize - (nextTag - 1) * TagSize

(* Every slot a live RAM block was translated from carries a tag, so that a *)
(* store or a DMA write to it is seen as self-modification.                 *)
StoresDetected ==
  \A b \in code : b.key \in RamKeys =>
    \A u \in CoveredBy(b.key, b.len) : tag[u] # Data

(* A live RAM block still is the translation of what RAM contains.          *)
Coherent ==
  \A b \in code : b.key \in RamKeys =>
    \A u \in CoveredBy(b.key, b.len) : ram[u] = b.src[u]

(* The translated block that runs has not been discarded under it: every    *)
(* flush during a block ends in a dispatch, not in a return to the block.   *)
RunningLive == cur # Nowhere => Live(cur)

(* The resolver hands the stub a live translation of the key it was asked   *)
(* for, however many flushes and nested translations the request took.      *)
ResolvesWanted ==
  [][mode = "lookup" /\ mode' = "guest" =>
       \E b \in code' : b.loc = cur' /\ b.key = want]_vars

(* Resolving the exits of a block never makes any code hotter: without this *)
(* a retranslation would heat branch targets that never run.                *)
ProbeNeverHeats ==
  [][stack # <<>> => \A h \in HeatSlots : heat'[h] <= heat[h]]_vars

(* A dispatch ends: after flushes, retries and shrunken blocks the guest    *)
(* runs translated or interpreted code again.                               *)
DispatchTerminates == mode = "lookup" ~> mode # "lookup"

=============================================================================
