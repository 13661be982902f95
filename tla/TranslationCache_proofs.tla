----------------------- MODULE TranslationCache_proofs -----------------------
(***************************************************************************)
(* Proofs about TranslationCache for every set of blocks, every cache size *)
(* and every work RAM: the type invariant, the liveness of whatever the    *)
(* dispatch tables and the patched exits name, and the detection of        *)
(* self-modifying code.                                                    *)
(*                                                                         *)
(* CacheInv is inductive over what translation and flushing do to the      *)
(* caches; CallInv relates the calls in progress and the running block to  *)
(* them.  Together they are the inductive invariant IInv.                  *)
(***************************************************************************)
EXTENDS TranslationCache, TLAPS

CacheType ==
  /\ romPtr \in Nat /\ ramPtr \in Nat
  /\ romHash \in [RomKeys -> Nat]
  /\ tag \in [RamSlots -> Tags \cup {Data, Code}]
  /\ entry \in [Tags -> [BOOLEAN -> Nat]]
  /\ nextTag \in Nat \ {0}
  /\ codeMin \in 0 .. Slots /\ codeMax \in 0 .. Slots
  /\ cap \in [Caches -> Nat \ {0}]
  /\ heat \in [HeatSlots -> 0 .. HotThreshold]
  /\ hot \in [HotSlots -> [key : RomKeys \cup {NoKey}, loc : Loc \cup {Nowhere}]]

(* Emitted code lies below its cache's pointer. *)
BlockOK(b) ==
  /\ b.key \in Keys
  /\ b.loc \in Loc /\ b.loc.cache = CacheOf(b.key)
  /\ b.len \in Nat \ {0} /\ b.len <= Size[b.key]
  /\ EndOf(b) <= IF b.key \in RomKeys THEN romPtr ELSE ramPtr

CodeOK == \A b \in code : BlockOK(b)

(* Links are records of two locations and the number of an exit. *)
LinksOK == links \subseteq [from : Loc, exit : Nat, to : Loc]

(* The tag table stays clear of the code below it. *)
TableOK ==
  /\ RamWatermark <= ramPtr
  /\ ramPtr + (nextTag - 1) * TagSize <= RamSize

(* Start tags are distinct, were handed out since the last flush, and lie   *)
(* in the range that the next flush wipes.                                  *)
TagsOK ==
  /\ \A u \in RamSlots : tag[u] > 0 =>
       tag[u] < nextTag /\ codeMin <= u /\ u <= codeMax
  /\ \A u, v \in RamSlots : tag[u] > 0 /\ tag[u] = tag[v] => u = v

CacheInv ==
  /\ CacheType
  /\ CodeOK
  /\ LinksOK
  /\ TableOK
  /\ TagsOK
  /\ NoDanglingLink
  /\ StubTablesLive
  /\ RamTagsLive
  /\ StoresDetected

FrameOK(f) ==
  /\ f \in [key : Keys, loc : Loc, len : Nat, i : Nat \ {0}]
  /\ LiveAs(f.loc, f.key)

(* Every call in progress works on a live block; all but the innermost wait *)
(* for the translation of the exit they stand at; the outermost is the      *)
(* request itself.                                                          *)
StackOK ==
  /\ stack \in Seq([key : Keys, loc : Loc, len : Nat, i : Nat \ {0}])
  /\ \A j \in 1 .. Len(stack) : FrameOK(stack[j])
  /\ \A j \in 2 .. Len(stack) :
       Pending(stack[j]) /\ ExitOf(stack[j]).to = stack[j - 1].key
  /\ stack # <<>> => stack[Len(stack)].key = want

CallInv ==
  /\ mode \in {"guest", "interp", "lookup"}
  /\ cur \in Loc \cup {Nowhere}
  /\ want \in Keys \cup {NoKey}
  /\ mode = "lookup" <=> want \in Keys
  /\ attempt \in 0 .. Attempts
  /\ ram \in [RamSlots -> Values]
  /\ mode # "lookup" => stack = <<>>
  /\ stack # <<>> => attempt < Attempts
  /\ mode = "lookup" => cur = Nowhere
  /\ StackOK
  /\ RunningLive

IInv == CacheInv /\ CallInv

-----------------------------------------------------------------------------
(* Facts about the operators *)

(* A block of a legal length lies inside work RAM. *)
LEMMA CoveredInRam ==
  ASSUME NEW k \in RamKeys, NEW n \in Nat, n <= Size[k]
  PROVE  CoveredBy(k, n) \subseteq RamSlots
BY SizeAssumption DEF CoveredBy, RamSlots, Keys

(* The scan yields at least one instruction and at most the whole block. *)
LEMMA BlockLenType ==
  ASSUME CacheType, NEW k \in Keys
  PROVE  BlockLen(k) \in Nat \ {0} /\ BlockLen(k) <= Size[k]
<1>1. Size[k] \in Nat \ {0}
  BY SizeAssumption
<1>2. cap[CacheOf(k)] \in Nat \ {0}
  BY DEF CacheType, CacheOf, Caches
<1> QED
  BY <1>1, <1>2 DEF BlockLen, Least

(* The range a flush wipes contains every start tag between lo and hi. *)
LEMMA ClearTagsComplete ==
  ASSUME NEW tg \in [RamSlots -> Tags \cup {Data, Code}],
         NEW lo \in 0 .. Slots, NEW hi \in 0 .. Slots,
         \A u \in RamSlots : tg[u] > 0 => lo <= u /\ u <= hi
  PROVE  /\ ClearTags(tg, lo, hi) \in [RamSlots -> Tags \cup {Data, Code}]
         /\ \A u \in RamSlots : ~ (ClearTags(tg, lo, hi)[u] > 0)
<1>1. ASSUME NEW u \in RamSlots, tg[u] > 0
      PROVE  lo # Slots /\ (lo < hi => u \in (lo \div 4) * 4 .. hi + 1)
  <2>1. lo <= u /\ u <= hi /\ u \in Int /\ u < Slots
    BY <1>1, SizeAssumption DEF RamSlots
  <2>2. (lo \div 4) * 4 <= lo /\ (lo \div 4) * 4 \in Int
    BY SizeAssumption
  <2> QED
    BY <2>1, <2>2, SizeAssumption
<1> QED
  BY <1>1 DEF ClearTags, Data, Code

(* A flush leaves no RAM key findable. *)
LEMMA NotFoundUntagged ==
  ASSUME NEW k \in RamKeys, ~ (tag[First[k]] > 0)
  PROVE  Found(k) = 0
BY KeysAssumption DEF Found

(* Decay keeps counters in range. *)
LEMMA CooledType ==
  ASSUME NEW ht \in [HeatSlots -> 0 .. HotThreshold]
  PROVE  Cooled(ht) \in [HeatSlots -> 0 .. HotThreshold]
BY HeatAssumption DEF Cooled, Greatest

LEMMA NoHotType == NoHot \in [HotSlots -> [key : RomKeys \cup {NoKey}, loc : Loc \cup {Nowhere}]]
BY DEF NoHot, NoEntry

-----------------------------------------------------------------------------
(* Translation of a block preserves CacheInv *)

(* What both kinds of block share: nothing that was live is lost. *)
LEMMA EmitLive ==
  ASSUME NEW k \in Keys, Emit(k)
  PROVE  /\ \A loc, j : LiveAs(loc, j) => LiveAs(loc, j)'
         /\ \A loc : loc = NewLoc(k) => LiveAs(loc, k)'
         /\ code \subseteq code'
<1>1. code' = code \cup {NewBlock(k)}
  BY DEF Emit
<1>2. NewBlock(k).loc = NewLoc(k) /\ NewBlock(k).key = k
  BY DEF NewBlock
<1> QED
  BY <1>1, <1>2 DEF LiveAs

LEMMA EmitRom ==
  ASSUME CacheInv, NEW k \in RomKeys, Emit(k), links' = links
  PROVE  CacheInv'
<1> USE DEF CacheInv
<1>1. k \in Keys /\ k \notin RamKeys /\ CacheOf(k) = "rom"
  BY KeysAssumption DEF Keys, CacheOf
<1>2. BlockLen(k) \in Nat \ {0} /\ BlockLen(k) <= Size[k]
  BY <1>1, BlockLenType
<1>3. /\ code' = code \cup {NewBlock(k)}
      /\ romHash' = [romHash EXCEPT ![k] = romPtr]
      /\ romPtr' = romPtr + HdrSize + BlockLen(k)
      /\ UNCHANGED <<ramPtr, tag, entry, nextTag, codeMin, codeMax, cap, heat, hot, links>>
  BY DEF Emit, ramSide
<1>4. NewBlock(k).loc = [cache |-> "rom", off |-> romPtr] /\ NewBlock(k).key = k
        /\ NewBlock(k).len = BlockLen(k)
  BY <1>1 DEF NewBlock, NewLoc
<1>5. romPtr \in Nat /\ HdrSize \in Nat
  BY CacheAssumption DEF CacheType
<1>6. CacheType'
  BY <1>2, <1>3, <1>5 DEF CacheType
<1>7. CodeOK'
  <2> SUFFICES ASSUME NEW b \in code' PROVE BlockOK(b)'
    BY DEF CodeOK
  <2>1. CASE b \in code
    <3>1. BlockOK(b)
      BY <2>1 DEF CodeOK
    <3>2. romPtr <= romPtr' /\ ramPtr' = ramPtr /\ romPtr' \in Nat
      BY <1>2, <1>3, <1>5
    <3>3. b.len \in Int /\ b.loc.off \in Int
      BY <3>1 DEF BlockOK, Loc
    <3> QED
      BY <3>1, <3>2, <3>3, <1>5 DEF BlockOK, EndOf
  <2>2. CASE b = NewBlock(k)
    <3>1. b.loc \in Loc
      BY <2>2, <1>4, <1>5 DEF Loc, Caches
    <3>2. EndOf(b) = romPtr'
      BY <2>2, <1>2, <1>3, <1>4, <1>5 DEF EndOf
    <3> QED
      BY <2>2, <1>1, <1>2, <1>3, <1>4, <1>5, <3>1, <3>2 DEF BlockOK, EndOf
  <2> QED
    BY <2>1, <2>2, <1>3
<1>8. LinksOK' /\ TableOK' /\ TagsOK'
  BY <1>3 DEF LinksOK, TableOK, TagsOK
<1>9. NoDanglingLink'
  BY <1>3, <1>1, EmitLive DEF NoDanglingLink, LiveAs
<1>10. StubTablesLive'
  <2>1. ASSUME NEW j \in RomKeys, romHash'[j] # 0
        PROVE  LiveAs(FoundLoc(j), j)'
    <3>1. CASE j = k
      <4>1. FoundLoc(k)' = NewLoc(k)
        BY <1>1, <1>3 DEF FoundLoc, Found, NewLoc, CacheType, CacheOf
      <4> QED
        BY <3>1, <4>1, <1>1, EmitLive
    <3>2. CASE j # k
      <4>1. FoundLoc(j)' = FoundLoc(j) /\ romHash[j] # 0
        BY <3>2, <2>1, <1>3 DEF FoundLoc, Found, CacheType, CacheOf
      <4> QED
        BY <4>1, <1>3 DEF StubTablesLive, LiveAs
    <3> QED
      BY <3>1, <3>2
  <2>2. ASSUME NEW s \in HotSlots, hot'[s].key \in RomKeys
        PROVE  LiveAs(hot[s].loc, hot[s].key)'
    BY <2>2, <1>3 DEF StubTablesLive, LiveAs
  <2> QED
    BY <2>1, <2>2, <1>3 DEF StubTablesLive
<1>11. RamTagsLive'
  <2> SUFFICES ASSUME NEW j \in RamKeys, Found(j)' # 0
               PROVE  LiveAs(FoundLoc(j), j)'
    BY DEF RamTagsLive
  <2>1. Found(j)' = Found(j) /\ FoundLoc(j)' = FoundLoc(j)
    BY <1>3, KeysAssumption DEF Found, FoundLoc, CacheOf
  <2> QED
    BY <2>1, <1>3 DEF RamTagsLive, LiveAs
<1>12. StoresDetected'
  BY <1>1, <1>3, <1>4 DEF StoresDetected
<1> QED
  BY <1>6, <1>7, <1>8, <1>9, <1>10, <1>11, <1>12

(* The tag a RAM block gets has an entry in the table. *)
LEMMA TagForType ==
  ASSUME CacheInv, NEW k \in RamKeys
  PROVE  /\ First[k] \in RamSlots
         /\ TagFor(k) \in Tags
         /\ TagsUsed(k) \in Nat
         /\ TagFor(k) <= TagsUsed(k)
         /\ nextTag - 1 <= TagsUsed(k)
<1>1. First[k] \in RamSlots
  BY SizeAssumption
<1>2. /\ nextTag \in Nat \ {0} /\ ramPtr \in Nat /\ RamSize \in Nat
      /\ TagSize \in Nat \ {0} /\ RamWatermark \in Nat \ {0}
      /\ RamWatermark <= ramPtr
      /\ ramPtr + (nextTag - 1) * TagSize <= RamSize
  BY CacheAssumption DEF CacheInv, CacheType, TableOK
<1>3. nextTag - 1 <= (nextTag - 1) * TagSize
  <2>1. \A n \in Nat, m \in Nat \ {0} : n <= n * m
    OBVIOUS
  <2> QED
    BY <2>1, <1>2
<1>4. (nextTag - 1) * TagSize \in Nat
  <2>1. \A n \in Nat, m \in Nat \ {0} : n * m \in Nat
    OBVIOUS
  <2> QED
    BY <2>1, <1>2
<1>5. nextTag <= RamSize
  BY <1>2, <1>3, <1>4
<1>6. CASE Fresh(k)
  BY <1>1, <1>2, <1>5, <1>6 DEF TagFor, TagsUsed, Tags
<1>7. CASE ~ Fresh(k)
  <2>1. tag[First[k]] \in Tags /\ tag[First[k]] < nextTag
    BY <1>1, <1>7 DEF Fresh, CacheInv, CacheType, TagsOK, Tags, Data, Code
  <2> QED
    BY <1>1, <1>2, <1>7, <2>1 DEF TagFor, TagsUsed, Tags
<1> QED
  BY <1>6, <1>7

(* The mirror after the scan of block k. *)
LEMMA TagBlockFacts ==
  ASSUME CacheInv, NEW k \in RamKeys
  PROVE  /\ TagBlock(k) \in [RamSlots -> Tags \cup {Data, Code}]
         /\ TagBlock(k)[First[k]] = TagFor(k)
         /\ \A u \in RamSlots : u # First[k] =>
              (TagBlock(k)[u] > 0 <=> tag[u] > 0) /\ (tag[u] > 0 => TagBlock(k)[u] = tag[u])
         /\ \A u \in RamSlots : tag[u] # Data => TagBlock(k)[u] # Data
         /\ \A u \in CoveredBy(k, BlockLen(k)) : TagBlock(k)[u] # Data
         /\ TagBlock(k)[First[k]] > 0
<1>1. k \in Keys
  BY DEF Keys
<1>2. CoveredBy(k, BlockLen(k)) \subseteq RamSlots
  BY <1>1, BlockLenType, CoveredInRam DEF CacheInv
<1>3. tag \in [RamSlots -> Tags \cup {Data, Code}]
  BY DEF CacheInv, CacheType
<1>4. First[k] \in RamSlots /\ TagFor(k) \in Tags
  BY TagForType
<1> QED
  BY <1>2, <1>3, <1>4 DEF TagBlock, Tags, Data, Code

(* Start tags stay distinct, below the next one to hand out, and inside the *)
(* limits as extended over the first n instructions of the block.           *)
LEMMA TagBlockRange ==
  ASSUME CacheInv, NEW k \in RamKeys, NEW n \in 1 .. BlockLen(k)
  PROVE  /\ NewMin(k) \in 0 .. Slots /\ NewMax(k, n) \in 0 .. Slots
         /\ \A u \in RamSlots : TagBlock(k)[u] > 0 =>
              TagBlock(k)[u] <= TagsUsed(k) /\ NewMin(k) <= u /\ u <= NewMax(k, n)
         /\ \A u, v \in RamSlots :
              TagBlock(k)[u] > 0 /\ TagBlock(k)[u] = TagBlock(k)[v] => u = v
<1>1. /\ BlockLen(k) \in Nat \ {0} /\ BlockLen(k) <= Size[k]
      /\ First[k] \in 0 .. Slots - 1 /\ First[k] + Size[k] <= Slots
      /\ Size[k] \in Nat \ {0} /\ Slots \in Nat \ {0}
  BY BlockLenType, SizeAssumption DEF CacheInv, Keys, RamSlots
<1>2. codeMin \in 0 .. Slots /\ codeMax \in 0 .. Slots
  BY DEF CacheInv, CacheType
<1>3. /\ NewMin(k) \in 0 .. Slots /\ NewMax(k, n) \in 0 .. Slots
      /\ NewMin(k) <= codeMin /\ codeMax <= NewMax(k, n)
      /\ NewMin(k) <= First[k] /\ First[k] <= NewMax(k, n)
  BY <1>1, <1>2 DEF NewMin, NewMax, Least, Greatest
<1>4. /\ TagFor(k) \in Tags /\ TagsUsed(k) \in Nat
      /\ TagFor(k) <= TagsUsed(k) /\ nextTag - 1 <= TagsUsed(k)
      /\ nextTag \in Nat \ {0}
  BY TagForType DEF CacheInv, CacheType
<1>5. ASSUME NEW u \in RamSlots, TagBlock(k)[u] > 0
      PROVE  TagBlock(k)[u] <= TagsUsed(k) /\ NewMin(k) <= u /\ u <= NewMax(k, n)
  <2>1. CASE u = First[k]
    BY <2>1, <1>3, <1>4, TagBlockFacts
  <2>2. CASE u # First[k]
    <3>1. TagBlock(k)[u] = tag[u] /\ tag[u] > 0
      BY <2>2, <1>5, TagBlockFacts
    <3>2. tag[u] < nextTag /\ codeMin <= u /\ u <= codeMax
      BY <3>1 DEF CacheInv, TagsOK
    <3>3. tag[u] \in Int /\ u \in Int
      BY SizeAssumption DEF CacheInv, CacheType, Tags, Data, Code, RamSlots
    <3> QED
      BY <3>1, <3>2, <3>3, <1>2, <1>3, <1>4
  <2> QED
    BY <2>1, <2>2
<1>6. ASSUME NEW u \in RamSlots, NEW v \in RamSlots,
             TagBlock(k)[u] > 0, TagBlock(k)[u] = TagBlock(k)[v]
      PROVE  u = v
  <2>1. CASE u # First[k] /\ v # First[k]
    <3>1. tag[u] > 0 /\ tag[u] = tag[v]
      BY <2>1, <1>6, TagBlockFacts
    <3> QED
      BY <3>1 DEF CacheInv, TagsOK
  <2>2. ASSUME NEW x \in RamSlots, x # First[k], TagBlock(k)[x] = TagFor(k),
               TagBlock(k)[x] > 0
        PROVE  FALSE
    <3>1. tag[x] = TagFor(k) /\ tag[x] > 0
      BY <2>2, TagBlockFacts
    <3>2. tag[x] < nextTag
      BY <3>1 DEF CacheInv, TagsOK
    <3>3. CASE Fresh(k)
      BY <3>1, <3>2, <3>3, <1>4 DEF TagFor
    <3>4. CASE ~ Fresh(k)
      BY <3>1, <3>4, <2>2, <1>1 DEF TagFor, CacheInv, TagsOK, RamSlots
    <3> QED
      BY <3>3, <3>4
  <2>3. CASE u = First[k] /\ v # First[k]
    BY <2>2, <2>3, <1>6, TagBlockFacts
  <2>4. CASE u # First[k] /\ v = First[k]
    BY <2>2, <2>4, <1>6, TagBlockFacts
  <2> QED
    BY <2>1, <2>3, <2>4
<1> QED
  BY <1>3, <1>5, <1>6

(* After the entry of block k is published, a RAM key j is found where it   *)
(* was before, unless it is k, or was not found at all.                     *)
LEMMA PublishedFacts ==
  ASSUME CacheInv, NEW k \in RamKeys,
         tag' = TagBlock(k), entry' = Published(k)
  PROVE  /\ entry' \in [Tags -> [BOOLEAN -> Nat]]
         /\ Found(k)' = ramPtr
         /\ \A j \in RamKeys : j # k /\ Found(j)' # 0 => Found(j)' = Found(j)
<1>1. /\ TagFor(k) \in Tags /\ First[k] \in RamSlots /\ Thumb[k] \in BOOLEAN
      /\ entry \in [Tags -> [BOOLEAN -> Nat]] /\ ramPtr \in Nat
  BY TagForType, SizeAssumption DEF CacheInv, CacheType
<1>2. entry' \in [Tags -> [BOOLEAN -> Nat]]
  BY <1>1 DEF Published
<1>3. \A t \in Tags : t # TagFor(k) => entry'[t] = entry[t]
  BY <1>1 DEF Published
<1>4. \A b \in BOOLEAN : entry'[TagFor(k)][b] =
        IF b = Thumb[k] THEN ramPtr ELSE IF Fresh(k) THEN 0 ELSE entry[TagFor(k)][b]
  BY <1>1 DEF Published
<1>5. Found(k)' = ramPtr
  BY <1>1, <1>4, TagBlockFacts, KeysAssumption DEF Found
<1>6. ASSUME NEW j \in RamKeys, j # k, Found(j)' # 0
      PROVE  Found(j)' = Found(j)
  <2>1. j \notin RomKeys /\ First[j] \in RamSlots /\ Thumb[j] \in BOOLEAN
    BY KeysAssumption, SizeAssumption
  <2>2. tag'[First[j]] > 0 /\ Found(j)' = entry'[tag'[First[j]]][Thumb[j]]
    BY <1>6, <2>1 DEF Found
  <2>3. CASE First[j] = First[k]
    <3>1. Thumb[j] # Thumb[k]
      BY <2>3, <1>6, KeysAssumption
    <3>2. tag'[First[j]] = TagFor(k)
      BY <2>3, TagBlockFacts
    <3>3. ~ Fresh(k) /\ Found(j)' = entry[TagFor(k)][Thumb[j]]
      BY <3>1, <3>2, <2>1, <2>2, <1>4, <1>6
    <3>4. TagFor(k) = tag[First[j]] /\ tag[First[j]] > 0
      BY <3>3, <2>3, <1>1 DEF Fresh, TagFor, CacheInv, CacheType, Tags, Data, Code
    <3> QED
      BY <3>3, <3>4, <2>1 DEF Found
  <2>4. CASE First[j] # First[k]
    <3>1. tag[First[j]] > 0 /\ tag'[First[j]] = tag[First[j]]
      BY <2>1, <2>2, <2>4, TagBlockFacts
    <3>2. tag[First[j]] \in Tags /\ tag[First[j]] # TagFor(k)
      <4>1. TagBlock(k)[First[j]] # TagBlock(k)[First[k]]
        <5>1. BlockLen(k) \in 1 .. BlockLen(k)
          BY BlockLenType DEF CacheInv, Keys
        <5> QED
          BY <5>1, <2>1, <2>2, <2>4, <1>1, TagBlockRange
      <4> QED
        BY <4>1, <3>1, <2>1, TagBlockFacts DEF CacheInv, CacheType, Tags, Data, Code
    <3> QED
      BY <3>1, <3>2, <2>1, <2>2, <1>3 DEF Found
  <2> QED
    BY <2>3, <2>4
<1> QED
  BY <1>2, <1>5, <1>6

LEMMA EmitRam ==
  ASSUME CacheInv, NEW k \in RamKeys, Emit(k), links' = links
  PROVE  CacheInv'
<1> USE DEF CacheInv
<1>1. k \in Keys /\ k \notin RomKeys /\ CacheOf(k) = "ram"
  BY KeysAssumption DEF Keys, CacheOf
<1>2. BlockLen(k) \in Nat \ {0} /\ BlockLen(k) <= Size[k] /\ BlockLen(k) \in 1 .. BlockLen(k)
  BY <1>1, BlockLenType
<1>3. /\ code' = code \cup {NewBlock(k)}
      /\ tag' = TagBlock(k)
      /\ entry' = Published(k)
      /\ nextTag' = TagsUsed(k) + 1
      /\ ramPtr' = ramPtr + BlockLen(k)
      /\ codeMin' = NewMin(k)
      /\ codeMax' = NewMax(k, BlockLen(k))
      /\ UNCHANGED <<romPtr, romHash, cap, heat, hot, links>>
  BY <1>1 DEF Emit, romSide
<1>4. NewBlock(k).loc = [cache |-> "ram", off |-> ramPtr] /\ NewBlock(k).key = k
        /\ NewBlock(k).len = BlockLen(k)
  BY <1>1 DEF NewBlock, NewLoc
<1>5. ramPtr \in Nat /\ romPtr \in Nat /\ RamWatermark <= ramPtr /\ RamWatermark \in Nat
  BY CacheAssumption DEF CacheType, TableOK
<1>6. TagsUsed(k) \in Nat /\ TagFor(k) \in Tags /\ TagFor(k) <= TagsUsed(k)
  BY TagForType
<1>7. CacheType'
  <2>1. /\ ramPtr' \in Nat /\ romPtr' \in Nat /\ nextTag' \in Nat \ {0}
        /\ romHash' \in [RomKeys -> Nat] /\ cap' \in [Caches -> Nat \ {0}]
    BY <1>2, <1>3, <1>5, <1>6 DEF CacheType
  <2>2. heat' \in [HeatSlots -> 0 .. HotThreshold] /\
        hot' \in [HotSlots -> [key : RomKeys \cup {NoKey}, loc : Loc \cup {Nowhere}]]
    BY <1>3 DEF CacheType
  <2>3. tag' \in [RamSlots -> Tags \cup {Data, Code}]
    BY <1>3, TagBlockFacts
  <2>4. entry' \in [Tags -> [BOOLEAN -> Nat]]
    BY <1>3, PublishedFacts
  <2>5. codeMin' \in 0 .. Slots /\ codeMax' \in 0 .. Slots
    BY <1>2, <1>3, TagBlockRange
  <2> QED
    BY <2>1, <2>2, <2>3, <2>4, <2>5 DEF CacheType
<1>8. CodeOK'
  <2> SUFFICES ASSUME NEW b \in code' PROVE BlockOK(b)'
    BY DEF CodeOK
  <2>1. CASE b \in code
    <3>1. BlockOK(b)
      BY <2>1 DEF CodeOK
    <3>2. ramPtr <= ramPtr' /\ romPtr' = romPtr /\ ramPtr' \in Nat
      BY <1>2, <1>3, <1>5
    <3>3. b.len \in Int /\ b.loc.off \in Int /\ HdrSize \in Int
      BY <3>1, CacheAssumption DEF BlockOK, Loc
    <3> QED
      BY <3>1, <3>2, <3>3, <1>5 DEF BlockOK, EndOf
  <2>2. CASE b = NewBlock(k)
    <3>1. b.loc \in Loc
      BY <2>2, <1>4, <1>5 DEF Loc, Caches
    <3>2. EndOf(b) = ramPtr'
      BY <2>2, <1>1, <1>2, <1>3, <1>4, <1>5 DEF EndOf
    <3> QED
      BY <2>2, <1>1, <1>2, <1>3, <1>4, <1>5, <3>1, <3>2 DEF BlockOK, EndOf
  <2> QED
    BY <2>1, <2>2, <1>3
<1>9. LinksOK'
  BY <1>3 DEF LinksOK
<1>10. TableOK'
  <2>1. ramPtr + BlockLen(k) <= RamSize - Reserve - TagsUsed(k) * TagSize
    BY <1>1 DEF Emit, Fits, Base, Limit, RamLimit
  <2>2. TagsUsed(k) * TagSize \in Nat
    <3>1. \A n \in Nat, m \in Nat : n * m \in Nat
      OBVIOUS
    <3> QED
      BY <3>1, <1>6, CacheAssumption
  <2>3. nextTag' - 1 = TagsUsed(k)
    BY <1>3, <1>6
  <2>4. RamSize \in Nat /\ Reserve \in Nat
    BY CacheAssumption
  <2>5. ramPtr' + (nextTag' - 1) * TagSize <= RamSize
    BY <2>1, <2>2, <2>3, <2>4, <1>2, <1>3, <1>5
  <2> QED
    BY <2>5, <1>2, <1>3, <1>5 DEF TableOK
<1>11. TagsOK'
  <2>1. ASSUME NEW u \in RamSlots, tag'[u] > 0
        PROVE  tag'[u] < nextTag' /\ codeMin' <= u /\ u <= codeMax'
    <3>1. tag'[u] <= TagsUsed(k) /\ codeMin' <= u /\ u <= codeMax'
      BY <2>1, <1>2, <1>3, TagBlockRange
    <3>2. tag'[u] \in Int
      BY <1>7 DEF CacheType, Tags, Data, Code
    <3> QED
      BY <3>1, <3>2, <1>3, <1>6
  <2>2. \A u, v \in RamSlots : tag'[u] > 0 /\ tag'[u] = tag'[v] => u = v
    BY <1>2, <1>3, TagBlockRange
  <2> QED
    BY <2>1, <2>2 DEF TagsOK
<1>12. NoDanglingLink'
  BY <1>1, <1>3, EmitLive DEF NoDanglingLink, LiveAs
<1>13. StubTablesLive'
  <2>1. \A j \in RomKeys : FoundLoc(j)' = FoundLoc(j)
    BY <1>3 DEF FoundLoc, Found, CacheOf
  <2> QED
    BY <2>1, <1>1, <1>3, EmitLive DEF StubTablesLive
<1>14. RamTagsLive'
  <2> SUFFICES ASSUME NEW j \in RamKeys, Found(j)' # 0
               PROVE  LiveAs(FoundLoc(j), j)'
    BY DEF RamTagsLive
  <2>1. CASE j = k
    <3>1. FoundLoc(k)' = NewLoc(k)
      BY <1>1, <1>3, PublishedFacts DEF FoundLoc, NewLoc, CacheOf
    <3> QED
      BY <2>1, <3>1, <1>1, EmitLive
  <2>2. CASE j # k
    <3>1. Found(j)' = Found(j)
      BY <2>2, <1>3, PublishedFacts
    <3>2. FoundLoc(j)' = FoundLoc(j)
      BY <3>1 DEF FoundLoc, CacheOf
    <3> QED
      BY <3>1, <3>2, <1>1, EmitLive DEF RamTagsLive
  <2> QED
    BY <2>1, <2>2
<1>15. StoresDetected'
  <2> SUFFICES ASSUME NEW b \in code', b.key \in RamKeys, NEW u \in CoveredBy(b.key, b.len)
               PROVE  tag'[u] # Data
    BY DEF StoresDetected, CoveredBy
  <2>1. CASE b \in code
    <3>1. BlockOK(b)
      BY <2>1 DEF CodeOK
    <3>2. u \in RamSlots
      BY <3>1, CoveredInRam DEF BlockOK
    <3> QED
      BY <2>1, <3>2, <1>3, TagBlockFacts DEF StoresDetected
  <2>2. CASE b = NewBlock(k)
    BY <2>2, <1>3, <1>4, TagBlockFacts
  <2> QED
    BY <2>1, <2>2, <1>3
<1> QED
  BY <1>7, <1>8, <1>9, <1>10, <1>11, <1>12, <1>13, <1>14, <1>15

LEMMA EmitInv ==
  ASSUME CacheInv, NEW k \in Keys, Emit(k), links' = links
  PROVE  CacheInv'
BY EmitRom, EmitRam DEF Keys

-----------------------------------------------------------------------------
(* Flushes preserve CacheInv *)

(* Code is discarded cache by cache, so what stays live stays with its own  *)
(* lookup tables, and what goes takes the tables that named it with it.     *)
LEMMA DiscardInv ==
  ASSUME CacheInv, NEW cs \in SUBSET Caches, Discard(cs), CacheType', TableOK',
         IF "rom" \in cs THEN romHash' = [k \in RomKeys |-> 0] ELSE UNCHANGED romSide,
         IF "ram" \in cs THEN \A u \in RamSlots : ~ (tag'[u] > 0) ELSE UNCHANGED ramSide
  PROVE  CacheInv'
<1> USE DEF CacheInv
<1>1. /\ code' = {b \in code : b.loc.cache \notin cs}
      /\ links' = {l \in links : l.from.cache \notin cs}
      /\ hot' = NoHot
  BY DEF Discard
<1>2. \A k \in Keys : CacheOf(k) \in Caches
  BY DEF CacheOf, Caches
<1>3. CodeOK'
  <2> SUFFICES ASSUME NEW b \in code' PROVE BlockOK(b)'
    BY DEF CodeOK
  <2>1. b \in code /\ b.loc.cache \notin cs /\ BlockOK(b)
    BY <1>1 DEF CodeOK
  <2>2. CASE b.key \in RomKeys
    <3>1. romPtr' = romPtr
      BY <2>1, <2>2 DEF BlockOK, CacheOf, romSide
    <3> QED
      BY <2>1, <2>2, <3>1 DEF BlockOK, EndOf
  <2>3. CASE b.key \notin RomKeys
    <3>1. ramPtr' = ramPtr
      BY <2>1, <2>3 DEF BlockOK, CacheOf, ramSide
    <3> QED
      BY <2>1, <2>3, <3>1 DEF BlockOK, EndOf
  <2> QED
    BY <2>2, <2>3
<1>4. LinksOK'
  BY <1>1 DEF LinksOK
<1>5. TagsOK'
  BY DEF TagsOK, ramSide
<1>6. NoDanglingLink'
  <2> SUFFICES ASSUME NEW l \in links'
               PROVE  /\ l.from.cache = l.to.cache
                      /\ \E b \in code' :
                           /\ b.loc = l.from
                           /\ l.exit \in DOMAIN Exits[b.key]
                           /\ LiveAs(l.to, Exits[b.key][l.exit].to)'
    BY DEF NoDanglingLink
  <2>1. l \in links /\ l.from.cache \notin cs /\ l.from.cache = l.to.cache
    BY <1>1 DEF NoDanglingLink
  <2>2. PICK b \in code : /\ b.loc = l.from
                          /\ l.exit \in DOMAIN Exits[b.key]
                          /\ LiveAs(l.to, Exits[b.key][l.exit].to)
    BY <2>1 DEF NoDanglingLink
  <2>3. b \in code'
    BY <1>1, <2>1, <2>2
  <2>4. LiveAs(l.to, Exits[b.key][l.exit].to)'
    BY <1>1, <2>1, <2>2 DEF LiveAs
  <2> QED
    BY <2>1, <2>2, <2>3, <2>4
<1>7. StubTablesLive'
  <2>1. ASSUME NEW k \in RomKeys, romHash'[k] # 0
        PROVE  LiveAs(FoundLoc(k), k)'
    <3>1. "rom" \notin cs /\ romHash' = romHash
      BY <2>1 DEF romSide
    <3>2. FoundLoc(k)' = FoundLoc(k) /\ FoundLoc(k).cache = "rom"
      BY <3>1 DEF FoundLoc, Found, CacheOf
    <3>3. LiveAs(FoundLoc(k), k)
      BY <2>1, <3>1 DEF StubTablesLive
    <3> QED
      BY <1>1, <3>1, <3>2, <3>3 DEF LiveAs
  <2>2. ASSUME NEW s \in HotSlots PROVE ~ (hot'[s].key \in RomKeys)
    BY <1>1, KeysAssumption DEF NoHot, NoEntry, Keys
  <2> QED
    BY <2>1, <2>2 DEF StubTablesLive
<1>8. RamTagsLive'
  <2> SUFFICES ASSUME NEW k \in RamKeys, Found(k)' # 0
               PROVE  LiveAs(FoundLoc(k), k)'
    BY DEF RamTagsLive
  <2>1. k \notin RomKeys /\ First[k] \in RamSlots
    BY KeysAssumption, SizeAssumption
  <2>2. tag'[First[k]] > 0
    BY <2>1 DEF Found
  <2>3. "ram" \notin cs /\ UNCHANGED ramSide
    BY <2>1, <2>2
  <2>4. Found(k)' = Found(k) /\ FoundLoc(k)' = FoundLoc(k) /\ FoundLoc(k).cache = "ram"
    BY <2>1, <2>3 DEF Found, FoundLoc, CacheOf, ramSide
  <2>5. LiveAs(FoundLoc(k), k)
    BY <2>4 DEF RamTagsLive
  <2> QED
    BY <1>1, <2>3, <2>4, <2>5 DEF LiveAs
<1>9. StoresDetected'
  <2> SUFFICES ASSUME NEW b \in code', b.key \in RamKeys, NEW u \in CoveredBy(b.key, b.len)
               PROVE  tag'[u] # Data
    BY DEF StoresDetected, CoveredBy
  <2>1. b \in code /\ b.loc.cache \notin cs /\ b.loc.cache = "ram"
    BY <1>1, KeysAssumption DEF CodeOK, BlockOK, CacheOf
  <2> QED
    BY <2>1 DEF StoresDetected, ramSide
<1> QED
  BY <1>3, <1>4, <1>5, <1>6, <1>7, <1>8, <1>9

(* The watermark leaves room for an empty tag table. *)
LEMMA FlushedTable ==
  ASSUME ramPtr' = RamWatermark, nextTag' = 1
  PROVE  TableOK'
BY CacheAssumption DEF TableOK

(* flush_translation_cache_ram, on the mirror as the last scan left it. *)
LEMMA FlushRamInv ==
  ASSUME CacheInv,
         NEW tg \in [RamSlots -> Tags \cup {Data, Code}],
         NEW lo \in 0 .. Slots, NEW hi \in 0 .. Slots,
         \A u \in RamSlots : tg[u] > 0 => lo <= u /\ u <= hi,
         FlushRam(tg, lo, hi), Discard({"ram"}),
         entry' \in [Tags -> [BOOLEAN -> Nat]],
         cap' \in [Caches -> Nat \ {0}],
         UNCHANGED <<romSide, heat>>
  PROVE  CacheInv'
<1>1. /\ tag' \in [RamSlots -> Tags \cup {Data, Code}]
      /\ \A u \in RamSlots : ~ (tag'[u] > 0)
  BY ClearTagsComplete DEF FlushRam
<1>2. CacheType'
  BY <1>1, NoHotType, SizeAssumption, CacheAssumption
     DEF FlushRam, Discard, CacheInv, CacheType, romSide
<1>3. TableOK'
  BY FlushedTable DEF FlushRam
<1> QED
  BY <1>1, <1>2, <1>3, DiscardInv DEF Caches

(* flush_translation_cache_rom alone. *)
LEMMA FlushRomInv ==
  ASSUME CacheInv, FlushRom(heat), Discard({"rom"}),
         cap' \in [Caches -> Nat \ {0}], UNCHANGED ramSide
  PROVE  CacheInv'
<1>1. heat' \in [HeatSlots -> 0 .. HotThreshold]
  BY CooledType DEF FlushRom, CacheInv, CacheType
<1>2. CacheType'
  BY <1>1, NoHotType, CacheAssumption DEF FlushRom, Discard, CacheInv, CacheType, ramSide
<1>3. TableOK'
  BY DEF CacheInv, TableOK, ramSide
<1> QED
  BY <1>2, <1>3, DiscardInv DEF Caches, FlushRom

(* Both, whatever range of tags is wiped, provided it holds the start tags. *)
LEMMA FlushAllInv ==
  ASSUME CacheInv,
         NEW ht \in [HeatSlots -> 0 .. HotThreshold],
         NEW lo \in 0 .. Slots, NEW hi \in 0 .. Slots,
         \A u \in RamSlots : tag[u] > 0 => lo <= u /\ u <= hi,
         FlushRom(ht), FlushRam(tag, lo, hi), Discard(Caches),
         UNCHANGED <<entry, cap>>
  PROVE  CacheInv'
<1>1. /\ tag' \in [RamSlots -> Tags \cup {Data, Code}]
      /\ \A u \in RamSlots : ~ (tag'[u] > 0)
  BY ClearTagsComplete DEF FlushRam, CacheInv, CacheType
<1>2. heat' \in [HeatSlots -> 0 .. HotThreshold]
  BY CooledType DEF FlushRom
<1>3. CacheType'
  BY <1>1, <1>2, NoHotType, SizeAssumption, CacheAssumption
     DEF FlushRom, FlushRam, Discard, CacheInv, CacheType
<1>4. TableOK'
  BY FlushedTable DEF FlushRam
<1> QED
  BY <1>1, <1>3, <1>4, DiscardInv DEF Caches, FlushRom

(* An attempt that overflows leaves a consistent cache behind, although it  *)
(* had already tagged its slots and published its entry.                    *)
LEMMA OverflowInv ==
  ASSUME CacheInv, NEW k \in Keys, Overflow(k)
  PROVE  CacheInv'
<1>1. cap' \in [Caches -> Nat \ {0}]
  <2>1. \A n \in Nat \ {0} : Greatest(n \div 2, CapFloor) \in Nat \ {0}
    BY CacheAssumption DEF Greatest
  <2> QED
    BY <2>1 DEF Overflow, Shrunk, CacheInv, CacheType
<1>2. CASE k \in RomKeys
  BY <1>1, <1>2, FlushRomInv DEF Overflow, CacheOf
<1>3. CASE k \notin RomKeys
  <2>1. k \in RamKeys
    BY <1>3 DEF Keys
  <2>2. Emitted(k) \in 1 .. BlockLen(k)
    <3>1. BlockLen(k) \in Nat \ {0}
      BY BlockLenType DEF CacheInv
    <3>2. Base(k) \in Int /\ Limit(k) \in Int
      <4>1. TagsUsed(k) * TagSize \in Int
        <5>1. \A n \in Nat, m \in Nat : n * m \in Int
          OBVIOUS
        <5> QED
          BY <5>1, <2>1, TagForType, CacheAssumption
      <4> QED
        BY <4>1, <1>3, CacheAssumption DEF Base, Limit, RamLimit, CacheInv, CacheType
    <3>3. Base(k) + BlockLen(k) > Limit(k)
      BY <3>1, <3>2 DEF Overflow, Fits
    <3> QED
      BY <3>1, <3>2, <3>3 DEF Emitted, Greatest
  <2>3. /\ TagBlock(k) \in [RamSlots -> Tags \cup {Data, Code}]
        /\ NewMin(k) \in 0 .. Slots /\ NewMax(k, Emitted(k)) \in 0 .. Slots
        /\ \A u \in RamSlots : TagBlock(k)[u] > 0 =>
             NewMin(k) <= u /\ u <= NewMax(k, Emitted(k))
    BY <2>1, <2>2, TagBlockFacts, TagBlockRange
  <2>4. entry' \in [Tags -> [BOOLEAN -> Nat]]
    <3>1. entry' = Published(k)
      BY <1>3 DEF Overflow
    <3> QED
      BY <3>1, <2>1, TagForType, SizeAssumption DEF Published, CacheInv, CacheType
  <2>5. FlushRam(TagBlock(k), NewMin(k), NewMax(k, Emitted(k))) /\ Discard({"ram"})
          /\ UNCHANGED <<romSide, heat>>
    BY <1>3 DEF Overflow, CacheOf
  <2> QED
    BY <1>1, <2>3, <2>4, <2>5, FlushRamInv
<1> QED
  BY <1>2, <1>3

-----------------------------------------------------------------------------
(* The calls in progress *)

Frames == [key : Keys, loc : Loc, len : Nat, i : Nat \ {0}]

(* A pending exit is one of its block's exits. *)
LEMMA PendingExit ==
  ASSUME NEW f \in Frames, Pending(f)
  PROVE  f.i \in DOMAIN Exits[f.key] /\ ExitOf(f).to \in Keys \cup Untranslated
<1>1. f.key \in Keys /\ f.i \in Nat \ {0} /\ f.i <= Len(Exits[f.key])
  BY DEF Frames, Pending
<1>2. Exits[f.key] \in Seq([at : Nat, to : Keys \cup Untranslated])
  BY <1>1, ExitAssumption
<1>3. DOMAIN Exits[f.key] = 1 .. Len(Exits[f.key]) /\ Len(Exits[f.key]) \in Nat
  BY <1>2
<1>4. f.i \in 1 .. Len(Exits[f.key])
  BY <1>1, <1>3
<1>5. Exits[f.key][f.i] \in [at : Nat, to : Keys \cup Untranslated]
  <2>1. ASSUME NEW S, NEW t \in Seq(S), NEW n \in 1 .. Len(t) PROVE t[n] \in S
    BY <2>1
  <2> QED
    BY <1>2, <1>4, <2>1
<1> QED
  BY <1>3, <1>4, <1>5 DEF ExitOf

(* The new call works on the block that was just emitted. *)
LEMMA FrameLive ==
  ASSUME CacheInv, NEW k \in Keys, Emit(k)
  PROVE  Frame(k) \in Frames /\ \A f : f = Frame(k) => FrameOK(f)'
<1>1. NewLoc(k) \in Loc /\ BlockLen(k) \in Nat
  BY BlockLenType DEF NewLoc, Loc, CacheOf, Caches, CacheInv, CacheType
<1>2. Frame(k) \in Frames /\ Frame(k).loc = NewLoc(k) /\ Frame(k).key = k
  BY <1>1 DEF Frame, Frames
<1>3. ASSUME NEW f, f = Frame(k) PROVE FrameOK(f)'
  <2>1. f \in Frames /\ f.loc = NewLoc(k) /\ f.key = k
    BY <1>2, <1>3
  <2>2. LiveAs(f.loc, k)'
    BY <2>1, EmitLive
  <2> QED
    BY <2>1, <2>2 DEF FrameOK, Frames
<1> QED
  BY <1>2, <1>3

(* Patching an exit of a live block to a live translation of its target.    *)
LEMMA PatchedInv ==
  ASSUME CacheInv, NEW f, FrameOK(f), Pending(f),
         NEW loc \in Loc, LiveAs(loc, ExitOf(f).to),
         links' = Patched(f, loc),
         UNCHANGED <<code, romSide, ramSide, cap, heat, hot>>
  PROVE  CacheInv'
<1> USE DEF CacheInv
<1>1. f \in Frames
  BY DEF FrameOK, Frames
<1>2. /\ CacheType' /\ CodeOK' /\ TableOK' /\ TagsOK'
      /\ StubTablesLive' /\ RamTagsLive' /\ StoresDetected'
  BY DEF CacheType, CodeOK, BlockOK, EndOf, TableOK, TagsOK, StubTablesLive, RamTagsLive,
         StoresDetected, LiveAs, Found, FoundLoc, romSide, ramSide
<1>3. CASE f.loc.cache # loc.cache
  <2>1. links' = links
    BY <1>3 DEF Patched
  <2> QED
    BY <1>2, <2>1 DEF LinksOK, NoDanglingLink, LiveAs
<1>4. CASE f.loc.cache = loc.cache
  <2>1. links' = links \cup {Link(f, loc)}
    BY <1>4 DEF Patched
  <2>2. /\ Link(f, loc) \in [from : Loc, exit : Nat, to : Loc]
        /\ Link(f, loc).from = f.loc /\ Link(f, loc).exit = f.i /\ Link(f, loc).to = loc
    BY <1>1 DEF Link, Frames
  <2>3. \E b \in code : b.loc = f.loc /\ b.key = f.key
    BY DEF FrameOK, LiveAs
  <2>4. f.i \in DOMAIN Exits[f.key] /\ LiveAs(loc, Exits[f.key][f.i].to)
    BY <1>1, PendingExit DEF ExitOf
  <2>5. LinksOK'
    BY <2>1, <2>2 DEF LinksOK
  <2>6. NoDanglingLink'
    BY <2>1, <2>2, <2>3, <2>4, <1>4 DEF NoDanglingLink, LiveAs
  <2> QED
    BY <1>2, <2>5, <2>6
<1> QED
  BY <1>3, <1>4

(* The innermost call moves on to its next exit. *)
LEMMA AdvancedOK ==
  ASSUME NEW s \in Seq(Frames), s # <<>>,
         \A j \in 1 .. Len(s) : FrameOK(s[j]),
         \A j \in 2 .. Len(s) : Pending(s[j]) /\ ExitOf(s[j]).to = s[j - 1].key,
         s[Len(s)].key = want
  PROVE  /\ Advanced(s) \in Seq(Frames) /\ Advanced(s) # <<>>
         /\ \A j \in 1 .. Len(Advanced(s)) : FrameOK(Advanced(s)[j])
         /\ \A j \in 2 .. Len(Advanced(s)) :
              Pending(Advanced(s)[j]) /\ ExitOf(Advanced(s)[j]).to = Advanced(s)[j - 1].key
         /\ Advanced(s)[Len(Advanced(s))].key = want
<1> DEFINE f == [s[1] EXCEPT !.i = @ + 1]
<1>1. Len(s) \in Nat \ {0} /\ s[1] \in Frames /\ Head(s) = s[1]
  OBVIOUS
<1>2. f \in Frames /\ f.key = s[1].key /\ f.loc = s[1].loc
  <2>1. /\ s[1] \in [key : Keys, loc : Loc, len : Nat, i : Nat \ {0}]
        /\ s[1].i + 1 \in Nat \ {0}
    BY <1>1 DEF Frames
  <2> QED
    BY <2>1 DEF Frames
<1>3. Advanced(s) = <<f>> \o Tail(s) /\ Tail(s) \in Seq(Frames)
  BY <1>1 DEF Advanced
<1>4. /\ Len(Advanced(s)) = Len(s) /\ Advanced(s)[1] = f
      /\ \A j \in 2 .. Len(s) : Advanced(s)[j] = s[j]
      /\ Advanced(s) \in Seq(Frames)
  <2> HIDE DEF f
  <2> QED
    BY <1>1, <1>2, <1>3
<1> HIDE DEF f
<1>5. FrameOK(f)
  <2>1. LiveAs(s[1].loc, s[1].key)
    BY <1>1 DEF FrameOK
  <2> QED
    BY <1>2, <2>1 DEF FrameOK, Frames
<1>6. \A j \in 1 .. Len(s) : FrameOK(Advanced(s)[j])
  BY <1>1, <1>4, <1>5
<1>7. \A j \in 2 .. Len(s) : Advanced(s)[j - 1].key = s[j - 1].key
  BY <1>1, <1>2, <1>4
<1>8. Advanced(s)[Len(s)].key = want
  BY <1>1, <1>2, <1>4
<1> QED
  BY <1>1, <1>4, <1>6, <1>7, <1>8

-----------------------------------------------------------------------------
(* Every action preserves CacheInv *)

(* Guest steps and interpreted stores that leave the caches alone. *)
LEMMA SameCaches ==
  ASSUME CacheInv, UNCHANGED caches
  PROVE  CacheInv'
BY DEF CacheInv, CacheType, CodeOK, BlockOK, EndOf, LinksOK, TableOK, TagsOK, NoDanglingLink,
       StubTablesLive, RamTagsLive, StoresDetected, LiveAs, Found, FoundLoc,
       caches, romSide, ramSide

(* Steps that only heat or cool code. *)
LEMMA HeatInv ==
  ASSUME CacheInv, UNCHANGED <<code, links, romSide, ramSide, cap, hot>>,
         heat' \in [HeatSlots -> 0 .. HotThreshold]
  PROVE  CacheInv'
BY DEF CacheInv, CacheType, CodeOK, BlockOK, EndOf, LinksOK, TableOK, TagsOK, NoDanglingLink,
       StubTablesLive, RamTagsLive, StoresDetected, LiveAs, Found, FoundLoc,
       romSide, ramSide

(* A found key is live, whichever table finds it. *)
LEMMA FoundLive ==
  ASSUME CacheInv, NEW k \in Keys, Found(k) # 0
  PROVE  LiveAs(FoundLoc(k), k) /\ FoundLoc(k) \in Loc /\ FoundLoc(k) # Nowhere
<1>1. LiveAs(FoundLoc(k), k)
  BY DEF CacheInv, StubTablesLive, RamTagsLive, Found, Keys
<1>2. FoundLoc(k).cache \in Caches
  BY DEF FoundLoc, CacheOf, Caches
<1> QED
  BY <1>1, <1>2 DEF LiveAs, CacheInv, CodeOK, BlockOK, Caches, Nowhere

(* flush_translation_cache_ram wipes every start tag. *)
LEMMA FlushRamNowInv ==
  ASSUME CacheInv, FlushRamNow
  PROVE  CacheInv'
<1>1. /\ tag \in [RamSlots -> Tags \cup {Data, Code}]
      /\ codeMin \in 0 .. Slots /\ codeMax \in 0 .. Slots
      /\ \A u \in RamSlots : tag[u] > 0 => codeMin <= u /\ u <= codeMax
  BY DEF CacheInv, CacheType, TagsOK
<1>2. entry' \in [Tags -> [BOOLEAN -> Nat]] /\ cap' \in [Caches -> Nat \ {0}]
  BY DEF FlushRamNow, CacheInv, CacheType
<1> QED
  BY <1>1, <1>2, FlushRamInv DEF FlushRamNow

(* flush_dynarec_caches wipes the whole mirror. *)
LEMMA FlushBothInv ==
  ASSUME CacheInv, NEW ht \in [HeatSlots -> 0 .. HotThreshold], FlushBoth(ht)
  PROVE  CacheInv'
<1>1. \A u \in RamSlots : 0 <= u /\ u <= Slots
  BY SizeAssumption DEF RamSlots
<1>2. 0 \in 0 .. Slots /\ Slots \in 0 .. Slots
  BY SizeAssumption
<1> QED
  BY <1>1, <1>2, FlushAllInv DEF FlushBoth

(* init_dynarec_caches empties everything but the table of entries. *)
LEMMA EmptiedInv ==
  ASSUME code' = {}, links' = {}, hot' = NoHot,
         romPtr' = RomStart, ramPtr' = RamWatermark,
         romHash' = [k \in RomKeys |-> 0],
         tag' = [u \in RamSlots |-> Data],
         codeMin' = 0, codeMax' = Slots,
         cap' = [c \in Caches |-> MaxBlock],
         heat' = [h \in HeatSlots |-> 0],
         entry' \in [Tags -> [BOOLEAN -> Nat]],
         nextTag' \in Nat \ {0},
         RamWatermark + (nextTag' - 1) * TagSize <= RamSize
  PROVE  CacheInv'
<1>1. CacheType'
  <2>1. heat' \in [HeatSlots -> 0 .. HotThreshold]
    BY HeatAssumption
  <2>2. codeMin' \in 0 .. Slots /\ codeMax' \in 0 .. Slots
    BY SizeAssumption
  <2> QED
    BY <2>1, <2>2, NoHotType, CacheAssumption DEF CacheType
<1>2. CodeOK' /\ LinksOK' /\ TagsOK' /\ NoDanglingLink' /\ StoresDetected'
  BY DEF CodeOK, LinksOK, TagsOK, NoDanglingLink, StoresDetected, Data
<1>3. TableOK'
  BY CacheAssumption DEF TableOK
<1>4. StubTablesLive'
  <2>1. \A s \in HotSlots : hot'[s].key \notin RomKeys
    BY KeysAssumption DEF NoHot, NoEntry, Keys
  <2> QED
    BY <2>1 DEF StubTablesLive
<1>5. RamTagsLive'
  <2>1. ASSUME NEW k \in RamKeys PROVE Found(k)' = 0
    BY KeysAssumption, SizeAssumption DEF Found, Data
  <2> QED
    BY <2>1 DEF RamTagsLive
<1> QED
  BY <1>1, <1>2, <1>3, <1>4, <1>5 DEF CacheInv

LEMMA InitCache == Init => CacheInv
<1> SUFFICES ASSUME Init PROVE CacheInv
  OBVIOUS
<1>1. CacheType
  <2>1. heat \in [HeatSlots -> 0 .. HotThreshold]
    BY HeatAssumption DEF Init
  <2>2. codeMin \in 0 .. Slots /\ codeMax \in 0 .. Slots
    BY SizeAssumption DEF Init
  <2> QED
    BY <2>1, <2>2, NoHotType, CacheAssumption DEF CacheType, Init, NoEntries
<1>2. CodeOK /\ LinksOK /\ TagsOK /\ NoDanglingLink /\ StoresDetected
  BY DEF CodeOK, LinksOK, TagsOK, NoDanglingLink, StoresDetected, Data, Init
<1>3. TableOK
  BY CacheAssumption DEF TableOK, Init
<1>4. StubTablesLive
  <2>1. \A s \in HotSlots : hot[s].key \notin RomKeys
    BY KeysAssumption DEF NoHot, NoEntry, Keys, Init
  <2> QED
    BY <2>1 DEF StubTablesLive, Init
<1>5. RamTagsLive
  <2>1. ASSUME NEW k \in RamKeys PROVE Found(k) = 0
    BY KeysAssumption, SizeAssumption DEF Found, Data, Init
  <2> QED
    BY <2>1 DEF RamTagsLive
<1> QED
  BY <1>1, <1>2, <1>3, <1>4, <1>5 DEF CacheInv

(* The innermost call, and the one that waits for it. *)
LEMMA HeadFacts ==
  ASSUME StackOK, stack # <<>>
  PROVE  /\ Head(stack) = stack[1] /\ Head(stack) \in Frames /\ FrameOK(Head(stack))
         /\ Tail(stack) # <<>> =>
              /\ Head(Tail(stack)) = stack[2] /\ Head(Tail(stack)) \in Frames
              /\ FrameOK(stack[2]) /\ Pending(stack[2])
              /\ ExitOf(stack[2]).to = stack[1].key
<1>1. stack \in Seq(Frames)
  BY DEF StackOK, Frames
<1>2. Len(stack) \in Nat \ {0} /\ Head(stack) = stack[1] /\ stack[1] \in Frames
  BY <1>1
<1>3. ASSUME Tail(stack) # <<>>
      PROVE  Len(stack) \in Nat \ {0, 1} /\ Head(Tail(stack)) = stack[2] /\ stack[2] \in Frames
  <2>1. Tail(stack) \in Seq(Frames) /\ Len(Tail(stack)) = Len(stack) - 1
    BY <1>1, <1>2
  <2>2. Len(Tail(stack)) \in Nat \ {0} /\ Head(Tail(stack)) = Tail(stack)[1]
    BY <1>3, <2>1
  <2>3. Len(stack) \in Nat \ {0, 1} /\ Tail(stack)[1] = stack[2]
    BY <1>1, <1>2, <2>1, <2>2
  <2>4. 2 \in 1 .. Len(stack)
    <3>1. Len(stack) \in Nat /\ Len(stack) # 0 /\ Len(stack) # 1
      BY <2>3
    <3>2. \A n \in Nat : n # 0 /\ n # 1 => 2 \in 1 .. n
      OBVIOUS
    <3> QED
      BY <3>1, <3>2
  <2>5. stack[2] \in Frames
    <3>1. ASSUME NEW S, NEW t \in Seq(S), NEW n \in 1 .. Len(t) PROVE t[n] \in S
      BY <3>1
    <3> QED
      BY <1>1, <2>4, <3>1
  <2> QED
    BY <2>2, <2>3, <2>5
<1>4. FrameOK(stack[1])
  BY <1>2 DEF StackOK
<1>5. ASSUME Tail(stack) # <<>>
      PROVE  /\ FrameOK(stack[2]) /\ Pending(stack[2])
             /\ ExitOf(stack[2]).to = stack[1].key
  <2>1. 2 \in 2 .. Len(stack) /\ 2 \in 1 .. Len(stack)
    <3>1. Len(stack) \in Nat /\ Len(stack) # 0 /\ Len(stack) # 1
      BY <1>3, <1>5
    <3> QED
      BY <3>1
  <2>2. FrameOK(stack[2])
    BY <2>1 DEF StackOK
  <2>3. Pending(stack[2]) /\ ExitOf(stack[2]).to = stack[2 - 1].key
    BY <2>1 DEF StackOK
  <2> QED
    BY <2>2, <2>3
<1> QED
  BY <1>2, <1>3, <1>4, <1>5

LEMMA ResolveCache ==
  ASSUME IInv, Resolve
  PROVE  CacheInv'
<1> USE DEF IInv
<1>1. CASE TopFound
  BY <1>1, SameCaches DEF TopFound
<1>2. CASE TopCold
  <2>1. want \in RomKeys /\ heat[HeatIdx[want]] < HotThreshold
    BY <1>2 DEF TopCold, Cold
  <2>2. heat' \in [HeatSlots -> 0 .. HotThreshold]
    BY <1>2, <2>1, HeatAssumption DEF TopCold, CacheInv, CacheType, HeatSlots
  <2> QED
    BY <1>2, <2>2, HeatInv DEF TopCold
<1>3. CASE TopTranslate
  <2>1. want \in Keys
    BY <1>3 DEF TopTranslate, AtTop, CallInv
  <2> QED
    BY <1>3, <2>1, EmitInv DEF TopTranslate
<1>4. CASE TopOverflow
  <2>1. want \in Keys
    BY <1>4 DEF TopOverflow, AtTop, CallInv
  <2> QED
    BY <1>4, <2>1, OverflowInv DEF TopOverflow
<1>5. CASE GiveUp
  BY <1>5, SameCaches DEF GiveUp
<1>6. CASE ExitSkip
  BY <1>6, SameCaches DEF ExitSkip
<1>7. CASE ExitFound
  <2>1. FrameOK(Head(stack)) /\ Pending(Head(stack))
    BY <1>7, HeadFacts DEF ExitFound, Resolving, CallInv
  <2>2. LiveAs(FoundLoc(Target), Target) /\ FoundLoc(Target) \in Loc
    BY <1>7, FoundLive DEF ExitFound
  <2>3. LiveAs(FoundLoc(Target), ExitOf(Head(stack)).to)
    BY <2>2 DEF Target
  <2> QED
    BY <1>7, <2>1, <2>2, <2>3, PatchedInv DEF ExitFound
<1>8. CASE ExitTranslate
  BY <1>8, EmitInv DEF ExitTranslate
<1>9. CASE ExitOverflow
  BY <1>9, OverflowInv DEF ExitOverflow
<1>10. CASE ReturnNested
  <2>1. /\ FrameOK(stack[2]) /\ Pending(stack[2]) /\ Head(Tail(stack)) = stack[2]
        /\ ExitOf(stack[2]).to = stack[1].key
        /\ Head(stack) = stack[1] /\ stack[1] \in Frames /\ FrameOK(stack[1])
    BY <1>10, HeadFacts DEF ReturnNested, Finished, CallInv
  <2>2. stack[1].loc \in Loc /\ LiveAs(stack[1].loc, ExitOf(stack[2]).to)
    BY <2>1 DEF FrameOK, Frames
  <2>3. links' = Patched(stack[2], stack[1].loc)
    BY <1>10, <2>1 DEF ReturnNested
  <2> QED
    BY <1>10, <2>1, <2>2, <2>3, PatchedInv DEF ReturnNested
<1>11. CASE ReturnTop
  BY <1>11, SameCaches DEF ReturnTop
<1> QED
  BY <1>1, <1>2, <1>3, <1>4, <1>5, <1>6, <1>7, <1>8, <1>9, <1>10, <1>11 DEF Resolve

(* Loading a state decays the gate's counters twice; both flushes have      *)
(* valid counters to start from.                                            *)
LEMMA GuestCache ==
  ASSUME IInv, Guest
  PROVE  CacheInv'
<1> USE DEF IInv
<1>1. CASE FollowLink
  BY <1>1, SameCaches DEF FollowLink
<1>2. ASSUME NEW k \in RomKeys, DispatchHot(k) PROVE CacheInv'
  BY <1>2, SameCaches DEF DispatchHot
<1>3. ASSUME NEW k \in RomKeys, DispatchHash(k) PROVE CacheInv'
  <2>1. k \in Keys /\ Found(k) # 0
    BY <1>3 DEF DispatchHash, Found, Keys
  <2>2. LiveAs(FoundLoc(k), k) /\ FoundLoc(k) \in Loc
    BY <2>1, FoundLive
  <2>3. /\ hot' = [hot EXCEPT ![HotIdx[k]] = [key |-> k, loc |-> FoundLoc(k)]]
        /\ HotIdx[k] \in HotSlots
        /\ UNCHANGED <<code, links, romSide, ramSide, cap, heat>>
    BY <1>3 DEF DispatchHash, HotSlots
  <2>4. CacheType'
    BY <2>2, <2>3 DEF CacheInv, CacheType, romSide, ramSide
  <2>5. CodeOK' /\ LinksOK' /\ TableOK' /\ TagsOK' /\ NoDanglingLink' /\ RamTagsLive' /\ StoresDetected'
    BY <2>3 DEF CacheInv, CodeOK, BlockOK, EndOf, LinksOK, TableOK, TagsOK, NoDanglingLink,
                RamTagsLive, StoresDetected, LiveAs, Found, FoundLoc, romSide, ramSide
  <2>6. StubTablesLive'
    <3>1. ASSUME NEW j \in RomKeys, romHash'[j] # 0 PROVE LiveAs(FoundLoc(j), j)'
      BY <2>3, <3>1 DEF CacheInv, StubTablesLive, LiveAs, Found, FoundLoc, romSide
    <3>2. ASSUME NEW s \in HotSlots, hot'[s].key \in RomKeys
          PROVE  LiveAs(hot[s].loc, hot[s].key)'
      <4>1. CASE s = HotIdx[k]
        <5>1. hot'[s] = [key |-> k, loc |-> FoundLoc(k)]
          BY <4>1, <2>3 DEF CacheInv, CacheType
        <5> QED
          BY <5>1, <2>2, <2>3 DEF LiveAs
      <4>2. CASE s # HotIdx[k]
        <5>1. hot'[s] = hot[s]
          BY <4>2, <2>3 DEF CacheInv, CacheType
        <5> QED
          BY <5>1, <3>2, <2>3 DEF CacheInv, StubTablesLive, LiveAs
      <4> QED
        BY <4>1, <4>2
    <3> QED
      BY <3>1, <3>2 DEF StubTablesLive
  <2> QED
    BY <2>4, <2>5, <2>6 DEF CacheInv
<1>4. ASSUME NEW k \in RomKeys, DispatchCurrent(k) PROVE CacheInv'
  BY <1>4, SameCaches DEF DispatchCurrent
<1>5. ASSUME NEW k \in Keys, DispatchSlow(k) PROVE CacheInv'
  BY <1>5, SameCaches DEF DispatchSlow
<1>6. CASE DispatchBios
  BY <1>6, SameCaches DEF DispatchBios
<1>7. ASSUME NEW u \in RamSlots, NEW v \in Values, StoreTagged(u, v) PROVE CacheInv'
  BY <1>7, FlushRamNowInv DEF StoreTagged
<1>8. ASSUME NEW u \in RamSlots, NEW v \in Values, StorePlain(u, v) PROVE CacheInv'
  BY <1>8, SameCaches DEF StorePlain
<1>9. CASE Waitcnt
  BY <1>9, FlushBothInv DEF Waitcnt, CacheInv, CacheType
<1>10. CASE LoadState
  <2>1. Cooled(heat) \in [HeatSlots -> 0 .. HotThreshold]
    BY CooledType DEF CacheInv, CacheType
  <2> QED
    BY <1>10, <2>1, FlushBothInv DEF LoadState
<1>11. CASE LoadRefused
  <2>1. /\ heat \in [HeatSlots -> 0 .. HotThreshold]
        /\ codeMin \in 0 .. Slots /\ codeMax \in 0 .. Slots
        /\ \A u \in RamSlots : tag[u] > 0 => codeMin <= u /\ u <= codeMax
    BY DEF CacheInv, CacheType, TagsOK
  <2> QED
    BY <1>11, <2>1, FlushAllInv DEF LoadRefused
<1>12. CASE InterpStore
  BY <1>12, SameCaches DEF InterpStore
<1>13. CASE InterpDone
  BY <1>13, SameCaches DEF InterpDone
<1>14. ASSUME NEW k \in RomKeys, InterpBranch(k) PROVE CacheInv'
  <2>1. PICK inc \in HeatIncrements :
          heat' = [heat EXCEPT ![HeatIdx[k]] = Least(@ + inc, HotThreshold)]
    BY <1>14 DEF InterpBranch
  <2>2. HeatIdx[k] \in HeatSlots /\ inc \in Nat /\ HotThreshold \in Nat
    BY HeatAssumption DEF HeatSlots
  <2>3. heat' \in [HeatSlots -> 0 .. HotThreshold]
    BY <2>1, <2>2 DEF CacheInv, CacheType, Least
  <2> QED
    BY <1>14, <2>3, HeatInv DEF InterpBranch
<1>15. CASE Reset
  <2>1. entry' \in [Tags -> [BOOLEAN -> Nat]] /\ nextTag' \in Nat \ {0}
    BY <1>15 DEF Reset, CacheInv, CacheType
  <2>2. RamWatermark + (nextTag' - 1) * TagSize <= RamSize
    <3>1. \A n \in Nat, m \in Nat : n * m \in Nat
      OBVIOUS
    <3>2. (nextTag - 1) * TagSize \in Nat
      <4>1. nextTag - 1 \in Nat /\ TagSize \in Nat
        BY CacheAssumption DEF CacheInv, CacheType
      <4> QED
        BY <3>1, <4>1
    <3> QED
      BY <1>15, <3>2, CacheAssumption DEF Reset, CacheInv, CacheType, TableOK
  <2> QED
    BY <1>15, <2>1, <2>2, EmptiedInv DEF Reset
<1>16. CASE Dispatch
  BY <1>2, <1>3, <1>4, <1>5, <1>6, <1>16 DEF Dispatch
<1>17. CASE JitStore \/ DmaStore
  BY <1>7, <1>8, <1>17 DEF JitStore, DmaStore
<1> QED
  BY <1>1, <1>9, <1>10, <1>11, <1>12, <1>13, <1>14, <1>15, <1>16, <1>17 DEF Guest

-----------------------------------------------------------------------------
(* Every action preserves CallInv *)

LEMMA EmptyStack ==
  ASSUME stack' = <<>>
  PROVE  StackOK'
<1>1. Len(stack') = 0 /\ 1 .. Len(stack') = {} /\ 2 .. Len(stack') = {}
  OBVIOUS
<1>2. stack' \in Seq([key : Keys, loc : Loc, len : Nat, i : Nat \ {0}])
  OBVIOUS
<1> QED
  BY <1>1, <1>2 DEF StackOK

(* A call that has resolved an exit leaves a sound stack. *)
LEMMA AdvancedStack ==
  ASSUME NEW s \in Seq(Frames), s # <<>>,
         \A j \in 1 .. Len(s) : FrameOK(s[j]),
         \A j \in 2 .. Len(s) : Pending(s[j]) /\ ExitOf(s[j]).to = s[j - 1].key,
         s[Len(s)].key = want,
         stack' = Advanced(s), UNCHANGED <<want, code>>
  PROVE  StackOK'
<1>1. /\ stack' \in Seq(Frames)
      /\ \A j \in 1 .. Len(stack') : FrameOK(stack'[j])
      /\ \A j \in 2 .. Len(stack') :
           Pending(stack'[j]) /\ ExitOf(stack'[j]).to = stack'[j - 1].key
      /\ stack'[Len(stack')].key = want'
  BY AdvancedOK
<1> HIDE DEF FrameOK
<1>2. \A f : FrameOK(f) => FrameOK(f)'
  BY DEF FrameOK, LiveAs
<1>3. \A j \in 1 .. Len(stack') : FrameOK(stack[j])'
  BY <1>1, <1>2
<1> QED
  BY <1>1, <1>3 DEF StackOK, Frames, Pending, ExitOf

(* A call for the target of the innermost pending exit is put on the stack. *)
LEMMA PushedStack ==
  ASSUME CacheInv, StackOK, stack # <<>>, Pending(Head(stack)),
         NEW k \in Keys, k = ExitOf(Head(stack)).to, Emit(k),
         stack' = <<Frame(k)>> \o stack, want' = want
  PROVE  StackOK'
<1>1. stack \in Seq(Frames) /\ Len(stack) \in Nat \ {0} /\ Head(stack) = stack[1]
  BY DEF StackOK, Frames
<1>2. Frame(k) \in Frames /\ Frame(k).key = k /\ \A f : f = Frame(k) => FrameOK(f)'
  BY FrameLive DEF Frame
<1> DEFINE new == Frame(k)
<1>3. new \in Frames /\ new.key = k /\ stack' = <<new>> \o stack
  BY <1>2
<1> HIDE DEF new
<1>4. /\ stack' \in Seq(Frames) /\ Len(stack') = Len(stack) + 1
      /\ stack'[1] = new
      /\ \A j \in 2 .. Len(stack') : stack'[j] = stack[j - 1]
  BY <1>1, <1>3
<1>5. \A f : FrameOK(f) => FrameOK(f)'
  BY EmitLive DEF FrameOK
<1>6. \A j \in 1 .. Len(stack') : FrameOK(stack[j])'
  <2> SUFFICES ASSUME NEW j \in 1 .. Len(stack') PROVE FrameOK(stack[j])'
    OBVIOUS
  <2>1. CASE j = 1
    BY <2>1, <1>2, <1>4 DEF new
  <2>2. CASE j # 1
    <3>1. j \in 2 .. Len(stack') /\ j - 1 \in 1 .. Len(stack)
      BY <2>2, <1>1, <1>4
    <3>2. stack'[j] = stack[j - 1] /\ FrameOK(stack[j - 1])
      BY <3>1, <1>4 DEF StackOK
    <3> QED
      BY <3>2, <1>5
  <2> QED
    BY <2>1, <2>2
<1>7. \A j \in 2 .. Len(stack') :
        Pending(stack'[j]) /\ ExitOf(stack'[j]).to = stack'[j - 1].key
  <2> SUFFICES ASSUME NEW j \in 2 .. Len(stack')
               PROVE  Pending(stack'[j]) /\ ExitOf(stack'[j]).to = stack'[j - 1].key
    OBVIOUS
  <2>1. stack'[j] = stack[j - 1]
    BY <1>4
  <2>2. CASE j = 2
    <3>1. stack'[j] = Head(stack) /\ stack'[j - 1] = new
      BY <2>1, <2>2, <1>1, <1>4
    <3> QED
      BY <3>1, <1>3
  <2>3. CASE j # 2
    <3>1. j - 1 \in 2 .. Len(stack) /\ j - 1 \in 2 .. Len(stack')
      BY <2>3, <1>1, <1>4
    <3>2. Pending(stack[j - 1]) /\ ExitOf(stack[j - 1]).to = stack[j - 1 - 1].key
      BY <3>1 DEF StackOK
    <3>3. stack'[j - 1] = stack[j - 1 - 1]
      BY <3>1, <1>4
    <3> QED
      BY <2>1, <3>2, <3>3
  <2> QED
    BY <2>2, <2>3
<1>8. stack'[Len(stack')].key = want'
  <2>1. stack'[Len(stack')] = stack[Len(stack)]
    BY <1>1, <1>4
  <2> QED
    BY <2>1 DEF StackOK
<1> QED
  BY <1>4, <1>6, <1>7, <1>8 DEF StackOK, Frames, Pending, ExitOf

(* The calls that remain when the innermost one returns. *)
LEMMA TailStack ==
  ASSUME StackOK, stack # <<>>, Tail(stack) # <<>>
  PROVE  /\ Tail(stack) \in Seq(Frames)
         /\ \A j \in 1 .. Len(Tail(stack)) : FrameOK(Tail(stack)[j])
         /\ \A j \in 2 .. Len(Tail(stack)) :
              Pending(Tail(stack)[j]) /\ ExitOf(Tail(stack)[j]).to = Tail(stack)[j - 1].key
         /\ Tail(stack)[Len(Tail(stack))].key = want
<1> DEFINE t == Tail(stack)
<1>1. /\ stack \in Seq(Frames) /\ Len(stack) \in Nat \ {0}
      /\ t \in Seq(Frames) /\ Len(t) = Len(stack) - 1
      /\ \A j \in 1 .. Len(t) : t[j] = stack[j + 1]
  BY DEF StackOK, Frames
<1>2. Len(t) \in Nat \ {0}
  BY <1>1
<1> HIDE DEF t
<1>3. \A j \in 1 .. Len(t) : FrameOK(t[j])
  <2> SUFFICES ASSUME NEW j \in 1 .. Len(t) PROVE FrameOK(t[j])
    OBVIOUS
  <2>1. j + 1 \in 1 .. Len(stack) /\ t[j] = stack[j + 1]
    BY <1>1, <1>2
  <2> QED
    BY <2>1 DEF StackOK
<1>4. \A j \in 2 .. Len(t) : Pending(t[j]) /\ ExitOf(t[j]).to = t[j - 1].key
  <2> SUFFICES ASSUME NEW j \in 2 .. Len(t) PROVE Pending(t[j]) /\ ExitOf(t[j]).to = t[j - 1].key
    OBVIOUS
  <2>1. j + 1 \in 2 .. Len(stack) /\ t[j] = stack[j + 1] /\ t[j - 1] = stack[j + 1 - 1]
    BY <1>1, <1>2
  <2>2. Pending(stack[j + 1]) /\ ExitOf(stack[j + 1]).to = stack[j + 1 - 1].key
    <3>1. \A i \in 2 .. Len(stack) : Pending(stack[i]) /\ ExitOf(stack[i]).to = stack[i - 1].key
      BY DEF StackOK
    <3> HIDE DEF Pending, ExitOf
    <3> QED
      BY <2>1, <3>1
  <2> QED
    BY <2>1, <2>2
<1>5. t[Len(t)].key = want
  <2>1. t[Len(t)] = stack[Len(stack)]
    BY <1>1, <1>2
  <2> QED
    BY <2>1 DEF StackOK
<1> QED
  BY <1>1, <1>3, <1>4, <1>5 DEF t

(* A resolution that ends enters a live translation of the wanted key. *)
LEMMA ReturnTopLive ==
  ASSUME StackOK, stack # <<>>, Tail(stack) = <<>>
  PROVE  Head(stack).loc \in Loc /\ LiveAs(Head(stack).loc, want)
<1>1. stack \in Seq(Frames)
  BY DEF StackOK, Frames
<1>2. Len(stack) = 1 /\ Head(stack) = stack[1]
  <2>1. Len(stack) \in Nat \ {0} /\ Len(Tail(stack)) = Len(stack) - 1 /\ Head(stack) = stack[1]
    BY <1>1
  <2>2. Len(Tail(stack)) = 0
    <3>1. \A t : t = <<>> => Len(t) = 0
      OBVIOUS
    <3> QED
      BY <3>1
  <2> QED
    BY <2>1, <2>2
<1>3. Head(stack) \in Frames /\ FrameOK(Head(stack))
  BY HeadFacts
<1>4. stack[1].key = want
  BY <1>2 DEF StackOK
<1> QED
  BY <1>2, <1>3, <1>4 DEF FrameOK, Frames

LEMMA LookupFacts ==
  ASSUME CallInv, mode = "lookup"
  PROVE  want \in Keys /\ cur = Nowhere /\ attempt \in 0 .. Attempts
BY DEF CallInv

(* A step that stays in the resolver. *)
LEMMA StaysInLookup ==
  ASSUME CallInv, mode = "lookup", UNCHANGED <<mode, want, cur, ram>>,
         attempt' \in 0 .. Attempts, stack' # <<>> => attempt' < Attempts, StackOK'
  PROVE  CallInv'
BY DEF CallInv, RunningLive

LEMMA EnterInv ==
  ASSUME CallInv, CacheInv, NEW loc \in Loc, Live(loc), EnterBlock(loc),
         UNCHANGED <<code, ram>>
  PROVE  CallInv'
<1>1. StackOK'
  BY EmptyStack DEF EnterBlock
<1>2. Live(loc)'
  BY DEF Live
<1>3. RunningLive'
  BY <1>2 DEF RunningLive, EnterBlock, Live
<1> QED
  BY <1>1, <1>3, KeysAssumption DEF CallInv, EnterBlock, Attempts

LEMMA ResolveCall ==
  ASSUME IInv, Resolve
  PROVE  CallInv'
<1> USE DEF IInv
<1>1. CASE TopFound
  <2>1. want \in Keys /\ Found(want) # 0
    BY <1>1, LookupFacts DEF TopFound, AtTop
  <2>2. FoundLoc(want) \in Loc /\ Live(FoundLoc(want))
    BY <2>1, FoundLive DEF LiveAs, Live
  <2> QED
    BY <1>1, <2>2, EnterInv DEF TopFound, caches
<1>2. CASE TopCold
  <2>1. StackOK'
    BY <1>2, EmptyStack DEF TopCold, AtTop
  <2> QED
    BY <1>2, <2>1, LookupFacts, KeysAssumption
       DEF TopCold, AtTop, CallInv, RunningLive, Attempts
<1>3. CASE TopTranslate
  <2>1. /\ want \in Keys /\ mode = "lookup"
        /\ attempt' \in 0 .. Attempts /\ attempt' < Attempts
    BY <1>3, LookupFacts DEF TopTranslate, AtTop
  <2>2. Frame(want) \in Frames /\ Frame(want).key = want
          /\ \A f : f = Frame(want) => FrameOK(f)'
    BY <1>3, <2>1, FrameLive DEF TopTranslate, Frame
  <2>3. stack' = <<Frame(want)>> /\ want' = want
    BY <1>3 DEF TopTranslate
  <2>4. /\ stack' \in Seq(Frames) /\ Len(stack') = 1 /\ stack'[1] = Frame(want)
        /\ 1 .. Len(stack') = {1} /\ 2 .. Len(stack') = {}
    BY <2>2, <2>3
  <2>5. StackOK'
    BY <2>2, <2>3, <2>4 DEF StackOK, Frames
  <2> QED
    BY <1>3, <2>1, <2>5, StaysInLookup DEF TopTranslate
<1>4. CASE TopOverflow
  <2>1. mode = "lookup" /\ attempt' \in 0 .. Attempts
    BY <1>4, LookupFacts DEF TopOverflow, AtTop, Attempts
  <2>2. StackOK'
    BY <1>4, EmptyStack DEF TopOverflow, AtTop
  <2>3. stack' = <<>>
    BY <1>4 DEF TopOverflow, AtTop
  <2> QED
    BY <1>4, <2>1, <2>2, <2>3, StaysInLookup DEF TopOverflow
<1>5. CASE GiveUp
  <2>1. mode = "lookup" /\ attempt' \in 0 .. Attempts /\ attempt' < Attempts
    BY <1>5 DEF GiveUp, Attempts
  <2>2. StackOK'
    BY <1>5 DEF GiveUp, caches, CallInv, StackOK, FrameOK, LiveAs, Pending, ExitOf
  <2> QED
    BY <1>5, <2>1, <2>2, StaysInLookup DEF GiveUp
<1>6. ASSUME Resolving, stack' = Advanced(stack), UNCHANGED <<mode, want, attempt, cur, code, ram>>
      PROVE  CallInv'
  <2>1. mode = "lookup" /\ attempt' \in 0 .. Attempts /\ attempt' < Attempts
    BY <1>6, LookupFacts DEF Resolving, CallInv
  <2>2. StackOK'
    BY <1>6, AdvancedStack DEF Resolving, CallInv, StackOK, Frames
  <2> QED
    BY <1>6, <2>1, <2>2, StaysInLookup
<1>7. CASE ExitSkip \/ ExitFound
  BY <1>6, <1>7 DEF ExitSkip, ExitFound, caches
<1>8. CASE ExitTranslate
  <2>1. mode = "lookup" /\ attempt' \in 0 .. Attempts /\ attempt' < Attempts
    BY <1>8, LookupFacts DEF ExitTranslate, Resolving, CallInv
  <2>2. StackOK'
    BY <1>8, PushedStack DEF ExitTranslate, Resolving, CallInv, Target
  <2> QED
    BY <1>8, <2>1, <2>2, StaysInLookup DEF ExitTranslate
<1>9. CASE ExitOverflow
  <2>1. mode = "lookup" /\ attempt' \in 0 .. Attempts
    BY <1>9, LookupFacts DEF ExitOverflow, Resolving, CallInv, Attempts
  <2>2. StackOK'
    BY <1>9, EmptyStack DEF ExitOverflow
  <2>3. stack' = <<>>
    BY <1>9 DEF ExitOverflow
  <2> QED
    BY <1>9, <2>1, <2>2, <2>3, StaysInLookup DEF ExitOverflow
<1>10. CASE ReturnNested
  <2>1. mode = "lookup" /\ attempt' \in 0 .. Attempts /\ attempt' < Attempts
    BY <1>10, LookupFacts DEF ReturnNested, Finished, CallInv
  <2>2. StackOK'
    BY <1>10, TailStack, AdvancedStack DEF ReturnNested, Finished, CallInv
  <2> QED
    BY <1>10, <2>1, <2>2, StaysInLookup DEF ReturnNested
<1>11. CASE ReturnTop
  <2>1. Head(stack).loc \in Loc /\ LiveAs(Head(stack).loc, want)
    BY <1>11, ReturnTopLive DEF ReturnTop, Finished, CallInv
  <2>2. Live(Head(stack).loc)
    BY <2>1 DEF LiveAs, Live
  <2> QED
    BY <1>11, <2>1, <2>2, EnterInv DEF ReturnTop, caches
<1> QED
  BY <1>1, <1>2, <1>3, <1>4, <1>5, <1>7, <1>8, <1>9, <1>10, <1>11 DEF Resolve

(* Outside the resolver no call is in progress. *)
LEMMA GuestStays ==
  ASSUME CallInv, UNCHANGED resolver, mode # "lookup",
         ram' \in [RamSlots -> Values], cur' \in Loc \cup {Nowhere}, RunningLive'
  PROVE  CallInv'
<1>1. StackOK'
  BY EmptyStack DEF CallInv, resolver
<1> QED
  BY <1>1 DEF CallInv, resolver

(* A store or a load that may discard code stops the block that runs. *)
LEMMA LeavesBlock ==
  ASSUME CallInv, UNCHANGED resolver, mode # "lookup",
         ram' \in [RamSlots -> Values], cur' = Nowhere
  PROVE  CallInv'
BY GuestStays DEF RunningLive

(* A step that neither moves nor discards the running block. *)
LEMMA KeepsBlock ==
  ASSUME CallInv, UNCHANGED resolver, mode # "lookup",
         ram' \in [RamSlots -> Values], UNCHANGED <<cur, code>>
  PROVE  CallInv'
<1>1. RunningLive' /\ cur' \in Loc \cup {Nowhere}
  BY DEF CallInv, RunningLive, Live
<1> QED
  BY <1>1, GuestStays

(* A jump to live code. *)
LEMMA JumpsLive ==
  ASSUME CallInv, UNCHANGED <<resolver, ram, code>>, mode # "lookup",
         NEW loc \in Loc, Live(loc), cur' = loc
  PROVE  CallInv'
<1>1. RunningLive'
  BY DEF RunningLive, Live
<1> QED
  BY <1>1, GuestStays DEF CallInv

LEMMA GuestCall ==
  ASSUME IInv, Guest
  PROVE  CallInv'
<1> USE DEF IInv
<1>0. ram \in [RamSlots -> Values] /\ (mode # "lookup" => stack = <<>> /\ want \notin Keys)
  BY DEF CallInv
<1>1. CASE FollowLink
  <2>1. PICK l \in links : l.from = cur /\ cur' = l.to
    BY <1>1 DEF FollowLink
  <2>2. l.to \in Loc /\ Live(l.to)
    BY <2>1 DEF CacheInv, LinksOK, NoDanglingLink, LiveAs, Live
  <2> QED
    BY <1>1, <2>1, <2>2, JumpsLive DEF FollowLink, Running, caches
<1>2. ASSUME NEW k \in RomKeys, DispatchHot(k) PROVE CallInv'
  <2>1. hot[HotIdx[k]].key = k /\ HotIdx[k] \in HotSlots
    BY <1>2 DEF DispatchHot, HotSlots
  <2>2. LiveAs(hot[HotIdx[k]].loc, k)
    BY <2>1 DEF CacheInv, StubTablesLive
  <2>3. hot[HotIdx[k]].loc \in Loc /\ Live(hot[HotIdx[k]].loc)
    BY <2>2 DEF LiveAs, Live, CacheInv, CodeOK, BlockOK
  <2> QED
    BY <1>2, <2>3, JumpsLive DEF DispatchHot, caches
<1>3. ASSUME NEW k \in RomKeys, DispatchHash(k) \/ DispatchCurrent(k) PROVE CallInv'
  <2>1. k \in Keys /\ Found(k) # 0
    BY <1>3 DEF DispatchHash, DispatchCurrent, Found, Keys
  <2>2. FoundLoc(k) \in Loc /\ Live(FoundLoc(k))
    BY <2>1, FoundLive DEF LiveAs, Live
  <2> QED
    BY <1>3, <2>2, JumpsLive DEF DispatchHash, DispatchCurrent, caches
<1>4. ASSUME NEW k \in Keys, DispatchSlow(k) PROVE CallInv'
  <2>1. StackOK'
    BY <1>0, <1>4, EmptyStack DEF DispatchSlow
  <2>2. stack' = <<>>
    BY <1>0, <1>4 DEF DispatchSlow
  <2> QED
    BY <1>4, <2>1, <2>2 DEF DispatchSlow, CallInv, RunningLive, caches
<1>5. CASE DispatchBios
  <2>1. StackOK'
    BY <1>0, <1>5, EmptyStack DEF DispatchBios
  <2> QED
    BY <1>5, <2>1 DEF DispatchBios, CallInv, RunningLive, caches
<1>6. ASSUME NEW u \in RamSlots, NEW v \in Values,
             StoreTagged(u, v) \/ StorePlain(u, v), mode # "lookup", UNCHANGED resolver
      PROVE  CallInv'
  <2>1. ram' \in [RamSlots -> Values]
    BY <1>0, <1>6 DEF StoreTagged, StorePlain, Write
  <2>2. CASE StoreTagged(u, v)
    BY <1>6, <2>1, <2>2, LeavesBlock DEF StoreTagged
  <2>3. CASE StorePlain(u, v)
    BY <1>6, <2>1, <2>3, KeepsBlock DEF StorePlain, caches
  <2> QED
    BY <1>6, <2>2, <2>3
<1>7. CASE JitStore \/ DmaStore
  BY <1>6, <1>7 DEF JitStore, DmaStore, Running
<1>8. CASE Waitcnt
  BY <1>0, <1>8, LeavesBlock DEF Waitcnt
<1>9. CASE LoadState
  BY <1>9, LeavesBlock DEF LoadState
<1>10. CASE LoadRefused
  BY <1>0, <1>10, LeavesBlock DEF LoadRefused
<1>11. CASE InterpStore
  <2>1. PICK u \in InterpStores, v \in Values : ram' = [ram EXCEPT ![u] = v]
    BY <1>11 DEF InterpStore, Write
  <2>2. ram' \in [RamSlots -> Values]
    BY <1>0, <2>1
  <2> QED
    BY <1>11, <2>2, KeepsBlock DEF InterpStore, caches
<1>12. CASE InterpDone
  <2>1. StackOK'
    BY <1>0, <1>12, EmptyStack DEF InterpDone
  <2> QED
    BY <1>0, <1>12, <2>1 DEF InterpDone, CallInv, RunningLive, Live, caches
<1>13. ASSUME NEW k \in RomKeys, InterpBranch(k) PROVE CallInv'
  <2>1. StackOK'
    BY <1>0, <1>13, EmptyStack DEF InterpBranch
  <2>2. mode' \in {"guest", "interp"} /\ mode = "interp"
    BY <1>13 DEF InterpBranch
  <2> QED
    BY <1>0, <1>13, <2>1, <2>2 DEF InterpBranch, CallInv, RunningLive, Live
<1>14. CASE Reset
  BY <1>14, LeavesBlock DEF Reset
<1>15. CASE Dispatch
  BY <1>2, <1>3, <1>4, <1>5, <1>15 DEF Dispatch
<1> QED
  BY <1>1, <1>7, <1>8, <1>9, <1>10, <1>11, <1>12, <1>13, <1>14, <1>15 DEF Guest

-----------------------------------------------------------------------------
(* The theorems *)

LEMMA InitInv == Init => IInv
<1> SUFFICES ASSUME Init PROVE IInv
  OBVIOUS
<1>1. StackOK
  <2>1. Len(stack) = 0 /\ 1 .. Len(stack) = {} /\ 2 .. Len(stack) = {} /\ stack = <<>>
    BY DEF Init
  <2>2. stack \in Seq([key : Keys, loc : Loc, len : Nat, i : Nat \ {0}])
    BY <2>1
  <2> QED
    BY <2>1, <2>2 DEF StackOK
<1>2. CallInv
  BY <1>1, KeysAssumption DEF Init, CallInv, RunningLive, Attempts
<1> QED
  BY <1>2, InitCache DEF IInv

LEMMA NextInv == IInv /\ [Next]_vars => IInv'
<1> SUFFICES ASSUME IInv, [Next]_vars PROVE IInv'
  OBVIOUS
<1>1. CASE Next
  BY <1>1, ResolveCache, ResolveCall, GuestCache, GuestCall DEF Next, IInv
<1>2. CASE UNCHANGED vars
  <2>1. UNCHANGED <<resolver, cur, caches, ram>>
    BY <1>2 DEF vars
  <2>2. CacheInv'
    BY <2>1, SameCaches DEF IInv
  <2>3. UNCHANGED <<mode, want, attempt, stack, cur, code, ram>>
    BY <2>1 DEF resolver, caches
  <2>4. CallInv'
    BY <2>3 DEF IInv, CallInv, StackOK, FrameOK, LiveAs, RunningLive, Live, Pending, ExitOf
  <2> QED
    BY <2>2, <2>4 DEF IInv
<1> QED
  BY <1>1, <1>2

(* The inductive invariant holds in every reachable state of the caches.    *)
THEOREM InvHolds == Spec => []IInv
BY InitInv, NextInv, PTL DEF Spec

(* Every variable keeps its shape: the tag table is never indexed beyond    *)
(* its end, and no scan cap falls to zero.                                  *)
THEOREM TypesHold == Spec => []TypeOK
<1>1. IInv => TypeOK
  BY DEF IInv, CacheInv, CacheType, CallInv, TypeOK
<1> QED
  BY <1>1, InvHolds, PTL

(* A patched exit never leads to discarded code, nor to a block that is not *)
(* its target, whatever flushes the two caches have been through.           *)
THEOREM LinksHold == Spec => []NoDanglingLink
<1>1. IInv => NoDanglingLink
  BY DEF IInv, CacheInv
<1> QED
  BY <1>1, InvHolds, PTL

(* The stubs' hash and hot table never name discarded or foreign code. *)
THEOREM StubsHold == Spec => []StubTablesLive
<1>1. IInv => StubTablesLive
  BY DEF IInv, CacheInv
<1> QED
  BY <1>1, InvHolds, PTL

(* The partial wipe of a RAM flush leaves no tag that finds discarded code. *)
THEOREM RamTagsHold == Spec => []RamTagsLive
<1>1. IInv => RamTagsLive
  BY DEF IInv, CacheInv
<1> QED
  BY <1>1, InvHolds, PTL

(* A store to any slot of a live RAM block meets a tag. *)
THEOREM StoresHold == Spec => []StoresDetected
<1>1. IInv => StoresDetected
  BY DEF IInv, CacheInv
<1> QED
  BY <1>1, InvHolds, PTL

(* The block that runs is never discarded under the guest. *)
THEOREM RunningHolds == Spec => []RunningLive
<1>1. IInv => RunningLive
  BY DEF IInv, CallInv
<1> QED
  BY <1>1, InvHolds, PTL

(* A step from a resolution to the guest enters the wanted block. *)
LEMMA ResolvesStep ==
  ASSUME IInv, Next, mode = "lookup", mode' = "guest"
  PROVE  \E b \in code' : b.loc = cur' /\ b.key = want
<1> USE DEF IInv
<1>1. TopFound \/ ReturnTop
  BY DEF Next, Resolve, Guest, Dispatch, TopCold, TopTranslate, TopOverflow, GiveUp, ExitSkip,
         ExitFound, ExitTranslate, ExitOverflow, ReturnNested, FollowLink, Running, DispatchHot,
         DispatchHash, DispatchCurrent, DispatchSlow, DispatchBios, JitStore, DmaStore, Waitcnt,
         LoadState, LoadRefused, InterpStore, InterpBranch, InterpDone, Reset
<1>2. CASE TopFound
  <2>1. want \in Keys /\ Found(want) # 0
    BY <1>2, LookupFacts DEF TopFound, AtTop
  <2>2. LiveAs(FoundLoc(want), want)
    BY <2>1, FoundLive
  <2> QED
    BY <1>2, <2>2 DEF TopFound, EnterBlock, LiveAs, caches
<1>3. CASE ReturnTop
  <2>1. LiveAs(Head(stack).loc, want)
    BY <1>3, ReturnTopLive DEF ReturnTop, Finished, CallInv
  <2> QED
    BY <1>3, <2>1 DEF ReturnTop, EnterBlock, LiveAs, caches
<1> QED
  BY <1>1, <1>2, <1>3

(* The resolver returns a live translation of the key it was called for. *)
THEOREM ResolvesHold == Spec => ResolvesWanted
<1>1. IInv /\ [Next]_vars =>
        [mode = "lookup" /\ mode' = "guest" => \E b \in code' : b.loc = cur' /\ b.key = want]_vars
  BY ResolvesStep
<1> QED
  BY <1>1, InvHolds, PTL DEF Spec, ResolvesWanted

(* While calls are in progress only a flush changes the gate's counters,    *)
(* and a flush cools.                                                       *)
LEMMA ProbeStep ==
  ASSUME IInv, Next, stack # <<>>
  PROVE  \A h \in HeatSlots : heat'[h] <= heat[h]
<1>1. heat \in [HeatSlots -> 0 .. HotThreshold]
  BY DEF IInv, CacheInv, CacheType
<1>2. mode = "lookup"
  BY DEF IInv, CallInv
<1>3. heat' = heat \/ heat' = Cooled(heat)
  BY <1>2 DEF Next, Resolve, Guest, Dispatch, AtTop, TopFound, TopCold, TopTranslate, TopOverflow,
         GiveUp, ExitSkip, ExitFound, ExitTranslate, ExitOverflow, ReturnNested, ReturnTop,
         FollowLink, Running, DispatchHot, DispatchHash, DispatchCurrent, DispatchSlow,
         DispatchBios, JitStore, DmaStore, Waitcnt, LoadState, LoadRefused, InterpStore,
         InterpBranch, InterpDone, Reset, Emit, Overflow, FlushRom, caches
<1>4. ASSUME NEW h \in HeatSlots PROVE Cooled(heat)[h] <= heat[h]
  <2>1. heat[h] \in Nat /\ FlushLeak \in Nat
    BY <1>1, HeatAssumption
  <2> QED
    BY <2>1 DEF Cooled, Greatest
<1> QED
  BY <1>1, <1>3, <1>4, HeatAssumption

(* Resolving exits heats no code, for any program and any threshold. *)
THEOREM ProbesHold == Spec => ProbeNeverHeats
<1>1. IInv /\ [Next]_vars => [stack # <<>> => \A h \in HeatSlots : heat'[h] <= heat[h]]_vars
  BY ProbeStep
<1> QED
  BY <1>1, InvHolds, PTL DEF Spec, ProbeNeverHeats

-----------------------------------------------------------------------------
(* What a step does to the emitted code *)

(* Code is only ever added by an emission that fits, or discarded.          *)
LEMMA CodeStep ==
  ASSUME IInv, Next
  PROVE  (\E k \in Keys : Emit(k) /\ ram' = ram) \/ code' \subseteq code
<1>1. mode = "lookup" => want \in Keys
  BY DEF IInv, CallInv
<1>2. CASE TopTranslate \/ ExitTranslate
  BY <1>1, <1>2 DEF TopTranslate, ExitTranslate, AtTop, Resolving
<1>3. CASE TopOverflow \/ ExitOverflow
  BY <1>3 DEF TopOverflow, ExitOverflow, Overflow, Discard
<1>4. CASE TopFound \/ TopCold \/ GiveUp \/ ExitSkip \/ ExitFound \/ ReturnNested \/ ReturnTop
  BY <1>4 DEF TopFound, TopCold, GiveUp, ExitSkip, ExitFound, ReturnNested, ReturnTop, caches
<1>5. CASE FollowLink \/ Dispatch \/ InterpStore \/ InterpDone \/ \E k \in RomKeys : InterpBranch(k)
  BY <1>5 DEF FollowLink, Dispatch, DispatchHot, DispatchHash, DispatchCurrent, DispatchSlow,
              DispatchBios, InterpStore, InterpDone, InterpBranch, caches
<1>6. CASE JitStore \/ DmaStore
  BY <1>6 DEF JitStore, DmaStore, StoreTagged, StorePlain, FlushRamNow, Discard, caches
<1>7. CASE Waitcnt \/ LoadState \/ LoadRefused \/ Reset
  BY <1>7 DEF Waitcnt, LoadState, LoadRefused, Reset, FlushBoth, Discard
<1> QED
  BY <1>2, <1>3, <1>4, <1>5, <1>6, <1>7 DEF Next, Resolve, Guest

Apart(b, c) == EndOf(b) <= c.loc.off \/ EndOf(c) <= b.loc.off

(* A new block starts where the last one of its cache ended. *)
LEMMA DisjointStep ==
  ASSUME IInv, IInv', BlocksDisjoint, Next
  PROVE  BlocksDisjoint'
<1>1. /\ \A b \in code : BlockOK(b)
      /\ \A b \in code' : BlockOK(b)'
  BY DEF IInv, CacheInv, CodeOK
<1>2. /\ {romPtr, ramPtr, romPtr', ramPtr', nextTag', HdrSize} \subseteq Nat
      /\ ramPtr' + (nextTag' - 1) * TagSize <= RamSize
  BY CacheAssumption DEF IInv, CacheInv, CacheType, TableOK
<1>3. \A b \in code' : b.loc.cache = "ram" => EndOf(b) <= RamSize - (nextTag' - 1) * TagSize
  <2> SUFFICES ASSUME NEW b \in code', b.loc.cache = "ram"
               PROVE  EndOf(b) <= RamSize - (nextTag' - 1) * TagSize
    OBVIOUS
  <2>1. EndOf(b) <= ramPtr' /\ EndOf(b) \in Int
    BY <1>1, <1>2 DEF BlockOK, CacheOf, EndOf, Loc
  <2>2. (nextTag' - 1) * TagSize \in Int
    <3>1. \A n, m \in Int : n * m \in Int
      OBVIOUS
    <3>2. nextTag' - 1 \in Int /\ TagSize \in Int
      BY <1>2, CacheAssumption
    <3> QED
      BY <3>1, <3>2
  <2>3. RamSize \in Int
    BY CacheAssumption
  <2> QED
    BY <1>2, <2>1, <2>2, <2>3
<1>4. \A b, c \in code' : b # c /\ b.loc.cache = c.loc.cache => Apart(b, c)
  <2>1. \A b, c \in code : b # c /\ b.loc.cache = c.loc.cache => Apart(b, c)
    BY DEF BlocksDisjoint, Apart
  <2>2. CASE code' \subseteq code
    BY <2>1, <2>2
  <2>3. ASSUME NEW k \in Keys, Emit(k)
        PROVE  \A b, c \in code' : b # c /\ b.loc.cache = c.loc.cache => Apart(b, c)
    <3>1. code' = code \cup {NewBlock(k)}
      BY <2>3 DEF Emit
    <3>2. NewBlock(k).loc = NewLoc(k)
      BY DEF NewBlock
    <3>3. ASSUME NEW b \in code, b.loc.cache = NewLoc(k).cache
          PROVE  EndOf(b) <= NewLoc(k).off
      <4>1. BlockOK(b)
        BY <1>1
      <4> QED
        BY <3>3, <4>1 DEF BlockOK, NewLoc, CacheOf
    <3> QED
      BY <2>1, <3>1, <3>2, <3>3 DEF Apart
  <2> QED
    BY <2>2, <2>3, CodeStep
<1> QED
  BY <1>3, <1>4 DEF BlocksDisjoint, Apart, EndOf

(* Blocks never overlap each other or the tag table, for caches of any size *)
(* and any program.                                                         *)
THEOREM DisjointHolds == Spec => []BlocksDisjoint
<1>1. Init => BlocksDisjoint
  BY DEF Init, BlocksDisjoint
<1>2. IInv /\ IInv' /\ BlocksDisjoint /\ [Next]_vars => BlocksDisjoint'
  <2>1. ASSUME BlocksDisjoint, UNCHANGED vars PROVE BlocksDisjoint'
    BY <2>1 DEF BlocksDisjoint, EndOf, vars, caches, ramSide
  <2> QED
    BY <2>1, DisjointStep
<1> QED
  BY <1>1, <1>2, InvHolds, PTL DEF Spec

(* Interpreted code that writes no slot of any RAM block. *)
InterpHarmless == \A k \in RamKeys : InterpStores \cap CoveredBy(k, Size[k]) = {}

(* A write that meets no tag changes no slot of a live block. *)
LEMMA PlainCoherent ==
  ASSUME IInv, Coherent, NEW u \in RamSlots, NEW v \in Values, StorePlain(u, v)
  PROVE  Coherent'
<1>1. code' = code /\ ram' = [ram EXCEPT ![u] = v] /\ tag[u] = Data
  BY DEF StorePlain, Write, caches
<1>2. ram \in [RamSlots -> Values]
  BY DEF IInv, CallInv
<1> SUFFICES ASSUME NEW b \in code, b.key \in RamKeys, NEW w \in CoveredBy(b.key, b.len)
             PROVE  ram'[w] = b.src[w]
  BY <1>1 DEF Coherent, CoveredBy
<1>3. w # u
  BY <1>1 DEF IInv, CacheInv, StoresDetected
<1> QED
  BY <1>1, <1>2, <1>3 DEF Coherent

LEMMA CoherentStep ==
  ASSUME InterpHarmless, IInv, Coherent, Next
  PROVE  Coherent'
<1>1. CASE \E k \in Keys : Emit(k) /\ ram' = ram
  <2>1. PICK k \in Keys : Emit(k) /\ ram' = ram
    BY <1>1
  <2>2. code' = code \cup {NewBlock(k)}
    BY <2>1 DEF Emit
  <2>3. ASSUME NEW u \in CoveredBy(k, BlockLen(k)), k \in RamKeys
        PROVE  NewBlock(k).src[u] = ram[u]
    BY <2>3 DEF NewBlock
  <2>4. NewBlock(k).key = k /\ NewBlock(k).len = BlockLen(k)
    BY DEF NewBlock
  <2> QED
    BY <2>1, <2>2, <2>3, <2>4 DEF Coherent
<1>2. CASE code' \subseteq code /\ ram' = ram
  BY <1>2 DEF Coherent
<1>3. CASE \A b \in code' : b.key \notin RamKeys
  BY <1>3 DEF Coherent
<1>4. ASSUME NEW u \in RamSlots, NEW v \in Values, StoreTagged(u, v)
      PROVE  Coherent'
  <2>1. code' = {b \in code : b.loc.cache \notin {"ram"}}
    BY <1>4 DEF StoreTagged, FlushRamNow, Discard
  <2>2. \A b \in code' : b.key \notin RamKeys
    BY <2>1, KeysAssumption DEF IInv, CacheInv, CodeOK, BlockOK, CacheOf
  <2> QED
    BY <2>2, <1>3
<1>5. CASE JitStore \/ DmaStore
  BY <1>4, <1>5, PlainCoherent DEF JitStore, DmaStore
<1>6. CASE LoadState \/ Reset
  <2>1. code' = {}
    <3>1. \A b \in code : b.loc.cache \in Caches
      BY DEF IInv, CacheInv, CodeOK, BlockOK, Loc
    <3> QED
      BY <1>6, <3>1 DEF LoadState, Reset, FlushBoth, Discard
  <2> QED
    BY <2>1, <1>3
<1>7. CASE InterpStore
  <2>1. PICK u \in InterpStores, v \in Values : ram' = [ram EXCEPT ![u] = v]
    BY <1>7 DEF InterpStore, Write
  <2>2. code' = code
    BY <1>7 DEF InterpStore, caches
  <2>3. ASSUME NEW b \in code, b.key \in RamKeys, NEW w \in CoveredBy(b.key, b.len)
        PROVE  ram'[w] = b.src[w]
    <3>1. b.len \in Nat /\ b.len <= Size[b.key] /\ b.key \in RamKeys
      BY <2>3 DEF IInv, CacheInv, CodeOK, BlockOK
    <3>2. w \in CoveredBy(b.key, Size[b.key]) /\ w \in RamSlots
      BY <3>1, SizeAssumption DEF CoveredBy, RamSlots, Keys
    <3>3. w # u
      BY <3>1, <3>2, <2>1 DEF InterpHarmless
    <3> QED
      BY <2>1, <2>3, <3>2, <3>3 DEF Coherent, IInv, CallInv
  <2> QED
    BY <2>2, <2>3 DEF Coherent, CoveredBy
<1>8. CASE ram' = ram
  BY <1>1, <1>2, <1>8, CodeStep
<1>9. \/ ram' = ram \/ JitStore \/ DmaStore \/ LoadState \/ Reset \/ InterpStore
  BY DEF Next, Resolve, Guest, Dispatch, TopFound, TopCold, TopTranslate, TopOverflow, GiveUp,
         ExitSkip, ExitFound, ExitTranslate, ExitOverflow, ReturnNested, ReturnTop, FollowLink,
         DispatchHot, DispatchHash, DispatchCurrent, DispatchSlow, DispatchBios, Waitcnt,
         LoadRefused, InterpBranch, InterpDone
<1> QED
  BY <1>5, <1>6, <1>7, <1>8, <1>9

(* As long as interpreted code writes to no slot that RAM code occupies,    *)
(* translated code never goes stale: stores and DMA that modify code are    *)
(* all caught.  Without the premise TLC refutes it (InterpStores = {1}).    *)
THEOREM CoherenceHolds == InterpHarmless /\ Spec => []Coherent
<1> SUFFICES ASSUME InterpHarmless PROVE Spec => []Coherent
  OBVIOUS
<1>1. Init => Coherent
  BY DEF Init, Coherent
<1>2. IInv /\ Coherent /\ [Next]_vars => Coherent'
  <2>1. ASSUME Coherent, UNCHANGED vars PROVE Coherent'
    BY <2>1 DEF Coherent, vars, caches
  <2> QED
    BY <2>1, CoherentStep
<1> QED
  BY <1>1, <1>2, InvHolds, PTL DEF Spec

=============================================================================
