---------------------------- MODULE HleBios_proofs ----------------------------
(***************************************************************************)
(* That a BIOS service leaves no outdated translation behind, and          *)
(* that a call costs what the routine of the BIOS takes.                   *)
(*                                                                         *)
(* The second is an account.  A round of a copy has one price, whoever     *)
(* does it; the engine charges the fetch that ends a word copy when it     *)
(* starts, so while a copy is the engine's the account is ahead by that    *)
(* fetch, also for a copy that an interrupt has put aside.  It never falls *)
(* behind, and for each call it gets ahead at most once for good, when the *)
(* interpreter began the copy and the engine finished it.                  *)
(***************************************************************************)
EXTENDS HleSwi_proofs

-----------------------------------------------------------------------------
(* Translations.  Between any two steps what is outdated is either known to *)
(* a pending alert, or was overwritten by the interpreter.                  *)
Told == alert \/ stale \subseteq missed

LEMMA UnflushedTold ==
  ASSUME NEW cells, Told, Unflushed(cells), ~TagHit(cells), alert' = alert
  PROVE  Told'
<1>1. tagged \cap cells = {}
  BY DEF TagHit, HoldCode
<1>2. stale' = stale /\ missed' = missed
  BY <1>1 DEF Unflushed
<1> QED
  BY <1>2 DEF Told

LEMMA FlushedTold ==
  ASSUME FlushRam
  PROVE  Told'
BY DEF FlushRam, Told

(* Over a host array: the translations go if a cell held code.              *)
LEMMA WroteTold ==
  ASSUME NEW cells, Told, Wrote(cells)
  PROVE  Told'
<1>1. CASE TagHit(cells)
  BY <1>1, FlushedTold DEF Wrote
<1>2. CASE ~TagHit(cells)
  BY <1>2, UnflushedTold DEF Wrote
<1> QED
  BY <1>1, <1>2

(* Through execute_store: an alert is left if a cell held code.             *)
LEMMA StoredTold ==
  ASSUME NEW cells, Told, Stored(cells)
  PROVE  Told'
<1>1. CASE alert \/ TagHit(cells)
  BY <1>1 DEF Stored, Told
<1>2. CASE ~alert /\ ~TagHit(cells)
  <2>1. tagged \cap cells = {}
    BY <1>2 DEF TagHit, HoldCode
  <2>2. stale' = stale /\ missed' = missed
    BY <2>1 DEF Stored, Unflushed
  <2> QED
    BY <1>2, <2>2 DEF Told
<1> QED
  BY <1>1, <1>2

(* Where an alert is acted upon.                                            *)
LEMMA TakenTold ==
  ASSUME NEW cells, Told, AlertTaken(cells)
  PROVE  Told'
<1>1. CASE alert \/ TagHit(cells)
  BY <1>1, FlushedTold DEF AlertTaken
<1>2. CASE ~(alert \/ TagHit(cells))
  BY <1>2, UnflushedTold DEF AlertTaken
<1> QED
  BY <1>1, <1>2

LEMMA IrqFramedTold ==
  ASSUME NEW x, Told, IrqFramed(x)
  PROVE  Told'
BY WroteTold, TakenTold DEF IrqFramed

LEMMA UnseenTold ==
  ASSUME NEW cells, Told, Unseen(cells)
  PROVE  Told'
BY DEF Unseen, Told

LEMMA SameTold ==
  ASSUME Told, caches' = caches
  PROVE  Told'
BY DEF caches, Told

LEMMA GameTold ==
  ASSUME Told, Game
  PROVE  Told'
<1>1. ASSUME NEW c \in Calls \cup IsrCalls, NEW thumb \in BOOLEAN, GameSwi(c, thumb)
      PROVE  Told'
  BY <1>1, SameTold DEF GameSwi
<1>2. ASSUME NEW a \in IsrWrites, IsrWrite(a)
      PROVE  Told'
  <2>1. Wrote({Host[a]})
    BY <1>2 DEF IsrWrite
  <2> QED
    BY <2>1, WroteTold
<1>3. ASSUME NEW b \in Code, RunCode(b)
      PROVE  Told'
  BY <1>3 DEF RunCode, Told
<1>4. CASE SlowAccess
  BY <1>4, TakenTold DEF SlowAccess
<1>5. ASSUME NEW irq \in BOOLEAN, NEW frame \in BOOLEAN, SliceOver(irq, frame)
      PROVE  Told'
  BY <1>5, SameTold DEF SliceOver
<1> QED
  BY <1>1, <1>2, <1>3, <1>4, <1>5 DEF Game

(* The steps that write: a call served at once, the frames of a parked one, *)
(* a batch, the frame pushed when the game's handler is entered, and the    *)
(* interpreter.                                                             *)
LEMMA ServeTold ==
  ASSUME Told, ServeAtOnce
  PROVE  Told'
<1>1. PICK cells : AlertTaken(cells)
  BY DEF ServeAtOnce
<1> QED
  BY <1>1, TakenTold

LEMMA ParkTold ==
  ASSUME Told, Park
  PROVE  Told'
<1>1. Stored(ParkCells(m))
  BY DEF Park
<1> QED
  BY <1>1, StoredTold

LEMMA EnterTold ==
  ASSUME Told, EnterIrq
  PROVE  Told'
<1>1. IrqFramed(m)
  BY DEF EnterIrq
<1> QED
  BY <1>1, IrqFramedTold

LEMMA LeaveTold ==
  ASSUME Told, LeaveIrq
  PROVE  Told'
<1>1. (\E x : IrqFramed(x)) \/ UNCHANGED caches
  BY DEF LeaveIrq
<1> QED
  BY <1>1, IrqFramedTold, SameTold

LEMMA BatchTold ==
  ASSUME Told, Batch
  PROVE  Told'
<1>1. (\E cells : Wrote(cells) \/ Stored(cells)) \/ UNCHANGED caches
  BY DEF Batch
<1> QED
  BY <1>1, WroteTold, StoredTold, SameTold

LEMMA EventTold ==
  ASSUME NEW irq, NEW frame, Told, BatchEvent(irq, frame)
  PROVE  Told'
<1>1. (\E x : IrqFramed(x)) \/ UNCHANGED caches
  BY DEF BatchEvent
<1> QED
  BY <1>1, IrqFramedTold, SameTold

LEMMA StepTold ==
  ASSUME Told, InterpretStep
  PROVE  Told'
<1>1. PICK cells : Unseen(cells)
  BY DEF InterpretStep
<1> QED
  BY <1>1, UnseenTold

LEMMA ServicesTold ==
  ASSUME Told, Services
  PROVE  Told'
<1>1. CASE ServeAtOnce
  BY <1>1, ServeTold
<1>2. CASE Park
  BY <1>2, ParkTold
<1>3. CASE Resume
  BY <1>3, SameTold DEF Resume
<1>4. CASE EnterIrq
  BY <1>4, EnterTold
<1>5. CASE LeaveIrq
  BY <1>5, LeaveTold
<1>6. CASE Interpret
  BY <1>6, SameTold DEF Interpret
<1>7. CASE Batch
  BY <1>7, BatchTold
<1>8. CASE Done
  BY <1>8, SameTold DEF Done
<1>9. CASE InterpretStep
  BY <1>9, StepTold
<1>10. CASE NextFrame
  BY <1>10, SameTold DEF NextFrame
<1>11. ASSUME NEW irq \in BOOLEAN, NEW frame \in BOOLEAN,
              BatchEvent(irq, frame) \/ InterpretEvent(irq, frame) \/ Return(irq, frame)
       PROVE  Told'
  <2>1. CASE BatchEvent(irq, frame)
    BY <2>1, EventTold
  <2>2. CASE InterpretEvent(irq, frame)
    BY <2>2, SameTold DEF InterpretEvent
  <2>3. CASE Return(irq, frame)
    BY <2>3, SameTold DEF Return
  <2> QED
    BY <1>11, <2>1, <2>2, <2>3
<1> QED
  BY <1>1, <1>2, <1>3, <1>4, <1>5, <1>6, <1>7, <1>8, <1>9, <1>10, <1>11 DEF Services

(* cgba_bulk_tags_smc and cgba_store_alert: where the game runs and no      *)
(* alert is pending, every outdated translation is one the interpreter      *)
(* wrote over.  The services leave none, whichever of them ran, and at any  *)
(* of the points where they stop.                                           *)
THEOREM Flushes == Spec => []SwiFlushes
<1>1. Init => Told
  BY DEF Init, Told
<1>2. Told /\ [Next]_vars => Told'
  <2> SUFFICES ASSUME Told, [Next]_vars PROVE Told'
    OBVIOUS
  <2>1. CASE Game
    BY <2>1, GameTold
  <2>2. CASE Services
    BY <2>2, ServicesTold
  <2>3. ASSUME NEW another \in BOOLEAN, IsrEnd(another)
        PROVE  Told'
    BY <2>3, SameTold DEF IsrEnd
  <2>4. CASE UNCHANGED vars
    BY <2>4, SameTold DEF vars
  <2> QED
    BY <2>1, <2>2, <2>3, <2>4 DEF Next
<1>3. Told => SwiFlushes
  BY DEF Told, SwiFlushes
<1> QED
  BY <1>1, <1>2, <1>3, PTL DEF Spec

-----------------------------------------------------------------------------
(* What a round of a copy costs.                                            *)

RoundOf(x) == IF x.pc \in Tops THEN UnitCost(x) ELSE 3 * Fetch + Cost(DestAt(x)) + Branch
\* What the last round costs besides.
EndOf(pc) == IF pc \in {HalfCopy, FastFill} THEN 0 - Branch ELSE Fetch
TailOf(pc, left) == IF left > 0 THEN 0 ELSE EndOf(pc)

\* The cost of a round shows in where it gets to.
Parts(r, z, a, b, p, q) == (r.x = At(z, a) /\ r.cost = p) \/ (r.x = At(z, b) /\ r.cost = q)
LEMMA PartsCost ==
  ASSUME NEW r, r.x \in Machine, NEW z, NEW a, NEW b, a # b, NEW p, NEW q, Parts(r, z, a, b, p, q)
  PROVE  r.cost = IF r.x.pc = a THEN p ELSE q
<1>1. ASSUME NEW pc, At(z, pc) \in Machine PROVE At(z, pc).pc = pc
  <2> DEFINE t == At(z, pc)
  <2>1. t = [i \in DOMAIN z |-> IF i = "pc" THEN pc ELSE z[i]]
    BY DEF At
  <2>2. "pc" \in DOMAIN t
    BY <1>1 DEF Machine
  <2> QED
    BY <2>1, <2>2
<1>2. CASE r.x = At(z, a) /\ r.cost = p
  BY <1>1, <1>2
<1>3. CASE r.x = At(z, b) /\ r.cost = q
  BY <1>1, <1>3
<1> QED
  BY <1>2, <1>3 DEF Parts

LEMMA AgainParts ==
  ASSUME NEW z, NEW again, NEW top, NEW out, NEW cost \in Int
  PROVE  /\ Parts(Again(z, again, top, out, cost, FALSE), z, top, out, cost + Branch, cost)
         /\ Parts(Again(z, again, top, out, cost, TRUE), z, top, out, cost + Branch, cost + Fetch + Branch)
BY CostsAre DEF Parts, Again, Stepped, At

\* A copy that is under way has something left.
LEMMA LoopLeft ==
  ASSUME CallsClean, NEW x, Proto(x), x.pc \in Loops
  PROVE  /\ x \in Machine /\ LeftAt(x) \in Int /\ LeftAt(x) > 0 /\ DestAt(x) \in Int /\ FromAt(x) \in Int
         /\ UnitAt(x) \in Nat /\ UnitAt(x) > 0 /\ RunOk(x, UnitAt(x))
<1>1. x \in Machine /\ DestAt(x) \in Int /\ FromAt(x) \in Int /\ LeftAt(x) \in Int
  BY SeatsAre, AtType
<1>2. PICK c \in AllCalls, q \in Nat : x.pc = TopOf(c) /\ Within(c, q, x)
  BY LoopingIs
<1>3. Clean(c) /\ UnitOf(c) \in Nat /\ UnitOf(c) > 0 /\ UnitAt(x) = UnitOf(c)
  BY <1>2, UnitsAre DEF CallsClean, AllCalls
<1>4. LeftAt(x) > 0 /\ (1 - 1) * UnitOf(c) = 0 /\ 1 * UnitOf(c) = UnitOf(c)
  <2> DEFINE n == Count(c.r2)  p == q * UnitOf(c)
  <2>1. n \in Nat /\ p \in Nat
    BY <1>3, CallIs
  <2>2. p < n /\ LeftAt(x) = n - p
    BY <1>2 DEF Within
  <2> HIDE DEF n, p
  <2> QED
    BY <1>3, <2>1, <2>2
<1>5. (1 - 1) * UnitOf(c) < LeftAt(x)
  BY <1>4
<1>6. RunOk(x, 1 * UnitOf(c))
  BY <1>1, <1>2, <1>3, <1>5, RoundsRun
<1> QED
  BY <1>1, <1>3, <1>4, <1>6

LEMMA RoundOfType ==
  ASSUME CallsClean, NEW x, Proto(x), x.pc \in Loops
  PROVE  RoundOf(x) \in Nat /\ EndOf(x.pc) \in Int
<1>1. x.pc \in Tops => UnitCost(x) \in Nat
  BY UnitCostIs
<1>2. Cost(DestAt(x)) \in Nat
  BY LoopPriced
<1> QED
  BY <1>1, <1>2, CostsAre DEF RoundOf, EndOf

\* The engine's price of a round, address by address.
LEMMA UnitPrice ==
  ASSUME NEW x
  PROVE  /\ x.pc = FastFill => UnitCost(x) = (4 + 3 * Chunk) * Fetch + Chunk * Cost(x.r[1]) + Chunk * Branch
         /\ x.pc = FastCopy =>
              UnitCost(x) = (4 + 7 * Chunk) * Fetch + Chunk * (Cost(x.r[3]) + Cost(x.r[1] + x.r[3])) + Chunk * Branch
         /\ x.pc \in {WordCopy, HalfCopy} =>
              UnitCost(x) = 7 * Fetch + Cost(x.r[2]) + Cost(x.r[1] + x.r[2]) + Branch
BY DEF UnitCost, Source, Dest, FastFill, FastCopy, WordCopy, HalfCopy

LEMMA RoundCost ==
  ASSUME CallsClean, NEW x, Proto(x), x.pc \in Loops, NEW w
  PROVE  BiosStep(x, w).cost = RoundOf(x) + TailOf(x.pc, LeftAt(x) - UnitAt(x))
<1> DEFINE r == BiosStep(x, w)  z == r.x  y == Ran(x, UnitAt(x))
<1>1. /\ x \in Machine /\ LeftAt(x) \in Int /\ LeftAt(x) > 0
      /\ UnitAt(x) \in Nat \ {0} /\ RunOk(x, UnitAt(x))
  BY LoopLeft
<1>2. z = Settled(y) /\ y \in Machine /\ y.pc = x.pc /\ LeftAt(y) = LeftAt(x) - UnitAt(x)
  BY <1>1, RoundIs, RanType, RanLeft
<1>3. z \in Machine /\ z.pc = IF LeftAt(y) <= 0 THEN OutOf(x.pc) ELSE x.pc
  BY <1>2, SettledType
<1> HIDE DEF y
<1>4. OutOf(x.pc) # x.pc
  BY PlacesAre DEF OutOf, Exits, SetExit, FastExit
<1>5. LeftAt(y) \in Int /\ (z.pc = x.pc <=> LeftAt(y) > 0)
  BY <1>1, <1>2, <1>3, <1>4
<1>6. /\ Cost(DestAt(x)) \in Nat /\ (x.pc \notin Fills => Cost(FromAt(x)) \in Nat)
      /\ Fetch \in Nat /\ Branch \in Nat /\ Chunk \in Nat
  BY LoopPriced, CostsAre
<1> SUFFICES r.cost = RoundOf(x) + TailOf(x.pc, LeftAt(y))
  BY <1>2
<1> HIDE DEF r
<1>7. ASSUME NEW k \in Int, RoundOf(x) = k + Branch,
             r.cost = IF r.x.pc = x.pc THEN k + Branch
                      ELSE IF x.pc \in {HalfCopy, FastFill} THEN k ELSE k + Fetch + Branch
      PROVE  r.cost = RoundOf(x) + TailOf(x.pc, LeftAt(y))
  BY <1>5, <1>6, <1>7 DEF TailOf, EndOf
<1>8. CASE x.pc = HalfCopy
  <2> DEFINE k == 7 * Fetch + Cost(x.r[2]) + Cost(x.r[1] + x.r[2])
             v == Read(x, x.r[2])
             t == [Write(x, x.r[1] + x.r[2], v) EXCEPT !.r[12] = v, !.r[2] = @ + 1]
             more == t.r[2] # t.r[3]
  <2>1. FromAt(x) = x.r[2] /\ DestAt(x) = x.r[1] + x.r[2] /\ x.pc \notin Fills
    BY <1>8, PlacesAre DEF FromAt, DestAt, HalfCopy, FastCopy
  <2>2. k \in Int
    BY <1>6, <2>1
  <2>3. RoundOf(x) = k + Branch
    BY <1>8, UnitPrice DEF RoundOf, Tops
  <2> HIDE DEF k
  <2>4. r = Again(t, more, HalfCopy, SetExit, k, FALSE)
    BY <1>8, BiosIs DEF HalfCopied, k, r
  <2> HIDE DEF more, t, v
  <2>5. HalfCopy \in Int /\ SetExit \in Int /\ HalfCopy # SetExit
    BY DEF HalfCopy, SetExit
  <2>9. Parts(r, t, HalfCopy, SetExit, k + Branch, k)
    BY <2>2, <2>4, AgainParts
  <2>6. r.cost = IF r.x.pc = HalfCopy THEN k + Branch ELSE k
    BY <1>3, <2>5, <2>9, PartsCost
  <2> QED
    BY <1>7, <1>8, <2>2, <2>3, <2>6
<1>9. CASE x.pc = WordCopy
  <2> DEFINE k == 7 * Fetch + Cost(x.r[2]) + Cost(x.r[1] + x.r[2])
             v == Read(x, x.r[2])
             t == [Write(x, x.r[1] + x.r[2], v) EXCEPT !.r[0] = v, !.r[2] = @ + 1, !.r[3] = @ - 1]
             more == t.r[3] # 0
  <2>1. FromAt(x) = x.r[2] /\ DestAt(x) = x.r[1] + x.r[2] /\ x.pc \notin Fills
    BY <1>9, PlacesAre DEF FromAt, DestAt, WordCopy, FastCopy
  <2>2. k \in Int
    BY <1>6, <2>1
  <2>3. RoundOf(x) = k + Branch
    BY <1>9, UnitPrice DEF RoundOf, Tops
  <2> HIDE DEF k
  <2>4. r = Again(t, more, WordCopy, SetExit, k, TRUE)
    BY <1>9, BiosIs DEF WordCopied, k, r
  <2> HIDE DEF more, t, v
  <2>5. WordCopy \in Int /\ SetExit \in Int /\ WordCopy # SetExit /\ WordCopy \notin {HalfCopy, FastFill}
    BY DEF WordCopy, SetExit, HalfCopy, FastFill
  <2>9. Parts(r, t, WordCopy, SetExit, k + Branch, k + Fetch + Branch)
    BY <2>2, <2>4, AgainParts
  <2>6. r.cost = IF r.x.pc = WordCopy THEN k + Branch ELSE k + Fetch + Branch
    BY <1>3, <2>5, <2>9, PartsCost
  <2> QED
    BY <1>7, <1>9, <2>2, <2>3, <2>5, <2>6
<1>10. CASE x.pc = HalfFill
  <2> DEFINE k == 3 * Fetch + Cost(x.r[1])
             t == [Write(x, x.r[1], x.r[2]) EXCEPT !.r[1] = @ + 1]
             more == t.r[1] # t.r[3]
  <2>1. DestAt(x) = x.r[1] /\ x.pc \notin Tops
    BY <1>10, PlacesAre DEF DestAt, Fills, HalfFill
  <2>2. k \in Int
    BY <1>6, <2>1
  <2>3. RoundOf(x) = k + Branch
    BY <2>1 DEF RoundOf
  <2> HIDE DEF k
  <2>4. r = Again(t, more, HalfFill, SetExit, k, TRUE)
    BY <1>10, BiosIs DEF HalfFilled, k, r
  <2> HIDE DEF more, t
  <2>5. HalfFill \in Int /\ SetExit \in Int /\ HalfFill # SetExit /\ HalfFill \notin {HalfCopy, FastFill}
    BY DEF HalfFill, SetExit, HalfCopy, FastFill
  <2>9. Parts(r, t, HalfFill, SetExit, k + Branch, k + Fetch + Branch)
    BY <2>2, <2>4, AgainParts
  <2>6. r.cost = IF r.x.pc = HalfFill THEN k + Branch ELSE k + Fetch + Branch
    BY <1>3, <2>5, <2>9, PartsCost
  <2> QED
    BY <1>7, <1>10, <2>2, <2>3, <2>5, <2>6
<1>11. CASE x.pc = WordFill
  <2> DEFINE k == 3 * Fetch + Cost(x.r[1])
             t == [Write(x, x.r[1], x.r[2]) EXCEPT !.r[1] = @ + 1, !.r[3] = @ - 1]
             more == t.r[3] # 0
  <2>1. DestAt(x) = x.r[1] /\ x.pc \notin Tops
    BY <1>11, PlacesAre DEF DestAt, Fills, WordFill
  <2>2. k \in Int
    BY <1>6, <2>1
  <2>3. RoundOf(x) = k + Branch
    BY <2>1 DEF RoundOf
  <2> HIDE DEF k
  <2>4. r = Again(t, more, WordFill, SetExit, k, TRUE)
    BY <1>11, BiosIs DEF WordFilled, k, r
  <2> HIDE DEF more, t
  <2>5. WordFill \in Int /\ SetExit \in Int /\ WordFill # SetExit /\ WordFill \notin {HalfCopy, FastFill}
    BY DEF WordFill, SetExit, HalfCopy, FastFill
  <2>9. Parts(r, t, WordFill, SetExit, k + Branch, k + Fetch + Branch)
    BY <2>2, <2>4, AgainParts
  <2>6. r.cost = IF r.x.pc = WordFill THEN k + Branch ELSE k + Fetch + Branch
    BY <1>3, <2>5, <2>9, PartsCost
  <2> QED
    BY <1>7, <1>11, <2>2, <2>3, <2>5, <2>6
<1>12. CASE x.pc = FastCopy
  <2> DEFINE b == (4 + 7 * Chunk) * Fetch + Chunk * (Cost(x.r[3]) + Cost(x.r[1] + x.r[3]))
             k == b + (Chunk - 1) * Branch
             F == CHOOSE f : MoveLoop(f, MoveStart(x), Chunk)
             t == MoveLess(F[Chunk])
             more == t.r[4] > 0
  <2>1. FromAt(x) = x.r[3] /\ DestAt(x) = x.r[1] + x.r[3] /\ x.pc \notin Fills
    BY <1>12, PlacesAre DEF FromAt, DestAt, FastCopy
  <2>2. b \in Int /\ k \in Int /\ k + Branch = b + Chunk * Branch
    BY <1>6, <2>1
  <2>3. RoundOf(x) = b + Chunk * Branch
    BY <1>12, UnitPrice DEF RoundOf, Tops
  <2>8. r = FastCopied(x)
    BY <1>12, BiosIs DEF r
  <2> HIDE DEF k, b
  <2>4. r = Again(t, more, FastCopy, FastExit, k, TRUE)
    BY <2>8 DEF FastCopied, MoveOne, MoveStart, MoveLoop, MoveLess, k, b
  <2> HIDE DEF more, t, F
  <2>5. FastCopy \in Int /\ FastExit \in Int /\ FastCopy # FastExit /\ FastCopy \notin {HalfCopy, FastFill}
    BY DEF FastCopy, FastExit, HalfCopy, FastFill
  <2>9. Parts(r, t, FastCopy, FastExit, k + Branch, k + Fetch + Branch)
    BY <2>2, <2>4, AgainParts
  <2>6. r.cost = IF r.x.pc = FastCopy THEN k + Branch ELSE k + Fetch + Branch
    BY <1>3, <2>5, <2>9, PartsCost
  <2>7. RoundOf(x) = k + Branch
    BY <2>2, <2>3
  <2> QED
    BY <1>7, <1>12, <2>2, <2>5, <2>6, <2>7
<1>13. CASE x.pc = FastFill
  <2> DEFINE b == (4 + 3 * Chunk) * Fetch + Chunk * Cost(x.r[1])
             k == b + (Chunk - 1) * Branch
             t == [Writes(x, x.r[1], [i \in 1 .. Chunk |-> x.r[2]]) EXCEPT
                     !.r[1] = @ + Chunk, !.r[3] = x.r[1] + Chunk, !.r[4] = @ - Chunk]
             more == t.r[4] > 0
  <2>1. DestAt(x) = x.r[1]
    BY <1>13 DEF DestAt, Fills
  <2>2. b \in Int /\ k \in Int /\ k + Branch = b + Chunk * Branch
    BY <1>6, <2>1
  <2>3. RoundOf(x) = b + Chunk * Branch
    BY <1>13, UnitPrice DEF RoundOf, Tops
  <2>4. r = Again(t, more, FastFill, FastExit, k, FALSE)
    BY <1>13, BiosIs DEF FastFilled, r
  <2> HIDE DEF more, t, k, b
  <2>5. FastFill \in Int /\ FastExit \in Int /\ FastFill # FastExit
    BY DEF FastFill, FastExit
  <2>9. Parts(r, t, FastFill, FastExit, k + Branch, k)
    BY <2>2, <2>4, AgainParts
  <2>6. r.cost = IF r.x.pc = FastFill THEN k + Branch ELSE k
    BY <1>3, <2>5, <2>9, PartsCost
  <2>7. RoundOf(x) = k + Branch
    BY <2>2, <2>3
  <2> QED
    BY <1>7, <1>13, <2>2, <2>6, <2>7
<1> QED
  BY <1>8, <1>9, <1>10, <1>11, <1>12, <1>13 DEF Loops, Fills

LEMMA RoundSame ==
  ASSUME NEW x, NEW y, x.pc \in Loops, x.pc = y.pc, Cost(DestAt(x)) = Cost(DestAt(y)),
         x.pc \in Fills \/ Cost(FromAt(x)) = Cost(FromAt(y))
  PROVE  RoundOf(x) = RoundOf(y)
<1>1. CASE x.pc \notin Tops
  BY <1>1 DEF RoundOf
<1>2. CASE x.pc = FastFill
  <2>1. DestAt(x) = x.r[1] /\ DestAt(y) = y.r[1]
    BY <1>2 DEF DestAt, Fills
  <2> QED
    BY <1>2, <2>1, UnitPrice DEF RoundOf, Tops
<1>3. CASE x.pc = FastCopy
  <2>1. /\ DestAt(x) = x.r[1] + x.r[3] /\ DestAt(y) = y.r[1] + y.r[3] /\ FromAt(x) = x.r[3] /\ FromAt(y) = y.r[3]
        /\ x.pc \notin Fills
    BY <1>3 DEF DestAt, FromAt, Fills, FastCopy, FastFill, HalfFill, WordFill
  <2> QED
    BY <1>3, <2>1, UnitPrice DEF RoundOf, Tops
<1>4. CASE x.pc \in {WordCopy, HalfCopy}
  <2>1. /\ DestAt(x) = x.r[1] + x.r[2] /\ DestAt(y) = y.r[1] + y.r[2] /\ FromAt(x) = x.r[2] /\ FromAt(y) = y.r[2]
        /\ x.pc \notin Fills
    BY <1>4 DEF DestAt, FromAt, Fills, FastCopy, FastFill, HalfFill, WordFill, WordCopy, HalfCopy
  <2> QED
    BY <1>4, <2>1, UnitPrice DEF RoundOf, Tops
<1> QED
  BY <1>1, <1>2, <1>3, <1>4 DEF Tops

LEMMA TimesLess ==
  ASSUME NEW k \in Nat, NEW n \in Nat, k < n, NEW d \in Nat, d > 0
  PROVE  k * d \in Nat /\ n * d \in Nat /\ k * d < n * d /\ k * d <= (n - 1) * d /\ (n - 1) * d \in Nat
         /\ (k + 1) * d = k * d + d
OBVIOUS

LEMMA SpanRegion ==
  ASSUME NEW a \in Int, NEW n \in Nat, OneRegion(a, n), NEW k \in Nat, k < n
  PROVE  a + k \in DOMAIN Region /\ Region[a + k] = Region[a] /\ Cost(a + k) = Cost(a)
<1>1. a + k \in Span(a, n)
  BY DEF Span
<1> QED
  BY <1>1 DEF OneRegion, Cost

\* The accesses of n rounds from where x is cost what the first one's do.
Even(x, n) == OneRegion(DestAt(x), n) /\ (x.pc \in Fills \/ OneRegion(FromAt(x), n))

\* f lists n more steps, with their cost, from the one at o on.
Goes(f, o, n, w) == f[o].cost \in Int /\ \A i \in 1 .. n : f[o + i] = RunOn(f[o + i - 1], w)

LEMMA RunAt ==
  ASSUME NEW p, NEW w
  PROVE  RunOn(p, w).x = BiosStep(p.x, w).x /\ RunOn(p, w).cost = p.cost + BiosStep(p.x, w).cost
BY DEF RunOn, Charged

\* y is x with a copy of d elements behind it.
Onward(x, y, d) ==
  /\ Proto(y) /\ y.pc = x.pc /\ LeftAt(y) = LeftAt(x) - d /\ LeftAt(y) > 0
  /\ DestAt(y) = DestAt(x) + d
  /\ x.pc \in Fills \/ FromAt(y) = FromAt(x) + d

LEMMA RoundsAt ==
  ASSUME CallsClean, NEW x, Proto(x), NEW c \in AllCalls, x.pc = TopOf(c), NEW q \in Nat, Within(c, q, x),
         NEW n \in Nat \ {0}, (n - 1) * UnitOf(c) < LeftAt(x), NEW f, NEW o \in Nat, NEW w, f[o].x = x, Goes(f, o, n, w)
  PROVE  /\ \A k \in 1 .. n : f[o + k].x = Settled(Ran(x, k * UnitOf(c)))
         /\ \A k \in 0 .. n - 1 : Onward(x, f[o + k].x, k * UnitOf(c))
<1> DEFINE U == UnitOf(c)  g == [i \in 0 .. n |-> f[o + i].x]
<1>1. U \in Nat /\ U > 0 /\ Clean(c) /\ x.pc \in Loops /\ x \in Machine
  BY UnitsAre, SeatsAre DEF CallsClean, AllCalls
<1>2. LeftAt(x) \in Int /\ LeftAt(x) > 0 /\ DestAt(x) \in Int /\ FromAt(x) \in Int
  BY <1>1, LoopLeft
<1>3. ASSUME NEW k \in 0 .. n - 1 PROVE k * U < LeftAt(x) /\ k * U \in Nat
  <2>1. k * U <= (n - 1) * U /\ k * U \in Nat /\ (n - 1) * U \in Nat
    BY <1>1, TimesLess
  <2> DEFINE a == k * U  b == (n - 1) * U
  <2>2. b < LeftAt(x)
    OBVIOUS
  <2> HIDE DEF a, b
  <2> QED
    BY <1>2, <2>1, <2>2 DEF a, b
<1>4. Steps(g, x, n, w)
  <2>1. g[0] = x
    OBVIOUS
  <2>2. ASSUME NEW i \in 1 .. n PROVE g[i] = BiosStep(g[i - 1], w).x
    <3>1. i \in 0 .. n /\ i - 1 \in 0 .. n /\ o + (i - 1) = o + i - 1
      OBVIOUS
    <3>2. f[o + i].x = BiosStep(f[o + i - 1].x, w).x
      BY RunAt DEF Goes
    <3> QED
      BY <3>1, <3>2
  <2> HIDE DEF g
  <2> QED
    BY <2>1, <2>2 DEF Steps
<1>5. \A k \in 0 .. n : g[k] = f[o + k].x
  OBVIOUS
<1> HIDE DEF g
<1>6. ASSUME NEW k \in 1 .. n PROVE f[o + k].x = Settled(Ran(x, k * U)) /\ (k - 1) * U < LeftAt(x)
  <2>1. Steps(g, x, k, w) /\ k \in Nat \ {0} /\ k - 1 \in 0 .. n - 1
    BY <1>4 DEF Steps
  <2>2. (k - 1) * U < LeftAt(x)
    BY <1>3, <2>1
  <2>3. g[k] = Settled(Ran(x, k * U))
    BY <1>1, <2>1, <2>2, StepsRounds
  <2> QED
    BY <1>5, <2>2, <2>3
<1>7. ASSUME NEW k \in 0 .. n - 1
      PROVE  LET y == f[o + k].x IN
             /\ Proto(y) /\ y.pc = x.pc /\ LeftAt(y) = LeftAt(x) - k * U /\ LeftAt(y) > 0
             /\ DestAt(y) = DestAt(x) + k * U
             /\ x.pc \in Fills \/ FromAt(y) = FromAt(x) + k * U
  <2>1. CASE k = 0
    <3>1. k * U = 0 /\ f[o + k].x = x
      BY <1>1, <2>1
    <3> QED
      BY <1>2, <3>1
  <2>2. CASE k # 0
    <3>1. k \in 1 .. n /\ k \in Nat \ {0}
      BY <2>2
    <3>2. (k - 1) * U < LeftAt(x) /\ f[o + k].x = Settled(Ran(x, k * U))
      BY <1>6, <3>1
    <3> DEFINE y == Ran(x, k * U)  e == k * U
    <3>3. /\ LeftAt(y) = LeftAt(x) - e
          /\ LeftAt(y) > 0 => Settled(y) = y /\ Settled(y).pc = TopOf(c)
      BY <1>1, <3>1, <3>2, RoundsEnd
    <3>4. Proto(Settled(y))
      BY <1>1, <3>1, <3>2, RoundsProto
    <3>5. e \in Nat \ {0} /\ RunOk(x, e)
      BY <1>1, <3>1, <3>2, RoundsRun
    <3>6. DestAt(y) = DestAt(x) + e /\ (x.pc \notin Fills => FromAt(y) = FromAt(x) + e)
      BY <1>1, <3>5, RanLeft
    <3>7. e < LeftAt(x)
      BY <1>3
    <3>8. f[o + k].x = Settled(y)
      BY <3>2
    <3> HIDE DEF y, e
    <3>9. LeftAt(y) > 0
      BY <1>2, <3>3, <3>5, <3>7
    <3> QED
      BY <3>3, <3>4, <3>6, <3>8, <3>9 DEF e
  <2> QED
    BY <2>1, <2>2
<1>8. \A k \in 0 .. n - 1 : Onward(x, f[o + k].x, k * U)
  BY <1>7 DEF Onward
<1> QED
  BY <1>6, <1>8

LEMMA RoundsCost ==
  ASSUME CallsClean, NEW x, Proto(x), NEW c \in AllCalls, x.pc = TopOf(c), NEW q \in Nat, Within(c, q, x),
         NEW n \in Nat \ {0}, (n - 1) * UnitOf(c) < LeftAt(x), Even(x, n * UnitOf(c)),
         NEW f, NEW o \in Nat, NEW w, f[o].x = x, Goes(f, o, n, w)
  PROVE  /\ f[o + n].x = Settled(Ran(x, n * UnitOf(c)))
         /\ f[o + n].cost = f[o].cost + n * RoundOf(x) + TailOf(x.pc, LeftAt(x) - n * UnitOf(c))
<1>0. /\ \A k \in 1 .. n : f[o + k].x = Settled(Ran(x, k * UnitOf(c)))
      /\ \A k \in 0 .. n - 1 : Onward(x, f[o + k].x, k * UnitOf(c))
  BY RoundsAt
<1> DEFINE U == UnitOf(c)  R == RoundOf(x)
           Ending(k) == IF k = 0 THEN 0 ELSE TailOf(x.pc, LeftAt(x) - k * U)
           S == {k \in Nat : k <= n => f[o + k].cost = f[o].cost + k * R + Ending(k)}
<1>1. U \in Nat /\ U > 0 /\ x.pc \in Loops /\ UnitAt(x) = U
  BY UnitsAre
<1>2. /\ LeftAt(x) \in Int /\ DestAt(x) \in Int /\ FromAt(x) \in Int /\ R \in Nat /\ EndOf(x.pc) \in Int
      /\ f[o].cost \in Int
  BY <1>1, LoopLeft, RoundOfType DEF Goes
<1>3. /\ \A k \in 1 .. n : f[o + k].x = Settled(Ran(x, k * U))
      /\ \A k \in 0 .. n - 1 : LET y == f[o + k].x IN
           /\ Proto(y) /\ y.pc = x.pc /\ LeftAt(y) = LeftAt(x) - k * U /\ LeftAt(y) > 0
           /\ DestAt(y) = DestAt(x) + k * U
           /\ x.pc \in Fills \/ FromAt(y) = FromAt(x) + k * U
  BY <1>0 DEF Onward
<1>4. ASSUME NEW k \in 0 .. n - 1
      PROVE  f[o + (k + 1)].cost = f[o + k].cost + (R + TailOf(x.pc, LeftAt(x) - (k + 1) * U))
  <2> DEFINE y == f[o + k].x  e == k * U
  <2>1. /\ Proto(y) /\ y.pc = x.pc /\ LeftAt(y) = LeftAt(x) - e
        /\ DestAt(y) = DestAt(x) + e /\ (x.pc \in Fills \/ FromAt(y) = FromAt(x) + e)
    BY <1>3
  <2>2. e \in Nat /\ n * U \in Nat /\ e < n * U /\ (k + 1) * U = e + U
    BY <1>1, TimesLess
  <2>3. Cost(DestAt(y)) = Cost(DestAt(x)) /\ (x.pc \in Fills \/ Cost(FromAt(y)) = Cost(FromAt(x)))
    <3> HIDE DEF y, e
    <3>1. Cost(DestAt(x) + e) = Cost(DestAt(x))
      BY <1>2, <2>2, SpanRegion DEF Even
    <3>2. x.pc \in Fills \/ Cost(FromAt(x) + e) = Cost(FromAt(x))
      BY <1>2, <2>2, SpanRegion DEF Even
    <3> QED
      BY <2>1, <3>1, <3>2
  <2>4. k + 1 \in 1 .. n /\ o + (k + 1) - 1 = o + k
    OBVIOUS
  <2>5. f[o + (k + 1)].cost = f[o + k].cost + BiosStep(y, w).cost
    <3>1. f[o + (k + 1)] = RunOn(f[o + (k + 1) - 1], w)
      BY <2>4 DEF Goes
    <3>2. f[o + (k + 1)] = RunOn(f[o + k], w)
      BY <2>4, <3>1
    <3> QED
      BY <3>2, RunAt
  <2> HIDE DEF y, e
  <2>6. RoundOf(y) = R /\ UnitAt(y) = U
    BY <1>1, <2>1, <2>3, RoundSame DEF UnitAt
  <2>7. BiosStep(y, w).cost = R + TailOf(x.pc, LeftAt(y) - U)
    BY <1>1, <2>1, <2>6, RoundCost
  <2>8. LeftAt(y) - U = LeftAt(x) - (k + 1) * U
    BY <1>1, <1>2, <2>1, <2>2
  <2> QED
    BY <2>5, <2>7, <2>8
<1>5. \A k \in 0 .. n : Ending(k) \in Int /\ (k < n => Ending(k) = 0) /\ (k > 0 => Ending(k) = TailOf(x.pc, LeftAt(x) - k * U))
  <2> TAKE k \in 0 .. n
  <2>1. k < n => LeftAt(x) - k * U > 0
    BY <1>3
  <2> QED
    BY <1>2, <2>1 DEF TailOf
<1> HIDE DEF Ending, U
<1>6. 0 \in S
  <2>1. 0 * R = 0 /\ o + 0 = o /\ 0 \in 0 .. n /\ Ending(0) = 0
    BY <1>2, <1>5
  <2> QED
    BY <1>2, <2>1
<1>7. ASSUME NEW k \in Nat, k \in S
      PROVE  k + 1 \in S
  <2>1. SUFFICES ASSUME k + 1 <= n
                 PROVE  f[o + (k + 1)].cost = f[o].cost + (k + 1) * R + Ending(k + 1)
    OBVIOUS
  <2>2. k \in 0 .. n - 1 /\ k \in 0 .. n /\ k + 1 \in 0 .. n /\ k < n /\ k + 1 > 0
    BY <2>1
  <2>3. f[o + k].cost = f[o].cost + k * R
    <3>1. Ending(k) = 0 /\ k * R \in Int
      BY <1>2, <1>5, <2>2
    <3>2. f[o + k].cost = f[o].cost + k * R + Ending(k)
      BY <1>7, <2>2
    <3> HIDE DEF R
    <3> QED
      BY <1>2, <3>1, <3>2
  <2>4. f[o + (k + 1)].cost = f[o + k].cost + (R + Ending(k + 1)) /\ Ending(k + 1) \in Int
    BY <1>4, <1>5, <2>2
  <2>5. (k + 1) * R = k * R + R /\ k * R \in Int
    BY <1>2
  <2> HIDE DEF R
  <2> DEFINE e == k * R  h == (k + 1) * R
  <2>6. f[o + k].cost = f[o].cost + e /\ h = e + R /\ e \in Int
    BY <2>3, <2>5
  <2> HIDE DEF e, h
  <2>7. f[o + (k + 1)].cost = f[o].cost + h + Ending(k + 1)
    BY <1>2, <2>4, <2>6
  <2> QED
    BY <2>7 DEF h
<1> HIDE DEF S, R
<1>8. Nat \subseteq S
  BY <1>6, <1>7, Induction
<1>9. f[o + n].cost = f[o].cost + n * R + Ending(n)
  BY <1>8 DEF S
<1>10. n \in 0 .. n /\ n \in 1 .. n /\ n > 0
  OBVIOUS
<1> QED
  BY <1>3, <1>5, <1>9, <1>10 DEF R, U

-----------------------------------------------------------------------------
(* What the reference's steps cost.                                         *)

LEMMA RefRunsAre ==
  ASSUME NEW n \in Nat
  PROVE  \E f : f[0] = [x |-> ref, cost |-> 0] /\ Goes(f, 0, n, pending) /\ RefSteps(n) = f[n]
<1> DEFINE F == CHOOSE f : RunFrom(ref, f, n, pending)
<1>1. RunFrom(ref, F, n, pending)
  BY RunsExist
<1>2. RefSteps(n) = F[n]
  BY DEF RefSteps, RunFrom, RunOn
<1> HIDE DEF F
<1>3. F[0] = [x |-> ref, cost |-> 0]
  BY <1>1 DEF RunFrom
<1>4. ASSUME NEW i \in 1 .. n PROVE F[0 + i] = RunOn(F[0 + i - 1], pending)
  <2>1. i \in 0 .. n /\ i # 0 /\ 0 + i = i /\ 0 + i - 1 = i - 1
    OBVIOUS
  <2>2. F[i] = RunOn(F[i - 1], pending)
    BY <1>1, <2>1 DEF RunFrom
  <2> QED
    BY <2>1, <2>2
<1> QED
  BY <1>2, <1>3, <1>4 DEF Goes

LEMMA RefCostOne ==
  ASSUME BiosStep(ref, pending).cost \in Int
  PROVE  RefSteps(1).cost = BiosStep(ref, pending).cost
<1>1. PICK f : f[0] = [x |-> ref, cost |-> 0] /\ Goes(f, 0, 1, pending) /\ RefSteps(1) = f[1]
  BY RefRunsAre
<1>2. 1 \in 1 .. 1 /\ 0 + 1 = 1 /\ 0 + 1 - 1 = 0
  OBVIOUS
<1>3. f[1] = RunOn(f[0], pending) /\ f[0].x = ref /\ f[0].cost = 0
  BY <1>1, <1>2 DEF Goes
<1> QED
  BY <1>1, <1>3, RunAt

LEMMA RefCostTwo ==
  ASSUME BiosStep(ref, pending).cost \in Int, BiosStep(BiosStep(ref, pending).x, pending).cost \in Int
  PROVE  RefSteps(2).cost = BiosStep(ref, pending).cost + BiosStep(BiosStep(ref, pending).x, pending).cost
<1>1. PICK f : f[0] = [x |-> ref, cost |-> 0] /\ Goes(f, 0, 2, pending) /\ RefSteps(2) = f[2]
  BY RefRunsAre
<1>2. 1 \in 1 .. 2 /\ 2 \in 1 .. 2 /\ 0 + 1 = 1 /\ 0 + 1 - 1 = 0 /\ 0 + 2 = 2 /\ 0 + 2 - 1 = 1
  OBVIOUS
<1>3. f[1] = RunOn(f[0], pending) /\ f[2] = RunOn(f[1], pending) /\ f[0].x = ref /\ f[0].cost = 0
  BY <1>1, <1>2 DEF Goes
<1>4. f[1].x = BiosStep(ref, pending).x /\ f[1].cost = BiosStep(ref, pending).cost
  BY <1>3, RunAt
<1> QED
  BY <1>1, <1>3, <1>4, RunAt

\* Two machines alike pay alike.
LEMMA StepCostSame ==
  ASSUME CallsClean, NEW x, NEW y, Same(x, y), Proto(x), NEW w
  PROVE  BiosStep(x, w).cost = BiosStep(y, w).cost
<1>1. Proto(y) /\ x \in Machine /\ y \in Machine /\ Seated(x) /\ x.pc = y.pc /\ x.r = y.r
  BY SameProto, SeatsAre DEF Same
<1>2. CASE x.pc \in {IrqVector, IrqReturn, GamePc, IsrPc}
  BY <1>1, <1>2, BiosCost
<1>3. CASE x.pc = Vector
  <2>1. PICK c \in AllCalls : Asked(x, c)
    BY <1>3, AskingIs
  <2>2. Roomy(x) /\ Clean(c)
    BY <1>3, AskingIs DEF CallsClean, AllCalls
  <2>3. Roomy(y) /\ Asked(y, c)
    BY <1>1, <1>3, <2>1, AskingIs DEF Same, Asked
  <2>4. BiosStep(x, w).cost = StartOf(x, Opening(x).r).cost /\ BiosStep(y, w).cost = StartOf(y, Opening(y).r).cost
    BY <1>1, <1>3, <2>1, <2>2, <2>3, EnterIs
  <2>5. StartOf(x, Opening(x).r) = StartOf(y, Opening(y).r)
    BY <1>1, <1>3, <2>1, <2>2, EnterSame
  <2> QED
    BY <2>4, <2>5
<1>4. CASE x.pc \in Exits
  <2>1. BiosStep(x, w) = Completed(x) /\ BiosStep(y, w) = Completed(y)
    BY <1>1, <1>4, BiosIs DEF Exits
  <2>2. Completed(x).cost = ExitCost /\ Completed(y).cost = ExitCost
    BY DEF Completed, Returned, Stepped, ExitCost
  <2> QED
    BY <2>1, <2>2
<1>5. CASE x.pc \in Loops
  <2>1. LeftAt(x) = LeftAt(y) /\ DestAt(x) = DestAt(y) /\ FromAt(x) = FromAt(y) /\ UnitAt(x) = UnitAt(y)
    <3>1. FromAt(x) = FromAt(y)
      BY <1>1 DEF FromAt
    <3>2. DestAt(x) = DestAt(y) /\ UnitAt(x) = UnitAt(y)
      BY <1>1, <3>1 DEF DestAt, UnitAt
    <3>3. LeftAt(x) = LeftAt(y)
      BY <1>1 DEF LeftAt
    <3> QED
      BY <3>1, <3>2, <3>3
  <2>2. RoundOf(x) = RoundOf(y)
    BY <1>1, <1>5, <2>1, RoundSame
  <2>3. BiosStep(x, w).cost = RoundOf(x) + TailOf(x.pc, LeftAt(x) - UnitAt(x))
    BY <1>5, RoundCost
  <2>4. BiosStep(y, w).cost = RoundOf(y) + TailOf(y.pc, LeftAt(y) - UnitAt(y))
    BY <1>1, <1>5, RoundCost
  <2> QED
    BY <1>1, <2>1, <2>2, <2>3, <2>4
<1>6. x.pc \in {IrqVector, IrqReturn, Vector, GamePc, IsrPc} \cup Loops \cup Exits
  BY RaisingAt, TaskAt DEF Active
<1> QED
  BY <1>2, <1>3, <1>4, <1>5, <1>6

-----------------------------------------------------------------------------
(* What a whole call costs.                                                 *)

\* Up to the first loop top, beyond the dispatcher.
OpenPrice(c) ==
  LET n == Count(c.r2)  top == TopOf(c) IN
  IF top = HalfCopy THEN IF n = 0 THEN 17 * Fetch + Branch ELSE 21 * Fetch
  ELSE IF top = HalfFill THEN
    IF n = 0 THEN 20 * Fetch + Cost(c.r0) + 2 * Branch ELSE 21 * Fetch + Cost(c.r0) + Branch
  ELSE IF top = WordCopy THEN IF n = 0 THEN 21 * Fetch + 2 * Branch ELSE 21 * Fetch + Branch
  ELSE IF top = WordFill THEN
    IF n = 0 THEN 22 * Fetch + Cost(c.r0) + 3 * Branch ELSE 22 * Fetch + Cost(c.r0) + 2 * Branch
  ELSE IF top = FastFill THEN
    IF n = 0 THEN 20 * Fetch + Cost(c.r0) + Branch ELSE 20 * Fetch + Cost(c.r0)
  ELSE IF n = 0 THEN 19 * Fetch + 2 * Branch ELSE 19 * Fetch + Branch
RoundPrice(c) ==
  IF TopOf(c) \in {HalfCopy, WordCopy} THEN 7 * Fetch + Cost(c.r0) + Cost(c.r1) + Branch
  ELSE IF TopOf(c) \in {HalfFill, WordFill} THEN 3 * Fetch + Cost(c.r1) + Branch
  ELSE IF TopOf(c) = FastFill THEN (4 + 3 * Chunk) * Fetch + Chunk * Cost(c.r1) + Chunk * Branch
  ELSE (4 + 7 * Chunk) * Fetch + Chunk * (Cost(c.r0) + Cost(c.r1)) + Chunk * Branch
RoundsPrice(c) == IF Count(c.r2) = 0 THEN 0 ELSE TurnsOf(c) * RoundPrice(c) + EndOf(TopOf(c))
PriceOf(c) == EntryCost + OpenPrice(c) + RoundsPrice(c) + ExitCost

LEMMA TopsApart ==
  /\ HalfCopy # HalfFill /\ HalfCopy # WordCopy /\ HalfCopy # WordFill /\ HalfCopy # FastFill /\ HalfCopy # FastCopy
  /\ HalfFill # WordCopy /\ HalfFill # WordFill /\ HalfFill # FastFill /\ HalfFill # FastCopy
  /\ WordCopy # WordFill /\ WordCopy # FastFill /\ WordCopy # FastCopy
  /\ WordFill # FastFill /\ WordFill # FastCopy /\ FastFill # FastCopy
BY DEF HalfCopy, HalfFill, WordCopy, WordFill, FastFill, FastCopy

LEMMA OpenPriceIs ==
  ASSUME NEW c
  PROVE  LET n == Count(c.r2)  top == TopOf(c)  p == OpenPrice(c) IN
         /\ top = HalfCopy => p = IF n = 0 THEN 17 * Fetch + Branch ELSE 21 * Fetch
         /\ top = HalfFill =>
              p = IF n = 0 THEN 20 * Fetch + Cost(c.r0) + 2 * Branch ELSE 21 * Fetch + Cost(c.r0) + Branch
         /\ top = WordCopy => p = IF n = 0 THEN 21 * Fetch + 2 * Branch ELSE 21 * Fetch + Branch
         /\ top = WordFill =>
              p = IF n = 0 THEN 22 * Fetch + Cost(c.r0) + 3 * Branch ELSE 22 * Fetch + Cost(c.r0) + 2 * Branch
         /\ top = FastFill =>
              p = IF n = 0 THEN 20 * Fetch + Cost(c.r0) + Branch ELSE 20 * Fetch + Cost(c.r0)
         /\ top = FastCopy => p = IF n = 0 THEN 19 * Fetch + 2 * Branch ELSE 19 * Fetch + Branch
BY TopsApart, Zenon DEF OpenPrice

\* Elements of a call that are mapped have a price.
LEMMA CallPriced ==
  ASSUME NEW c \in AllCalls, Clean(c)
  PROVE  /\ Fill(c.r2) \/ Count(c.r2) # 0 => Cost(c.r0) \in Nat
         /\ Count(c.r2) # 0 => Cost(c.r1) \in Nat
<1>1. /\ Copied(c) \in Nat /\ Count(c.r2) \in Nat /\ (Count(c.r2) # 0 => Count(c.r2) <= Copied(c))
      /\ c.r0 \in Int /\ c.r1 \in Int
  BY TurnsAre, CallIs
<1>2. Fill(c.r2) => c.r0 \in SourceOf(c)
  BY <1>1 DEF SourceOf, Span
<1>3. Count(c.r2) # 0 => c.r0 \in SourceOf(c) /\ c.r1 \in TargetOf(c)
  BY <1>1 DEF SourceOf, TargetOf, Span
<1> QED
  BY <1>2, <1>3, CleanIs, CostsAre

Takes(p, k) == p.cost = EntryCost + k
LEMMA SetStartTakes ==
  ASSUME NEW x, NEW r, Longer(x)
  PROVE  LET src == x.r[0]  w == x.r[2]  n == Count(w)  p == SetStart(x, r) IN
         /\ ~Word(w) /\ ~Fill(w) => Takes(p, IF n = 0 THEN 17 * Fetch + Branch ELSE 21 * Fetch)
         /\ ~Word(w) /\ Fill(w) =>
              Takes(p, IF n = 0 THEN 20 * Fetch + Cost(src) + 2 * Branch ELSE 21 * Fetch + Cost(src) + Branch)
         /\ Word(w) /\ ~Fill(w) => Takes(p, IF n = 0 THEN 21 * Fetch + 2 * Branch ELSE 21 * Fetch + Branch)
         /\ Word(w) /\ Fill(w) =>
              Takes(p, IF n = 0 THEN 22 * Fetch + Cost(src) + 3 * Branch ELSE 22 * Fetch + Cost(src) + 2 * Branch)
<1> DEFINE src == x.r[0]  dst == x.r[1]  w == x.r[2]  n == Count(w)  p == SetStart(x, r)
           a1 == 17 * Fetch + Branch  a2 == 21 * Fetch
           b1 == 20 * Fetch + Cost(src) + 2 * Branch  b2 == 21 * Fetch + Cost(src) + Branch
           c1 == 21 * Fetch + 2 * Branch  c2 == 21 * Fetch + Branch
           d1 == 22 * Fetch + Cost(src) + 3 * Branch  d2 == 22 * Fetch + Cost(src) + 2 * Branch
           A1 == Loop(SetExit, r, a1)
           A2 == Loop(HalfCopy, [r EXCEPT ![1] = dst - src, ![2] = src, ![3] = src + n, ![4] = Limit, ![12] = x.r[12]], a2)
           B1 == Loop(SetExit, [r EXCEPT ![2] = Read(x, src)], b1)
           B2 == Loop(HalfFill, [r EXCEPT ![2] = Read(x, src), ![3] = dst + n], b2)
           C1 == Loop(SetExit, [r EXCEPT ![2] = src], c1)
           C2 == Loop(WordCopy, [r EXCEPT ![1] = dst - src, ![2] = src, ![3] = n, ![12] = Limit], c2)
           D1 == Loop(SetExit, [r EXCEPT ![2] = Read(x, src)], d1)
           D2 == Loop(WordFill, [r EXCEPT ![2] = Read(x, src), ![3] = n], d2)
<1>1. /\ ~Word(w) /\ ~Fill(w) => p = IF n = 0 THEN A1 ELSE A2
      /\ ~Word(w) /\ Fill(w) => p = IF n = 0 THEN B1 ELSE B2
      /\ Word(w) /\ ~Fill(w) => p = IF n = 0 THEN C1 ELSE C2
      /\ Word(w) /\ Fill(w) => p = IF n = 0 THEN D1 ELSE D2
  BY SetStartIs, Zenon
<1>2. /\ Takes(A1, a1) /\ Takes(A2, a2) /\ Takes(B1, b1) /\ Takes(B2, b2)
      /\ Takes(C1, c1) /\ Takes(C2, c2) /\ Takes(D1, d1) /\ Takes(D2, d2)
  BY DEF Takes, Loop, EntryCost
<1> HIDE DEF A1, A2, B1, B2, C1, C2, D1, D2, p, n, w, a1, a2, b1, b2, c1, c2, d1, d2
<1>3. /\ ~Word(w) /\ ~Fill(w) => Takes(p, IF n = 0 THEN a1 ELSE a2)
      /\ ~Word(w) /\ Fill(w) => Takes(p, IF n = 0 THEN b1 ELSE b2)
      /\ Word(w) /\ ~Fill(w) => Takes(p, IF n = 0 THEN c1 ELSE c2)
      /\ Word(w) /\ Fill(w) => Takes(p, IF n = 0 THEN d1 ELSE d2)
  BY <1>1, <1>2
<1> QED
  BY <1>3 DEF p, n, w, a1, a2, b1, b2, c1, c2, d1, d2

LEMMA FastStartTakes ==
  ASSUME NEW x, NEW r, Longer(x)
  PROVE  LET src == x.r[0]  w == x.r[2]  n == Count(w)  p == FastStart(x, r) IN
         /\ Fill(w) => Takes(p, IF n = 0 THEN 20 * Fetch + Cost(src) + Branch ELSE 20 * Fetch + Cost(src))
         /\ ~Fill(w) => Takes(p, IF n = 0 THEN 19 * Fetch + 2 * Branch ELSE 19 * Fetch + Branch)
<1> DEFINE src == x.r[0]  dst == x.r[1]  w == x.r[2]  n == Count(w)  p == FastStart(x, r)
           a1 == 20 * Fetch + Cost(src) + Branch  a2 == 20 * Fetch + Cost(src)
           b1 == 19 * Fetch + 2 * Branch  b2 == 19 * Fetch + Branch
           A1 == Loop(FastExit, [r EXCEPT ![2] = Read(x, src), ![4] = 0], a1)
           A2 == Loop(FastFill, [r EXCEPT ![2] = Read(x, src), ![3] = src, ![4] = n], a2)
           B1 == Loop(FastExit, [r EXCEPT ![3] = src, ![4] = 0], b1)
           B2 == Loop(FastCopy, [r EXCEPT ![1] = dst - src, ![3] = src, ![4] = n, ![12] = Limit], b2)
<1>1. /\ Fill(w) => p = IF n = 0 THEN A1 ELSE A2
      /\ ~Fill(w) => p = IF n = 0 THEN B1 ELSE B2
  BY FastStartIs, Zenon
<1>2. Takes(A1, a1) /\ Takes(A2, a2) /\ Takes(B1, b1) /\ Takes(B2, b2)
  BY DEF Takes, Loop, EntryCost
<1> HIDE DEF A1, A2, B1, B2, p, n, w, a1, a2, b1, b2
<1>3. /\ Fill(w) => Takes(p, IF n = 0 THEN a1 ELSE a2)
      /\ ~Fill(w) => Takes(p, IF n = 0 THEN b1 ELSE b2)
  BY <1>1, <1>2
<1> QED
  BY <1>3 DEF p, n, w, a1, a2, b1, b2

LEMMA StartPriced ==
  ASSUME NEW x, NEW c \in AllCalls, Asked(x, c), Clean(c), NEW r
  PROVE  StartOf(x, r).cost = EntryCost + OpenPrice(c)
<1>1. x.num = c.num /\ x.r[0] = c.r0 /\ x.r[1] = c.r1 /\ x.r[2] = c.r2 /\ (c.num = 11 \/ c.num = 12)
  BY TopIs DEF Asked
<1>2. Longer(x)
  BY <1>1, CleanIs DEF Longer
<1> DEFINE n == Count(c.r2)
<1>4. CASE c.num = 11
  <2> DEFINE st == SetStart(x, r)
  <2>1. StartOf(x, r) = st
    BY <1>1, <1>4 DEF StartOf
  <2>2. CASE ~Word(c.r2) /\ ~Fill(c.r2)
    <3>1. Takes(st, IF n = 0 THEN 17 * Fetch + Branch ELSE 21 * Fetch)
      BY <1>1, <1>2, <2>2, SetStartTakes, Zenon
    <3>2. OpenPrice(c) = IF n = 0 THEN 17 * Fetch + Branch ELSE 21 * Fetch
      BY <1>4, <2>2, TopIs, OpenPriceIs
    <3> QED
      BY <2>1, <3>1, <3>2 DEF Takes
  <2>3. CASE ~Word(c.r2) /\ Fill(c.r2)
    <3>1. Takes(st, IF n = 0 THEN 20 * Fetch + Cost(c.r0) + 2 * Branch ELSE 21 * Fetch + Cost(c.r0) + Branch)
      BY <1>1, <1>2, <2>3, SetStartTakes, Zenon
    <3>2. OpenPrice(c) = IF n = 0 THEN 20 * Fetch + Cost(c.r0) + 2 * Branch ELSE 21 * Fetch + Cost(c.r0) + Branch
      BY <1>4, <2>3, TopIs, OpenPriceIs
    <3> QED
      BY <2>1, <3>1, <3>2 DEF Takes
  <2>4. CASE Word(c.r2) /\ ~Fill(c.r2)
    <3>1. Takes(st, IF n = 0 THEN 21 * Fetch + 2 * Branch ELSE 21 * Fetch + Branch)
      BY <1>1, <1>2, <2>4, SetStartTakes, Zenon
    <3>2. OpenPrice(c) = IF n = 0 THEN 21 * Fetch + 2 * Branch ELSE 21 * Fetch + Branch
      BY <1>4, <2>4, TopIs, OpenPriceIs
    <3> QED
      BY <2>1, <3>1, <3>2 DEF Takes
  <2>5. CASE Word(c.r2) /\ Fill(c.r2)
    <3>1. Takes(st, IF n = 0 THEN 22 * Fetch + Cost(c.r0) + 3 * Branch ELSE 22 * Fetch + Cost(c.r0) + 2 * Branch)
      BY <1>1, <1>2, <2>5, SetStartTakes, Zenon
    <3>2. OpenPrice(c) = IF n = 0 THEN 22 * Fetch + Cost(c.r0) + 3 * Branch ELSE 22 * Fetch + Cost(c.r0) + 2 * Branch
      BY <1>4, <2>5, TopIs, OpenPriceIs
    <3> QED
      BY <2>1, <3>1, <3>2 DEF Takes
  <2> QED
    BY <2>2, <2>3, <2>4, <2>5
<1>5. CASE c.num = 12
  <2> DEFINE st == FastStart(x, r)
  <2>1. StartOf(x, r) = st
    BY <1>1, <1>5 DEF StartOf
  <2>2. CASE Fill(c.r2)
    <3>1. Takes(st, IF n = 0 THEN 20 * Fetch + Cost(c.r0) + Branch ELSE 20 * Fetch + Cost(c.r0))
      BY <1>1, <1>2, <2>2, FastStartTakes, Zenon
    <3>2. OpenPrice(c) = IF n = 0 THEN 20 * Fetch + Cost(c.r0) + Branch ELSE 20 * Fetch + Cost(c.r0)
      BY <1>5, <2>2, TopIs, OpenPriceIs
    <3> QED
      BY <2>1, <3>1, <3>2 DEF Takes
  <2>3. CASE ~Fill(c.r2)
    <3>1. Takes(st, IF n = 0 THEN 19 * Fetch + 2 * Branch ELSE 19 * Fetch + Branch)
      BY <1>1, <1>2, <2>3, FastStartTakes, Zenon
    <3>2. OpenPrice(c) = IF n = 0 THEN 19 * Fetch + 2 * Branch ELSE 19 * Fetch + Branch
      BY <1>5, <2>3, TopIs, OpenPriceIs
    <3> QED
      BY <2>1, <3>1, <3>2 DEF Takes
  <2> QED
    BY <2>2, <2>3
<1> QED
  BY <1>1, <1>4, <1>5

Charges(p, k) == p.cycles = EntryCost + ExitCost + k
LEMMA PredictSetCharges ==
  ASSUME NEW x, Longer(x)
  PROVE  LET src == x.r[0]  dst == x.r[1]  w == x.r[2]  n == Count(w)  p == PredictSet(x)
             per == 7 * Fetch + Cost(src) + Cost(dst)
             put == 3 * Fetch + Cost(dst) IN
         /\ ~Word(w) /\ ~Fill(w) =>
              Charges(p, IF n = 0 THEN 17 * Fetch + Branch ELSE 21 * Fetch + n * per + (n - 1) * Branch)
         /\ ~Word(w) /\ Fill(w) =>
              Charges(p, IF n = 0 THEN 20 * Fetch + Cost(src) + 2 * Branch
                         ELSE 22 * Fetch + Cost(src) + n * put + (n + 1) * Branch)
         /\ Word(w) /\ ~Fill(w) =>
              Charges(p, IF n = 0 THEN 21 * Fetch + 2 * Branch ELSE 22 * Fetch + n * per + (n + 1) * Branch)
         /\ Word(w) /\ Fill(w) =>
              Charges(p, IF n = 0 THEN 22 * Fetch + Cost(src) + 3 * Branch
                         ELSE 23 * Fetch + Cost(src) + n * put + (n + 2) * Branch)
         /\ ~Fill(w) /\ n # 0 /\ p.ok => SrcHost(src, n)
<1> DEFINE src == x.r[0]  dst == x.r[1]  w == x.r[2]  n == Count(w)  p == PredictSet(x)
           per == 7 * Fetch + Cost(src) + Cost(dst)
           put == 3 * Fetch + Cost(dst)
           all == EntryCost + ExitCost
           Is(ok, r0, r1, c) == Predicted(ok, r0, r1, all + c)
           a1 == 17 * Fetch + Branch  a2 == 21 * Fetch + n * per + (n - 1) * Branch
           b1 == 20 * Fetch + Cost(src) + 2 * Branch  b2 == 22 * Fetch + Cost(src) + n * put + (n + 1) * Branch
           c1 == 21 * Fetch + 2 * Branch  c2 == 22 * Fetch + n * per + (n + 1) * Branch
           d1 == 22 * Fetch + Cost(src) + 3 * Branch  d2 == 23 * Fetch + Cost(src) + n * put + (n + 2) * Branch
           A1 == Is(TRUE, src, dst, a1)
           A2 == Is(SrcHost(src, n) /\ DstFits(src, dst, n), src, dst - src, a2)
           B1 == Is(SrcHost(src, 1), src, dst, b1)
           B2 == Is(SrcHost(src, 1) /\ OneRegion(dst, n), src, dst + n, b2)
           C1 == Is(TRUE, src, dst, c1)
           C2 == Is(SrcHost(src, n) /\ DstFits(src, dst, n), Read(x, src + n - 1), dst - src, c2)
           D1 == Is(SrcHost(src, 1), src, dst, d1)
           D2 == Is(SrcHost(src, 1) /\ OneRegion(dst, n), src, dst + n, d2)
<1>1. ~Word(w) /\ ~Fill(w) => p = IF n = 0 THEN A1 ELSE A2
  BY Zenon DEF PredictSet, Longer
<1>2. ~Word(w) /\ Fill(w) => p = IF n = 0 THEN B1 ELSE B2
  BY Zenon DEF PredictSet, Longer
<1>3. Word(w) /\ ~Fill(w) => p = IF n = 0 THEN C1 ELSE C2
  BY Zenon DEF PredictSet, Longer
<1>4. Word(w) /\ Fill(w) => p = IF n = 0 THEN D1 ELSE D2
  BY Zenon DEF PredictSet, Longer
<1>5. /\ Charges(A1, a1) /\ Charges(A2, a2) /\ Charges(B1, b1) /\ Charges(B2, b2)
      /\ Charges(C1, c1) /\ Charges(C2, c2) /\ Charges(D1, d1) /\ Charges(D2, d2)
      /\ (A2.ok => SrcHost(src, n)) /\ (C2.ok => SrcHost(src, n))
  BY DEF Charges, Predicted
<1> HIDE DEF A1, A2, B1, B2, C1, C2, D1, D2, p, src, dst, n, w, a1, a2, b1, b2, c1, c2, d1, d2
<1>6. /\ ~Word(w) /\ ~Fill(w) => Charges(p, IF n = 0 THEN a1 ELSE a2)
      /\ ~Word(w) /\ Fill(w) => Charges(p, IF n = 0 THEN b1 ELSE b2)
      /\ Word(w) /\ ~Fill(w) => Charges(p, IF n = 0 THEN c1 ELSE c2)
      /\ Word(w) /\ Fill(w) => Charges(p, IF n = 0 THEN d1 ELSE d2)
      /\ ~Fill(w) /\ n # 0 /\ p.ok => SrcHost(src, n)
  BY <1>1, <1>2, <1>3, <1>4, <1>5
<1> QED
  BY <1>6, Zenon DEF p, src, dst, n, w, a1, a2, b1, b2, c1, c2, d1, d2

LEMMA PredictFastCharges ==
  ASSUME NEW x, Longer(x)
  PROVE  LET src == x.r[0]  dst == x.r[1]  w == x.r[2]  n == Count(w)  k == Rounds(n)  p == PredictFast(x)
             copy == (4 + 7 * Chunk) * Fetch + Chunk * (Cost(src) + Cost(dst)) + (Chunk - 1) * Branch
             fill == (4 + 3 * Chunk) * Fetch + Chunk * Cost(dst) + (Chunk - 1) * Branch IN
         /\ Fill(w) =>
              Charges(p, IF n = 0 THEN 20 * Fetch + Cost(src) + Branch
                         ELSE 20 * Fetch + Cost(src) + k * fill + (k - 1) * Branch)
         /\ ~Fill(w) =>
              Charges(p, IF n = 0 THEN 19 * Fetch + 2 * Branch ELSE 20 * Fetch + Branch + k * copy + k * Branch)
         /\ ~Fill(w) /\ n # 0 /\ p.ok => SrcHost(src, k * Chunk)
<1> DEFINE src == x.r[0]  dst == x.r[1]  w == x.r[2]  n == Count(w)  k == Rounds(n)  p == PredictFast(x)
           copy == (4 + 7 * Chunk) * Fetch + Chunk * (Cost(src) + Cost(dst)) + (Chunk - 1) * Branch
           fill == (4 + 3 * Chunk) * Fetch + Chunk * Cost(dst) + (Chunk - 1) * Branch
           all == EntryCost + ExitCost
           Is(ok, r0, r1, c) == Predicted(ok, r0, r1, all + c)
           a1 == 20 * Fetch + Cost(src) + Branch  a2 == 20 * Fetch + Cost(src) + k * fill + (k - 1) * Branch
           b1 == 19 * Fetch + 2 * Branch  b2 == 20 * Fetch + Branch + k * copy + k * Branch
           A1 == Is(SrcHost(src, 1), src, dst, a1)
           A2 == Is(SrcHost(src, 1) /\ OneRegion(dst, k * Chunk), src, dst + k * Chunk, a2)
           B1 == Is(TRUE, src, dst, b1)
           B2 == Is(SrcHost(src, k * Chunk) /\ DstFits(src, dst, k * Chunk), src + k * Chunk, dst - src, b2)
<1>1. Fill(w) => p = IF n = 0 THEN A1 ELSE A2
  BY Zenon DEF PredictFast, Longer
<1>2. ~Fill(w) => p = IF n = 0 THEN B1 ELSE B2
  BY Zenon DEF PredictFast, Longer
<1>3. /\ Charges(A1, a1) /\ Charges(A2, a2) /\ Charges(B1, b1) /\ Charges(B2, b2)
      /\ (B2.ok => SrcHost(src, k * Chunk))
  BY DEF Charges, Predicted
<1> HIDE DEF A1, A2, B1, B2, p, src, dst, n, w, k, a1, a2, b1, b2
<1>4. /\ Fill(w) => Charges(p, IF n = 0 THEN a1 ELSE a2)
      /\ ~Fill(w) => Charges(p, IF n = 0 THEN b1 ELSE b2)
      /\ ~Fill(w) /\ n # 0 /\ p.ok => SrcHost(src, k * Chunk)
  BY <1>1, <1>2, <1>3
<1> QED
  BY <1>4, Zenon DEF p, src, dst, n, w, k, a1, a2, b1, b2

\* The sums of a call, with a round's branch counted in the round or beside it.
LEMMA SumsAre ==
  ASSUME NEW n \in Int, NEW a \in Int, NEW b \in Int
  PROVE  /\ n * (a + b) = n * a + n * b /\ (n - 1) * b = n * b - b /\ (n + 1) * b = n * b + b
         /\ (n + 2) * b = n * b + 2 * b /\ n * b \in Int /\ n * a \in Int /\ n * (a + b) \in Int
OBVIOUS

LEMMA RoundPriceIs ==
  ASSUME NEW c
  PROVE  LET top == TopOf(c)  p == RoundPrice(c)
             per == 7 * Fetch + Cost(c.r0) + Cost(c.r1)
             put == 3 * Fetch + Cost(c.r1) IN
         /\ top \in {HalfCopy, WordCopy} => p = per + Branch
         /\ top \in {HalfFill, WordFill} => p = put + Branch
         /\ top = FastFill => p = (4 + 3 * Chunk) * Fetch + Chunk * Cost(c.r1) + Chunk * Branch
         /\ top = FastCopy => p = (4 + 7 * Chunk) * Fetch + Chunk * (Cost(c.r0) + Cost(c.r1)) + Chunk * Branch
BY TopsApart DEF RoundPrice

\* What the services predict is what the call costs.
LEMMA PredictPriced ==
  ASSUME NEW x, NEW c \in AllCalls, Asked(x, c), Clean(c), Predict(x).ok
  PROVE  /\ Predict(x).cycles = PriceOf(c)
         /\ ~Fill(c.r2) /\ Count(c.r2) # 0 => SrcHost(c.r0, Copied(c))
<1>1. x.num = c.num /\ x.r[0] = c.r0 /\ x.r[1] = c.r1 /\ x.r[2] = c.r2 /\ (c.num = 11 \/ c.num = 12)
  BY TopIs DEF Asked
<1>2. Longer(x)
  BY <1>1, CleanIs DEF Longer
<1>3. Predict(x) = IF x.num = 11 THEN PredictSet(x) ELSE PredictFast(x)
  BY DEF Predict, Predicted
<1> DEFINE n == Count(c.r2)  T == TurnsOf(c)  cs == Cost(c.r0)  cd == Cost(c.r1)
<1>4. /\ Fill(c.r2) \/ n # 0 => cs \in Int
      /\ n # 0 => cd \in Int
      /\ n \in Int /\ T \in Int /\ Fetch \in Int /\ Branch \in Int /\ Chunk \in Int
      /\ EntryCost \in Int /\ ExitCost \in Int
  BY CallPriced, CallIs, TurnsAre, CostsAre DEF EntryCost, ExitCost
<1>5. CASE c.num = 11
  <2> DEFINE p == PredictSet(x)
             per == 7 * Fetch + cs + cd
             put == 3 * Fetch + cd
  <2>1. Predict(x) = p /\ Copied(c) = n /\ (n # 0 => T = n)
    BY <1>1, <1>3, <1>5 DEF Copied, TurnsOf
  <2>2. /\ ~Word(c.r2) /\ ~Fill(c.r2) =>
             Charges(p, IF n = 0 THEN 17 * Fetch + Branch ELSE 21 * Fetch + n * per + (n - 1) * Branch)
        /\ ~Word(c.r2) /\ Fill(c.r2) =>
             Charges(p, IF n = 0 THEN 20 * Fetch + cs + 2 * Branch ELSE 22 * Fetch + cs + n * put + (n + 1) * Branch)
        /\ Word(c.r2) /\ ~Fill(c.r2) =>
             Charges(p, IF n = 0 THEN 21 * Fetch + 2 * Branch ELSE 22 * Fetch + n * per + (n + 1) * Branch)
        /\ Word(c.r2) /\ Fill(c.r2) =>
             Charges(p, IF n = 0 THEN 22 * Fetch + cs + 3 * Branch ELSE 23 * Fetch + cs + n * put + (n + 2) * Branch)
        /\ ~Fill(c.r2) /\ n # 0 /\ p.ok => SrcHost(c.r0, n)
    <3>1. /\ ~Word(x.r[2]) /\ ~Fill(x.r[2]) =>
               Charges(p, IF Count(x.r[2]) = 0 THEN 17 * Fetch + Branch
                          ELSE 21 * Fetch + Count(x.r[2]) * (7 * Fetch + Cost(x.r[0]) + Cost(x.r[1])) + (Count(x.r[2]) - 1) * Branch)
          /\ ~Word(x.r[2]) /\ Fill(x.r[2]) =>
               Charges(p, IF Count(x.r[2]) = 0 THEN 20 * Fetch + Cost(x.r[0]) + 2 * Branch
                          ELSE 22 * Fetch + Cost(x.r[0]) + Count(x.r[2]) * (3 * Fetch + Cost(x.r[1])) + (Count(x.r[2]) + 1) * Branch)
          /\ Word(x.r[2]) /\ ~Fill(x.r[2]) =>
               Charges(p, IF Count(x.r[2]) = 0 THEN 21 * Fetch + 2 * Branch
                          ELSE 22 * Fetch + Count(x.r[2]) * (7 * Fetch + Cost(x.r[0]) + Cost(x.r[1])) + (Count(x.r[2]) + 1) * Branch)
          /\ Word(x.r[2]) /\ Fill(x.r[2]) =>
               Charges(p, IF Count(x.r[2]) = 0 THEN 22 * Fetch + Cost(x.r[0]) + 3 * Branch
                          ELSE 23 * Fetch + Cost(x.r[0]) + Count(x.r[2]) * (3 * Fetch + Cost(x.r[1])) + (Count(x.r[2]) + 2) * Branch)
          /\ ~Fill(x.r[2]) /\ Count(x.r[2]) # 0 /\ p.ok => SrcHost(x.r[0], Count(x.r[2]))
      BY <1>2, PredictSetCharges, Zenon
    <3> HIDE DEF p
    <3> QED
      BY <1>1, <3>1, Zenon
  <2> HIDE DEF p
  <2>3. n # 0 => per \in Int /\ put \in Int
    BY <1>4
  <2>4. /\ n # 0 => n * (per + Branch) = n * per + n * Branch /\ n * per \in Int
        /\ n # 0 => n * (put + Branch) = n * put + n * Branch /\ n * put \in Int
        /\ (n - 1) * Branch = n * Branch - Branch /\ (n + 1) * Branch = n * Branch + Branch
        /\ (n + 2) * Branch = n * Branch + 2 * Branch /\ n * Branch \in Int
    <3> HIDE DEF n, per, put
    <3> QED
      BY <1>4, <2>3, SumsAre
  <2>5. /\ TopOf(c) \in {HalfCopy, WordCopy} => RoundPrice(c) = per + Branch
        /\ TopOf(c) \in {HalfFill, WordFill} => RoundPrice(c) = put + Branch
    BY RoundPriceIs
  <2>6. CASE ~Word(c.r2) /\ ~Fill(c.r2)
    <3>1. TopOf(c) = HalfCopy /\ EndOf(TopOf(c)) = 0 - Branch
      BY <1>5, <2>6, TopIs DEF EndOf
    <3>2. OpenPrice(c) = IF n = 0 THEN 17 * Fetch + Branch ELSE 21 * Fetch
      BY <3>1, OpenPriceIs
    <3>3. RoundsPrice(c) = IF n = 0 THEN 0 ELSE n * (per + Branch) + (0 - Branch)
      BY <2>1, <2>5, <3>1 DEF RoundsPrice
    <3>4. Charges(p, IF n = 0 THEN 17 * Fetch + Branch ELSE 21 * Fetch + n * per + (n - 1) * Branch)
      BY <2>2, <2>6
    <3> HIDE DEF n, T, per
    <3> QED
      BY <1>4, <2>1, <2>2, <2>4, <2>6, <3>2, <3>3, <3>4 DEF PriceOf, Charges, n
  <2>7. CASE ~Word(c.r2) /\ Fill(c.r2)
    <3>1. TopOf(c) = HalfFill /\ EndOf(TopOf(c)) = Fetch
      BY <1>5, <2>7, TopIs, TopsApart DEF EndOf
    <3>2. OpenPrice(c) = IF n = 0 THEN 20 * Fetch + cs + 2 * Branch ELSE 21 * Fetch + cs + Branch
      BY <3>1, OpenPriceIs
    <3>3. RoundsPrice(c) = IF n = 0 THEN 0 ELSE n * (put + Branch) + Fetch
      BY <2>1, <2>5, <3>1 DEF RoundsPrice
    <3>4. Charges(p, IF n = 0 THEN 20 * Fetch + cs + 2 * Branch ELSE 22 * Fetch + cs + n * put + (n + 1) * Branch)
      BY <2>2, <2>7
    <3> HIDE DEF n, T, put, cs
    <3> QED
      BY <1>4, <2>1, <2>2, <2>4, <2>7, <3>2, <3>3, <3>4 DEF PriceOf, Charges
  <2>8. CASE Word(c.r2) /\ ~Fill(c.r2)
    <3>1. TopOf(c) = WordCopy /\ EndOf(TopOf(c)) = Fetch
      BY <1>5, <2>8, TopIs, TopsApart DEF EndOf
    <3>2. OpenPrice(c) = IF n = 0 THEN 21 * Fetch + 2 * Branch ELSE 21 * Fetch + Branch
      BY <3>1, OpenPriceIs
    <3>3. RoundsPrice(c) = IF n = 0 THEN 0 ELSE n * (per + Branch) + Fetch
      BY <2>1, <2>5, <3>1 DEF RoundsPrice
    <3>4. Charges(p, IF n = 0 THEN 21 * Fetch + 2 * Branch ELSE 22 * Fetch + n * per + (n + 1) * Branch)
      BY <2>2, <2>8
    <3> HIDE DEF n, T, per
    <3> QED
      BY <1>4, <2>1, <2>2, <2>4, <2>8, <3>2, <3>3, <3>4 DEF PriceOf, Charges, n
  <2>9. CASE Word(c.r2) /\ Fill(c.r2)
    <3>1. TopOf(c) = WordFill /\ EndOf(TopOf(c)) = Fetch
      BY <1>5, <2>9, TopIs, TopsApart DEF EndOf
    <3>2. OpenPrice(c) = IF n = 0 THEN 22 * Fetch + cs + 3 * Branch ELSE 22 * Fetch + cs + 2 * Branch
      BY <3>1, OpenPriceIs
    <3>3. RoundsPrice(c) = IF n = 0 THEN 0 ELSE n * (put + Branch) + Fetch
      BY <2>1, <2>5, <3>1 DEF RoundsPrice
    <3>4. Charges(p, IF n = 0 THEN 22 * Fetch + cs + 3 * Branch ELSE 23 * Fetch + cs + n * put + (n + 2) * Branch)
      BY <2>2, <2>9
    <3> HIDE DEF n, T, put, cs
    <3> QED
      BY <1>4, <2>1, <2>2, <2>4, <2>9, <3>2, <3>3, <3>4 DEF PriceOf, Charges
  <2> QED
    BY <2>6, <2>7, <2>8, <2>9
<1>6. CASE c.num = 12
  <2> DEFINE p == PredictFast(x)
             k == Rounds(n)
             b == (4 + 7 * Chunk) * Fetch + Chunk * (cs + cd)
             f == (4 + 3 * Chunk) * Fetch + Chunk * cd
             copy == b + (Chunk - 1) * Branch
             fill == f + (Chunk - 1) * Branch
  <2>1. Predict(x) = p /\ Copied(c) = k * Chunk /\ (n # 0 => T = k)
    BY <1>1, <1>3, <1>6 DEF Copied, TurnsOf
  <2>2. /\ Fill(c.r2) =>
             Charges(p, IF n = 0 THEN 20 * Fetch + cs + Branch ELSE 20 * Fetch + cs + k * fill + (k - 1) * Branch)
        /\ ~Fill(c.r2) =>
             Charges(p, IF n = 0 THEN 19 * Fetch + 2 * Branch ELSE 20 * Fetch + Branch + k * copy + k * Branch)
        /\ ~Fill(c.r2) /\ n # 0 /\ p.ok => SrcHost(c.r0, k * Chunk)
    <3>1. /\ Fill(x.r[2]) =>
               Charges(p, IF Count(x.r[2]) = 0 THEN 20 * Fetch + Cost(x.r[0]) + Branch
                          ELSE 20 * Fetch + Cost(x.r[0])
                               + Rounds(Count(x.r[2])) * ((4 + 3 * Chunk) * Fetch + Chunk * Cost(x.r[1]) + (Chunk - 1) * Branch)
                               + (Rounds(Count(x.r[2])) - 1) * Branch)
          /\ ~Fill(x.r[2]) =>
               Charges(p, IF Count(x.r[2]) = 0 THEN 19 * Fetch + 2 * Branch
                          ELSE 20 * Fetch + Branch
                               + Rounds(Count(x.r[2])) * ((4 + 7 * Chunk) * Fetch + Chunk * (Cost(x.r[0]) + Cost(x.r[1])) + (Chunk - 1) * Branch)
                               + Rounds(Count(x.r[2])) * Branch)
          /\ ~Fill(x.r[2]) /\ Count(x.r[2]) # 0 /\ p.ok => SrcHost(x.r[0], Rounds(Count(x.r[2])) * Chunk)
      BY <1>2, PredictFastCharges, Zenon
    <3> HIDE DEF p
    <3> QED
      BY <1>1, <3>1, Zenon
  <2> HIDE DEF p
  <2>3. n # 0 => /\ k \in Int /\ b \in Int /\ f \in Int /\ copy \in Int /\ fill \in Int
                 /\ copy + Branch = b + Chunk * Branch /\ fill + Branch = f + Chunk * Branch
    <3>1. n # 0 => k \in Int
      BY <1>4, <2>1
    <3> HIDE DEF k
    <3>2. n # 0 => b \in Int /\ f \in Int
      BY <1>4
    <3>3. (Chunk - 1) * Branch = Chunk * Branch - Branch /\ Chunk * Branch \in Int
      BY <1>4
    <3> HIDE DEF b, f
    <3> QED
      BY <1>4, <3>1, <3>2, <3>3
  <2> HIDE DEF k, b, f
  <2>4. /\ n # 0 => k * (copy + Branch) = k * copy + k * Branch /\ k * copy \in Int
        /\ n # 0 => k * (fill + Branch) = k * fill + k * Branch /\ k * fill \in Int
        /\ n # 0 => (k - 1) * Branch = k * Branch - Branch /\ k * Branch \in Int
    <3> HIDE DEF n, copy, fill
    <3> QED
      BY <1>4, <2>3, SumsAre
  <2>5. /\ TopOf(c) = FastFill => RoundPrice(c) = f + Chunk * Branch
        /\ TopOf(c) = FastCopy => RoundPrice(c) = b + Chunk * Branch
    BY RoundPriceIs DEF f, b
  <2>6. CASE Fill(c.r2)
    <3>1. TopOf(c) = FastFill /\ EndOf(TopOf(c)) = 0 - Branch
      BY <1>6, <2>6, TopIs DEF EndOf
    <3>2. OpenPrice(c) = IF n = 0 THEN 20 * Fetch + cs + Branch ELSE 20 * Fetch + cs
      BY <3>1, OpenPriceIs
    <3>3. RoundsPrice(c) = IF n = 0 THEN 0 ELSE k * (fill + Branch) + (0 - Branch)
      BY <2>1, <2>3, <2>5, <3>1 DEF RoundsPrice
    <3>4. Charges(p, IF n = 0 THEN 20 * Fetch + cs + Branch ELSE 20 * Fetch + cs + k * fill + (k - 1) * Branch)
      BY <2>2, <2>6
    <3> HIDE DEF n, T, fill, cs
    <3> QED
      BY <1>4, <2>1, <2>2, <2>4, <2>6, <3>2, <3>3, <3>4 DEF PriceOf, Charges
  <2>7. CASE ~Fill(c.r2)
    <3>1. TopOf(c) = FastCopy /\ EndOf(TopOf(c)) = Fetch
      BY <1>6, <2>7, TopIs, TopsApart DEF EndOf
    <3>2. OpenPrice(c) = IF n = 0 THEN 19 * Fetch + 2 * Branch ELSE 19 * Fetch + Branch
      BY <3>1, OpenPriceIs
    <3>3. RoundsPrice(c) = IF n = 0 THEN 0 ELSE k * (copy + Branch) + Fetch
      BY <2>1, <2>3, <2>5, <3>1 DEF RoundsPrice
    <3>4. Charges(p, IF n = 0 THEN 19 * Fetch + 2 * Branch ELSE 20 * Fetch + Branch + k * copy + k * Branch)
      BY <2>2, <2>7
    <3> HIDE DEF n, T, copy
    <3> QED
      BY <1>4, <2>1, <2>2, <2>4, <2>7, <3>2, <3>3, <3>4 DEF PriceOf, Charges, n
  <2> QED
    BY <2>6, <2>7
<1> QED
  BY <1>1, <1>5, <1>6

LEMMA RoundPriced ==
  ASSUME NEW c \in AllCalls, NEW t, t.pc = TopOf(c), DestAt(t) = c.r1, t.pc \in Fills \/ FromAt(t) = c.r0
  PROVE  RoundOf(t) = RoundPrice(c)
<1>1. t.pc \in Loops
  BY PlacesAre
<1>2. CASE t.pc \in {HalfFill, WordFill}
  <2>1. t.pc \notin Tops
    BY <1>2 DEF Tops, HalfFill, WordFill, FastFill, FastCopy, HalfCopy, WordCopy
  <2> QED
    BY <1>2, <2>1, RoundPriceIs DEF RoundOf
<1>3. CASE t.pc = FastFill
  <2>1. DestAt(t) = t.r[1] /\ t.pc \in Tops
    BY <1>3 DEF DestAt, Fills, Tops
  <2> QED
    BY <1>3, <2>1, UnitPrice, RoundPriceIs DEF RoundOf
<1>4. CASE t.pc = FastCopy
  <2>1. DestAt(t) = t.r[1] + t.r[3] /\ FromAt(t) = t.r[3] /\ t.pc \notin Fills /\ t.pc \in Tops
    BY <1>4 DEF DestAt, FromAt, Fills, Tops, FastCopy, FastFill, HalfFill, WordFill
  <2> QED
    BY <1>4, <2>1, UnitPrice, RoundPriceIs DEF RoundOf
<1>5. CASE t.pc \in {WordCopy, HalfCopy}
  <2>1. DestAt(t) = t.r[1] + t.r[2] /\ FromAt(t) = t.r[2] /\ t.pc \notin Fills /\ t.pc \in Tops
    BY <1>5 DEF DestAt, FromAt, Fills, Tops, FastCopy, FastFill, HalfFill, WordFill, WordCopy, HalfCopy
  <2> QED
    BY <1>5, <2>1, UnitPrice, RoundPriceIs DEF RoundOf
<1> QED
  BY <1>1, <1>2, <1>3, <1>4, <1>5 DEF Loops, Fills

LEMMA ExitPriced ==
  ASSUME NEW x, NEW w, x.pc \in Exits
  PROVE  BiosStep(x, w).cost = ExitCost
<1>1. BiosStep(x, w) = Completed(x)
  BY BiosIs DEF Exits
<1> QED
  BY <1>1 DEF Completed, Returned, Stepped, ExitCost

LEMMA OpenPriceInt ==
  ASSUME NEW c \in AllCalls, Clean(c)
  PROVE  OpenPrice(c) \in Int /\ EntryCost \in Int /\ ExitCost \in Int /\ (Count(c.r2) # 0 => RoundPrice(c) \in Int)
<1>1. /\ Fill(c.r2) \/ Count(c.r2) # 0 => Cost(c.r0) \in Int
      /\ Count(c.r2) # 0 => Cost(c.r1) \in Int
      /\ Fetch \in Int /\ Branch \in Int /\ Chunk \in Int
  BY CallPriced, CostsAre
<1>2. EntryCost \in Int /\ ExitCost \in Int
  BY CostsAre DEF EntryCost, ExitCost
<1>3. TopOf(c) \in {HalfCopy, HalfFill, WordCopy, WordFill, FastFill, FastCopy}
  BY PlacesAre DEF Loops, Fills
<1>4. TopOf(c) \in {HalfFill, WordFill, FastFill} => Fill(c.r2)
  BY TopIs DEF Fills
<1>5. OpenPrice(c) \in Int
  BY <1>1, <1>3, <1>4, OpenPriceIs
<1>6. Count(c.r2) # 0 => RoundPrice(c) \in Int
  <2> HAVE Count(c.r2) # 0
  <2>1. Cost(c.r0) \in Int /\ Cost(c.r1) \in Int
    BY <1>1
  <2>2. (4 + 3 * Chunk) * Fetch \in Int /\ (4 + 7 * Chunk) * Fetch \in Int /\ Chunk * Branch \in Int
        /\ Chunk * Cost(c.r1) \in Int /\ Chunk * (Cost(c.r0) + Cost(c.r1)) \in Int
    BY <1>1, <2>1
  <2> QED
    BY <1>1, <1>3, <2>1, <2>2, RoundPriceIs
<1> QED
  BY <1>2, <1>5, <1>6

LEMMA CallCost ==
  ASSUME CallsClean, CallsUniform, NEW x, Proto(x), x.pc = Vector, NEW c \in AllCalls, Asked(x, c),
         Fill(c.r2) \/ Count(c.r2) = 0 \/ OneRegion(c.r0, Copied(c)),
         NEW w, NEW f, f[0] = [x |-> x, cost |-> 0], Goes(f, 0, TurnsOf(c) + 2, w)
  PROVE  f[TurnsOf(c) + 2].cost = PriceOf(c)
<1> DEFINE T == TurnsOf(c)
           n == Copied(c)
           d == Opening(x)
           st == StartOf(x, d.r)
           t == Placed(d, st.pc, st.r)
           i == Count(c.r2)
<1>0. x \in Machine /\ Roomy(x)
  BY SeatsAre, AskingIs
<1>1. Clean(c) /\ OneRegion(c.r1, n)
  BY DEF CallsClean, CallsUniform, AllCalls
<1>2. /\ Opened(x, d) /\ Begun(c, x, st) /\ BiosStep(x, w).x = t /\ BiosStep(x, w).cost = st.cost
      /\ st.cost = EntryCost + OpenPrice(c)
  BY <1>0, <1>1, EnterIs, StartPriced
<1>3. st.pc \in Int /\ st.r \in [Regs -> Int]
  BY <1>2 DEF Begun
<1>4. T \in Nat /\ n \in Nat /\ (i = 0 => T = 0 /\ n = 0) /\ (i # 0 => T > 0) /\ T * UnitOf(c) = n
  BY TurnsAre
<1>5. OpenPrice(c) \in Int /\ EntryCost \in Int /\ ExitCost \in Int /\ (i # 0 => RoundPrice(c) \in Int)
  BY <1>1, OpenPriceInt
<1>6. Proto(t)
  BY <1>2, StepProto
<1> HIDE DEF n, d, st
<1>7. \A k \in 1 .. T + 2 : f[0 + k] = RunOn(f[0 + k - 1], w)
  BY DEF Goes
<1> HIDE DEF T, i
<1>8. \A k \in 1 .. T + 2 : f[k] = RunOn(f[k - 1], w)
  <2> TAKE k \in 1 .. T + 2
  <2>1. 0 + k = k /\ 0 + k - 1 = k - 1
    BY <1>4
  <2> QED
    BY <1>7, <2>1
<1>9. f[1].x = t /\ f[1].cost = EntryCost + OpenPrice(c)
  <2>1. 1 \in 1 .. T + 2 /\ 1 - 1 = 0
    BY <1>4
  <2>2. f[1] = RunOn(f[0], w) /\ f[0].x = x /\ f[0].cost = 0
    BY <1>8, <2>1
  <2>3. f[1].x = t /\ f[1].cost = 0 + st.cost
    BY <1>2, <2>2, RunAt
  <2> QED
    BY <1>2, <1>5, <2>3
<1>10. /\ t \in Machine /\ t.pc = st.pc /\ t.r = st.r
       /\ \A a \in DOMAIN Host : OffStacks(Host[a]) => Read(t, a) = Read(x, a)
  BY <1>0, <1>2, <1>3, OpenedAfter
<1> HIDE DEF t
<1>11. f[T + 2].cost = f[T + 1].cost + BiosStep(f[T + 1].x, w).cost
  <2>1. T + 2 \in 1 .. T + 2 /\ (T + 2) - 1 = T + 1
    BY <1>4
  <2>2. f[T + 2] = RunOn(f[T + 1], w)
    BY <1>8, <2>1
  <2> QED
    BY <2>2, RunAt
<1>12. /\ f[T + 1].x.pc \in Exits
       /\ f[T + 1].cost = EntryCost + OpenPrice(c) + RoundsPrice(c)
       /\ RoundsPrice(c) \in Int
  <2>1. CASE i = 0
    <3>1. T + 1 = 1
      BY <1>4, <2>1
    <3>2. t.pc \in Exits
      BY <1>2, <1>10, <2>1, BegunIs DEF i
    <3>3. RoundsPrice(c) = 0
      BY <2>1 DEF RoundsPrice, i
    <3> QED
      BY <1>5, <1>9, <3>1, <3>2, <3>3
  <2>2. CASE i # 0
    <3> DEFINE o == 0
    <3>1. /\ t.pc = TopOf(c) /\ t.pc \in Loops /\ Within(c, o, t) /\ RunOk(t, n) /\ DestAt(t) = c.r1
          /\ (T - 1) * UnitOf(c) < LeftAt(t) /\ LeftAt(t) <= n /\ n \in Nat \ {0}
      <4>1. Clean(c) /\ Begun(c, x, st) /\ Count(c.r2) # 0
        BY <1>1, <1>2, <2>2 DEF i
      <4> QED
        <5>1. /\ t.pc = TopOf(c) /\ t.pc \in Loops /\ Within(c, 0, t) /\ RunOk(t, Copied(c)) /\ DestAt(t) = c.r1
              /\ (TurnsOf(c) - 1) * UnitOf(c) < LeftAt(t) /\ LeftAt(t) <= Copied(c) /\ Copied(c) \in Nat \ {0}
              /\ RegsAt(t, Copied(c))[0] = R0After(x, c) /\ RegsAt(t, Copied(c))[1] = R1After(c)
              /\ \A k \in 1 .. Copied(c) : ValueAt(t, k) = Read(x, FromOf(c, k))
          BY <1>10, <4>1, LoopAfter
        <5> QED
          BY <5>1 DEF n, T
    <3>2. o \in Nat /\ T \in Nat \ {0}
      BY <1>4, <2>2
    <3>3. t.pc \in Fills \/ FromAt(t) = c.r0
      <4>1. Fill(c.r2) => t.pc \in Fills
        BY <3>1, TopIs
      <4>2. o * UnitOf(c) = 0 /\ c.r0 \in Int
        BY UnitsAre, CallIs
      <4> QED
        BY <3>1, <4>1, <4>2 DEF Within
    <3> HIDE DEF o
    <3>4. Even(t, T * UnitOf(c))
      <4>1. Fill(c.r2) => t.pc \in Fills
        BY <3>1, TopIs
      <4> QED
        BY <1>1, <1>4, <2>2, <3>1, <3>3, <4>1 DEF Even, n, i
    <3>5. Goes(f, 1, T, w)
      <4>1. ASSUME NEW k \in 1 .. T PROVE f[1 + k] = RunOn(f[1 + k - 1], w)
        <5>1. 1 + k \in 1 .. T + 2 /\ 1 + k - 1 = (1 + k) - 1
          BY <1>4
        <5> QED
          BY <1>8, <5>1
      <4>2. f[1].cost \in Int
        BY <1>5, <1>9
      <4> QED
        BY <4>1, <4>2 DEF Goes
    <3>6. /\ f[1 + T].x = Settled(Ran(t, T * UnitOf(c)))
          /\ f[1 + T].cost = f[1].cost + T * RoundOf(t) + TailOf(t.pc, LeftAt(t) - T * UnitOf(c))
      BY <1>6, <1>9, <3>1, <3>2, <3>4, <3>5, RoundsCost DEF t
    <3>7. 1 + T = T + 1
      BY <1>4
    <3>8. RoundOf(t) = RoundPrice(c)
      BY <3>1, <3>3, RoundPriced
    <3>9. LeftAt(t) \in Int
      BY <1>10, <3>1, AtType
    <3>10. TailOf(t.pc, LeftAt(t) - T * UnitOf(c)) = EndOf(TopOf(c)) /\ EndOf(TopOf(c)) \in Int
      <4>1. ~(LeftAt(t) - n > 0)
        BY <1>4, <3>1, <3>9
      <4>2. EndOf(TopOf(c)) \in Int
        BY CostsAre DEF EndOf
      <4> QED
        BY <1>4, <3>1, <4>1, <4>2 DEF TailOf
    <3>11. RoundsPrice(c) = T * RoundPrice(c) + EndOf(TopOf(c))
      BY <2>2 DEF RoundsPrice, T, i
    <3>12. T * RoundPrice(c) \in Int
      BY <1>4, <1>5, <2>2
    <3>13. f[T + 1].cost = EntryCost + OpenPrice(c) + RoundsPrice(c) /\ RoundsPrice(c) \in Int
      <4> DEFINE e == T * RoundPrice(c)
      <4>1. e \in Int /\ f[T + 1].cost = EntryCost + OpenPrice(c) + e + EndOf(TopOf(c)) /\ RoundsPrice(c) = e + EndOf(TopOf(c))
        BY <1>9, <3>6, <3>7, <3>8, <3>10, <3>11, <3>12
      <4> HIDE DEF e
      <4> QED
        BY <1>5, <3>10, <4>1
    <3>14. f[T + 1].x.pc \in Exits
      <4> DEFINE z == Ran(t, n)
      <4>1. z \in Machine /\ z.pc = t.pc
        BY <1>10, <3>1, RanType
      <4>2. LeftAt(z) = LeftAt(t) - n
        BY <1>10, <3>1, RanLeft
      <4> HIDE DEF z
      <4>3. LeftAt(z) <= 0
        BY <3>1, <3>9, <4>2
      <4>4. Settled(z).pc = OutOf(z.pc)
        BY <4>1, <4>3, SettledType
      <4>5. f[T + 1].x = Settled(z)
        BY <1>4, <3>6, <3>7 DEF z
      <4> QED
        BY <4>4, <4>5 DEF OutOf, Exits
    <3> QED
      BY <3>13, <3>14
  <2> QED
    BY <2>1, <2>2
<1>13. BiosStep(f[T + 1].x, w).cost = ExitCost
  BY <1>12, ExitPriced
<1>14. f[T + 2].cost = EntryCost + OpenPrice(c) + RoundsPrice(c) + ExitCost
  BY <1>5, <1>11, <1>12, <1>13
<1> QED
  BY <1>14 DEF PriceOf, T
-----------------------------------------------------------------------------
(* The two threads of a machine: the one that runs, and the game's, which   *)
(* an interrupt has put aside.                                              *)
Ks == {1, 2, 3, 4, 12}
View(x) == [pc |-> x.pc, r |-> [k \in Ks |-> x.r[k]]]
Nobody == [pc |-> GamePc, r |-> [k \in Ks |-> 0]]
UOf(x) == IF x.bank["irq"].spsr = System THEN UserTop - 4 ELSE UserTop
Taking(x) == [pc |-> Lr(x, "irq") - 4, r |-> [k \in Ks |-> x.r[k]]]
Aside(x, u) ==
  [pc |-> Read(x, IrqTop - 1) - 4,
   r |-> [k \in Ks |-> IF k = 4 THEN R4At(x, u) ELSE IF k = 12 THEN Read(x, IrqTop - 2) ELSE Read(x, IrqTop - 6 + k)]]
Behind(x) ==
  IF x.pc = IrqVector THEN Taking(x) ELSE IF Sp(x, "irq") = IrqTop THEN Nobody ELSE Aside(x, UOf(x))

\* A call is under way; and its copy is the engine's, which paid for the end.
Open(z) == z.pc \in Loops \cup {Vector}
Engaged(z) ==
  /\ z.pc \in {WordCopy, FastCopy} /\ z.r[12] = Limit
  /\ \E c \in AllCalls, q \in Nat : z.pc = TopOf(c) /\ Within(c, q, z) /\ SrcHost(c.r0, Copied(c))

LEMMA ViewAt ==
  ASSUME NEW x, x.pc \in Loops
  PROVE  /\ LeftAt(View(x)) = LeftAt(x) /\ DestAt(View(x)) = DestAt(x) /\ FromAt(View(x)) = FromAt(x)
         /\ View(x).pc = x.pc /\ View(x).r[12] = x.r[12]
<1> DEFINE v == View(x)
<1>1. v.pc = x.pc /\ v.r[1] = x.r[1] /\ v.r[2] = x.r[2] /\ v.r[3] = x.r[3] /\ v.r[4] = x.r[4] /\ v.r[12] = x.r[12]
  BY DEF View, Ks
<1> HIDE DEF v
<1>2. FromAt(v) = FromAt(x) /\ DestAt(v) = DestAt(x)
  BY <1>1 DEF FromAt, DestAt
<1>3. LeftAt(v) = LeftAt(x)
  BY <1>1, Zenon DEF LeftAt
<1> QED
  BY <1>1, <1>2, <1>3 DEF v

LEMMA EngagedIs ==
  ASSUME NEW x
  PROVE  Engaged(View(x)) <=>
           /\ x.pc \in {WordCopy, FastCopy} /\ x.r[12] = Limit
           /\ \E c \in AllCalls, q \in Nat : x.pc = TopOf(c) /\ Within(c, q, x) /\ SrcHost(c.r0, Copied(c))
<1> DEFINE v == View(x)
<1>1. v.pc = x.pc
  BY DEF View
<1>2. CASE x.pc \in {WordCopy, FastCopy}
  <2>1. x.pc \in Loops
    BY <1>2 DEF Loops
  <2>2. LeftAt(v) = LeftAt(x) /\ DestAt(v) = DestAt(x) /\ FromAt(v) = FromAt(x) /\ v.r[12] = x.r[12]
    BY <2>1, ViewAt
  <2> HIDE DEF v
  <2>3. \A c, q : Within(c, q, v) <=> Within(c, q, x)
    BY <2>2 DEF Within
  <2>4. Engaged(v) <=>
           /\ x.pc \in {WordCopy, FastCopy} /\ x.r[12] = Limit
           /\ \E c \in AllCalls, q \in Nat : x.pc = TopOf(c) /\ Within(c, q, x) /\ SrcHost(c.r0, Copied(c))
    BY <1>1, <2>2, <2>3, Zenon DEF Engaged
  <2> QED
    BY <2>4 DEF v
<1>3. CASE x.pc \notin {WordCopy, FastCopy}
  BY <1>1, <1>3 DEF Engaged
<1> QED
  BY <1>2, <1>3

LEMMA UOfIs ==
  ASSUME NEW x \in Machine, NEW l, NEW u, NEW s, Bases(l, u, s), Context(x, l, u, s), Sp(x, "irq") # IrqTop
  PROVE  UOf(x) = u /\ Sp(x, "irq") = IrqTop - 6 /\ l = "isr"
<1>1. l = "isr" /\ Sp(x, "irq") = IrqTop - 6
  BY DEF Context
<1>2. PICK g \in Ways : u = UBase(g) /\ Thread(x, g, Saved(x, u), x.bank["irq"].spsr)
  BY <1>1, CallersAre DEF Context
<1>3. g = "copy" => x.bank["irq"].spsr = System
  BY <1>2 DEF Thread
<1>4. g # "copy" => x.bank["irq"].spsr \in {16, 48}
  BY <1>2, CallersAre DEF Thread
<1> QED
  BY <1>1, <1>2, <1>3, <1>4 DEF UOf, UBase, System

\* What keeps the stacks keeps the thread put aside.
LEMMA BehindKept ==
  ASSUME NEW x \in Machine, NEW y \in Machine, NEW l, NEW u, NEW s, Bases(l, u, s), Context(x, l, u, s),
         Kept(x, y, u, s), x.pc # IrqVector, y.pc # IrqVector
  PROVE  Behind(y) = Behind(x)
<1>1. Sp(y, "irq") = Sp(x, "irq") /\ UOf(y) = UOf(x) /\ R4At(y, u) = R4At(x, u)
  BY DEF Kept, Sp, UOf
<1>2. CASE Sp(x, "irq") = IrqTop
  BY <1>1, <1>2 DEF Behind
<1>3. CASE Sp(x, "irq") # IrqTop
  <2>1. UOf(x) = u /\ Sp(x, "irq") = 1016
    BY <1>3, UOfIs DEF IrqTop
  <2>2. \A a \in Stacks : 1016 <= a => Read(y, a) = Read(x, a)
    BY <2>1 DEF Kept
  <2>3. Read(y, IrqTop - 1) = Read(x, IrqTop - 1) /\ Read(y, IrqTop - 2) = Read(x, IrqTop - 2)
    BY <2>2, StacksAre DEF IrqTop
  <2>4. \A k \in Ks : k # 4 /\ k # 12 => Read(y, IrqTop - 6 + k) = Read(x, IrqTop - 6 + k)
    BY <2>2, StacksAre DEF IrqTop, Ks
  <2>5. Aside(y, u) = Aside(x, u)
    BY <1>1, <2>3, <2>4 DEF Aside
  <2> QED
    BY <1>1, <1>3, <2>1, <2>5 DEF Behind
<1> QED
  BY <1>2, <1>3

LEMMA OpenedBehind ==
  ASSUME NEW x \in Machine, NEW l, NEW u, NEW s, Active(x, l, u, s), Asking(x, l, u, s), NEW d, Opened(x, d),
         NEW pc \in Int, pc # IrqVector, NEW r \in [Regs -> Int]
  PROVE  Behind(Placed(d, pc, r)) = Behind(x)
<1> DEFINE t == Placed(d, pc, r)
<1>1. Bases(l, u, s) /\ Context(x, l, u, s) /\ Sp(x, "usr") = u /\ Sp(x, "svc") = s /\ x.pc # IrqVector
  BY PlacesAre DEF Active, Asking, Based
<1>2. l \in Levels /\ (u = 1008 \/ u = 1004) /\ (s = 1016 \/ s = 1012)
  BY <1>1, BasesAre
<1>3. d \in Machine
  BY DEF Opened
<1>4. t \in Machine /\ t.pc = pc /\ t.bank = d.bank /\ \A a : Read(t, a) = Read(d, a)
  BY <1>3, PlacedIs
<1> HIDE DEF t
<1>5. x.bank \in [Banks -> [sp : Int, lr : Int, spsr : Int]]
  BY DEF Machine
<1>6. Sp(t, "usr") = u - 4 /\ t.bank["irq"] = x.bank["irq"]
  BY <1>1, <1>4, <1>5, NamesAre DEF Opened, Sp
<1>7. R4At(t, u) = R4At(x, u)
  <2>1. Sp(t, "usr") # u
    BY <1>2, <1>6
  <2>2. Read(t, u - 4) = x.r[4]
    BY <1>1, <1>4 DEF Opened
  <2> QED
    BY <1>1, <2>1, <2>2 DEF R4At
<1>8. Sp(x, "irq") >= 1016
  BY StacksIn DEF IrqTop
<1>9. ASSUME NEW a \in Stacks, (u <= a /\ a < UserTop) \/ (s <= a /\ a < SvcTop) \/ Sp(x, "irq") <= a
      PROVE  Read(t, a) = Read(x, a)
  <2>1. ~InFrames(x, a)
    BY <1>1, <1>2, <1>8, <1>9, StacksAre, StacksIn DEF InFrames, Span, UserTop, SvcTop, IrqTop
  <2> QED
    BY <1>4, <2>1 DEF Opened
<1>10. Kept(x, t, u, s)
  BY <1>6, <1>7, <1>9 DEF Kept
<1>11. Behind(t) = Behind(x)
  BY <1>1, <1>4, <1>10, BehindKept
<1> QED
  BY <1>11 DEF t

LEMMA CopyBehind ==
  ASSUME NEW x \in Machine, NEW y \in Machine, NEW l, NEW u, NEW s, Active(x, l, u, s), Copying(x, l, u, s),
         y.bank = x.bank, \A a \in Stacks : Read(y, a) = Read(x, a), x.pc # IrqVector, y.pc # IrqVector
  PROVE  Behind(y) = Behind(x)
<1>1. Bases(l, u, s) /\ Context(x, l, u, s) /\ Sp(x, "usr") = u - 4
  BY DEF Active, Copying, Based
<1>2. u - 4 \in Stacks /\ u - 4 # u
  BY <1>1, BasesAre, StacksAre
<1>3. \A b : Sp(y, b) = Sp(x, b)
  BY DEF Sp
<1>4. R4At(y, u) = R4At(x, u)
  BY <1>1, <1>2, <1>3 DEF R4At
<1>5. Kept(x, y, u, s)
  BY <1>4 DEF Kept
<1> QED
  BY <1>1, <1>5, BehindKept

LEMMA ClosedBehind ==
  ASSUME NEW x \in Machine, NEW t, NEW l, NEW u, NEW s, Active(x, l, u, s), Copying(x, l, u, s), Closed(x, t),
         x.pc # IrqVector, t.pc # IrqVector
  PROVE  Behind(t) = Behind(x)
<1>1. Bases(l, u, s) /\ Context(x, l, u, s) /\ Sp(x, "usr") = u - 4
  BY DEF Active, Copying, Based
<1>2. u = 1008 \/ u = 1004
  BY <1>1, BasesAre
<1>3. t \in Machine /\ t.mem = x.mem /\ t.bank["irq"] = x.bank["irq"]
  BY DEF Closed
<1>4. Sp(t, "usr") = u
  BY <1>1, <1>2 DEF Closed, Sp
<1>5. t.r[4] = Read(x, u - 4)
  BY <1>1 DEF Closed
<1>6. R4At(t, u) = R4At(x, u)
  BY <1>1, <1>2, <1>4, <1>5 DEF R4At
<1>7. Kept(x, t, u, s)
  BY <1>3, <1>6 DEF Kept, Read
<1> QED
  BY <1>1, <1>3, <1>7, BehindKept

\* At the top level of a task, its stack is the machine's.
LEMMA LevelBehind ==
  ASSUME NEW x \in Machine, NEW t \in Machine, NEW l, NEW u, NEW s, Active(x, l, u, s), Based(x, u, s),
         t.bank["usr"].sp = x.bank["usr"].sp, t.bank["irq"] = x.bank["irq"], t.r[4] = x.r[4],
         \A a \in Stacks : a \notin Free(x) => Read(t, a) = Read(x, a), x.pc # IrqVector, t.pc # IrqVector
  PROVE  Behind(t) = Behind(x)
<1>1. Bases(l, u, s) /\ Context(x, l, u, s) /\ Sp(x, "usr") = u /\ Sp(x, "svc") = s
  BY DEF Active, Based
<1>2. (u = 1008 \/ u = 1004) /\ (s = 1016 \/ s = 1012)
  BY <1>1, BasesAre
<1>3. R4At(t, u) = R4At(x, u)
  BY <1>1 DEF R4At, Sp
<1>4. Sp(x, "irq") = 1022 \/ Sp(x, "irq") = 1016
  BY <1>1 DEF Context, IrqTop
<1>5. ASSUME NEW a \in Stacks, (u <= a /\ a < UserTop) \/ (s <= a /\ a < SvcTop) \/ Sp(x, "irq") <= a
      PROVE  Read(t, a) = Read(x, a)
  <2>1. a \in Int
    BY StacksAre
  <2>2. a \notin Free(x)
    BY <1>1, <1>2, <1>4, <1>5, <2>1 DEF Free, UserTop, SvcTop, IrqTop
  <2> QED
    BY <2>2
<1>6. Kept(x, t, u, s)
  BY <1>3, <1>5 DEF Kept
<1> QED
  BY <1>1, <1>6, BehindKept

\* Outside the interrupt's wrapper a step leaves the other thread alone, and
\* opens no call.
LEMMA StepBehind ==
  ASSUME CallsClean, NEW x, Proto(x), x.pc # IrqVector, x.pc # IrqReturn, NEW w
  PROVE  /\ Behind(BiosStep(x, w).x) = Behind(x)
         /\ BiosStep(x, w).x.pc # IrqVector /\ BiosStep(x, w).x.pc # IrqReturn
         /\ BiosStep(x, w).x.pc \in Loops \cup {Vector} => x.pc \in Loops \cup {Vector}
<1> DEFINE y == BiosStep(x, w).x
<1>1. x \in Machine /\ Handler(x) \in Handlers
  BY SeatsAre
<1>2. y \in Machine
  BY StepProto, SeatsAre
<1>4. CASE x.pc = Vector
  <2>1. PICK l \in Levels, u \in UTops, s \in STops : Active(x, l, u, s) /\ Asking(x, l, u, s)
    BY <1>4, ActiveAt, PlacesAre
  <2>2. PICK c \in AllCalls : Asked(x, c)
    BY <1>4, AskingIs
  <2>3. Roomy(x) /\ Clean(c)
    BY <1>4, AskingIs DEF CallsClean, AllCalls
  <2> DEFINE d == Opening(x)  st == StartOf(x, d.r)  t == Placed(d, st.pc, st.r)
  <2>4. Opened(x, d) /\ Begun(c, x, st) /\ y = t
    BY <1>1, <1>4, <2>2, <2>3, EnterIs
  <2> HIDE DEF d, st, y
  <2>5. st.pc \in Int /\ st.r \in [Regs -> Int] /\ st.pc \in Loops \cup Exits
    BY <2>4, PlacesAre DEF Begun
  <2>6. st.pc # IrqVector /\ st.pc # IrqReturn
    BY <2>5, PlacesAre
  <2>7. t.pc = st.pc
    BY <2>4, <2>5, PlacedIs DEF Opened
  <2> HIDE DEF t
  <2>8. Behind(t) = Behind(x)
    BY <1>1, <2>1, <2>4, <2>5, <2>6, OpenedBehind DEF t
  <2> QED
    BY <1>4, <2>4, <2>6, <2>7, <2>8 DEF y
<1>5. CASE x.pc \in Loops
  <2>1. PICK c \in AllCalls, q \in Nat : x.pc = TopOf(c) /\ Within(c, q, x)
    BY <1>5, LoopingIs
  <2>2. Clean(c)
    BY DEF CallsClean, AllCalls
  <2>3. LeftAt(x) > 0 /\ 1 * UnitOf(c) = UnitOf(c) /\ UnitAt(x) = UnitOf(c) /\ RunOk(x, UnitAt(x))
    BY <1>5, <2>1, LoopLeft, UnitsAre
  <2>4. (1 - 1) * UnitOf(c) < LeftAt(x)
    BY <2>3, UnitsAre
  <2>5. y = Settled(Ran(x, 1 * UnitOf(c)))
    BY <1>1, <1>5, <2>3, RoundIs
  <2> DEFINE z == Settled(Ran(x, 1 * UnitOf(c)))
  <2>6. z.bank = x.bank /\ (\A a \in Stacks : Read(z, a) = Read(x, a)) /\ Looping(c, z)
    BY <1>1, <2>1, <2>2, <2>4, RoundsEnd
  <2> HIDE DEF y, z
  <2>7. y = z
    BY <2>5 DEF z
  <2>8. y.pc \in Loops \cup Exits
    BY <2>6, <2>7, PlacesAre DEF Looping
  <2>9. PICK l \in Levels, u \in UTops, s \in STops : Active(x, l, u, s) /\ Copying(x, l, u, s)
    BY <1>5, ActiveAt, PlacesAre
  <2>10. y.pc # IrqVector /\ y.pc # IrqReturn
    BY <2>8, PlacesAre
  <2>11. Behind(y) = Behind(x)
    BY <1>1, <1>2, <2>6, <2>7, <2>9, <2>10, CopyBehind
  <2> QED
    BY <1>5, <2>10, <2>11 DEF y
<1>6. CASE x.pc \in Exits
  <2>1. PICK l \in Levels, u \in UTops, s \in STops : Active(x, l, u, s) /\ Copying(x, l, u, s)
    BY <1>6, ActiveAt, PlacesAre
  <2>2. y = Completed(x).x
    BY <1>6, BiosIs DEF Exits
  <2>3. Closed(x, y)
    BY <1>1, <1>6, <2>2, EndingIs, CompletedIs
  <2> HIDE DEF y
  <2>4. Idle(y, l, u, s)
    BY <1>1, <2>1, <2>3, ClosedKeeps
  <2>5. y.pc = HomeOf(l)
    <3>1. Based(x, u - 4, s - 4) /\ Read(x, s - 1) = HomeOf(l)
      BY <2>1 DEF Copying
    <3>2. s \in Int /\ s - 4 + 3 = s - 1
      BY <2>1, BasesAre DEF Active
    <3> QED
      BY <2>3, <3>1, <3>2 DEF Closed, Based
  <2>6. y.pc \notin Loops \cup {Vector, IrqVector, IrqReturn}
    BY <2>5, CallersAre, PlacesAre
  <2>7. Behind(y) = Behind(x)
    BY <1>1, <2>1, <2>3, <2>6, ClosedBehind
  <2> QED
    BY <2>6, <2>7 DEF y
<1>7. CASE x.pc \in {GamePc, IsrPc}
  BY <1>7, BiosIs
<1>8. x.pc \in {IrqVector, IrqReturn, Vector, GamePc, IsrPc} \cup Loops \cup Exits
  BY RaisingAt, TaskAt DEF Active
<1> QED
  BY <1>4, <1>5, <1>6, <1>7, <1>8

LEMMA TickBehind ==
  ASSUME NEW x, Proto(x), ~Masked(x.cpsr)
  PROVE  Behind(x) = Nobody /\ Behind(Interrupted(x)) = View(x) /\ Interrupted(x).pc = IrqVector
<1>1. x \in Machine
  BY SeatsAre
<1>2. x.pc # IrqVector
  BY TickProto, PlacesAre
<1>3. PICK l \in Levels, u \in {UserTop, UserTop - 4}, s \in {SvcTop, SvcTop - 4} : Active(x, l, u, s)
  BY <1>2, RaisingAt
<1>4. Bases(l, u, s) /\ Context(x, l, u, s) /\ Task(x, l, u, s)
  BY <1>3 DEF Active
<1>5. l = "game"
  <2>1. ~Asking(x, l, u, s)
    BY DEF Asking
  <2>2. Idle(x, l, u, s) => l = "game"
    BY CallersAre DEF Idle
  <2>3. Copying(x, l, u, s) => l = "game"
    BY CallersAre DEF Copying, Masked, IrqOff
  <2> QED
    BY <1>4, <2>1, <2>2, <2>3 DEF Task
<1>6. Sp(x, "irq") = IrqTop
  BY <1>4, <1>5, CallersAre DEF Context
<1>7. Behind(x) = Nobody
  BY <1>2, <1>6 DEF Behind
<1> DEFINE y == Interrupted(x)
<1>8. Taken(x, y)
  BY <1>1, InterruptedIs
<1> HIDE DEF y
<1>9. x.pc \in Int
  BY <1>1 DEF Machine
<1>10. y.pc = IrqVector /\ y.r = x.r /\ Lr(y, "irq") - 4 = x.pc
  BY <1>8, <1>9 DEF Taken, Lr
<1>11. Behind(y) = View(x)
  BY <1>10 DEF Behind, Taking, View
<1> QED
  BY <1>7, <1>10, <1>11 DEF y

LEMMA EnterBehind ==
  ASSUME NEW x, Proto(x), x.pc = IrqVector
  PROVE  Behind(IrqEntered(x)) = Behind(x) /\ IrqEntered(x).pc = IsrPc
<1>1. x \in Machine /\ Handler(x) \in Handlers
  BY SeatsAre
<1>2. PICK g \in Ways : Raising(x, g)
  BY RaisingAt
<1>3. Handler(x) \in Int /\ Handler(x) - (Handler(x) % 4) = IsrPc
  <2> DEFINE h == Handler(x)
  <2>1. h \in 30000 .. 30003
    BY <1>1, HandlersAligned DEF IsrPc
  <2> HIDE DEF h
  <2>2. h = 30000 \/ h = 30001 \/ h = 30002 \/ h = 30003
    BY <2>1
  <2> QED
    BY <2>2 DEF IsrPc, h
<1>4. Sp(x, "irq") = 1022
  BY <1>2 DEF Raising, IrqTop
<1> DEFINE t == IrqEntered(x)  u == UBase(g)
<1>5. Wrapped(x, t)
  BY <1>1, <1>3, <1>4, IrqEnteredIs DEF IrqTop
<1> HIDE DEF t, u
<1>6. /\ t.pc = IsrPc /\ t.r[4] = x.r[4] /\ Sp(t, "irq") = 1016 /\ t.bank["irq"].spsr = x.bank["irq"].spsr
      /\ Sp(t, "usr") = Sp(x, "usr")
      /\ Read(t, 1017) = x.r[1] /\ Read(t, 1018) = x.r[2] /\ Read(t, 1019) = x.r[3] /\ Read(t, 1020) = x.r[12]
      /\ Read(t, 1021) = Lr(x, "irq")
  BY <1>3, <1>4, <1>5, NamesAre DEF Wrapped, Sp
<1>7. Sp(x, "usr") = u /\ Thread(x, g, [pc |-> Lr(x, "irq") - 4, r |-> x.r], x.bank["irq"].spsr)
  BY <1>2 DEF Raising, Based, u
<1>8. UOf(t) = u
  <2>1. g = "copy" => x.bank["irq"].spsr = System
    BY <1>7 DEF Thread
  <2>2. g # "copy" => x.bank["irq"].spsr \in {16, 48}
    BY <1>7, CallersAre DEF Thread
  <2> QED
    BY <1>6, <2>1, <2>2 DEF UOf, UBase, System, u
<1>9. R4At(t, u) = x.r[4]
  BY <1>6, <1>7 DEF R4At
<1>10. Aside(t, u) = Taking(x)
  <2>1. Read(t, IrqTop - 1) = Lr(x, "irq") /\ Read(t, IrqTop - 2) = x.r[12]
    BY <1>6 DEF IrqTop
  <2>2. \A k \in Ks : k # 4 /\ k # 12 => Read(t, IrqTop - 6 + k) = x.r[k]
    BY <1>6 DEF IrqTop, Ks
  <2> QED
    BY <1>9, <2>1, <2>2 DEF Aside, Taking
<1>11. Behind(t) = Behind(x)
  BY <1>6, <1>8, <1>10, PlacesAre DEF Behind, IrqTop
<1> QED
  BY <1>6, <1>11 DEF t

LEMMA BackBehind ==
  ASSUME NEW x, Proto(x), x.pc = IrqReturn, NEW t, Unwrapped(x, t)
  PROVE  View(t) = Behind(x) /\ Behind(t) = Nobody /\ t.pc # IrqVector /\ t.pc # IrqReturn
<1>1. x \in Machine
  BY SeatsAre
<1>2. PICK l \in Levels, u \in UTops, s \in STops : Active(x, l, u, s) /\ Idle(x, l, u, s)
  BY ActiveAt, PlacesAre
<1>3. Bases(l, u, s) /\ Context(x, l, u, s) /\ Sp(x, "usr") = u
  BY <1>2 DEF Active, Idle, Based
<1>4. l = "isr"
  BY <1>2, CallersAre, PlacesAre DEF Idle
<1>5. Sp(x, "irq") = 1016
  BY <1>3, <1>4, CallersAre DEF Context, IrqTop
<1>6. PICK g \in Ways : u = UBase(g) /\ Thread(x, g, Saved(x, u), x.bank["irq"].spsr)
  BY <1>3, <1>4, CallersAre DEF Context
<1>7. UOf(x) = u
  BY <1>1, <1>3, <1>5, UOfIs DEF IrqTop
<1>8. /\ t.pc = Read(x, 1021) - 4 /\ t.r[1] = Read(x, 1017) /\ t.r[2] = Read(x, 1018) /\ t.r[3] = Read(x, 1019)
      /\ t.r[4] = x.r[4] /\ t.r[12] = Read(x, 1020) /\ Sp(t, "irq") = 1022
  BY <1>5 DEF Unwrapped, Sp
<1>9. t.pc = GamePc \/ t.pc \in Loops \cup Exits
  <2> DEFINE w == Saved(x, u)
  <2>1. w.pc = t.pc
    BY <1>8 DEF Saved, IrqTop
  <2> HIDE DEF w
  <2>2. g = "copy" => t.pc \in Loops \cup Exits
    BY <1>6, <2>1, PlacesAre DEF Thread, Looping, w
  <2> QED
    BY <1>6, <2>1, <2>2 DEF Thread, w
<1>10. t.pc # IrqVector /\ t.pc # IrqReturn
  BY <1>9, PlacesAre
<1>11. Aside(x, u) = View(t)
  <2>1. R4At(x, u) = t.r[4]
    BY <1>3, <1>8 DEF R4At
  <2>2. \A k \in Ks : k # 4 /\ k # 12 => Read(x, IrqTop - 6 + k) = t.r[k]
    BY <1>8 DEF IrqTop, Ks
  <2> QED
    BY <1>8, <2>1, <2>2 DEF Aside, View, IrqTop
<1>12. Behind(x) = View(t)
  BY <1>5, <1>7, <1>11, PlacesAre DEF Behind, IrqTop
<1>13. Behind(t) = Nobody
  BY <1>8, <1>10 DEF Behind, IrqTop
<1> QED
  BY <1>10, <1>12, <1>13

LEMMA SwiBehind ==
  ASSUME NEW x, Proto(x), x.pc \in {GamePc, IsrPc}, NEW c \in AllCalls, NEW thumb \in BOOLEAN
  PROVE  Behind(Swi(x, c, thumb)) = Behind(x) /\ Swi(x, c, thumb).pc = Vector
<1> DEFINE t == Swi(x, c, thumb)
<1>1. x \in Machine
  BY SeatsAre
<1>2. PICK l \in Levels, u \in UTops, s \in STops :
        Active(x, l, u, s) /\ x.cpsr \in Callers(l) /\ Based(x, u, s)
  BY HomeIs
<1>3. CallerOf(x, thumb) \in Int /\ SvcOf(CallerOf(x, thumb)) \in Int
  BY <1>2, CallerIs
<1>4. Calling(x, c, thumb, t)
  BY <1>1, <1>3, SwiIs
<1> HIDE DEF t
<1>5. t \in Machine /\ t.pc = Vector /\ t.mem = x.mem /\ t.bank["irq"] = x.bank["irq"] /\ t.bank["usr"] = x.bank["usr"]
  BY <1>4 DEF Calling
<1>6. t.r[4] = x.r[4]
  <2>1. x.r \in [Regs -> Int]
    BY <1>1 DEF Machine
  <2>2. t.r = [[[[[x.r EXCEPT ![0] = c.r0] EXCEPT ![1] = c.r1] EXCEPT ![2] = c.r2] EXCEPT ![3] = 103] EXCEPT ![12] = 112]
    BY <1>4 DEF Calling
  <2> QED
    BY <2>1, <2>2, NamesAre
<1>7. \A a : Read(t, a) = Read(x, a)
  BY <1>5 DEF Read
<1>8. x.pc # IrqVector /\ t.pc # IrqVector
  BY <1>5, PlacesAre
<1>9. Behind(t) = Behind(x)
  BY <1>1, <1>2, <1>5, <1>6, <1>7, <1>8, LevelBehind
<1> QED
  BY <1>5, <1>9 DEF t

LEMMA WriteBehind ==
  ASSUME NEW x, Proto(x), x.pc = IsrPc, NEW a \in IsrWrites
  PROVE  Behind(Write(x, a, 7)) = Behind(x) /\ View(Write(x, a, 7)) = View(x)
<1> DEFINE v == 7  t == Write(x, a, v)
<1>1. x \in Machine
  BY SeatsAre
<1>2. PICK l \in Levels, u \in UTops, s \in STops : Active(x, l, u, s) /\ Based(x, u, s)
  BY HomeIs
<1>3. a \in DOMAIN Host /\ \A b \in Stacks : Host[a] # Host[b] /\ b \in DOMAIN Host
  BY WritesOffStacks, StacksAre
<1>4. v \in Int
  OBVIOUS
<1> HIDE DEF v
<1>5. Besides(x, t)
  BY <1>1, <1>3, <1>4, WriteOff
<1> HIDE DEF t
<1>6. t \in Machine /\ t.pc = x.pc /\ t.bank = x.bank /\ t.r = x.r /\ \A b \in Stacks : Read(t, b) = Read(x, b)
  BY <1>5 DEF Besides
<1>7. x.pc # IrqVector
  BY PlacesAre
<1>8. Behind(t) = Behind(x)
  BY <1>1, <1>2, <1>6, <1>7, LevelBehind
<1>9. View(t) = View(x)
  BY <1>6 DEF View
<1> QED
  BY <1>8, <1>9 DEF t, v

LEMMA EndBehind ==
  ASSUME NEW x, Proto(x), x.pc = IsrPc
  PROVE  Behind(At(x, IrqReturn)) = Behind(x) /\ At(x, IrqReturn).pc = IrqReturn
<1> DEFINE t == At(x, IrqReturn)
<1>1. x \in Machine /\ IrqReturn \in Int
  BY SeatsAre DEF IrqReturn
<1>2. PICK l \in Levels, u \in UTops, s \in STops : Active(x, l, u, s) /\ Based(x, u, s)
  BY HomeIs
<1>3. t \in Machine /\ t.pc = IrqReturn /\ t.bank = x.bank /\ t.mem = x.mem /\ t.r = x.r
  BY <1>1, AtIs
<1> HIDE DEF t
<1>4. \A b : Read(t, b) = Read(x, b)
  BY <1>3 DEF Read
<1>5. x.pc # IrqVector /\ t.pc # IrqVector
  BY <1>3, PlacesAre
<1>6. Behind(t) = Behind(x)
  BY <1>1, <1>2, <1>3, <1>4, <1>5, LevelBehind
<1> QED
  BY <1>3, <1>6 DEF t

LEMMA EndedBehind ==
  ASSUME NEW x, Proto(x), x.pc = Vector, NEW c, NEW t, Ended(x, c, t)
  PROVE  Behind(t) = Behind(x) /\ t.pc \in {GamePc, IsrPc}
<1>1. x \in Machine
  BY SeatsAre
<1>2. PICK l \in Levels, u \in UTops, s \in STops : Active(x, l, u, s) /\ Asking(x, l, u, s)
  BY ActiveAt, PlacesAre
<1>3. Based(x, u, s) /\ Lr(x, "svc") = HomeOf(l)
  BY <1>2 DEF Asking
<1>4. t \in Machine /\ t.bank = x.bank /\ t.pc \in {GamePc, IsrPc}
  BY <1>3 DEF Ended, HomeOf
<1>5. t.r[4] = x.r[4]
  <2>1. x.r \in [Regs -> Int] /\ t.r = [[x.r EXCEPT ![0] = R0After(x, c)] EXCEPT ![1] = R1After(c)]
    BY <1>1 DEF Ended, Machine
  <2> QED
    BY <2>1, NamesAre
<1>6. x.pc # IrqVector /\ t.pc # IrqVector
  BY <1>4, PlacesAre
<1>7. \A a \in Stacks : a \notin Free(x) => Read(t, a) = Read(x, a)
  BY DEF Ended
<1>8. Behind(t) = Behind(x)
  BY <1>1, <1>2, <1>3, <1>4, <1>5, <1>6, <1>7, LevelBehind
<1> QED
  BY <1>4, <1>8

-----------------------------------------------------------------------------
(* The account of machine y: what m was charged less than it by, with the   *)
(* fetches p and s that the engine has charged ahead for the call of the    *)
(* running thread and of the one put aside.                                 *)
Due(z) == IF Open(z) THEN Fetch ELSE 0
Bal(y, p, s, k, n) ==
  /\ p \in {0, Fetch} /\ s \in {0, Fetch}
  /\ 0 <= k + p + s /\ k + p + s + Due(View(y)) + Due(Behind(y)) <= n
  /\ p # 0 => Engaged(View(y))
  /\ s # 0 => Engaged(Behind(y))

LEMMA DueType ==
  ASSUME NEW z
  PROVE  /\ Due(z) \in Int /\ 0 <= Due(z) /\ Due(z) <= Fetch
         /\ z.pc \notin Loops \cup {Vector} => Due(z) = 0
         /\ z.pc \in Loops \cup {Vector} => Due(z) = Fetch
         /\ Engaged(z) => z.pc \in Loops
BY CostsAre DEF Due, Open, Engaged, Loops

LEMMA NobodyIs ==
  Due(Nobody) = 0 /\ ~Engaged(Nobody)
<1>1. Nobody.pc = GamePc
  BY DEF Nobody
<1> QED
  BY <1>1, DueType, PlacesAre

\* A step of the running thread.
LEMMA BalMove ==
  ASSUME NEW y, NEW t, NEW p, NEW s, NEW k \in Int, NEW n \in Int, Bal(y, p, s, k, n), Behind(t) = Behind(y),
         NEW p2 \in {0, Fetch}, NEW k2 \in Int, k + p <= k2 + p2,
         k2 + p2 + Due(View(t)) <= k + p + Due(View(y)), p2 # 0 => Engaged(View(t))
  PROVE  Bal(t, p2, s, k2, n)
<1>1. Fetch \in Int /\ p \in Int /\ s \in Int /\ p2 \in Int
  BY CostsAre DEF Bal
<1>2. Due(View(t)) \in Int /\ Due(View(y)) \in Int /\ Due(Behind(y)) \in Int
  BY DueType
<1> DEFINE a == Due(View(t))  b == Due(View(y))  d == Due(Behind(y))
<1>3. 0 <= k + p + s /\ k + p + s + b + d <= n /\ k2 + p2 + a <= k + p + b
  BY DEF Bal
<1> HIDE DEF a, b, d
<1>4. 0 <= k2 + p2 + s /\ k2 + p2 + s + a + d <= n
  BY <1>1, <1>2, <1>3 DEF a, b, d
<1>5. k2 + p2 + s + Due(View(t)) + Due(Behind(t)) <= n
  BY <1>4 DEF a, d
<1> QED
  BY <1>4, <1>5 DEF Bal

\* An interrupt puts the thread aside.
LEMMA BalTick ==
  ASSUME NEW x, Proto(x), ~Masked(x.cpsr), NEW p, NEW s, NEW k \in Int, NEW n, Bal(x, p, s, k, n)
  PROVE  Bal(Interrupted(x), 0, p, k, n)
<1> DEFINE t == Interrupted(x)
<1>1. Behind(x) = Nobody /\ Behind(t) = View(x) /\ t.pc = IrqVector
  BY TickBehind
<1> HIDE DEF t
<1>2. s = 0
  BY <1>1, NobodyIs DEF Bal
<1>3. View(t).pc = IrqVector
  BY <1>1 DEF View
<1>4. Due(View(t)) = 0 /\ Due(Behind(x)) = 0 /\ Due(View(x)) \in Int
  BY <1>1, <1>3, DueType, NobodyIs, PlacesAre
<1>5. p \in Int
  BY CostsAre DEF Bal
<1> DEFINE a == Due(View(x))
<1>6. 0 <= k + p + 0 /\ k + p + 0 + a + 0 <= n
  BY <1>2, <1>4 DEF Bal
<1>7. 0 <= k + 0 + p /\ k + 0 + p + 0 + a <= n
  <2> HIDE DEF a
  <2>1. k + p + 0 + a + 0 = k + 0 + p + 0 + a /\ k + p + 0 = k + 0 + p
    BY <1>4, <1>5 DEF a
  <2> QED
    BY <1>6, <2>1
<1>8. p \in {0, Fetch} /\ (p # 0 => Engaged(View(x)))
  BY DEF Bal
<1>9. Bal(t, 0, p, k, n)
  BY <1>1, <1>4, <1>7, <1>8 DEF Bal
<1> QED
  BY <1>9 DEF t

\* The wrapper enters the handler, and returns from it.
LEMMA BalEnter ==
  ASSUME NEW x, Proto(x), x.pc = IrqVector, NEW p, NEW s, NEW k \in Int, NEW n \in Int, Bal(x, p, s, k, n)
  PROVE  p = 0 /\ Bal(IrqEntered(x), 0, s, k, n)
<1> DEFINE t == IrqEntered(x)
<1>1. Behind(t) = Behind(x) /\ t.pc = IsrPc
  BY EnterBehind
<1> HIDE DEF t
<1>2. View(t).pc = IsrPc /\ View(x).pc = IrqVector
  BY <1>1 DEF View
<1>3. Due(View(t)) = 0 /\ Due(View(x)) = 0 /\ ~Engaged(View(x))
  BY <1>2, DueType, PlacesAre
<1>4. p = 0
  BY <1>3 DEF Bal
<1>5. Bal(t, 0, s, k, n)
  BY <1>1, <1>3, <1>4, BalMove
<1> QED
  BY <1>4, <1>5 DEF t

LEMMA BalBack ==
  ASSUME NEW x, Proto(x), x.pc = IrqReturn, NEW t, Unwrapped(x, t),
         NEW p, NEW s, NEW k \in Int, NEW n, Bal(x, p, s, k, n)
  PROVE  p = 0 /\ Bal(t, s, 0, k, n)
<1>1. View(t) = Behind(x) /\ Behind(t) = Nobody
  BY BackBehind
<1>2. View(x).pc = IrqReturn
  BY DEF View
<1>3. Due(View(x)) = 0 /\ ~Engaged(View(x)) /\ Due(Behind(t)) = 0 /\ Due(Behind(x)) \in Int
  BY <1>1, <1>2, DueType, PlacesAre, NobodyIs
<1>4. p = 0
  BY <1>3 DEF Bal
<1>5. s \in Int
  BY CostsAre DEF Bal
<1> DEFINE a == Due(Behind(x))
<1>6. 0 <= k + 0 + s /\ k + 0 + s + 0 + a <= n
  BY <1>3, <1>4 DEF Bal
<1>7. 0 <= k + s + 0 /\ k + s + 0 + a + 0 <= n
  <2> HIDE DEF a
  <2>1. k + 0 + s + 0 + a = k + s + 0 + a + 0 /\ k + 0 + s = k + s + 0
    BY <1>3, <1>5 DEF a
  <2> QED
    BY <1>6, <2>1
<1>8. s \in {0, Fetch} /\ (s # 0 => Engaged(Behind(x)))
  BY DEF Bal
<1>9. Bal(t, s, 0, k, n)
  BY <1>1, <1>3, <1>7, <1>8 DEF Bal
<1> QED
  BY <1>4, <1>9

-----------------------------------------------------------------------------
(* The account of the system.                                               *)

\* The engine's exit is cheaper by the branch its last round did not take.
Leaving(a, x) == IF a = "engine" /\ Left(x) <= 0 /\ x.pc \in {FastFill, HalfCopy} THEN Branch ELSE 0
Account(a, y, k, n) ==
  /\ y.pc = IrqReturn => a = "jit"
  /\ \E p, s \in {0, Fetch} : (p # 0 => a \notin {"bios", "midframe"}) /\ Bal(y, p, s, k, n)
Owed == lag - unpaid + Leaving(at, m)
Paid == calls * Fetch
Accounts == lag \in Int /\ unpaid \in Int /\ calls \in Nat /\ Account(at, ref, Owed, Paid)
PInv == IInv /\ Accounts

LEMMA LeavingIs ==
  ASSUME NEW a, NEW x
  PROVE  /\ Leaving(a, x) \in Int
         /\ a # "engine" => Leaving(a, x) = 0
         /\ x.pc \notin {FastFill, HalfCopy} => Leaving(a, x) = 0
         /\ x \in Machine /\ x.pc \in Tops /\ Left(x) > 0 => Leaving(a, x) = 0
<1>1. Branch \in Int
  BY CostsAre
<1>2. x \in Machine /\ x.pc \in Tops => Left(x) \in Int
  BY TopsIs, AtType
<1> QED
  BY <1>1, <1>2 DEF Leaving

LEMMA OwedIs ==
  ASSUME Accounts
  PROVE  /\ Owed \in Int /\ Paid \in Int /\ lag \in Int /\ unpaid \in Int /\ calls \in Nat
         /\ at # "engine" => Owed = lag - unpaid
<1>1. lag \in Int /\ unpaid \in Int /\ calls \in Nat
  BY DEF Accounts
<1>2. Fetch \in Int
  BY CostsAre
<1> DEFINE v == Leaving(at, m)
<1>3. v \in Int /\ (at # "engine" => v = 0)
  BY LeavingIs
<1>4. Owed = lag - unpaid + v
  BY DEF Owed
<1> HIDE DEF v
<1>5. Owed \in Int /\ (at # "engine" => Owed = lag - unpaid)
  BY <1>1, <1>3, <1>4
<1>6. Paid \in Int
  BY <1>1, <1>2 DEF Paid
<1> QED
  BY <1>1, <1>5, <1>6

\* What the account must still show when nothing is charged.
LEMMA Uncharged ==
  ASSUME Accounts, lag' = lag, unpaid' = unpaid, calls' = calls, Leaving(at, m) = Leaving(at', m'),
         Account(at', ref', Owed, Paid)
  PROVE  Accounts'
<1>1. Owed' = Owed
  BY DEF Owed
<1>2. Paid' = Paid
  BY DEF Paid
<1> QED
  BY <1>1, <1>2 DEF Accounts

LEMMA IdlePriced ==
  ASSUME PInv, Resume \/ Interpret \/ NextFrame \/ SlowAccess \/ \E b \in Code : RunCode(b)
  PROVE  Accounts'
<1>1. m' = m /\ ref' = ref /\ at # "engine" /\ lag' = lag /\ unpaid' = unpaid /\ calls' = calls
  BY DEF Resume, Interpret, NextFrame, SlowAccess, RunCode
<1>2. Same(m, ref) /\ Proto(ref) /\ m \in Machine /\ m.pc = ref.pc /\ m.r = ref.r
  BY <1>1, AwayIs DEF PInv, IInv, Same
<1>3. PICK p, s \in {0, Fetch} : (p # 0 => at \notin {"bios", "midframe"}) /\ Bal(ref, p, s, Owed, Paid)
  BY DEF PInv, Accounts, Account
<1>4. ref.pc = IrqReturn => at = "jit"
  BY DEF PInv, Accounts, Account
<1>5. CASE Resume
  <2>1. at' = "engine" /\ m.pc \in Tops /\ Left(m) > 0
    BY <1>5 DEF Resume, Canonical
  <2>2. Leaving(at', m') = 0 /\ Leaving(at, m) = 0
    BY <1>1, <1>2, <2>1, LeavingIs
  <2>3. ref.pc # IrqReturn
    BY <1>2, <2>1, PlacesAre
  <2>4. Account(at', ref', Owed, Paid)
    BY <1>1, <1>3, <2>1, <2>3 DEF Account
  <2> QED
    BY <1>1, <2>2, <2>4, Uncharged DEF PInv
<1>6. CASE Interpret
  <2>1. at' = "bios" /\ at = "jit"
    BY <1>6 DEF Interpret
  <2>2. ~(m.pc \in Tops /\ Canonical(m)) /\ m.pc # IrqReturn
    <3>1. m.pc \in Tops => m.pc # Vector /\ m.pc # IrqVector /\ m.pc # IrqReturn
      BY PlacesAre
    <3>2. IrqReturn # Vector /\ IrqReturn # IrqVector /\ IrqReturn \notin Tops
      BY PlacesAre
    <3> DEFINE A == LET p2 == Predict(m) IN ~(Fits(p2) /\ Applies(m)) /\ ~Oversized(p2)  B == Canonical(m)  C == EntersIrq(m)
    <3>4. (CASE m.pc = Vector -> A [] m.pc \in Tops -> ~B [] m.pc = IrqVector -> ~C [] m.pc = IrqReturn -> FALSE [] OTHER -> TRUE)
      BY <1>6, Zenon DEF Interpret
    <3> HIDE DEF A, B, C
    <3>5. ~(m.pc \in Tops /\ B) /\ m.pc # IrqReturn
      BY <3>1, <3>2, <3>4
    <3> QED
      BY <3>5 DEF B
  <2>3. p = 0
    <3> SUFFICES ASSUME p # 0 PROVE FALSE
      OBVIOUS
    <3>1. Engaged(View(ref))
      BY <1>3 DEF Bal
    <3>2. PICK c \in AllCalls, q \in Nat :
            ref.pc \in {WordCopy, FastCopy} /\ ref.r[12] = Limit /\ ref.pc = TopOf(c) /\ Within(c, q, ref)
      BY <3>1, EngagedIs
    <3>3. m.pc \in Tops /\ m.pc \in {WordCopy, FastCopy} /\ m.r[12] = Limit
      BY <1>2, <3>2 DEF Tops
    <3>4. ref.pc \in Loops
      BY <1>2, <3>3, TopsIs
    <3>5. LeftAt(ref) \in Int /\ LeftAt(ref) > 0
      <4>1. ref \in Machine
        BY <1>2, SeatsAre
      <4>2. LeftAt(ref) \in Int
        BY <3>4, <4>1, AtType
      <4>3. q * UnitOf(c) < Count(c.r2) /\ LeftAt(ref) = Count(c.r2) - q * UnitOf(c)
        BY <3>2 DEF Within
      <4>4. q * UnitOf(c) \in Int /\ Count(c.r2) \in Int
        BY <3>2, UnitsAre, CallIs
      <4> QED
        BY <4>2, <4>3, <4>4
    <3>6. LeftAt(ref) = LeftAt(m)
      BY <1>2, Zenon DEF LeftAt
    <3>7. Left(m) > 0
      BY <3>3, <3>5, <3>6, TopsIs
    <3>8. Canonical(m)
      <4>1. m.pc # FastFill /\ m.pc # HalfCopy
        BY <3>3, TopsApart
      <4> QED
        BY <3>3, <3>7, <4>1, Zenon DEF Canonical
    <3> QED
      BY <2>2, <3>3, <3>8
  <2>4. Account(at', ref', Owed, Paid)
    BY <1>1, <1>2, <1>3, <2>2, <2>3 DEF Account
  <2> QED
    BY <1>1, <2>1, <2>4, LeavingIs, Uncharged DEF PInv
<1>7. CASE NextFrame
  <2>1. at \in {"frame", "midframe", "short"} /\ at' \in {"bios", "jit"} /\ (at' = "bios" => at = "midframe")
    BY <1>7 DEF NextFrame
  <2>2. ref.pc # IrqReturn
    BY <1>4, <2>1
  <2>3. p # 0 => at' \notin {"bios", "midframe"}
    BY <1>3, <2>1
  <2>4. Account(at', ref', Owed, Paid)
    BY <1>1, <1>3, <2>2, <2>3 DEF Account
  <2> QED
    BY <1>1, <2>1, <2>4, LeavingIs, Uncharged DEF PInv
<1>8. CASE SlowAccess \/ \E b \in Code : RunCode(b)
  <2>1. at' = at
    BY <1>8 DEF SlowAccess, RunCode
  <2>2. Account(at', ref', Owed, Paid)
    BY <1>1, <2>1 DEF PInv, Accounts
  <2> QED
    BY <1>1, <2>1, <2>2, Uncharged DEF PInv
<1> QED
  BY <1>5, <1>6, <1>7, <1>8

\* The end of a slice, with an interrupt or without one.
LEMMA TickBal ==
  ASSUME NEW x, Proto(x), NEW irq, NEW p, NEW s, NEW k \in Int, NEW n, Bal(x, p, s, k, n)
  PROVE  /\ \E p2, s2 \in {0, Fetch} : (p2 # 0 => p # 0) /\ Bal(Ticked(x, irq), p2, s2, k, n)
         /\ Ticked(x, irq).pc \in {x.pc, IrqVector}
<1>1. p \in {0, Fetch} /\ s \in {0, Fetch}
  BY DEF Bal
<1>2. CASE (pending \/ irq) /\ ~Masked(x.cpsr)
  <2>1. Ticked(x, irq) = Interrupted(x)
    BY <1>2 DEF Ticked
  <2>2. Bal(Interrupted(x), 0, p, k, n) /\ Interrupted(x).pc = IrqVector
    BY <1>2, BalTick, TickBehind
  <2> QED
    BY <1>1, <2>1, <2>2
<1>3. CASE ~((pending \/ irq) /\ ~Masked(x.cpsr))
  <2>1. Ticked(x, irq) = x
    BY <1>3 DEF Ticked
  <2> QED
    BY <1>1, <2>1
<1> QED
  BY <1>2, <1>3

LEMMA TickedPriced ==
  ASSUME PInv, NEW irq, at # "engine", at' # "engine", ref' = Ticked(ref, irq), ref.pc # IrqReturn,
         at' \in {"bios", "midframe"} => at = "bios", lag' = lag, unpaid' = unpaid, calls' = calls
  PROVE  Accounts'
<1>1. Proto(ref)
  BY AwayIs DEF PInv, IInv
<1>2. PICK p, s \in {0, Fetch} : (p # 0 => at \notin {"bios", "midframe"}) /\ Bal(ref, p, s, Owed, Paid)
  BY DEF PInv, Accounts, Account
<1>3. Owed \in Int
  BY OwedIs DEF PInv
<1>4. PICK p2, s2 \in {0, Fetch} : (p2 # 0 => p # 0) /\ Bal(Ticked(ref, irq), p2, s2, Owed, Paid)
  BY <1>1, <1>2, <1>3, TickBal
<1>5. Ticked(ref, irq).pc \in {ref.pc, IrqVector}
  BY <1>1, <1>2, <1>3, TickBal
<1>6. ref'.pc # IrqReturn
  BY <1>5, PlacesAre
<1>7. Account(at', ref', Owed, Paid)
  BY <1>2, <1>4, <1>6 DEF Account
<1> QED
  BY <1>7, LeavingIs, Uncharged DEF PInv

LEMMA EventsPriced ==
  ASSUME PInv, NEW irq \in BOOLEAN, NEW frame \in BOOLEAN,
         SliceOver(irq, frame) \/ InterpretEvent(irq, frame) \/ Return(irq, frame)
  PROVE  Accounts'
<1>1. ref.pc = IrqReturn => at = "jit"
  BY DEF PInv, Accounts, Account
<1>2. lag' = lag /\ unpaid' = unpaid /\ calls' = calls
  BY DEF SliceOver, InterpretEvent, Return
<1>3. CASE SliceOver(irq, frame)
  <2>1. at = "jit" /\ InGame(m) /\ ref' = Ticked(ref, irq) /\ at' \in {"frame", "jit"}
    BY <1>3 DEF SliceOver
  <2>2. m.pc = ref.pc
    BY <2>1, AwayIs DEF PInv, IInv
  <2>3. ref.pc # IrqReturn
    BY <2>1, <2>2 DEF InGame, BiosEnd, IrqReturn
  <2> QED
    BY <1>2, <2>1, <2>3, TickedPriced
<1>4. CASE InterpretEvent(irq, frame)
  <2>1. at = "bios" /\ ref' = Ticked(ref, irq) /\ at' # "engine"
    BY <1>4 DEF InterpretEvent
  <2> QED
    BY <1>1, <1>2, <2>1, TickedPriced
<1>5. CASE Return(irq, frame)
  <2>1. at = "leave"
    BY <1>5 DEF Return
  <2>2. CASE budget > 0
    <3>1. at' = "jit" /\ m' = m /\ ref' = ref
      BY <1>5, <2>2 DEF Return
    <3>2. Account(at', ref', Owed, Paid)
      BY <1>1, <2>1, <3>1 DEF PInv, Accounts, Account
    <3> QED
      BY <1>2, <2>1, <3>1, <3>2, LeavingIs, Uncharged DEF PInv
  <2>3. CASE ~(budget > 0)
    <3>1. ref' = Ticked(ref, irq) /\ at' \in {"frame", "jit"}
      BY <1>5, <2>3 DEF Return
    <3> QED
      BY <1>1, <1>2, <2>1, <3>1, TickedPriced
  <2> QED
    BY <2>2, <2>3
<1> QED
  BY <1>3, <1>4, <1>5

\* A call is due one fetch until it is over.
LEMMA GameSwiPriced ==
  ASSUME PInv, NEW c \in AllCalls, NEW thumb \in BOOLEAN, GameSwi(c, thumb)
  PROVE  Accounts'
<1> DEFINE t == Swi(ref, c, thumb)
<1>1. /\ at = "jit" /\ m.pc \in {GamePc, IsrPc} /\ ref' = t /\ at' = at /\ calls' = calls + 1
      /\ lag' = lag /\ unpaid' = unpaid
  BY DEF GameSwi
<1>2. Proto(ref) /\ ref.pc \in {GamePc, IsrPc}
  BY <1>1, AwayIs DEF PInv, IInv
<1>3. Behind(t) = Behind(ref) /\ t.pc = Vector
  BY <1>2, SwiBehind
<1> HIDE DEF t
<1>4. PICK p, s \in {0, Fetch} : Bal(ref, p, s, Owed, Paid)
  BY DEF PInv, Accounts, Account
<1>5. Owed \in Int /\ Paid \in Int /\ lag \in Int /\ unpaid \in Int /\ calls \in Nat /\ Owed = lag - unpaid
  BY <1>1, OwedIs DEF PInv
<1>6. Fetch \in Nat
  BY CostsAre
<1>7. Due(View(t)) = Fetch /\ Due(View(ref)) = 0 /\ ~Engaged(View(ref)) /\ Due(Behind(ref)) \in Int
  <2>1. View(t).pc = Vector /\ View(ref).pc = ref.pc
    BY <1>3 DEF View
  <2> QED
    BY <1>2, <2>1, DueType, PlacesAre
<1>8. p = 0
  BY <1>4, <1>7 DEF Bal
<1> DEFINE d == Due(Behind(ref))
<1>9. 0 <= Owed + 0 + s /\ Owed + 0 + s + 0 + d <= Paid /\ s \in Int
  BY <1>4, <1>6, <1>7, <1>8 DEF Bal
<1>10. 0 <= Owed + 0 + s /\ Owed + 0 + s + Fetch + d <= Paid + Fetch
  <2>1. d \in Int
    BY <1>7
  <2> HIDE DEF d
  <2> QED
    BY <1>5, <1>6, <1>9, <2>1
<1>11. Bal(t, 0, s, Owed, Paid + Fetch)
  BY <1>3, <1>4, <1>7, <1>8, <1>10 DEF Bal
<1>12. Owed' = Owed
  BY <1>1, <1>5, LeavingIs DEF Owed
<1>13. Paid' = Paid + Fetch
  <2>1. (calls + 1) * Fetch = calls * Fetch + Fetch
    BY <1>5, <1>6
  <2> QED
    BY <1>1, <2>1 DEF Paid
<1>14. t.pc # IrqReturn
  BY <1>3, PlacesAre
<1>15. Account(at', ref', Owed, Paid + Fetch)
  BY <1>1, <1>4, <1>11, <1>14 DEF Account
<1> QED
  BY <1>1, <1>5, <1>12, <1>13, <1>15 DEF Accounts

\* The interrupt handler's own steps.
LEMMA IsrWritePriced ==
  ASSUME PInv, NEW a \in IsrWrites, IsrWrite(a)
  PROVE  Accounts'
<1> DEFINE t == Write(ref, a, 7)
<1>1. at = "jit" /\ m.pc = IsrPc /\ ref' = t /\ at' = at /\ calls' = calls /\ lag' = lag /\ unpaid' = unpaid
  BY DEF IsrWrite
<1>2. Proto(ref) /\ ref.pc = IsrPc
  BY <1>1, AwayIs DEF PInv, IInv
<1>3. Behind(t) = Behind(ref) /\ View(t) = View(ref)
  BY <1>2, WriteBehind
<1> HIDE DEF t
<1>4. PICK p, s \in {0, Fetch} : Bal(ref, p, s, Owed, Paid)
  BY DEF PInv, Accounts, Account
<1>5. Bal(t, p, s, Owed, Paid)
  BY <1>3, <1>4 DEF Bal
<1>6. Account(at', ref', Owed, Paid)
  BY <1>1, <1>4, <1>5 DEF Account
<1> QED
  BY <1>1, <1>6, LeavingIs, Uncharged DEF PInv

LEMMA IsrEndPriced ==
  ASSUME PInv, NEW another \in BOOLEAN, IsrEnd(another)
  PROVE  Accounts'
<1> DEFINE t == At(ref, IrqReturn)
<1>1. at = "jit" /\ m.pc = IsrPc /\ ref' = t /\ at' = at /\ calls' = calls /\ lag' = lag /\ unpaid' = unpaid
  BY DEF IsrEnd, At
<1>2. Proto(ref) /\ ref.pc = IsrPc
  BY <1>1, AwayIs DEF PInv, IInv
<1>3. Behind(t) = Behind(ref) /\ t.pc = IrqReturn
  BY <1>2, EndBehind
<1> HIDE DEF t
<1>4. PICK p, s \in {0, Fetch} : Bal(ref, p, s, Owed, Paid)
  BY DEF PInv, Accounts, Account
<1>5. Due(View(t)) = 0 /\ Due(View(ref)) = 0 /\ ~Engaged(View(ref))
  <2>1. View(t).pc = IrqReturn /\ View(ref).pc = IsrPc
    BY <1>2, <1>3 DEF View
  <2> QED
    BY <2>1, DueType, PlacesAre
<1>6. p = 0
  BY <1>4, <1>5 DEF Bal
<1>7. Bal(t, 0, s, Owed, Paid)
  BY <1>3, <1>4, <1>5, <1>6 DEF Bal
<1>8. Account(at', ref', Owed, Paid)
  BY <1>1, <1>4, <1>7 DEF Account
<1> QED
  BY <1>1, <1>8, LeavingIs, Uncharged DEF PInv

\* The wrapper's return, to what it interrupted or to the next interrupt.
LEMMA LeftBal ==
  ASSUME NEW x, Proto(x), x.pc = IrqReturn, NEW w, NEW p, NEW s, NEW k \in Int, NEW n, Bal(x, p, s, k, n)
  PROVE  /\ BiosStep(x, w).x.pc # IrqReturn
         /\ \E p2, s2 \in {0, Fetch} :
              (BiosStep(x, w).x.pc = IrqVector => p2 = 0) /\ Bal(BiosStep(x, w).x, p2, s2, k, n)
<1> DEFINE b == IrqBack(Relinked(Popped(x, "irq", <<0, 1, 2, 3, 12>>), "irq"))  y == BiosStep(x, w).x
<1>1. Sp(x, "irq") = IrqTop - 6 /\ x \in Machine /\ \A t : Unwrapped(x, t) => Proto(t)
  BY ReturnStep, SeatsAre
<1>2. Unwrapped(x, b)
  BY <1>1, IrqBackIs
<1>3. y = Unmasked(b, w)
  BY BiosIs DEF IrqLeft
<1> HIDE DEF b, y
<1>4. Proto(b) /\ b.pc # IrqVector /\ b.pc # IrqReturn
  BY <1>1, <1>2, BackBehind
<1>5. Bal(b, s, 0, k, n) /\ s \in {0, Fetch}
  <2>1. Bal(b, s, 0, k, n)
    BY <1>2, BalBack
  <2> QED
    BY <2>1 DEF Bal
<1>6. CASE w /\ ~Masked(b.cpsr)
  <2>1. y = Interrupted(b)
    BY <1>3, <1>6 DEF Unmasked
  <2>2. Bal(Interrupted(b), 0, s, k, n) /\ Interrupted(b).pc = IrqVector
    BY <1>4, <1>5, <1>6, BalTick, TickBehind
  <2> QED
    BY <1>5, <2>1, <2>2, PlacesAre DEF y
<1>7. CASE ~(w /\ ~Masked(b.cpsr))
  <2>1. y = b
    BY <1>3, <1>7 DEF Unmasked
  <2> QED
    BY <1>4, <1>5, <2>1 DEF y
<1> QED
  BY <1>6, <1>7

LEMMA EnterIrqPriced ==
  ASSUME CallsClean, PInv, EnterIrq
  PROVE  Accounts'
<1>1. /\ at = "jit" /\ m.pc = IrqVector /\ EntersIrq(m) /\ ref' = RefSteps(1).x /\ lag' = lag + RefSteps(1).cost - 0
      /\ at' = at /\ unpaid' = unpaid /\ calls' = calls
  BY DEF EnterIrq, RefRuns
<1>2. Same(m, ref) /\ Proto(m) /\ Proto(ref) /\ ref.pc = IrqVector
  BY <1>1, AwayIs DEF PInv, IInv
<1>3. BiosStep(ref, pending).x = IrqEntered(ref) /\ BiosStep(ref, pending).cost = 0
  BY <1>2, BiosIs, BiosCost
<1>4. RefSteps(1).cost = 0 /\ ref' = IrqEntered(ref)
  BY <1>1, <1>3, RefStepsOne, RefCostOne
<1>5. PICK p, s \in {0, Fetch} : Bal(ref, p, s, Owed, Paid)
  BY DEF PInv, Accounts, Account
<1>6. Owed \in Int /\ Paid \in Int /\ lag \in Int
  BY OwedIs DEF PInv
<1>7. Bal(IrqEntered(ref), 0, s, Owed, Paid) /\ IrqEntered(ref).pc = IsrPc
  BY <1>2, <1>5, <1>6, BalEnter, EnterBehind
<1>8. Account(at', ref', Owed, Paid)
  BY <1>1, <1>4, <1>5, <1>7 DEF Account
<1>9. lag' = lag
  BY <1>1, <1>4, <1>6
<1> QED
  BY <1>1, <1>8, <1>9, LeavingIs, Uncharged DEF PInv

LEMMA LeaveIrqPriced ==
  ASSUME CallsClean, PInv, LeaveIrq
  PROVE  Accounts'
<1> DEFINE x == IrqExit(m, pending)  y == BiosStep(ref, pending).x
<1>1. /\ at = "jit" /\ m.pc = IrqReturn /\ at' \in {"jit", "bios"} /\ unpaid' = unpaid /\ calls' = calls
      /\ at' = "bios" => x.pc = IrqVector
      /\ x.pc = IrqVector /\ EntersIrq(x) => at' = "jit" /\ ref' = RefSteps(2).x /\ lag' = lag + RefSteps(2).cost - 0
      /\ ~(x.pc = IrqVector /\ EntersIrq(x)) => ref' = RefSteps(1).x /\ lag' = lag + RefSteps(1).cost - 0
  BY DEF LeaveIrq, RefRuns
<1>2. Same(m, ref) /\ Proto(m) /\ Proto(ref) /\ m \in Machine /\ ref.pc = IrqReturn
  BY <1>1, AwayIs DEF PInv, IInv
<1>3. x = BiosStep(m, pending).x
  <2>1. Sp(m, "irq") = IrqTop - 6
    BY <1>1, <1>2, ReturnStep
  <2>2. x = IrqLeft(m, pending)
    BY <1>2, <2>1, IrqExitIs
  <2> QED
    BY <1>1, <2>2, BiosIs
<1> HIDE DEF x
<1>4. Same(x, y) /\ Proto(y) /\ x.pc = y.pc
  BY <1>2, <1>3, StepSame, StepProto DEF Same
<1>5. PICK p, s \in {0, Fetch} : Bal(ref, p, s, Owed, Paid)
  BY DEF PInv, Accounts, Account
<1>6. Owed \in Int /\ Paid \in Int /\ lag \in Int
  BY OwedIs DEF PInv
<1>7. y.pc # IrqReturn
  BY <1>2, <1>5, <1>6, LeftBal
<1>8. PICK p2, s2 \in {0, Fetch} : (y.pc = IrqVector => p2 = 0) /\ Bal(y, p2, s2, Owed, Paid)
  BY <1>2, <1>5, <1>6, LeftBal
<1>9. BiosStep(ref, pending).cost = 0
  BY <1>2, BiosCost
<1>10. RefSteps(1).x = y /\ RefSteps(2).x = BiosStep(y, pending).x /\ RefSteps(1).cost = 0
  BY <1>9, RefStepsOne, RefStepsTwo, RefCostOne
<1>11. BiosStep(y, pending).cost = 0 => RefSteps(2).cost = 0
  <2> SUFFICES ASSUME BiosStep(y, pending).cost = 0 PROVE RefSteps(2).cost = 0
    OBVIOUS
  <2>1. BiosStep(BiosStep(ref, pending).x, pending).cost = 0
    OBVIOUS
  <2>2. RefSteps(2).cost = BiosStep(ref, pending).cost + BiosStep(BiosStep(ref, pending).x, pending).cost
    BY <1>9, <2>1, RefCostTwo
  <2> QED
    BY <1>9, <2>1, <2>2
<1> HIDE DEF y
<1>12. CASE x.pc = IrqVector /\ EntersIrq(x)
  <2>1. BiosStep(y, pending).cost = 0
    <3>1. y.pc = IrqVector
      BY <1>4, <1>12
    <3>2. y.pc \in {IrqVector, IrqReturn, GamePc, IsrPc}
      BY <3>1
    <3> QED
      BY <3>2, BiosCost
  <2>5. BiosStep(y, pending).x = IrqEntered(y)
    BY <1>4, <1>12, BiosIs
  <2>2. lag' = lag /\ ref' = IrqEntered(y) /\ at' = "jit"
    BY <1>1, <1>6, <1>10, <1>11, <1>12, <2>1, <2>5
  <2>3. Bal(IrqEntered(y), 0, s2, Owed, Paid)
    BY <1>4, <1>6, <1>8, <1>12, BalEnter
  <2>4. Account(at', ref', Owed, Paid)
    BY <1>8, <2>2, <2>3 DEF Account
  <2> QED
    BY <1>1, <2>2, <2>4, LeavingIs, Uncharged DEF PInv
<1>13. CASE ~(x.pc = IrqVector /\ EntersIrq(x))
  <2>1. lag' = lag /\ ref' = y
    BY <1>1, <1>6, <1>10, <1>13
  <2>2. p2 # 0 => at' \notin {"bios", "midframe"}
    BY <1>1, <1>4, <1>8
  <2>3. Account(at', ref', Owed, Paid)
    BY <1>7, <1>8, <2>1, <2>2 DEF Account
  <2> QED
    BY <1>1, <2>1, <2>3, LeavingIs, Uncharged DEF PInv
<1> QED
  BY <1>12, <1>13

\* A step of the interpreter, charged to both.
LEMMA InterpretStepPriced ==
  ASSUME CallsClean, PInv, InterpretStep
  PROVE  Accounts'
<1> DEFINE y == BiosStep(ref, pending)
<1>1. /\ at = "bios" /\ at' \in {"leave", "bios"} /\ ref' = RefSteps(1).x
      /\ lag' = lag + RefSteps(1).cost - BiosStep(m, pending).cost /\ unpaid' = unpaid /\ calls' = calls
  BY DEF InterpretStep, RefRuns
<1>2. Same(m, ref) /\ Proto(m) /\ Proto(ref) /\ m.pc = ref.pc
  BY <1>1, AwayIs DEF PInv, IInv
<1>3. ref.pc # IrqReturn
  BY <1>1 DEF PInv, Accounts, Account
<1>4. PICK p, s \in {0, Fetch} : p = 0 /\ Bal(ref, p, s, Owed, Paid)
  BY <1>1 DEF PInv, Accounts, Account
<1>5. Owed \in Int /\ Paid \in Int /\ lag \in Int
  BY OwedIs DEF PInv
<1>6. y.cost \in Int /\ BiosStep(m, pending).cost = y.cost
  BY <1>2, StepCost, StepCostSame
<1>7. ref' = y.x /\ RefSteps(1).cost = y.cost
  BY <1>1, <1>6, RefStepsOne, RefCostOne
<1>8. lag' = lag
  <2> HIDE DEF y
  <2> QED
    BY <1>1, <1>5, <1>6, <1>7
<1>9. y.x.pc # IrqReturn /\ Bal(y.x, 0, s, Owed, Paid)
  <2>1. CASE ref.pc = IrqVector
    <3>1. y.x = IrqEntered(ref)
      BY <2>1, BiosIs
    <3>2. Bal(IrqEntered(ref), 0, s, Owed, Paid) /\ IrqEntered(ref).pc = IsrPc
      BY <1>2, <1>4, <1>5, <2>1, BalEnter, EnterBehind
    <3> HIDE DEF y
    <3> QED
      BY <3>1, <3>2, PlacesAre
  <2>2. CASE ref.pc # IrqVector
    <3>1. /\ Behind(y.x) = Behind(ref) /\ y.x.pc # IrqReturn
          /\ y.x.pc \in Loops \cup {Vector} => ref.pc \in Loops \cup {Vector}
      BY <1>2, <1>3, <2>2, StepBehind
    <3> DEFINE t == y.x
    <3> HIDE DEF t
    <3>2. View(t).pc = t.pc /\ View(ref).pc = ref.pc
      BY DEF View
    <3>3. Due(View(t)) <= Due(View(ref)) /\ Due(View(t)) \in Int /\ Due(View(ref)) \in Int
      <4>1. t.pc \in Loops \cup {Vector} => ref.pc \in Loops \cup {Vector}
        BY <3>1 DEF t
      <4> QED
        BY <3>2, <4>1, DueType
    <3>4. Owed + 0 <= Owed + 0 /\ Owed + 0 + Due(View(t)) <= Owed + 0 + Due(View(ref))
      BY <1>5, <3>3
    <3>5. Behind(t) = Behind(ref) /\ Bal(ref, 0, s, Owed, Paid)
      BY <1>4, <3>1 DEF t
    <3>6. Bal(t, 0, s, Owed, Paid)
      BY <1>5, <3>4, <3>5, BalMove
    <3> QED
      BY <3>1, <3>6 DEF t
  <2> QED
    BY <2>1, <2>2
<1> HIDE DEF y
<1>10. Account(at', ref', Owed, Paid)
  BY <1>4, <1>7, <1>9 DEF Account
<1> QED
  BY <1>1, <1>8, <1>10, LeavingIs, Uncharged DEF PInv

\* An event between two batches.
LEMMA BatchEventPriced ==
  ASSUME PInv, NEW irq \in BOOLEAN, NEW frame \in BOOLEAN, BatchEvent(irq, frame)
  PROVE  Accounts'
<1> DEFINE x == Ticked(m, irq)  y == Ticked(ref, irq)  enters == ~frame /\ x.pc = IrqVector /\ EntersIrq(x)
<1>1. /\ at = "engine" /\ Left(m) > 0 /\ lag' = lag /\ unpaid' = unpaid /\ calls' = calls
      /\ ~enters => m' = x
      /\ ref' = IF enters THEN IrqEntered(y) ELSE y
      /\ at' = IF frame THEN "frame" ELSE IF x.pc = IrqVector \/ enters THEN "jit" ELSE "engine"
  BY DEF BatchEvent
<1>2. /\ Same(m, ref) /\ Proto(m) /\ Proto(ref) /\ m.pc \in Tops /\ m \in Machine /\ ref.pc = m.pc
  BY <1>1, EngineIs DEF PInv, IInv
<1>3. Same(x, y) /\ Proto(y) /\ x.pc = y.pc
  BY <1>2, TickAgrees DEF Same
<1>4. x = m \/ x.pc = IrqVector
  BY DEF Ticked, Interrupted
<1>5. PICK p, s \in {0, Fetch} : Bal(ref, p, s, Owed, Paid)
  BY DEF PInv, Accounts, Account
<1>6. Owed \in Int /\ Paid \in Int
  BY OwedIs DEF PInv
<1>7. PICK p2, s2 \in {0, Fetch} : Bal(y, p2, s2, Owed, Paid)
  BY <1>2, <1>5, <1>6, TickBal
<1>8. y.pc \in {ref.pc, IrqVector}
  BY <1>2, <1>5, <1>6, TickBal
<1> HIDE DEF x, y
<1>9. y.pc # IrqReturn
  BY <1>2, <1>8, PlacesAre
<1>10. at' \notin {"bios", "midframe"}
  BY <1>1
<1>11. Leaving(at, m) = 0 /\ Leaving(at', m') = 0
  <2>1. Leaving(at, m) = 0
    BY <1>1, <1>2, LeavingIs
  <2>2. at' = "engine" => m' = m
    BY <1>1, <1>4
  <2>3. at' = "engine" => Leaving(at', m') = 0
    BY <1>1, <1>2, <2>2, LeavingIs
  <2> QED
    BY <2>1, <2>3, LeavingIs
<1>12. CASE enters
  <2>1. Bal(IrqEntered(y), 0, s2, Owed, Paid) /\ IrqEntered(y).pc = IsrPc
    BY <1>3, <1>6, <1>7, <1>12, BalEnter, EnterBehind
  <2>2. IrqEntered(y).pc # IrqReturn /\ ref' = IrqEntered(y)
    BY <1>1, <1>12, <2>1, PlacesAre
  <2>3. Account(at', ref', Owed, Paid)
    BY <1>7, <1>10, <2>1, <2>2 DEF Account
  <2> QED
    BY <1>1, <1>11, <2>3, Uncharged DEF PInv
<1>13. CASE ~enters
  <2>1. Account(at', ref', Owed, Paid)
    BY <1>1, <1>7, <1>9, <1>10, <1>13 DEF Account
  <2> QED
    BY <1>1, <1>11, <2>1, Uncharged DEF PInv
<1> QED
  BY <1>12, <1>13

\* The engine's end: the routine's, less the branch its last round saved.
LEMMA EngineOut ==
  ASSUME NEW x, NEW y, Agrees("engine", x, y), Left(x) <= 0
  PROVE  x \in Machine /\ x.pc \in Tops /\ Proto(y) /\ y.pc \in Exits
<1>1. x \in Machine /\ x.pc \in Tops /\ Same(Settled(x), y) /\ Proto(y)
  BY DEF Agrees
<1>2. LeftAt(x) <= 0
  BY <1>1, TopsIs
<1>3. y.pc = OutOf(x.pc)
  BY <1>1, <1>2, SettledType DEF Same
<1> QED
  BY <1>1, <1>3 DEF OutOf, Exits

LEMMA ExitLeaves ==
  ASSUME NEW x, x.pc \in Tops, Left(x) <= 0
  PROVE  ExitCost \in Int /\ UnframeCost(x) \in Int /\ ExitCost - UnframeCost(x) = Leaving("engine", x)
<1>1. ExitCost \in Int /\ Branch \in Int
  BY CostsAre DEF ExitCost
<1> HIDE DEF ExitCost
<1> QED
  BY <1>1 DEF UnframeCost, Leaving

LEMMA DonePriced ==
  ASSUME CallsClean, PInv, Done
  PROVE  Accounts'
<1> DEFINE y == BiosStep(ref, pending)
<1>1. /\ at = "engine" /\ Left(m) <= 0 /\ ref' = RefSteps(1).x /\ lag' = lag + RefSteps(1).cost - UnframeCost(m)
      /\ at' = "leave" /\ unpaid' = unpaid /\ calls' = calls
  BY DEF Done, RefRuns
<1>2. m.pc \in Tops /\ Proto(ref) /\ ref.pc \in Exits
  BY <1>1, EngineOut DEF PInv, IInv
<1>3. y.cost = ExitCost /\ ExitCost \in Int /\ UnframeCost(m) \in Int /\ ExitCost - UnframeCost(m) = Leaving(at, m)
  BY <1>1, <1>2, ExitPriced, ExitLeaves
<1>4. ref' = y.x /\ RefSteps(1).cost = ExitCost
  BY <1>1, <1>3, RefStepsOne, RefCostOne
<1>5. Owed \in Int /\ Paid \in Int /\ lag \in Int /\ unpaid \in Int /\ calls \in Nat
  BY OwedIs DEF PInv
<1>6. lag' \in Int /\ Owed' = Owed
  <2> DEFINE e == ExitCost  f == UnframeCost(m)  v == Leaving(at, m)
  <2>1. e \in Int /\ f \in Int /\ e - f = v
    BY <1>3
  <2>2. lag' = lag + e - f
    BY <1>1, <1>4
  <2>3. Leaving(at', m') = 0
    BY <1>1, LeavingIs
  <2>4. Owed' = lag' - unpaid
    BY <1>1, <1>5, <2>1, <2>2, <2>3 DEF Owed
  <2>5. Owed = lag - unpaid + v
    BY DEF Owed
  <2> HIDE DEF e, f, v
  <2> QED
    BY <1>5, <2>1, <2>2, <2>4, <2>5
<1>7. PICK p, s \in {0, Fetch} : Bal(ref, p, s, Owed, Paid)
  BY DEF PInv, Accounts, Account
<1>8. /\ Behind(y.x) = Behind(ref) /\ y.x.pc # IrqReturn
      /\ y.x.pc \in Loops \cup {Vector} => ref.pc \in Loops \cup {Vector}
  BY <1>2, PlacesAre, StepBehind
<1> DEFINE t == y.x
<1> HIDE DEF t
<1>9. View(t).pc = t.pc /\ View(ref).pc = ref.pc
  BY DEF View
<1>10. Due(View(t)) = 0 /\ Due(View(ref)) = 0 /\ ~Engaged(View(ref))
  <2>1. ref.pc \notin Loops \cup {Vector}
    BY <1>2, PlacesAre
  <2>2. t.pc \notin Loops \cup {Vector}
    BY <1>8, <2>1 DEF t
  <2> QED
    BY <1>9, <2>1, <2>2, DueType
<1>11. p = 0
  BY <1>7, <1>10 DEF Bal
<1>12. Behind(t) = Behind(ref) /\ Bal(ref, 0, s, Owed, Paid)
  BY <1>7, <1>8, <1>11 DEF t
<1>13. Bal(t, 0, s, Owed, Paid)
  BY <1>5, <1>10, <1>12, BalMove
<1>14. Account(at', ref', Owed, Paid)
  BY <1>1, <1>4, <1>7, <1>8, <1>13 DEF Account, t
<1> QED
  BY <1>1, <1>5, <1>6, <1>14 DEF Accounts, Paid

LEMMA PriceInt ==
  ASSUME NEW c \in AllCalls, Clean(c)
  PROVE  PriceOf(c) \in Int
<1>1. OpenPrice(c) \in Int /\ EntryCost \in Int /\ ExitCost \in Int /\ (Count(c.r2) # 0 => RoundPrice(c) \in Int)
  BY OpenPriceInt
<1>2. EndOf(TopOf(c)) \in Int
  BY CostsAre DEF EndOf
<1>3. TurnsOf(c) \in Nat
  BY TurnsAre
<1> DEFINE a == OpenPrice(c)  b == RoundPrice(c)  e == EndOf(TopOf(c))  n == TurnsOf(c)  z == Count(c.r2)  i == EntryCost  o == ExitCost
<1>4. PriceOf(c) = i + a + (IF z = 0 THEN 0 ELSE n * b + e) + o
  BY DEF PriceOf, RoundsPrice
<1>5. a \in Int /\ i \in Int /\ o \in Int /\ (z # 0 => b \in Int) /\ e \in Int /\ n \in Nat
  BY <1>1, <1>2, <1>3
<1> HIDE DEF a, b, e, n, z, i, o
<1>6. z # 0 => n * b \in Int
  BY <1>5
<1> QED
  BY <1>4, <1>5, <1>6

LEMMA ServeAtOncePriced ==
  ASSUME CallsClean, CallsUniform, PInv, ServeAtOnce
  PROVE  Accounts'
<1> DEFINE pr == Predict(m)
<1>1. /\ at = "jit" /\ m.pc = Vector /\ pr.ok /\ ref' = RefSteps(Turns + 2).x /\ lag' = lag + RefSteps(Turns + 2).cost - 0
      /\ unpaid' = unpaid + pr.cycles /\ at' = at /\ calls' = calls
  BY DEF ServeAtOnce, Called, Fits, RefRuns
<1>2. Same(m, ref) /\ Proto(m) /\ Proto(ref) /\ m \in Machine /\ ref \in Machine /\ ref.pc = Vector
  BY <1>1, AwayIs DEF PInv, IInv
<1>3. Roomy(ref)
  BY <1>2, AskingIs
<1>4. PICK c \in AllCalls : Asked(m, c)
  BY <1>1, <1>2, AskingIs
<1>5. Clean(c)
  BY DEF CallsClean, AllCalls
<1>6. Asked(ref, c)
  BY <1>2, <1>4 DEF Same, Asked
<1>7. Turns = TurnsOf(c)
  <2>1. m.num = c.num /\ m.r[0] = c.r0 /\ m.r[2] = c.r2
    BY <1>4 DEF Asked
  <2>2. ~Early(m)
    BY <1>5, <2>1, CleanIs DEF Early
  <2> QED
    BY <2>1, <2>2 DEF Turns, TurnsOf
<1>8. pr.cycles = PriceOf(c) /\ (~Fill(c.r2) /\ Count(c.r2) # 0 => SrcHost(c.r0, Copied(c)))
  BY <1>1, <1>4, <1>5, PredictPriced
<1> HIDE DEF pr
<1>9. Fill(c.r2) \/ Count(c.r2) = 0 \/ OneRegion(c.r0, Copied(c))
  BY <1>8 DEF SrcHost
<1> DEFINE N == TurnsOf(c) + 2
<1>10. N \in Nat
  BY TurnsAre
<1>11. PICK g : Steps(g, ref, N, pending) /\ RefSteps(N).x = g[N]
  <2> HIDE DEF N
  <2> QED
    BY <1>10, RefStepsAre
<1>12. Ended(ref, c, g[N])
  BY <1>2, <1>3, <1>6, <1>11, CallAfter
<1>13. PICK f : f[0] = [x |-> ref, cost |-> 0] /\ Goes(f, 0, N, pending) /\ RefSteps(N) = f[N]
  <2> HIDE DEF N
  <2> QED
    BY <1>10, RefRunsAre
<1>14. f[N].cost = PriceOf(c)
  BY <1>2, <1>6, <1>9, <1>13, CallCost
<1> DEFINE t == g[N]  P == PriceOf(c)
<1>15. ref' = t /\ lag' = lag + P - 0 /\ unpaid' = unpaid + P
  BY <1>1, <1>7, <1>8, <1>11, <1>13, <1>14
<1> HIDE DEF N
<1>16. Behind(t) = Behind(ref) /\ t.pc \in {GamePc, IsrPc}
  BY <1>2, <1>12, EndedBehind
<1> HIDE DEF t
<1>17. P \in Int
  BY <1>5, PriceInt
<1> HIDE DEF P
<1>18. Owed \in Int /\ Paid \in Int /\ lag \in Int /\ unpaid \in Int /\ calls \in Nat /\ Owed = lag - unpaid
  BY <1>1, OwedIs DEF PInv
<1>19. lag' \in Int /\ unpaid' \in Int /\ Owed' = Owed
  <2>1. Leaving(at', m') = 0
    BY <1>1, LeavingIs
  <2>2. Owed' = lag' - unpaid' + 0
    BY <2>1 DEF Owed
  <2> QED
    BY <1>15, <1>17, <1>18, <2>2
<1>20. PICK p, s \in {0, Fetch} : Bal(ref, p, s, Owed, Paid)
  BY DEF PInv, Accounts, Account
<1>21. Due(View(t)) = 0 /\ Due(View(ref)) = Fetch /\ ~Engaged(View(ref))
  <2>1. View(t).pc = t.pc /\ View(ref).pc = ref.pc
    BY DEF View
  <2>2. t.pc \notin Loops \cup {Vector} /\ ref.pc \in Loops \cup {Vector} /\ ref.pc \notin Loops
    BY <1>2, <1>16, PlacesAre
  <2> QED
    BY <2>1, <2>2, DueType
<1>22. p = 0
  BY <1>20, <1>21 DEF Bal
<1>23. Bal(ref, 0, s, Owed, Paid) /\ 0 \in {0, Fetch} /\ Owed + 0 <= Owed + 0
       /\ Owed + 0 + Due(View(t)) <= Owed + 0 + Due(View(ref))
  BY <1>18, <1>20, <1>21, <1>22, CostsAre
<1>24. Bal(t, 0, s, Owed, Paid)
  BY <1>16, <1>18, <1>23, BalMove
<1>25. t.pc # IrqReturn
  BY <1>16, PlacesAre
<1>26. Account(at', ref', Owed, Paid)
  BY <1>15, <1>20, <1>24, <1>25, <1>1 DEF Account
<1> QED
  BY <1>1, <1>18, <1>19, <1>26 DEF Accounts, Paid

-----------------------------------------------------------------------------
(* The engine's account: a copy parked, and its batches.                    *)

\* Nothing is saved while the reference has rounds to go.
LEMMA EngineIn ==
  ASSUME NEW x, NEW y, Agrees("engine", x, y), y.pc \in Loops
  PROVE  Leaving("engine", x) = 0 /\ x \in Machine /\ x.pc \in Tops /\ Left(x) \in Int /\ Left(x) > 0
<1>1. x \in Machine /\ x.pc \in Tops
  BY DEF Agrees
<1>2. Left(x) \in Int
  BY <1>1, TopsIs, AtType
<1>3. ~(Left(x) <= 0)
  <2> SUFFICES ASSUME Left(x) <= 0 PROVE FALSE
    OBVIOUS
  <2>1. y.pc \in Exits
    BY EngineOut
  <2> QED
    BY <2>1, PlacesAre
<1>4. Left(x) > 0
  BY <1>2, <1>3
<1> QED
  BY <1>1, <1>2, <1>4, LeavingIs

\* What a copy is charged on entry, with the fetch that ends it.
Ahead(pc) == IF pc \in {WordCopy, FastCopy} THEN Fetch ELSE 0
LEMMA AheadIs ==
  /\ \A pc : Ahead(pc) \in {0, Fetch} /\ Ahead(pc) \in Int /\ (Ahead(pc) # 0 => pc \in {WordCopy, FastCopy})
  /\ Ahead(WordCopy) = Fetch /\ Ahead(FastCopy) = Fetch /\ Ahead(HalfCopy) = 0 /\ Ahead(FastFill) = 0
BY CostsAre, TopsApart DEF Ahead

LEMMA LoopCostIs ==
  ASSUME NEW x, NEW c \in AllCalls, Parkable(x, c)
  PROVE  /\ LoopCost(x) = EntryCost + OpenPrice(c) + Ahead(TopOf(c))
         /\ TopOf(c) \in Tops /\ OpenPrice(c) \in Int /\ EntryCost \in Int
<1>1. LoopOf(x) = TopOf(c) /\ LoopOf(x) \in Tops /\ x.r[0] = c.r0 /\ Clean(c) /\ Count(c.r2) # 0
  BY ParkRegs DEF Parkable, Asked
<1>2. OpenPrice(c) \in Int /\ EntryCost \in Int
  BY <1>1, OpenPriceInt
<1>3. Fetch \in Int /\ Branch \in Int
  BY CostsAre
<1> DEFINE p == LoopOf(x)  e == EntryCost  o == OpenPrice(c)  z == Cost(x.r[0])
<1>4. LoopCost(x) = e + (CASE p = FastFill -> 20 * Fetch + z
                 [] p = FastCopy -> 20 * Fetch + Branch
                 [] p = WordCopy -> 22 * Fetch + Branch
                 [] p = HalfCopy -> 21 * Fetch)
  BY DEF LoopCost
<1>5. /\ p = HalfCopy => o = 21 * Fetch
      /\ p = WordCopy => o = 21 * Fetch + Branch
      /\ p = FastFill => o = 20 * Fetch + z
      /\ p = FastCopy => o = 19 * Fetch + Branch
  BY <1>1, OpenPriceIs
<1>6. p = TopOf(c) /\ p \in {FastCopy, FastFill, WordCopy, HalfCopy} /\ e \in Int /\ o \in Int
  BY <1>1, <1>2 DEF Tops
<1> HIDE DEF p, e, o, z
<1>7. /\ p = HalfCopy => LoopCost(x) = e + 21 * Fetch
      /\ p = WordCopy => LoopCost(x) = e + (22 * Fetch + Branch)
      /\ p = FastFill => LoopCost(x) = e + (20 * Fetch + z)
      /\ p = FastCopy => LoopCost(x) = e + (20 * Fetch + Branch)
  BY <1>4, TopsApart, Zenon
<1>8. LoopCost(x) = e + o + Ahead(p)
  BY <1>3, <1>5, <1>6, <1>7, AheadIs
<1> QED
  BY <1>1, <1>2, <1>6, <1>8 DEF p, e, o

LEMMA ParkPriced ==
  ASSUME CallsClean, PInv, Park
  PROVE  Accounts'
<1> DEFINE d == Opening(ref)  st == StartOf(ref, d.r)  t == BiosStep(ref, pending).x  L == LoopCost(m)
           K == BiosStep(ref, pending).cost
<1>1. /\ at = "jit" /\ m.pc = Vector /\ Oversized(Predict(m)) /\ at' = "engine" /\ ref' = RefSteps(1).x
      /\ lag' = lag + RefSteps(1).cost - L /\ unpaid' = unpaid /\ calls' = calls
  BY DEF Park, Called, RefRuns
<1>2. Same(m, ref) /\ Proto(m) /\ Proto(ref) /\ m \in Machine /\ ref \in Machine /\ ref.pc = Vector
  BY <1>1, AwayIs DEF PInv, IInv
<1>3. PICK c \in AllCalls : Asked(m, c)
  BY <1>1, <1>2, AskingIs
<1>4. Roomy(ref) /\ Clean(c)
  BY <1>2, AskingIs DEF CallsClean, AllCalls
<1>5. Asked(ref, c)
  BY <1>2, <1>3 DEF Same, Asked
<1>6. Parkable(m, c) /\ Parkable(ref, c) /\ Count(c.r2) # 0
  BY <1>1, <1>3, <1>4, <1>5 DEF Oversized, Parkable, Asked
<1>7. L = EntryCost + OpenPrice(c) + Ahead(TopOf(c)) /\ TopOf(c) \in Tops /\ OpenPrice(c) \in Int /\ EntryCost \in Int
  BY <1>6, LoopCostIs
<1>8. Opened(ref, d) /\ Begun(c, ref, st) /\ t = Placed(d, st.pc, st.r) /\ K = st.cost
  BY <1>2, <1>4, <1>5, EnterIs
<1>9. st.cost = EntryCost + OpenPrice(c)
  BY <1>4, <1>5, StartPriced
<1>10. /\ st.pc = TopOf(c)
       /\ TopOf(c) = FastCopy => st.r = [d.r EXCEPT ![1] = ref.r[1] - ref.r[0], ![3] = ref.r[0], ![4] = Count(ref.r[2]), ![12] = Limit]
       /\ TopOf(c) = WordCopy => st.r = [d.r EXCEPT ![1] = ref.r[1] - ref.r[0], ![2] = ref.r[0], ![3] = Count(ref.r[2]), ![12] = Limit]
  <2> DEFINE r == d.r
  <2> HIDE DEF d, r
  <2>1. /\ StartOf(ref, r).pc = TopOf(c) /\ LoopOf(ref) = TopOf(c)
        /\ LoopOf(ref) = FastCopy =>
             StartOf(ref, r).r = [r EXCEPT ![1] = ref.r[1] - ref.r[0], ![3] = ref.r[0], ![4] = Count(ref.r[2]), ![12] = Limit]
        /\ LoopOf(ref) = WordCopy =>
             StartOf(ref, r).r = [r EXCEPT ![1] = ref.r[1] - ref.r[0], ![2] = ref.r[0], ![3] = Count(ref.r[2]), ![12] = Limit]
    BY <1>6, ParkRegs
  <2> QED
    BY <2>1 DEF r
<1> HIDE DEF st, d, L
<1>11. t.pc = st.pc /\ t.r = st.r /\ st.pc \in Int /\ st.r \in [Regs -> Int]
  <2>1. d \in Machine /\ st.pc \in Int /\ st.r \in [Regs -> Int]
    BY <1>8 DEF Opened, Begun
  <2> QED
    BY <1>8, <2>1, PlacedIs
<1>12. ref' = t /\ RefSteps(1).cost = K
  <2>1. K \in Int
    BY <1>7, <1>8, <1>9
  <2> QED
    BY <1>1, <2>1, RefStepsOne, RefCostOne
<1>13. Behind(t) = Behind(ref) /\ t.pc # IrqReturn
  BY <1>2, StepBehind, PlacesAre
<1> HIDE DEF t, K
<1>14. Within(c, 0, t)
  BY <1>6, <1>8, <1>11, BegunIs
<1>15. Ahead(TopOf(c)) # 0 => Engaged(View(t))
  <2> SUFFICES ASSUME TopOf(c) \in {WordCopy, FastCopy} PROVE Engaged(View(t))
    BY AheadIs
  <2>1. d.r \in [Regs -> Int]
    BY <1>8 DEF Opened, Machine
  <2>2. st.r[12] = Limit
    BY <1>10, <2>1, NamesAre
  <2>3. ~Fill(c.r2)
    <3>1. TopOf(c) \notin Fills
      BY TopsApart DEF Fills
    <3> QED
      BY <3>1, TopIs
  <2>4. Predict(m).ok
    BY <1>1 DEF Oversized
  <2>5. SrcHost(c.r0, Copied(c))
    BY <1>3, <1>4, <1>6, <2>3, <2>4, PredictPriced
  <2>6. t.pc \in {WordCopy, FastCopy} /\ t.r[12] = Limit /\ t.pc = TopOf(c)
    BY <1>10, <1>11, <2>2
  <2> QED
    BY <1>14, <2>5, <2>6, EngagedIs
<1> DEFINE a == Ahead(TopOf(c))
<1>16. a \in Int /\ a \in {0, Fetch}
  BY AheadIs
<1>17. Owed \in Int /\ Paid \in Int /\ lag \in Int /\ unpaid \in Int /\ calls \in Nat /\ Owed = lag - unpaid
  BY <1>1, OwedIs DEF PInv
<1>18. lag' = lag - a /\ lag' \in Int
  <2> DEFINE e == EntryCost  o == OpenPrice(c)
  <2>1. e \in Int /\ o \in Int /\ L = e + o + a /\ K = e + o
    BY <1>7, <1>8, <1>9
  <2> HIDE DEF a, e, o
  <2>2. lag' = lag + K - L
    BY <1>1, <1>12
  <2> QED
    BY <1>16, <1>17, <2>1, <2>2
<1> HIDE DEF a
<1>19. ref'.pc \in Loops
  <2>1. TopOf(c) \in Loops
    BY PlacesAre
  <2> QED
    BY <1>10, <1>11, <1>12, <2>1
<1>20. Leaving(at', m') = 0
  <2>1. IInv'
    BY ParkInv DEF PInv
  <2>2. Agrees("engine", m', ref')
    BY <1>1, <2>1 DEF IInv
  <2>3. Leaving("engine", m') = 0
    BY <1>19, <2>2, EngineIn
  <2> QED
    BY <1>1, <2>3
<1>21. Owed' = Owed - a
  <2>1. Owed' = lag' - unpaid' + 0
    BY <1>20 DEF Owed
  <2> QED
    BY <1>1, <1>16, <1>17, <1>18, <2>1
<1>22. PICK p, s \in {0, Fetch} : Bal(ref, p, s, Owed, Paid)
  BY DEF PInv, Accounts, Account
<1>23. Due(View(t)) = Fetch /\ Due(View(ref)) = Fetch /\ ~Engaged(View(ref))
  <2>1. View(t).pc = t.pc /\ View(ref).pc = Vector
    BY <1>2 DEF View
  <2>2. t.pc \in Loops \cup {Vector}
    BY <1>12, <1>19
  <2> QED
    BY <2>1, <2>2, DueType, PlacesAre
<1>24. p = 0
  BY <1>22, <1>23 DEF Bal
<1> DEFINE k2 == Owed - a
<1>25. Bal(ref, 0, s, Owed, Paid) /\ k2 \in Int /\ Owed + 0 <= k2 + a
       /\ k2 + a + Due(View(t)) <= Owed + 0 + Due(View(ref))
  <2>1. Fetch \in Int
    BY CostsAre
  <2> QED
    BY <1>16, <1>17, <1>22, <1>23, <1>24, <2>1
<1> HIDE DEF k2
<1>26. Bal(t, a, s, k2, Paid)
  BY <1>13, <1>15, <1>16, <1>17, <1>25, BalMove DEF a
<1>27. Owed' = k2
  BY <1>21 DEF k2
<1>28. Account(at', ref', k2, Paid)
  BY <1>1, <1>12, <1>13, <1>16, <1>22, <1>26 DEF Account
<1> QED
  BY <1>1, <1>17, <1>18, <1>27, <1>28 DEF Accounts, Paid

\* Part of a range that is one region's is one region's.
LEMMA PartOfRegion ==
  ASSUME NEW a \in Int, NEW n \in Nat, OneRegion(a, n), NEW i \in Nat, NEW d \in Nat \ {0}, i + d <= n
  PROVE  OneRegion(a + i, d) /\ Region[a + i] = Region[a]
<1>1. a + i \in Span(a, n)
  BY DEF Span
<1>2. \A j \in Span(a + i, d) : j \in Span(a, n)
  BY DEF Span
<1>3. \A j \in Span(a, n) : j \in DOMAIN Region /\ Region[j] = Region[a]
  BY DEF OneRegion
<1>4. Region[a + i] = Region[a]
  BY <1>1, <1>3
<1>5. \A j \in Span(a + i, d) : j \in DOMAIN Region /\ Region[j] = Region[a + i]
  BY <1>2, <1>3, <1>4
<1> QED
  BY <1>4, <1>5 DEF OneRegion

\* The rounds of a batch are in the call's ranges.
LEMMA RoundsRegion ==
  ASSUME CallsUniform, NEW x, NEW c \in AllCalls, x.pc = TopOf(c), NEW q \in Nat, Within(c, q, x),
         NEW k \in Nat \ {0}, (k - 1) * UnitOf(c) < LeftAt(x)
  PROVE  /\ OneRegion(DestAt(x), k * UnitOf(c))
         /\ x.pc \notin Fills /\ SrcHost(c.r0, Copied(c)) => SrcHost(FromAt(x), k * UnitOf(c))
<1> DEFINE U == UnitOf(c)  n == Count(c.r2)
<1>1. U \in Nat /\ U > 0 /\ n \in Nat /\ c.r0 \in Int /\ c.r1 \in Int
  BY UnitsAre, CallIs
<1>2. LeftAt(x) = n - q * U /\ DestAt(x) = c.r1 + q * U /\ (~Fill(c.r2) => FromAt(x) = c.r0 + q * U)
  BY DEF Within
<1> HIDE DEF U, n
<1>3. q * U \in Nat /\ k * U \in Nat \ {0} /\ (k - 1) * U \in Int
  <2>1. \A i, j \in Nat : i * j \in Nat
    OBVIOUS
  <2>2. \A i, j \in Nat : i > 0 /\ j > 0 => i * j > 0
    OBVIOUS
  <2>3. k * U > 0 /\ k * U \in Nat /\ q * U \in Nat /\ (k - 1) * U \in Nat
    <3>1. k \in Nat /\ k > 0 /\ k - 1 \in Nat
      OBVIOUS
    <3> QED
      BY <1>1, <2>1, <2>2, <3>1
  <2> QED
    BY <2>3
<1>4. (q + k - 1) * U < n
  <2>1. (q + k - 1) * U = q * U + (k - 1) * U
    BY <1>1
  <2>2. (k - 1) * U < n - q * U
    BY <1>2 DEF U
  <2> QED
    BY <1>1, <1>3, <2>1, <2>2
<1>5. Copied(c) \in Nat /\ q * U + k * U <= Copied(c)
  BY <1>4, RoundsFit DEF U, n
<1>6. OneRegion(c.r1, Copied(c))
  BY DEF CallsUniform, AllCalls
<1>7. OneRegion(DestAt(x), k * U)
  BY <1>1, <1>2, <1>3, <1>5, <1>6, PartOfRegion
<1>8. ASSUME x.pc \notin Fills, SrcHost(c.r0, Copied(c)) PROVE SrcHost(FromAt(x), k * U)
  <2>1. ~Fill(c.r2)
    BY <1>8, TopIs
  <2>2. OneRegion(c.r0, Copied(c)) /\ Region[c.r0] \in HostRam \cup {"rom"}
    BY <1>8 DEF SrcHost
  <2>3. OneRegion(c.r0 + q * U, k * U) /\ Region[c.r0 + q * U] = Region[c.r0]
    BY <1>1, <1>3, <1>5, <2>2, PartOfRegion
  <2> QED
    BY <1>2, <2>1, <2>2, <2>3 DEF SrcHost
<1> QED
  BY <1>7, <1>8 DEF U

\* Word copies and fast copies keep r12.
LEMMA RanLimit ==
  ASSUME NEW x \in Machine, x.pc \in {WordCopy, FastCopy}, NEW n
  PROVE  RegsAt(x, n)[12] = x.r[12]
<1>1. x.r \in [Regs -> Int]
  BY DEF Machine
<1>2. CASE x.pc = WordCopy
  <2>1. RegsAt(x, n) = [x.r EXCEPT ![0] = ValueAt(x, n), ![2] = @ + n, ![3] = @ - n]
    BY <1>2, RegsAre
  <2> QED
    BY <1>1, <2>1, NamesAre
<1>3. CASE x.pc = FastCopy
  <2>1. RegsAt(x, n) = [x.r EXCEPT ![0] = x.r[3] + n, ![2] = ValueAt(x, n), ![3] = @ + n, ![4] = @ - n]
    BY <1>3, RegsAre
  <2> QED
    BY <1>1, <2>1, NamesAre
<1> QED
  BY <1>2, <1>3

\* Where k rounds get to, what they cost, and what they do to the account.
LEMMA RoundsBal ==
  ASSUME CallsClean, CallsUniform, NEW x, Proto(x), NEW c \in AllCalls, x.pc = TopOf(c), x.pc \in Tops,
         NEW q \in Nat, Within(c, q, x), NEW k \in Nat \ {0}, (k - 1) * UnitOf(c) < LeftAt(x),
         x.pc \in Fills \/ SrcHost(FromAt(x), k * UnitOf(c)),
         NEW w, NEW f, f[0] = [x |-> x, cost |-> 0], Goes(f, 0, k, w),
         NEW p, NEW s, NEW e \in Int, NEW n \in Int, Bal(x, p, s, e, n), p # 0 => SrcHost(c.r0, Copied(c))
  PROVE  /\ f[k].cost = k * UnitCost(x) + TailOf(x.pc, LeftAt(x) - k * UnitOf(c))
         /\ k * UnitOf(c) \in Nat /\ LeftAt(x) \in Int
         /\ LeftAt(x) - k * UnitOf(c) > 0 => f[k].x.pc = x.pc /\ Bal(f[k].x, p, s, e, n)
         /\ LeftAt(x) - k * UnitOf(c) <= 0 => f[k].x.pc \in Exits /\ Bal(f[k].x, 0, s, e + Ahead(x.pc), n)
<1> DEFINE U == k * UnitOf(c)  rest == LeftAt(x) - U  z == Ran(x, U)  t == Settled(z)
<1>1. Clean(c) /\ x \in Machine /\ x.pc \in Loops
  BY TopsIs, SeatsAre DEF CallsClean, AllCalls
<1>2. OneRegion(DestAt(x), U)
  BY RoundsRegion
<1>3. Even(x, U)
  BY <1>2 DEF Even, SrcHost
<1>4. f[0].x = x /\ f[0].cost = 0
  OBVIOUS
<1>5. /\ f[0 + k].x = t
      /\ f[0 + k].cost = f[0].cost + k * RoundOf(x) + TailOf(x.pc, rest)
  BY <1>3, <1>4, RoundsCost
<1>6. U \in Nat \ {0} /\ RunOk(x, U)
  BY <1>1, RoundsRun
<1>7. /\ z \in Machine /\ t \in Machine /\ t.bank = x.bank /\ (\A a \in Stacks : Read(t, a) = Read(x, a))
      /\ LeftAt(z) = rest
      /\ LeftAt(z) <= 0 => t.pc \in Exits
      /\ LeftAt(z) > 0 => t = z /\ t.pc = TopOf(c) /\ Within(c, q + k, t)
  BY <1>1, RoundsEnd
<1>8. z.r = RegsAt(x, U)
  BY <1>1, <1>6, RanType
<1>9. LeftAt(x) \in Int /\ rest \in Int
  BY <1>1, <1>6, AtType
<1> HIDE DEF U, z, t
<1>10. RoundOf(x) = UnitCost(x) /\ RoundOf(x) \in Nat /\ TailOf(x.pc, rest) \in Int
  BY <1>1, RoundOfType DEF RoundOf, TailOf
<1>11. f[k].x = t /\ f[k].cost = k * UnitCost(x) + TailOf(x.pc, rest)
  <2> DEFINE b == TailOf(x.pc, rest)  a == k * UnitCost(x)
  <2>1. a \in Int
    BY <1>10
  <2>2. b \in Int
    BY <1>10
  <2>3. 0 + k = k
    OBVIOUS
  <2>4. f[k].x = t /\ f[k].cost = 0 + a + b
    BY <1>4, <1>5, <1>10, <2>3
  <2> HIDE DEF a, b
  <2>5. f[k].cost = a + b
    BY <2>1, <2>2, <2>4
  <2> QED
    BY <2>4, <2>5 DEF a, b
<1> HIDE DEF rest
<1>12. Behind(t) = Behind(x)
  <2>1. PICK l \in Levels, u \in UTops, v \in STops : Active(x, l, u, v) /\ Copying(x, l, u, v)
    BY <1>1, ActiveAt, PlacesAre
  <2>2. t.pc \in Loops \cup Exits
    BY <1>7, <1>9, PlacesAre
  <2>3. x.pc # IrqVector /\ t.pc # IrqVector
    BY <1>1, <2>2, PlacesAre
  <2> QED
    BY <1>1, <1>7, <2>1, <2>3, CopyBehind
<1>13. p \in {0, Fetch} /\ Fetch \in Nat /\ p \in Int
  BY CostsAre DEF Bal
<1>14. View(x).pc = x.pc /\ View(t).pc = t.pc
  BY DEF View
<1>15. Due(View(x)) = Fetch
  BY <1>1, <1>14, DueType
<1>16. CASE rest > 0
  <2>1. t = z /\ t.pc = x.pc /\ Within(c, q + k, t)
    BY <1>7, <1>16
  <2>2. Due(View(t)) = Fetch
    BY <1>1, <1>14, <2>1, DueType
  <2>3. p # 0 => Engaged(View(t))
    <3> SUFFICES ASSUME p # 0 PROVE Engaged(View(t))
      OBVIOUS
    <3>1. Engaged(View(x))
      BY DEF Bal
    <3>2. x.pc \in {WordCopy, FastCopy} /\ x.r[12] = Limit
      BY <3>1, EngagedIs
    <3>3. t.r[12] = Limit
      BY <1>1, <1>8, <2>1, <3>2, RanLimit
    <3>4. q + k \in Nat /\ t.pc = TopOf(c) /\ t.pc \in {WordCopy, FastCopy} /\ SrcHost(c.r0, Copied(c))
      BY <2>1, <3>2
    <3> QED
      BY <2>1, <3>3, <3>4, EngagedIs
  <2>4. e + p <= e + p /\ e + p + Due(View(t)) <= e + p + Due(View(x))
    BY <1>13, <1>15, <2>2
  <2>5. Bal(t, p, s, e, n)
    BY <1>12, <1>13, <2>3, <2>4, BalMove
  <2> QED
    BY <1>6, <1>9, <1>11, <1>16, <2>1, <2>5 DEF rest, U
<1>17. CASE rest <= 0
  <2>1. t.pc \in Exits
    BY <1>7, <1>17
  <2>2. Due(View(t)) = 0
    BY <1>14, <2>1, DueType, PlacesAre
  <2> DEFINE a == Ahead(x.pc)
  <2>3. a \in Int /\ a \in {0, Fetch}
    BY AheadIs
  <2>4. p # 0 => a = Fetch
    <3>1. p # 0 => x.pc \in {WordCopy, FastCopy}
      BY EngagedIs DEF Bal
    <3> QED
      BY <3>1, AheadIs
  <2> HIDE DEF a
  <2> DEFINE e2 == e + a
  <2>5. e2 \in Int /\ e + p <= e2 + 0 /\ e2 + 0 + Due(View(t)) <= e + p + Due(View(x)) /\ 0 \in {0, Fetch}
    BY <1>13, <1>15, <2>2, <2>3, <2>4
  <2> HIDE DEF e2
  <2>6. Bal(t, 0, s, e2, n)
    BY <1>12, <2>5, BalMove
  <2> QED
    BY <1>6, <1>9, <1>11, <1>17, <2>1, <2>6 DEF rest, U, e2, a
<1> QED
  BY <1>9, <1>16, <1>17

LEMMA TailsAre ==
  /\ \A left \in Int : left > 0 => \A pc : TailOf(pc, left) = 0
  /\ \A left \in Int : \A x : left <= 0 /\ x.pc \in Tops /\ Left(x) <= 0 =>
       TailOf(x.pc, left) + Leaving("engine", x) = Ahead(x.pc) /\ TailOf(x.pc, left) \in Int
<1>1. \A left \in Int : left > 0 => \A pc : TailOf(pc, left) = 0
  BY DEF TailOf
<1>2. ASSUME NEW left \in Int, NEW x, left <= 0, x.pc \in Tops, Left(x) <= 0
      PROVE  TailOf(x.pc, left) + Leaving("engine", x) = Ahead(x.pc) /\ TailOf(x.pc, left) \in Int
  <2>1. TailOf(x.pc, left) = EndOf(x.pc)
    BY <1>2 DEF TailOf
  <2>2. Fetch \in Int /\ Branch \in Int
    BY CostsAre
  <2>3. CASE x.pc \in {FastFill, HalfCopy}
    <3>1. Leaving("engine", x) = Branch
      BY <1>2, <2>3 DEF Leaving
    <3>2. EndOf(x.pc) = 0 - Branch
      BY <2>3 DEF EndOf
    <3>3. Ahead(x.pc) = 0
      BY <2>3, AheadIs
    <3> QED
      BY <2>1, <2>2, <3>1, <3>2, <3>3
  <2>4. CASE x.pc \notin {FastFill, HalfCopy}
    <3>1. x.pc \in {WordCopy, FastCopy}
      BY <1>2, <2>4 DEF Tops
    <3>2. Leaving("engine", x) = 0 /\ Ahead(x.pc) = Fetch
      BY <2>4, <3>1, AheadIs DEF Leaving
    <3>3. EndOf(x.pc) = Fetch
      BY <2>4 DEF EndOf
    <3> QED
      BY <2>1, <2>2, <3>2, <3>3
  <2> QED
    BY <2>3, <2>4
<1> QED
  BY <1>1, <1>2

\* A batch is charged what its rounds cost the reference, but for the end.
LEMMA BatchPriced ==
  ASSUME CallsClean, CallsUniform, PInv, Batch
  PROVE  Accounts'
<1> DEFINE k == Fitting(m, budget)  n == k * Unit(m)  D == k * UnitCost(m)
           short == m.pc # FastFill /\ ~SrcHost(Source(m), n)
<1>1. /\ at = "engine" /\ Left(m) > 0 /\ unpaid' = unpaid /\ calls' = calls
      /\ short => m' = m /\ ref' = ref /\ lag' = lag /\ at' \in {"short", "bios"}
      /\ ~short => m' = Advanced(m, k) /\ ref' = RefSteps(k).x /\ lag' = lag + RefSteps(k).cost - D /\ at' = at
  BY DEF Batch, RefRuns
<1>2. /\ Same(m, ref) /\ Proto(m) /\ Proto(ref) /\ m \in Machine /\ ref \in Machine /\ m.pc = ref.pc /\ m.r = ref.r
      /\ m.pc \in Tops
  BY <1>1, EngineIs DEF PInv, IInv, Same
<1>3. LeftAt(m) = Left(m) /\ UnitAt(m) = Unit(m) /\ m.pc \in Loops
  BY <1>2, TopsIs
<1>4. PICK p, s \in {0, Fetch} : Bal(ref, p, s, Owed, Paid)
  BY DEF PInv, Accounts, Account
<1>5. PICK c \in AllCalls, q \in Nat :
        ref.pc = TopOf(c) /\ Within(c, q, ref) /\ (p # 0 => SrcHost(c.r0, Copied(c)))
  <2>1. CASE p # 0
    <3>1. Engaged(View(ref))
      BY <1>4, <2>1 DEF Bal
    <3> QED
      BY <3>1, EngagedIs
  <2>2. CASE p = 0
    BY <1>2, <1>3, <2>2, LoopingIs
  <2> QED
    BY <2>1, <2>2
<1>6. LeftAt(ref) = LeftAt(m) /\ DestAt(ref) = DestAt(m) /\ FromAt(ref) = FromAt(m)
  <2>1. DestAt(ref) = DestAt(m) /\ FromAt(ref) = FromAt(m)
    BY <1>2 DEF DestAt, FromAt
  <2>2. LeftAt(ref) = LeftAt(m)
    BY <1>2, Zenon DEF LeftAt
  <2> QED
    BY <2>1, <2>2
<1>7. Unit(m) = UnitOf(c) /\ UnitOf(c) \in Nat /\ UnitOf(c) > 0
  BY <1>2, <1>3, <1>5, UnitsAre
<1>8. LeftAt(m) \in Int /\ LeftAt(m) > 0
  BY <1>1, <1>2, <1>3, AtType
<1>9. UnitCost(m) \in Nat /\ UnitCost(m) > 0
  BY <1>2, UnitCostIs
<1>10. k \in Nat \ {0} /\ (k - 1) * UnitOf(c) < LeftAt(ref)
  BY <1>1, <1>3, <1>6, <1>7, <1>8, <1>9, FittingIs DEF PInv, IInv
<1>11. n = k * UnitOf(c)
  BY <1>7
<1>12. /\ m.pc # FastFill => Source(m) = FromAt(ref) /\ ref.pc \notin Fills
       /\ m.pc = FastFill => ref.pc \in Fills
  <2>1. m.pc \in {FastCopy, FastFill, WordCopy, HalfCopy}
    BY <1>2 DEF Tops
  <2>2. m.pc = FastFill => ref.pc \in Fills
    BY <1>2 DEF Fills
  <2>3. m.pc # FastFill => ref.pc \notin Fills
    BY <1>2, <2>1, TopsApart DEF Fills
  <2>4. m.pc # FastFill => Source(m) = FromAt(m)
    BY <2>1 DEF Source, FromAt, Fasts
  <2> QED
    BY <1>6, <2>2, <2>3, <2>4
<1> HIDE DEF k, n, D
<1>13. Owed \in Int /\ Paid \in Int /\ lag \in Int /\ unpaid \in Int /\ calls \in Nat
  BY OwedIs DEF PInv
<1>14. Leaving(at, m) = 0
  BY <1>1, <1>2, LeavingIs
<1>15. CASE short
  <2>1. p = 0
    <3> SUFFICES ASSUME p # 0 PROVE FALSE
      OBVIOUS
    <3>1. SrcHost(FromAt(ref), k * UnitOf(c))
      BY <1>5, <1>10, <1>12, <1>15, RoundsRegion
    <3> QED
      BY <1>11, <1>12, <1>15, <3>1
  <2>2. ref.pc # IrqReturn /\ ref' = ref /\ lag' = lag /\ at' # "engine"
    BY <1>1, <1>2, <1>15, PlacesAre
  <2>3. Account(at', ref', Owed, Paid)
    BY <1>4, <2>1, <2>2 DEF Account
  <2> QED
    BY <1>1, <1>14, <2>2, <2>3, LeavingIs, Uncharged DEF PInv
<1>16. CASE ~short
  <2>1. m' = Advanced(m, k) /\ ref' = RefSteps(k).x /\ lag' = lag + RefSteps(k).cost - D /\ at' = "engine"
    BY <1>1, <1>16
  <2>2. PICK f : f[0] = [x |-> ref, cost |-> 0] /\ Goes(f, 0, k, pending) /\ RefSteps(k) = f[k]
    BY <1>10, RefRunsAre
  <2>3. ref.pc \in Fills \/ SrcHost(FromAt(ref), k * UnitOf(c))
    BY <1>11, <1>12, <1>16
  <2> DEFINE rest == LeftAt(ref) - k * UnitOf(c)
  <2>4. /\ f[k].cost = k * UnitCost(ref) + TailOf(ref.pc, rest) /\ rest \in Int
        /\ rest > 0 => f[k].x.pc = ref.pc /\ Bal(f[k].x, p, s, Owed, Paid)
        /\ rest <= 0 => f[k].x.pc \in Exits /\ Bal(f[k].x, 0, s, Owed + Ahead(ref.pc), Paid)
    <3>1. /\ f[k].cost = k * UnitCost(ref) + TailOf(ref.pc, LeftAt(ref) - k * UnitOf(c))
          /\ k * UnitOf(c) \in Nat /\ LeftAt(ref) \in Int
          /\ LeftAt(ref) - k * UnitOf(c) > 0 => f[k].x.pc = ref.pc /\ Bal(f[k].x, p, s, Owed, Paid)
          /\ LeftAt(ref) - k * UnitOf(c) <= 0 => f[k].x.pc \in Exits /\ Bal(f[k].x, 0, s, Owed + Ahead(ref.pc), Paid)
      BY <1>2, <1>4, <1>5, <1>10, <1>13, <2>2, <2>3, RoundsBal
    <3> QED
      BY <3>1
  <2> HIDE DEF rest
  <2>5. UnitCost(ref) = UnitCost(m)
    <3>1. RoundOf(m) = RoundOf(ref)
      BY <1>2, <1>3, <1>6, RoundSame
    <3> QED
      BY <1>2, <3>1 DEF RoundOf
  <2>6. lag' = lag + TailOf(ref.pc, rest) \/ TailOf(ref.pc, rest) \notin Int
    <3> DEFINE b == TailOf(ref.pc, rest)
    <3>1. D \in Int
      BY <1>9, <1>10 DEF D
    <3>2. lag' = lag + (D + b) - D
      BY <2>1, <2>2, <2>4, <2>5 DEF D
    <3> HIDE DEF b
    <3>3. b \in Int => lag' = lag + b
      BY <1>13, <3>1, <3>2
    <3> QED
      BY <3>3 DEF b
  <2>7. IInv' /\ Agrees("engine", m', ref')
    <3>1. IInv'
      BY BatchInv DEF PInv
    <3> QED
      BY <2>1, <3>1 DEF IInv
  <2>8. ref' = f[k].x
    BY <2>1, <2>2
  <2>9. Owed = lag - unpaid
    <3> DEFINE v == Leaving(at, m)
    <3>1. v = 0 /\ Owed = lag - unpaid + v
      BY <1>14 DEF Owed
    <3> HIDE DEF v
    <3> QED
      BY <1>13, <3>1
  <2>10. CASE rest > 0
    <3>1. ref'.pc = ref.pc /\ Bal(ref', p, s, Owed, Paid)
      BY <2>4, <2>8, <2>10
    <3>2. ref'.pc \in Loops
      BY <1>2, <1>3, <3>1
    <3>3. Leaving(at', m') = 0
      <4>1. Leaving("engine", m') = 0
        BY <2>7, <3>2, EngineIn
      <4> QED
        BY <2>1, <4>1
    <3>4. lag' = lag
      <4>1. TailOf(ref.pc, rest) = 0
        BY <2>4, <2>10, TailsAre
      <4> QED
        BY <1>13, <2>6, <4>1
    <3>5. ref'.pc # IrqReturn
      BY <3>2, PlacesAre
    <3>6. Account(at', ref', Owed, Paid)
      BY <1>4, <2>1, <3>1, <3>5 DEF Account
    <3> QED
      BY <1>1, <1>14, <3>3, <3>4, <3>6, Uncharged DEF PInv
  <2>11. CASE rest <= 0
    <3> DEFINE b == TailOf(ref.pc, rest)  a == Ahead(ref.pc)  v == Leaving(at', m')
    <3>1. ref'.pc \in Exits /\ Bal(ref', 0, s, Owed + a, Paid)
      BY <2>4, <2>8, <2>11
    <3>2. m'.pc = ref.pc /\ m'.pc \in Tops /\ Left(m') <= 0
      <4>1. m' \in Machine /\ m'.pc \in Tops
        BY <2>7 DEF Agrees
      <4>2. Left(m') \in Int
        BY <4>1, TopsIs, AtType
      <4>3. ~(Left(m') > 0)
        <5> SUFFICES ASSUME Left(m') > 0 PROVE FALSE
          OBVIOUS
        <5>1. m'.pc = ref'.pc /\ m'.pc \in Tops
          BY <2>7, EngineIs
        <5> QED
          BY <3>1, <5>1, PlacesAre
      <4>4. m'.pc = m.pc
        <5>1. k * UnitOf(c) \in Nat \ {0} /\ RunOk(m, k * UnitOf(c))
          <6>1. m.pc = TopOf(c) /\ Within(c, q, m) /\ (k - 1) * UnitOf(c) < LeftAt(m)
            BY <1>2, <1>5, <1>6, <1>10 DEF Within
          <6>2. Clean(c)
            BY DEF CallsClean, AllCalls
          <6> QED
            BY <1>2, <1>10, <6>1, <6>2, RoundsRun
        <5>2. Advanced(m, k) = Ran(m, k * UnitAt(m)) /\ k * UnitAt(m) = k * UnitOf(c)
          BY <1>2, <1>3, <1>7, <1>10, <5>1, AdvancedIs
        <5> DEFINE u == k * UnitOf(c)
        <5>3. u \in Nat \ {0} /\ RunOk(m, u) /\ m' = Ran(m, u)
          BY <2>1, <5>1, <5>2
        <5> HIDE DEF u
        <5> QED
          BY <1>2, <1>3, <5>3, RanType
      <4> QED
        BY <1>2, <4>1, <4>2, <4>3, <4>4
    <3>3. b + v = a /\ b \in Int
      <4>1. TailOf(m'.pc, rest) + Leaving("engine", m') = Ahead(m'.pc) /\ TailOf(m'.pc, rest) \in Int
        BY <2>4, <2>11, <3>2, TailsAre
      <4> QED
        BY <2>1, <3>2, <4>1
    <3>4. v \in Int
      BY LeavingIs
    <3>5. lag' = lag + b
      BY <2>6, <3>3
    <3>6. Owed' = lag' - unpaid + v
      BY <1>1 DEF Owed
    <3> HIDE DEF a, b, v
    <3>7. Owed' = Owed + a /\ lag' \in Int
      BY <1>13, <2>9, <3>3, <3>4, <3>5, <3>6
    <3>8. Account(at', ref', Owed', Paid)
      <4>1. ref'.pc # IrqReturn
        BY <3>1, PlacesAre
      <4>2. Bal(ref', 0, s, Owed', Paid)
        BY <3>1, <3>7
      <4> DEFINE o == Owed'  y == ref'  b2 == at'
      <4>3. y.pc # IrqReturn /\ Bal(y, 0, s, o, Paid)
        BY <4>1, <4>2
      <4> HIDE DEF o, y, b2
      <4>4. Account(b2, y, o, Paid)
        BY <1>4, <4>3 DEF Account
      <4> QED
        BY <4>4 DEF o, y, b2
    <3>9. Paid' = Paid
      BY <1>1 DEF Paid
    <3> QED
      BY <1>1, <1>13, <3>7, <3>8, <3>9 DEF Accounts
  <2> QED
    BY <2>4, <2>10, <2>11
<1> QED
  BY <1>15, <1>16

LEMMA NextPriced ==
  ASSUME CallsClean, CallsUniform, PInv, [Next]_vars
  PROVE  PInv'
<1> SUFFICES Accounts'
  BY NextInv DEF PInv
<1>1. CASE Game
  <2>1. CASE \E c \in AllCalls, thumb \in BOOLEAN : GameSwi(c, thumb)
    BY <2>1, GameSwiPriced
  <2>2. CASE \E a \in IsrWrites : IsrWrite(a)
    BY <2>2, IsrWritePriced
  <2>3. CASE SlowAccess \/ \E b \in Code : RunCode(b)
    BY <2>3, IdlePriced
  <2>4. CASE \E irq, frame \in BOOLEAN : SliceOver(irq, frame)
    BY <2>4, EventsPriced
  <2> QED
    BY <1>1, <2>1, <2>2, <2>3, <2>4, Zenon DEF Game, AllCalls
<1>2. CASE Services
  <2>1. CASE ServeAtOnce
    BY <2>1, ServeAtOncePriced
  <2>2. CASE Park
    BY <2>2, ParkPriced
  <2>3. CASE Resume \/ Interpret \/ NextFrame
    BY <2>3, IdlePriced
  <2>4. CASE EnterIrq
    BY <2>4, EnterIrqPriced
  <2>5. CASE LeaveIrq
    BY <2>5, LeaveIrqPriced
  <2>6. CASE Batch
    BY <2>6, BatchPriced
  <2>7. CASE Done
    BY <2>7, DonePriced
  <2>8. CASE InterpretStep
    BY <2>8, InterpretStepPriced
  <2>9. CASE \E irq, frame \in BOOLEAN : BatchEvent(irq, frame)
    BY <2>9, BatchEventPriced
  <2>10. CASE \E irq, frame \in BOOLEAN : InterpretEvent(irq, frame) \/ Return(irq, frame)
    BY <2>10, EventsPriced
  <2> QED
    BY <1>2, <2>1, <2>2, <2>3, <2>4, <2>5, <2>6, <2>7, <2>8, <2>9, <2>10 DEF Services
<1>3. CASE \E another \in BOOLEAN : IsrEnd(another)
  BY <1>3, IsrEndPriced
<1>4. CASE UNCHANGED vars
  <2>1. /\ m' = m /\ at' = at /\ ref' = ref /\ lag' = lag /\ unpaid' = unpaid /\ calls' = calls
    BY <1>4 DEF vars
  <2>2. Account(at', ref', Owed, Paid)
    BY <2>1 DEF PInv, Accounts
  <2> QED
    BY <2>1, <2>2, Uncharged DEF PInv
<1> QED
  BY <1>1, <1>2, <1>3, <1>4 DEF Next

\* Where the game runs, no call is under way.
LEMMA HomeDue ==
  ASSUME NEW y, Proto(y), y.pc = GamePc
  PROVE  Due(View(y)) = 0 /\ ~Engaged(View(y)) /\ Due(Behind(y)) = 0 /\ ~Engaged(Behind(y))
<1>1. View(y).pc = GamePc
  BY DEF View
<1>2. GamePc \notin Loops \cup {Vector} /\ GamePc # IrqVector /\ GamePc # IsrPc
  BY PlacesAre
<1>3. Due(View(y)) = 0 /\ ~Engaged(View(y))
  BY <1>1, <1>2, DueType
<1>4. PICK l \in Levels, u \in UTops, s \in STops : Context(y, l, u, s) /\ y.pc = HomeOf(l)
  BY HomeIs
<1>5. l = "game"
  BY <1>2, <1>4, CallersAre, PlacesAre
<1>6. Sp(y, "irq") = IrqTop
  BY <1>4, <1>5 DEF Context
<1>7. Behind(y) = Nobody
  BY <1>2, <1>6 DEF Behind
<1> QED
  BY <1>3, <1>7, NobodyIs

LEMMA InitPriced ==
  ASSUME Init
  PROVE  PInv
<1>1. IInv
  BY InitInv
<1>2. lag = 0 /\ unpaid = 0 /\ calls = 0 /\ at = "jit"
  BY DEF Init
<1>3. Fetch \in Int
  BY CostsAre
<1>4. Leaving(at, m) = 0
  BY <1>2, LeavingIs
<1>5. Owed = 0 /\ Paid = 0
  BY <1>2, <1>3, <1>4 DEF Owed, Paid
<1>6. ref.pc = GamePc
  BY DEF Init, Start
<1>7. Proto(ref)
  BY <1>1, <1>2, AwayIs DEF IInv
<1>8. Bal(ref, 0, 0, 0, 0)
  BY <1>6, <1>7, HomeDue DEF Bal
<1>9. Account(at, ref, Owed, Paid)
  BY <1>2, <1>5, <1>8 DEF Account
<1> QED
  BY <1>1, <1>2, <1>9 DEF PInv, Accounts

(* Whenever the game runs, the cycles the services charged are those of the *)
(* BIOS routines, short of at most one fetch a call, for every memory map,  *)
(* handler, slices and costs, and for all clean calls whose target stays in *)
(* one region: the price of a copy does not depend on where slices, frames  *)
(* and interrupts cut it, nor on who carries it on.                         *)
THEOREM Priced ==
  ASSUME CallsClean, CallsUniform
  PROVE  Spec => []SwiPriced
<1>1. Init => PInv
  BY InitPriced
<1>2. PInv /\ [Next]_vars => PInv'
  BY NextPriced
<1>3. PInv => SwiPriced
  <2> SUFFICES ASSUME PInv, at = "jit", m.pc = GamePc PROVE lag - unpaid \in 0 .. calls * Fetch
    BY DEF SwiPriced
  <2>1. Proto(ref) /\ ref.pc = GamePc
    BY AwayIs DEF PInv, IInv
  <2>2. Owed = lag - unpaid /\ Owed \in Int /\ Paid \in Int
    BY OwedIs DEF PInv
  <2>3. PICK p, s \in {0, Fetch} : Bal(ref, p, s, Owed, Paid)
    BY DEF PInv, Accounts, Account
  <2>4. 0 <= Owed + p + s /\ Owed + p + s + Due(View(ref)) + Due(Behind(ref)) <= Paid /\ p = 0 /\ s = 0
    BY <2>1, <2>3, HomeDue DEF Bal
  <2>5. 0 <= Owed /\ Owed <= Paid
    BY <2>1, <2>2, <2>4, HomeDue
  <2> QED
    BY <2>2, <2>5 DEF Paid
<1> QED
  BY <1>1, <1>2, <1>3, PTL DEF Spec
=============================================================================
