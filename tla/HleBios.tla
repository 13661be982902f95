------------------------------- MODULE HleBios -------------------------------
(***************************************************************************)
(* BIOS services of ports/fxcg100/sh4/sh4_interp_helpers.c: what a         *)
(* dispatch does when the guest's PC is inside the BIOS.  CpuSet and       *)
(* CpuFastSet are served in one of three ways: at once, by a host copy,    *)
(* when the call fits the event slice; by an engine that copies what the   *)
(* slice allows and stops at the loop tops of the real routine, so that an *)
(* interrupt can be taken there; or by interpreting the BIOS.  The wrapper *)
(* around the game's interrupt handler is emulated too.  The machine "ref" *)
(* sees the same calls and interrupts and interprets everything.           *)
(***************************************************************************)
EXTENDS OpenBios, FiniteSets

CONSTANTS
  HostRam,    \* regions with a linear host array: work RAM and video RAM
  Calls,      \* the SWIs the game may make: [num, r0, r1, r2]
  IsrCalls,   \* those of its interrupt handler
  IsrWrites,  \* addresses the interrupt handler may write
  Code,       \* blocks of code the game may run, sets of addresses
  Slices,     \* lengths of an event slice, in cycles
  Handlers,   \* values of the handler pointer
  MaxCalls, MaxIrqs       \* bounds on the calls and on the interrupts

GamePc == 20000
IsrPc == 30000
UserTop == 1008            \* full descending stacks
SvcTop == 1016
IrqTop == 1022

\* The stacks and the handler pointer, which no mirror folds onto each other.
Stacks == UserTop - 8 .. HandlerCell
ASSUME StacksMapped ==
  Stacks \subseteq DOMAIN Host /\ \A a, b \in Stacks : Host[a] = Host[b] => a = b
ASSUME CallsTyped == Calls \cup IsrCalls \subseteq [num : {11, 12}, r0 : Int, r1 : Int, r2 : Nat]
ASSUME WritesOffStacks == \A a \in IsrWrites : a \in DOMAIN Host /\ \A b \in Stacks : Host[a] # Host[b]
ASSUME SlicesPositive == Slices \subseteq Nat \ {0}
ASSUME HandlersAligned == \A h \in Handlers : h \in IsrPc .. IsrPc + 3

VARIABLES
  m,          \* the machine the services work on
  at,         \* who has it: "jit", "engine", "bios" (the interpreter),
              \* "leave" (the common return), "frame", "midframe", "short"
  budget,     \* cycles left of the slice (R13)
  fresh,      \* the engine was entered from the SWI vector
  pending,    \* an enabled interrupt is waiting
  tagged,     \* cells of code that is translated
  stale,      \* cells of translated code overwritten since
  missed,     \* those the interpreter overwrote
  alert,      \* cgba_store_alert holds CPU_ALERT_SMC
  ref, lag,   \* the reference machine; cycles it was charged and m was not
  unpaid,     \* cycles predicted for the calls served at once
  calls, irqs
caches == <<tagged, stale, missed, alert>>
vars == <<m, at, budget, fresh, pending, caches, ref, lag, unpaid, calls, irqs>>

-----------------------------------------------------------------------------
(* Ranges.                                                                  *)
Span(a, n) == a .. (a + n - 1)
Cells(a, n) == {Host[i] : i \in Span(a, n)}
OneRegion(a, n) == \A i \in Span(a, n) : i \in DOMAIN Region /\ Region[i] = Region[a]
RamHost(a, n) == OneRegion(a, n) /\ Region[a] \in HostRam
SrcHost(a, n) == OneRegion(a, n) /\ Region[a] \in HostRam \cup {"rom"}
Apart(a, b, n) == a + n <= b \/ b + n <= a

(* A prediction: whether the call is modelled, what it leaves in r0 and r1, *)
(* and what it costs.                                                       *)
Predicted(ok, r0, r1, cycles) == [ok |-> ok, r0 |-> r0, r1 |-> r1, cycles |-> cycles]
EntryCost == DispatchCost + Stack
ExitCost == 2 * Fetch + Stack + Branch
DstFits(src, dst, n) == OneRegion(dst, n) /\ Apart(src, dst, n)

(* cgba_swi_cpuset_predict: "last" stands for the last word of the source,  *)
(* which r0 holds after a word copy.                                        *)
PredictSet(x) ==
  LET src == x.r[0]  dst == x.r[1]  w == x.r[2]  n == Count(w)
      all == EntryCost + ExitCost
      Is(ok, r0, r1, c) == Predicted(ok, r0, r1, all + c)
      per == 7 * Fetch + Cost(src) + Cost(dst)
      put == 3 * Fetch + Cost(dst)
  IN CASE Low(src) -> Is(TRUE, src, dst, 3 * Fetch + Branch)
       [] ~Low(src) /\ Low(src + n) -> Is(TRUE, src, dst, 9 * Fetch + Branch)
       [] ~Low(src) /\ ~Low(src + n) /\ ~Word(w) /\ ~Fill(w) ->
            IF n = 0 THEN Is(TRUE, src, dst, 17 * Fetch + Branch)
            ELSE Is(SrcHost(src, n) /\ DstFits(src, dst, n), src, dst - src,
                    21 * Fetch + n * per + (n - 1) * Branch)
       [] ~Low(src) /\ ~Low(src + n) /\ ~Word(w) /\ Fill(w) ->
            IF n = 0 THEN Is(SrcHost(src, 1), src, dst, 20 * Fetch + Cost(src) + 2 * Branch)
            ELSE Is(SrcHost(src, 1) /\ OneRegion(dst, n), src, dst + n,
                    22 * Fetch + Cost(src) + n * put + (n + 1) * Branch)
       [] ~Low(src) /\ ~Low(src + n) /\ Word(w) /\ ~Fill(w) ->
            IF n = 0 THEN Is(TRUE, src, dst, 21 * Fetch + 2 * Branch)
            ELSE Is(SrcHost(src, n) /\ DstFits(src, dst, n), Read(x, src + n - 1), dst - src,
                    22 * Fetch + n * per + (n + 1) * Branch)
       [] ~Low(src) /\ ~Low(src + n) /\ Word(w) /\ Fill(w) ->
            IF n = 0 THEN Is(SrcHost(src, 1), src, dst, 22 * Fetch + Cost(src) + 3 * Branch)
            ELSE Is(SrcHost(src, 1) /\ OneRegion(dst, n), src, dst + n,
                    23 * Fetch + Cost(src) + n * put + (n + 2) * Branch)

PredictFast(x) ==
  LET src == x.r[0]  dst == x.r[1]  w == x.r[2]  n == Count(w)
      k == Rounds(n)
      all == EntryCost + ExitCost
      Is(ok, r0, r1, c) == Predicted(ok, r0, r1, all + c)
      copy == (4 + 7 * Chunk) * Fetch + Chunk * (Cost(src) + Cost(dst)) + (Chunk - 1) * Branch
      fill == (4 + 3 * Chunk) * Fetch + Chunk * Cost(dst) + (Chunk - 1) * Branch
  IN CASE Low(src) -> Is(TRUE, src, dst, 3 * Fetch + Branch)
       [] ~Low(src) /\ Low(src + n) -> Is(TRUE, src, dst, 9 * Fetch + Branch)
       [] ~Low(src) /\ ~Low(src + n) /\ Fill(w) ->
            IF n = 0 THEN Is(SrcHost(src, 1), src, dst, 20 * Fetch + Cost(src) + Branch)
            ELSE Is(SrcHost(src, 1) /\ OneRegion(dst, k * Chunk), src, dst + k * Chunk,
                    20 * Fetch + Cost(src) + k * fill + (k - 1) * Branch)
       [] ~Low(src) /\ ~Low(src + n) /\ ~Fill(w) ->
            IF n = 0 THEN Is(TRUE, src, dst, 19 * Fetch + 2 * Branch)
            ELSE Is(SrcHost(src, k * Chunk) /\ DstFits(src, dst, k * Chunk), src + k * Chunk, dst - src,
                    20 * Fetch + Branch + k * copy + k * Branch)

Predict(x) ==
  IF ~Thumb(x.bank["svc"].spsr) THEN Predicted(FALSE, 0, 0, 0)
  ELSE IF x.num = 11 THEN PredictSet(x) ELSE PredictFast(x)

-----------------------------------------------------------------------------
(* cgba_swi_apply_faithful: the elements it writes, or that it declines;    *)
(* and the machine after it, back in the caller's mode.                     *)
Elements(x) == IF x.num = 12 THEN Rounds(Count(x.r[2])) * Chunk ELSE Count(x.r[2])
Early(x) == Low(x.r[0]) \/ Low(x.r[0] + Count(x.r[2]))
Applies(x) ==
  LET src == x.r[0]  dst == x.r[1]  n == Elements(x)
  IN n > 0 => /\ RamHost(dst, n)
              /\ IF Fill(x.r[2]) THEN SrcHost(src, 1)
                 ELSE SrcHost(src, n) /\ Cells(src, n) \cap Cells(dst, n) = {}
Moved(x, src, dst, n, fill) ==
  Writes(x, dst, [k \in 1 .. n |-> Read(x, IF fill THEN src ELSE src + k - 1)])
Applied(x, p) ==
  LET n == Elements(x)
      y == IF n = 0 THEN x ELSE Moved(x, x.r[0], x.r[1], n, Fill(x.r[2]))
  IN [y EXCEPT !.r[0] = p.r0, !.r[1] = p.r1, !.pc = Lr(x, "svc"), !.cpsr = x.bank["svc"].spsr]

(* cgba_swi_fastset_materialize, cgba_swi_cpuset_materialize: the frames    *)
(* the dispatcher and the routine would have pushed, and the loop registers.*)
Framed(x) ==
  LET spsr == x.bank["svc"].spsr
      sys == (IF Masked(spsr) THEN IrqOff ELSE 0) + System
      svc == Pushed(x, "svc", <<spsr, x.r[11], x.r[12], Lr(x, "svc")>>)
      usr == Pushed(svc, "usr", <<x.r[4], x.r[2], x.r[3], Lr(x, "usr")>>)
  IN [usr EXCEPT !.cpsr = sys, !.r[11] = sys, !.bank["usr"].lr = SwiReturn]
LoopOf(x) ==
  IF x.num = 12 THEN (IF Fill(x.r[2]) THEN FastFill ELSE FastCopy)
  ELSE IF Word(x.r[2]) THEN WordCopy ELSE HalfCopy
Materialized(x) ==
  LET src == x.r[0]  dst == x.r[1]  n == Count(x.r[2])
      y == [Framed(x) EXCEPT !.pc = LoopOf(x)]
  IN CASE LoopOf(x) = FastFill -> [y EXCEPT !.r[2] = Read(x, src), !.r[3] = src, !.r[4] = n, !.r[12] = FastEntry]
       [] LoopOf(x) = FastCopy -> [y EXCEPT !.r[1] = dst - src, !.r[3] = src, !.r[4] = n, !.r[12] = Limit]
       [] LoopOf(x) = WordCopy -> [y EXCEPT !.r[1] = dst - src, !.r[2] = src, !.r[3] = n, !.r[12] = Limit]
       [] LoopOf(x) = HalfCopy -> [y EXCEPT !.r[1] = dst - src, !.r[2] = src, !.r[3] = src + n, !.r[4] = Limit]
LoopCost(x) ==
  EntryCost + (CASE LoopOf(x) = FastFill -> 20 * Fetch + Cost(x.r[0])
                 [] LoopOf(x) = FastCopy -> 20 * Fetch + Branch
                 [] LoopOf(x) = WordCopy -> 22 * Fetch + Branch
                 [] LoopOf(x) = HalfCopy -> 21 * Fetch)

-----------------------------------------------------------------------------
(* The engine's view of a loop-top state.                                   *)
Tops == {FastCopy, FastFill, WordCopy, HalfCopy}
Left(x) == CASE x.pc \in {FastCopy, FastFill} -> x.r[4]
             [] x.pc = WordCopy -> x.r[3]
             [] x.pc = HalfCopy -> x.r[3] - x.r[2]
Source(x) == IF x.pc \in {FastCopy, FastFill} THEN x.r[3] ELSE x.r[2]
Dest(x) == IF x.pc = FastFill THEN x.r[1] ELSE x.r[1] + Source(x)
Unit(x) == IF x.pc \in {FastCopy, FastFill} THEN Chunk ELSE 1
Canonical(x) ==
  /\ Left(x) > 0
  /\ CASE x.pc = FastFill -> x.r[12] = FastEntry
       [] x.pc \in {FastCopy, WordCopy} -> x.r[12] = Limit
       [] x.pc = HalfCopy -> x.r[4] = Limit
UnitCost(x) ==
  CASE x.pc = FastFill -> (4 + 3 * Chunk) * Fetch + Chunk * Cost(Dest(x)) + Chunk * Branch
    [] x.pc = FastCopy -> (4 + 7 * Chunk) * Fetch + Chunk * (Cost(Source(x)) + Cost(Dest(x))) + Chunk * Branch
    [] x.pc \in {WordCopy, HalfCopy} -> 7 * Fetch + Cost(Source(x)) + Cost(Dest(x)) + Branch

(* How many units the slice pays for: always at least one.                  *)
Fitting(x, left) ==
  LET fit == left \div UnitCost(x)
      all == (Left(x) + Unit(x) - 1) \div Unit(x)
  IN IF fit < 1 THEN 1 ELSE IF fit > all THEN all ELSE fit

(* k units done, the registers at the loop top again.                       *)
Advanced(x, k) ==
  LET n == k * Unit(x)  src == Source(x)  dst == Dest(x)
      y == IF x.pc = FastFill THEN Writes(x, dst, [i \in 1 .. n |-> x.r[2]])
           ELSE Moved(x, src, dst, n, FALSE)
      last == Read(x, src + n - 1)
  IN CASE x.pc = FastFill -> [y EXCEPT !.r[1] = dst + n, !.r[3] = dst + n, !.r[4] = @ - n]
       [] x.pc = FastCopy -> [y EXCEPT !.r[0] = src + n, !.r[2] = last, !.r[3] = src + n, !.r[4] = @ - n]
       [] x.pc = WordCopy -> [y EXCEPT !.r[0] = last, !.r[2] = src + n, !.r[3] = @ - n]
       [] x.pc = HalfCopy -> [y EXCEPT !.r[2] = src + n, !.r[12] = last]

(* The epilogue of the routine and of the dispatcher, read back from the    *)
(* stacks.                                                                  *)
Unframed(x) ==
  LET u == Sp(x, "usr")  s == Sp(x, "svc")
  IN [x EXCEPT
        !.r[4] = Read(x, u), !.r[2] = Read(x, u + 1), !.r[3] = Read(x, u + 2),
        !.r[11] = Read(x, s + 1), !.r[12] = Read(x, s + 2),
        !.bank["usr"] = [@ EXCEPT !.sp = u + 4, !.lr = Read(x, u + 3)],
        !.bank["svc"] = [sp |-> s + 4, lr |-> Read(x, s + 3), spsr |-> Read(x, s)],
        !.pc = Read(x, s + 3), !.cpsr = Read(x, s)]
NoRefund(x) == ExitCost
UnframeCost(x) == ExitCost - (IF x.pc \in {FastFill, HalfCopy} THEN Branch ELSE 0)

-----------------------------------------------------------------------------
(* cgba_hle_bios_irq_entry and _exit, which looks for the next interrupt as *)
(* check_and_raise_interrupts does.                                         *)
Raised(x, waiting) ==
  IF waiting /\ ~Masked(x.cpsr)
  THEN [x EXCEPT !.bank["irq"].lr = x.pc + 4, !.bank["irq"].spsr = x.cpsr,
                 !.cpsr = Irq + IrqOff + 64, !.pc = IrqVector]
  ELSE x
Handler(x) == Read(x, HandlerCell)
EntersIrq(x) == Handler(x) % 4 = 0 /\ Handler(x) >= BiosEnd
IrqEntry(x) ==
  LET sp == Sp(x, "irq") - 6
  IN [Writes(x, sp, <<x.r[0], x.r[1], x.r[2], x.r[3], x.r[12], Lr(x, "irq")>>) EXCEPT
        !.bank["irq"].sp = sp, !.bank["irq"].lr = IrqReturn, !.r[0] = IoBase, !.pc = Handler(x)]
IrqRestored(x) ==
  LET sp == Sp(x, "irq")
  IN [x EXCEPT !.r[0] = Read(x, sp), !.r[1] = Read(x, sp + 1), !.r[2] = Read(x, sp + 2),
               !.r[3] = Read(x, sp + 3), !.r[12] = Read(x, sp + 4),
               !.bank["irq"].sp = sp + 6, !.bank["irq"].lr = Read(x, sp + 5),
               !.cpsr = x.bank["irq"].spsr, !.pc = Read(x, sp + 5) - 4]
IrqExitQuiet(x, waiting) == IrqRestored(x)
IrqExit(x, waiting) == Raised(IrqRestored(x), waiting)

-----------------------------------------------------------------------------
(* What the steps share.                                                    *)
Charged(st, cost) == [x |-> st.x, cost |-> cost + st.cost]
RefSteps(k) ==
  LET run[i \in 0 .. k] ==
        IF i = 0 THEN [x |-> ref, cost |-> 0]
        ELSE Charged(BiosStep(run[i - 1].x, pending), run[i - 1].cost)
  IN run[k]
RefRuns(k, debit) ==
  LET r == RefSteps(k) IN ref' = r.x /\ lag' = lag + r.cost - debit

(* cgba_bulk_tags_smc: the cells written held translated code.              *)
HoldCodeHead(cells) == (CHOOSE c \in cells : \A d \in cells : c <= d) \in tagged
HoldCode(cells) == tagged \cap cells # {}
TagHit(cells) == cells # {} /\ HoldCode(cells)

(* flush_translation_cache_ram.                                             *)
FlushRam == tagged' = {} /\ stale' = {} /\ missed' = {}
Unflushed(cells) ==
  stale' = stale \cup (tagged \cap cells) /\ UNCHANGED <<tagged, missed>>

(* Three ways to store: over a host array, with a flush of its own; through *)
(* execute_store, which leaves an alert; and where the alert is then acted  *)
(* upon, an older one too.                                                  *)
Wrote(cells) ==
  /\ IF TagHit(cells) THEN FlushRam ELSE Unflushed(cells)
  /\ UNCHANGED alert
Stored(cells) == Unflushed(cells) /\ alert' = (alert \/ TagHit(cells))
AlertTaken(cells) ==
  IF alert \/ TagHit(cells) THEN FlushRam /\ alert' = FALSE
  ELSE Unflushed(cells) /\ UNCHANGED alert

(* The interpreter's stores look at no tag.                                 *)
Unseen(cells) ==
  /\ stale' = stale \cup (tagged \cap cells)
  /\ missed' = missed \cup (tagged \cap cells)
  /\ UNCHANGED <<tagged, alert>>
Changed(x, y) == {i \in DOMAIN x.mem : x.mem[i] # y.mem[i]}

FrameStart(x) == Sp(x, "irq") - 6
FrameCells(x) == Cells(FrameStart(x), 6)
IrqFramed(x) == IF RamHost(FrameStart(x), 6) THEN Wrote(FrameCells(x)) ELSE AlertTaken(FrameCells(x))
ParkCells(x) == Cells(Sp(x, "svc") - 4, 4) \cup Cells(Sp(x, "usr") - 4, 4)

(* update_gba: the next slice, perhaps the end of the frame, perhaps an     *)
(* interrupt.                                                               *)
Ticked(x, irq) == IF (pending \/ irq) /\ ~Masked(x.cpsr) THEN Interrupted(x) ELSE x
Updated(irq) ==
  /\ irq => irqs < MaxIrqs
  /\ irqs' = irqs + (IF irq THEN 1 ELSE 0)
  /\ pending' = (pending \/ irq)
  /\ budget' \in Slices

InGame(x) == x.pc >= BiosEnd
Counted == <<calls, irqs>>

-----------------------------------------------------------------------------
(* The game and its interrupt handler, in translated code.                  *)
Swi(x, c, thumb) ==
  LET caller == IF thumb THEN x.cpsr - (x.cpsr % 64) + 32 + ModeOf(x.cpsr) ELSE x.cpsr
  IN [x EXCEPT !.r[0] = c.r0, !.r[1] = c.r1, !.r[2] = c.r2, !.r[3] = 103, !.r[12] = 112,
               !.num = c.num, !.bank["svc"].lr = x.pc, !.bank["svc"].spsr = caller,
               !.cpsr = caller - (caller % 64) + Supervisor + (IF Masked(caller) THEN 0 ELSE IrqOff),
               !.pc = Vector]
GameSwi(c, thumb) ==
  /\ at = "jit"
  /\ \/ m.pc = GamePc /\ c \in Calls /\ calls < MaxCalls
     \/ m.pc = IsrPc /\ c \in IsrCalls /\ calls <= MaxCalls
  /\ m' = Swi(m, c, thumb) /\ ref' = Swi(ref, c, thumb)
  /\ calls' = calls + 1
  /\ UNCHANGED <<at, budget, fresh, pending, caches, lag, unpaid, irqs>>
IsrWrite(a) ==
  /\ at = "jit" /\ m.pc = IsrPc
  /\ m' = Write(m, a, 7) /\ ref' = Write(ref, a, 7)
  /\ Wrote({Host[a]})
  /\ UNCHANGED <<at, budget, fresh, pending, lag, unpaid, calls, irqs>>
IsrEnd(another) ==
  /\ at = "jit" /\ m.pc = IsrPc
  /\ another => irqs <= MaxIrqs
  /\ pending' = another /\ irqs' = irqs + (IF another THEN 1 ELSE 0)
  /\ m' = [m EXCEPT !.pc = IrqReturn] /\ ref' = [ref EXCEPT !.pc = IrqReturn]
  /\ UNCHANGED <<at, budget, fresh, caches, lag, unpaid, calls>>
RunCode(b) ==
  /\ at = "jit" /\ InGame(m)
  /\ tagged' = tagged \cup {Host[a] : a \in b}
  /\ UNCHANGED <<m, at, budget, fresh, pending, stale, missed, alert, ref, lag, unpaid, calls, irqs>>

(* A load or store of the game that a helper serves consumes the alert.     *)
SlowAccess ==
  /\ at = "jit" /\ InGame(m) /\ alert
  /\ AlertTaken({})
  /\ UNCHANGED <<m, at, budget, fresh, pending, ref, lag, unpaid, calls, irqs>>
SliceOver(irq, frame) ==
  /\ at = "jit" /\ InGame(m)
  /\ Updated(irq)
  /\ m' = Ticked(m, irq) /\ ref' = Ticked(ref, irq)
  /\ at' = IF frame THEN "frame" ELSE "jit"
  /\ UNCHANGED <<fresh, caches, lag, unpaid, calls>>

-----------------------------------------------------------------------------
(* cgba_sh4_bios_fallback.                                                  *)
Margin == 64
Called == at = "jit" /\ m.pc = Vector
Fits(p) == p.ok /\ p.cycles + Margin <= budget
Oversized(p) == p.ok /\ ~Fits(p) /\ Count(m.r[2]) # 0 /\ (m.num = 12 \/ ~Fill(m.r[2]))
Turns == IF Early(m) \/ Count(m.r[2]) = 0 THEN 0
         ELSE IF m.num = 12 THEN Rounds(Count(m.r[2])) ELSE Count(m.r[2])

ServeAtOnce ==
  /\ Called
  /\ LET p == Predict(m) IN
     /\ Fits(p) /\ Applies(m)
     /\ m' = Applied(m, p)
     /\ unpaid' = unpaid + p.cycles
     /\ AlertTaken(Cells(m.r[1], Elements(m)))
  /\ RefRuns(Turns + 2, 0)
  /\ UNCHANGED <<at, budget, fresh, pending, calls, irqs>>
Park ==
  /\ Called
  /\ Oversized(Predict(m))
  /\ m' = Materialized(m) /\ Stored(ParkCells(m))
  /\ at' = "engine" /\ fresh' = TRUE
  /\ budget' = budget - LoopCost(m)
  /\ RefRuns(1, LoopCost(m))
  /\ UNCHANGED <<pending, unpaid, calls, irqs>>
Resume ==
  /\ at = "jit" /\ m.pc \in Tops /\ Canonical(m)
  /\ at' = "engine" /\ fresh' = FALSE
  /\ UNCHANGED <<m, budget, pending, caches, ref, lag, unpaid, calls, irqs>>
EnterIrq ==
  /\ at = "jit" /\ m.pc = IrqVector /\ EntersIrq(m)
  /\ m' = IrqEntry(m) /\ IrqFramed(m)
  /\ RefRuns(1, 0)
  /\ UNCHANGED <<at, budget, fresh, pending, unpaid, calls, irqs>>
LeaveIrq ==
  /\ at = "jit" /\ m.pc = IrqReturn
  /\ LET x == IrqExit(m, pending)
         again == x.pc = IrqVector
     IN /\ m' = IF again /\ EntersIrq(x) THEN IrqEntry(x) ELSE x
        /\ at' = IF again /\ ~EntersIrq(x) THEN "bios" ELSE "jit"
        /\ IF again /\ EntersIrq(x) THEN IrqFramed(x) ELSE UNCHANGED caches
        /\ RefRuns(IF again /\ EntersIrq(x) THEN 2 ELSE 1, 0)
  /\ UNCHANGED <<budget, fresh, pending, unpaid, calls, irqs>>
Interpret ==
  /\ at = "jit" /\ ~InGame(m)
  /\ CASE m.pc = Vector -> LET p == Predict(m) IN ~(Fits(p) /\ Applies(m)) /\ ~Oversized(p)
       [] m.pc \in Tops -> ~Canonical(m)
       [] m.pc = IrqVector -> ~EntersIrq(m)
       [] m.pc = IrqReturn -> FALSE
       [] OTHER -> TRUE
  /\ at' = "bios"
  /\ UNCHANGED <<m, budget, fresh, pending, caches, ref, lag, unpaid, calls, irqs>>

(* cgba_swi_fastset_engine, cgba_swi_cpuset_engine: a batch, an event at a  *)
(* loop top, the end.  A batch whose source has no host array is declined,  *)
(* which after the SWI vector reads as the end of a frame.                  *)
Batch ==
  /\ at = "engine" /\ Left(m) > 0 /\ budget > 0
  /\ LET k == Fitting(m, budget)
         n == k * Unit(m)
         debit == k * UnitCost(m)
     IN IF m.pc # FastFill /\ ~SrcHost(Source(m), n)
        THEN /\ at' = IF fresh THEN "short" ELSE "bios"
             /\ UNCHANGED <<m, budget, caches, ref, lag>>
        ELSE /\ m' = Advanced(m, k)
             /\ budget' = budget - debit
             /\ IF RamHost(Dest(m), n) THEN Wrote(Cells(Dest(m), n)) ELSE Stored(Cells(Dest(m), n))
             /\ RefRuns(k, debit)
             /\ UNCHANGED at
  /\ UNCHANGED <<fresh, pending, unpaid, calls, irqs>>
BatchEvent(irq, frame) ==
  /\ at = "engine" /\ Left(m) > 0 /\ budget <= 0
  /\ Updated(irq)
  /\ LET x == Ticked(m, irq)
         enters == ~frame /\ x.pc = IrqVector /\ EntersIrq(x)
     IN /\ m' = IF enters THEN IrqEntry(x) ELSE x
        /\ ref' = IF enters THEN IrqEntered(Ticked(ref, irq)) ELSE Ticked(ref, irq)
        /\ IF enters THEN IrqFramed(x) ELSE UNCHANGED caches
        /\ at' = IF frame THEN "frame" ELSE IF x.pc = IrqVector \/ enters THEN "jit" ELSE "engine"
  /\ UNCHANGED <<fresh, lag, unpaid, calls>>
Done ==
  /\ at = "engine" /\ Left(m) <= 0
  /\ m' = Unframed(m)
  /\ budget' = budget - UnframeCost(m)
  /\ RefRuns(1, UnframeCost(m))
  /\ at' = "leave"
  /\ UNCHANGED <<fresh, pending, caches, unpaid, calls, irqs>>

(* The interpreter, up to the first instruction outside the BIOS.           *)
InterpretStep ==
  /\ at = "bios" /\ budget > 0 /\ ~InGame(m)
  /\ LET st == BiosStep(m, pending) IN
     /\ m' = st.x
     /\ budget' = budget - st.cost
     /\ at' = IF InGame(st.x) THEN "leave" ELSE "bios"
     /\ RefRuns(1, st.cost)
     /\ Unseen(Changed(m, st.x))
  /\ UNCHANGED <<fresh, pending, unpaid, calls, irqs>>
InterpretEvent(irq, frame) ==
  /\ at = "bios" /\ budget <= 0
  /\ Updated(irq)
  /\ m' = Ticked(m, irq) /\ ref' = Ticked(ref, irq)
  /\ IF frame THEN at' \in {"frame", "midframe"} ELSE at' = "bios"
  /\ UNCHANGED <<fresh, caches, lag, unpaid, calls>>

(* The common return, and the next frame.  A frame that ended between two   *)
(* loop tops is resumed by the interpreter.                                 *)
Return(irq, frame) ==
  /\ at = "leave"
  /\ IF budget > 0
     THEN /\ ~irq /\ ~frame
          /\ at' = "jit"
          /\ UNCHANGED <<m, ref, budget, pending, irqs>>
     ELSE /\ Updated(irq)
          /\ m' = Ticked(m, irq) /\ ref' = Ticked(ref, irq)
          /\ at' = IF frame THEN "frame" ELSE "jit"
  /\ UNCHANGED <<fresh, caches, lag, unpaid, calls>>
NextFrame ==
  /\ at \in {"frame", "midframe", "short"}
  /\ budget' \in Slices
  /\ at' = IF at = "midframe" /\ ~InGame(m) THEN "bios" ELSE "jit"
  /\ UNCHANGED <<m, fresh, pending, caches, ref, lag, unpaid, calls, irqs>>

-----------------------------------------------------------------------------
Game ==
  \/ \E c \in Calls \cup IsrCalls, thumb \in BOOLEAN : GameSwi(c, thumb)
  \/ \E a \in IsrWrites : IsrWrite(a)
  \/ \E b \in Code : RunCode(b)
  \/ SlowAccess
  \/ \E irq, frame \in BOOLEAN : SliceOver(irq, frame)
Services ==
  \/ ServeAtOnce \/ Park \/ Resume \/ EnterIrq \/ LeaveIrq \/ Interpret
  \/ Batch \/ Done \/ InterpretStep \/ NextFrame
  \/ \E irq, frame \in BOOLEAN :
       BatchEvent(irq, frame) \/ InterpretEvent(irq, frame) \/ Return(irq, frame)
Next == Game \/ Services \/ \E another \in BOOLEAN : IsrEnd(another)

Start(h) ==
  [pc |-> GamePc, cpsr |-> User, num |-> 0,
   r |-> [k \in Regs |-> 100 + k],
   bank |-> [usr |-> [sp |-> UserTop, lr |-> 21000, spsr |-> 0],
             svc |-> [sp |-> SvcTop, lr |-> 0, spsr |-> 0],
             irq |-> [sp |-> IrqTop, lr |-> 0, spsr |-> 0]],
   mem |-> [i \in {Host[a] : a \in DOMAIN Host} |-> IF i = Host[HandlerCell] THEN h ELSE i]]
Init ==
  /\ \E h \in Handlers : m = Start(h) /\ ref = Start(h)
  /\ at = "jit" /\ budget \in Slices
  /\ fresh = FALSE /\ pending = FALSE
  /\ tagged = {} /\ stale = {} /\ missed = {} /\ alert = FALSE
  /\ lag = 0 /\ unpaid = 0 /\ calls = 0 /\ irqs = 0
Spec == Init /\ [][Next]_vars

-----------------------------------------------------------------------------
(* The calls a service answers as the BIOS does: mapped ranges, a source    *)
(* outside the BIOS, and neither range on the stacks, folded onto itself by *)
(* a mirror or, for a copy, onto the other.                                 *)
Copied(c) == IF c.num = 12 THEN Rounds(Count(c.r2)) * Chunk ELSE Count(c.r2)
SourceOf(c) == Span(c.r0, IF Fill(c.r2) THEN 1 ELSE Copied(c))
TargetOf(c) == Span(c.r1, Copied(c))
Clean(c) ==
  /\ SourceOf(c) \cup TargetOf(c) \subseteq DOMAIN Region
  /\ ~Low(c.r0) /\ ~Low(c.r0 + Count(c.r2))
  /\ \A a \in SourceOf(c) \cup TargetOf(c), b \in Stacks : Host[a] # Host[b]
  /\ \A a, b \in TargetOf(c) : Host[a] = Host[b] => a = b
  /\ ~Fill(c.r2) => \A a \in SourceOf(c), b \in TargetOf(c) : Host[a] # Host[b]
CallsClean == \A c \in Calls \cup IsrCalls : Clean(c)

(* The services price every element as the first: a target stays in one     *)
(* region.                                                                  *)
CallsUniform == \A c \in Calls \cup IsrCalls : OneRegion(c.r1, Copied(c))

-----------------------------------------------------------------------------
(* What code outside the BIOS can see of a machine: everything but the      *)
(* words a stack has already given back.                                    *)
Dead(x) == {Host[a] : a \in (UserTop - 8 .. x.bank["usr"].sp - 1)
                            \cup (SvcTop - 8 .. x.bank["svc"].sp - 1)
                            \cup (IrqTop - 6 .. x.bank["irq"].sp - 1)}
Seen(x) == [x EXCEPT !.mem = [i \in DOMAIN @ \ Dead(x) |-> @[i]]]

(* Whenever the game or its interrupt handler runs, memory, registers,      *)
(* stacks and modes are those of a machine that interpreted every BIOS      *)
(* instruction, whichever mixture of host copies, engine batches, parked    *)
(* states and interpreter served the calls.                                 *)
SwiFaithful == at = "jit" /\ InGame(m) => Seen(m) = Seen(ref)

(* When the game runs, the cycles R13 was debited for its calls, and those  *)
(* predicted for the calls served at once, are the ones the BIOS routines   *)
(* take: the price of a copy does not depend on where the slices cut it.    *)
(* One fetch a call may be missing: the engine charges the branch that ends *)
(* a word copy on entry, and does not enter a copy the interpreter began.   *)
SwiPriced == at = "jit" /\ m.pc = GamePc => lag - unpaid \in 0 .. calls * Fetch

(* The same of R13 alone: the JIT path debits what a service costs.         *)
SwiDebited == at = "jit" /\ m.pc = GamePc => lag \in 0 .. calls * Fetch

(* Where the game runs and no alert waits for its next slow access, a host  *)
(* copy, a batch, the frames of a parked call and an interrupt's frame have *)
(* left no code to run from an outdated translation.  What an interpreted   *)
(* routine overwrites stays translated: nothing is left but that.           *)
SwiFlushes == at = "jit" /\ InGame(m) /\ ~alert => stale \subseteq missed

==============================================================================
