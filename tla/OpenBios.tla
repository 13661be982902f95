------------------------------ MODULE OpenBios ------------------------------
(***************************************************************************)
(* The part of the open BIOS that ports/fxcg100 replaces at run time       *)
(* (vendor/gpsp/bios/source): the SWI dispatcher, CpuSet, CpuFastSet and   *)
(* the wrapper around the game's interrupt handler, run the way the        *)
(* interpreter runs them.  A step goes from one loop top of the routines   *)
(* to the next; with it comes its cost, counted over the instructions of   *)
(* open_gba_bios.bin.  Addresses count elements, not bytes.                *)
(***************************************************************************)
EXTENDS Integers, Sequences

CONSTANTS
  Region,     \* address -> name of its region
  Host,       \* address -> the host cell behind it (mirrors share a cell)
  Wait,       \* region -> cycles of one access
  Fetch,      \* cycles of one BIOS instruction fetch
  Branch,     \* cycles a taken branch adds
  Chunk       \* words moved by one round of the CpuFastSet loop

ASSUME MemoryNumbered ==
  /\ DOMAIN Region \subseteq DOMAIN Host /\ DOMAIN Host \subseteq Int
  /\ \A a \in DOMAIN Host : Host[a] \in Int
ASSUME CostsCounted ==
  /\ \A a \in DOMAIN Region : Wait[Region[a]] \in Nat
  /\ Wait["iwram"] \in Nat /\ Wait["rom"] \in Nat
  /\ Fetch \in Nat \ {0} /\ Branch \in Nat
ASSUME ChunkMoves == Chunk \in Nat \ {0}

(* Addresses in the BIOS: vectors, routines and their loop tops.            *)
Vector == 8                \* 0x08, the SWI vector
IrqVector == 24            \* 0x18
IrqReturn == 48            \* 0x30
SwiReturn == 148           \* 0x94
SetEntry == 1556           \* 0x614
HalfCopy == 1640           \* 0x668
SetExit == 1668            \* 0x684
WordCopy == 1708           \* 0x6AC
HalfFill == 1764           \* 0x6E4
WordFill == 1800           \* 0x708
FastEntry == 1824          \* 0x720
FastFill == 1904           \* 0x770
FastExit == 1932           \* 0x78C
FastCopy == 1956           \* 0x7A4
BiosEnd == 16384
Limit == 251658239         \* 0x0EFFFFFF
IoBase == 67108864
HandlerCell == 1023        \* 0x03007FFC

(* CPSR modes and bits; bits of the count word of a call.                   *)
User == 16
Irq == 18
Supervisor == 19
System == 31
ThumbBit == 32
IrqOff == 128
FillBit == 16777216
WordBit == 67108864

Regs == {0, 1, 2, 3, 4, 11, 12}

-----------------------------------------------------------------------------
(* A machine x: pc, cpsr, the registers r, the banked SP, LR and SPSR, the  *)
(* memory, and num, the comment field of the last SWI instruction.          *)
ModeOf(cpsr) == cpsr % 32
Masked(cpsr) == cpsr >= IrqOff
Thumb(cpsr) == (cpsr \div ThumbBit) % 2 = 1
Sp(x, b) == x.bank[b].sp
Lr(x, b) == x.bank[b].lr
Read(x, a) == x.mem[Host[a]]
Write(x, a, v) == [x EXCEPT !.mem[Host[a]] = v]
Writes(x, a, vs) ==
  [x EXCEPT !.mem = [i \in DOMAIN x.mem |->
                       IF \E k \in DOMAIN vs : Host[a + k - 1] = i
                       THEN vs[CHOOSE k \in DOMAIN vs : Host[a + k - 1] = i] ELSE x.mem[i]]]
(* STM and LDM on the stack of mode b; LR comes back separately.            *)
Pushed(x, b, vs) ==
  [Writes(x, Sp(x, b) - Len(vs), vs) EXCEPT !.bank[b].sp = @ - Len(vs)]
Popped(x, b, rs) ==
  [x EXCEPT !.r = [k \in DOMAIN x.r |->
                     IF \E i \in DOMAIN rs : rs[i] = k
                     THEN Read(x, Sp(x, b) - 1 + (CHOOSE i \in DOMAIN rs : rs[i] = k)) ELSE x.r[k]],
            !.bank[b].sp = @ + Len(rs)]
Relinked(x, b) == [x EXCEPT !.bank[b].lr = Read(x, Sp(x, b)), !.bank[b].sp = @ + 1]

Count(w) == w % FillBit
Fill(w) == (w \div FillBit) % 2 = 1
Word(w) == (w \div WordBit) % 2 = 1
Rounds(n) == (n + Chunk - 1) \div Chunk
Low(a) == a \in DOMAIN Region /\ Region[a] = "bios"
Cost(a) == Wait[Region[a]]

-----------------------------------------------------------------------------
Stack == Wait["iwram"]
DispatchCost == 19 * Fetch + 3 * Branch + 14 * Stack + Wait["rom"]

(* swi_vector and the STR r4 that opens either routine.                     *)
Dispatched(x, routine) ==
  LET spsr == x.bank["svc"].spsr
      sys  == (IF Masked(spsr) THEN IrqOff ELSE 0) + System
      svc  == Pushed(Pushed(x, "svc", <<x.r[11], x.r[12], Lr(x, "svc")>>), "svc", <<spsr>>)
      usr  == Pushed(svc, "usr", <<x.r[2], x.r[3], Lr(x, "usr")>>)
      sub  == Pushed(usr, "usr", <<x.r[4]>>)
  IN [sub EXCEPT !.cpsr = sys, !.r[11] = sys, !.r[12] = routine, !.bank["usr"].lr = SwiReturn]

Stepped(x, pc, cost) == [x |-> [x EXCEPT !.pc = pc], cost |-> cost]
Loop(pc, r, cost) == [pc |-> pc, r |-> r, cost |-> DispatchCost + Stack + cost]
Entered(x, loop) == Stepped([x EXCEPT !.r = loop.r], loop.pc, loop.cost)

(* swi_CpuSet up to its loop, with the registers r the dispatcher leaves.   *)
(* Where the half copy starts, r12 still holds the routine's address;       *)
(* nothing reads it again, and the caller's value stands for it.            *)
SetStart(x, r) ==
  LET src == x.r[0]  dst == x.r[1]  w == x.r[2]  n == Count(w)
  IN CASE Low(src) -> Loop(SetExit, r, 3 * Fetch + Branch)
       [] ~Low(src) /\ Low(src + n) -> Loop(SetExit, r, 9 * Fetch + Branch)
       [] ~Low(src) /\ ~Low(src + n) /\ ~Word(w) /\ ~Fill(w) ->
            IF n = 0 THEN Loop(SetExit, r, 17 * Fetch + Branch)
            ELSE Loop(HalfCopy, [r EXCEPT ![1] = dst - src, ![2] = src, ![3] = src + n, ![4] = Limit, ![12] = x.r[12]],
                      21 * Fetch)
       [] ~Low(src) /\ ~Low(src + n) /\ ~Word(w) /\ Fill(w) ->
            IF n = 0 THEN Loop(SetExit, [r EXCEPT ![2] = Read(x, src)], 20 * Fetch + Cost(src) + 2 * Branch)
            ELSE Loop(HalfFill, [r EXCEPT ![2] = Read(x, src), ![3] = dst + n], 21 * Fetch + Cost(src) + Branch)
       [] ~Low(src) /\ ~Low(src + n) /\ Word(w) /\ ~Fill(w) ->
            IF n = 0 THEN Loop(SetExit, [r EXCEPT ![2] = src], 21 * Fetch + 2 * Branch)
            ELSE Loop(WordCopy, [r EXCEPT ![1] = dst - src, ![2] = src, ![3] = n, ![12] = Limit], 21 * Fetch + Branch)
       [] ~Low(src) /\ ~Low(src + n) /\ Word(w) /\ Fill(w) ->
            IF n = 0 THEN Loop(SetExit, [r EXCEPT ![2] = Read(x, src)], 22 * Fetch + Cost(src) + 3 * Branch)
            ELSE Loop(WordFill, [r EXCEPT ![2] = Read(x, src), ![3] = n], 22 * Fetch + Cost(src) + 2 * Branch)
EnterSet(x) == LET y == Dispatched(x, SetEntry) IN Entered(y, SetStart(x, y.r))

(* swi_CpuFastSet up to its loop.                                           *)
FastStart(x, r) ==
  LET src == x.r[0]  dst == x.r[1]  w == x.r[2]  n == Count(w)
  IN CASE Low(src) -> Loop(FastExit, r, 3 * Fetch + Branch)
       [] ~Low(src) /\ Low(src + n) -> Loop(FastExit, r, 9 * Fetch + Branch)
       [] ~Low(src) /\ ~Low(src + n) /\ Fill(w) ->
            IF n = 0 THEN Loop(FastExit, [r EXCEPT ![2] = Read(x, src), ![4] = 0], 20 * Fetch + Cost(src) + Branch)
            ELSE Loop(FastFill, [r EXCEPT ![2] = Read(x, src), ![3] = src, ![4] = n], 20 * Fetch + Cost(src))
       [] ~Low(src) /\ ~Low(src + n) /\ ~Fill(w) ->
            IF n = 0 THEN Loop(FastExit, [r EXCEPT ![3] = src, ![4] = 0], 19 * Fetch + 2 * Branch)
            ELSE Loop(FastCopy, [r EXCEPT ![1] = dst - src, ![3] = src, ![4] = n, ![12] = Limit], 19 * Fetch + Branch)
EnterFast(x) == LET y == Dispatched(x, FastEntry) IN Entered(y, FastStart(x, y.r))

(* One round of each loop, element by element and forwards; leaving a loop  *)
(* that ends in B costs that branch, the others fall through.               *)
Again(x, again, top, out, cost, jump) ==
  IF again THEN Stepped(x, top, cost + Branch)
  ELSE Stepped(x, out, cost + (IF jump THEN Fetch + Branch ELSE 0))

HalfCopied(x) ==
  LET v == Read(x, x.r[2])
      y == [Write(x, x.r[1] + x.r[2], v) EXCEPT !.r[12] = v, !.r[2] = @ + 1]
  IN Again(y, y.r[2] # y.r[3], HalfCopy, SetExit, 7 * Fetch + Cost(x.r[2]) + Cost(x.r[1] + x.r[2]), FALSE)
WordCopied(x) ==
  LET v == Read(x, x.r[2])
      y == [Write(x, x.r[1] + x.r[2], v) EXCEPT !.r[0] = v, !.r[2] = @ + 1, !.r[3] = @ - 1]
  IN Again(y, y.r[3] # 0, WordCopy, SetExit, 7 * Fetch + Cost(x.r[2]) + Cost(x.r[1] + x.r[2]), TRUE)
HalfFilled(x) ==
  LET y == [Write(x, x.r[1], x.r[2]) EXCEPT !.r[1] = @ + 1]
  IN Again(y, y.r[1] # y.r[3], HalfFill, SetExit, 3 * Fetch + Cost(x.r[1]), TRUE)
WordFilled(x) ==
  LET y == [Write(x, x.r[1], x.r[2]) EXCEPT !.r[1] = @ + 1, !.r[3] = @ - 1]
  IN Again(y, y.r[3] # 0, WordFill, SetExit, 3 * Fetch + Cost(x.r[1]), TRUE)

FastCopied(x) ==
  LET moved[k \in 0 .. Chunk] ==
        IF k = 0 THEN [x EXCEPT !.r[0] = x.r[3] + Chunk]
        ELSE LET y == moved[k - 1]  v == Read(y, y.r[3])
             IN [Write(y, y.r[1] + y.r[3], v) EXCEPT !.r[2] = v, !.r[3] = @ + 1]
      z == [moved[Chunk] EXCEPT !.r[4] = @ - Chunk]
  IN Again(z, z.r[4] > 0, FastCopy, FastExit,
           (4 + 7 * Chunk) * Fetch + Chunk * (Cost(x.r[3]) + Cost(x.r[1] + x.r[3])) + (Chunk - 1) * Branch, TRUE)
FastFilled(x) ==
  LET y == [Writes(x, x.r[1], [k \in 1 .. Chunk |-> x.r[2]]) EXCEPT
              !.r[1] = @ + Chunk, !.r[3] = x.r[1] + Chunk, !.r[4] = @ - Chunk]
  IN Again(y, y.r[4] > 0, FastFill, FastExit,
           (4 + 3 * Chunk) * Fetch + Chunk * Cost(x.r[1]) + (Chunk - 1) * Branch, FALSE)

(* The end of a routine, swi_complete and MOVS pc, lr.                      *)
SpsrFrom11(x) == [x EXCEPT !.bank["svc"].spsr = x.r[11]]
Returned(x) ==
  Stepped([x EXCEPT !.cpsr = x.bank["svc"].spsr], Lr(x, "svc"), 2 * Fetch + Stack + Branch)
Completed(x) ==
  LET usr == Relinked(Popped(Popped(x, "usr", <<4>>), "usr", <<2, 3>>), "usr")
      svc == SpsrFrom11(Popped(usr, "svc", <<11>>))
  IN Returned(Relinked(Popped(svc, "svc", <<11, 12>>), "svc"))

-----------------------------------------------------------------------------
(* irq_vector, and the interrupt that a return may find waiting.            *)
IrqEntered(x) ==
  LET y == Pushed(x, "irq", <<x.r[0], x.r[1], x.r[2], x.r[3], x.r[12], Lr(x, "irq")>>)
  IN [y EXCEPT !.r[0] = IoBase, !.bank["irq"].lr = IrqReturn,
               !.pc = Read(x, HandlerCell) - (Read(x, HandlerCell) % 4)]
Interrupted(x) ==
  [x EXCEPT !.bank["irq"].lr = x.pc + 4, !.bank["irq"].spsr = x.cpsr,
            !.cpsr = Irq + IrqOff + 64, !.pc = IrqVector]
IrqBack(x) == [x EXCEPT !.cpsr = x.bank["irq"].spsr, !.pc = Lr(x, "irq") - 4]
Unmasked(x, waiting) == IF waiting /\ ~Masked(x.cpsr) THEN Interrupted(x) ELSE x
IrqLeft(x, waiting) ==
  Unmasked(IrqBack(Relinked(Popped(x, "irq", <<0, 1, 2, 3, 12>>), "irq")), waiting)

(* One step of the interpreter inside the BIOS.                             *)
BiosStep(x, waiting) ==
  CASE x.pc = Vector /\ x.num = 11 -> EnterSet(x)
    [] x.pc = Vector /\ x.num = 12 -> EnterFast(x)
    [] x.pc = HalfCopy -> HalfCopied(x)
    [] x.pc = WordCopy -> WordCopied(x)
    [] x.pc = HalfFill -> HalfFilled(x)
    [] x.pc = WordFill -> WordFilled(x)
    [] x.pc = FastCopy -> FastCopied(x)
    [] x.pc = FastFill -> FastFilled(x)
    [] x.pc \in {SetExit, FastExit} -> Completed(x)
    [] x.pc = IrqVector -> [x |-> IrqEntered(x), cost |-> 0]
    [] x.pc = IrqReturn -> [x |-> IrqLeft(x, waiting), cost |-> 0]
    [] OTHER -> [x |-> x, cost |-> 0]
=============================================================================
