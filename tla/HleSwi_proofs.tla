--------------------------- MODULE HleSwi_proofs ---------------------------
(***************************************************************************)
(* That the emulated BIOS services are faithful, for every memory map,     *)
(* calls, interrupt handler, slices and costs: the machine they work on    *)
(* looks to the game as one that interpreted every BIOS instruction.  The  *)
(* invariant says where the reference machine is in the protocol of calls  *)
(* and interrupts, and that the services' machine is like it.              *)
(***************************************************************************)
EXTENDS HleMachine_proofs

-----------------------------------------------------------------------------
(* Where a machine is in the protocol of calls and interrupts.  A task is   *)
(* the game or its interrupt handler: it runs, it asks for a service, or    *)
(* the BIOS copies for it.  u and s are the stack pointers it runs with.    *)

AllCalls == Calls \cup IsrCalls
Levels == {"game", "isr"}
HomeOf(l) == IF l = "game" THEN GamePc ELSE IsrPc
Callers(l) == IF l = "game" THEN {User, User + ThumbBit} ELSE {Irq + IrqOff + 64, Irq + IrqOff + 64 + ThumbBit}
SysOn(l) == IF l = "game" THEN System ELSE System + IrqOff

TopOf(c) ==
  IF c.num = 12 THEN IF Fill(c.r2) THEN FastFill ELSE FastCopy
  ELSE IF Word(c.r2) THEN IF Fill(c.r2) THEN WordFill ELSE WordCopy
       ELSE IF Fill(c.r2) THEN HalfFill ELSE HalfCopy
UnitOf(c) == IF c.num = 12 THEN Chunk ELSE 1
Exits == {SetExit, FastExit}
\* The thread z is q rounds into the loop of the call c, or past it.
Within(c, q, z) ==
  /\ q * UnitOf(c) < Count(c.r2) /\ LeftAt(z) = Count(c.r2) - q * UnitOf(c)
  /\ DestAt(z) = c.r1 + q * UnitOf(c)
  /\ ~Fill(c.r2) => FromAt(z) = c.r0 + q * UnitOf(c)
Looping(c, z) == z.pc \in Exits \/ (z.pc = TopOf(c) /\ \E q \in Nat : Within(c, q, z))

Based(x, u, s) == Sp(x, "usr") = u /\ Sp(x, "svc") = s
Idle(x, l, u, s) ==
  /\ x.pc = HomeOf(l) \/ (l = "isr" /\ x.pc = IrqReturn)
  /\ x.cpsr \in Callers(l) /\ Based(x, u, s)
Asked(x, c) == x.num = c.num /\ x.r[0] = c.r0 /\ x.r[1] = c.r1 /\ x.r[2] = c.r2
Asking(x, l, u, s) ==
  /\ x.pc = Vector /\ Masked(x.cpsr) /\ Lr(x, "svc") = HomeOf(l) /\ x.bank["svc"].spsr \in Callers(l)
  /\ Based(x, u, s) /\ \E c \in AllCalls : Asked(x, c)
Copying(x, l, u, s) ==
  /\ x.cpsr = SysOn(l) /\ Based(x, u - 4, s - 4)
  /\ Read(x, s - 4) \in Callers(l) /\ Read(x, s - 1) = HomeOf(l)
  /\ \E c \in AllCalls : Looping(c, x)
Task(x, l, u, s) == Idle(x, l, u, s) \/ Asking(x, l, u, s) \/ Copying(x, l, u, s)

\* The game's thread z, interrupted at home or in a copy.
Ways == {"idle", "copy"}
UBase(g) == IF g = "copy" THEN UserTop - 4 ELSE UserTop
SBase(g) == IF g = "copy" THEN SvcTop - 4 ELSE SvcTop
Thread(x, g, z, cpsr) ==
  IF g = "copy"
  THEN /\ cpsr = System /\ Read(x, SvcTop - 4) \in Callers("game") /\ Read(x, SvcTop - 1) = GamePc
       /\ \E c \in AllCalls : Looping(c, z)
  ELSE z.pc = GamePc /\ cpsr \in Callers("game")
\* The registers of the interrupted thread: a copy for the handler has r4 in
\* its frame, the wrapper the others.
R4At(x, u) == IF Sp(x, "usr") = u THEN x.r[4] ELSE Read(x, u - 4)
Saved(x, u) ==
  [pc |-> Read(x, IrqTop - 1) - 4,
   r |-> [k \in 1 .. 4 |-> IF k = 4 THEN R4At(x, u) ELSE Read(x, IrqTop - 6 + k)]]
Context(x, l, u, s) ==
  \/ l = "game" /\ u = UserTop /\ s = SvcTop /\ Sp(x, "irq") = IrqTop
  \/ /\ l = "isr" /\ Sp(x, "irq") = IrqTop - 6
     /\ \E g \in Ways : u = UBase(g) /\ s = SBase(g) /\ Thread(x, g, Saved(x, u), x.bank["irq"].spsr)
Raising(x, g) ==
  /\ x.pc = IrqVector /\ x.cpsr = Irq + IrqOff + 64 /\ Sp(x, "irq") = IrqTop
  /\ Based(x, UBase(g), SBase(g))
  /\ Thread(x, g, [pc |-> Lr(x, "irq") - 4, r |-> x.r], x.bank["irq"].spsr)
Bases(l, u, s) == l \in Levels /\ u \in {UserTop, UserTop - 4} /\ s \in {SvcTop, SvcTop - 4}
Active(x, l, u, s) == Bases(l, u, s) /\ Context(x, l, u, s) /\ Task(x, l, u, s)
Proto(x) ==
  /\ x \in Machine /\ Handler(x) \in Handlers
  /\ \/ \E g \in Ways : Raising(x, g)
     \/ \E l \in Levels, u \in {UserTop, UserTop - 4}, s \in {SvcTop, SvcTop - 4} : Active(x, l, u, s)

\* The invariant: the reference y is in the protocol, and the machine x, whose
\* engine has still to leave a loop that has ended, is like it.
Agrees(a, x, y) ==
  /\ x \in Machine /\ Proto(y)
  /\ Same(IF a = "engine" THEN Settled(x) ELSE x, y)
  /\ a = "engine" => x.pc \in Tops
IInv == Agrees(at, m, ref) /\ budget \in Int

LEMMA CallersAre ==
  /\ Callers("game") = {16, 48} /\ Callers("isr") = {210, 242}
  /\ \A l \in Levels : \A c \in Callers(l) : c \in Int /\ (Masked(c) <=> l = "isr")
  /\ SysOn("game") = 31 /\ SysOn("isr") = 159
  /\ HomeOf("game") = 20000 /\ HomeOf("isr") = 30000
  /\ \A l \in Levels : l = "game" \/ l = "isr"
  /\ "game" \in Levels /\ "isr" \in Levels
<1>1. Callers("game") = {16, 48} /\ Callers("isr") = {210, 242}
  BY DEF Callers, User, ThumbBit, Irq, IrqOff
<1>2. \A l \in Levels : l = "game" \/ l = "isr"
  BY DEF Levels
<1>3. \A l \in Levels : \A c \in Callers(l) : c \in Int /\ (Masked(c) <=> l = "isr")
  <2>1. \A c \in Callers("game") : c \in Int /\ ~Masked(c)
    BY <1>1 DEF Masked, IrqOff
  <2>2. \A c \in Callers("isr") : c \in Int /\ Masked(c)
    BY <1>1 DEF Masked, IrqOff
  <2>3. "game" # "isr"
    OBVIOUS
  <2> QED
    BY <1>2, <2>1, <2>2, <2>3
<1>4. SysOn("game") = 31 /\ SysOn("isr") = 159 /\ HomeOf("game") = 20000 /\ HomeOf("isr") = 30000
  BY DEF SysOn, HomeOf, System, IrqOff, GamePc, IsrPc
<1>5. "game" \in Levels /\ "isr" \in Levels
  BY DEF Levels
<1> QED
  BY <1>1, <1>2, <1>3, <1>4, <1>5

LEMMA SysIs ==
  ASSUME NEW x, NEW l \in Levels, x.bank["svc"].spsr \in Callers(l)
  PROVE  SysOf(x) = SysOn(l)
<1>1. Masked(x.bank["svc"].spsr) <=> l = "isr"
  BY CallersAre
<1> QED
  BY <1>1, CallersAre DEF SysOf, SysOn, System, IrqOff

LEMMA BasesAre ==
  ASSUME NEW l, NEW u, NEW s, Bases(l, u, s)
  PROVE  /\ u \in Int /\ s \in Int /\ l \in Levels
         /\ u = 1008 \/ u = 1004
         /\ s = 1016 \/ s = 1012
BY DEF Bases, UserTop, SvcTop

\* A loop is known by its address and four registers.
LEMMA LoopSame ==
  ASSUME NEW c, NEW z, NEW y, z.pc = y.pc,
         z.r[1] = y.r[1] /\ z.r[2] = y.r[2] /\ z.r[3] = y.r[3] /\ z.r[4] = y.r[4],
         Looping(c, z)
  PROVE  Looping(c, y)
<1>1. LeftAt(z) = LeftAt(y) /\ DestAt(z) = DestAt(y) /\ FromAt(z) = FromAt(y)
  BY DEF LeftAt, DestAt, FromAt
<1>2. \A q : Within(c, q, z) => Within(c, q, y)
  BY <1>1 DEF Within
<1> QED
  BY <1>2 DEF Looping

\* The stacks in use, the interrupt's registers and the saved r4 are kept.
Kept(x, y, u, s) ==
  /\ \A a \in Stacks : (u <= a /\ a < UserTop) \/ (s <= a /\ a < SvcTop) \/ Sp(x, "irq") <= a => Read(y, a) = Read(x, a)
  /\ y.bank["irq"] = x.bank["irq"] /\ R4At(y, u) = R4At(x, u)

LEMMA ContextKept ==
  ASSUME NEW x \in Machine, NEW y \in Machine, NEW l, NEW u, NEW s, Bases(l, u, s), Context(x, l, u, s), Kept(x, y, u, s)
  PROVE  Context(y, l, u, s) /\ Handler(y) = Handler(x)
<1>1. Sp(y, "irq") = Sp(x, "irq") /\ y.bank["irq"].spsr = x.bank["irq"].spsr
  BY DEF Kept, Sp
<1>2. Sp(x, "irq") \in {1022, 1016}
  BY DEF Context, IrqTop
<1>3. Handler(y) = Handler(x)
  <2>1. 1023 \in Stacks /\ Sp(x, "irq") <= 1023
    BY <1>2, StacksAre
  <2> QED
    BY <2>1 DEF Kept, Handler, HandlerCell
<1>4. CASE l = "game"
  BY <1>1, <1>3, <1>4 DEF Context
<1>5. CASE l = "isr"
  <2>1. Sp(x, "irq") = 1016
    BY <1>5 DEF Context, IrqTop
  <2>2. PICK g \in Ways : u = UBase(g) /\ s = SBase(g) /\ Thread(x, g, Saved(x, u), x.bank["irq"].spsr)
    BY <1>5 DEF Context
  <2>3. \A a \in Stacks : 1016 <= a => Read(y, a) = Read(x, a)
    BY <2>1 DEF Kept
  <2>4. Saved(y, u) = Saved(x, u)
    <3>1. \A k \in 1 .. 4 : IrqTop - 6 + k \in Stacks /\ 1016 <= IrqTop - 6 + k
      BY StacksAre DEF IrqTop
    <3>2. IrqTop - 1 \in Stacks /\ 1016 <= IrqTop - 1
      BY StacksAre DEF IrqTop
    <3>3. R4At(y, u) = R4At(x, u)
      BY DEF Kept
    <3> QED
      BY <2>3, <3>1, <3>2, <3>3 DEF Saved
  <2>5. g = "copy" => Read(y, SvcTop - 4) = Read(x, SvcTop - 4) /\ Read(y, SvcTop - 1) = Read(x, SvcTop - 1)
    <3>1. SvcTop - 4 \in Stacks /\ SvcTop - 1 \in Stacks /\ SvcTop - 4 < SvcTop /\ SvcTop - 1 < SvcTop /\ SvcTop - 4 <= SvcTop - 1
      BY StacksAre DEF SvcTop
    <3>2. g = "copy" => s <= SvcTop - 4 /\ s <= SvcTop - 1
      BY <2>2 DEF SBase, SvcTop
    <3> QED
      BY <3>1, <3>2 DEF Kept
  <2>6. Thread(y, g, Saved(y, u), y.bank["irq"].spsr)
    BY <1>1, <2>2, <2>4, <2>5 DEF Thread
  <2>7. Sp(y, "irq") = IrqTop - 6
    BY <1>1, <1>5 DEF Context
  <2> QED
    BY <1>3, <1>5, <2>2, <2>6, <2>7 DEF Context
<1> QED
  BY <1>4, <1>5, CallersAre, BasesAre

LEMMA PlacesAre ==
  /\ Loops = {1904, 1764, 1800, 1956, 1640, 1708} /\ Exits = {1668, 1932} /\ Tops = {1956, 1904, 1708, 1640}
  /\ Fills = {1904, 1764, 1800} /\ Fasts = {1956, 1904}
  /\ GamePc = 20000 /\ IsrPc = 30000 /\ IrqReturn = 48 /\ IrqVector = 24 /\ Vector = 8
  /\ SetEntry = 1556 /\ FastEntry = 1824
  /\ \A c : TopOf(c) \in Loops
BY DEF Loops, Exits, Tops, Fills, Fasts, GamePc, IsrPc, IrqReturn, IrqVector, Vector, TopOf, SetEntry, FastEntry,
       FastFill, HalfFill, WordFill, FastCopy, HalfCopy, WordCopy, SetExit, FastExit

\* What a task does is known by its address.
LEMMA TaskAt ==
  ASSUME NEW x, NEW l \in Levels, NEW u, NEW s, Task(x, l, u, s)
  PROVE  /\ x.pc # IrqVector
         /\ x.pc \in Loops \cup Exits => Copying(x, l, u, s)
         /\ x.pc = Vector => Asking(x, l, u, s)
         /\ x.pc \in {GamePc, IsrPc, IrqReturn} => Idle(x, l, u, s)
         /\ x.pc \in Loops \cup Exits \cup {Vector, GamePc, IsrPc, IrqReturn}
<1>1. Idle(x, l, u, s) => x.pc \in {GamePc, IsrPc, IrqReturn}
  BY CallersAre, PlacesAre DEF Idle
<1>2. Asking(x, l, u, s) => x.pc = Vector
  BY DEF Asking
<1>3. Copying(x, l, u, s) => x.pc \in Loops \cup Exits
  BY PlacesAre DEF Copying, Looping
<1> QED
  BY <1>1, <1>2, <1>3, PlacesAre DEF Task

LEMMA RaisingAt ==
  ASSUME NEW x, Proto(x)
  PROVE  /\ x.pc = IrqVector => \E g \in Ways : Raising(x, g)
         /\ x.pc # IrqVector =>
              \E l \in Levels, u \in {UserTop, UserTop - 4}, s \in {SvcTop, SvcTop - 4} : Active(x, l, u, s)
<1>1. \A l \in Levels, u \in {UserTop, UserTop - 4}, s \in {SvcTop, SvcTop - 4} : Active(x, l, u, s) => x.pc # IrqVector
  BY TaskAt DEF Active
<1>2. \A g \in Ways : Raising(x, g) => x.pc = IrqVector
  BY DEF Raising
<1> QED
  BY <1>1, <1>2 DEF Proto

\* Where the stack pointers are.
LEMMA SeatsAre ==
  ASSUME NEW x, Proto(x)
  PROVE  x \in Machine /\ Seated(x) /\ Handler(x) \in Handlers
<1>1. CASE \E g \in Ways : Raising(x, g)
  BY <1>1 DEF Proto, Raising, Based, UBase, SBase, Seated, UserTop, SvcTop, IrqTop
<1>2. CASE \E l \in Levels, u \in {UserTop, UserTop - 4}, s \in {SvcTop, SvcTop - 4} : Active(x, l, u, s)
  <2>1. PICK l \in Levels, u \in {UserTop, UserTop - 4}, s \in {SvcTop, SvcTop - 4} : Active(x, l, u, s)
    BY <1>2
  <2>2. Sp(x, "irq") \in {IrqTop, IrqTop - 6}
    BY <2>1 DEF Active, Context
  <2>3. Based(x, u, s) \/ Based(x, u - 4, s - 4)
    BY <2>1 DEF Active, Task, Idle, Asking, Copying
  <2> QED
    BY <2>2, <2>3 DEF Proto, Based, Seated, UserTop, SvcTop, IrqTop
<1> QED
  BY <1>1, <1>2 DEF Proto

LEMMA StacksIn ==
  ASSUME NEW x, NEW l, NEW u, NEW s, Active(x, l, u, s)
  PROVE  /\ Idle(x, l, u, s) \/ Asking(x, l, u, s) => Roomy(x)
         /\ Copying(x, l, u, s) => Framing(x)
         /\ Sp(x, "irq") \in {IrqTop, IrqTop - 6}
<1>1. Sp(x, "irq") \in {IrqTop, IrqTop - 6}
  BY DEF Active, Context
<1>2. Bases(l, u, s)
  BY DEF Active
<1>3. Idle(x, l, u, s) \/ Asking(x, l, u, s) => Roomy(x)
  BY <1>1, <1>2 DEF Idle, Asking, Based, Roomy, Bases
<1>4. Copying(x, l, u, s) => Framing(x)
  BY <1>2 DEF Copying, Based, Framing, Bases, UserTop, SvcTop
<1> QED
  BY <1>1, <1>3, <1>4

\* Alike machines are at the same place of the protocol.
LEMMA SameProto ==
  ASSUME NEW x, NEW y, Same(x, y), Proto(x)
  PROVE  Proto(y)
<1>1. x \in Machine /\ y \in Machine /\ x.pc = y.pc /\ x.cpsr = y.cpsr /\ x.num = y.num /\ x.r = y.r /\ x.bank = y.bank
  BY DEF Same
<1>2. Seated(x)
  BY SeatsAre
<1>3. \A a \in Stacks : a \notin Free(x) => Read(x, a) = Read(y, a)
  BY <1>2, SameGives
<1>4. Handler(y) = Handler(x)
  <2>1. HandlerCell \in Stacks /\ HandlerCell \notin Free(x)
    BY <1>2, StacksAre DEF HandlerCell, Free, Seated, UserTop, SvcTop, IrqTop
  <2> QED
    BY <1>3, <2>1 DEF Handler
<1>5. \A b : Sp(y, b) = Sp(x, b) /\ Lr(y, b) = Lr(x, b)
  BY <1>1 DEF Sp, Lr
<1>6. ASSUME NEW g \in Ways, Raising(x, g) PROVE Raising(y, g)
  <2>1. Thread(x, g, [pc |-> Lr(x, "irq") - 4, r |-> x.r], x.bank["irq"].spsr)
    BY <1>6 DEF Raising
  <2>2. g = "copy" => Read(y, SvcTop - 4) = Read(x, SvcTop - 4) /\ Read(y, SvcTop - 1) = Read(x, SvcTop - 1)
    <3>1. SvcTop - 4 \in Stacks /\ SvcTop - 1 \in Stacks
      BY StacksAre DEF SvcTop
    <3>2. g = "copy" => SvcTop - 4 \notin Free(x) /\ SvcTop - 1 \notin Free(x)
      BY <1>2, <1>6 DEF Raising, Based, SBase, UBase, Free, Seated, UserTop, SvcTop, IrqTop
    <3> QED
      BY <1>3, <3>1, <3>2
  <2>3. Thread(y, g, [pc |-> Lr(y, "irq") - 4, r |-> y.r], y.bank["irq"].spsr)
    BY <1>1, <1>5, <2>1, <2>2 DEF Thread
  <2> QED
    BY <1>1, <1>5, <1>6, <2>3 DEF Raising, Based
<1>7. ASSUME NEW l \in Levels, NEW u \in {UserTop, UserTop - 4}, NEW s \in {SvcTop, SvcTop - 4}, Active(x, l, u, s)
      PROVE  Active(y, l, u, s)
  <2>1. Bases(l, u, s) /\ Context(x, l, u, s) /\ Task(x, l, u, s)
    BY <1>7 DEF Active
  <2>2. (u = 1008 \/ u = 1004) /\ (s = 1016 \/ s = 1012)
    BY <2>1, BasesAre
  <2>3. Based(x, u, s) \/ Based(x, u - 4, s - 4)
    BY <2>1 DEF Task, Idle, Asking, Copying
  <2>4. \A a \in Stacks : (u <= a /\ a < UserTop) \/ (s <= a /\ a < SvcTop) \/ Sp(x, "irq") <= a => a \notin Free(x)
    BY <1>2, <2>2, <2>3, StacksAre DEF Free, Based, UserTop, SvcTop, IrqTop, Seated
  <2>5. R4At(y, u) = R4At(x, u)
    <3>1. CASE Sp(x, "usr") = u
      BY <1>1, <1>5, <3>1 DEF R4At
    <3>2. CASE Sp(x, "usr") # u
      <4>1. u - 4 \in Stacks /\ u - 4 \notin Free(x)
        BY <1>2, <2>2, <2>3, <3>2, StacksAre DEF Free, Based, UserTop, SvcTop, IrqTop, Seated
      <4>2. Read(x, u - 4) = Read(y, u - 4)
        BY <1>3, <4>1
      <4> QED
        BY <1>5, <3>2, <4>2 DEF R4At
    <3> QED
      BY <3>1, <3>2
  <2>6. Kept(x, y, u, s)
    BY <1>1, <1>3, <2>4, <2>5 DEF Kept
  <2>7. Context(y, l, u, s)
    BY <1>1, <2>1, <2>6, ContextKept
  <2>8. Task(y, l, u, s)
    <3>1. Idle(x, l, u, s) => Idle(y, l, u, s)
      BY <1>1, <1>5 DEF Idle, Based
    <3>2. Asking(x, l, u, s) => Asking(y, l, u, s)
      BY <1>1, <1>5 DEF Asking, Based, Asked
    <3>3. ASSUME Copying(x, l, u, s) PROVE Copying(y, l, u, s)
      <4>1. s - 4 \in Stacks /\ s - 1 \in Stacks /\ s - 4 \notin Free(x) /\ s - 1 \notin Free(x)
        BY <1>2, <2>2, <3>3, StacksAre DEF Free, Copying, Based, UserTop, SvcTop, IrqTop, Seated
      <4>2. Read(x, s - 4) = Read(y, s - 4) /\ Read(x, s - 1) = Read(y, s - 1)
        BY <1>3, <4>1
      <4>3. \A c : Looping(c, x) => Looping(c, y)
        BY <1>1, LoopSame
      <4> QED
        BY <1>1, <1>5, <3>3, <4>2, <4>3 DEF Copying, Based
    <3> QED
      BY <2>1, <3>1, <3>2, <3>3 DEF Task
  <2> QED
    BY <2>1, <2>7, <2>8 DEF Active
<1> QED
  BY <1>1, <1>4, <1>6, <1>7 DEF Proto

-----------------------------------------------------------------------------
(* The start of a call.                                                     *)

LEMMA CallIs ==
  ASSUME NEW c \in AllCalls
  PROVE  c.num \in {11, 12} /\ c.r0 \in Int /\ c.r1 \in Int /\ c.r2 \in Nat /\ Count(c.r2) \in Nat
<1>1. c.num \in {11, 12} /\ c.r0 \in Int /\ c.r1 \in Int /\ c.r2 \in Nat
  BY CallsTyped DEF AllCalls
<1> QED
  BY <1>1 DEF Count, FillBit

Longer(x) == ~Low(x.r[0]) /\ ~Low(x.r[0] + Count(x.r[2]))
LEMMA SetStartIs ==
  ASSUME NEW x, NEW r, Longer(x)
  PROVE  LET src == x.r[0]  dst == x.r[1]  w == x.r[2]  n == Count(w) IN
         /\ ~Word(w) /\ ~Fill(w) => SetStart(x, r) =
              IF n = 0 THEN Loop(SetExit, r, 17 * Fetch + Branch)
              ELSE Loop(HalfCopy, [r EXCEPT ![1] = dst - src, ![2] = src, ![3] = src + n, ![4] = Limit, ![12] = x.r[12]],
                        21 * Fetch)
         /\ ~Word(w) /\ Fill(w) => SetStart(x, r) =
              IF n = 0 THEN Loop(SetExit, [r EXCEPT ![2] = Read(x, src)], 20 * Fetch + Cost(src) + 2 * Branch)
              ELSE Loop(HalfFill, [r EXCEPT ![2] = Read(x, src), ![3] = dst + n], 21 * Fetch + Cost(src) + Branch)
         /\ Word(w) /\ ~Fill(w) => SetStart(x, r) =
              IF n = 0 THEN Loop(SetExit, [r EXCEPT ![2] = src], 21 * Fetch + 2 * Branch)
              ELSE Loop(WordCopy, [r EXCEPT ![1] = dst - src, ![2] = src, ![3] = n, ![12] = Limit], 21 * Fetch + Branch)
         /\ Word(w) /\ Fill(w) => SetStart(x, r) =
              IF n = 0 THEN Loop(SetExit, [r EXCEPT ![2] = Read(x, src)], 22 * Fetch + Cost(src) + 3 * Branch)
              ELSE Loop(WordFill, [r EXCEPT ![2] = Read(x, src), ![3] = n], 22 * Fetch + Cost(src) + 2 * Branch)
BY Zenon DEF SetStart, Longer

LEMMA FastStartIs ==
  ASSUME NEW x, NEW r, Longer(x)
  PROVE  LET src == x.r[0]  dst == x.r[1]  w == x.r[2]  n == Count(w) IN
         /\ Fill(w) => FastStart(x, r) =
              IF n = 0 THEN Loop(FastExit, [r EXCEPT ![2] = Read(x, src), ![4] = 0], 20 * Fetch + Cost(src) + Branch)
              ELSE Loop(FastFill, [r EXCEPT ![2] = Read(x, src), ![3] = src, ![4] = n], 20 * Fetch + Cost(src))
         /\ ~Fill(w) => FastStart(x, r) =
              IF n = 0 THEN Loop(FastExit, [r EXCEPT ![3] = src, ![4] = 0], 19 * Fetch + 2 * Branch)
              ELSE Loop(FastCopy, [r EXCEPT ![1] = dst - src, ![3] = src, ![4] = n, ![12] = Limit], 19 * Fetch + Branch)
BY Zenon DEF FastStart, Longer

RoutineOf(x) == IF x.num = 11 THEN SetEntry ELSE FastEntry
StartOf(x, r) == IF x.num = 11 THEN SetStart(x, r) ELSE FastStart(x, r)
Opening(x) == Dispatched(x, RoutineOf(x))
\* The place and the registers st with which the call c starts.
Begun(c, x, st) ==
  /\ st.pc \in Int /\ st.r \in [Regs -> Int] /\ st.cost \in Int /\ st.r[0] = c.r0
  /\ Count(c.r2) = 0 => st.pc \in Exits /\ st.r[1] = c.r1
  /\ Count(c.r2) # 0 =>
       /\ st.pc = TopOf(c) /\ st.r[1] = IF Fill(c.r2) THEN c.r1 ELSE c.r1 - c.r0
       /\ Fill(c.r2) => st.r[2] = Read(x, c.r0)
       /\ st.pc = HalfCopy => st.r[2] = c.r0 /\ st.r[3] = c.r0 + Count(c.r2)
       /\ st.pc = HalfFill => st.r[3] = c.r1 + Count(c.r2)
       /\ st.pc = WordCopy => st.r[2] = c.r0 /\ st.r[3] = Count(c.r2)
       /\ st.pc = WordFill => st.r[3] = Count(c.r2)
       /\ st.pc \in Fasts => st.r[3] = c.r0 /\ st.r[4] = Count(c.r2)

LEMMA CostsAre ==
  /\ \A a \in DOMAIN Region : Cost(a) \in Nat
  /\ Fetch \in Nat /\ Fetch > 0 /\ Branch \in Nat /\ Stack \in Nat /\ Chunk \in Nat /\ Chunk > 0
  /\ DispatchCost \in Nat
<1>1. /\ \A a \in DOMAIN Region : Cost(a) \in Nat
      /\ Fetch \in Nat /\ Fetch > 0 /\ Branch \in Nat /\ Stack \in Nat /\ Chunk \in Nat /\ Chunk > 0
  BY CostsCounted, ChunkMoves DEF Cost, Stack
<1>2. Wait["rom"] \in Nat
  BY CostsCounted
<1>3. 19 * Fetch \in Nat /\ 3 * Branch \in Nat /\ 14 * Stack \in Nat
  BY <1>1
<1> QED
  BY <1>1, <1>2, <1>3 DEF DispatchCost

\* What a clean call says of its ranges.
LEMMA CleanIs ==
  ASSUME NEW c \in AllCalls, Clean(c)
  PROVE  /\ ~Low(c.r0) /\ ~Low(c.r0 + Count(c.r2))
         /\ \A a \in SourceOf(c) \cup TargetOf(c) : a \in DOMAIN Region /\ a \in DOMAIN Host /\ OffStacks(Host[a])
         /\ \A a, b \in TargetOf(c) : Host[a] = Host[b] => a = b
         /\ ~Fill(c.r2) => \A a \in SourceOf(c), b \in TargetOf(c) : Host[a] # Host[b]
         /\ Fill(c.r2) => c.r0 \in SourceOf(c)
         /\ Cost(c.r0) \in Int \/ ~Fill(c.r2)
<1>1. \A a \in SourceOf(c) \cup TargetOf(c) : a \in DOMAIN Region /\ a \in DOMAIN Host /\ OffStacks(Host[a])
  BY MemoryNumbered DEF Clean, OffStacks
<1>2. Fill(c.r2) => c.r0 \in SourceOf(c)
  BY CallIs DEF SourceOf, Span
<1> QED
  BY <1>1, <1>2, CostsAre DEF Clean

LEMMA TopIs ==
  ASSUME NEW c \in AllCalls
  PROVE  /\ c.num = 11 /\ ~Word(c.r2) /\ ~Fill(c.r2) => TopOf(c) = HalfCopy
         /\ c.num = 11 /\ ~Word(c.r2) /\ Fill(c.r2) => TopOf(c) = HalfFill
         /\ c.num = 11 /\ Word(c.r2) /\ ~Fill(c.r2) => TopOf(c) = WordCopy
         /\ c.num = 11 /\ Word(c.r2) /\ Fill(c.r2) => TopOf(c) = WordFill
         /\ c.num = 12 /\ Fill(c.r2) => TopOf(c) = FastFill
         /\ c.num = 12 /\ ~Fill(c.r2) => TopOf(c) = FastCopy
         /\ c.num = 11 \/ c.num = 12
         /\ TopOf(c) \in Fills <=> Fill(c.r2)
         /\ TopOf(c) \in Fasts <=> c.num = 12
<1>1. c.num = 11 \/ c.num = 12
  BY CallIs
<1>2. /\ c.num = 11 /\ ~Word(c.r2) /\ ~Fill(c.r2) => TopOf(c) = HalfCopy
      /\ c.num = 11 /\ ~Word(c.r2) /\ Fill(c.r2) => TopOf(c) = HalfFill
      /\ c.num = 11 /\ Word(c.r2) /\ ~Fill(c.r2) => TopOf(c) = WordCopy
      /\ c.num = 11 /\ Word(c.r2) /\ Fill(c.r2) => TopOf(c) = WordFill
      /\ c.num = 12 /\ Fill(c.r2) => TopOf(c) = FastFill
      /\ c.num = 12 /\ ~Fill(c.r2) => TopOf(c) = FastCopy
  BY DEF TopOf
<1> QED
  BY <1>1, <1>2, PlacesAre DEF FastFill, HalfFill, WordFill, FastCopy, HalfCopy, WordCopy

LEMMA StartIs ==
  ASSUME NEW x \in Machine, NEW c \in AllCalls, Asked(x, c), Clean(c), NEW r \in [Regs -> Int],
         r[0] = c.r0, r[1] = c.r1
  PROVE  Begun(c, x, StartOf(x, r))
<1> DEFINE n == Count(c.r2)  st == StartOf(x, r)
<1>1. x.num = c.num /\ x.r[0] = c.r0 /\ x.r[1] = c.r1 /\ x.r[2] = c.r2
  BY DEF Asked
<1>2. c.r0 \in Int /\ c.r1 \in Int /\ c.r2 \in Nat /\ n \in Nat /\ x.r[12] \in Int
  BY CallIs, RegType
<1>3. Longer(x)
  BY <1>1, CleanIs DEF Longer
<1>4. Fill(c.r2) => Read(x, c.r0) \in Int
  BY CleanIs, ReadType
<1>5. Limit \in Int
  BY DEF Limit
<1>6. /\ SetExit \in Exits /\ FastExit \in Exits /\ SetExit \in Int /\ FastExit \in Int
      /\ TopOf(c) \in Int
  BY PlacesAre DEF Exits, SetExit, FastExit
<1> DEFINE Costs(k) == DispatchCost + Stack + k
<1>7. \A k \in Int : DispatchCost + Stack + k \in Int
  BY CostsAre
<1>8. \A k \in Int : k * Fetch \in Int /\ k * Branch \in Int
  BY CostsAre
<1>9. Branch \in Int
  BY CostsAre
<1> HIDE DEF n, st
<1>10. CASE c.num = 11 /\ ~Word(c.r2) /\ ~Fill(c.r2)
  <2>5. ~Word(x.r[2]) /\ ~Fill(x.r[2])
    BY <1>1, <1>10
  <2>4. SetStart(x, r) = IF Count(x.r[2]) = 0 THEN Loop(SetExit, r, 17 * Fetch + Branch)
             ELSE Loop(HalfCopy, [r EXCEPT ![1] = x.r[1] - x.r[0], ![2] = x.r[0], ![3] = x.r[0] + Count(x.r[2]), ![4] = Limit, ![12] = x.r[12]],
                        21 * Fetch)
    BY <1>3, <2>5, SetStartIs, Zenon
  <2>6. st = SetStart(x, r)
    BY <1>1, <1>10 DEF st, StartOf
  <2>1. st = IF n = 0 THEN Loop(SetExit, r, 17 * Fetch + Branch)
             ELSE Loop(HalfCopy, [r EXCEPT ![1] = c.r1 - c.r0, ![2] = c.r0, ![3] = c.r0 + n, ![4] = Limit, ![12] = x.r[12]],
                        21 * Fetch)
    BY <1>1, <2>4, <2>6, Zenon DEF n
  <2>2. TopOf(c) = HalfCopy /\ HalfCopy \notin {HalfFill, WordCopy, WordFill} /\ HalfCopy \notin Fasts
    BY <1>10, TopIs, PlacesAre DEF HalfCopy, HalfFill, WordCopy, WordFill
  <2>3. 17 * Fetch + Branch \in Int /\ 21 * Fetch \in Int
    BY <1>8, <1>9
  <2> QED
    BY <1>2, <1>5, <1>6, <1>7, <1>10, <2>1, <2>2, <2>3, NamesAre DEF Begun, Loop, st, n
<1>11. CASE c.num = 11 /\ ~Word(c.r2) /\ Fill(c.r2)
  <2>5. ~Word(x.r[2]) /\ Fill(x.r[2])
    BY <1>1, <1>11
  <2>4. SetStart(x, r) = IF Count(x.r[2]) = 0 THEN Loop(SetExit, [r EXCEPT ![2] = Read(x, x.r[0])], 20 * Fetch + Cost(x.r[0]) + 2 * Branch)
             ELSE Loop(HalfFill, [r EXCEPT ![2] = Read(x, x.r[0]), ![3] = x.r[1] + Count(x.r[2])], 21 * Fetch + Cost(x.r[0]) + Branch)
    BY <1>3, <2>5, SetStartIs, Zenon
  <2>6. st = SetStart(x, r)
    BY <1>1, <1>11 DEF st, StartOf
  <2>1. st = IF n = 0 THEN Loop(SetExit, [r EXCEPT ![2] = Read(x, c.r0)], 20 * Fetch + Cost(c.r0) + 2 * Branch)
             ELSE Loop(HalfFill, [r EXCEPT ![2] = Read(x, c.r0), ![3] = c.r1 + n], 21 * Fetch + Cost(c.r0) + Branch)
    BY <1>1, <2>4, <2>6, Zenon DEF n
  <2>2. TopOf(c) = HalfFill /\ HalfFill \notin {HalfCopy, WordCopy, WordFill} /\ HalfFill \notin Fasts
    BY <1>11, TopIs, PlacesAre DEF HalfCopy, HalfFill, WordCopy, WordFill
  <2>3. 20 * Fetch + Cost(c.r0) + 2 * Branch \in Int /\ 21 * Fetch + Cost(c.r0) + Branch \in Int
    BY <1>8, <1>9, <1>11, CleanIs
  <2> QED
    BY <1>2, <1>4, <1>6, <1>7, <1>11, <2>1, <2>2, <2>3, NamesAre DEF Begun, Loop, st, n
<1>12. CASE c.num = 11 /\ Word(c.r2) /\ ~Fill(c.r2)
  <2>5. Word(x.r[2]) /\ ~Fill(x.r[2])
    BY <1>1, <1>12
  <2>4. SetStart(x, r) = IF Count(x.r[2]) = 0 THEN Loop(SetExit, [r EXCEPT ![2] = x.r[0]], 21 * Fetch + 2 * Branch)
             ELSE Loop(WordCopy, [r EXCEPT ![1] = x.r[1] - x.r[0], ![2] = x.r[0], ![3] = Count(x.r[2]), ![12] = Limit], 21 * Fetch + Branch)
    BY <1>3, <2>5, SetStartIs, Zenon
  <2>6. st = SetStart(x, r)
    BY <1>1, <1>12 DEF st, StartOf
  <2>1. st = IF n = 0 THEN Loop(SetExit, [r EXCEPT ![2] = c.r0], 21 * Fetch + 2 * Branch)
             ELSE Loop(WordCopy, [r EXCEPT ![1] = c.r1 - c.r0, ![2] = c.r0, ![3] = n, ![12] = Limit], 21 * Fetch + Branch)
    BY <1>1, <2>4, <2>6, Zenon DEF n
  <2>2. TopOf(c) = WordCopy /\ WordCopy \notin {HalfCopy, HalfFill, WordFill} /\ WordCopy \notin Fasts
    BY <1>12, TopIs, PlacesAre DEF HalfCopy, HalfFill, WordCopy, WordFill
  <2>3. 21 * Fetch + 2 * Branch \in Int /\ 21 * Fetch + Branch \in Int
    BY <1>8, <1>9
  <2> QED
    BY <1>2, <1>5, <1>6, <1>7, <1>12, <2>1, <2>2, <2>3, NamesAre DEF Begun, Loop, st, n
<1>13. CASE c.num = 11 /\ Word(c.r2) /\ Fill(c.r2)
  <2>5. Word(x.r[2]) /\ Fill(x.r[2])
    BY <1>1, <1>13
  <2>4. SetStart(x, r) = IF Count(x.r[2]) = 0 THEN Loop(SetExit, [r EXCEPT ![2] = Read(x, x.r[0])], 22 * Fetch + Cost(x.r[0]) + 3 * Branch)
             ELSE Loop(WordFill, [r EXCEPT ![2] = Read(x, x.r[0]), ![3] = Count(x.r[2])], 22 * Fetch + Cost(x.r[0]) + 2 * Branch)
    BY <1>3, <2>5, SetStartIs, Zenon
  <2>6. st = SetStart(x, r)
    BY <1>1, <1>13 DEF st, StartOf
  <2>1. st = IF n = 0 THEN Loop(SetExit, [r EXCEPT ![2] = Read(x, c.r0)], 22 * Fetch + Cost(c.r0) + 3 * Branch)
             ELSE Loop(WordFill, [r EXCEPT ![2] = Read(x, c.r0), ![3] = n], 22 * Fetch + Cost(c.r0) + 2 * Branch)
    BY <1>1, <2>4, <2>6, Zenon DEF n
  <2>2. TopOf(c) = WordFill /\ WordFill \notin {HalfCopy, HalfFill, WordCopy} /\ WordFill \notin Fasts
    BY <1>13, TopIs, PlacesAre DEF HalfCopy, HalfFill, WordCopy, WordFill
  <2>3. 22 * Fetch + Cost(c.r0) + 3 * Branch \in Int /\ 22 * Fetch + Cost(c.r0) + 2 * Branch \in Int
    BY <1>8, <1>9, <1>13, CleanIs
  <2> QED
    BY <1>2, <1>4, <1>6, <1>7, <1>13, <2>1, <2>2, <2>3, NamesAre DEF Begun, Loop, st, n
<1>14. CASE c.num = 12 /\ Fill(c.r2)
  <2>5. Fill(x.r[2])
    BY <1>1, <1>14
  <2>4. FastStart(x, r) = IF Count(x.r[2]) = 0 THEN Loop(FastExit, [r EXCEPT ![2] = Read(x, x.r[0]), ![4] = 0], 20 * Fetch + Cost(x.r[0]) + Branch)
             ELSE Loop(FastFill, [r EXCEPT ![2] = Read(x, x.r[0]), ![3] = x.r[0], ![4] = Count(x.r[2])], 20 * Fetch + Cost(x.r[0]))
    BY <1>3, <2>5, FastStartIs, Zenon
  <2>6. st = FastStart(x, r)
    BY <1>1, <1>14 DEF st, StartOf
  <2>1. st = IF n = 0 THEN Loop(FastExit, [r EXCEPT ![2] = Read(x, c.r0), ![4] = 0], 20 * Fetch + Cost(c.r0) + Branch)
             ELSE Loop(FastFill, [r EXCEPT ![2] = Read(x, c.r0), ![3] = c.r0, ![4] = n], 20 * Fetch + Cost(c.r0))
    BY <1>1, <2>4, <2>6, Zenon DEF n
  <2>2. TopOf(c) = FastFill /\ FastFill \notin {HalfCopy, HalfFill, WordCopy, WordFill}
    BY <1>14, TopIs DEF HalfCopy, HalfFill, WordCopy, WordFill, FastFill
  <2>3. 20 * Fetch + Cost(c.r0) + Branch \in Int /\ 20 * Fetch + Cost(c.r0) \in Int
    BY <1>8, <1>9, <1>14, CleanIs
  <2> QED
    BY <1>2, <1>4, <1>6, <1>7, <1>14, <2>1, <2>2, <2>3, NamesAre DEF Begun, Loop, st, n
<1>15. CASE c.num = 12 /\ ~Fill(c.r2)
  <2>5. ~Fill(x.r[2])
    BY <1>1, <1>15
  <2>4. FastStart(x, r) = IF Count(x.r[2]) = 0 THEN Loop(FastExit, [r EXCEPT ![3] = x.r[0], ![4] = 0], 19 * Fetch + 2 * Branch)
             ELSE Loop(FastCopy, [r EXCEPT ![1] = x.r[1] - x.r[0], ![3] = x.r[0], ![4] = Count(x.r[2]), ![12] = Limit], 19 * Fetch + Branch)
    BY <1>3, <2>5, FastStartIs, Zenon
  <2>6. st = FastStart(x, r)
    BY <1>1, <1>15 DEF st, StartOf
  <2>1. st = IF n = 0 THEN Loop(FastExit, [r EXCEPT ![3] = c.r0, ![4] = 0], 19 * Fetch + 2 * Branch)
             ELSE Loop(FastCopy, [r EXCEPT ![1] = c.r1 - c.r0, ![3] = c.r0, ![4] = n, ![12] = Limit], 19 * Fetch + Branch)
    BY <1>1, <2>4, <2>6, Zenon DEF n
  <2>2. TopOf(c) = FastCopy /\ FastCopy \notin {HalfCopy, HalfFill, WordCopy, WordFill}
    BY <1>15, TopIs DEF HalfCopy, HalfFill, WordCopy, WordFill, FastCopy
  <2>3. 19 * Fetch + 2 * Branch \in Int /\ 19 * Fetch + Branch \in Int
    BY <1>8, <1>9
  <2> QED
    BY <1>2, <1>5, <1>6, <1>7, <1>15, <2>1, <2>2, <2>3, NamesAre DEF Begun, Loop, st, n
<1> QED
  BY <1>10, <1>11, <1>12, <1>13, <1>14, <1>15, TopIs DEF st

LEMMA UnitsAre ==
  ASSUME NEW c \in AllCalls
  PROVE  /\ UnitOf(c) \in Nat /\ UnitOf(c) > 0
         /\ \A x : x.pc = TopOf(c) => UnitAt(x) = UnitOf(c) /\ (x.pc \in Fills <=> Fill(c.r2)) /\ x.pc \in Loops
BY CostsAre, TopIs, PlacesAre DEF UnitOf, UnitAt

\* A call starts before its first round, or past its last.
LEMMA BegunIs ==
  ASSUME NEW x, NEW c \in AllCalls, NEW st, Begun(c, x, st), NEW t, t.pc = st.pc, t.r = st.r
  PROVE  /\ Count(c.r2) # 0 => t.pc = TopOf(c) /\ Within(c, 0, t)
         /\ Count(c.r2) = 0 => t.pc \in Exits
         /\ Looping(c, t)
<1> DEFINE n == Count(c.r2)
<1>1. n \in Nat /\ c.r0 \in Int /\ c.r1 \in Int
  BY CallIs
<1>2. n = 0 => t.pc \in Exits
  BY DEF Begun
<1>3. ASSUME n # 0 PROVE t.pc = TopOf(c) /\ Within(c, 0, t)
  <2>1. /\ t.pc = TopOf(c) /\ t.r[1] = IF Fill(c.r2) THEN c.r1 ELSE c.r1 - c.r0
        /\ t.pc = HalfCopy => t.r[2] = c.r0 /\ t.r[3] = c.r0 + n
        /\ t.pc = HalfFill => t.r[3] = c.r1 + n
        /\ t.pc = WordCopy => t.r[2] = c.r0 /\ t.r[3] = n
        /\ t.pc = WordFill => t.r[3] = n
        /\ t.pc \in Fasts => t.r[3] = c.r0 /\ t.r[4] = n
    BY <1>3 DEF Begun
  <2>2. t.pc \in Loops /\ (t.pc \in Fills <=> Fill(c.r2))
    BY <2>1, UnitsAre
  <2> HIDE DEF n
  <2>3. LeftAt(t) = n
    BY <1>1, <2>1, <2>2, PlacesAre DEF LeftAt, Fasts, FastCopy, FastFill, WordCopy, WordFill, HalfCopy, HalfFill
  <2>4. t.pc \notin Fills => FromAt(t) = c.r0
    BY <2>1, <2>2, PlacesAre DEF FromAt, Fasts, FastCopy, FastFill, WordCopy, WordFill, HalfCopy, HalfFill
  <2>5. DestAt(t) = c.r1
    BY <1>1, <2>1, <2>2, <2>4 DEF DestAt
  <2>6. 0 * UnitOf(c) = 0
    BY UnitsAre
  <2>7. Within(c, 0, t)
    BY <1>1, <1>3, <2>2, <2>3, <2>4, <2>5, <2>6 DEF Within, n
  <2> QED
    BY <2>1, <2>7
<1> QED
  BY <1>2, <1>3 DEF Looping

LEMMA EnterIs ==
  ASSUME NEW x \in Machine, Roomy(x), x.pc = Vector, NEW c \in AllCalls, Asked(x, c), Clean(c), NEW w
  PROVE  LET d == Opening(x)  st == StartOf(x, d.r) IN
         /\ Opened(x, d) /\ Begun(c, x, st)
         /\ BiosStep(x, w).x = Placed(d, st.pc, st.r) /\ BiosStep(x, w).cost = st.cost
<1> DEFINE d == Opening(x)  st == StartOf(x, d.r)
<1>1. RoutineOf(x) \in Int
  BY PlacesAre DEF RoutineOf
<1>2. Opened(x, d)
  BY <1>1, DispatchedIs DEF Opening
<1>3. d.r \in [Regs -> Int] /\ d.r[0] = x.r[0] /\ d.r[1] = x.r[1]
  <2> HIDE DEF d
  <2>1. d \in Machine /\ \A k \in Regs : k # 12 => d.r[k] = IF k = 11 THEN SysOf(x) ELSE x.r[k]
    BY <1>2 DEF Opened
  <2>2. d.r \in [Regs -> Int]
    BY <2>1 DEF Machine
  <2> QED
    BY <2>1, <2>2, NamesAre
<1>4. Begun(c, x, st)
  <2>1. x.r[0] = c.r0 /\ x.r[1] = c.r1
    BY DEF Asked
  <2> HIDE DEF d
  <2> QED
    BY <1>3, <2>1, StartIs
<1>5. BiosStep(x, w) = Stepped([d EXCEPT !.r = st.r], st.pc, st.cost)
  <2>1. x.num = 11 \/ x.num = 12
    BY CallIs DEF Asked
  <2>2. CASE x.num = 11
    <3>1. BiosStep(x, w) = EnterSet(x)
      BY <2>2, BiosIs
    <3> QED
      BY <2>2, <3>1 DEF EnterSet, Entered, Opening, RoutineOf, StartOf
  <2>3. CASE x.num = 12
    <3>1. BiosStep(x, w) = EnterFast(x)
      BY <2>3, BiosIs
    <3> QED
      BY <2>3, <3>1 DEF EnterFast, Entered, Opening, RoutineOf, StartOf
  <2> QED
    BY <2>1, <2>2, <2>3
<1> HIDE DEF d, st
<1>6. BiosStep(x, w).x = Placed(d, st.pc, st.r) /\ BiosStep(x, w).cost = st.cost
  BY <1>5 DEF Stepped, Placed
<1> QED
  BY <1>2, <1>4, <1>6 DEF d, st

\* The frames of a call leave what is on the stacks.
LEMMA OpenedKeeps ==
  ASSUME NEW x \in Machine, NEW l, NEW u, NEW s, Active(x, l, u, s), Asking(x, l, u, s), NEW d, Opened(x, d),
         NEW pc \in Int, NEW r \in [Regs -> Int], NEW c \in AllCalls, Looping(c, Placed(d, pc, r))
  PROVE  LET t == Placed(d, pc, r) IN
         t \in Machine /\ Active(t, l, u, s) /\ Copying(t, l, u, s) /\ Handler(t) = Handler(x)
<1> DEFINE t == Placed(d, pc, r)
<1>1. Bases(l, u, s) /\ Context(x, l, u, s) /\ Sp(x, "usr") = u /\ Sp(x, "svc") = s
  BY DEF Active, Asking, Based
<1>2. l \in Levels /\ (u = 1008 \/ u = 1004) /\ (s = 1016 \/ s = 1012)
  BY <1>1, BasesAre
<1>3. d \in Machine
  BY DEF Opened
<1>4. /\ t \in Machine /\ t.r = r /\ t.cpsr = d.cpsr /\ t.bank = d.bank
      /\ \A a : Read(t, a) = Read(d, a)
  BY <1>3, PlacedIs
<1> HIDE DEF t
<1>5. x.bank \in [Banks -> [sp : Int, lr : Int, spsr : Int]]
  BY DEF Machine
<1>6. Sp(t, "usr") = u - 4 /\ Sp(t, "svc") = s - 4 /\ t.bank["irq"] = x.bank["irq"]
  BY <1>1, <1>4, <1>5, NamesAre DEF Opened, Sp
<1>7. SysOf(x) = SysOn(l)
  BY <1>2, SysIs DEF Asking
<1>8. Copying(t, l, u, s)
  <2>1. t.cpsr = SysOn(l)
    BY <1>4, <1>7 DEF Opened
  <2>2. Read(t, s - 4) = x.bank["svc"].spsr /\ Read(t, s - 1) = Lr(x, "svc")
    BY <1>1, <1>4 DEF Opened
  <2>3. \E e \in AllCalls : Looping(e, t)
    BY DEF t
  <2> QED
    BY <1>6, <2>1, <2>2, <2>3 DEF Copying, Asking, Based
<1>9. Kept(x, t, u, s)
  <2>1. R4At(t, u) = R4At(x, u)
    <3>1. Sp(t, "usr") # u
      BY <1>2, <1>6
    <3>2. Read(t, u - 4) = x.r[4]
      BY <1>1, <1>4 DEF Opened
    <3> QED
      BY <1>1, <3>1, <3>2 DEF R4At
  <2>2. Sp(x, "irq") >= 1016
    BY StacksIn DEF IrqTop
  <2>3. ASSUME NEW a \in Stacks, (u <= a /\ a < UserTop) \/ (s <= a /\ a < SvcTop) \/ Sp(x, "irq") <= a
        PROVE  Read(t, a) = Read(x, a)
    <3>1. ~InFrames(x, a)
      BY <1>1, <1>2, <2>2, <2>3, StacksAre, StacksIn DEF InFrames, Span, UserTop, SvcTop, IrqTop
    <3> QED
      BY <1>4, <3>1 DEF Opened
  <2> QED
    BY <1>6, <2>1, <2>3 DEF Kept
<1>10. Context(t, l, u, s) /\ Handler(t) = Handler(x)
  BY <1>1, <1>4, <1>9, ContextKept
<1> QED
  BY <1>1, <1>4, <1>8, <1>10 DEF Active, Task, t

-----------------------------------------------------------------------------
(* The rounds of a call.                                                    *)

LEMMA Quotient ==
  ASSUME NEW a \in Int, NEW d \in Nat, d > 0, NEW t \in Int
  PROVE  (a \div d) \in Int /\ (t * d <= a => t <= a \div d) /\ (t <= a \div d => t * d <= a)
<1> DEFINE q == a \div d
<1>1. q \in Int /\ q * d <= a /\ a < (q + 1) * d
  OBVIOUS
<1> HIDE DEF q
<1>2. t * d <= a => t <= q
  <2>1. t * d < (q + 1) * d => t < q + 1
    BY <1>1
  <2> QED
    BY <1>1, <2>1
<1>3. t <= q => t * d <= a
  <2>1. t <= q => t * d <= q * d
    BY <1>1
  <2> QED
    BY <1>1, <2>1
<1> QED
  BY <1>1, <1>2, <1>3 DEF q

\* Rounds that are due stay in the ranges of the call.
LEMMA RoundsFit ==
  ASSUME NEW c \in AllCalls, NEW q \in Nat, NEW t \in Nat \ {0}, (q + t - 1) * UnitOf(c) < Count(c.r2)
  PROVE  Copied(c) \in Nat /\ q * UnitOf(c) + t * UnitOf(c) <= Copied(c)
<1> DEFINE U == UnitOf(c)  n == Count(c.r2)
<1>1. U \in Nat /\ U > 0 /\ n \in Nat
  BY UnitsAre, CallIs
<1>2. q * U + t * U = (q + t) * U /\ (q + t - 1) * U = (q + t) * U - U
  BY <1>1
<1>3. (q + t) * U <= n + U - 1
  <2> DEFINE k == (q + t) * U
  <2>1. k \in Int /\ k - U < n
    BY <1>1, <1>2
  <2> HIDE DEF k, U, n
  <2> QED
    BY <1>1, <2>1 DEF k
<1>4. CASE c.num = 12
  <2>1. U = Chunk
    BY <1>4 DEF UnitOf
  <2> DEFINE a == n + U - 1  k == a \div U
  <2>2. Copied(c) = k * U
    BY <1>4, <2>1 DEF Copied, Rounds
  <2>3. a \in Int /\ q + t \in Int
    BY <1>1
  <2>4. (q + t) * U <= a
    BY <1>3
  <2> HIDE DEF U, n, a
  <2>5. k \in Int /\ q + t <= k
    BY <1>1, <2>3, <2>4, Quotient
  <2> HIDE DEF k
  <2>6. (q + t) * U <= k * U /\ k * U \in Nat
    BY <1>1, <2>5
  <2> QED
    BY <1>2, <2>2, <2>6 DEF U
<1>5. CASE c.num # 12
  <2>1. U = 1 /\ Copied(c) = n
    BY <1>5 DEF UnitOf, Copied
  <2> QED
    BY <1>1, <1>2, <1>3, <2>1
<1> QED
  BY <1>4, <1>5

\* The elements of t rounds from where x is.
LEMMA RoundsRun ==
  ASSUME NEW x \in Machine, NEW c \in AllCalls, Clean(c), x.pc = TopOf(c), NEW q \in Nat, Within(c, q, x),
         NEW t \in Nat \ {0}, (t - 1) * UnitOf(c) < LeftAt(x)
  PROVE  /\ UnitAt(x) = UnitOf(c) /\ t * UnitOf(c) \in Nat \ {0}
         /\ Span(DestAt(x), t * UnitOf(c)) \subseteq TargetOf(c)
         /\ x.pc \notin Fills => Span(FromAt(x), t * UnitOf(c)) \subseteq SourceOf(c)
         /\ RunOk(x, t * UnitOf(c))
<1> DEFINE U == UnitOf(c)  n == Count(c.r2)  p == q * U  k == t * U
<1>1. U \in Nat /\ U > 0 /\ n \in Nat /\ c.r0 \in Int /\ c.r1 \in Int /\ UnitAt(x) = U
      /\ (x.pc \in Fills <=> Fill(c.r2))
  BY UnitsAre, CallIs
<1>2. LeftAt(x) = n - p /\ DestAt(x) = c.r1 + p /\ (~Fill(c.r2) => FromAt(x) = c.r0 + p)
  BY DEF Within
<1>3. (q + t - 1) * U < n
  <2>1. (q + t - 1) * U = p + (t - 1) * U
    BY <1>1
  <2>2. (t - 1) * U < n - p
    BY <1>2
  <2>3. p \in Int /\ (t - 1) * U \in Int
    BY <1>1
  <2> DEFINE e == (t - 1) * U  f == (q + t - 1) * U
  <2> HIDE DEF p, n, e, f, U
  <2> QED
    BY <1>1, <2>1, <2>2, <2>3 DEF e, f
<1>4. Copied(c) \in Nat /\ p + k <= Copied(c)
  BY <1>3, RoundsFit
<1>5. p \in Nat /\ k \in Nat \ {0}
  BY <1>1
<1> HIDE DEF p, k, U, n
<1>6. Span(DestAt(x), k) \subseteq TargetOf(c)
  BY <1>1, <1>2, <1>4, <1>5 DEF Span, TargetOf
<1>7. ~Fill(c.r2) => Span(FromAt(x), k) \subseteq SourceOf(c)
  BY <1>1, <1>2, <1>4, <1>5 DEF Span, SourceOf
<1>8. RunOk(x, k)
  <2>1. Plain(DestAt(x), k)
    BY <1>6, CleanIs DEF Plain, Mapped
  <2>2. \A i \in Span(DestAt(x), k) : OffStacks(Host[i])
    BY <1>6, CleanIs
  <2>3. ~Fill(c.r2) => Mapped(FromAt(x), k) /\ \A i \in Span(FromAt(x), k) : OffStacks(Host[i])
    BY <1>7, CleanIs DEF Mapped
  <2>4. ~Fill(c.r2) => \A i \in Span(FromAt(x), k), j \in Span(DestAt(x), k) : Host[i] # Host[j]
    BY <1>6, <1>7, CleanIs
  <2> QED
    BY <1>1, <2>1, <2>2, <2>3, <2>4 DEF RunOk
<1> QED
  BY <1>1, <1>5, <1>6, <1>7, <1>8 DEF k, U

\* After t rounds.
LEMMA RoundsEnd ==
  ASSUME NEW x \in Machine, NEW c \in AllCalls, Clean(c), x.pc = TopOf(c), NEW q \in Nat, Within(c, q, x),
         NEW t \in Nat \ {0}, (t - 1) * UnitOf(c) < LeftAt(x)
  PROVE  LET z == Ran(x, t * UnitOf(c))  y == Settled(z) IN
         /\ z \in Machine /\ y \in Machine /\ y.cpsr = x.cpsr /\ y.num = x.num /\ y.bank = x.bank
         /\ \A a \in Stacks : Read(y, a) = Read(x, a)
         /\ Looping(c, y)
         /\ LeftAt(z) = LeftAt(x) - t * UnitOf(c)
         /\ LeftAt(z) <= 0 => y.pc \in Exits
         /\ LeftAt(z) > 0 => y = z /\ y.pc = TopOf(c) /\ Within(c, q + t, y)
<1> DEFINE U == UnitOf(c)  n == Count(c.r2)  k == t * U  z == Ran(x, k)  y == Settled(z)
<1>1. UnitAt(x) = U /\ k \in Nat \ {0} /\ RunOk(x, k)
  BY RoundsRun
<1>2. U \in Nat /\ U > 0 /\ n \in Nat /\ c.r0 \in Int /\ c.r1 \in Int /\ x.pc \in Loops /\ (x.pc \in Fills <=> Fill(c.r2))
  BY UnitsAre, CallIs
<1> HIDE DEF k
<1>3. /\ z \in Machine /\ z.pc = x.pc /\ z.cpsr = x.cpsr /\ z.num = x.num /\ z.bank = x.bank
      /\ \A a \in Stacks : Read(z, a) = Read(x, a)
  BY <1>1, <1>2, RanType
<1>4. /\ LeftAt(z) = LeftAt(x) - k /\ DestAt(z) = DestAt(x) + k
      /\ x.pc \notin Fills => FromAt(z) = FromAt(x) + k
  BY <1>1, <1>2, RanLeft
<1> HIDE DEF z
<1>5. /\ y \in Machine /\ y.r = z.r /\ y.mem = z.mem /\ y.cpsr = z.cpsr /\ y.num = z.num /\ y.bank = z.bank
      /\ y.pc = IF LeftAt(z) <= 0 THEN OutOf(z.pc) ELSE z.pc
  BY <1>3, SettledType
<1>6. LeftAt(z) \in Int /\ LeftAt(x) \in Int
  BY <1>2, <1>3, AtType
<1>7. LeftAt(z) <= 0 => y.pc \in Exits
  BY <1>5 DEF OutOf, Exits
<1>8. ASSUME LeftAt(z) > 0 PROVE y = z /\ y.pc = TopOf(c) /\ Within(c, q + t, y)
  <2>1. y = z
    BY <1>6, <1>8 DEF Settled
  <2> DEFINE p == q * U
  <2>2. (q + t) * U = p + k
    BY <1>2 DEF k
  <2>3. p \in Nat
    BY <1>2
  <2>4. LeftAt(x) = n - p /\ DestAt(x) = c.r1 + p /\ (~Fill(c.r2) => FromAt(x) = c.r0 + p)
    BY DEF Within
  <2>5. q + t \in Nat
    OBVIOUS
  <2> DEFINE f == (q + t) * U
  <2>6. f = p + k
    BY <2>2
  <2> HIDE DEF p, U, n, f
  <2>8. f < n /\ LeftAt(z) = n - f /\ DestAt(z) = c.r1 + f /\ (~Fill(c.r2) => FromAt(z) = c.r0 + f)
    BY <1>1, <1>2, <1>4, <1>8, <2>6, <2>3, <2>4
  <2>7. Within(c, q + t, z)
    BY <2>8 DEF Within, f, U, n
  <2> QED
    BY <1>3, <2>1, <2>7
<1>9. Looping(c, y)
  <2>1. q + t \in Nat
    OBVIOUS
  <2>2. LeftAt(z) <= 0 \/ LeftAt(z) > 0
    BY <1>6
  <2> HIDE DEF y
  <2> QED
    BY <1>7, <1>8, <2>1, <2>2 DEF Looping
<1>10. \A a \in Stacks : Read(y, a) = Read(x, a)
  BY <1>3, <1>5 DEF Read
<1> HIDE DEF y
<1> QED
  BY <1>3, <1>4, <1>5, <1>7, <1>8, <1>9, <1>10 DEF y, z, k, U

\* A copy goes on while it keeps the stacks.
LEMMA CopyKeeps ==
  ASSUME NEW x \in Machine, NEW y \in Machine, NEW l, NEW u, NEW s, Active(x, l, u, s), Copying(x, l, u, s),
         y.bank = x.bank, y.cpsr = x.cpsr, \A a \in Stacks : Read(y, a) = Read(x, a), \E c \in AllCalls : Looping(c, y)
  PROVE  Active(y, l, u, s) /\ Copying(y, l, u, s) /\ Handler(y) = Handler(x)
<1>1. Bases(l, u, s) /\ Context(x, l, u, s) /\ Sp(x, "usr") = u - 4 /\ Sp(x, "svc") = s - 4
  BY DEF Active, Copying, Based
<1>2. l \in Levels /\ (u = 1008 \/ u = 1004) /\ (s = 1016 \/ s = 1012)
  BY <1>1, BasesAre
<1>3. s - 4 \in Stacks /\ s - 1 \in Stacks /\ u - 4 \in Stacks /\ u - 4 # u
  BY <1>2, StacksAre
<1>4. \A b : Sp(y, b) = Sp(x, b)
  BY DEF Sp
<1>5. Copying(y, l, u, s)
  BY <1>3, <1>4 DEF Copying, Based
<1>6. Kept(x, y, u, s)
  <2>1. R4At(y, u) = R4At(x, u)
    BY <1>1, <1>3, <1>4 DEF R4At
  <2> QED
    BY <2>1 DEF Kept
<1>7. Context(y, l, u, s) /\ Handler(y) = Handler(x)
  BY <1>1, <1>6, ContextKept
<1> QED
  BY <1>1, <1>5, <1>7 DEF Active, Task

\* The end of a call gives the task its frames' words back.
LEMMA ClosedKeeps ==
  ASSUME NEW x \in Machine, NEW t, NEW l, NEW u, NEW s, Active(x, l, u, s), Copying(x, l, u, s), Closed(x, t)
  PROVE  t \in Machine /\ Active(t, l, u, s) /\ Idle(t, l, u, s) /\ Handler(t) = Handler(x)
<1>1. Bases(l, u, s) /\ Context(x, l, u, s) /\ Sp(x, "usr") = u - 4 /\ Sp(x, "svc") = s - 4
  BY DEF Active, Copying, Based
<1>2. l \in Levels /\ (u = 1008 \/ u = 1004) /\ (s = 1016 \/ s = 1012)
  BY <1>1, BasesAre
<1>3. t \in Machine /\ t.mem = x.mem /\ t.bank["irq"] = x.bank["irq"]
  BY DEF Closed
<1>4. Sp(t, "usr") = u /\ Sp(t, "svc") = s
  BY <1>1, <1>2 DEF Closed, Sp
<1>5. t.pc = Read(x, s - 1) /\ t.cpsr = Read(x, s - 4) /\ t.r[4] = Read(x, u - 4)
  <2>1. s - 4 + 3 = s - 1
    BY <1>2
  <2> QED
    BY <1>1, <2>1 DEF Closed
<1>6. Idle(t, l, u, s)
  BY <1>4, <1>5 DEF Idle, Copying, Based
<1>7. Kept(x, t, u, s)
  <2>1. R4At(t, u) = R4At(x, u)
    BY <1>1, <1>2, <1>4, <1>5 DEF R4At
  <2> QED
    BY <1>3, <2>1 DEF Kept, Read
<1>8. Context(t, l, u, s) /\ Handler(t) = Handler(x)
  BY <1>1, <1>3, <1>7, ContextKept
<1> QED
  BY <1>1, <1>3, <1>6, <1>8 DEF Active, Task

-----------------------------------------------------------------------------
(* Every step stays in the protocol.                                        *)

\* t is x at the vector, interrupted.
Taken(x, t) ==
  /\ t \in Machine /\ t.pc = IrqVector /\ t.cpsr = Irq + IrqOff + 64 /\ t.num = x.num /\ t.r = x.r /\ t.mem = x.mem
  /\ t.bank["irq"] = [sp |-> Sp(x, "irq"), lr |-> x.pc + 4, spsr |-> x.cpsr]
  /\ t.bank["usr"] = x.bank["usr"] /\ t.bank["svc"] = x.bank["svc"]
LEMMA InterruptedIs ==
  ASSUME NEW x \in Machine
  PROVE  Taken(x, Interrupted(x))
<1> DEFINE n == Sp(x, "irq")
           y == Interrupted(x)
           e == [sp |-> n, lr |-> x.pc + 4, spsr |-> x.cpsr]
           pb == x.bank["irq"]
<1>7. pb \in [sp : Int, lr : Int, spsr : Int] /\ pb.sp = n /\ x.pc \in Int /\ x.cpsr \in Int
  BY NamesAre DEF Machine, Sp
<1>8. e \in [sp : Int, lr : Int, spsr : Int]
  BY <1>7
<1> DEFINE c4 == x.pc + 4
           p1 == [x.bank["irq"] EXCEPT !.lr = c4]
           z1 == SetBank(x, "irq", p1)
           p2 == [z1.bank["irq"] EXCEPT !.spsr = x.cpsr]
           z == SetBank(z1, "irq", p2)
<1>9. y = [[z EXCEPT !.cpsr = Irq + IrqOff + 64] EXCEPT !.pc = IrqVector]
  BY DEF Interrupted, SetBank
<1> DEFINE f == [sp |-> n, lr |-> c4, spsr |-> pb.spsr]
<1>91. c4 \in Int
  BY <1>7
<1> HIDE DEF c4, pb, n
<1>92. p1 = f /\ f \in [sp : Int, lr : Int, spsr : Int]
  <2>1. [pb EXCEPT !.lr = c4] = f
    BY <1>7
  <2>2. f \in [sp : Int, lr : Int, spsr : Int]
    BY <1>7, <1>91
  <2> QED
    BY <2>1, <2>2 DEF pb
<1> HIDE DEF p1, f, z1
<1>93. Banked(x, "irq", p1, z1)
  BY <1>92, NamesAre, SetBankIs, Zenon DEF z1
<1>94. z1 \in Machine /\ z1.bank["irq"] = f
  BY <1>92, <1>93 DEF Banked
<1>95. p2 = e
  BY <1>94 DEF f, c4
<1> HIDE DEF e, p2, z, y
<1>96. Banked(z1, "irq", p2, z)
  BY <1>8, <1>94, <1>95, NamesAre, SetBankIs, Zenon DEF z
<1>10. /\ z \in Machine /\ z.num = x.num /\ z.r = x.r /\ z.mem = x.mem /\ z.bank["irq"] = e
       /\ z.bank["usr"] = x.bank["usr"] /\ z.bank["svc"] = x.bank["svc"]
  BY <1>93, <1>95, <1>96, NamesAre DEF Banked
<1>11. /\ y \in Machine /\ y.pc = IrqVector /\ y.cpsr = Irq + IrqOff + 64 /\ y.num = x.num /\ y.r = x.r /\ y.mem = x.mem
       /\ y.bank["irq"] = e /\ y.bank["usr"] = x.bank["usr"] /\ y.bank["svc"] = x.bank["svc"]
  <2> DEFINE k == Irq + IrqOff + 64  v == Turn(z, IrqVector, k)
  <2>1. IrqVector \in Int /\ k \in Int
    BY DEF IrqVector, Irq, IrqOff
  <2> HIDE DEF k
  <2>2. v \in Machine /\ v.pc = IrqVector /\ v.cpsr = k /\ v.num = z.num /\ v.r = z.r /\ v.bank = z.bank /\ v.mem = z.mem
    BY <1>10, <2>1, TurnIs
  <2>3. y = v
    BY <1>9, <1>10 DEF Turn, k, Machine
  <2> HIDE DEF v
  <2> QED
    BY <1>10, <2>2, <2>3 DEF k
<1>12. Taken(x, y)
  BY <1>11, Zenon DEF Taken, e, c4, n
<1> QED
  BY <1>12 DEF y

\* An interrupt is raised on the game's thread only.
LEMMA TickProto ==
  ASSUME NEW x, Proto(x), ~Masked(x.cpsr)
  PROVE  Proto(Interrupted(x)) /\ x.pc \in {GamePc} \cup Loops \cup Exits
<1>1. x \in Machine /\ Handler(x) \in Handlers
  BY SeatsAre
<1>2. \A g \in Ways : ~Raising(x, g)
  BY DEF Raising, Masked, Irq, IrqOff
<1>3. PICK l \in Levels, u \in {UserTop, UserTop - 4}, s \in {SvcTop, SvcTop - 4} : Active(x, l, u, s)
  BY <1>2 DEF Proto
<1>4. Bases(l, u, s) /\ Context(x, l, u, s) /\ Task(x, l, u, s)
  BY <1>3 DEF Active
<1>5. l = "game" /\ (Idle(x, l, u, s) \/ Copying(x, l, u, s))
  <2>1. ~Asking(x, l, u, s)
    BY DEF Asking
  <2>2. Idle(x, l, u, s) => l = "game"
    BY CallersAre DEF Idle
  <2>3. Copying(x, l, u, s) => l = "game"
    BY CallersAre DEF Copying, Masked, IrqOff
  <2> QED
    BY <1>4, <2>1, <2>2, <2>3 DEF Task
<1>6. u = UserTop /\ s = SvcTop /\ Sp(x, "irq") = IrqTop
  BY <1>4, <1>5, CallersAre DEF Context
<1> DEFINE y == Interrupted(x)
<1>7. Taken(x, y)
  BY <1>1, InterruptedIs
<1>8. x.pc \in Int /\ x.cpsr \in Int
  BY <1>1 DEF Machine
<1> HIDE DEF y
<1>11. /\ y \in Machine /\ y.pc = IrqVector /\ y.cpsr = Irq + IrqOff + 64 /\ y.r = x.r /\ y.mem = x.mem
       /\ y.bank["irq"] = [sp |-> IrqTop, lr |-> x.pc + 4, spsr |-> x.cpsr]
       /\ y.bank["usr"] = x.bank["usr"] /\ y.bank["svc"] = x.bank["svc"]
  BY <1>6, <1>7 DEF Taken
<1>12. Sp(y, "usr") = Sp(x, "usr") /\ Sp(y, "svc") = Sp(x, "svc") /\ Sp(y, "irq") = IrqTop /\ Lr(y, "irq") - 4 = x.pc
       /\ y.bank["irq"].spsr = x.cpsr /\ \A a : Read(y, a) = Read(x, a)
  BY <1>8, <1>11 DEF Sp, Lr, Read
<1>13. CASE Idle(x, l, u, s)
  <2>1. x.pc = GamePc /\ x.cpsr \in Callers("game") /\ Based(x, u, s)
    BY <1>5, <1>13, CallersAre DEF Idle, HomeOf
  <2>2. "idle" \in Ways /\ "idle" # "copy"
    BY DEF Ways
  <2>3. Thread(y, "idle", [pc |-> Lr(y, "irq") - 4, r |-> y.r], y.bank["irq"].spsr)
    BY <1>12, <2>1, <2>2 DEF Thread
  <2>4. Raising(y, "idle")
    BY <1>6, <1>11, <1>12, <2>1, <2>2, <2>3 DEF Raising, Based, UBase, SBase
  <2> QED
    BY <1>1, <1>11, <1>12, <2>1, <2>2, <2>4 DEF Proto, Handler, y
<1>14. CASE Copying(x, l, u, s)
  <2>1. x.cpsr = System /\ Based(x, u - 4, s - 4) /\ Read(x, s - 4) \in Callers("game") /\ Read(x, s - 1) = GamePc
    BY <1>5, <1>14 DEF Copying, HomeOf, SysOn
  <2>2. PICK c \in AllCalls : Looping(c, x)
    BY <1>14 DEF Copying
  <2>3. "copy" \in Ways
    BY DEF Ways
  <2> DEFINE w == [pc |-> Lr(y, "irq") - 4, r |-> y.r]
  <2>4. w.pc = x.pc /\ w.r = x.r
    BY <1>11, <1>12
  <2> HIDE DEF w
  <2>5. Looping(c, w)
    BY <2>2, <2>4, LoopSame
  <2>6. Thread(y, "copy", w, y.bank["irq"].spsr)
    BY <1>6, <1>12, <2>1, <2>5 DEF Thread
  <2>7. Raising(y, "copy")
    BY <1>6, <1>11, <1>12, <2>1, <2>6 DEF Raising, Based, UBase, SBase, w
  <2>8. x.pc \in Loops \cup Exits
    BY <2>2, PlacesAre DEF Looping
  <2> QED
    BY <1>1, <1>11, <1>12, <2>3, <2>7, <2>8 DEF Proto, Handler, y
<1> QED
  BY <1>5, <1>13, <1>14

\* The wrapper calls the handler.
LEMMA RaisingStep ==
  ASSUME NEW x, Proto(x), x.pc = IrqVector
  PROVE  Sp(x, "irq") = IrqTop /\ Handler(x) \in Int /\ Proto(IrqEntered(x))
<1>1. x \in Machine /\ Handler(x) \in Handlers
  BY SeatsAre
<1>2. PICK g \in Ways : Raising(x, g)
  BY RaisingAt
<1>3. Handler(x) \in Int /\ Handler(x) - (Handler(x) % 4) = IsrPc
  <2> DEFINE h == Handler(x)
  <2>1. h \in 30000 .. 30003
    BY <1>1, HandlersAligned DEF IsrPc
  <2> HIDE DEF h
  <2>2. h = 30000 \/ h = 30001 \/ h = 30002 \/ h = 30003
    BY <2>1
  <2> QED
    BY <2>2 DEF IsrPc, h
<1>4. Sp(x, "irq") = IrqTop
  BY <1>2 DEF Raising
<1> DEFINE t == IrqEntered(x)  u == UBase(g)  s == SBase(g)
<1>5. Wrapped(x, t)
  BY <1>1, <1>3, <1>4, IrqEnteredIs
<1> HIDE DEF t
<1>6. Sp(x, "irq") = 1022
  BY <1>4 DEF IrqTop
<1>7. /\ t \in Machine /\ t.pc = IsrPc /\ t.cpsr = x.cpsr /\ t.r[4] = x.r[4]
      /\ Sp(t, "irq") = 1016 /\ t.bank["irq"].spsr = x.bank["irq"].spsr
      /\ Sp(t, "usr") = Sp(x, "usr") /\ Sp(t, "svc") = Sp(x, "svc")
      /\ Read(t, 1017) = x.r[1] /\ Read(t, 1018) = x.r[2] /\ Read(t, 1019) = x.r[3] /\ Read(t, 1021) = Lr(x, "irq")
      /\ \A a \in Stacks : a < 1016 \/ a >= 1022 => Read(t, a) = Read(x, a)
  BY <1>3, <1>5, <1>6, NamesAre DEF Wrapped, Sp
<1>8. Based(x, u, s) /\ x.cpsr = Irq + IrqOff + 64
      /\ Thread(x, g, [pc |-> Lr(x, "irq") - 4, r |-> x.r], x.bank["irq"].spsr)
  BY <1>2 DEF Raising
<1>9. Bases("isr", u, s) /\ "isr" \in Levels /\ "isr" # "game"
  BY CallersAre DEF Bases, UBase, SBase
<1>10. Idle(t, "isr", u, s)
  <2>1. t.cpsr \in Callers("isr")
    BY <1>7, <1>8 DEF Callers
  <2> QED
    BY <1>7, <1>8, <2>1, CallersAre DEF Idle, Based, IsrPc
<1>11. Context(t, "isr", u, s)
  <2> DEFINE w == Saved(t, u)  v == [pc |-> Lr(x, "irq") - 4, r |-> x.r]
  <2>1. R4At(t, u) = x.r[4]
    BY <1>7, <1>8 DEF R4At, Based
  <2>2. w.pc = v.pc
    BY <1>7 DEF Saved, IrqTop
  <2>3. w.r[1] = x.r[1] /\ w.r[2] = x.r[2] /\ w.r[3] = x.r[3] /\ w.r[4] = x.r[4]
    BY <1>7, <2>1 DEF Saved, IrqTop
  <2>4. v.r = x.r
    OBVIOUS
  <2> HIDE DEF w, v
  <2>5. \A c : Looping(c, v) => Looping(c, w)
    BY <2>2, <2>3, <2>4, LoopSame
  <2>6. SvcTop - 4 \in Stacks /\ SvcTop - 1 \in Stacks /\ SvcTop - 4 < 1016 /\ SvcTop - 1 < 1016
    BY StacksAre DEF SvcTop
  <2>7. Read(t, SvcTop - 4) = Read(x, SvcTop - 4) /\ Read(t, SvcTop - 1) = Read(x, SvcTop - 1)
    BY <1>7, <2>6
  <2>8. Thread(x, g, v, x.bank["irq"].spsr)
    BY <1>8 DEF v
  <2>9. Thread(t, g, w, t.bank["irq"].spsr)
    BY <1>7, <2>2, <2>5, <2>7, <2>8 DEF Thread
  <2> QED
    BY <1>7, <1>9, <2>9 DEF Context, IrqTop, w
<1>12. Handler(t) = Handler(x)
  BY <1>7, StacksAre DEF Handler, HandlerCell
<1>13. Active(t, "isr", u, s)
  BY <1>9, <1>10, <1>11 DEF Active, Task
<1>14. Proto(t)
  BY <1>1, <1>7, <1>9, <1>12, <1>13 DEF Proto, Bases
<1> QED
  BY <1>3, <1>4, <1>14 DEF t

\* The handler returns to the thread that was interrupted.
LEMMA ReturnStep ==
  ASSUME NEW x, Proto(x), x.pc = IrqReturn
  PROVE  Sp(x, "irq") = IrqTop - 6 /\ \A t : Unwrapped(x, t) => Proto(t)
<1>1. x \in Machine /\ Handler(x) \in Handlers
  BY SeatsAre
<1>2. PICK l \in Levels, u \in {UserTop, UserTop - 4}, s \in {SvcTop, SvcTop - 4} : Active(x, l, u, s)
  BY RaisingAt, PlacesAre
<1>3. Idle(x, l, u, s) /\ Context(x, l, u, s)
  BY <1>2, TaskAt, PlacesAre DEF Active
<1>4. l = "isr"
  BY <1>3, CallersAre, PlacesAre DEF Idle
<1>5. Sp(x, "irq") = IrqTop - 6 /\ \E g \in Ways : u = UBase(g) /\ s = SBase(g) /\ Thread(x, g, Saved(x, u), x.bank["irq"].spsr)
  BY <1>3, <1>4 DEF Context
<1>6. PICK g \in Ways : u = UBase(g) /\ s = SBase(g) /\ Thread(x, g, Saved(x, u), x.bank["irq"].spsr)
  BY <1>5
<1>7. ASSUME NEW t, Unwrapped(x, t) PROVE Proto(t)
  <2>1. Sp(x, "irq") = 1016
    BY <1>5 DEF IrqTop
  <2>2. /\ t \in Machine /\ t.pc = Read(x, 1021) - 4 /\ t.cpsr = x.bank["irq"].spsr /\ t.mem = x.mem
        /\ t.r[1] = Read(x, 1017) /\ t.r[2] = Read(x, 1018) /\ t.r[3] = Read(x, 1019) /\ t.r[4] = x.r[4]
        /\ Sp(t, "irq") = 1022 /\ Sp(t, "usr") = Sp(x, "usr") /\ Sp(t, "svc") = Sp(x, "svc")
    BY <1>7, <2>1 DEF Unwrapped, Sp
  <2>3. Sp(x, "usr") = u /\ Sp(x, "svc") = s
    BY <1>3 DEF Idle, Based
  <2> DEFINE w == Saved(x, u)
  <2>4. w.pc = t.pc /\ w.r[1] = t.r[1] /\ w.r[2] = t.r[2] /\ w.r[3] = t.r[3] /\ w.r[4] = t.r[4]
    BY <2>2, <2>3 DEF Saved, R4At, IrqTop
  <2> HIDE DEF w
  <2>5. \A c : Looping(c, w) => Looping(c, t)
    BY <2>4, LoopSame
  <2>6. \A a : Read(t, a) = Read(x, a)
    BY <2>2 DEF Read
  <2>7. Thread(x, g, w, t.cpsr)
    BY <1>6, <2>2 DEF w
  <2>8. Task(t, "game", UserTop, SvcTop)
    <3>1. CASE g = "copy"
      <4>1. Copying(t, "game", UserTop, SvcTop)
        BY <1>6, <2>2, <2>3, <2>5, <2>6, <2>7, <3>1 DEF Copying, Thread, SysOn, HomeOf, Based, UBase, SBase
      <4> QED
        BY <4>1 DEF Task
    <3>2. CASE g # "copy"
      <4>1. Idle(t, "game", UserTop, SvcTop)
        BY <1>6, <2>2, <2>3, <2>4, <2>7, <3>2 DEF Idle, Thread, HomeOf, Based, UBase, SBase
      <4> QED
        BY <4>1 DEF Task
    <3> QED
      BY <3>1, <3>2
  <2>9. Context(t, "game", UserTop, SvcTop)
    BY <2>2 DEF Context, IrqTop
  <2>10. Active(t, "game", UserTop, SvcTop)
    BY <2>8, <2>9, CallersAre DEF Active, Bases
  <2> QED
    BY <1>1, <2>2, <2>6, <2>10, CallersAre DEF Proto, Handler
<1> QED
  BY <1>5, <1>7

UTops == {UserTop, UserTop - 4}
STops == {SvcTop, SvcTop - 4}

LEMMA ActiveAt ==
  ASSUME NEW x, Proto(x), x.pc # IrqVector
  PROVE  \E l \in Levels, u \in UTops, s \in STops :
           /\ Active(x, l, u, s)
           /\ x.pc = Vector => Asking(x, l, u, s)
           /\ x.pc \in Loops \cup Exits => Copying(x, l, u, s)
           /\ x.pc \in {GamePc, IsrPc, IrqReturn} => Idle(x, l, u, s)
<1>1. PICK l \in Levels, u \in UTops, s \in STops : Active(x, l, u, s)
  BY RaisingAt DEF UTops, STops
<1>2. Task(x, l, u, s)
  BY <1>1 DEF Active
<1> QED
  BY <1>1, <1>2, TaskAt

LEMMA ActiveProto ==
  ASSUME NEW y \in Machine, Handler(y) \in Handlers, NEW l \in Levels, NEW u \in UTops, NEW s \in STops, Active(y, l, u, s)
  PROVE  Proto(y)
BY DEF Proto, UTops, STops

LEMMA AskingIs ==
  ASSUME NEW x, Proto(x), x.pc = Vector
  PROVE  Roomy(x) /\ \E c \in AllCalls : Asked(x, c)
<1>1. PICK l \in Levels, u \in UTops, s \in STops : Active(x, l, u, s) /\ Asking(x, l, u, s)
  BY ActiveAt, PlacesAre
<1> QED
  BY <1>1, StacksIn DEF Asking

LEMMA LoopingIs ==
  ASSUME NEW x, Proto(x), x.pc \in Loops
  PROVE  Framing(x) /\ \E c \in AllCalls, q \in Nat : x.pc = TopOf(c) /\ Within(c, q, x)
<1>1. PICK l \in Levels, u \in UTops, s \in STops : Active(x, l, u, s) /\ Copying(x, l, u, s)
  BY ActiveAt, PlacesAre
<1>2. PICK c \in AllCalls : Looping(c, x)
  BY <1>1 DEF Copying
<1>3. x.pc \notin Exits
  BY PlacesAre
<1> QED
  BY <1>1, <1>2, <1>3, StacksIn DEF Looping

LEMMA EndingIs ==
  ASSUME NEW x, Proto(x), x.pc \in Exits
  PROVE  Framing(x)
<1>1. PICK l \in Levels, u \in UTops, s \in STops : Active(x, l, u, s) /\ Copying(x, l, u, s)
  BY ActiveAt, PlacesAre
<1> QED
  BY <1>1, StacksIn

\* t rounds of a copy.
LEMMA RoundsProto ==
  ASSUME NEW x, Proto(x), NEW c \in AllCalls, Clean(c), x.pc = TopOf(c), NEW q \in Nat, Within(c, q, x),
         NEW t \in Nat \ {0}, (t - 1) * UnitOf(c) < LeftAt(x)
  PROVE  Proto(Settled(Ran(x, t * UnitOf(c))))
<1> DEFINE y == Settled(Ran(x, t * UnitOf(c)))
<1>1. x \in Machine /\ Handler(x) \in Handlers
  BY SeatsAre
<1>2. PICK l \in Levels, u \in UTops, s \in STops : Active(x, l, u, s) /\ Copying(x, l, u, s)
  BY ActiveAt, UnitsAre, PlacesAre
<1>3. y \in Machine /\ y.cpsr = x.cpsr /\ y.bank = x.bank /\ (\A a \in Stacks : Read(y, a) = Read(x, a)) /\ Looping(c, y)
  BY <1>1, RoundsEnd
<1> HIDE DEF y
<1>4. Active(y, l, u, s) /\ Handler(y) = Handler(x)
  BY <1>1, <1>2, <1>3, CopyKeeps
<1>5. Proto(y)
  BY <1>1, <1>3, <1>4, ActiveProto
<1> QED
  BY <1>5 DEF y

LEMMA StepProto ==
  ASSUME CallsClean, NEW x, Proto(x), NEW w
  PROVE  Proto(BiosStep(x, w).x)
<1> DEFINE y == BiosStep(x, w).x
<1>1. x \in Machine /\ Handler(x) \in Handlers
  BY SeatsAre
<1>2. CASE x.pc = IrqVector
  BY <1>2, RaisingStep, BiosIs
<1>3. CASE x.pc = IrqReturn
  <2> DEFINE b == IrqBack(Relinked(Popped(x, "irq", <<0, 1, 2, 3, 12>>), "irq"))
  <2>1. Sp(x, "irq") = IrqTop - 6 /\ \A t : Unwrapped(x, t) => Proto(t)
    BY <1>3, ReturnStep
  <2>2. Unwrapped(x, b)
    BY <1>1, <2>1, IrqBackIs
  <2>3. y = Unmasked(b, w)
    BY <1>3, BiosIs DEF IrqLeft
  <2> HIDE DEF b, y
  <2>4. Proto(b)
    BY <2>1, <2>2
  <2>5. Proto(y)
    BY <2>3, <2>4, TickProto DEF Unmasked
  <2> QED
    BY <2>5 DEF y
<1>4. CASE x.pc = Vector
  <2>1. PICK l \in Levels, u \in UTops, s \in STops : Active(x, l, u, s) /\ Asking(x, l, u, s)
    BY <1>4, ActiveAt, PlacesAre
  <2>2. PICK c \in AllCalls : Asked(x, c)
    BY <1>4, AskingIs
  <2>3. Roomy(x) /\ Clean(c)
    BY <1>4, AskingIs DEF CallsClean, AllCalls
  <2> DEFINE d == Opening(x)  st == StartOf(x, d.r)  t == Placed(d, st.pc, st.r)
  <2>4. Opened(x, d) /\ Begun(c, x, st) /\ y = t
    BY <1>1, <1>4, <2>2, <2>3, EnterIs
  <2> HIDE DEF d, st, y
  <2>5. st.pc \in Int /\ st.r \in [Regs -> Int]
    BY <2>4 DEF Begun
  <2>6. t.pc = st.pc /\ t.r = st.r
    BY <2>4, <2>5, PlacedIs DEF Opened
  <2> HIDE DEF t
  <2>7. Looping(c, t)
    BY <2>4, <2>6, BegunIs
  <2>8. t \in Machine /\ Active(t, l, u, s) /\ Handler(t) = Handler(x)
    BY <1>1, <2>1, <2>4, <2>5, <2>7, OpenedKeeps DEF t
  <2>9. Proto(t)
    BY <1>1, <2>8, ActiveProto
  <2> QED
    BY <2>4, <2>9 DEF y
<1>5. CASE x.pc \in Loops
  <2>1. PICK c \in AllCalls, q \in Nat : x.pc = TopOf(c) /\ Within(c, q, x)
    BY <1>5, LoopingIs
  <2>2. Clean(c)
    BY DEF CallsClean, AllCalls
  <2>3. LeftAt(x) > 0 /\ (1 - 1) * UnitOf(c) = 0 /\ 1 * UnitOf(c) = UnitOf(c)
    <3> DEFINE n == Count(c.r2)  p == q * UnitOf(c)
    <3>1. n \in Nat /\ p \in Nat /\ UnitOf(c) \in Nat
      BY CallIs, UnitsAre
    <3>2. p < n /\ LeftAt(x) = n - p
      BY <2>1 DEF Within
    <3> HIDE DEF n, p
    <3> QED
      BY <3>1, <3>2
  <2>4. (1 - 1) * UnitOf(c) < LeftAt(x)
    BY <2>3
  <2>5. UnitAt(x) = UnitOf(c) /\ RunOk(x, 1 * UnitOf(c))
    BY <1>1, <2>1, <2>2, <2>4, RoundsRun
  <2>6. y = Settled(Ran(x, UnitAt(x)))
    BY <1>1, <1>5, <2>3, <2>5, RoundIs
  <2>7. Proto(Settled(Ran(x, 1 * UnitOf(c))))
    BY <2>1, <2>2, <2>4, RoundsProto
  <2> QED
    BY <2>3, <2>5, <2>6, <2>7
<1>6. CASE x.pc \in Exits
  <2>1. PICK l \in Levels, u \in UTops, s \in STops : Active(x, l, u, s) /\ Copying(x, l, u, s)
    BY <1>6, ActiveAt, PlacesAre
  <2>2. y = Completed(x).x
    BY <1>6, BiosIs DEF Exits
  <2>3. Closed(x, y)
    BY <1>1, <1>6, <2>2, EndingIs, CompletedIs
  <2> HIDE DEF y
  <2>4. y \in Machine /\ Active(y, l, u, s) /\ Handler(y) = Handler(x)
    BY <1>1, <2>1, <2>3, ClosedKeeps
  <2>5. Proto(y)
    BY <1>1, <2>4, ActiveProto
  <2> QED
    BY <2>5 DEF y
<1>7. CASE x.pc \in {GamePc, IsrPc}
  BY <1>7, BiosIs
<1>8. x.pc \in {IrqVector, IrqReturn, Vector, GamePc, IsrPc} \cup Loops \cup Exits
  BY RaisingAt, TaskAt DEF Active
<1> QED
  BY <1>2, <1>3, <1>4, <1>5, <1>6, <1>7, <1>8

-----------------------------------------------------------------------------
(* Alike machines make alike steps.                                         *)

LEMMA TickSame ==
  ASSUME NEW x, NEW y, Same(x, y)
  PROVE  Same(Interrupted(x), Interrupted(y))
<1> DEFINE p == Interrupted(x)  q == Interrupted(y)
<1>1. x \in Machine /\ y \in Machine /\ x.pc = y.pc /\ x.cpsr = y.cpsr /\ x.num = y.num /\ x.r = y.r /\ x.bank = y.bank
  BY DEF Same
<1>2. Taken(x, p) /\ Taken(y, q)
  BY <1>1, InterruptedIs
<1> HIDE DEF p, q
<1>3. p \in Machine /\ q \in Machine /\ p.mem = x.mem /\ q.mem = y.mem /\ p.pc = q.pc /\ p.cpsr = q.cpsr
      /\ p.num = q.num /\ p.r = q.r
  BY <1>1, <1>2 DEF Taken
<1>4. p.bank["usr"] = q.bank["usr"] /\ p.bank["svc"] = q.bank["svc"] /\ p.bank["irq"] = q.bank["irq"]
  BY <1>1, <1>2 DEF Taken, Sp
<1>5. p.bank = q.bank
  <2>1. p.bank \in [Banks -> [sp : Int, lr : Int, spsr : Int]] /\ q.bank \in [Banks -> [sp : Int, lr : Int, spsr : Int]]
    BY <1>3 DEF Machine
  <2>2. \A b \in Banks : p.bank[b] = q.bank[b]
    BY <1>4, NamesAre
  <2> QED
    BY <2>1, <2>2
<1>6. \A b \in Banks : p.bank[b].sp = x.bank[b].sp
  BY <1>2, NamesAre DEF Taken, Sp
<1>7. Same(p, q)
  BY <1>3, <1>5, <1>6, SameAltered
<1> QED
  BY <1>7 DEF p, q

LEMMA UnmaskedSame ==
  ASSUME NEW x, NEW y, Same(x, y), NEW w
  PROVE  Same(Unmasked(x, w), Unmasked(y, w))
BY TickSame DEF Unmasked, Same

LEMMA UnwrappedSame ==
  ASSUME NEW x, NEW y, Same(x, y), Seated(x), Sp(x, "irq") = IrqTop - 6, NEW t, NEW v, Unwrapped(x, t), Unwrapped(y, v)
  PROVE  Same(t, v)
<1>1. x \in Machine /\ y \in Machine /\ x.cpsr = y.cpsr /\ x.num = y.num /\ x.r = y.r /\ x.bank = y.bank
  BY DEF Same
<1>2. /\ \A a \in Stacks : a \notin Free(x) => Read(x, a) = Read(y, a)
      /\ \A i \in Held : OffStacks(i) => x.mem[i] = y.mem[i]
  BY SameGives
<1>3. Sp(x, "irq") = 1016 /\ Sp(y, "irq") = 1016
  BY <1>1 DEF Sp, IrqTop
<1>4. t \in Machine /\ v \in Machine /\ t.mem = x.mem /\ v.mem = y.mem
  BY DEF Unwrapped
<1>5. \A a \in 1016 .. 1021 : a \in Stacks /\ a \notin Free(x)
  BY <1>3, StacksAre DEF Free, Seated, UserTop, SvcTop, IrqTop
<1>6. /\ Read(x, 1016) = Read(y, 1016) /\ Read(x, 1017) = Read(y, 1017) /\ Read(x, 1018) = Read(y, 1018)
      /\ Read(x, 1019) = Read(y, 1019) /\ Read(x, 1020) = Read(y, 1020) /\ Read(x, 1021) = Read(y, 1021)
  BY <1>2, <1>5
<1>7. /\ t.pc = v.pc /\ t.cpsr = v.cpsr /\ t.num = v.num
      /\ t.r[0] = v.r[0] /\ t.r[1] = v.r[1] /\ t.r[2] = v.r[2] /\ t.r[3] = v.r[3] /\ t.r[4] = v.r[4]
      /\ t.r[11] = v.r[11] /\ t.r[12] = v.r[12]
      /\ t.bank["irq"] = v.bank["irq"] /\ t.bank["usr"] = v.bank["usr"] /\ t.bank["svc"] = v.bank["svc"]
      /\ Sp(t, "irq") = 1022 /\ Sp(t, "usr") = Sp(x, "usr") /\ Sp(t, "svc") = Sp(x, "svc")
  BY <1>1, <1>3, <1>6 DEF Unwrapped, Sp
<1>8. t.r = v.r
  <2>1. t.r \in [Regs -> Int] /\ v.r \in [Regs -> Int]
    BY <1>4 DEF Machine
  <2>2. \A k \in Regs : t.r[k] = v.r[k]
    BY <1>7, NamesAre
  <2> QED
    BY <2>1, <2>2
<1>9. t.bank = v.bank
  <2>1. t.bank \in [Banks -> [sp : Int, lr : Int, spsr : Int]] /\ v.bank \in [Banks -> [sp : Int, lr : Int, spsr : Int]]
    BY <1>4 DEF Machine
  <2>2. \A b \in Banks : t.bank[b] = v.bank[b]
    BY <1>7, NamesAre
  <2> QED
    BY <2>1, <2>2
<1>10. Seated(t)
  BY <1>7 DEF Seated, IrqTop
<1>11. \A a \in Stacks : a \notin Free(t) => Read(t, a) = Read(v, a)
  <2>1. \A a \in Stacks : a \notin Free(t) => a \notin Free(x)
    BY <1>3, <1>7 DEF Free, IrqTop
  <2> QED
    BY <1>2, <1>4, <2>1 DEF Read
<1> QED
  BY <1>2, <1>4, <1>7, <1>8, <1>9, <1>10, <1>11, SameIs

LEMMA ClosedSame ==
  ASSUME NEW x, NEW y, Same(x, y), Seated(x), Framing(x), NEW t, NEW v, Closed(x, t), Closed(y, v)
  PROVE  Same(t, v)
<1> DEFINE u == Sp(x, "usr")  s == Sp(x, "svc")
<1>1. x \in Machine /\ y \in Machine /\ x.num = y.num /\ x.r = y.r /\ x.bank = y.bank
  BY DEF Same
<1>2. /\ \A a \in Stacks : a \notin Free(x) => Read(x, a) = Read(y, a)
      /\ \A i \in Held : OffStacks(i) => x.mem[i] = y.mem[i]
  BY SameGives
<1>3. Sp(y, "usr") = u /\ Sp(y, "svc") = s
  BY <1>1 DEF Sp
<1>4. (u = 1000 \/ u = 1004) /\ (s = 1008 \/ s = 1012)
  BY DEF Framing, UserTop, SvcTop
<1>5. t \in Machine /\ v \in Machine /\ t.mem = x.mem /\ v.mem = y.mem /\ t.num = v.num
  BY <1>1 DEF Closed
<1>6. \A a \in (u .. u + 3) \cup (s .. s + 3) : a \in Stacks /\ a \notin Free(x)
  BY <1>4, StacksAre DEF Free, Seated, UserTop, SvcTop, IrqTop
<1> HIDE DEF u, s
<1>7. /\ Read(x, u) = Read(y, u) /\ Read(x, u + 1) = Read(y, u + 1) /\ Read(x, u + 2) = Read(y, u + 2)
      /\ Read(x, u + 3) = Read(y, u + 3)
      /\ Read(x, s) = Read(y, s) /\ Read(x, s + 1) = Read(y, s + 1) /\ Read(x, s + 2) = Read(y, s + 2)
      /\ Read(x, s + 3) = Read(y, s + 3)
  <2>1. \A a \in (u .. u + 3) \cup (s .. s + 3) : Read(x, a) = Read(y, a)
    BY <1>2, <1>6
  <2> QED
    BY <1>4, <2>1
<1>8. /\ t.pc = v.pc /\ t.cpsr = v.cpsr
      /\ t.r[0] = v.r[0] /\ t.r[1] = v.r[1] /\ t.r[2] = v.r[2] /\ t.r[3] = v.r[3] /\ t.r[4] = v.r[4]
      /\ t.r[11] = v.r[11] /\ t.r[12] = v.r[12]
      /\ t.bank["irq"] = v.bank["irq"] /\ t.bank["usr"] = v.bank["usr"] /\ t.bank["svc"] = v.bank["svc"]
      /\ Sp(t, "irq") = Sp(x, "irq") /\ Sp(t, "usr") = u + 4 /\ Sp(t, "svc") = s + 4
  <2>1. u = Sp(x, "usr") /\ s = Sp(x, "svc")
    BY DEF u, s
  <2>2. Closed(x, t) /\ Closed(y, v)
    OBVIOUS
  <2>3. /\ t.pc = v.pc /\ t.cpsr = v.cpsr
        /\ t.r[0] = v.r[0] /\ t.r[1] = v.r[1] /\ t.r[2] = v.r[2] /\ t.r[3] = v.r[3] /\ t.r[4] = v.r[4]
        /\ t.r[11] = v.r[11] /\ t.r[12] = v.r[12]
    BY <1>1, <1>3, <1>7, <2>1 DEF Closed
  <2>4. /\ t.bank["irq"] = v.bank["irq"] /\ t.bank["usr"] = v.bank["usr"] /\ t.bank["svc"] = v.bank["svc"]
        /\ Sp(t, "irq") = Sp(x, "irq") /\ Sp(t, "usr") = u + 4 /\ Sp(t, "svc") = s + 4
    BY <1>1, <1>3, <1>7, <2>1 DEF Closed, Sp
  <2> QED
    BY <2>3, <2>4
<1>9. t.r = v.r
  <2>1. t.r \in [Regs -> Int] /\ v.r \in [Regs -> Int]
    BY <1>5 DEF Machine
  <2>2. \A k \in Regs : t.r[k] = v.r[k]
    BY <1>8, NamesAre
  <2> QED
    BY <2>1, <2>2
<1>10. t.bank = v.bank
  <2>1. t.bank \in [Banks -> [sp : Int, lr : Int, spsr : Int]] /\ v.bank \in [Banks -> [sp : Int, lr : Int, spsr : Int]]
    BY <1>5 DEF Machine
  <2>2. \A b \in Banks : t.bank[b] = v.bank[b]
    BY <1>8, NamesAre
  <2> QED
    BY <2>1, <2>2
<1>11. Seated(t)
  BY <1>4, <1>8 DEF Seated, UserTop, SvcTop
<1>12. \A a \in Stacks : a \notin Free(t) => Read(t, a) = Read(v, a)
  <2>1. \A a \in Stacks : a \notin Free(t) => a \notin Free(x)
    BY <1>4, <1>8 DEF Free, UserTop, SvcTop, u, s
  <2> QED
    BY <1>2, <1>5, <2>1 DEF Read
<1> QED
  BY <1>2, <1>5, <1>8, <1>9, <1>10, <1>11, <1>12, SameIs

LEMMA StartSame ==
  ASSUME NEW x, NEW y, x.r = y.r, x.num = y.num, NEW c \in AllCalls, Asked(x, c), Clean(c), NEW r,
         Fill(c.r2) => Read(x, c.r0) = Read(y, c.r0)
  PROVE  StartOf(x, r) = StartOf(y, r)
<1>1. x.num = c.num /\ x.r[0] = c.r0 /\ x.r[1] = c.r1 /\ x.r[2] = c.r2
  BY DEF Asked
<1>2. Longer(x) /\ Longer(y)
  BY <1>1, CleanIs DEF Longer
<1> DEFINE S1(q) == IF Count(q[2]) = 0 THEN Loop(SetExit, r, 17 * Fetch + Branch)
              ELSE Loop(HalfCopy, [r EXCEPT ![1] = q[1] - q[0], ![2] = q[0], ![3] = q[0] + Count(q[2]), ![4] = Limit, ![12] = q[12]],
                        21 * Fetch)
           S2(q, v) == IF Count(q[2]) = 0 THEN Loop(SetExit, [r EXCEPT ![2] = v], 20 * Fetch + Cost(q[0]) + 2 * Branch)
              ELSE Loop(HalfFill, [r EXCEPT ![2] = v, ![3] = q[1] + Count(q[2])], 21 * Fetch + Cost(q[0]) + Branch)
           S3(q) == IF Count(q[2]) = 0 THEN Loop(SetExit, [r EXCEPT ![2] = q[0]], 21 * Fetch + 2 * Branch)
              ELSE Loop(WordCopy, [r EXCEPT ![1] = q[1] - q[0], ![2] = q[0], ![3] = Count(q[2]), ![12] = Limit], 21 * Fetch + Branch)
           S4(q, v) == IF Count(q[2]) = 0 THEN Loop(SetExit, [r EXCEPT ![2] = v], 22 * Fetch + Cost(q[0]) + 3 * Branch)
              ELSE Loop(WordFill, [r EXCEPT ![2] = v, ![3] = Count(q[2])], 22 * Fetch + Cost(q[0]) + 2 * Branch)
           F1(q, v) == IF Count(q[2]) = 0 THEN Loop(FastExit, [r EXCEPT ![2] = v, ![4] = 0], 20 * Fetch + Cost(q[0]) + Branch)
              ELSE Loop(FastFill, [r EXCEPT ![2] = v, ![3] = q[0], ![4] = Count(q[2])], 20 * Fetch + Cost(q[0]))
           F2(q) == IF Count(q[2]) = 0 THEN Loop(FastExit, [r EXCEPT ![3] = q[0], ![4] = 0], 19 * Fetch + 2 * Branch)
              ELSE Loop(FastCopy, [r EXCEPT ![1] = q[1] - q[0], ![3] = q[0], ![4] = Count(q[2]), ![12] = Limit], 19 * Fetch + Branch)
<1>3. Fill(x.r[2]) => Read(x, x.r[0]) = Read(y, y.r[0])
  BY <1>1
<1>4. SetStart(x, r) = SetStart(y, r)
  <2>1. CASE ~Word(x.r[2]) /\ ~Fill(x.r[2])
    <3>1. SetStart(x, r) = S1(x.r)
      BY <1>2, <2>1, SetStartIs, Zenon
    <3>2. ~Word(y.r[2]) /\ ~Fill(y.r[2])
      BY <2>1
    <3>3. SetStart(y, r) = S1(y.r)
      BY <1>2, <3>2, SetStartIs, Zenon
    <3> HIDE DEF S1
    <3> QED
      BY <1>3, <2>1, <3>1, <3>3
  <2>2. CASE ~Word(x.r[2]) /\ Fill(x.r[2])
    <3>1. SetStart(x, r) = S2(x.r, Read(x, x.r[0]))
      BY <1>2, <2>2, SetStartIs, Zenon
    <3>2. ~Word(y.r[2]) /\ Fill(y.r[2])
      BY <2>2
    <3>3. SetStart(y, r) = S2(y.r, Read(y, y.r[0]))
      BY <1>2, <3>2, SetStartIs, Zenon
    <3> HIDE DEF S2
    <3> QED
      BY <1>3, <2>2, <3>1, <3>3
  <2>3. CASE Word(x.r[2]) /\ ~Fill(x.r[2])
    <3>1. SetStart(x, r) = S3(x.r)
      BY <1>2, <2>3, SetStartIs, Zenon
    <3>2. Word(y.r[2]) /\ ~Fill(y.r[2])
      BY <2>3
    <3>3. SetStart(y, r) = S3(y.r)
      BY <1>2, <3>2, SetStartIs, Zenon
    <3> HIDE DEF S3
    <3> QED
      BY <1>3, <2>3, <3>1, <3>3
  <2>4. CASE Word(x.r[2]) /\ Fill(x.r[2])
    <3>1. SetStart(x, r) = S4(x.r, Read(x, x.r[0]))
      BY <1>2, <2>4, SetStartIs, Zenon
    <3>2. Word(y.r[2]) /\ Fill(y.r[2])
      BY <2>4
    <3>3. SetStart(y, r) = S4(y.r, Read(y, y.r[0]))
      BY <1>2, <3>2, SetStartIs, Zenon
    <3> HIDE DEF S4
    <3> QED
      BY <1>3, <2>4, <3>1, <3>3
  <2> QED
    BY <2>1, <2>2, <2>3, <2>4
<1>5. FastStart(x, r) = FastStart(y, r)
  <2>1. CASE Fill(x.r[2])
    <3>1. FastStart(x, r) = F1(x.r, Read(x, x.r[0]))
      BY <1>2, <2>1, FastStartIs, Zenon
    <3>2. Fill(y.r[2])
      BY <2>1
    <3>3. FastStart(y, r) = F1(y.r, Read(y, y.r[0]))
      BY <1>2, <3>2, FastStartIs, Zenon
    <3> HIDE DEF F1
    <3> QED
      BY <1>3, <2>1, <3>1, <3>3
  <2>2. CASE ~Fill(x.r[2])
    <3>1. FastStart(x, r) = F2(x.r)
      BY <1>2, <2>2, FastStartIs, Zenon
    <3>2. ~Fill(y.r[2])
      BY <2>2
    <3>3. FastStart(y, r) = F2(y.r)
      BY <1>2, <3>2, FastStartIs, Zenon
    <3> HIDE DEF F2
    <3> QED
      BY <1>3, <2>2, <3>1, <3>3
  <2> QED
    BY <2>1, <2>2
<1> QED
  BY <1>4, <1>5 DEF StartOf

LEMMA EnterSame ==
  ASSUME NEW x, NEW y, Same(x, y), Seated(x), Roomy(x), x.pc = Vector, NEW c \in AllCalls, Asked(x, c), Clean(c), NEW w
  PROVE  /\ Same(BiosStep(x, w).x, BiosStep(y, w).x)
         /\ Opening(x).r = Opening(y).r
         /\ StartOf(x, Opening(x).r) = StartOf(y, Opening(y).r)
<1> DEFINE d == Opening(x)  e == Opening(y)
<1>1. x \in Machine /\ y \in Machine /\ x.pc = y.pc /\ x.cpsr = y.cpsr /\ x.num = y.num /\ x.r = y.r /\ x.bank = y.bank
  BY DEF Same
<1>2. Roomy(y) /\ Asked(y, c) /\ RoutineOf(y) = RoutineOf(x) /\ SysOf(y) = SysOf(x) /\ RoutineOf(x) \in Int
  BY <1>1, PlacesAre DEF Roomy, Sp, Asked, RoutineOf, SysOf
<1>3. Opened(x, d) /\ Opened(y, e) /\ d.r[12] = RoutineOf(x) /\ e.r[12] = RoutineOf(x)
  BY <1>1, <1>2, DispatchedIs DEF Opening
<1> HIDE DEF d, e
<1>4. d.r = e.r
  <2>1. d.r \in [Regs -> Int] /\ e.r \in [Regs -> Int]
    BY <1>3 DEF Opened, Machine
  <2>2. \A k \in Regs : k # 12 => d.r[k] = e.r[k]
    BY <1>1, <1>2, <1>3 DEF Opened
  <2>3. \A k \in Regs : d.r[k] = e.r[k]
    BY <1>3, <2>2
  <2> QED
    BY <2>1, <2>3
<1>5. Fill(c.r2) => Read(x, c.r0) = Read(y, c.r0)
  BY SameGives, CleanIs
<1>6. StartOf(x, d.r) = StartOf(y, e.r)
  BY <1>1, <1>4, <1>5, StartSame
<1> DEFINE st == StartOf(x, d.r)  sy == StartOf(y, e.r)
<1>7. BiosStep(x, w).x = Placed(d, st.pc, st.r) /\ Begun(c, x, st)
  BY <1>1, EnterIs DEF d
<1>8. BiosStep(y, w).x = Placed(e, sy.pc, sy.r)
  BY <1>1, <1>2, EnterIs DEF e
<1>9. st.pc \in Int /\ st.r \in [Regs -> Int]
  BY <1>7 DEF Begun
<1> DEFINE pc == st.pc  r == st.r
<1>10. BiosStep(x, w).x = Placed(d, pc, r) /\ BiosStep(y, w).x = Placed(e, pc, r) /\ pc \in Int /\ r \in [Regs -> Int]
  BY <1>6, <1>7, <1>8, <1>9
<1> HIDE DEF pc, r
<1>11. Same(Placed(d, pc, r), Placed(e, pc, r))
  BY <1>3, <1>10, OpenedSame
<1> QED
  BY <1>4, <1>6, <1>10, <1>11 DEF d, e

LEMMA StepSame ==
  ASSUME CallsClean, NEW x, NEW y, Same(x, y), Proto(x), NEW w
  PROVE  Same(BiosStep(x, w).x, BiosStep(y, w).x)
<1>1. x \in Machine /\ y \in Machine /\ x.pc = y.pc /\ x.cpsr = y.cpsr /\ x.num = y.num /\ x.r = y.r /\ x.bank = y.bank
  BY DEF Same
<1>2. Seated(x) /\ Seated(y) /\ Proto(y)
  BY SameProto, SeatsAre
<1>3. CASE x.pc = IrqVector
  <2>1. Sp(x, "irq") = IrqTop /\ Handler(x) \in Int /\ Sp(y, "irq") = IrqTop /\ Handler(y) \in Int
    BY <1>1, <1>2, <1>3, RaisingStep
  <2>2. Wrapped(x, IrqEntered(x)) /\ Wrapped(y, IrqEntered(y))
    BY <1>1, <2>1, IrqEnteredIs
  <2>3. Same(IrqEntered(x), IrqEntered(y))
    BY <1>2, <2>1, <2>2, WrappedSame
  <2> QED
    BY <1>1, <1>3, <2>3, BiosIs
<1>4. CASE x.pc = IrqReturn
  <2> DEFINE Back(z) == IrqBack(Relinked(Popped(z, "irq", <<0, 1, 2, 3, 12>>), "irq"))
  <2>1. Sp(x, "irq") = IrqTop - 6 /\ Sp(y, "irq") = IrqTop - 6
    BY <1>1, <1>2, <1>4, ReturnStep
  <2>2. Unwrapped(x, Back(x)) /\ Unwrapped(y, Back(y))
    BY <1>1, <2>1, IrqBackIs
  <2>3. BiosStep(x, w).x = Unmasked(Back(x), w) /\ BiosStep(y, w).x = Unmasked(Back(y), w)
    BY <1>1, <1>4, BiosIs DEF IrqLeft
  <2> HIDE DEF Back
  <2>4. Same(Back(x), Back(y))
    BY <1>2, <2>1, <2>2, UnwrappedSame
  <2> QED
    BY <2>3, <2>4, UnmaskedSame
<1>5. CASE x.pc = Vector
  <2>1. PICK c \in AllCalls : Asked(x, c)
    BY <1>5, AskingIs
  <2>2. Roomy(x) /\ Clean(c)
    BY <1>5, AskingIs DEF CallsClean, AllCalls
  <2> QED
    BY <1>2, <1>5, <2>1, <2>2, EnterSame
<1>6. CASE x.pc \in Loops
  <2>1. PICK c \in AllCalls, q \in Nat : x.pc = TopOf(c) /\ Within(c, q, x)
    BY <1>6, LoopingIs
  <2>2. Clean(c)
    BY DEF CallsClean, AllCalls
  <2>3. LeftAt(x) > 0 /\ (1 - 1) * UnitOf(c) = 0 /\ 1 * UnitOf(c) = UnitOf(c)
    <3> DEFINE n == Count(c.r2)  p == q * UnitOf(c)
    <3>1. n \in Nat /\ p \in Nat /\ UnitOf(c) \in Nat
      BY CallIs, UnitsAre
    <3>2. p < n /\ LeftAt(x) = n - p
      BY <2>1 DEF Within
    <3> HIDE DEF n, p
    <3> QED
      BY <3>1, <3>2
  <2>4. (1 - 1) * UnitOf(c) < LeftAt(x)
    BY <2>3
  <2>5. UnitAt(x) = UnitOf(c) /\ RunOk(x, 1 * UnitOf(c)) /\ 1 * UnitOf(c) \in Nat \ {0}
    BY <1>1, <2>1, <2>2, <2>4, RoundsRun
  <2> DEFINE n == UnitAt(x)
  <2>6. RunOk(x, n) /\ n \in Nat \ {0} /\ UnitAt(y) = n
    BY <1>1, <2>3, <2>5 DEF UnitAt
  <2> HIDE DEF n
  <2>7. RunOk(y, n) /\ LeftAt(y) = LeftAt(x) /\ Same(Ran(x, n), Ran(y, n))
    BY <1>2, <1>6, <2>6, SameRan
  <2>8. BiosStep(x, w).x = Settled(Ran(x, n))
    BY <1>1, <1>6, <2>3, <2>6, RoundIs DEF n
  <2>9. BiosStep(y, w).x = Settled(Ran(y, n))
    BY <1>1, <1>6, <2>3, <2>6, <2>7, RoundIs
  <2> QED
    BY <2>7, <2>8, <2>9, SameSettled
<1>7. CASE x.pc \in Exits
  <2>1. Framing(x) /\ Framing(y)
    BY <1>1, <1>2, <1>7, EndingIs
  <2>2. BiosStep(x, w).x = Completed(x).x /\ BiosStep(y, w).x = Completed(y).x
    BY <1>1, <1>7, BiosIs DEF Exits
  <2>3. Closed(x, Completed(x).x) /\ Closed(y, Completed(y).x)
    BY <1>1, <2>1, CompletedIs
  <2> QED
    BY <1>2, <2>1, <2>2, <2>3, ClosedSame
<1>8. CASE x.pc \in {GamePc, IsrPc}
  BY <1>1, <1>8, BiosIs
<1>9. x.pc \in {IrqVector, IrqReturn, Vector, GamePc, IsrPc} \cup Loops \cup Exits
  BY RaisingAt, TaskAt DEF Active
<1> QED
  BY <1>3, <1>4, <1>5, <1>6, <1>7, <1>8, <1>9

-----------------------------------------------------------------------------
(* Several steps of the interpreter.                                        *)

RunOn(p, w) == Charged(BiosStep(p.x, w), p.cost)
RunFrom(x, f, n, w) == f = [i \in 0 .. n |-> IF i = 0 THEN [x |-> x, cost |-> 0] ELSE RunOn(f[i - 1], w)]
\* g lists the machines of n steps from x on.
Steps(g, x, n, w) == g[0] = x /\ \A i \in 1 .. n : g[i] = BiosStep(g[i - 1], w).x

LEMMA RunsExist ==
  ASSUME NEW x, NEW n \in Nat, NEW w
  PROVE  \E f : RunFrom(x, f, n, w)
<1> DEFINE s == [x |-> x, cost |-> 0]
           S == {k \in Nat : \E f : RunFrom(x, f, k, w)}
<1> HIDE DEF s
<1>1. 0 \in S
  <2>1. RunFrom(x, [k \in 0 .. 0 |-> s], 0, w)
    BY DEF RunFrom, s
  <2> QED
    BY <2>1
<1>2. ASSUME NEW k \in Nat, k \in S
      PROVE  k + 1 \in S
  <2>1. PICK f : RunFrom(x, f, k, w)
    BY <1>2
  <2> DEFINE g == [i \in 0 .. k + 1 |-> IF i <= k THEN f[i] ELSE RunOn(f[k], w)]
  <2>2. ASSUME NEW i \in 0 .. k + 1
        PROVE  g[i] = IF i = 0 THEN s ELSE RunOn(g[i - 1], w)
    <3>1. CASE i = 0
      BY <2>1, <3>1 DEF RunFrom, s
    <3>2. CASE i # 0 /\ i <= k
      <4>1. i \in 0 .. k /\ i - 1 \in 0 .. k /\ i - 1 \in 0 .. k + 1
        BY <3>2
      <4>2. g[i] = f[i] /\ g[i - 1] = f[i - 1]
        BY <3>2, <4>1
      <4>3. f[i] = RunOn(f[i - 1], w)
        BY <2>1, <3>2, <4>1 DEF RunFrom
      <4> QED
        BY <3>2, <4>2, <4>3
    <3>3. CASE i = k + 1
      <4>1. i # 0 /\ ~(i <= k) /\ i - 1 = k /\ k \in 0 .. k + 1
        BY <3>3
      <4>2. g[i] = RunOn(f[k], w) /\ g[k] = f[k]
        BY <4>1
      <4> QED
        BY <3>3, <4>1, <4>2
    <3> QED
      BY <3>1, <3>2, <3>3
  <2>3. RunFrom(x, g, k + 1, w)
    <3>1. g = [i \in 0 .. k + 1 |-> g[i]]
      OBVIOUS
    <3> HIDE DEF g
    <3> QED
      BY <2>2, <3>1 DEF RunFrom, s
  <2> QED
    BY <2>3
<1> HIDE DEF S
<1>3. Nat \subseteq S
  BY <1>1, <1>2, Induction
<1> QED
  BY <1>3 DEF S

LEMMA RefStepsAre ==
  ASSUME NEW n \in Nat
  PROVE  \E g : Steps(g, ref, n, pending) /\ RefSteps(n).x = g[n]
<1> DEFINE F == CHOOSE f : RunFrom(ref, f, n, pending)
           g == [i \in 0 .. n |-> F[i].x]
<1>1. RunFrom(ref, F, n, pending)
  BY RunsExist
<1>2. RefSteps(n) = F[n]
  BY DEF RefSteps, RunFrom, RunOn
<1> HIDE DEF F
<1>3. g[0] = ref
  <2>1. F[0] = [x |-> ref, cost |-> 0]
    BY <1>1 DEF RunFrom
  <2> QED
    BY <2>1
<1>4. ASSUME NEW i \in 1 .. n PROVE g[i] = BiosStep(g[i - 1], pending).x
  <2>1. i \in 0 .. n /\ i - 1 \in 0 .. n /\ i # 0
    OBVIOUS
  <2>2. F[i] = RunOn(F[i - 1], pending)
    BY <1>1, <2>1 DEF RunFrom
  <2>3. g[i] = F[i].x /\ g[i - 1] = F[i - 1].x
    BY <2>1
  <2> HIDE DEF g
  <2> QED
    BY <2>2, <2>3 DEF RunOn, Charged
<1>5. g[n] = F[n].x
  OBVIOUS
<1> HIDE DEF g
<1> QED
  BY <1>2, <1>3, <1>4, <1>5 DEF Steps

LEMMA RefStepsOne ==
  RefSteps(1).x = BiosStep(ref, pending).x
<1>1. PICK g : Steps(g, ref, 1, pending) /\ RefSteps(1).x = g[1]
  BY RefStepsAre
<1>2. 1 \in 1 .. 1 /\ 1 - 1 = 0
  OBVIOUS
<1> QED
  BY <1>1, <1>2 DEF Steps

LEMMA RefStepsTwo ==
  RefSteps(2).x = BiosStep(BiosStep(ref, pending).x, pending).x
<1>1. PICK g : Steps(g, ref, 2, pending) /\ RefSteps(2).x = g[2]
  BY RefStepsAre
<1>2. 1 \in 1 .. 2 /\ 1 - 1 = 0 /\ 2 \in 1 .. 2 /\ 2 - 1 = 1
  OBVIOUS
<1> QED
  BY <1>1, <1>2 DEF Steps

LEMMA StepsProto ==
  ASSUME CallsClean, NEW x, Proto(x), NEW n \in Nat, NEW w, NEW g, Steps(g, x, n, w)
  PROVE  Proto(g[n])
<1> DEFINE S == {k \in Nat : k <= n => Proto(g[k])}
<1>1. 0 \in S
  BY DEF Steps
<1>2. ASSUME NEW k \in Nat, k \in S
      PROVE  k + 1 \in S
  <2>1. CASE k + 1 <= n
    <3>1. k <= n /\ k + 1 \in 1 .. n /\ (k + 1) - 1 = k
      BY <2>1
    <3>2. Proto(g[k])
      BY <1>2, <3>1
    <3>3. g[k + 1] = BiosStep(g[k], w).x
      BY <3>1 DEF Steps
    <3>4. Proto(g[k + 1])
      BY <3>2, <3>3, StepProto
    <3> QED
      BY <3>4
  <2> QED
    BY <2>1
<1> HIDE DEF S
<1>3. Nat \subseteq S
  BY <1>1, <1>2, Induction
<1> QED
  BY <1>3 DEF S

\* Rounds of a copy.
LEMMA StepsRounds ==
  ASSUME CallsClean, NEW x \in Machine, NEW c \in AllCalls, x.pc = TopOf(c), NEW q \in Nat, Within(c, q, x),
         NEW n \in Nat \ {0}, (n - 1) * UnitOf(c) < LeftAt(x), NEW w, NEW g, Steps(g, x, n, w)
  PROVE  g[n] = Settled(Ran(x, n * UnitOf(c)))
<1> DEFINE U == UnitOf(c)
           S == {k \in Nat : k \in 1 .. n => g[k] = Settled(Ran(x, k * U))}
<1>1. U \in Nat /\ U > 0 /\ Clean(c) /\ x.pc \in Loops
  BY UnitsAre DEF CallsClean, AllCalls
<1>2. LeftAt(x) \in Int
  BY <1>1, AtType
<1>3. ASSUME NEW k \in 1 .. n PROVE (k - 1) * U < LeftAt(x)
  <2>1. (k - 1) * U <= (n - 1) * U
    BY <1>1
  <2>2. (k - 1) * U \in Int /\ (n - 1) * U \in Int
    BY <1>1
  <2>3. (n - 1) * U < LeftAt(x)
    OBVIOUS
  <2> DEFINE a == (k - 1) * U  b == (n - 1) * U
  <2> HIDE DEF a, b
  <2> QED
    BY <1>2, <2>1, <2>2, <2>3 DEF a, b
<1> HIDE DEF U
<1>4. 0 \in S
  OBVIOUS
<1>5. ASSUME NEW k \in Nat, k \in S
      PROVE  k + 1 \in S
  <2>1. CASE k + 1 \in 1 .. n /\ k = 0
    <3>1. 1 \in 1 .. n /\ 1 - 1 = 0 /\ 1 * U = U /\ (1 - 1) * U = 0
      BY <1>1, <2>1
    <3>2. (1 - 1) * U < LeftAt(x)
      BY <1>3, <3>1
    <3>3. UnitAt(x) = U /\ RunOk(x, 1 * U)
      BY <1>1, <3>2, RoundsRun DEF U
    <3>4. BiosStep(x, w).x = Settled(Ran(x, U))
      BY <1>1, <3>1, <3>2, <3>3, RoundIs
    <3>5. g[1] = BiosStep(g[0], w).x /\ g[0] = x
      BY <3>1 DEF Steps
    <3> QED
      BY <2>1, <3>1, <3>4, <3>5
  <2>2. CASE k + 1 \in 1 .. n /\ k # 0
    <3>1. k \in 1 .. n /\ k \in Nat \ {0} /\ k + 1 \in Nat \ {0} /\ (k + 1) - 1 = k
      BY <2>2
    <3>2. g[k] = Settled(Ran(x, k * U))
      BY <1>5, <3>1
    <3>3. (k - 1) * U < LeftAt(x) /\ k * U < LeftAt(x)
      <4>1. ((k + 1) - 1) * U < LeftAt(x)
        BY <1>3, <2>2
      <4> QED
        BY <1>3, <3>1, <4>1
    <3> DEFINE y == Ran(x, k * U)
    <3>4. RunOk(x, k * U) /\ k * U \in Nat \ {0} /\ UnitAt(x) = U
      BY <1>1, <3>1, <3>3, RoundsRun DEF U
    <3>5. ((k + 1) - 1) * U < LeftAt(x)
      BY <3>1, <3>3
    <3>6. RunOk(x, (k + 1) * U)
      BY <1>1, <3>1, <3>5, RoundsRun DEF U
    <3>7. (k + 1) * U = k * U + U
      BY <1>1
    <3>8. /\ y \in Machine /\ LeftAt(y) = LeftAt(x) - k * U
          /\ LeftAt(y) > 0 => Settled(y) = y /\ Settled(y).pc = TopOf(c) /\ Within(c, q + k, Settled(y))
      BY <1>1, <3>1, <3>3, RoundsEnd DEF U
    <3> DEFINE e == k * U
    <3>9. LeftAt(y) > 0
      <4>1. e < LeftAt(x) /\ LeftAt(y) = LeftAt(x) - e /\ e \in Int
        BY <3>3, <3>4, <3>8
      <4> HIDE DEF e, y
      <4> QED
        BY <1>2, <4>1
    <3>10. g[k] = y /\ y.pc = TopOf(c)
      BY <3>2, <3>8, <3>9
    <3> HIDE DEF e
    <3>11. RunOk(x, e + U) /\ e \in Nat \ {0} /\ U \in Nat \ {0}
      BY <1>1, <3>4, <3>6, <3>7 DEF e
    <3>12. RunOk(Ran(x, e), U) /\ Ran(Ran(x, e), U) = Ran(x, e + U)
      BY <1>1, <3>11, RanJoin
    <3>13. UnitAt(y) = U /\ y.pc \in Loops
      BY <3>10, UnitsAre DEF U
    <3>14. RunOk(y, U) /\ Ran(y, U) = Ran(x, (k + 1) * U)
      BY <3>7, <3>12 DEF e
    <3> HIDE DEF y
    <3>15. BiosStep(y, w).x = Settled(Ran(y, U))
      BY <3>8, <3>9, <3>13, <3>14, RoundIs
    <3>16. g[k + 1] = BiosStep(g[k], w).x
      BY <2>2, <3>1 DEF Steps
    <3> QED
      BY <3>10, <3>14, <3>15, <3>16
  <2> QED
    BY <2>1, <2>2
<1> HIDE DEF S
<1>6. Nat \subseteq S
  BY <1>4, <1>5, Induction
<1> QED
  BY <1>6 DEF S, U

-----------------------------------------------------------------------------
(* Costs are counted.                                                       *)

LEMMA BiosCost ==
  ASSUME NEW x, NEW w, x.pc \in {IrqVector, IrqReturn, GamePc, IsrPc}
  PROVE  BiosStep(x, w).cost = 0
BY DEF BiosStep, IrqVector, IrqReturn, GamePc, IsrPc, Vector, HalfCopy, WordCopy, HalfFill, WordFill, FastCopy, FastFill,
       SetExit, FastExit

\* The next element a loop reads and the one it writes are mapped.
LEMMA LoopPriced ==
  ASSUME CallsClean, NEW x, Proto(x), x.pc \in Loops
  PROVE  /\ Cost(DestAt(x)) \in Nat
         /\ x.pc \notin Fills => Cost(FromAt(x)) \in Nat
<1>1. x \in Machine /\ DestAt(x) \in Int /\ FromAt(x) \in Int
  BY SeatsAre, AtType
<1>2. PICK c \in AllCalls, q \in Nat : x.pc = TopOf(c) /\ Within(c, q, x)
  BY LoopingIs
<1>3. Clean(c)
  BY DEF CallsClean, AllCalls
<1>4. LeftAt(x) > 0 /\ (1 - 1) * UnitOf(c) = 0 /\ 1 * UnitOf(c) = UnitOf(c)
  <2> DEFINE n == Count(c.r2)  p == q * UnitOf(c)
  <2>1. n \in Nat /\ p \in Nat /\ UnitOf(c) \in Nat
    BY CallIs, UnitsAre
  <2>2. p < n /\ LeftAt(x) = n - p
    BY <1>2 DEF Within
  <2> HIDE DEF n, p
  <2> QED
    BY <2>1, <2>2
<1>5. (1 - 1) * UnitOf(c) < LeftAt(x)
  BY <1>4
<1>6. /\ Span(DestAt(x), 1 * UnitOf(c)) \subseteq TargetOf(c)
      /\ x.pc \notin Fills => Span(FromAt(x), 1 * UnitOf(c)) \subseteq SourceOf(c)
  BY <1>1, <1>2, <1>3, <1>5, RoundsRun
<1>7. UnitOf(c) \in Nat /\ UnitOf(c) > 0
  BY UnitsAre
<1>8. \A a \in Int : a \in Span(a, UnitOf(c))
  BY <1>7 DEF Span
<1>9. \A a \in SourceOf(c) \cup TargetOf(c) : a \in DOMAIN Region
  BY <1>3, CleanIs
<1> QED
  BY <1>1, <1>4, <1>6, <1>8, <1>9, CostsAre

LEMMA AgainCost ==
  ASSUME NEW x, NEW again, NEW top, NEW out, NEW cost \in Int, NEW jump
  PROVE  Again(x, again, top, out, cost, jump).cost \in Int
BY CostsAre DEF Again, Stepped

LEMMA StepCost ==
  ASSUME CallsClean, NEW x, Proto(x), NEW w
  PROVE  BiosStep(x, w).cost \in Int
<1>1. x \in Machine
  BY SeatsAre
<1>2. CASE x.pc \in {IrqVector, IrqReturn, GamePc, IsrPc}
  BY <1>2, BiosCost
<1>3. CASE x.pc = Vector
  <2>1. PICK c \in AllCalls : Asked(x, c)
    BY <1>3, AskingIs
  <2>2. Roomy(x) /\ Clean(c)
    BY <1>3, AskingIs DEF CallsClean, AllCalls
  <2> DEFINE d == Opening(x)  st == StartOf(x, d.r)
  <2>3. Begun(c, x, st) /\ BiosStep(x, w).cost = st.cost
    BY <1>1, <1>3, <2>1, <2>2, EnterIs
  <2> HIDE DEF st
  <2> QED
    BY <2>3 DEF Begun
<1>4. CASE x.pc \in Exits
  <2>1. BiosStep(x, w) = Completed(x)
    BY <1>4, BiosIs DEF Exits
  <2>2. Completed(x).cost = 2 * Fetch + Stack + Branch
    BY DEF Completed, Returned, Stepped
  <2> QED
    BY <2>1, <2>2, CostsAre
<1>5. CASE x.pc \in Loops
  <2>1. Cost(DestAt(x)) \in Nat /\ (x.pc \notin Fills => Cost(FromAt(x)) \in Nat)
    BY <1>5, LoopPriced
  <2>2. Fetch \in Nat /\ Branch \in Nat /\ Chunk \in Nat
    BY CostsAre
  <2>3. CASE x.pc = HalfCopy
    <3>1. FromAt(x) = x.r[2] /\ DestAt(x) = x.r[1] + x.r[2] /\ x.pc \notin Fills
      BY <2>3, PlacesAre DEF FromAt, DestAt, HalfCopy, FastCopy
    <3> DEFINE k == 7 * Fetch + Cost(x.r[2]) + Cost(x.r[1] + x.r[2])
    <3>2. k \in Int
      BY <2>1, <2>2, <3>1
    <3> HIDE DEF k
    <3>3. HalfCopied(x).cost \in Int
      BY <3>2, AgainCost DEF HalfCopied, k
    <3> QED
      BY <2>3, <3>3, BiosIs
  <2>4. CASE x.pc = WordCopy
    <3>1. FromAt(x) = x.r[2] /\ DestAt(x) = x.r[1] + x.r[2] /\ x.pc \notin Fills
      BY <2>4, PlacesAre DEF FromAt, DestAt, WordCopy, FastCopy
    <3> DEFINE k == 7 * Fetch + Cost(x.r[2]) + Cost(x.r[1] + x.r[2])
    <3>2. k \in Int
      BY <2>1, <2>2, <3>1
    <3> HIDE DEF k
    <3>3. WordCopied(x).cost \in Int
      BY <3>2, AgainCost DEF WordCopied, k
    <3> QED
      BY <2>4, <3>3, BiosIs
  <2>5. CASE x.pc = HalfFill
    <3>1. DestAt(x) = x.r[1]
      BY <2>5 DEF DestAt, Fills
    <3> DEFINE k == 3 * Fetch + Cost(x.r[1])
    <3>2. k \in Int
      BY <2>1, <2>2, <3>1
    <3> HIDE DEF k
    <3>3. HalfFilled(x).cost \in Int
      BY <3>2, AgainCost DEF HalfFilled, k
    <3> QED
      BY <2>5, <3>3, BiosIs
  <2>6. CASE x.pc = WordFill
    <3>1. DestAt(x) = x.r[1]
      BY <2>6 DEF DestAt, Fills
    <3> DEFINE k == 3 * Fetch + Cost(x.r[1])
    <3>2. k \in Int
      BY <2>1, <2>2, <3>1
    <3> HIDE DEF k
    <3>3. WordFilled(x).cost \in Int
      BY <3>2, AgainCost DEF WordFilled, k
    <3> QED
      BY <2>6, <3>3, BiosIs
  <2>7. CASE x.pc = FastCopy
    <3>1. FromAt(x) = x.r[3] /\ DestAt(x) = x.r[1] + x.r[3] /\ x.pc \notin Fills
      BY <2>7, PlacesAre DEF FromAt, DestAt, FastCopy
    <3> DEFINE k == (4 + 7 * Chunk) * Fetch + Chunk * (Cost(x.r[3]) + Cost(x.r[1] + x.r[3])) + (Chunk - 1) * Branch
    <3>2. k \in Int
      BY <2>1, <2>2, <3>1
    <3> HIDE DEF k
    <3> DEFINE F == CHOOSE f : MoveLoop(f, MoveStart(x), Chunk)  z == MoveLess(F[Chunk])
    <3>3. FastCopied(x) = Again(z, z.r[4] > 0, FastCopy, FastExit, k, TRUE)
      BY DEF FastCopied, MoveOne, MoveStart, MoveLoop, MoveLess, k
    <3> HIDE DEF F, z
    <3>4. FastCopied(x).cost \in Int
      BY <3>2, <3>3, AgainCost
    <3> QED
      BY <2>7, <3>4, BiosIs
  <2>8. CASE x.pc = FastFill
    <3>1. DestAt(x) = x.r[1]
      BY <2>8 DEF DestAt, Fills
    <3> DEFINE k == (4 + 3 * Chunk) * Fetch + Chunk * Cost(x.r[1]) + (Chunk - 1) * Branch
    <3>2. k \in Int
      BY <2>1, <2>2, <3>1
    <3> HIDE DEF k
    <3>3. FastFilled(x).cost \in Int
      BY <3>2, AgainCost DEF FastFilled, k
    <3> QED
      BY <2>8, <3>3, BiosIs
  <2> QED
    BY <1>5, <2>3, <2>4, <2>5, <2>6, <2>7, <2>8 DEF Loops, Fills
<1>6. x.pc \in {IrqVector, IrqReturn, Vector, GamePc, IsrPc} \cup Loops \cup Exits
  BY RaisingAt, TaskAt DEF Active
<1> QED
  BY <1>2, <1>3, <1>4, <1>5, <1>6


-----------------------------------------------------------------------------
(* The steps keep the invariant.                                            *)

LEMMA AgreeAway ==
  ASSUME NEW a, NEW x, NEW y, Proto(y), Same(x, y), a # "engine"
  PROVE  Agrees(a, x, y)
BY DEF Agrees, Same

\* Outside the engine, both machines are in the protocol and alike.
LEMMA AwayIs ==
  ASSUME NEW a, NEW x, NEW y, Agrees(a, x, y), a # "engine"
  PROVE  Same(x, y) /\ Proto(x) /\ Proto(y) /\ x \in Machine /\ y \in Machine /\ x.pc = y.pc /\ x.cpsr = y.cpsr
<1>1. Same(x, y) /\ Proto(y)
  BY DEF Agrees
<1>2. Proto(x)
  BY <1>1, SameFlip, SameProto
<1> QED
  BY <1>1, <1>2 DEF Same

\* At a loop top with rounds left, too.
LEMMA TopsIs ==
  ASSUME NEW x, x.pc \in Tops
  PROVE  LeftAt(x) = Left(x) /\ UnitAt(x) = Unit(x) /\ x.pc \in Loops /\ x.pc # IrqVector
BY DEF LeftAt, Left, UnitAt, Unit, Tops, Loops, Fills, Fasts, FastCopy, FastFill, WordCopy, HalfCopy, HalfFill, WordFill,
       IrqVector

LEMMA EngineIs ==
  ASSUME NEW x, NEW y, Agrees("engine", x, y), Left(x) > 0
  PROVE  /\ Same(x, y) /\ Proto(x) /\ Proto(y) /\ x \in Machine /\ y \in Machine /\ x.pc = y.pc /\ x.cpsr = y.cpsr
         /\ x.pc \in Tops /\ Settled(x) = x
<1>1. x \in Machine /\ Proto(y) /\ Same(Settled(x), y) /\ x.pc \in Tops
  BY DEF Agrees
<1>2. LeftAt(x) \in Int /\ LeftAt(x) > 0
  BY <1>1, TopsIs, AtType
<1>3. Settled(x) = x
  BY <1>2 DEF Settled
<1>4. Proto(x)
  BY <1>1, <1>3, SameFlip, SameProto
<1> QED
  BY <1>1, <1>3, <1>4 DEF Same

LEMMA AgreeEngine ==
  ASSUME NEW x, NEW y, Proto(y), Same(x, y), x.pc \in Tops, Left(x) > 0
  PROVE  Agrees("engine", x, y)
<1>1. x \in Machine
  BY DEF Same
<1>2. LeftAt(x) \in Int /\ LeftAt(x) > 0
  BY <1>1, TopsIs, AtType
<1>3. Settled(x) = x
  BY <1>2 DEF Settled
<1> QED
  BY <1>1, <1>3 DEF Agrees

\* A step of the interpreter on both.
LEMMA StepAgrees ==
  ASSUME CallsClean, NEW a, NEW x, NEW y, Agrees(a, x, y), a # "engine", NEW w, NEW b, b # "engine"
  PROVE  Agrees(b, BiosStep(x, w).x, BiosStep(y, w).x)
<1>1. Same(x, y) /\ Proto(x) /\ Proto(y)
  BY AwayIs
<1>2. Same(BiosStep(x, w).x, BiosStep(y, w).x) /\ Proto(BiosStep(y, w).x)
  BY <1>1, StepSame, StepProto
<1> QED
  BY <1>2, AgreeAway

\* The event of a slice's end on both.
LEMMA TickAgrees ==
  ASSUME NEW x, NEW y, Same(x, y), Proto(y), NEW irq
  PROVE  Same(Ticked(x, irq), Ticked(y, irq)) /\ Proto(Ticked(y, irq))
<1>1. x.cpsr = y.cpsr
  BY DEF Same
<1>2. CASE (pending \/ irq) /\ ~Masked(x.cpsr)
  BY <1>1, <1>2, TickSame, TickProto DEF Ticked
<1>3. CASE ~((pending \/ irq) /\ ~Masked(x.cpsr))
  BY <1>1, <1>3 DEF Ticked
<1> QED
  BY <1>2, <1>3

LEMMA SlicesInt ==
  \A s \in Slices : s \in Int
BY SlicesPositive

LEMMA InterpretStepInv ==
  ASSUME CallsClean, IInv, InterpretStep
  PROVE  IInv'
<1>1. at = "bios" /\ Agrees(at, m, ref) /\ budget \in Int
  BY DEF InterpretStep, IInv
<1>2. /\ m' = BiosStep(m, pending).x /\ budget' = budget - BiosStep(m, pending).cost
      /\ at' # "engine" /\ ref' = RefSteps(1).x
  BY DEF InterpretStep, RefRuns
<1>3. ref' = BiosStep(ref, pending).x
  BY <1>2, RefStepsOne
<1>4. Proto(m)
  BY <1>1, AwayIs
<1>5. budget' \in Int
  BY <1>1, <1>2, <1>4, StepCost
<1>6. Agrees(at', m', ref')
  BY <1>1, <1>2, <1>3, StepAgrees
<1> QED
  BY <1>5, <1>6 DEF IInv

LEMMA TickedInv ==
  ASSUME IInv, NEW irq, at # "engine", m' = Ticked(m, irq), ref' = Ticked(ref, irq), Updated(irq), at' # "engine"
  PROVE  IInv'
<1>1. Same(m, ref) /\ Proto(ref)
  BY AwayIs DEF IInv
<1>2. Same(m', ref') /\ Proto(ref')
  BY <1>1, TickAgrees
<1>3. budget' \in Int
  BY SlicesInt DEF Updated
<1>4. Agrees(at', m', ref')
  BY <1>2, AgreeAway
<1> QED
  BY <1>3, <1>4 DEF IInv

LEMMA EventsInv ==
  ASSUME IInv, NEW irq \in BOOLEAN, NEW frame \in BOOLEAN,
         SliceOver(irq, frame) \/ InterpretEvent(irq, frame) \/ Return(irq, frame)
  PROVE  IInv'
<1>1. CASE SliceOver(irq, frame)
  BY <1>1, TickedInv DEF SliceOver
<1>2. CASE InterpretEvent(irq, frame)
  <2>1. at # "engine" /\ at' # "engine" /\ m' = Ticked(m, irq) /\ ref' = Ticked(ref, irq) /\ Updated(irq)
    BY <1>2 DEF InterpretEvent
  <2> QED
    BY <2>1, TickedInv
<1>3. CASE Return(irq, frame)
  <2>1. CASE budget > 0
    <3>1. at # "engine" /\ at' # "engine" /\ m' = m /\ ref' = ref /\ budget' = budget
      BY <1>3, <2>1 DEF Return
    <3>2. Agrees(at', m', ref')
      BY <3>1, AwayIs, AgreeAway DEF IInv
    <3> QED
      BY <3>1, <3>2 DEF IInv
  <2>2. CASE ~(budget > 0)
    <3>1. at # "engine" /\ at' # "engine" /\ m' = Ticked(m, irq) /\ ref' = Ticked(ref, irq) /\ Updated(irq)
      BY <1>3, <2>2 DEF Return
    <3> QED
      BY <3>1, TickedInv
  <2> QED
    BY <2>1, <2>2
<1> QED
  BY <1>1, <1>2, <1>3

LEMMA IdleStepsInv ==
  ASSUME IInv, Resume \/ Interpret \/ NextFrame \/ SlowAccess \/ \E b \in Code : RunCode(b)
  PROVE  IInv'
<1>1. m' = m /\ ref' = ref /\ at # "engine"
  BY DEF Resume, Interpret, NextFrame, SlowAccess, RunCode
<1>2. budget' \in Int
  BY SlicesInt DEF Resume, Interpret, NextFrame, SlowAccess, RunCode, IInv
<1>3. Same(m, ref) /\ Proto(ref)
  BY <1>1, AwayIs DEF IInv
<1>4. CASE at' # "engine"
  BY <1>1, <1>2, <1>3, <1>4, AgreeAway DEF IInv
<1>5. CASE at' = "engine"
  <2>1. m.pc \in Tops /\ Left(m) > 0
    BY <1>1, <1>5 DEF Resume, Interpret, NextFrame, SlowAccess, RunCode, Canonical
  <2>2. Agrees(at', m', ref')
    BY <1>1, <1>3, <1>5, <2>1, AgreeEngine
  <2> QED
    BY <1>2, <2>2 DEF IInv
<1> QED
  BY <1>4, <1>5


\* The service enters the wrapper as the BIOS does.
LEMMA EntryAgrees ==
  ASSUME CallsClean, NEW x, NEW y, Same(x, y), Proto(x), Proto(y), x.pc = IrqVector, EntersIrq(x), NEW a, a # "engine"
  PROVE  /\ Agrees(a, IrqEntry(x), IrqEntered(y))
         /\ \A w : BiosStep(y, w).x = IrqEntered(y)
<1>1. x \in Machine /\ Sp(x, "irq") = IrqTop /\ Handler(x) \in Int /\ Handler(x) % 4 = 0
  BY SeatsAre, RaisingStep DEF EntersIrq
<1>2. IrqEntry(x) = IrqEntered(x)
  BY <1>1, IrqEntryIs
<1>3. y.pc = IrqVector
  BY DEF Same
<1>4. BiosStep(x, FALSE).x = IrqEntered(x) /\ \A w : BiosStep(y, w).x = IrqEntered(y)
  BY <1>3, BiosIs
<1>5. Same(IrqEntry(x), IrqEntered(y))
  BY <1>2, <1>4, StepSame
<1>6. Proto(IrqEntered(y))
  BY <1>3, RaisingStep
<1> QED
  BY <1>4, <1>5, <1>6, AgreeAway

LEMMA EnterIrqInv ==
  ASSUME CallsClean, IInv, EnterIrq
  PROVE  IInv'
<1>1. /\ at = "jit" /\ m.pc = IrqVector /\ EntersIrq(m) /\ m' = IrqEntry(m) /\ ref' = RefSteps(1).x
      /\ at' = at /\ budget' = budget
  BY DEF EnterIrq, RefRuns
<1>2. Same(m, ref) /\ Proto(m) /\ Proto(ref)
  BY <1>1, AwayIs DEF IInv
<1>3. Agrees(at', IrqEntry(m), IrqEntered(ref)) /\ BiosStep(ref, pending).x = IrqEntered(ref)
  BY <1>1, <1>2, EntryAgrees
<1> QED
  BY <1>1, <1>3, RefStepsOne DEF IInv

LEMMA LeaveIrqInv ==
  ASSUME CallsClean, IInv, LeaveIrq
  PROVE  IInv'
<1> DEFINE x == IrqExit(m, pending)  y == BiosStep(ref, pending).x
<1>1. /\ at = "jit" /\ m.pc = IrqReturn /\ at' \in {"jit", "bios"} /\ budget' = budget
      /\ x.pc = IrqVector /\ EntersIrq(x) => m' = IrqEntry(x) /\ ref' = RefSteps(2).x
      /\ ~(x.pc = IrqVector /\ EntersIrq(x)) => m' = x /\ ref' = RefSteps(1).x
  BY DEF LeaveIrq, RefRuns
<1>2. Same(m, ref) /\ Proto(m) /\ Proto(ref) /\ m \in Machine
  BY <1>1, AwayIs DEF IInv
<1>3. x = BiosStep(m, pending).x
  <2>1. Sp(m, "irq") = IrqTop - 6
    BY <1>1, <1>2, ReturnStep
  <2>2. x = IrqLeft(m, pending)
    BY <1>2, <2>1, IrqExitIs
  <2> QED
    BY <1>1, <2>2, BiosIs
<1> HIDE DEF x
<1>4. Same(x, y) /\ Proto(x) /\ Proto(y)
  BY <1>2, <1>3, StepSame, StepProto
<1>5. RefSteps(1).x = y /\ RefSteps(2).x = BiosStep(y, pending).x
  BY RefStepsOne, RefStepsTwo
<1> HIDE DEF y
<1>6. CASE x.pc = IrqVector /\ EntersIrq(x)
  <2>1. at' # "engine" /\ m' = IrqEntry(x)
    BY <1>1, <1>6
  <2>2. Agrees(at', IrqEntry(x), IrqEntered(y)) /\ BiosStep(y, pending).x = IrqEntered(y)
    BY <1>4, <1>6, <2>1, EntryAgrees
  <2> QED
    BY <1>1, <1>5, <1>6, <2>1, <2>2 DEF IInv
<1>7. CASE ~(x.pc = IrqVector /\ EntersIrq(x))
  <2>1. at' # "engine" /\ m' = x /\ ref' = y
    BY <1>1, <1>5, <1>7
  <2>2. Agrees(at', x, y)
    BY <1>4, <2>1, AgreeAway
  <2> QED
    BY <1>1, <2>1, <2>2 DEF IInv
<1> QED
  BY <1>6, <1>7

LEMMA BatchEventInv ==
  ASSUME CallsClean, IInv, NEW irq \in BOOLEAN, NEW frame \in BOOLEAN, BatchEvent(irq, frame)
  PROVE  IInv'
<1> DEFINE x == Ticked(m, irq)  y == Ticked(ref, irq)  enters == ~frame /\ x.pc = IrqVector /\ EntersIrq(x)
<1>1. /\ at = "engine" /\ Left(m) > 0 /\ Updated(irq)
      /\ m' = IF enters THEN IrqEntry(x) ELSE x
      /\ ref' = IF enters THEN IrqEntered(y) ELSE y
      /\ at' = IF frame THEN "frame" ELSE IF x.pc = IrqVector \/ enters THEN "jit" ELSE "engine"
  BY DEF BatchEvent
<1>2. Same(m, ref) /\ Proto(m) /\ Proto(ref) /\ m.pc \in Tops
  BY <1>1, EngineIs DEF IInv
<1>3. Same(x, y) /\ Proto(y)
  BY <1>2, TickAgrees
<1>4. Proto(x)
  BY <1>3, SameFlip, SameProto
<1>5. x = m \/ x.pc = IrqVector
  BY DEF Ticked, Interrupted
<1>6. budget' \in Int
  BY <1>1, SlicesInt DEF Updated
<1> HIDE DEF x, y
<1>7. CASE enters
  <2>1. at' # "engine" /\ m' = IrqEntry(x) /\ ref' = IrqEntered(y)
    BY <1>1, <1>7
  <2>2. Agrees(at', IrqEntry(x), IrqEntered(y))
    BY <1>3, <1>4, <1>7, <2>1, EntryAgrees
  <2> QED
    BY <1>6, <2>1, <2>2 DEF IInv
<1>8. CASE ~enters /\ at' # "engine"
  <2>1. Agrees(at', x, y)
    BY <1>3, <1>8, AgreeAway
  <2> QED
    BY <1>1, <1>6, <1>8, <2>1 DEF IInv
<1>9. CASE ~enters /\ at' = "engine"
  <2>1. x.pc # IrqVector
    BY <1>1, <1>9
  <2>2. x = m
    BY <1>5, <2>1
  <2>3. Agrees("engine", x, y)
    BY <1>1, <1>2, <1>3, <2>2, AgreeEngine
  <2> QED
    BY <1>1, <1>6, <1>9, <2>3 DEF IInv
<1> QED
  BY <1>7, <1>8, <1>9

LEMMA DoneInv ==
  ASSUME CallsClean, IInv, Done
  PROVE  IInv'
<1> DEFINE x == Settled(m)  t == Unframed(m)  v == BiosStep(ref, pending).x
<1>1. /\ at = "engine" /\ Left(m) <= 0 /\ m' = t /\ budget' = budget - UnframeCost(m) /\ ref' = v /\ at' = "leave"
  BY RefStepsOne DEF Done, RefRuns
<1>2. m \in Machine /\ m.pc \in Tops /\ Same(x, ref) /\ Proto(ref)
  BY <1>1 DEF IInv, Agrees
<1>3. /\ x \in Machine /\ x.pc = OutOf(m.pc) /\ x.bank = m.bank /\ x.mem = m.mem /\ x.num = m.num /\ x.r = m.r
      /\ ref \in Machine /\ ref.pc = x.pc /\ ref.bank = x.bank
  <2>1. LeftAt(m) <= 0
    BY <1>1, <1>2, TopsIs
  <2> QED
    BY <1>2, <2>1, SettledType DEF Same
<1>4. x.pc \in Exits
  BY <1>3 DEF OutOf, Exits
<1>5. Proto(x)
  BY <1>2, SameFlip, SameProto
<1>6. Framing(ref) /\ Framing(m) /\ Framing(x) /\ Seated(x)
  <2>1. Framing(x) /\ Seated(x)
    BY <1>4, <1>5, EndingIs, SeatsAre
  <2> QED
    BY <1>3, <2>1 DEF Framing, Sp
<1>7. Closed(x, t)
  <2>1. Closed(m, t)
    BY <1>2, <1>6, UnframedIs
  <2> HIDE DEF t, x
  <2> QED
    BY <1>3, <2>1 DEF Closed, Sp, Read
<1>8. Closed(ref, v)
  <2>1. v = Completed(ref).x
    BY <1>3, <1>4, BiosIs DEF Exits
  <2> QED
    BY <1>3, <1>6, <2>1, CompletedIs
<1>9. Proto(v)
  BY <1>2, StepProto
<1> HIDE DEF x, t, v
<1>10. Same(t, v)
  BY <1>2, <1>6, <1>7, <1>8, ClosedSame
<1>11. budget' \in Int
  BY <1>1, CostsAre DEF IInv, UnframeCost, ExitCost
<1>12. Agrees("leave", t, v)
  BY <1>9, <1>10, AgreeAway
<1> QED
  BY <1>1, <1>11, <1>12 DEF IInv


\* A parked call: the frames, and four registers.
FourSet(y, i, a, j, b, k, c, l, d) == SetR(SetR(SetR(SetR(y, i, a), j, b), k, c), l, d)
OnlyRegs(y, t, r) ==
  t \in Machine /\ t.pc = y.pc /\ t.cpsr = y.cpsr /\ t.num = y.num /\ t.bank = y.bank /\ t.mem = y.mem /\ t.r = r
LEMMA FourSetIs ==
  ASSUME NEW y \in Machine, NEW i \in Regs, NEW j \in Regs, NEW k \in Regs, NEW l \in Regs,
         NEW a \in Int, NEW b \in Int, NEW c \in Int, NEW d \in Int
  PROVE  OnlyRegs(y, FourSet(y, i, a, j, b, k, c, l, d),
                  [[[[y.r EXCEPT ![i] = a] EXCEPT ![j] = b] EXCEPT ![k] = c] EXCEPT ![l] = d])
<1> DEFINE p == SetR(y, i, a)  q == SetR(p, j, b)  s == SetR(q, k, c)  t == SetR(s, l, d)
<1>1. Puts(y, i, a, p) /\ p.r = [y.r EXCEPT ![i] = a]
  BY SetRIs DEF SetR, Machine
<1>2. p \in Machine
  BY <1>1 DEF Puts
<1> HIDE DEF p
<1>3. Puts(p, j, b, q) /\ q.r = [p.r EXCEPT ![j] = b]
  BY <1>2, SetRIs DEF SetR, Machine
<1>4. q \in Machine
  BY <1>3 DEF Puts
<1> HIDE DEF q
<1>5. Puts(q, k, c, s) /\ s.r = [q.r EXCEPT ![k] = c]
  BY <1>4, SetRIs DEF SetR, Machine
<1>6. s \in Machine
  BY <1>5 DEF Puts
<1> HIDE DEF s
<1>7. Puts(s, l, d, t) /\ t.r = [s.r EXCEPT ![l] = d]
  BY <1>6, SetRIs DEF SetR, Machine
<1> HIDE DEF t
<1>8. /\ t \in Machine /\ t.pc = y.pc /\ t.cpsr = y.cpsr /\ t.num = y.num /\ t.bank = y.bank /\ t.mem = y.mem
      /\ t.r = [[[[y.r EXCEPT ![i] = a] EXCEPT ![j] = b] EXCEPT ![k] = c] EXCEPT ![l] = d]
  BY <1>1, <1>3, <1>5, <1>7 DEF Puts
<1>9. FourSet(y, i, a, j, b, k, c, l, d) = t
  BY DEF FourSet, p, q, s, t
<1> QED
  BY <1>8, <1>9 DEF OnlyRegs

At(x, pc) == [x EXCEPT !.pc = pc]
LEMMA AtIs ==
  ASSUME NEW x \in Machine, NEW pc \in Int
  PROVE  LET t == At(x, pc) IN
         /\ t \in Machine /\ t.pc = pc /\ t.cpsr = x.cpsr /\ t.num = x.num /\ t.bank = x.bank /\ t.mem = x.mem /\ t.r = x.r
BY DEF Machine, At

LEMMA MaterialIs ==
  ASSUME NEW x
  PROVE  LET src == x.r[0]  dst == x.r[1]  n == Count(x.r[2])  y == At(Framed(x), LoopOf(x)) IN
         /\ LoopOf(x) = FastFill => Materialized(x) = FourSet(y, 2, Read(x, src), 3, src, 4, n, 12, FastEntry)
         /\ LoopOf(x) = FastCopy => Materialized(x) = FourSet(y, 1, dst - src, 3, src, 4, n, 12, Limit)
         /\ LoopOf(x) = WordCopy => Materialized(x) = FourSet(y, 1, dst - src, 2, src, 3, n, 12, Limit)
         /\ LoopOf(x) = HalfCopy => Materialized(x) = FourSet(y, 1, dst - src, 2, src, 3, src + n, 4, Limit)
<1> DEFINE src == x.r[0]  dst == x.r[1]  n == Count(x.r[2])  y == At(Framed(x), LoopOf(x))  p == LoopOf(x)
           A == FourSet(y, 2, Read(x, src), 3, src, 4, n, 12, FastEntry)
           B == FourSet(y, 1, dst - src, 3, src, 4, n, 12, Limit)
           C == FourSet(y, 1, dst - src, 2, src, 3, n, 12, Limit)
           D == FourSet(y, 1, dst - src, 2, src, 3, src + n, 4, Limit)
<1>1. Materialized(x) = CASE p = FastFill -> A [] p = FastCopy -> B [] p = WordCopy -> C [] p = HalfCopy -> D
  BY Zenon DEF Materialized, FourSet, SetR, At
<1> HIDE DEF A, B, C, D, p
<1>2. /\ p = FastFill => Materialized(x) = A
      /\ p = FastCopy => Materialized(x) = B
      /\ p = WordCopy => Materialized(x) = C
      /\ p = HalfCopy => Materialized(x) = D
  BY <1>1 DEF FastFill, FastCopy, WordCopy, HalfCopy
<1> QED
  BY <1>2 DEF A, B, C, D, p

\* The loop registers of a call that is parked.
Parkable(x, c) == Asked(x, c) /\ Clean(c) /\ Count(c.r2) # 0 /\ (c.num = 12 \/ ~Fill(c.r2))
LEMMA ParkRegs ==
  ASSUME NEW x, NEW c \in AllCalls, Parkable(x, c), NEW r
  PROVE  LET st == StartOf(x, r)  src == x.r[0]  dst == x.r[1]  n == Count(x.r[2]) IN
         /\ st.pc = TopOf(c) /\ LoopOf(x) = TopOf(c) /\ LoopOf(x) \in Tops
         /\ LoopOf(x) = FastFill => st.r = [r EXCEPT ![2] = Read(x, src), ![3] = src, ![4] = n]
         /\ LoopOf(x) = FastCopy => st.r = [r EXCEPT ![1] = dst - src, ![3] = src, ![4] = n, ![12] = Limit]
         /\ LoopOf(x) = WordCopy => st.r = [r EXCEPT ![1] = dst - src, ![2] = src, ![3] = n, ![12] = Limit]
         /\ LoopOf(x) = HalfCopy =>
              st.r = [r EXCEPT ![1] = dst - src, ![2] = src, ![3] = src + n, ![4] = Limit, ![12] = x.r[12]]
<1> DEFINE st == StartOf(x, r)
           RA == [r EXCEPT ![2] = Read(x, x.r[0]), ![3] = x.r[0], ![4] = Count(x.r[2])]
           RB == [r EXCEPT ![1] = x.r[1] - x.r[0], ![3] = x.r[0], ![4] = Count(x.r[2]), ![12] = Limit]
           RC == [r EXCEPT ![1] = x.r[1] - x.r[0], ![2] = x.r[0], ![3] = Count(x.r[2]), ![12] = Limit]
           RD == [r EXCEPT ![1] = x.r[1] - x.r[0], ![2] = x.r[0], ![3] = x.r[0] + Count(x.r[2]), ![4] = Limit, ![12] = x.r[12]]
<1>1. x.num = c.num /\ x.r[0] = c.r0 /\ x.r[1] = c.r1 /\ x.r[2] = c.r2 /\ Count(x.r[2]) # 0 /\ Clean(c)
      /\ (c.num = 12 \/ ~Fill(c.r2))
  BY DEF Asked, Parkable
<1>2. Longer(x)
  BY <1>1, CleanIs DEF Longer
<1>3. FastFill = 1904 /\ FastCopy = 1956 /\ WordCopy = 1708 /\ HalfCopy = 1640 /\ Tops = {1956, 1904, 1708, 1640}
  BY PlacesAre DEF FastFill, FastCopy, WordCopy, HalfCopy
<1>4. CASE c.num = 12 /\ Fill(c.r2)
  <2>1. LoopOf(x) = FastFill /\ TopOf(c) = FastFill /\ Fill(x.r[2]) /\ st = FastStart(x, r)
    BY <1>1, <1>4, TopIs DEF LoopOf, StartOf
  <2>2. FastStart(x, r) = IF Count(x.r[2]) = 0 THEN Loop(FastExit, [r EXCEPT ![2] = Read(x, x.r[0]), ![4] = 0], 20 * Fetch + Cost(x.r[0]) + Branch)
                 ELSE Loop(FastFill, RA, 20 * Fetch + Cost(x.r[0]))
    BY <1>2, <2>1, FastStartIs, Zenon
  <2> HIDE DEF RA, st
  <2>3. st.pc = FastFill /\ st.r = RA
    BY <1>1, <2>1, <2>2 DEF Loop
  <2> QED
    BY <1>3, <2>1, <2>3 DEF st, RA
<1>5. CASE c.num = 12 /\ ~Fill(c.r2)
  <2>1. LoopOf(x) = FastCopy /\ TopOf(c) = FastCopy /\ ~Fill(x.r[2]) /\ st = FastStart(x, r)
    BY <1>1, <1>5, TopIs DEF LoopOf, StartOf
  <2>2. FastStart(x, r) = IF Count(x.r[2]) = 0 THEN Loop(FastExit, [r EXCEPT ![3] = x.r[0], ![4] = 0], 19 * Fetch + 2 * Branch)
                 ELSE Loop(FastCopy, RB, 19 * Fetch + Branch)
    BY <1>2, <2>1, FastStartIs, Zenon
  <2> HIDE DEF RB, st
  <2>3. st.pc = FastCopy /\ st.r = RB
    BY <1>1, <2>1, <2>2 DEF Loop
  <2> QED
    BY <1>3, <2>1, <2>3 DEF st, RB
<1>6. CASE c.num = 11 /\ Word(c.r2) /\ ~Fill(c.r2)
  <2>1. LoopOf(x) = WordCopy /\ TopOf(c) = WordCopy /\ Word(x.r[2]) /\ ~Fill(x.r[2]) /\ st = SetStart(x, r)
    BY <1>1, <1>6, TopIs DEF LoopOf, StartOf
  <2>2. SetStart(x, r) = IF Count(x.r[2]) = 0 THEN Loop(SetExit, [r EXCEPT ![2] = x.r[0]], 21 * Fetch + 2 * Branch)
                 ELSE Loop(WordCopy, RC, 21 * Fetch + Branch)
    BY <1>2, <2>1, SetStartIs, Zenon
  <2> HIDE DEF RC, st
  <2>3. st.pc = WordCopy /\ st.r = RC
    BY <1>1, <2>1, <2>2 DEF Loop
  <2> QED
    BY <1>3, <2>1, <2>3 DEF st, RC
<1>7. CASE c.num = 11 /\ ~Word(c.r2) /\ ~Fill(c.r2)
  <2>1. LoopOf(x) = HalfCopy /\ TopOf(c) = HalfCopy /\ ~Word(x.r[2]) /\ ~Fill(x.r[2]) /\ st = SetStart(x, r)
    BY <1>1, <1>7, TopIs DEF LoopOf, StartOf
  <2>2. SetStart(x, r) = IF Count(x.r[2]) = 0 THEN Loop(SetExit, r, 17 * Fetch + Branch)
                 ELSE Loop(HalfCopy, RD, 21 * Fetch)
    BY <1>2, <2>1, SetStartIs, Zenon
  <2> HIDE DEF RD, st
  <2>3. st.pc = HalfCopy /\ st.r = RD
    BY <1>1, <2>1, <2>2 DEF Loop
  <2> QED
    BY <1>3, <2>1, <2>3 DEF st, RD
<1>8. c.num = 11 \/ c.num = 12
  BY TopIs
<1> QED
  BY <1>1, <1>4, <1>5, <1>6, <1>7, <1>8

LEMMA MaterializedIs ==
  ASSUME NEW x \in Machine, Roomy(x), NEW c \in AllCalls, Parkable(x, c)
  PROVE  LET st == StartOf(x, Opening(x).r) IN
         /\ Materialized(x) = Placed(Framed(x), st.pc, st.r)
         /\ Materialized(x) \in Machine /\ Materialized(x).pc = TopOf(c) /\ TopOf(c) \in Tops
         /\ st.pc \in Int /\ st.r \in [Regs -> Int]
<1> DEFINE d == Opening(x)  F == Framed(x)  st == StartOf(x, d.r)  y == At(F, LoopOf(x))  t == Materialized(x)
           src == x.r[0]  dst == x.r[1]  n == Count(x.r[2])
<1>1. /\ Asked(x, c) /\ Clean(c) /\ x.r[0] = c.r0 /\ x.r[1] = c.r1 /\ x.r[2] = c.r2 /\ n \in Int /\ src \in Int /\ dst \in Int
      /\ Fill(c.r2) => Read(x, src) \in Int
  <2>1. Fill(c.r2) /\ Clean(c) => c.r0 \in DOMAIN Host
    BY CleanIs
  <2> QED
    BY <2>1, CallIs, ReadType DEF Parkable, Asked
<1>2. Opened(x, d) /\ d.r[12] = RoutineOf(x)
  BY DispatchedIs DEF Opening, RoutineOf, SetEntry, FastEntry
<1>3. Opened(x, F) /\ F.r[12] = x.r[12]
  BY FramedIs
<1>4. d.r \in [Regs -> Int] /\ F.r \in [Regs -> Int] /\ F \in Machine /\ d \in Machine
  BY <1>2, <1>3 DEF Opened, Machine
<1>5. \A k \in Regs : k # 12 => d.r[k] = F.r[k]
  BY <1>2, <1>3 DEF Opened
<1>6. /\ st.pc = TopOf(c) /\ LoopOf(x) = TopOf(c) /\ LoopOf(x) \in Tops
      /\ LoopOf(x) = FastFill => st.r = [d.r EXCEPT ![2] = Read(x, src), ![3] = src, ![4] = n]
      /\ LoopOf(x) = FastCopy => st.r = [d.r EXCEPT ![1] = dst - src, ![3] = src, ![4] = n, ![12] = Limit]
      /\ LoopOf(x) = WordCopy => st.r = [d.r EXCEPT ![1] = dst - src, ![2] = src, ![3] = n, ![12] = Limit]
      /\ LoopOf(x) = HalfCopy =>
           st.r = [d.r EXCEPT ![1] = dst - src, ![2] = src, ![3] = src + n, ![4] = Limit, ![12] = x.r[12]]
  BY Zenon, ParkRegs
<1>7. /\ LoopOf(x) = FastFill => t = FourSet(y, 2, Read(x, src), 3, src, 4, n, 12, FastEntry)
      /\ LoopOf(x) = FastCopy => t = FourSet(y, 1, dst - src, 3, src, 4, n, 12, Limit)
      /\ LoopOf(x) = WordCopy => t = FourSet(y, 1, dst - src, 2, src, 3, n, 12, Limit)
      /\ LoopOf(x) = HalfCopy => t = FourSet(y, 1, dst - src, 2, src, 3, src + n, 4, Limit)
  BY MaterialIs
<1>8. LoopOf(x) \in Int /\ LoopOf(x) \in {FastFill, FastCopy, WordCopy, HalfCopy}
  BY <1>6, PlacesAre DEF Tops
<1>9. y \in Machine /\ y.pc = LoopOf(x) /\ y.cpsr = F.cpsr /\ y.num = F.num /\ y.bank = F.bank /\ y.mem = F.mem /\ y.r = F.r
  BY <1>4, <1>8, AtIs
<1>10. LoopOf(x) = FastFill => c.num = 12 /\ Fill(c.r2)
  <2>1. LoopOf(x) = TopOf(c) /\ (LoopOf(x) = FastFill => LoopOf(x) \in Fills /\ LoopOf(x) \in Fasts)
    BY <1>6 DEF Fills, Fasts
  <2> QED
    BY <2>1, TopIs
<1> HIDE DEF d, F, st, y, t, src, dst, n
<1>11. OnlyRegs(y, t, st.r)
  <2>1. Limit \in Int /\ FastEntry \in Int /\ dst - src \in Int /\ src + n \in Int /\ x.r[12] \in Int
    BY <1>1, RegType DEF Limit, FastEntry
  <2>2. CASE LoopOf(x) = FastFill
    <3> DEFINE v == Read(x, src)  e == [[[[y.r EXCEPT ![2] = v] EXCEPT ![3] = src] EXCEPT ![4] = n] EXCEPT ![12] = FastEntry]
    <3>1. t = FourSet(y, 2, v, 3, src, 4, n, 12, FastEntry) /\ v \in Int
      BY <1>1, <1>7, <1>10, <2>2
    <3>2. st.r = [d.r EXCEPT ![2] = v, ![3] = src, ![4] = n] /\ d.r[12] = FastEntry
      BY <1>1, <1>2, <1>6, <1>10, <2>2 DEF RoutineOf, Asked
    <3> HIDE DEF v
    <3>3. OnlyRegs(y, FourSet(y, 2, v, 3, src, 4, n, 12, FastEntry), e)
      BY <1>1, <1>9, <2>1, <3>1, FourSetIs, NamesAre, Zenon
    <3>4. e = st.r
      <4>1. \A k \in Regs : e[k] = st.r[k]
        BY <1>4, <1>5, <1>9, <3>2
      <4> QED
        BY <1>4, <1>9, <3>2, <4>1
    <3> QED
      BY <3>1, <3>3, <3>4
  <2>3. CASE LoopOf(x) = FastCopy
    <3> DEFINE v == dst - src  e == [[[[y.r EXCEPT ![1] = v] EXCEPT ![3] = src] EXCEPT ![4] = n] EXCEPT ![12] = Limit]
    <3>1. t = FourSet(y, 1, v, 3, src, 4, n, 12, Limit) /\ v \in Int
      BY <1>7, <2>1, <2>3
    <3>2. st.r = [d.r EXCEPT ![1] = v, ![3] = src, ![4] = n, ![12] = Limit]
      BY <1>6, <2>3
    <3> HIDE DEF v
    <3>3. OnlyRegs(y, FourSet(y, 1, v, 3, src, 4, n, 12, Limit), e)
      BY <1>1, <1>9, <2>1, <3>1, FourSetIs, NamesAre, Zenon
    <3>4. e = st.r
      <4>1. \A k \in Regs : e[k] = st.r[k]
        BY <1>4, <1>5, <1>9, <3>2
      <4> QED
        BY <1>4, <1>9, <3>2, <4>1
    <3> QED
      BY <3>1, <3>3, <3>4
  <2>4. CASE LoopOf(x) = WordCopy
    <3> DEFINE v == dst - src  e == [[[[y.r EXCEPT ![1] = v] EXCEPT ![2] = src] EXCEPT ![3] = n] EXCEPT ![12] = Limit]
    <3>1. t = FourSet(y, 1, v, 2, src, 3, n, 12, Limit) /\ v \in Int
      BY <1>7, <2>1, <2>4
    <3>2. st.r = [d.r EXCEPT ![1] = v, ![2] = src, ![3] = n, ![12] = Limit]
      BY <1>6, <2>4
    <3> HIDE DEF v
    <3>3. OnlyRegs(y, FourSet(y, 1, v, 2, src, 3, n, 12, Limit), e)
      BY <1>1, <1>9, <2>1, <3>1, FourSetIs, NamesAre, Zenon
    <3>4. e = st.r
      <4>1. \A k \in Regs : e[k] = st.r[k]
        BY <1>4, <1>5, <1>9, <3>2
      <4> QED
        BY <1>4, <1>9, <3>2, <4>1
    <3> QED
      BY <3>1, <3>3, <3>4
  <2>5. CASE LoopOf(x) = HalfCopy
    <3> DEFINE v == dst - src  p == src + n
               e == [[[[y.r EXCEPT ![1] = v] EXCEPT ![2] = src] EXCEPT ![3] = p] EXCEPT ![4] = Limit]
    <3>1. t = FourSet(y, 1, v, 2, src, 3, p, 4, Limit) /\ v \in Int /\ p \in Int
      BY <1>7, <2>1, <2>5
    <3>2. st.r = [d.r EXCEPT ![1] = v, ![2] = src, ![3] = p, ![4] = Limit, ![12] = x.r[12]]
      BY <1>6, <2>5
    <3> HIDE DEF v, p
    <3>3. OnlyRegs(y, FourSet(y, 1, v, 2, src, 3, p, 4, Limit), e)
      BY <1>1, <1>9, <2>1, <3>1, FourSetIs, NamesAre, Zenon
    <3>4. e = st.r
      <4>1. \A k \in Regs : e[k] = st.r[k]
        BY <1>3, <1>4, <1>5, <1>9, <3>2 DEF F
      <4> QED
        BY <1>4, <1>9, <3>2, <4>1
    <3> QED
      BY <3>1, <3>3, <3>4
  <2> QED
    BY <1>8, <2>2, <2>3, <2>4, <2>5
<1>12. t \in Machine /\ t.r \in [Regs -> Int] /\ t.pc = st.pc /\ st.pc \in Int /\ t.pc \in Int
  BY <1>6, <1>8, <1>9, <1>11 DEF Machine, OnlyRegs
<1>13. st.r \in [Regs -> Int]
  BY <1>11, <1>12 DEF OnlyRegs
<1> DEFINE z == Placed(F, st.pc, st.r)
<1>14. z \in Machine /\ z.pc = st.pc /\ z.r = st.r /\ z.cpsr = F.cpsr /\ z.num = F.num /\ z.bank = F.bank /\ z.mem = F.mem
  BY <1>4, <1>12, <1>13, PlacedIs
<1> HIDE DEF z
<1>15. t = z
  BY <1>9, <1>11, <1>12, <1>14, MachineEq DEF OnlyRegs
<1> QED
  BY <1>6, <1>12, <1>13, <1>15 DEF d, F, st, t, z

LEMMA LoopCostInt ==
  ASSUME NEW x, NEW c \in AllCalls, Parkable(x, c)
  PROVE  LoopCost(x) \in Int
<1>1. LoopOf(x) = TopOf(c) /\ LoopOf(x) \in Tops /\ x.r[0] = c.r0
  BY ParkRegs DEF Parkable, Asked
<1>2. LoopOf(x) = FastFill => Cost(x.r[0]) \in Int
  <2>1. LoopOf(x) = FastFill => LoopOf(x) \in Fills
    BY DEF Fills
  <2> QED
    BY <1>1, <2>1, TopIs, CleanIs DEF Parkable
<1>3. LoopOf(x) \in {FastFill, FastCopy, WordCopy, HalfCopy}
  BY <1>1 DEF Tops
<1>4. EntryCost \in Int /\ Fetch \in Int /\ Branch \in Int
  BY CostsAre DEF EntryCost
<1> DEFINE p == LoopOf(x)
<1>5. LoopCost(x) = EntryCost + (CASE p = FastFill -> 20 * Fetch + Cost(x.r[0])
                 [] p = FastCopy -> 20 * Fetch + Branch
                 [] p = WordCopy -> 22 * Fetch + Branch
                 [] p = HalfCopy -> 21 * Fetch)
  BY DEF LoopCost
<1> HIDE DEF p
<1> QED
  BY <1>2, <1>3, <1>4, <1>5 DEF p, FastFill, FastCopy, WordCopy, HalfCopy

LEMMA ParkInv ==
  ASSUME CallsClean, IInv, Park
  PROVE  IInv'
<1> DEFINE t == Materialized(m)  v == BiosStep(ref, pending).x  u == BiosStep(m, pending).x
           d == Opening(m)  F == Framed(m)  st == StartOf(m, d.r)
<1>1. /\ at = "jit" /\ m.pc = Vector /\ Oversized(Predict(m)) /\ m' = t /\ at' = "engine"
      /\ budget' = budget - LoopCost(m) /\ ref' = v
  BY RefStepsOne DEF Park, Called, RefRuns
<1>2. Same(m, ref) /\ Proto(m) /\ Proto(ref) /\ m \in Machine
  BY <1>1, AwayIs DEF IInv
<1>3. PICK c \in AllCalls : Asked(m, c)
  BY <1>1, <1>2, AskingIs
<1>4. Roomy(m) /\ Clean(c)
  BY <1>1, <1>2, AskingIs DEF CallsClean, AllCalls
<1>5. Parkable(m, c)
  BY <1>1, <1>3, <1>4 DEF Oversized, Parkable, Asked
<1>6. /\ t = Placed(F, st.pc, st.r) /\ t \in Machine /\ t.pc = TopOf(c) /\ TopOf(c) \in Tops
      /\ st.pc \in Int /\ st.r \in [Regs -> Int]
  BY <1>2, <1>4, <1>5, MaterializedIs
<1>7. Opened(m, d) /\ Begun(c, m, st) /\ u = Placed(d, st.pc, st.r)
  BY <1>1, <1>2, <1>3, <1>4, EnterIs
<1>8. Opened(m, F)
  BY <1>2, <1>4, FramedIs
<1> HIDE DEF t, v, d, F, st
<1>9. Same(t, u)
  BY <1>2, <1>4, <1>6, <1>7, <1>8, SameRefl, OpenedSame
<1>10. Same(u, v) /\ Proto(v)
  BY <1>2, StepSame, StepProto DEF v
<1> HIDE DEF u
<1>11. Same(t, v)
  BY <1>9, <1>10, SameTrans
<1>12. Left(t) > 0
  <2>1. t.pc = st.pc /\ t.r = st.r
    BY <1>6, <1>8, PlacedIs DEF Opened
  <2>2. Within(c, 0, t)
    BY <1>5, <1>7, <2>1, BegunIs DEF Parkable
  <2>3. Count(c.r2) \in Nat /\ 0 * UnitOf(c) = 0
    BY CallIs, UnitsAre
  <2>4. LeftAt(t) > 0
    BY <2>2, <2>3 DEF Within
  <2> QED
    BY <1>6, <2>4, TopsIs
<1>13. Agrees("engine", t, v)
  BY <1>6, <1>10, <1>11, <1>12, AgreeEngine
<1>14. budget' \in Int
  BY <1>1, <1>5, LoopCostInt DEF IInv
<1> QED
  BY <1>1, <1>13, <1>14 DEF IInv

\* A batch has at least one round and none that is not due.
LEMMA UnitCostIs ==
  ASSUME CallsClean, NEW x, Proto(x), x.pc \in Tops
  PROVE  UnitCost(x) \in Nat /\ UnitCost(x) > 0
<1>1. x.pc \in Loops /\ x.pc \in {FastFill, FastCopy, WordCopy, HalfCopy}
  BY TopsIs DEF Tops
<1>2. Cost(DestAt(x)) \in Nat /\ (x.pc \notin Fills => Cost(FromAt(x)) \in Nat)
  BY <1>1, LoopPriced
<1>3. Fetch \in Nat /\ Fetch > 0 /\ Branch \in Nat /\ Chunk \in Nat /\ Chunk > 0
  BY CostsAre
<1>4. /\ Dest(x) = DestAt(x)
      /\ x.pc # FastFill => x.pc \notin Fills /\ Source(x) = FromAt(x)
  BY <1>1 DEF Dest, DestAt, Source, FromAt, Fills, FastFill, FastCopy, WordCopy, HalfCopy, HalfFill, WordFill
<1> DEFINE s == Cost(Source(x))  d == Cost(Dest(x))
<1>5. d \in Nat /\ (x.pc # FastFill => s \in Nat)
  BY <1>2, <1>4
<1>6. UnitCost(x) =
        CASE x.pc = FastFill -> (4 + 3 * Chunk) * Fetch + Chunk * d + Chunk * Branch
          [] x.pc = FastCopy -> (4 + 7 * Chunk) * Fetch + Chunk * (s + d) + Chunk * Branch
          [] x.pc \in {WordCopy, HalfCopy} -> 7 * Fetch + s + d + Branch
  BY DEF UnitCost
<1> HIDE DEF s, d
<1>7. \A i, j \in Nat : i * j \in Nat
  OBVIOUS
<1>8. \A i \in Nat : 4 + 3 * i \in Nat /\ 4 + 7 * i \in Nat /\ 4 + 3 * i > 0 /\ 4 + 7 * i > 0
  OBVIOUS
<1>9. \A i \in Nat : i > 0 => i * Fetch \in Nat /\ i * Fetch > 0
  <2>1. \A i, j \in Nat : i > 0 /\ j > 0 => i * j > 0
    OBVIOUS
  <2> QED
    BY <1>3, <1>7, <2>1
<1>10. CASE x.pc = FastFill
  <2> DEFINE a == (4 + 3 * Chunk) * Fetch  b == Chunk * d  c == Chunk * Branch
  <2>1. a \in Nat /\ a > 0 /\ b \in Nat /\ c \in Nat
    BY <1>3, <1>5, <1>7, <1>8, <1>9
  <2>2. UnitCost(x) = a + b + c
    BY <1>6, <1>10 DEF FastFill, FastCopy, WordCopy, HalfCopy
  <2> HIDE DEF a, b, c
  <2> QED
    BY <2>1, <2>2
<1>11. CASE x.pc = FastCopy
  <2> DEFINE a == (4 + 7 * Chunk) * Fetch  b == Chunk * (s + d)  c == Chunk * Branch
  <2>1. s + d \in Nat
    BY <1>5, <1>11 DEF FastFill, FastCopy
  <2>2. a \in Nat /\ a > 0 /\ b \in Nat /\ c \in Nat
    BY <1>3, <1>7, <1>8, <1>9, <2>1
  <2>3. UnitCost(x) = a + b + c
    BY <1>6, <1>11 DEF FastFill, FastCopy, WordCopy, HalfCopy
  <2> HIDE DEF a, b, c
  <2> QED
    BY <2>2, <2>3
<1>12. CASE x.pc \in {WordCopy, HalfCopy}
  <2>1. s \in Nat
    BY <1>5, <1>12 DEF FastFill, WordCopy, HalfCopy
  <2>2. UnitCost(x) = 7 * Fetch + s + d + Branch
    BY <1>6, <1>12 DEF FastFill, FastCopy, WordCopy, HalfCopy
  <2> QED
    BY <1>3, <1>5, <2>1, <2>2
<1> QED
  BY <1>1, <1>10, <1>11, <1>12

LEMMA FittingIs ==
  ASSUME NEW x, NEW left \in Int, UnitCost(x) \in Nat, UnitCost(x) > 0, Left(x) \in Int, Left(x) > 0,
         Unit(x) \in Nat, Unit(x) > 0
  PROVE  LET k == Fitting(x, left) IN k \in Nat \ {0} /\ (k - 1) * Unit(x) < Left(x)
<1> DEFINE U == Unit(x)  a == Left(x) + U - 1  all == a \div U  fit == left \div UnitCost(x)  k == Fitting(x, left)
<1>1. U \in Nat /\ U > 0 /\ a \in Int /\ a = Left(x) + U - 1 /\ Left(x) \in Int /\ Left(x) > 0
  OBVIOUS
<1>2. k = IF fit < 1 THEN 1 ELSE IF fit > all THEN all ELSE fit
  BY DEF Fitting
<1>3. fit \in Int
  BY Quotient
<1> HIDE DEF U, a, fit, k
<1>4. all \in Int /\ \A t \in Int : (t * U <= a => t <= all) /\ (t <= all => t * U <= a)
  BY <1>1, Quotient
<1> HIDE DEF all
<1>5. 1 <= all
  <2>1. 1 * U <= a
    BY <1>1
  <2> QED
    BY <1>4, <2>1
<1>6. k \in Nat \ {0} /\ k <= all
  BY <1>2, <1>3, <1>4, <1>5
<1>7. (k - 1) * U < Left(x)
  <2> DEFINE p == k * U
  <2>1. p <= a /\ p \in Int
    BY <1>1, <1>4, <1>6
  <2>2. (k - 1) * U = p - U
    BY <1>1, <1>6
  <2> HIDE DEF p
  <2> QED
    BY <1>1, <2>1, <2>2
<1> QED
  BY <1>6, <1>7 DEF k, U

LEMMA BatchInv ==
  ASSUME CallsClean, IInv, Batch
  PROVE  IInv'
<1> DEFINE k == Fitting(m, budget)  n == k * Unit(m)
<1>1. /\ at = "engine" /\ Left(m) > 0
      /\ \/ m' = m /\ budget' = budget /\ ref' = ref /\ at' # "engine"
         \/ /\ m' = Advanced(m, k) /\ budget' = budget - k * UnitCost(m) /\ ref' = RefSteps(k).x /\ at' = at
  BY DEF Batch, RefRuns
<1>2. /\ Same(m, ref) /\ Proto(m) /\ Proto(ref) /\ m \in Machine /\ ref \in Machine /\ m.pc = ref.pc
      /\ m.pc \in Tops /\ Settled(m) = m
  BY <1>1, EngineIs DEF IInv
<1>3. CASE m' = m /\ budget' = budget /\ ref' = ref /\ at' # "engine"
  BY <1>2, <1>3, AgreeAway DEF IInv
<1>4. CASE m' = Advanced(m, k) /\ budget' = budget - k * UnitCost(m) /\ ref' = RefSteps(k).x /\ at' = at
  <2>1. LeftAt(m) = Left(m) /\ UnitAt(m) = Unit(m) /\ m.pc \in Loops
    BY <1>2, TopsIs
  <2>2. PICK c \in AllCalls, q \in Nat : m.pc = TopOf(c) /\ Within(c, q, m)
    BY <1>2, <2>1, LoopingIs
  <2>3. Clean(c)
    BY DEF CallsClean, AllCalls
  <2>4. Unit(m) = UnitOf(c) /\ UnitOf(c) \in Nat /\ UnitOf(c) > 0
    BY <2>1, <2>2, UnitsAre
  <2>5. LeftAt(m) \in Int /\ LeftAt(m) > 0
    BY <1>1, <1>2, <2>1, AtType
  <2>6. UnitCost(m) \in Nat /\ UnitCost(m) > 0
    BY <1>2, UnitCostIs
  <2>7. k \in Nat \ {0} /\ (k - 1) * UnitOf(c) < LeftAt(m)
    BY <1>1, <2>1, <2>4, <2>5, <2>6, FittingIs DEF IInv
  <2> HIDE DEF k, n
  <2>8. budget' \in Int
    BY <1>4, <2>6, <2>7 DEF IInv
  <2>9. k * UnitOf(c) \in Nat \ {0} /\ RunOk(m, k * UnitOf(c))
    BY <1>2, <2>2, <2>3, <2>7, RoundsRun
  <2> DEFINE p == k * UnitOf(c)
  <2>10. Advanced(m, k) = Ran(m, p) /\ k * UnitAt(m) = p
    BY <1>2, <2>1, <2>4, <2>7, <2>9, AdvancedIs
  <2>11. p \in Nat \ {0} /\ RunOk(m, p)
    BY <2>9
  <2>12. PICK g : Steps(g, ref, k, pending) /\ RefSteps(k).x = g[k]
    BY <2>7, RefStepsAre
  <2>13. ref.pc = TopOf(c) /\ Within(c, q, ref) /\ LeftAt(ref) = LeftAt(m)
    <3>1. ref.pc = m.pc /\ ref.r = m.r
      BY <1>2 DEF Same
    <3>2. LeftAt(ref) = LeftAt(m) /\ DestAt(ref) = DestAt(m) /\ FromAt(ref) = FromAt(m)
      BY <3>1 DEF LeftAt, DestAt, FromAt
    <3> QED
      BY <2>2, <3>1, <3>2 DEF Within
  <2>14. g[k] = Settled(Ran(ref, p))
    BY <1>2, <2>7, <2>12, <2>13, StepsRounds
  <2>15. Proto(g[k])
    BY <1>2, <2>7, <2>12, StepsProto
  <2> HIDE DEF p
  <2>16. Same(Ran(m, p), Ran(ref, p)) /\ Ran(m, p) \in Machine /\ Ran(m, p).pc = m.pc
    BY <1>2, <2>1, <2>11, SameRan, RanType, SeatsAre
  <2>17. Same(Settled(Ran(m, p)), g[k])
    BY <2>14, <2>16, SameSettled
  <2>18. Agrees("engine", Ran(m, p), g[k])
    BY <1>2, <2>15, <2>16, <2>17 DEF Agrees
  <2> QED
    BY <1>1, <1>4, <2>8, <2>10, <2>12, <2>18 DEF IInv
<1> QED
  BY <1>1, <1>3, <1>4

\* The task at home, the game's or the handler's.
LEMMA HomeIs ==
  ASSUME NEW x, Proto(x), x.pc \in {GamePc, IsrPc}
  PROVE  \E l \in Levels, u \in UTops, s \in STops :
           /\ Active(x, l, u, s) /\ Idle(x, l, u, s) /\ Bases(l, u, s) /\ Context(x, l, u, s)
           /\ x.pc = HomeOf(l) /\ x.cpsr \in Callers(l) /\ Based(x, u, s)
<1>1. PICK l \in Levels, u \in UTops, s \in STops : Active(x, l, u, s) /\ Idle(x, l, u, s)
  BY ActiveAt, PlacesAre
<1>2. x.pc = HomeOf(l)
  BY <1>1, PlacesAre DEF Idle
<1> QED
  BY <1>1, <1>2 DEF Active, Idle

LEMMA IsrEndInv ==
  ASSUME IInv, NEW another \in BOOLEAN, IsrEnd(another)
  PROVE  IInv'
<1> DEFINE p == At(m, IrqReturn)  q == At(ref, IrqReturn)
<1>1. at = "jit" /\ m.pc = IsrPc /\ m' = p /\ ref' = q /\ at' = at /\ budget' = budget
  BY DEF IsrEnd, At
<1>2. Same(m, ref) /\ Proto(ref) /\ m \in Machine /\ ref \in Machine /\ ref.pc = IsrPc /\ Handler(ref) \in Handlers
  BY <1>1, AwayIs, SeatsAre DEF IInv
<1>3. IrqReturn \in Int
  BY DEF IrqReturn
<1>4. /\ p \in Machine /\ p.pc = IrqReturn /\ p.cpsr = m.cpsr /\ p.num = m.num /\ p.bank = m.bank /\ p.mem = m.mem /\ p.r = m.r
      /\ q \in Machine /\ q.pc = IrqReturn /\ q.cpsr = ref.cpsr /\ q.num = ref.num /\ q.bank = ref.bank /\ q.mem = ref.mem
      /\ q.r = ref.r
  BY <1>2, <1>3, AtIs
<1> HIDE DEF p, q
<1>5. Same(p, q)
  <2>1. m.cpsr = ref.cpsr /\ m.num = ref.num /\ m.r = ref.r /\ m.bank = ref.bank
    BY <1>2 DEF Same
  <2>2. \A b \in Banks : p.bank[b].sp = m.bank[b].sp
    BY <1>4
  <2> QED
    BY <1>2, <1>4, <2>1, <2>2, SameAltered
<1>6. PICK l \in Levels, u \in UTops, s \in STops :
        /\ Bases(l, u, s) /\ Context(ref, l, u, s) /\ ref.pc = HomeOf(l) /\ ref.cpsr \in Callers(l) /\ Based(ref, u, s)
  BY <1>2, HomeIs
<1>7. Kept(ref, q, u, s)
  BY <1>4 DEF Kept, R4At, Read, Sp
<1>8. Context(q, l, u, s) /\ Handler(q) = Handler(ref)
  BY <1>2, <1>4, <1>6, <1>7, ContextKept
<1>9. Idle(q, l, u, s)
  <2>1. l = "isr"
    BY <1>2, <1>6 DEF HomeOf, GamePc, IsrPc, Levels
  <2> QED
    BY <1>4, <1>6, <2>1 DEF Idle, Based, Sp
<1>10. Proto(q)
  BY <1>2, <1>4, <1>6, <1>8, <1>9, ActiveProto DEF Active, Task
<1>11. Agrees("jit", p, q)
  BY <1>5, <1>10, AgreeAway
<1> QED
  BY <1>1, <1>11 DEF IInv

\* A store outside the stacks.
Besides(x, t) ==
  /\ t \in Machine /\ t.pc = x.pc /\ t.cpsr = x.cpsr /\ t.num = x.num /\ t.bank = x.bank /\ t.r = x.r
  /\ \A b \in Stacks : Read(t, b) = Read(x, b)
LEMMA WriteOff ==
  ASSUME NEW x \in Machine, NEW a \in DOMAIN Host, \A b \in Stacks : Host[a] # Host[b] /\ b \in DOMAIN Host, NEW v \in Int
  PROVE  Besides(x, Write(x, a, v))
<1> DEFINE t == Write(x, a, v)
<1>1. t \in Machine /\ t = [x EXCEPT !.mem = t.mem] /\ \A b \in DOMAIN Host : Read(t, b) = IF Host[b] = Host[a] THEN v ELSE Read(x, b)
  BY DEF Write, Machine, Held, Read
<1> HIDE DEF t
<1>2. t.pc = x.pc /\ t.cpsr = x.cpsr /\ t.num = x.num /\ t.bank = x.bank /\ t.r = x.r
  BY <1>1 DEF Machine
<1>3. Besides(x, t)
  BY <1>1, <1>2 DEF Besides
<1> QED
  BY <1>3 DEF t

LEMMA IsrWriteInv ==
  ASSUME IInv, NEW a \in IsrWrites, IsrWrite(a)
  PROVE  IInv'
<1> DEFINE p == Write(m, a, 7)  q == Write(ref, a, 7)
<1>1. at = "jit" /\ m.pc = IsrPc /\ m' = p /\ ref' = q /\ at' = at /\ budget' = budget
  BY DEF IsrWrite
<1>2. Same(m, ref) /\ Proto(ref) /\ m \in Machine /\ ref \in Machine /\ ref.pc = IsrPc /\ Handler(ref) \in Handlers
  BY <1>1, AwayIs, SeatsAre DEF IInv
<1>3. a \in DOMAIN Host /\ \A b \in Stacks : Host[a] # Host[b] /\ b \in DOMAIN Host
  BY WritesOffStacks, StacksAre
<1>4. Same(p, q)
  BY <1>2, <1>3, SameWrite
<1>5. Besides(ref, q)
  <2> DEFINE v == 7
  <2>1. v \in Int
    OBVIOUS
  <2> HIDE DEF v
  <2>2. Besides(ref, Write(ref, a, v))
    BY <1>2, <1>3, <2>1, WriteOff
  <2> QED
    BY <2>2 DEF v
<1>6. /\ q \in Machine /\ (\A b \in Stacks : Read(q, b) = Read(ref, b))
      /\ q.pc = ref.pc /\ q.cpsr = ref.cpsr /\ q.num = ref.num /\ q.bank = ref.bank /\ q.r = ref.r
  BY <1>5 DEF Besides
<1> HIDE DEF p, q
<1>7. PICK l \in Levels, u \in UTops, s \in STops :
        /\ Bases(l, u, s) /\ Context(ref, l, u, s) /\ Idle(ref, l, u, s)
  BY <1>2, HomeIs
<1>8. Kept(ref, q, u, s)
  <2>1. Based(ref, u, s) /\ u \in Int /\ (u = 1008 \/ u = 1004)
    BY <1>7, BasesAre DEF Idle
  <2>2. R4At(q, u) = R4At(ref, u)
    BY <1>6, <2>1 DEF R4At, Sp, Based
  <2> QED
    BY <1>6, <2>2 DEF Kept
<1>9. Context(q, l, u, s) /\ Handler(q) = Handler(ref)
  BY <1>2, <1>6, <1>7, <1>8, ContextKept
<1>10. Idle(q, l, u, s)
  BY <1>6, <1>7 DEF Idle, Based, Sp
<1>11. Proto(q)
  BY <1>2, <1>6, <1>7, <1>9, <1>10, ActiveProto DEF Active, Task
<1>12. Agrees("jit", p, q)
  BY <1>4, <1>11, AgreeAway
<1> QED
  BY <1>1, <1>12 DEF IInv


\* A link register and a saved mode.
SetLink(x, b, lr, spsr) == [x EXCEPT !.bank[b].lr = lr, !.bank[b].spsr = spsr]
LEMMA SetLinkIs ==
  ASSUME NEW x \in Machine, NEW b \in Banks, NEW lr \in Int, NEW spsr \in Int
  PROVE  Banked(x, b, [sp |-> Sp(x, b), lr |-> lr, spsr |-> spsr], SetLink(x, b, lr, spsr))
<1> DEFINE n == Sp(x, b)  e == [sp |-> n, lr |-> lr, spsr |-> spsr]  pb == x.bank[b]
           p1 == [x.bank[b] EXCEPT !.lr = lr]
           z1 == SetBank(x, b, p1)
           p2 == [z1.bank[b] EXCEPT !.spsr = spsr]
           z == SetBank(z1, b, p2)
           f == [sp |-> n, lr |-> lr, spsr |-> pb.spsr]
<1>1. pb \in [sp : Int, lr : Int, spsr : Int] /\ pb.sp = n
  BY NamesAre DEF Machine, Sp
<1>2. e \in [sp : Int, lr : Int, spsr : Int]
  BY <1>1
<1>3. SetLink(x, b, lr, spsr) = z
  BY DEF SetLink, SetBank
<1> HIDE DEF pb, n
<1>4. p1 = f /\ f \in [sp : Int, lr : Int, spsr : Int]
  <2>1. [pb EXCEPT !.lr = lr] = f
    BY <1>1
  <2>2. f \in [sp : Int, lr : Int, spsr : Int]
    BY <1>1
  <2> QED
    BY <2>1, <2>2 DEF pb
<1> HIDE DEF p1, f, z1
<1>5. Banked(x, b, p1, z1)
  BY <1>4, SetBankIs, Zenon DEF z1
<1>6. z1 \in Machine /\ z1.bank[b] = f
  BY <1>4, <1>5 DEF Banked
<1>7. p2 = e
  BY <1>6 DEF f
<1> HIDE DEF e, p2, z
<1>8. Banked(z1, b, p2, z)
  BY <1>2, <1>6, <1>7, SetBankIs, Zenon DEF z
<1>9. Banked(x, b, e, z)
  BY <1>5, <1>7, <1>8 DEF Banked
<1> QED
  BY <1>3, <1>9 DEF e, n

\* t is x at the SWI vector with the call c.
CallerOf(x, thumb) == IF thumb THEN x.cpsr - (x.cpsr % 64) + 32 + ModeOf(x.cpsr) ELSE x.cpsr
SvcOf(caller) == caller - (caller % 64) + Supervisor + (IF Masked(caller) THEN 0 ELSE IrqOff)
Calling(x, c, thumb, t) ==
  /\ t \in Machine /\ t.pc = Vector /\ t.num = c.num /\ t.mem = x.mem /\ t.cpsr = SvcOf(CallerOf(x, thumb))
  /\ t.r = [[[[[x.r EXCEPT ![0] = c.r0] EXCEPT ![1] = c.r1] EXCEPT ![2] = c.r2] EXCEPT ![3] = 103] EXCEPT ![12] = 112]
  /\ t.bank["svc"] = [sp |-> Sp(x, "svc"), lr |-> x.pc, spsr |-> CallerOf(x, thumb)]
  /\ t.bank["usr"] = x.bank["usr"] /\ t.bank["irq"] = x.bank["irq"]
LEMMA CallerIs ==
  ASSUME NEW x, NEW l \in Levels, x.cpsr \in Callers(l), NEW thumb \in BOOLEAN
  PROVE  /\ CallerOf(x, thumb) \in Callers(l) /\ CallerOf(x, thumb) \in Int
         /\ SvcOf(CallerOf(x, thumb)) \in Int /\ Masked(SvcOf(CallerOf(x, thumb)))
<1> DEFINE p == CallerOf(x, thumb)
<1>1. \/ l = "game" /\ (x.cpsr = 16 \/ x.cpsr = 48) /\ Callers(l) = {16, 48}
      \/ l = "isr" /\ (x.cpsr = 210 \/ x.cpsr = 242) /\ Callers(l) = {210, 242}
  BY CallersAre
<1>2. /\ x.cpsr = 16 => p = IF thumb THEN 48 ELSE 16
      /\ x.cpsr = 48 => p = 48
      /\ x.cpsr = 210 => p = IF thumb THEN 242 ELSE 210
      /\ x.cpsr = 242 => p = 242
  BY DEF CallerOf, ModeOf
<1> HIDE DEF p
<1>3. p \in Callers(l) /\ p \in {16, 48, 210, 242}
  BY <1>1, <1>2
<1>4. SvcOf(16) = 147 /\ SvcOf(48) = 147 /\ SvcOf(210) = 211 /\ SvcOf(242) = 211
  BY DEF SvcOf, Supervisor, Masked, IrqOff
<1>5. SvcOf(p) \in {147, 211}
  BY <1>3, <1>4
<1>6. SvcOf(p) \in Int /\ Masked(SvcOf(p))
  BY <1>5 DEF Masked, IrqOff
<1> QED
  BY <1>3, <1>6 DEF p

LEMMA SwiIs ==
  ASSUME NEW x \in Machine, NEW c \in AllCalls, NEW thumb, CallerOf(x, thumb) \in Int, SvcOf(CallerOf(x, thumb)) \in Int
  PROVE  Calling(x, c, thumb, Swi(x, c, thumb))
<1> DEFINE k == CallerOf(x, thumb)  s == SvcOf(k)  v == 103  w == 112
           e == [[[[x.r EXCEPT ![0] = c.r0] EXCEPT ![1] = c.r1] EXCEPT ![2] = c.r2] EXCEPT ![3] = v]
           y1 == FourSet(x, 0, c.r0, 1, c.r1, 2, c.r2, 3, v)  y2 == SetR(y1, 12, w)
           y3 == [y2 EXCEPT !.num = c.num]  y4 == SetLink(y3, "svc", x.pc, k)
           y5 == [y4 EXCEPT !.cpsr = s]  y6 == At(y5, Vector)
<1>1. Swi(x, c, thumb) = y6
  BY DEF Swi, At, FourSet, SetR, SetLink, CallerOf, SvcOf
<1>2. c.r0 \in Int /\ c.r1 \in Int /\ c.r2 \in Int /\ v \in Int /\ w \in Int /\ c.num \in Int /\ x.pc \in Int /\ k \in Int /\ s \in Int
  BY CallIs DEF Machine
<1> HIDE DEF k, s, v, w
<1>3. OnlyRegs(x, y1, e)
  BY <1>2, FourSetIs, NamesAre, Zenon
<1> HIDE DEF y1, e
<1>4. y1 \in Machine
  BY <1>3 DEF OnlyRegs
<1>5. Puts(y1, 12, w, y2) /\ y2.r = [y1.r EXCEPT ![12] = w]
  <2>1. Puts(y1, 12, w, y2)
    BY <1>2, <1>4, NamesAre, SetRIs, Zenon
  <2>2. y2.r = [y1.r EXCEPT ![12] = w]
    BY <1>4 DEF SetR, Machine
  <2> QED
    BY <2>1, <2>2
<1> HIDE DEF y2
<1>6. /\ y2 \in Machine /\ y2.cpsr = x.cpsr /\ y2.bank = x.bank /\ y2.mem = x.mem /\ y2.pc = x.pc
      /\ y2.r = [e EXCEPT ![12] = w]
  BY <1>3, <1>5 DEF OnlyRegs, Puts
<1>7. /\ y3 \in Machine /\ y3.num = c.num /\ y3.bank = x.bank /\ y3.mem = x.mem /\ y3.r = y2.r
  BY <1>2, <1>6 DEF Machine
<1> HIDE DEF y3
<1>8. Banked(y3, "svc", [sp |-> Sp(y3, "svc"), lr |-> x.pc, spsr |-> k], y4)
  BY <1>2, <1>7, NamesAre, SetLinkIs, Zenon
<1>9. Sp(y3, "svc") = Sp(x, "svc")
  BY <1>7 DEF Sp
<1> HIDE DEF y4
<1>10. /\ y4 \in Machine /\ y4.num = c.num /\ y4.mem = x.mem /\ y4.r = y2.r
       /\ y4.bank["svc"] = [sp |-> Sp(x, "svc"), lr |-> x.pc, spsr |-> k]
       /\ y4.bank["usr"] = x.bank["usr"] /\ y4.bank["irq"] = x.bank["irq"]
  BY <1>7, <1>8, <1>9, NamesAre DEF Banked
<1>11. y5 \in Machine /\ y5.cpsr = s /\ y5.num = y4.num /\ y5.r = y4.r /\ y5.bank = y4.bank /\ y5.mem = y4.mem
  BY <1>2, <1>10 DEF Machine
<1> HIDE DEF y5
<1>12. /\ y6 \in Machine /\ y6.pc = Vector /\ y6.cpsr = y5.cpsr /\ y6.num = y5.num /\ y6.r = y5.r /\ y6.bank = y5.bank
       /\ y6.mem = y5.mem
  <2> DEFINE p == Vector
  <2>1. p \in Int
    BY DEF Vector
  <2> HIDE DEF p
  <2>2. /\ At(y5, p) \in Machine /\ At(y5, p).pc = p /\ At(y5, p).cpsr = y5.cpsr /\ At(y5, p).num = y5.num
        /\ At(y5, p).r = y5.r /\ At(y5, p).bank = y5.bank /\ At(y5, p).mem = y5.mem
    BY <1>11, <2>1, AtIs
  <2> QED
    BY <2>2 DEF p
<1> HIDE DEF y6
<1>13. Calling(x, c, thumb, y6)
  BY <1>6, <1>10, <1>11, <1>12 DEF Calling, e, k, s, v, w
<1> QED
  BY <1>1, <1>13

LEMMA CallingSame ==
  ASSUME NEW x, NEW y, Same(x, y), NEW c, NEW thumb, NEW p, NEW q, Calling(x, c, thumb, p), Calling(y, c, thumb, q)
  PROVE  Same(p, q)
<1>1. x.cpsr = y.cpsr /\ x.r = y.r /\ x.bank = y.bank /\ x.pc = y.pc
  BY DEF Same
<1>2. CallerOf(x, thumb) = CallerOf(y, thumb) /\ Sp(x, "svc") = Sp(y, "svc")
  BY <1>1 DEF CallerOf, Sp
<1>3. p \in Machine /\ q \in Machine /\ p.mem = x.mem /\ q.mem = y.mem /\ p.pc = q.pc /\ p.num = q.num
  BY DEF Calling
<1>4. p.cpsr = q.cpsr /\ p.r = q.r /\ p.bank["svc"] = q.bank["svc"] /\ p.bank["usr"] = q.bank["usr"] /\ p.bank["irq"] = q.bank["irq"]
  BY <1>1, <1>2 DEF Calling
<1>5. p.bank = q.bank
  BY <1>3, <1>4, NamesAre DEF Machine
<1>6. p.bank["svc"].sp = x.bank["svc"].sp /\ p.bank["usr"].sp = x.bank["usr"].sp /\ p.bank["irq"].sp = x.bank["irq"].sp
  BY DEF Calling, Sp
<1>7. \A b \in Banks : p.bank[b].sp = x.bank[b].sp
  BY <1>6, NamesAre
<1> QED
  BY <1>3, <1>4, <1>5, <1>7, SameAltered

LEMMA GameSwiInv ==
  ASSUME IInv, NEW c \in AllCalls, NEW thumb \in BOOLEAN, GameSwi(c, thumb)
  PROVE  IInv'
<1> DEFINE p == Swi(m, c, thumb)  q == Swi(ref, c, thumb)
<1>1. at = "jit" /\ m.pc \in {GamePc, IsrPc} /\ m' = p /\ ref' = q /\ at' = at /\ budget' = budget
  BY DEF GameSwi
<1>2. /\ Same(m, ref) /\ Proto(ref) /\ Proto(m) /\ m \in Machine /\ ref \in Machine /\ ref.pc \in {GamePc, IsrPc}
      /\ Handler(ref) \in Handlers /\ m.cpsr = ref.cpsr
  BY <1>1, AwayIs, SeatsAre DEF IInv
<1>3. PICK l \in Levels, u \in UTops, s \in STops :
        /\ Bases(l, u, s) /\ Context(ref, l, u, s) /\ ref.pc = HomeOf(l) /\ ref.cpsr \in Callers(l) /\ Based(ref, u, s)
  BY <1>2, HomeIs
<1>4. /\ CallerOf(ref, thumb) \in Callers(l) /\ CallerOf(ref, thumb) \in Int
      /\ SvcOf(CallerOf(ref, thumb)) \in Int /\ Masked(SvcOf(CallerOf(ref, thumb)))
  BY <1>3, CallerIs
<1>5. CallerOf(m, thumb) = CallerOf(ref, thumb)
  BY <1>2 DEF CallerOf
<1>6. Calling(m, c, thumb, p) /\ Calling(ref, c, thumb, q)
  <2>1. CallerOf(m, thumb) \in Int /\ SvcOf(CallerOf(m, thumb)) \in Int
    BY <1>4, <1>5
  <2> QED
    BY <1>2, <1>4, <2>1, SwiIs
<1> HIDE DEF p, q
<1>7. Same(p, q)
  BY <1>2, <1>6, CallingSame
<1>8. /\ q \in Machine /\ q.mem = ref.mem /\ q.bank["irq"] = ref.bank["irq"] /\ q.bank["usr"] = ref.bank["usr"]
      /\ q.bank["svc"].sp = ref.bank["svc"].sp /\ q.bank["svc"].lr = ref.pc /\ q.bank["svc"].spsr = CallerOf(ref, thumb)
      /\ q.pc = Vector /\ q.num = c.num /\ Masked(q.cpsr)
  BY <1>4, <1>6 DEF Calling, Sp
<1>9. q.r[0] = c.r0 /\ q.r[1] = c.r1 /\ q.r[2] = c.r2 /\ q.r[4] = ref.r[4]
  <2>1. ref.r \in [Regs -> Int]
    BY <1>2 DEF Machine
  <2>2. q.r = [[[[[ref.r EXCEPT ![0] = c.r0] EXCEPT ![1] = c.r1] EXCEPT ![2] = c.r2] EXCEPT ![3] = 103] EXCEPT ![12] = 112]
    BY <1>6 DEF Calling
  <2> QED
    BY <2>1, <2>2, NamesAre
<1>10. Kept(ref, q, u, s)
  <2>1. R4At(q, u) = R4At(ref, u)
    BY <1>8, <1>9 DEF R4At, Read, Sp
  <2> QED
    BY <1>8, <2>1 DEF Kept, Read
<1>11. Context(q, l, u, s) /\ Handler(q) = Handler(ref)
  BY <1>2, <1>3, <1>8, <1>10, ContextKept
<1>12. Asking(q, l, u, s)
  <2>1. Asked(q, c)
    BY <1>8, <1>9 DEF Asked
  <2>2. Based(q, u, s)
    BY <1>3, <1>8 DEF Based, Sp
  <2> QED
    BY <1>3, <1>4, <1>8, <2>1, <2>2 DEF Asking, Lr
<1>13. Proto(q)
  BY <1>2, <1>3, <1>8, <1>11, <1>12, ActiveProto DEF Active, Task
<1>14. Agrees("jit", p, q)
  BY <1>7, <1>13, AgreeAway
<1> QED
  BY <1>1, <1>14 DEF IInv

-----------------------------------------------------------------------------
(* A call served at once.                                                   *)

TurnsOf(c) == IF Count(c.r2) = 0 THEN 0 ELSE IF c.num = 12 THEN Rounds(Count(c.r2)) ELSE Count(c.r2)
LEMMA TurnsAre ==
  ASSUME NEW c \in AllCalls
  PROVE  /\ TurnsOf(c) \in Nat /\ Copied(c) \in Nat /\ TurnsOf(c) * UnitOf(c) = Copied(c)
         /\ Count(c.r2) = 0 => TurnsOf(c) = 0 /\ Copied(c) = 0
         /\ Count(c.r2) # 0 => TurnsOf(c) > 0 /\ (TurnsOf(c) - 1) * UnitOf(c) < Count(c.r2) /\ Count(c.r2) <= Copied(c)
<1> DEFINE n == Count(c.r2)  U == UnitOf(c)  t == TurnsOf(c)
<1>1. n \in Nat /\ U \in Nat /\ U > 0
  BY CallIs, UnitsAre
<1>2. CASE c.num # 12
  <2>1. U = 1 /\ t = n /\ Copied(c) = n
    BY <1>2 DEF UnitOf, TurnsOf, Copied
  <2> HIDE DEF n, U, t
  <2> QED
    BY <1>1, <2>1 DEF n, U, t
<1>3. CASE c.num = 12
  <2> DEFINE a == n + U - 1  k == a \div U
  <2>1. Rounds(n) = k /\ Copied(c) = k * U /\ t = IF n = 0 THEN 0 ELSE k
    BY <1>3 DEF UnitOf, TurnsOf, Copied, Rounds
  <2>2. a \in Int /\ a = n + U - 1
    BY <1>1
  <2> HIDE DEF a, n, U, t
  <2>3. k \in Int /\ \A i \in Int : (i * U <= a => i <= k) /\ (i <= k => i * U <= a)
    BY <1>1, <2>2, Quotient
  <2> HIDE DEF k
  <2>4. 0 <= k
    <3>1. 0 * U <= a
      BY <1>1, <2>2
    <3> QED
      BY <2>3, <3>1
  <2>5. CASE n = 0
    <3>1. ~(1 * U <= a)
      BY <1>1, <2>2, <2>5
    <3>2. k = 0
      BY <2>3, <2>4, <3>1
    <3>3. 0 * U = 0
      BY <1>1
    <3> QED
      BY <2>1, <2>5, <3>2, <3>3 DEF n, t, U
  <2>6. CASE n # 0
    <3>1. 1 * U <= a
      BY <1>1, <2>2, <2>6
    <3>2. 1 <= k
      BY <2>3, <3>1
    <3> DEFINE p == k * U
    <3>3. p <= a /\ p \in Int /\ p >= 0
      BY <1>1, <2>3, <2>4
    <3>4. ~((k + 1) * U <= a)
      BY <2>3
    <3>5. (k + 1) * U = p + U /\ (k - 1) * U = p - U
      BY <1>1, <2>3
    <3> HIDE DEF p
    <3>6. p - U < n /\ n <= p
      BY <1>1, <2>2, <3>3, <3>4, <3>5
    <3>7. t = k /\ t \in Nat /\ t > 0 /\ Copied(c) = p /\ Copied(c) \in Nat
      BY <2>1, <2>3, <2>6, <3>2, <3>3 DEF p
    <3> QED
      BY <2>6, <3>5, <3>6, <3>7 DEF n, t, U, p
  <2> QED
    BY <2>5, <2>6
<1> QED
  BY <1>2, <1>3

\* What a call leaves in r0 and r1.
R0After(x, c) ==
  IF Count(c.r2) = 0 \/ Fill(c.r2) THEN c.r0
  ELSE IF c.num = 12 THEN c.r0 + Copied(c)
       ELSE IF Word(c.r2) THEN Read(x, c.r0 + Copied(c) - 1) ELSE c.r0
R1After(c) ==
  IF Count(c.r2) = 0 THEN c.r1 ELSE IF Fill(c.r2) THEN c.r1 + Copied(c) ELSE c.r1 - c.r0

Leaves(p, r0, r1) == p.r0 = r0 /\ p.r1 = r1
LEMMA PredictSetIs ==
  ASSUME NEW x, Longer(x)
  PROVE  LET src == x.r[0]  dst == x.r[1]  w == x.r[2]  n == Count(w)  p == PredictSet(x) IN
         /\ ~Fill(w) /\ n = 0 => Leaves(p, src, dst)
         /\ Fill(w) /\ n = 0 => Leaves(p, src, dst)
         /\ ~Word(w) /\ ~Fill(w) /\ n # 0 => Leaves(p, src, dst - src)
         /\ Word(w) /\ ~Fill(w) /\ n # 0 => Leaves(p, Read(x, src + n - 1), dst - src)
         /\ Fill(w) /\ n # 0 => Leaves(p, src, dst + n)
<1> DEFINE src == x.r[0]  dst == x.r[1]  w == x.r[2]  n == Count(w)  p == PredictSet(x)
           all == EntryCost + ExitCost
           Is(ok, r0, r1, c) == Predicted(ok, r0, r1, all + c)
           per == 7 * Fetch + Cost(src) + Cost(dst)
           put == 3 * Fetch + Cost(dst)
           A1 == Is(TRUE, src, dst, 17 * Fetch + Branch)
           A2 == Is(SrcHost(src, n) /\ DstFits(src, dst, n), src, dst - src,
                    21 * Fetch + n * per + (n - 1) * Branch)
           B1 == Is(SrcHost(src, 1), src, dst, 20 * Fetch + Cost(src) + 2 * Branch)
           B2 == Is(SrcHost(src, 1) /\ OneRegion(dst, n), src, dst + n,
                    22 * Fetch + Cost(src) + n * put + (n + 1) * Branch)
           C1 == Is(TRUE, src, dst, 21 * Fetch + 2 * Branch)
           C2 == Is(SrcHost(src, n) /\ DstFits(src, dst, n), Read(x, src + n - 1), dst - src,
                    22 * Fetch + n * per + (n + 1) * Branch)
           D1 == Is(SrcHost(src, 1), src, dst, 22 * Fetch + Cost(src) + 3 * Branch)
           D2 == Is(SrcHost(src, 1) /\ OneRegion(dst, n), src, dst + n,
                    23 * Fetch + Cost(src) + n * put + (n + 2) * Branch)
<1>1. ~Word(w) /\ ~Fill(w) => p = IF n = 0 THEN A1 ELSE A2
  BY Zenon DEF PredictSet, Longer
<1>2. ~Word(w) /\ Fill(w) => p = IF n = 0 THEN B1 ELSE B2
  BY Zenon DEF PredictSet, Longer
<1>3. Word(w) /\ ~Fill(w) => p = IF n = 0 THEN C1 ELSE C2
  BY Zenon DEF PredictSet, Longer
<1>4. Word(w) /\ Fill(w) => p = IF n = 0 THEN D1 ELSE D2
  BY Zenon DEF PredictSet, Longer
<1>5. /\ Leaves(A1, src, dst) /\ Leaves(A2, src, dst - src) /\ Leaves(B1, src, dst) /\ Leaves(B2, src, dst + n)
      /\ Leaves(C1, src, dst) /\ Leaves(C2, Read(x, src + n - 1), dst - src) /\ Leaves(D1, src, dst) /\ Leaves(D2, src, dst + n)
  BY DEF Leaves, Predicted
<1> HIDE DEF A1, A2, B1, B2, C1, C2, D1, D2, p, src, dst, n, w
<1>6. /\ ~Fill(w) /\ n = 0 => Leaves(p, src, dst)
      /\ Fill(w) /\ n = 0 => Leaves(p, src, dst)
      /\ ~Word(w) /\ ~Fill(w) /\ n # 0 => Leaves(p, src, dst - src)
      /\ Word(w) /\ ~Fill(w) /\ n # 0 => Leaves(p, Read(x, src + n - 1), dst - src)
      /\ Fill(w) /\ n # 0 => Leaves(p, src, dst + n)
  BY <1>1, <1>2, <1>3, <1>4, <1>5
<1> QED
  BY <1>6 DEF p, src, dst, n, w

LEMMA PredictFastIs ==
  ASSUME NEW x, Longer(x)
  PROVE  LET src == x.r[0]  dst == x.r[1]  w == x.r[2]  n == Count(w)  k == Rounds(n)  p == PredictFast(x) IN
         /\ ~Fill(w) /\ n = 0 => Leaves(p, src, dst)
         /\ Fill(w) /\ n = 0 => Leaves(p, src, dst)
         /\ ~Fill(w) /\ n # 0 => Leaves(p, src + k * Chunk, dst - src)
         /\ Fill(w) /\ n # 0 => Leaves(p, src, dst + k * Chunk)
<1> DEFINE src == x.r[0]  dst == x.r[1]  w == x.r[2]  n == Count(w)  k == Rounds(n)  p == PredictFast(x)
           all == EntryCost + ExitCost
           Is(ok, r0, r1, c) == Predicted(ok, r0, r1, all + c)
           copy == (4 + 7 * Chunk) * Fetch + Chunk * (Cost(src) + Cost(dst)) + (Chunk - 1) * Branch
           fill == (4 + 3 * Chunk) * Fetch + Chunk * Cost(dst) + (Chunk - 1) * Branch
           A1 == Is(SrcHost(src, 1), src, dst, 20 * Fetch + Cost(src) + Branch)
           A2 == Is(SrcHost(src, 1) /\ OneRegion(dst, k * Chunk), src, dst + k * Chunk,
                    20 * Fetch + Cost(src) + k * fill + (k - 1) * Branch)
           B1 == Is(TRUE, src, dst, 19 * Fetch + 2 * Branch)
           B2 == Is(SrcHost(src, k * Chunk) /\ DstFits(src, dst, k * Chunk), src + k * Chunk, dst - src,
                    20 * Fetch + Branch + k * copy + k * Branch)
<1>1. Fill(w) => p = IF n = 0 THEN A1 ELSE A2
  BY Zenon DEF PredictFast, Longer
<1>2. ~Fill(w) => p = IF n = 0 THEN B1 ELSE B2
  BY Zenon DEF PredictFast, Longer
<1>3. /\ Leaves(A1, src, dst) /\ Leaves(A2, src, dst + k * Chunk)
      /\ Leaves(B1, src, dst) /\ Leaves(B2, src + k * Chunk, dst - src)
  BY DEF Leaves, Predicted
<1> HIDE DEF A1, A2, B1, B2, p, src, dst, n, w, k
<1>4. /\ ~Fill(w) /\ n = 0 => Leaves(p, src, dst)
      /\ Fill(w) /\ n = 0 => Leaves(p, src, dst)
      /\ ~Fill(w) /\ n # 0 => Leaves(p, src + k * Chunk, dst - src)
      /\ Fill(w) /\ n # 0 => Leaves(p, src, dst + k * Chunk)
  BY <1>1, <1>2, <1>3
<1> QED
  BY <1>4 DEF p, src, dst, n, w, k

LEMMA PredictIs ==
  ASSUME NEW x, NEW c \in AllCalls, Asked(x, c), Clean(c), Predict(x).ok
  PROVE  Leaves(Predict(x), R0After(x, c), R1After(c))
<1>1. x.num = c.num /\ x.r[0] = c.r0 /\ x.r[1] = c.r1 /\ x.r[2] = c.r2 /\ (c.num = 11 \/ c.num = 12)
  BY TopIs DEF Asked
<1>2. Longer(x)
  BY <1>1, CleanIs DEF Longer
<1>3. Predict(x) = IF x.num = 11 THEN PredictSet(x) ELSE PredictFast(x)
  BY DEF Predict, Predicted
<1>4. CASE c.num = 11
  <2> DEFINE p == PredictSet(x)  src == x.r[0]  dst == x.r[1]  w == x.r[2]  n == Count(w)
  <2>1. /\ ~Fill(w) /\ n = 0 => Leaves(p, src, dst)
        /\ Fill(w) /\ n = 0 => Leaves(p, src, dst)
        /\ ~Word(w) /\ ~Fill(w) /\ n # 0 => Leaves(p, src, dst - src)
        /\ Word(w) /\ ~Fill(w) /\ n # 0 => Leaves(p, Read(x, src + n - 1), dst - src)
        /\ Fill(w) /\ n # 0 => Leaves(p, src, dst + n)
    BY <1>2, PredictSetIs, Zenon
  <2>2. Predict(x) = p /\ Copied(c) = n
    BY <1>1, <1>3, <1>4 DEF Copied
  <2> HIDE DEF p
  <2> QED
    BY <1>1, <1>4, <2>1, <2>2 DEF R0After, R1After
<1>5. CASE c.num = 12
  <2> DEFINE p == PredictFast(x)  src == x.r[0]  dst == x.r[1]  w == x.r[2]  n == Count(w)  k == Rounds(n)
  <2>1. /\ ~Fill(w) /\ n = 0 => Leaves(p, src, dst)
        /\ Fill(w) /\ n = 0 => Leaves(p, src, dst)
        /\ ~Fill(w) /\ n # 0 => Leaves(p, src + k * Chunk, dst - src)
        /\ Fill(w) /\ n # 0 => Leaves(p, src, dst + k * Chunk)
    BY <1>2, PredictFastIs, Zenon
  <2>2. Predict(x) = p /\ Copied(c) = k * Chunk
    BY <1>1, <1>3, <1>5 DEF Copied
  <2> HIDE DEF p, k
  <2> QED
    BY <1>1, <1>5, <2>1, <2>2 DEF R0After, R1After
<1> QED
  BY <1>1, <1>4, <1>5

FromOf(c, k) == IF Fill(c.r2) THEN c.r0 ELSE c.r0 + k - 1
\* t is x with the call c done, back with the caller.
Ended(x, c, t) ==
  /\ t \in Machine /\ t.pc = Lr(x, "svc") /\ t.cpsr = x.bank["svc"].spsr /\ t.num = x.num /\ t.bank = x.bank
  /\ t.r = [[x.r EXCEPT ![0] = R0After(x, c)] EXCEPT ![1] = R1After(c)]
  /\ \A a \in Stacks : a \notin Free(x) => Read(t, a) = Read(x, a)
  /\ \A i \in Held : OffStacks(i) /\ Off(i, c.r1, Copied(c)) => t.mem[i] = x.mem[i]
  /\ \A k \in 1 .. Copied(c) : t.mem[Host[c.r1 + k - 1]] = Read(x, FromOf(c, k))

LEMMA RangesIs ==
  ASSUME NEW c \in AllCalls, Clean(c)
  PROVE  /\ Plain(c.r1, Copied(c))
         /\ \A i \in Span(c.r1, Copied(c)) : OffStacks(Host[i])
         /\ \A k \in 1 .. Copied(c) : FromOf(c, k) \in DOMAIN Host /\ OffStacks(Host[FromOf(c, k)])
<1>1. c.r0 \in Int /\ c.r1 \in Int
  BY CallIs
<1>2. Copied(c) \in Nat
  BY TurnsAre
<1>3. /\ \A a \in SourceOf(c) \cup TargetOf(c) : a \in DOMAIN Host /\ OffStacks(Host[a])
      /\ \A a, b \in TargetOf(c) : Host[a] = Host[b] => a = b
      /\ Fill(c.r2) => c.r0 \in SourceOf(c)
  BY CleanIs
<1>4. Span(c.r1, Copied(c)) = TargetOf(c)
  BY DEF TargetOf
<1>5. Plain(c.r1, Copied(c))
  BY <1>3, <1>4 DEF Plain, Mapped
<1>6. ASSUME NEW k \in 1 .. Copied(c) PROVE FromOf(c, k) \in SourceOf(c)
  <2>1. CASE Fill(c.r2)
    BY <1>3, <2>1 DEF FromOf
  <2>2. CASE ~Fill(c.r2)
    <3>1. c.r0 + k - 1 \in c.r0 .. (c.r0 + Copied(c) - 1)
      BY <1>1, <1>2
    <3> QED BY <2>2, <3>1 DEF FromOf, SourceOf, Span
  <2> QED BY <2>1, <2>2
<1> QED BY <1>3, <1>4, <1>5, <1>6

LEMMA AfterType ==
  ASSUME NEW x \in Machine, NEW c \in AllCalls, Clean(c)
  PROVE  R0After(x, c) \in Int /\ R1After(c) \in Int
<1>1. c.r0 \in Int /\ c.r1 \in Int /\ Copied(c) \in Nat
  BY CallIs, TurnsAre
<1>2. Count(c.r2) # 0 => Copied(c) > 0
  <2> DEFINE n == Count(c.r2)
  <2>1. n \in Nat
    BY CallIs
  <2>2. n # 0 => n <= Copied(c)
    BY TurnsAre
  <2> QED BY <1>1, <2>1, <2>2
<1>3. Count(c.r2) # 0 /\ ~Fill(c.r2) => Read(x, c.r0 + Copied(c) - 1) \in Int
  <2> SUFFICES ASSUME Count(c.r2) # 0, ~Fill(c.r2) PROVE Read(x, c.r0 + Copied(c) - 1) \in Int
    OBVIOUS
  <2> DEFINE n == Copied(c)
  <2>1. n \in 1 .. n
    BY <1>1, <1>2
  <2>2. FromOf(c, n) \in DOMAIN Host
    BY <2>1, RangesIs
  <2>3. FromOf(c, n) = c.r0 + n - 1
    BY DEF FromOf
  <2> QED BY <2>2, <2>3, ReadType
<1> QED BY <1>1, <1>3 DEF R0After, R1After

\* The service's copy.
LEMMA AppliedIs ==
  ASSUME NEW x \in Machine, NEW c \in AllCalls, Asked(x, c), Clean(c), NEW p, Leaves(p, R0After(x, c), R1After(c))
  PROVE  Ended(x, c, Applied(x, p))
<1> DEFINE n == Copied(c)
           vs == [k \in 1 .. n |-> Read(x, IF Fill(x.r[2]) THEN x.r[0] ELSE x.r[0] + k - 1)]
           y == IF n = 0 THEN x ELSE Writes(x, c.r1, vs)
           r0 == R0After(x, c)
           r1 == R1After(c)
           l == Lr(x, "svc")
           q == x.bank["svc"].spsr
           t == Turn(SetR(SetR(y, 0, r0), 1, r1), l, q)
<1>1. Elements(x) = n /\ x.r[0] = c.r0 /\ x.r[1] = c.r1 /\ x.r[2] = c.r2
  BY DEF Asked, Elements, Copied
<1>2. n \in Nat /\ c.r0 \in Int /\ c.r1 \in Int
  BY TurnsAre, CallIs
<1>3. r0 \in Int /\ r1 \in Int
  BY AfterType
<1>4. l \in Int /\ q \in Int
  BY BankType, NamesAre
<1>5. \A k \in 1 .. n : vs[k] = Read(x, FromOf(c, k)) /\ vs[k] \in Int
  <2> TAKE k \in 1 .. n
  <2>1. vs[k] = Read(x, FromOf(c, k))
    BY <1>1 DEF FromOf
  <2>2. FromOf(c, k) \in DOMAIN Host
    BY RangesIs
  <2> QED BY <2>1, <2>2, ReadType
<1>6. /\ y \in Machine /\ y = [x EXCEPT !.mem = y.mem]
      /\ \A i \in Held : Off(i, c.r1, n) => y.mem[i] = x.mem[i]
      /\ \A k \in 1 .. n : y.mem[Host[c.r1 + k - 1]] = Read(x, FromOf(c, k))
  <2>1. CASE n = 0
    <3>1. y = x
      BY <2>1
    <3>2. x = [x EXCEPT !.mem = x.mem]
      BY DEF Machine
    <3>3. 1 .. n = {}
      BY <2>1
    <3> QED BY <3>1, <3>2, <3>3
  <2>2. CASE n # 0
    <3>1. y = Writes(x, c.r1, vs)
      BY <2>2
    <3>2. DOMAIN vs = 1 .. n
      OBVIOUS
    <3>3. Plain(c.r1, n)
      BY RangesIs
    <3>4. Mapped(c.r1, n)
      BY <3>3 DEF Plain
    <3> HIDE DEF vs, n, y
    <3> QED BY <1>2, <1>5, <3>1, <3>2, <3>3, <3>4, WritesType
  <2> QED BY <2>1, <2>2
<1>7. Applied(x, p) = t
  <2>1. p.r0 = r0 /\ p.r1 = r1
    BY DEF Leaves
  <2>2. y = IF n = 0 THEN x ELSE Moved(x, x.r[0], x.r[1], n, Fill(x.r[2]))
    BY <1>1 DEF Moved
  <2> HIDE DEF y, n, r0, r1
  <2> QED BY <1>1, <2>1, <2>2 DEF Applied, Turn, SetR
<1> HIDE DEF vs, y, r0, r1, l, q, n
<1> DEFINE y1 == SetR(y, 0, r0)
           y2 == SetR(y1, 1, r1)
<1>8. Puts(y, 0, r0, y1)
  BY <1>3, <1>6, NamesAre, SetRIs
<1>9. y1 \in Machine
  BY <1>8 DEF Puts
<1>10. Puts(y1, 1, r1, y2)
  BY <1>3, <1>9, NamesAre, SetRIs
<1>11. y2 \in Machine
  BY <1>10 DEF Puts
<1>12. /\ t \in Machine /\ t.pc = l /\ t.cpsr = q /\ t.num = y2.num /\ t.r = y2.r /\ t.bank = y2.bank
       /\ t.mem = y2.mem
  <2>1. t = Turn(y2, l, q)
    OBVIOUS
  <2> HIDE DEF y2, t
  <2>2. LET z == Turn(y2, l, q) IN
        /\ z \in Machine /\ z.pc = l /\ z.cpsr = q /\ z.num = y2.num /\ z.r = y2.r /\ z.bank = y2.bank
        /\ z.mem = y2.mem
    BY <1>4, <1>11, TurnIs, Zenon
  <2> QED BY <2>1, <2>2
<1>13. y.r = x.r /\ y.num = x.num /\ y.bank = x.bank
  BY <1>6 DEF Machine
<1>14. y2.r = [[x.r EXCEPT ![0] = r0] EXCEPT ![1] = r1]
  BY <1>13, <1>6 DEF SetR, Machine, Regs
<1>15. t.num = x.num /\ t.bank = x.bank /\ t.mem = y.mem
  BY <1>8, <1>10, <1>12, <1>13 DEF Puts
<1> HIDE DEF t, y1, y2
<1>16. \A a \in Stacks : Read(t, a) = Read(x, a)
  <2> TAKE a \in Stacks
  <2>1. Host[a] \in Held
    BY StacksAre
  <2>2. Off(Host[a], c.r1, n)
    BY RangesIs DEF Off, OffStacks, n
  <2>3. y.mem[Host[a]] = x.mem[Host[a]]
    BY <1>6, <2>1, <2>2
  <2> QED BY <1>15, <2>3 DEF Read
<1> QED BY <1>6, <1>12, <1>14, <1>15, <1>16, <1>7 DEF Ended, l, q, r0, r1, n

\* The interpreter's copy, from its first round.
LEMMA LoopAfter ==
  ASSUME NEW x, NEW c \in AllCalls, Clean(c), Count(c.r2) # 0, NEW st, Begun(c, x, st),
         NEW t \in Machine, t.pc = st.pc, t.r = st.r,
         \A a \in DOMAIN Host : OffStacks(Host[a]) => Read(t, a) = Read(x, a)
  PROVE  /\ t.pc = TopOf(c) /\ t.pc \in Loops /\ Within(c, 0, t) /\ RunOk(t, Copied(c)) /\ DestAt(t) = c.r1
         /\ (TurnsOf(c) - 1) * UnitOf(c) < LeftAt(t) /\ LeftAt(t) <= Copied(c) /\ Copied(c) \in Nat \ {0}
         /\ RegsAt(t, Copied(c))[0] = R0After(x, c) /\ RegsAt(t, Copied(c))[1] = R1After(c)
         /\ \A k \in 1 .. Copied(c) : ValueAt(t, k) = Read(x, FromOf(c, k))
<1> DEFINE n == Copied(c)
           u == UnitOf(c)
           T == TurnsOf(c)
           z == 0 * u
           d == (T - 1) * u
           i == Count(c.r2)
<1>1. t.pc = TopOf(c) /\ Within(c, 0, t)
  BY BegunIs
<1>2. /\ u \in Nat /\ u > 0 /\ UnitAt(t) = u /\ (t.pc \in Fills <=> Fill(c.r2)) /\ t.pc \in Loops
  BY <1>1, UnitsAre
<1>3. z = 0
  BY <1>2
<1>4. /\ T \in Nat /\ n \in Nat /\ T * u = n /\ T > 0 /\ d < i /\ i <= n
  BY TurnsAre
<1>5. c.r0 \in Int /\ c.r1 \in Int /\ i \in Nat
  BY CallIs
<1>6. LeftAt(t) = i - z /\ DestAt(t) = c.r1 + z /\ (~Fill(c.r2) => FromAt(t) = c.r0 + z)
  BY <1>1 DEF Within
<1>7. T - 1 \in Int /\ d \in Int
  BY <1>2, <1>4
<1>8. LeftAt(t) = i /\ DestAt(t) = c.r1 /\ (~Fill(c.r2) => FromAt(t) = c.r0) /\ d < LeftAt(t) /\ LeftAt(t) <= n
  <2> HIDE DEF z, d, i, n
  <2> QED BY <1>3, <1>4, <1>5, <1>6
<1>9. n \in Nat \ {0}
  <2>1. i # 0
    OBVIOUS
  <2>2. n \in Nat /\ i <= n
    BY <1>4
  <2> HIDE DEF d, i, n
  <2> QED BY <1>5, <2>1, <2>2
<1>10. RunOk(t, n)
  <2> DEFINE q == 0
             p == T * u
  <2>1. q \in Nat /\ Within(c, q, t)
    BY <1>1
  <2>2. T \in Nat \ {0}
    BY <1>4
  <2>3. (T - 1) * UnitOf(c) < LeftAt(t)
    BY <1>8
  <2> HIDE DEF q, T
  <2>4. RunOk(t, T * UnitOf(c))
    BY <1>1, <2>1, <2>2, <2>3, RoundsRun
  <2>5. T * UnitOf(c) = n
    BY <1>4
  <2> HIDE DEF n
  <2> QED BY <2>4, <2>5
<1>11. ASSUME NEW k \in 1 .. n PROVE ValueAt(t, k) = Read(x, FromOf(c, k))
  <2>1. CASE Fill(c.r2)
    BY <1>2, <2>1 DEF Begun, ValueAt, FromOf
  <2>2. CASE ~Fill(c.r2)
    <3>1. ValueAt(t, k) = Read(t, c.r0 + k - 1)
      BY <1>2, <1>8, <2>2 DEF ValueAt
    <3>2. FromOf(c, k) = c.r0 + k - 1
      BY <2>2 DEF FromOf
    <3>3. FromOf(c, k) \in DOMAIN Host /\ OffStacks(Host[FromOf(c, k)])
      BY RangesIs
    <3> QED BY <3>1, <3>2, <3>3
  <2> QED BY <2>1, <2>2
<1>12. t.r \in [Regs -> Int] /\ t.r[0] = c.r0 /\ t.r[1] = IF Fill(c.r2) THEN c.r1 ELSE c.r1 - c.r0
  BY DEF Begun
<1>13. n \in 1 .. n
  BY <1>9
<1> DEFINE v == RegsAt(t, n)
<1>14. v[0] = R0After(x, c) /\ v[1] = R1After(c)
  <2>1. c.num = 11 \/ c.num = 12
    BY TopIs
  <2>2. 0 \in Regs /\ 1 \in Regs /\ 2 \in Regs /\ 3 \in Regs /\ 4 \in Regs /\ 12 \in Regs
    BY NamesAre
  <2>3. CASE Fill(c.r2)
    <3>1. t.pc = FastFill \/ t.pc = HalfFill \/ t.pc = WordFill
      BY <1>2, <2>3 DEF Fills
    <3>2. v[0] = t.r[0] /\ v[1] = t.r[1] + n
      <4>1. CASE t.pc = FastFill
        <5>1. v = [t.r EXCEPT ![1] = @ + n, ![3] = t.r[1] + n, ![4] = @ - n]
          BY <4>1, RegsAre
        <5> HIDE DEF v
        <5> QED BY <5>1, <1>12, <2>2
      <4>2. CASE t.pc = HalfFill
        <5>1. v = [t.r EXCEPT ![1] = @ + n]
          BY <4>2, RegsAre
        <5> HIDE DEF v
        <5> QED BY <5>1, <1>12, <2>2
      <4>3. CASE t.pc = WordFill
        <5>1. v = [t.r EXCEPT ![1] = @ + n, ![3] = @ - n]
          BY <4>3, RegsAre
        <5> HIDE DEF v
        <5> QED BY <5>1, <1>12, <2>2
      <4> QED BY <3>1, <4>1, <4>2, <4>3
    <3> HIDE DEF v
    <3> QED BY <1>12, <2>3, <3>2 DEF R0After, R1After
  <2>4. CASE ~Fill(c.r2) /\ c.num = 12
    <3>1. t.pc = FastCopy
      BY <1>1, <2>4, TopIs
    <3>2. v = [t.r EXCEPT ![0] = t.r[3] + n, ![2] = ValueAt(t, n), ![3] = @ + n, ![4] = @ - n]
      BY <3>1, RegsAre
    <3>3. t.r[3] = c.r0
      BY <3>1 DEF Begun, Fasts
    <3> HIDE DEF v
    <3> QED BY <1>12, <2>2, <2>4, <3>2, <3>3 DEF R0After, R1After
  <2>5. CASE ~Fill(c.r2) /\ c.num = 11 /\ Word(c.r2)
    <3>1. t.pc = WordCopy
      BY <1>1, <2>5, TopIs
    <3>2. v = [t.r EXCEPT ![0] = ValueAt(t, n), ![2] = @ + n, ![3] = @ - n]
      BY <3>1, RegsAre
    <3>3. ValueAt(t, n) = Read(x, c.r0 + n - 1)
      BY <1>11, <1>13, <2>5 DEF FromOf
    <3> HIDE DEF v
    <3> QED BY <1>12, <2>2, <2>5, <3>2, <3>3 DEF R0After, R1After
  <2>6. CASE ~Fill(c.r2) /\ c.num = 11 /\ ~Word(c.r2)
    <3>1. t.pc = HalfCopy
      BY <1>1, <2>6, TopIs
    <3>2. v = [t.r EXCEPT ![2] = @ + n, ![12] = ValueAt(t, n)]
      BY <3>1, RegsAre
    <3> HIDE DEF v
    <3> QED BY <1>12, <2>2, <2>6, <3>2 DEF R0After, R1After
  <2> QED BY <2>1, <2>3, <2>4, <2>5, <2>6
<1> HIDE DEF v
<1> QED BY <1>1, <1>2, <1>8, <1>9, <1>10, <1>11, <1>14 DEF v

\* e is where the call c of x, whose frames d holds, ends.
Finishing(x, c, d, e) ==
  /\ e \in Machine /\ e.bank = d.bank /\ e.num = d.num /\ e.r[0] = R0After(x, c) /\ e.r[1] = R1After(c)
  /\ \A a \in Stacks : Read(e, a) = Read(d, a)
  /\ \A i \in Held : OffStacks(i) /\ Off(i, c.r1, Copied(c)) => e.mem[i] = x.mem[i]
  /\ \A k \in 1 .. Copied(c) : e.mem[Host[c.r1 + k - 1]] = Read(x, FromOf(c, k))

LEMMA FinishingIs ==
  ASSUME NEW x \in Machine, Roomy(x), NEW d, Opened(x, d), NEW c \in AllCalls, Clean(c), NEW e, Finishing(x, c, d, e),
         NEW t, Closed(e, t)
  PROVE  Ended(x, c, t)
<1> DEFINE u == Sp(x, "usr")
           s == Sp(x, "svc")
<1>1. u \in {1008, 1004} /\ s \in {1016, 1012} /\ Sp(x, "irq") \in {1022, 1016}
  BY DEF Roomy, UserTop, SvcTop, IrqTop
<1>2. x.bank \in [Banks -> [sp : Int, lr : Int, spsr : Int]]
  BY DEF Machine
<1>3. "usr" \in Banks /\ "svc" \in Banks /\ "irq" \in Banks /\ \A b \in Banks : b = "usr" \/ b = "svc" \/ b = "irq"
  BY NamesAre
<1>4. /\ e.bank["usr"] = [sp |-> u - 4, lr |-> SwiReturn, spsr |-> x.bank["usr"].spsr]
      /\ e.bank["svc"] = [sp |-> s - 4, lr |-> Lr(x, "svc"), spsr |-> x.bank["svc"].spsr]
      /\ e.bank["irq"] = x.bank["irq"]
  <2>1. e.bank = [x.bank EXCEPT !["usr"] = [sp |-> u - 4, lr |-> SwiReturn, spsr |-> x.bank["usr"].spsr],
                                !["svc"] = [sp |-> s - 4, lr |-> Lr(x, "svc"), spsr |-> x.bank["svc"].spsr]]
    BY DEF Finishing, Opened
  <2> HIDE DEF u, s
  <2> QED BY <1>2, <1>3, <2>1
<1>5. Sp(e, "usr") = u - 4 /\ Sp(e, "svc") = s - 4
  BY <1>4 DEF Sp
<1> HIDE DEF u, s
<1>6. \A a \in Stacks : Read(e, a) = Read(d, a)
  BY DEF Finishing
<1>7. /\ s - 4 \in Stacks /\ s - 3 \in Stacks /\ s - 2 \in Stacks /\ s - 1 \in Stacks
      /\ u - 4 \in Stacks /\ u - 3 \in Stacks /\ u - 2 \in Stacks /\ u - 1 \in Stacks
  BY <1>1, StacksAre
<1>8. /\ Read(e, s - 4) = x.bank["svc"].spsr /\ Read(e, s - 3) = x.r[11] /\ Read(e, s - 2) = x.r[12]
      /\ Read(e, s - 1) = Lr(x, "svc") /\ Read(e, u - 4) = x.r[4] /\ Read(e, u - 3) = x.r[2]
      /\ Read(e, u - 2) = x.r[3] /\ Read(e, u - 1) = Lr(x, "usr")
  <2>1. /\ Read(d, s - 4) = x.bank["svc"].spsr /\ Read(d, s - 3) = x.r[11] /\ Read(d, s - 2) = x.r[12]
        /\ Read(d, s - 1) = Lr(x, "svc") /\ Read(d, u - 4) = x.r[4] /\ Read(d, u - 3) = x.r[2]
        /\ Read(d, u - 2) = x.r[3] /\ Read(d, u - 1) = Lr(x, "usr")
    BY DEF Opened, u, s
  <2> QED BY <1>6, <1>7, <2>1
<1>9. /\ u - 4 + 1 = u - 3 /\ u - 4 + 2 = u - 2 /\ u - 4 + 3 = u - 1 /\ u - 4 + 4 = u
      /\ s - 4 + 1 = s - 3 /\ s - 4 + 2 = s - 2 /\ s - 4 + 3 = s - 1 /\ s - 4 + 4 = s
  BY <1>1
<1>10. /\ t \in Machine /\ t.mem = e.mem /\ t.num = e.num /\ t.pc = Read(e, s - 1) /\ t.cpsr = Read(e, s - 4)
       /\ t.r[0] = e.r[0] /\ t.r[1] = e.r[1] /\ t.r[2] = Read(e, u - 3) /\ t.r[3] = Read(e, u - 2)
       /\ t.r[4] = Read(e, u - 4) /\ t.r[11] = Read(e, s - 3) /\ t.r[12] = Read(e, s - 2)
       /\ t.bank["usr"] = [sp |-> u, lr |-> Read(e, u - 1), spsr |-> e.bank["usr"].spsr]
       /\ t.bank["svc"] = [sp |-> s, lr |-> Read(e, s - 1), spsr |-> Read(e, s - 4)]
       /\ t.bank["irq"] = e.bank["irq"]
  BY <1>5, <1>9 DEF Closed
<1>11. t.pc = Lr(x, "svc") /\ t.cpsr = x.bank["svc"].spsr /\ t.num = x.num
  BY <1>8, <1>10 DEF Finishing, Opened
<1>12. t.bank = x.bank
  <2>1. t.bank["usr"] = [sp |-> u, lr |-> Lr(x, "usr"), spsr |-> x.bank["usr"].spsr]
    BY <1>4, <1>8, <1>10
  <2>2. t.bank["svc"] = [sp |-> s, lr |-> Lr(x, "svc"), spsr |-> x.bank["svc"].spsr]
    BY <1>8, <1>10
  <2>3. \A b \in Banks : x.bank[b] = [sp |-> Sp(x, b), lr |-> Lr(x, b), spsr |-> x.bank[b].spsr]
    BY <1>2 DEF Sp, Lr
  <2>4. \A b \in Banks : t.bank[b] = x.bank[b]
    BY <1>3, <1>4, <1>10, <2>1, <2>2, <2>3 DEF u, s
  <2>5. t.bank \in [Banks -> [sp : Int, lr : Int, spsr : Int]]
    BY <1>10 DEF Machine
  <2> QED BY <1>2, <2>4, <2>5
<1>13. t.r = [[x.r EXCEPT ![0] = R0After(x, c)] EXCEPT ![1] = R1After(c)]
  <2> DEFINE v == [[x.r EXCEPT ![0] = R0After(x, c)] EXCEPT ![1] = R1After(c)]
  <2>1. x.r \in [Regs -> Int] /\ t.r \in [Regs -> Int]
    BY <1>10 DEF Machine
  <2>2. v \in [Regs -> Int]
    BY <2>1, AfterType
  <2>3. /\ v[0] = R0After(x, c) /\ v[1] = R1After(c) /\ v[2] = x.r[2] /\ v[3] = x.r[3] /\ v[4] = x.r[4]
        /\ v[11] = x.r[11] /\ v[12] = x.r[12]
    BY <2>1, NamesAre
  <2>4. /\ t.r[0] = R0After(x, c) /\ t.r[1] = R1After(c) /\ t.r[2] = x.r[2] /\ t.r[3] = x.r[3] /\ t.r[4] = x.r[4]
        /\ t.r[11] = x.r[11] /\ t.r[12] = x.r[12]
    BY <1>8, <1>10 DEF Finishing
  <2> HIDE DEF v
  <2>5. \A k \in Regs : t.r[k] = v[k]
    BY <2>3, <2>4, NamesAre
  <2>6. t.r = v
    BY <2>1, <2>2, <2>5
  <2> QED BY <2>6 DEF v
<1>14. ASSUME NEW a \in Stacks, a \notin Free(x) PROVE Read(t, a) = Read(x, a)
  <2>1. Read(t, a) = Read(d, a)
    BY <1>6, <1>10 DEF Read
  <2>2. ~InFrames(x, a)
    <3>1. a \in Int
      BY StacksAre
    <3>2. a \notin u - 4 .. u - 4 + 4 - 1 /\ a \notin s - 4 .. s - 4 + 4 - 1
      <4>1. a \notin 1008 - 8 .. u - 1 /\ a \notin 1016 - 8 .. s - 1
        BY <1>14 DEF Free, UserTop, SvcTop, u, s
      <4> QED BY <1>1, <3>1, <4>1
    <3> QED BY <3>2 DEF InFrames, Span, u, s
  <2> QED BY <2>1, <2>2 DEF Opened
<1>15. /\ \A i \in Held : OffStacks(i) /\ Off(i, c.r1, Copied(c)) => t.mem[i] = x.mem[i]
       /\ \A k \in 1 .. Copied(c) : t.mem[Host[c.r1 + k - 1]] = Read(x, FromOf(c, k))
  BY <1>10 DEF Finishing
<1> QED BY <1>10, <1>11, <1>12, <1>13, <1>14, <1>15 DEF Ended

LEMMA ExitStep ==
  ASSUME NEW x \in Machine, Roomy(x), NEW d, Opened(x, d), NEW c \in AllCalls, Clean(c), NEW e, Finishing(x, c, d, e),
         e.pc \in Exits, NEW w
  PROVE  Ended(x, c, BiosStep(e, w).x)
<1>1. BiosStep(e, w) = Completed(e)
  BY BiosIs DEF Exits
<1>2. e \in Machine /\ e.bank = d.bank
  BY DEF Finishing
<1>3. Framing(e)
  <2> DEFINE u == Sp(x, "usr") - 4
             s == Sp(x, "svc") - 4
  <2>1. x.bank \in [Banks -> [sp : Int, lr : Int, spsr : Int]] /\ "usr" \in Banks /\ "svc" \in Banks
    BY NamesAre DEF Machine
  <2>2. d.bank = [x.bank EXCEPT !["usr"] = [sp |-> u, lr |-> SwiReturn, spsr |-> x.bank["usr"].spsr],
                                !["svc"] = [sp |-> s, lr |-> Lr(x, "svc"), spsr |-> x.bank["svc"].spsr]]
    BY DEF Opened
  <2> HIDE DEF u, s
  <2>3. Sp(e, "usr") = u /\ Sp(e, "svc") = s
    BY <1>2, <2>1, <2>2 DEF Sp
  <2> QED BY <2>3 DEF u, s, Roomy, Framing, UserTop, SvcTop
<1>4. Closed(e, Completed(e).x)
  BY <1>2, <1>3, CompletedIs, Zenon
<1> DEFINE t == Completed(e).x
<1> HIDE DEF t
<1>5. Ended(x, c, t)
  BY <1>4, FinishingIs, Zenon DEF t
<1> QED BY <1>1, <1>5 DEF t

\* Where the first step of the reference gets to.
LEMMA OpenedAfter ==
  ASSUME NEW x \in Machine, NEW d, Opened(x, d), NEW pc \in Int, NEW r \in [Regs -> Int]
  PROVE  LET t == Placed(d, pc, r) IN
         /\ t \in Machine /\ t.pc = pc /\ t.r = r /\ t.bank = d.bank /\ t.num = d.num
         /\ \A a : Read(t, a) = Read(d, a)
         /\ \A i \in Held : OffStacks(i) => t.mem[i] = x.mem[i]
         /\ \A a \in DOMAIN Host : OffStacks(Host[a]) => Read(t, a) = Read(x, a)
<1> DEFINE t == Placed(d, pc, r)
<1>1. d \in Machine /\ \A i \in Held : OffStacks(i) => d.mem[i] = x.mem[i]
  BY DEF Opened
<1>2. /\ t \in Machine
      /\ t.pc = pc /\ t.r = r
      /\ t.cpsr = d.cpsr /\ t.num = d.num
      /\ t.bank = d.bank /\ t.mem = d.mem
      /\ \A a : Read(t, a) = Read(d, a)
  BY <1>1, PlacedIs, Zenon
<1> HIDE DEF t
<1>3. \A i \in Held : OffStacks(i) => t.mem[i] = x.mem[i]
  BY <1>1, <1>2
<1>4. \A a \in DOMAIN Host : OffStacks(Host[a]) => Read(t, a) = Read(x, a)
  BY <1>3 DEF Read, Held
<1> QED BY <1>2, <1>3, <1>4 DEF t

\* The reference's whole call.
LEMMA CallAfter ==
  ASSUME CallsClean, NEW x \in Machine, Roomy(x), x.pc = Vector, NEW c \in AllCalls, Asked(x, c), NEW w,
         NEW g, Steps(g, x, TurnsOf(c) + 2, w)
  PROVE  Ended(x, c, g[TurnsOf(c) + 2])
<1> DEFINE T == TurnsOf(c)
           n == Copied(c)
           d == Opening(x)
           st == StartOf(x, d.r)
           t == Placed(d, st.pc, st.r)
           i == Count(c.r2)
<1>1. Clean(c)
  BY DEF CallsClean, AllCalls
<1>2. Opened(x, d) /\ Begun(c, x, st) /\ BiosStep(x, w).x = t
  BY <1>1, EnterIs
<1>3. st.pc \in Int /\ st.r \in [Regs -> Int]
  BY <1>2 DEF Begun
<1>4. T \in Nat /\ n \in Nat /\ (i = 0 => T = 0 /\ n = 0) /\ (i # 0 => T > 0)
  BY TurnsAre
<1> HIDE DEF T, n, d, st, i
<1>5. g[0] = x /\ \A k \in 1 .. T + 2 : g[k] = BiosStep(g[k - 1], w).x
  BY DEF Steps, T
<1>6. g[1] = t
  <2>1. 1 \in 1 .. T + 2 /\ 1 - 1 = 0
    BY <1>4
  <2> QED BY <1>2, <1>5, <2>1
<1>7. /\ t \in Machine /\ t.pc = st.pc /\ t.r = st.r /\ t.bank = d.bank /\ t.num = d.num
      /\ \A a : Read(t, a) = Read(d, a)
      /\ \A k \in Held : OffStacks(k) => t.mem[k] = x.mem[k]
      /\ \A a \in DOMAIN Host : OffStacks(Host[a]) => Read(t, a) = Read(x, a)
  BY <1>2, <1>3, OpenedAfter
<1> HIDE DEF t
<1>8. g[T + 2] = BiosStep(g[T + 1], w).x
  <2>1. T + 2 \in 1 .. T + 2 /\ (T + 2) - 1 = T + 1
    BY <1>4
  <2> QED BY <1>5, <2>1
<1>9. g[T + 1].pc \in Exits /\ Finishing(x, c, d, g[T + 1])
  <2>1. CASE i = 0
    <3>1. T + 1 = 1 /\ 1 .. n = {}
      BY <1>4, <2>1
    <3>2. t.pc \in Exits
      BY <1>2, <1>7, <2>1, BegunIs DEF i
    <3>3. t.r[0] = c.r0 /\ t.r[1] = c.r1
      BY <1>2, <1>7, <2>1 DEF Begun, i
    <3>4. t.r[0] = R0After(x, c) /\ t.r[1] = R1After(c)
      BY <2>1, <3>3 DEF R0After, R1After, i
    <3>5. Finishing(x, c, d, t)
      BY <1>7, <3>1, <3>4 DEF Finishing, n
    <3> QED BY <1>6, <3>1, <3>2, <3>5
  <2>2. CASE i # 0
    <3> DEFINE h == [k \in 0 .. T |-> g[k + 1]]
               o == 0
               e == Settled(Ran(t, n))
    <3>1. /\ t.pc = TopOf(c) /\ t.pc \in Loops /\ Within(c, o, t) /\ RunOk(t, n) /\ DestAt(t) = c.r1
          /\ (T - 1) * UnitOf(c) < LeftAt(t) /\ LeftAt(t) <= n /\ n \in Nat \ {0}
          /\ RegsAt(t, n)[0] = R0After(x, c) /\ RegsAt(t, n)[1] = R1After(c)
          /\ \A k \in 1 .. n : ValueAt(t, k) = Read(x, FromOf(c, k))
      BY <1>1, <1>2, <1>7, <2>2, LoopAfter DEF n, T, i
    <3>2. o \in Nat /\ T \in Nat \ {0}
      BY <1>4, <2>2
    <3>3. Steps(h, t, T, w)
      <4>1. h[0] = t
        <5>1. 0 \in 0 .. T /\ 0 + 1 = 1
          BY <1>4
        <5> QED BY <1>6, <5>1
      <4>2. ASSUME NEW k \in 1 .. T PROVE h[k] = BiosStep(h[k - 1], w).x
        <5>1. k \in 0 .. T /\ k - 1 \in 0 .. T /\ k + 1 \in 1 .. T + 2 /\ (k + 1) - 1 = (k - 1) + 1
          BY <1>4
        <5>2. h[k] = g[k + 1] /\ h[k - 1] = g[(k - 1) + 1]
          BY <5>1
        <5>3. g[k + 1] = BiosStep(g[(k + 1) - 1], w).x
          BY <1>5, <5>1
        <5> QED BY <5>1, <5>2, <5>3
      <4> QED BY <4>1, <4>2 DEF Steps
    <3>4. h[T] = g[T + 1]
      BY <1>4
    <3> HIDE DEF h, o
    <3>5. h[T] = Settled(Ran(t, T * UnitOf(c)))
      BY <1>7, <3>1, <3>2, <3>3, StepsRounds
    <3>6. T * UnitOf(c) = n
      BY TurnsAre DEF T, n
    <3>7. g[T + 1] = e
      BY <3>4, <3>5, <3>6
    <3>8. /\ Ran(t, n) \in Machine /\ Ran(t, n).pc = t.pc /\ Ran(t, n).num = t.num /\ Ran(t, n).bank = t.bank
          /\ Ran(t, n).r = RegsAt(t, n)
          /\ \A k \in Held : Off(k, DestAt(t), n) => Ran(t, n).mem[k] = t.mem[k]
          /\ \A k \in 1 .. n : Ran(t, n).mem[Host[DestAt(t) + k - 1]] = ValueAt(t, k)
          /\ \A a \in Stacks : Read(Ran(t, n), a) = Read(t, a)
      BY <1>7, <3>1, RanType
    <3>9. LeftAt(Ran(t, n)) = LeftAt(t) - n
      BY <1>7, <3>1, RanLeft
    <3>10. LeftAt(t) \in Int
      BY <1>7, <3>1, AtType
    <3>11. LeftAt(Ran(t, n)) <= 0
      BY <3>1, <3>9, <3>10
    <3> DEFINE z == Ran(t, n)
    <3> HIDE DEF z
    <3>12. /\ e \in Machine /\ e.r = z.r /\ e.mem = z.mem /\ e.num = z.num /\ e.bank = z.bank
           /\ e.pc = OutOf(z.pc)
      BY <3>8, <3>11, SettledType DEF z
    <3> HIDE DEF e
    <3>13. e.pc \in Exits
      BY <3>12 DEF OutOf, Exits
    <3>14. Finishing(x, c, d, e)
      <4>1. e.bank = d.bank /\ e.num = d.num /\ e.r[0] = R0After(x, c) /\ e.r[1] = R1After(c)
        BY <1>7, <3>1, <3>8, <3>12 DEF z
      <4>2. \A a \in Stacks : Read(e, a) = Read(d, a)
        BY <1>7, <3>8, <3>12 DEF z, Read
      <4>3. ASSUME NEW k \in Held, OffStacks(k), Off(k, c.r1, n) PROVE e.mem[k] = x.mem[k]
        BY <1>7, <3>1, <3>8, <3>12, <4>3 DEF z
      <4>4. ASSUME NEW k \in 1 .. n PROVE e.mem[Host[c.r1 + k - 1]] = Read(x, FromOf(c, k))
        BY <3>1, <3>8, <3>12 DEF z
      <4> QED BY <3>12, <4>1, <4>2, <4>3, <4>4 DEF Finishing, n
    <3> QED BY <3>7, <3>13, <3>14
  <2> QED BY <2>1, <2>2
<1> DEFINE e == g[T + 1]
<1> HIDE DEF e
<1>10. Ended(x, c, BiosStep(e, w).x)
  BY <1>1, <1>2, <1>9, ExitStep DEF e
<1> QED BY <1>8, <1>10 DEF e, T

LEMMA AfterSame ==
  ASSUME NEW x, NEW y, Same(x, y), Seated(x), NEW c \in AllCalls, Clean(c), NEW t, Ended(x, c, t), NEW v, Ended(y, c, v)
  PROVE  Same(t, v)
<1>1. /\ x \in Machine /\ y \in Machine /\ x.num = y.num /\ x.r = y.r /\ x.bank = y.bank
  BY DEF Same
<1>2. /\ Free(y) = Free(x)
      /\ \A a \in Stacks : a \notin Free(x) => Read(x, a) = Read(y, a)
      /\ \A i \in Held : OffStacks(i) => x.mem[i] = y.mem[i]
      /\ \A a \in DOMAIN Host : OffStacks(Host[a]) => Read(x, a) = Read(y, a)
  BY SameGives
<1>3. \A k \in 1 .. Copied(c) : Read(x, FromOf(c, k)) = Read(y, FromOf(c, k))
  BY <1>2, RangesIs
<1>4. R0After(x, c) = R0After(y, c)
  <2> DEFINE n == Copied(c)
             i == Count(c.r2)
  <2>1. n \in Nat /\ (i # 0 => i <= n) /\ i \in Nat
    BY TurnsAre, CallIs
  <2>2. i # 0 => n \in 1 .. n
    <3> HIDE DEF n, i
    <3> QED BY <2>1
  <2>3. i # 0 /\ ~Fill(c.r2) => Read(x, c.r0 + n - 1) = Read(y, c.r0 + n - 1)
    BY <1>3, <2>2 DEF FromOf
  <2> QED BY <2>3 DEF R0After
<1>5. /\ t \in Machine /\ t.pc = Lr(x, "svc") /\ t.cpsr = x.bank["svc"].spsr /\ t.num = x.num /\ t.bank = x.bank
      /\ t.r = [[x.r EXCEPT ![0] = R0After(x, c)] EXCEPT ![1] = R1After(c)]
      /\ \A a \in Stacks : a \notin Free(x) => Read(t, a) = Read(x, a)
      /\ \A i \in Held : OffStacks(i) /\ Off(i, c.r1, Copied(c)) => t.mem[i] = x.mem[i]
      /\ \A k \in 1 .. Copied(c) : t.mem[Host[c.r1 + k - 1]] = Read(x, FromOf(c, k))
  BY DEF Ended
<1>6. /\ v \in Machine /\ v.pc = Lr(x, "svc") /\ v.cpsr = x.bank["svc"].spsr /\ v.num = x.num /\ v.bank = x.bank
      /\ v.r = [[x.r EXCEPT ![0] = R0After(x, c)] EXCEPT ![1] = R1After(c)]
      /\ \A a \in Stacks : a \notin Free(x) => Read(v, a) = Read(y, a)
      /\ \A i \in Held : OffStacks(i) /\ Off(i, c.r1, Copied(c)) => v.mem[i] = y.mem[i]
      /\ \A k \in 1 .. Copied(c) : v.mem[Host[c.r1 + k - 1]] = Read(y, FromOf(c, k))
  BY <1>1, <1>2, <1>4 DEF Ended, Lr
<1>7. Seated(t) /\ Free(t) = Free(x)
  BY <1>5 DEF Seated, Free, Sp
<1>8. \A a \in Stacks : a \notin Free(t) => Read(t, a) = Read(v, a)
  BY <1>2, <1>5, <1>6, <1>7
<1>9. ASSUME NEW i \in Held, OffStacks(i) PROVE t.mem[i] = v.mem[i]
  <2>1. CASE Off(i, c.r1, Copied(c))
    BY <1>2, <1>5, <1>6, <1>9, <2>1
  <2>2. CASE ~Off(i, c.r1, Copied(c))
    <3>3. c.r1 \in Int /\ Copied(c) \in Nat
      BY CallIs, TurnsAre
    <3>1. PICK k \in 1 .. Copied(c) : Host[c.r1 + k - 1] = i
      BY <2>2, <3>3, CellCases
    <3>2. t.mem[Host[c.r1 + k - 1]] = v.mem[Host[c.r1 + k - 1]]
      BY <1>3, <1>5, <1>6
    <3> QED BY <3>1, <3>2
  <2> QED BY <2>1, <2>2
<1> QED BY <1>5, <1>6, <1>7, <1>8, <1>9, SameIs

LEMMA ServeAtOnceInv ==
  ASSUME CallsClean, IInv, ServeAtOnce
  PROVE  IInv'
<1> DEFINE p == Predict(m)
<1>1. /\ at = "jit" /\ m.pc = Vector /\ p.ok /\ m' = Applied(m, p) /\ ref' = RefSteps(Turns + 2).x
      /\ at' = at /\ budget' = budget
  BY DEF ServeAtOnce, Called, Fits, RefRuns
<1>2. Same(m, ref) /\ Proto(m) /\ Proto(ref) /\ m \in Machine /\ ref \in Machine /\ m.pc = ref.pc
  BY <1>1, AwayIs DEF IInv
<1>3. Roomy(m) /\ Roomy(ref) /\ Seated(m)
  BY <1>1, <1>2, AskingIs, SeatsAre
<1>4. PICK c \in AllCalls : Asked(m, c)
  BY <1>1, <1>2, AskingIs
<1>5. Clean(c)
  BY DEF CallsClean, AllCalls
<1>6. Asked(ref, c)
  BY <1>2, <1>4 DEF Same, Asked
<1>7. Turns = TurnsOf(c)
  <2>1. m.num = c.num /\ m.r[0] = c.r0 /\ m.r[2] = c.r2
    BY <1>4 DEF Asked
  <2>2. ~Early(m)
    BY <1>5, <2>1, CleanIs DEF Early
  <2> QED BY <2>1, <2>2 DEF Turns, TurnsOf
<1> DEFINE N == TurnsOf(c) + 2
<1>8. N \in Nat
  BY TurnsAre
<1>9. PICK g : Steps(g, ref, N, pending) /\ RefSteps(N).x = g[N]
  <2> HIDE DEF N
  <2> QED BY <1>8, RefStepsAre
<1>10. Proto(g[N])
  <2> HIDE DEF N
  <2> QED BY <1>2, <1>8, <1>9, StepsProto
<1>11. Ended(ref, c, g[N])
  BY <1>1, <1>2, <1>3, <1>6, <1>9, CallAfter
<1>12. Ended(m, c, Applied(m, p))
  <2>1. Leaves(p, R0After(m, c), R1After(c))
    BY <1>1, <1>4, <1>5, PredictIs
  <2> HIDE DEF p
  <2> QED BY <1>2, <1>4, <1>5, <2>1, AppliedIs
<1>13. Same(Applied(m, p), g[N])
  <2> DEFINE t == Applied(m, p)
             v == g[N]
  <2> HIDE DEF p, N, t, v
  <2>1. Same(t, v)
    BY <1>2, <1>3, <1>5, <1>11, <1>12, AfterSame DEF t, v
  <2> QED BY <2>1 DEF t, v
<1>14. m' = Applied(m, p) /\ ref' = g[N] /\ at' = "jit" /\ budget' \in Int
  BY <1>1, <1>7, <1>9 DEF IInv
<1>15. Same(m', ref') /\ Proto(ref')
  BY <1>10, <1>13, <1>14
<1> HIDE DEF p, N
<1>16. Agrees(at', m', ref')
  BY <1>14, <1>15, AgreeAway
<1> QED BY <1>14, <1>16 DEF IInv

LEMMA NextInv ==
  ASSUME CallsClean, IInv, [Next]_vars
  PROVE  IInv'
<1>1. CASE Game
  <2>1. CASE \E c \in AllCalls, thumb \in BOOLEAN : GameSwi(c, thumb)
    BY <2>1, GameSwiInv
  <2>2. CASE \E a \in IsrWrites : IsrWrite(a)
    BY <2>2, IsrWriteInv
  <2>3. CASE SlowAccess \/ \E b \in Code : RunCode(b)
    BY <2>3, IdleStepsInv
  <2>4. CASE \E irq, frame \in BOOLEAN : SliceOver(irq, frame)
    BY <2>4, EventsInv
  <2> QED BY <1>1, <2>1, <2>2, <2>3, <2>4, Zenon DEF Game, AllCalls
<1>2. CASE Services
  <2>1. CASE ServeAtOnce
    BY <2>1, ServeAtOnceInv
  <2>2. CASE Park
    BY <2>2, ParkInv
  <2>3. CASE Resume \/ Interpret \/ NextFrame
    BY <2>3, IdleStepsInv
  <2>4. CASE EnterIrq
    BY <2>4, EnterIrqInv
  <2>5. CASE LeaveIrq
    BY <2>5, LeaveIrqInv
  <2>6. CASE Batch
    BY <2>6, BatchInv
  <2>7. CASE Done
    BY <2>7, DoneInv
  <2>8. CASE InterpretStep
    BY <2>8, InterpretStepInv
  <2>9. CASE \E irq, frame \in BOOLEAN : BatchEvent(irq, frame)
    BY <2>9, BatchEventInv
  <2>10. CASE \E irq, frame \in BOOLEAN : InterpretEvent(irq, frame) \/ Return(irq, frame)
    BY <2>10, EventsInv
  <2> QED BY <1>2, <2>1, <2>2, <2>3, <2>4, <2>5, <2>6, <2>7, <2>8, <2>9, <2>10 DEF Services
<1>3. CASE \E another \in BOOLEAN : IsrEnd(another)
  BY <1>3, IsrEndInv
<1>4. CASE UNCHANGED vars
  BY <1>4 DEF IInv, vars
<1> QED BY <1>1, <1>2, <1>3, <1>4 DEF Next

-----------------------------------------------------------------------------
(* The start, and what the invariant says of the game.                      *)

LEMMA StartProto ==
  ASSUME NEW h \in Handlers
  PROVE  Start(h) \in Machine /\ Proto(Start(h))
<1> DEFINE x == Start(h)
           mem == [i \in {Host[a] : a \in DOMAIN Host} |-> IF i = Host[HandlerCell] THEN h ELSE i]
           r == [k \in Regs |-> 100 + k]
           ub == [sp |-> UserTop, lr |-> 21000, spsr |-> 0]
           sb == [sp |-> SvcTop, lr |-> 0, spsr |-> 0]
           ib == [sp |-> IrqTop, lr |-> 0, spsr |-> 0]
           bank == [usr |-> ub, svc |-> sb, irq |-> ib]
<1>1. x = [pc |-> GamePc, cpsr |-> User, num |-> 0, r |-> r, bank |-> bank, mem |-> mem]
  BY DEF Start
<1>2. h \in Int
  BY HandlersAligned DEF IsrPc
<1>3. mem \in [Held -> Int]
  BY <1>2, MemoryNumbered DEF Held
<1>4. r \in [Regs -> Int]
  BY DEF Regs
<1>5. ub \in [sp : Int, lr : Int, spsr : Int] /\ sb \in [sp : Int, lr : Int, spsr : Int]
      /\ ib \in [sp : Int, lr : Int, spsr : Int]
  BY DEF UserTop, SvcTop, IrqTop
<1> HIDE DEF ub, sb, ib
<1>6. bank \in [Banks -> [sp : Int, lr : Int, spsr : Int]]
  BY <1>5 DEF Banks
<1>7. bank["usr"] = ub /\ bank["svc"] = sb /\ bank["irq"] = ib
  OBVIOUS
<1>8. HandlerCell \in DOMAIN Host /\ Host[HandlerCell] \in Held
  BY StacksAre DEF HandlerCell
<1>9. mem[Host[HandlerCell]] = h
  BY <1>8 DEF Held
<1> HIDE DEF mem, r, bank, x
<1>10. GamePc \in Int /\ User \in Int
  BY DEF GamePc, User
<1>11. x \in Machine
  BY <1>1, <1>3, <1>4, <1>6, <1>10 DEF Machine
<1>12. Handler(x) = h
  BY <1>1, <1>9 DEF Handler, Read
<1>13. Sp(x, "usr") = UserTop /\ Sp(x, "svc") = SvcTop /\ Sp(x, "irq") = IrqTop
  BY <1>1, <1>7 DEF Sp, ub, sb, ib
<1>14. Active(x, "game", UserTop, SvcTop)
  <2>1. Bases("game", UserTop, SvcTop)
    BY DEF Bases, Levels
  <2>2. Context(x, "game", UserTop, SvcTop)
    BY <1>13 DEF Context
  <2>3. x.pc = HomeOf("game") /\ x.cpsr \in Callers("game")
    BY <1>1 DEF HomeOf, Callers
  <2>4. Idle(x, "game", UserTop, SvcTop)
    BY <1>13, <2>3 DEF Idle, Based
  <2> QED BY <2>1, <2>2, <2>4 DEF Active, Task
<1>15. Proto(x)
  BY <1>11, <1>12, <1>14 DEF Proto, Levels
<1> QED BY <1>11, <1>15 DEF x

LEMMA InitInv ==
  ASSUME Init
  PROVE  IInv
<1>1. PICK h \in Handlers : m = Start(h) /\ ref = Start(h)
  BY DEF Init
<1>2. at = "jit" /\ budget \in Int
  BY SlicesInt DEF Init
<1>3. m \in Machine /\ Proto(m) /\ ref = m
  BY <1>1, StartProto
<1>4. Same(m, ref)
  BY <1>3, SameRefl
<1>5. Agrees(at, m, ref)
  BY <1>2, <1>3, <1>4, AgreeAway
<1> QED BY <1>2, <1>5 DEF IInv

\* Alike machines look alike.
LEMMA SameSeen ==
  ASSUME NEW x, NEW y, Same(x, y)
  PROVE  Seen(x) = Seen(y)
<1>1. /\ x \in Machine /\ y \in Machine
      /\ x.pc = y.pc /\ x.cpsr = y.cpsr /\ x.num = y.num /\ x.r = y.r /\ x.bank = y.bank
      /\ \A i \in Held : i \notin Dead(x) => x.mem[i] = y.mem[i]
  BY DEF Same
<1>2. Dead(x) = Dead(y)
  BY <1>1 DEF Dead
<1>3. DOMAIN x.mem = Held /\ DOMAIN y.mem = Held
  BY <1>1 DEF Machine
<1> DEFINE p == [i \in DOMAIN x.mem \ Dead(x) |-> x.mem[i]]
           q == [i \in DOMAIN y.mem \ Dead(y) |-> y.mem[i]]
<1>4. p = q
  BY <1>1, <1>2, <1>3
<1>5. Seen(x) = [x EXCEPT !.mem = p] /\ Seen(y) = [y EXCEPT !.mem = q]
  BY DEF Seen
<1> HIDE DEF p, q
<1>6. [x EXCEPT !.mem = p] = [y EXCEPT !.mem = p]
  BY <1>1 DEF Machine
<1> QED BY <1>4, <1>5, <1>6

(* Whenever the game or its interrupt handler runs, what it can see is what *)
(* interpreting every BIOS instruction would have left, for every memory    *)
(* map, handler, slices and costs, and for all calls of mapped ranges off   *)
(* the stacks.                                                              *)
THEOREM Faithful ==
  ASSUME CallsClean
  PROVE  Spec => []SwiFaithful
<1>1. Init => IInv
  BY InitInv
<1>2. IInv /\ [Next]_vars => IInv'
  BY NextInv
<1>3. IInv => SwiFaithful
  <2> SUFFICES ASSUME IInv, at = "jit" PROVE Seen(m) = Seen(ref)
    BY DEF SwiFaithful
  <2>1. Same(m, ref)
    BY AwayIs DEF IInv
  <2> QED BY <2>1, SameSeen
<1> QED BY <1>1, <1>2, <1>3, PTL DEF Spec
=============================================================================
