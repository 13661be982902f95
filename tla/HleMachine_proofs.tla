------------------------- MODULE HleMachine_proofs -------------------------
(***************************************************************************)
(* Lemmas about the machine of the emulated BIOS services: what stores,    *)
(* the frames of a call and the rounds of its loops do to it, and when two *)
(* machines look alike to the game.                                        *)
(***************************************************************************)
EXTENDS HleBios, WellFoundedInduction, TLAPS

Held == {Host[a] : a \in DOMAIN Host}
Banks == {"usr", "svc", "irq"}
Machine == [pc : Int, cpsr : Int, num : Int, r : [Regs -> Int],
            bank : [Banks -> [sp : Int, lr : Int, spsr : Int]], mem : [Held -> Int]]

-----------------------------------------------------------------------------
(* Memory.                                                                  *)

\* The addresses a .. a + n - 1 are mapped, and no two share a cell.
Mapped(a, n) == \A i \in Span(a, n) : i \in DOMAIN Host
Plain(a, n) == Mapped(a, n) /\ \A i, j \in Span(a, n) : Host[i] = Host[j] => i = j
\* A cell outside a range.
Off(i, a, n) == \A j \in Span(a, n) : Host[j] # i

LEMMA AlterType ==
  ASSUME NEW x \in Machine
  PROVE  /\ \A v \in Int : [x EXCEPT !.pc = v] \in Machine /\ [x EXCEPT !.cpsr = v] \in Machine
         /\ \A v \in [Regs -> Int] : [x EXCEPT !.r = v] \in Machine
         /\ \A v \in [Banks -> [sp : Int, lr : Int, spsr : Int]] : [x EXCEPT !.bank = v] \in Machine
         /\ \A v \in [Held -> Int] : [x EXCEPT !.mem = v] \in Machine
BY DEF Machine

LEMMA ReadType ==
  ASSUME NEW x \in Machine, NEW a \in DOMAIN Host
  PROVE  Read(x, a) \in Int
BY DEF Machine, Read, Held

LEMMA WriteType ==
  ASSUME NEW x \in Machine, NEW a \in DOMAIN Host, NEW v \in Int
  PROVE  /\ Write(x, a, v) \in Machine
         /\ Write(x, a, v).mem = [x.mem EXCEPT ![Host[a]] = v]
         /\ Write(x, a, v) = [x EXCEPT !.mem = Write(x, a, v).mem]
         /\ \A b \in DOMAIN Host : Read(Write(x, a, v), b) = IF Host[b] = Host[a] THEN v ELSE Read(x, b)
BY DEF Machine, Write, Read, Held

\* What a store of several words leaves.
LEMMA WritesType ==
  ASSUME NEW x \in Machine, NEW a \in Int, NEW n \in Nat, Mapped(a, n), NEW vs, DOMAIN vs = 1 .. n,
         \A k \in 1 .. n : vs[k] \in Int
  PROVE  /\ Writes(x, a, vs) \in Machine
         /\ Writes(x, a, vs) = [x EXCEPT !.mem = Writes(x, a, vs).mem]
         /\ \A i \in Held : Off(i, a, n) => Writes(x, a, vs).mem[i] = x.mem[i]
         /\ Plain(a, n) => \A k \in 1 .. n : Writes(x, a, vs).mem[Host[a + k - 1]] = vs[k]
<1> DEFINE Hit(i) == \E k \in DOMAIN vs : Host[a + k - 1] = i
           Pick(i) == CHOOSE k \in DOMAIN vs : Host[a + k - 1] = i
           mem == [i \in DOMAIN x.mem |-> IF Hit(i) THEN vs[Pick(i)] ELSE x.mem[i]]
<1>1. DOMAIN x.mem = Held /\ \A i \in Held : x.mem[i] \in Int
  BY DEF Machine
<1>2. \A i : Hit(i) => Pick(i) \in 1 .. n /\ Host[a + Pick(i) - 1] = i
  OBVIOUS
<1>3. Writes(x, a, vs) = [x EXCEPT !.mem = mem]
  BY DEF Writes
<1> HIDE DEF Pick
<1>4. mem \in [Held -> Int]
  BY <1>1, <1>2
<1>5. Writes(x, a, vs).mem = mem /\ Writes(x, a, vs) \in Machine
  BY <1>3, <1>4 DEF Machine
<1>6. ASSUME NEW i \in Held, Off(i, a, n) PROVE mem[i] = x.mem[i]
  <2>1. ASSUME NEW k \in 1 .. n PROVE Host[a + k - 1] # i
    <3>1. a + k - 1 \in Span(a, n)
      BY DEF Span
    <3> QED
      BY <1>6, <3>1 DEF Off
  <2> QED
    BY <1>1, <2>1
<1>7. ASSUME Plain(a, n), NEW k \in 1 .. n PROVE mem[Host[a + k - 1]] = vs[k]
  <2>1. \A j \in 1 .. n : a + j - 1 \in Span(a, n)
    BY DEF Span
  <2>2. Host[a + k - 1] \in Held
    BY <2>1 DEF Mapped, Held
  <2>3. Hit(Host[a + k - 1])
    OBVIOUS
  <2>4. Pick(Host[a + k - 1]) = k
    <3> DEFINE p == Pick(Host[a + k - 1])
    <3>1. p \in 1 .. n /\ Host[a + p - 1] = Host[a + k - 1]
      BY <1>2, <2>3
    <3> HIDE DEF p
    <3>2. a + p - 1 = a + k - 1
      BY <1>7, <2>1, <3>1 DEF Plain
    <3> QED
      BY <3>1, <3>2 DEF p
  <2> QED
    BY <1>1, <2>2, <2>3, <2>4
<1> QED
  BY <1>3, <1>5, <1>6, <1>7

-----------------------------------------------------------------------------
(* The stacks.                                                              *)

\* A cell that holds no stack word and not the handler pointer.
OffStacks(i) == \A a \in Stacks : Host[a] # i
\* The stack pointers are where two frames of a service, and one of an
\* interrupt, can put them.
Seated(x) ==
  /\ Sp(x, "usr") \in UserTop - 8 .. UserTop
  /\ Sp(x, "svc") \in SvcTop - 8 .. SvcTop
  /\ Sp(x, "irq") \in IrqTop - 6 .. IrqTop
\* Stack addresses below the stack pointers.
Free(x) ==
  (UserTop - 8 .. Sp(x, "usr") - 1) \cup (SvcTop - 8 .. Sp(x, "svc") - 1) \cup (IrqTop - 6 .. Sp(x, "irq") - 1)

\* Two machines that code outside the BIOS cannot tell apart.
Same(x, y) ==
  /\ x \in Machine /\ y \in Machine
  /\ x.pc = y.pc /\ x.cpsr = y.cpsr /\ x.num = y.num /\ x.r = y.r /\ x.bank = y.bank
  /\ \A i \in Held : i \notin Dead(x) => x.mem[i] = y.mem[i]

LEMMA StacksAre ==
  /\ Stacks \subseteq Int
  /\ \A a \in Int : a \in Stacks <=> 1000 <= a /\ a <= 1023
  /\ \A a \in Stacks : a \in DOMAIN Host /\ Host[a] \in Held
BY StacksMapped DEF Stacks, UserTop, HandlerCell, Held

LEMMA BankType ==
  ASSUME NEW x \in Machine, NEW b \in Banks
  PROVE  Sp(x, b) \in Int /\ Lr(x, b) \in Int /\ x.bank[b].spsr \in Int
BY DEF Machine, Sp, Lr

LEMMA DeadIs ==
  ASSUME NEW x \in Machine, Seated(x)
  PROVE  /\ Free(x) \subseteq Stacks
         /\ \A a \in Stacks : Host[a] \in Dead(x) <=> a \in Free(x)
         /\ \A i : OffStacks(i) => i \notin Dead(x)
<1>1. Dead(x) = {Host[a] : a \in Free(x)}
  BY DEF Dead, Free, Sp
<1>2. Sp(x, "usr") \in Int /\ Sp(x, "svc") \in Int /\ Sp(x, "irq") \in Int
  BY BankType DEF Banks
<1>3. Free(x) \subseteq Stacks
  BY <1>2, StacksAre DEF Free, Seated, UserTop, SvcTop, IrqTop
<1>4. ASSUME NEW a \in Stacks PROVE Host[a] \in Dead(x) <=> a \in Free(x)
  BY <1>1, <1>3, StacksMapped
<1>5. ASSUME NEW i, OffStacks(i) PROVE i \notin Dead(x)
  BY <1>1, <1>3, <1>5 DEF OffStacks
<1> QED
  BY <1>3, <1>4, <1>5

\* A cell is a stack word or off the stacks, so these say all of a memory.
LEMMA MemoryIs ==
  ASSUME NEW x \in Machine, NEW y \in Machine, \A a \in Stacks : Read(x, a) = Read(y, a),
         \A i \in Held : OffStacks(i) => x.mem[i] = y.mem[i]
  PROVE  x.mem = y.mem
<1>1. ASSUME NEW i \in Held PROVE x.mem[i] = y.mem[i]
  BY DEF OffStacks, Read
<1> QED
  BY <1>1 DEF Machine

LEMMA SameIs ==
  ASSUME NEW x \in Machine, NEW y \in Machine, Seated(x), x.pc = y.pc, x.cpsr = y.cpsr, x.num = y.num,
         x.r = y.r, x.bank = y.bank, \A a \in Stacks : a \notin Free(x) => Read(x, a) = Read(y, a),
         \A i \in Held : OffStacks(i) => x.mem[i] = y.mem[i]
  PROVE  Same(x, y)
<1>1. ASSUME NEW i \in Held, i \notin Dead(x) PROVE x.mem[i] = y.mem[i]
  <2>1. CASE OffStacks(i)
    BY <2>1
  <2>2. CASE ~OffStacks(i)
    <3>1. PICK a \in Stacks : Host[a] = i
      BY <2>2 DEF OffStacks
    <3>2. a \notin Free(x)
      BY <1>1, <3>1, DeadIs
    <3> QED
      BY <3>1, <3>2 DEF Read
  <2> QED
    BY <2>1, <2>2
<1> QED
  BY <1>1 DEF Same

LEMMA SameGives ==
  ASSUME NEW x, NEW y, Same(x, y), Seated(x)
  PROVE  /\ Seated(y) /\ Free(y) = Free(x)
         /\ \A a \in Stacks : a \notin Free(x) => Read(x, a) = Read(y, a)
         /\ \A i \in Held : OffStacks(i) => x.mem[i] = y.mem[i]
         /\ \A a \in DOMAIN Host : OffStacks(Host[a]) => Read(x, a) = Read(y, a)
<1>1. Seated(y) /\ Free(y) = Free(x)
  BY DEF Same, Seated, Free, Sp
<1>2. x \in Machine
  BY DEF Same
<1>3. ASSUME NEW a \in Stacks, a \notin Free(x) PROVE Read(x, a) = Read(y, a)
  <2>1. Host[a] \in Held /\ Host[a] \notin Dead(x)
    BY <1>2, <1>3, StacksAre, DeadIs
  <2> QED
    BY <2>1 DEF Same, Read
<1>4. ASSUME NEW i \in Held, OffStacks(i) PROVE x.mem[i] = y.mem[i]
  <2>1. i \notin Dead(x)
    BY <1>2, <1>4, DeadIs
  <2> QED
    BY <2>1 DEF Same
<1>5. \A a \in DOMAIN Host : Host[a] \in Held
  BY DEF Held
<1> QED
  BY <1>1, <1>3, <1>4, <1>5 DEF Read

LEMMA SameWrites ==
  ASSUME NEW x, NEW y, Same(x, y), NEW a \in Int, NEW n \in Nat, Mapped(a, n), NEW vs, DOMAIN vs = 1 .. n,
         \A k \in 1 .. n : vs[k] \in Int
  PROVE  Same(Writes(x, a, vs), Writes(y, a, vs))
<1>1. x \in Machine /\ y \in Machine /\ DOMAIN x.mem = Held /\ DOMAIN y.mem = Held
  BY DEF Same, Machine
<1>2. /\ Writes(x, a, vs) \in Machine /\ Writes(x, a, vs) = [x EXCEPT !.mem = Writes(x, a, vs).mem]
      /\ Writes(y, a, vs) \in Machine /\ Writes(y, a, vs) = [y EXCEPT !.mem = Writes(y, a, vs).mem]
  BY <1>1, WritesType
<1>3. \A i \in Held : x.mem[i] = y.mem[i] => Writes(x, a, vs).mem[i] = Writes(y, a, vs).mem[i]
  BY <1>1 DEF Writes, Machine
<1>4. Dead(Writes(x, a, vs)) = Dead(x)
  BY <1>2 DEF Dead, Machine
<1> QED
  BY <1>2, <1>3, <1>4 DEF Same, Machine

LEMMA SameWrite ==
  ASSUME NEW x, NEW y, Same(x, y), NEW a \in DOMAIN Host, NEW v \in Int
  PROVE  Same(Write(x, a, v), Write(y, a, v))
<1>1. x \in Machine /\ y \in Machine
  BY DEF Same
<1>2. Dead(Write(x, a, v)) = Dead(x)
  BY <1>1 DEF Dead, Machine, Write
<1> QED
  BY <1>1, <1>2, WriteType DEF Same, Machine, Write, Held

\* t is x with the words vs pushed on the stack of mode b.
Pushes(x, t, b, n, vs) ==
  LET s == Sp(x, b) - n IN
  /\ t \in Machine /\ t.pc = x.pc /\ t.cpsr = x.cpsr /\ t.num = x.num /\ t.r = x.r
  /\ t.bank = [x.bank EXCEPT ![b].sp = s]
  /\ \A k \in 1 .. n : Read(t, s + k - 1) = vs[k]
  /\ \A a \in Stacks : (a < s \/ a >= s + n) => Read(t, a) = Read(x, a)
  /\ \A i \in Held : OffStacks(i) => t.mem[i] = x.mem[i]

LEMMA PushedIs ==
  ASSUME NEW x \in Machine, NEW b \in Banks, NEW n \in Nat, NEW vs, DOMAIN vs = 1 .. n, Len(vs) = n,
         \A k \in 1 .. n : vs[k] \in Int, Sp(x, b) - n >= 1000, Sp(x, b) <= 1022
  PROVE  Pushes(x, Pushed(x, b, vs), b, n, vs)
<1> DEFINE s == Sp(x, b) - n
           w == Writes(x, s, vs)
           t == Pushed(x, b, vs)
<1>1. s \in Int /\ Span(s, n) \subseteq Stacks
  BY BankType, StacksAre DEF Span
<1>b. s = Sp(x, b) - n
  OBVIOUS
<1>c. w = Writes(x, s, vs)
  OBVIOUS
<1> HIDE DEF w, s
<1>2. Plain(s, n) /\ Mapped(s, n)
  BY <1>1, StacksMapped DEF Plain, Mapped
<1>a. t = [w EXCEPT !.bank[b].sp = @ - n]
  BY DEF Pushed, w, s
<1> HIDE DEF t
<1>3. /\ w \in Machine /\ w = [x EXCEPT !.mem = w.mem]
      /\ \A i \in Held : Off(i, s, n) => w.mem[i] = x.mem[i]
      /\ \A k \in 1 .. n : w.mem[Host[s + k - 1]] = vs[k]
  BY <1>1, <1>2, <1>c, WritesType
<1>4. w.bank = x.bank /\ w.pc = x.pc /\ w.cpsr = x.cpsr /\ w.num = x.num /\ w.r = x.r
  BY <1>3 DEF Machine
<1>5. /\ t \in Machine /\ t.pc = x.pc /\ t.cpsr = x.cpsr /\ t.num = x.num /\ t.r = x.r
      /\ t.bank = [x.bank EXCEPT ![b].sp = s] /\ t.mem = w.mem
  <2>1. t.bank = [x.bank EXCEPT ![b].sp = s]
    BY <1>a, <1>b, <1>3, <1>4 DEF Machine, Sp
  <2>2. t = [w EXCEPT !.bank = [x.bank EXCEPT ![b].sp = s]]
    BY <1>a, <1>b, <1>3, <1>4 DEF Machine, Sp
  <2>3. [x.bank EXCEPT ![b].sp = s] \in [Banks -> [sp : Int, lr : Int, spsr : Int]]
    <3>1. x.bank \in [Banks -> [sp : Int, lr : Int, spsr : Int]]
      BY DEF Machine
    <3>2. [x.bank[b] EXCEPT !.sp = s] \in [sp : Int, lr : Int, spsr : Int]
      BY <1>1, <3>1
    <3> QED
      BY <3>1, <3>2
  <2>4. w.mem \in [Held -> Int] /\ w.pc \in Int /\ w.cpsr \in Int /\ w.num \in Int /\ w.r \in [Regs -> Int]
    BY <1>3 DEF Machine
  <2>5. t = [w EXCEPT !.bank = t.bank]
    BY <2>1, <2>2
  <2>6. t \in Machine
    <3>1. t.bank \in [Banks -> [sp : Int, lr : Int, spsr : Int]]
      BY <2>1, <2>3
    <3> QED
      BY <1>3, <2>5, <3>1, AlterType
  <2> DEFINE bk == t.bank
  <2>7. t = [w EXCEPT !.bank = bk] /\ bk = [x.bank EXCEPT ![b].sp = s]
    BY <2>1, <2>5
  <2>8. w \in Machine
    BY <1>3
  <2> HIDE DEF bk, t, w
  <2>9. t.pc = w.pc /\ t.cpsr = w.cpsr /\ t.num = w.num /\ t.r = w.r /\ t.bank = bk /\ t.mem = w.mem
    BY <2>7, <2>8 DEF Machine
  <2> QED
    BY <1>4, <2>6, <2>7, <2>9
<1>6. ASSUME NEW a \in Stacks, a \notin Span(s, n) PROVE Off(Host[a], s, n)
  BY <1>1, <1>6, StacksMapped DEF Off
<1>7. ASSUME NEW i \in Held, OffStacks(i) PROVE Off(i, s, n)
  BY <1>1, <1>7 DEF Off, OffStacks
<1>8. \A a \in Stacks : a < s \/ a >= s + n => Off(Host[a], s, n)
  BY <1>1, <1>6, StacksAre DEF Span
<1>9. /\ \A k \in 1 .. n : Read(t, s + k - 1) = vs[k]
      /\ \A a \in Stacks : (a < s \/ a >= s + n) => Read(t, a) = Read(x, a)
      /\ \A i \in Held : OffStacks(i) => t.mem[i] = x.mem[i]
  BY <1>3, <1>5, <1>7, <1>8, StacksAre DEF Read
<1> QED
  BY <1>5, <1>9, <1>b DEF Pushes, t

-----------------------------------------------------------------------------
(* The frames of a call.                                                    *)

SysOf(x) == (IF Masked(x.bank["svc"].spsr) THEN IrqOff ELSE 0) + System
\* Room for a call's frames.
Roomy(x) ==
  /\ Sp(x, "usr") \in {UserTop, UserTop - 4} /\ Sp(x, "svc") \in {SvcTop, SvcTop - 4}
  /\ Sp(x, "irq") \in {IrqTop, IrqTop - 6}
InFrames(x, a) == a \in Span(Sp(x, "usr") - 4, 4) \cup Span(Sp(x, "svc") - 4, 4)
\* The frames of the dispatcher and the routine are on the stacks of t; its
\* registers are the caller's but for r11 and r12.
Opened(x, t) ==
  LET u == Sp(x, "usr")  s == Sp(x, "svc") IN
  /\ t \in Machine /\ t.pc = x.pc /\ t.num = x.num /\ t.cpsr = SysOf(x)
  /\ t.bank = [x.bank EXCEPT !["usr"] = [sp |-> u - 4, lr |-> SwiReturn, spsr |-> x.bank["usr"].spsr],
                             !["svc"] = [sp |-> s - 4, lr |-> Lr(x, "svc"), spsr |-> x.bank["svc"].spsr]]
  /\ \A k \in Regs : k # 12 => t.r[k] = IF k = 11 THEN SysOf(x) ELSE x.r[k]
  /\ Read(t, s - 4) = x.bank["svc"].spsr /\ Read(t, s - 3) = x.r[11] /\ Read(t, s - 2) = x.r[12]
  /\ Read(t, s - 1) = Lr(x, "svc")
  /\ Read(t, u - 4) = x.r[4] /\ Read(t, u - 3) = x.r[2] /\ Read(t, u - 2) = x.r[3]
  /\ Read(t, u - 1) = Lr(x, "usr")
  /\ \A a \in Stacks : ~InFrames(x, a) => Read(t, a) = Read(x, a)
  /\ \A i \in Held : OffStacks(i) => t.mem[i] = x.mem[i]

LEMMA RegType ==
  ASSUME NEW x \in Machine
  PROVE  /\ \A k \in Regs : x.r[k] \in Int
         /\ x.r[0] \in Int /\ x.r[1] \in Int /\ x.r[2] \in Int /\ x.r[3] \in Int
         /\ x.r[4] \in Int /\ x.r[11] \in Int /\ x.r[12] \in Int
BY DEF Machine, Regs

LEMMA SysType ==
  ASSUME NEW x \in Machine
  PROVE  SysOf(x) \in {System, System + IrqOff}
BY DEF SysOf, System, IrqOff

LEMMA PushOne ==
  ASSUME NEW x \in Machine, NEW b \in Banks, NEW vs, DOMAIN vs = 1 .. 1, Len(vs) = 1,
         vs[1] \in Int,
         Sp(x, b) - 1 >= 1000, Sp(x, b) <= 1022
  PROVE  LET t == Pushed(x, b, vs)  s == Sp(x, b) IN
         /\ t \in Machine /\ t.pc = x.pc /\ t.cpsr = x.cpsr /\ t.num = x.num /\ t.r = x.r
         /\ t.bank = [x.bank EXCEPT ![b].sp = s - 1]
         /\ Read(t, s - 1) = vs[1]
         /\ \A a \in Stacks : (a < s - 1 \/ a >= s) => Read(t, a) = Read(x, a)
         /\ \A i \in Held : OffStacks(i) => t.mem[i] = x.mem[i]
<1> DEFINE t == Pushed(x, b, vs)
           s == Sp(x, b)
<1>1. \A k \in 1 .. 1 : vs[k] \in Int
  OBVIOUS
<1>2. s \in Int
  BY BankType
<1>3. (s - 1) + 1 - 1 = s - 1 /\ (s - 1) + 1 = s
  BY <1>2
<1>4. Pushes(x, t, b, 1, vs)
  BY <1>1, PushedIs
<1> HIDE DEF t
<1>5. /\ t \in Machine /\ t.pc = x.pc /\ t.cpsr = x.cpsr /\ t.num = x.num /\ t.r = x.r
      /\ t.bank = [x.bank EXCEPT ![b].sp = s - 1]
      /\ Read(t, s - 1) = vs[1]
      /\ \A a \in Stacks : (a < s - 1 \/ a >= s) => Read(t, a) = Read(x, a)
      /\ \A i \in Held : OffStacks(i) => t.mem[i] = x.mem[i]
  BY <1>3, <1>4 DEF Pushes
<1> QED
  BY <1>5 DEF t

LEMMA PushThree ==
  ASSUME NEW x \in Machine, NEW b \in Banks, NEW vs, DOMAIN vs = 1 .. 3, Len(vs) = 3,
         vs[1] \in Int /\ vs[2] \in Int /\ vs[3] \in Int,
         Sp(x, b) - 3 >= 1000, Sp(x, b) <= 1022
  PROVE  LET t == Pushed(x, b, vs)  s == Sp(x, b) IN
         /\ t \in Machine /\ t.pc = x.pc /\ t.cpsr = x.cpsr /\ t.num = x.num /\ t.r = x.r
         /\ t.bank = [x.bank EXCEPT ![b].sp = s - 3]
         /\ Read(t, s - 3) = vs[1] /\ Read(t, s - 2) = vs[2] /\ Read(t, s - 1) = vs[3]
         /\ \A a \in Stacks : (a < s - 3 \/ a >= s) => Read(t, a) = Read(x, a)
         /\ \A i \in Held : OffStacks(i) => t.mem[i] = x.mem[i]
<1> DEFINE t == Pushed(x, b, vs)
           s == Sp(x, b)
<1>1. \A k \in 1 .. 3 : vs[k] \in Int
  OBVIOUS
<1>2. s \in Int
  BY BankType
<1>3. (s - 3) + 1 - 1 = s - 3 /\ (s - 3) + 2 - 1 = s - 2 /\ (s - 3) + 3 - 1 = s - 1 /\ (s - 3) + 3 = s
  BY <1>2
<1>4. Pushes(x, t, b, 3, vs)
  BY <1>1, PushedIs
<1> HIDE DEF t
<1>5. /\ t \in Machine /\ t.pc = x.pc /\ t.cpsr = x.cpsr /\ t.num = x.num /\ t.r = x.r
      /\ t.bank = [x.bank EXCEPT ![b].sp = s - 3]
      /\ Read(t, s - 3) = vs[1] /\ Read(t, s - 2) = vs[2] /\ Read(t, s - 1) = vs[3]
      /\ \A a \in Stacks : (a < s - 3 \/ a >= s) => Read(t, a) = Read(x, a)
      /\ \A i \in Held : OffStacks(i) => t.mem[i] = x.mem[i]
  BY <1>3, <1>4 DEF Pushes
<1> QED
  BY <1>5 DEF t

LEMMA PushFour ==
  ASSUME NEW x \in Machine, NEW b \in Banks, NEW vs, DOMAIN vs = 1 .. 4, Len(vs) = 4,
         vs[1] \in Int /\ vs[2] \in Int /\ vs[3] \in Int /\ vs[4] \in Int,
         Sp(x, b) - 4 >= 1000, Sp(x, b) <= 1022
  PROVE  LET t == Pushed(x, b, vs)  s == Sp(x, b) IN
         /\ t \in Machine /\ t.pc = x.pc /\ t.cpsr = x.cpsr /\ t.num = x.num /\ t.r = x.r
         /\ t.bank = [x.bank EXCEPT ![b].sp = s - 4]
         /\ Read(t, s - 4) = vs[1] /\ Read(t, s - 3) = vs[2] /\ Read(t, s - 2) = vs[3] /\ Read(t, s - 1) = vs[4]
         /\ \A a \in Stacks : (a < s - 4 \/ a >= s) => Read(t, a) = Read(x, a)
         /\ \A i \in Held : OffStacks(i) => t.mem[i] = x.mem[i]
<1> DEFINE t == Pushed(x, b, vs)
           s == Sp(x, b)
<1>1. \A k \in 1 .. 4 : vs[k] \in Int
  OBVIOUS
<1>2. s \in Int
  BY BankType
<1>3. (s - 4) + 1 - 1 = s - 4 /\ (s - 4) + 2 - 1 = s - 3 /\ (s - 4) + 3 - 1 = s - 2 /\ (s - 4) + 4 - 1 = s - 1 /\ (s - 4) + 4 = s
  BY <1>2
<1>4. Pushes(x, t, b, 4, vs)
  BY <1>1, PushedIs
<1> HIDE DEF t
<1>5. /\ t \in Machine /\ t.pc = x.pc /\ t.cpsr = x.cpsr /\ t.num = x.num /\ t.r = x.r
      /\ t.bank = [x.bank EXCEPT ![b].sp = s - 4]
      /\ Read(t, s - 4) = vs[1] /\ Read(t, s - 3) = vs[2] /\ Read(t, s - 2) = vs[3] /\ Read(t, s - 1) = vs[4]
      /\ \A a \in Stacks : (a < s - 4 \/ a >= s) => Read(t, a) = Read(x, a)
      /\ \A i \in Held : OffStacks(i) => t.mem[i] = x.mem[i]
  BY <1>3, <1>4 DEF Pushes
<1> QED
  BY <1>5 DEF t

FourOn(x, b, vs, t) ==
  LET s == Sp(x, b) IN
  /\ t \in Machine /\ t.pc = x.pc /\ t.cpsr = x.cpsr /\ t.num = x.num /\ t.r = x.r
  /\ t.bank = [x.bank EXCEPT ![b].sp = s - 4]
  /\ Read(t, s - 4) = vs[1] /\ Read(t, s - 3) = vs[2] /\ Read(t, s - 2) = vs[3] /\ Read(t, s - 1) = vs[4]
  /\ \A a \in Stacks : (a < s - 4 \/ a >= s) => Read(t, a) = Read(x, a)
  /\ \A i \in Held : OffStacks(i) => t.mem[i] = x.mem[i]
LEMMA PushFourOn ==
  ASSUME NEW x \in Machine, NEW b \in Banks, NEW vs, DOMAIN vs = 1 .. 4, Len(vs) = 4,
         vs[1] \in Int /\ vs[2] \in Int /\ vs[3] \in Int /\ vs[4] \in Int,
         Sp(x, b) - 4 >= 1000, Sp(x, b) <= 1022
  PROVE  FourOn(x, b, vs, Pushed(x, b, vs))
BY PushFour DEF FourOn

LEMMA PushSix ==
  ASSUME NEW x \in Machine, NEW b \in Banks, NEW vs, DOMAIN vs = 1 .. 6, Len(vs) = 6,
         vs[1] \in Int /\ vs[2] \in Int /\ vs[3] \in Int /\ vs[4] \in Int /\ vs[5] \in Int /\ vs[6] \in Int,
         Sp(x, b) - 6 >= 1000, Sp(x, b) <= 1022
  PROVE  LET t == Pushed(x, b, vs)  s == Sp(x, b) IN
         /\ t \in Machine /\ t.pc = x.pc /\ t.cpsr = x.cpsr /\ t.num = x.num /\ t.r = x.r
         /\ t.bank = [x.bank EXCEPT ![b].sp = s - 6]
         /\ Read(t, s - 6) = vs[1] /\ Read(t, s - 5) = vs[2] /\ Read(t, s - 4) = vs[3] /\ Read(t, s - 3) = vs[4] /\ Read(t, s - 2) = vs[5] /\ Read(t, s - 1) = vs[6]
         /\ \A a \in Stacks : (a < s - 6 \/ a >= s) => Read(t, a) = Read(x, a)
         /\ \A i \in Held : OffStacks(i) => t.mem[i] = x.mem[i]
<1> DEFINE t == Pushed(x, b, vs)
           s == Sp(x, b)
<1>1. \A k \in 1 .. 6 : vs[k] \in Int
  OBVIOUS
<1>2. s \in Int
  BY BankType
<1>3. (s - 6) + 1 - 1 = s - 6 /\ (s - 6) + 2 - 1 = s - 5 /\ (s - 6) + 3 - 1 = s - 4 /\ (s - 6) + 4 - 1 = s - 3 /\ (s - 6) + 5 - 1 = s - 2 /\ (s - 6) + 6 - 1 = s - 1 /\ (s - 6) + 6 = s
  BY <1>2
<1>4. Pushes(x, t, b, 6, vs)
  BY <1>1, PushedIs
<1> HIDE DEF t
<1>5. /\ t \in Machine /\ t.pc = x.pc /\ t.cpsr = x.cpsr /\ t.num = x.num /\ t.r = x.r
      /\ t.bank = [x.bank EXCEPT ![b].sp = s - 6]
      /\ Read(t, s - 6) = vs[1] /\ Read(t, s - 5) = vs[2] /\ Read(t, s - 4) = vs[3] /\ Read(t, s - 3) = vs[4] /\ Read(t, s - 2) = vs[5] /\ Read(t, s - 1) = vs[6]
      /\ \A a \in Stacks : (a < s - 6 \/ a >= s) => Read(t, a) = Read(x, a)
      /\ \A i \in Held : OffStacks(i) => t.mem[i] = x.mem[i]
  BY <1>3, <1>4 DEF Pushes
<1> QED
  BY <1>5 DEF t

SixOn(x, b, vs, t) ==
  LET s == Sp(x, b) IN
  /\ t \in Machine /\ t.pc = x.pc /\ t.cpsr = x.cpsr /\ t.num = x.num /\ t.r = x.r
  /\ t.bank = [x.bank EXCEPT ![b].sp = s - 6]
  /\ Read(t, s - 6) = vs[1] /\ Read(t, s - 5) = vs[2] /\ Read(t, s - 4) = vs[3] /\ Read(t, s - 3) = vs[4]
  /\ Read(t, s - 2) = vs[5] /\ Read(t, s - 1) = vs[6]
  /\ \A a \in Stacks : (a < s - 6 \/ a >= s) => Read(t, a) = Read(x, a)
  /\ \A i \in Held : OffStacks(i) => t.mem[i] = x.mem[i]
LEMMA PushSixOn ==
  ASSUME NEW x \in Machine, NEW b \in Banks, NEW vs, DOMAIN vs = 1 .. 6, Len(vs) = 6,
         vs[1] \in Int /\ vs[2] \in Int /\ vs[3] \in Int /\ vs[4] \in Int /\ vs[5] \in Int /\ vs[6] \in Int,
         Sp(x, b) - 6 >= 1000, Sp(x, b) <= 1022
  PROVE  SixOn(x, b, vs, Pushed(x, b, vs))
BY PushSix DEF SixOn

\* The frames, whichever order their words are pushed in.
LEMMA DispatchedIs ==
  ASSUME NEW x \in Machine, Roomy(x), NEW routine \in Int
  PROVE  Opened(x, Dispatched(x, routine)) /\ Dispatched(x, routine).r[12] = routine
<1> DEFINE u == Sp(x, "usr")
           s == Sp(x, "svc")
           a == Pushed(x, "svc", <<x.r[11], x.r[12], Lr(x, "svc")>>)
           b == Pushed(a, "svc", <<x.bank["svc"].spsr>>)
           c == Pushed(b, "usr", <<x.r[2], x.r[3], Lr(x, "usr")>>)
           d == Pushed(c, "usr", <<x.r[4]>>)
           t == Dispatched(x, routine)
<1>1. u \in {1008, 1004} /\ s \in {1016, 1012} /\ u \in Int /\ s \in Int
  BY DEF Roomy, UserTop, SvcTop
<1>2. /\ \A k \in Banks : x.bank[k] \in [sp : Int, lr : Int, spsr : Int]
      /\ "usr" \in Banks /\ "svc" \in Banks /\ DOMAIN x.bank = Banks
  BY DEF Machine, Banks
<1>3. Lr(x, "svc") \in Int /\ Lr(x, "usr") \in Int /\ x.bank["svc"].spsr \in Int
  BY BankType DEF Banks
<1>4. /\ a \in Machine /\ a.pc = x.pc /\ a.num = x.num /\ a.r = x.r
      /\ a.bank = [x.bank EXCEPT !["svc"].sp = s - 3]
      /\ Read(a, s - 3) = x.r[11] /\ Read(a, s - 2) = x.r[12] /\ Read(a, s - 1) = Lr(x, "svc")
      /\ \A e \in Stacks : (e < s - 3 \/ e >= s) => Read(a, e) = Read(x, e)
      /\ \A i \in Held : OffStacks(i) => a.mem[i] = x.mem[i]
  <2> DEFINE vs == <<x.r[11], x.r[12], Lr(x, "svc")>>
  <2>1. DOMAIN vs = 1 .. 3 /\ Len(vs) = 3 /\ vs[1] = x.r[11] /\ vs[2] = x.r[12] /\ vs[3] = Lr(x, "svc")
    OBVIOUS
  <2>2. vs[1] \in Int /\ vs[2] \in Int /\ vs[3] \in Int
    BY <1>3, <2>1, RegType
  <2>3. a = Pushed(x, "svc", vs)
    OBVIOUS
  <2> HIDE DEF vs, a
  <2>4. "svc" \in Banks /\ s - 3 >= 1000 /\ s <= 1022
    BY <1>1, <1>2
  <2> QED
    BY <2>1, <2>2, <2>3, <2>4, PushThree
<1>5. t = [d EXCEPT !.cpsr = SysOf(x), !.r[11] = SysOf(x), !.r[12] = routine, !.bank["usr"].lr = SwiReturn]
  BY DEF Dispatched, SysOf
<1> HIDE DEF a, t
<1>6. Sp(a, "svc") = s - 3
  BY <1>2, <1>4 DEF Sp
<1>7. /\ b \in Machine /\ b.pc = x.pc /\ b.num = x.num /\ b.r = x.r
      /\ b.bank = [x.bank EXCEPT !["svc"].sp = s - 4]
      /\ Read(b, s - 4) = x.bank["svc"].spsr
      /\ \A e \in Stacks : (e < s - 4 \/ e >= s - 3) => Read(b, e) = Read(a, e)
      /\ \A i \in Held : OffStacks(i) => b.mem[i] = a.mem[i]
  <2>1. /\ b \in Machine /\ b.pc = a.pc /\ b.num = a.num /\ b.r = a.r
        /\ b.bank = [a.bank EXCEPT !["svc"].sp = s - 3 - 1]
        /\ Read(b, s - 3 - 1) = x.bank["svc"].spsr
        /\ \A e \in Stacks : (e < s - 3 - 1 \/ e >= s - 3) => Read(b, e) = Read(a, e)
        /\ \A i \in Held : OffStacks(i) => b.mem[i] = a.mem[i]
    <3> DEFINE vs == <<x.bank["svc"].spsr>>
    <3>1. "svc" \in Banks /\ a \in Machine /\ Sp(a, "svc") - 1 >= 1000 /\ Sp(a, "svc") <= 1022
      BY <1>1, <1>2, <1>4, <1>6
    <3>2. DOMAIN vs = 1 .. 1 /\ Len(vs) = 1 /\ vs[1] = x.bank["svc"].spsr /\ vs[1] \in Int
      BY <1>3
    <3>3. b = Pushed(a, "svc", vs)
      OBVIOUS
    <3> HIDE DEF s, vs, b
    <3> QED
      BY <1>6, <3>1, <3>2, <3>3, PushOne
  <2>2. s - 3 - 1 = s - 4
    BY <1>1
  <2> HIDE DEF b, s
  <2>3. [a.bank EXCEPT !["svc"].sp = s - 4] = [x.bank EXCEPT !["svc"].sp = s - 4]
    BY <1>2, <1>4
  <2> QED
    BY <1>4, <2>1, <2>2, <2>3
<1> HIDE DEF b
<1>8. Sp(b, "usr") = u
  BY <1>2, <1>7 DEF Sp
<1>9. /\ c \in Machine /\ c.pc = x.pc /\ c.num = x.num /\ c.r = x.r
      /\ c.bank = [b.bank EXCEPT !["usr"].sp = u - 3]
      /\ Read(c, u - 3) = x.r[2] /\ Read(c, u - 2) = x.r[3] /\ Read(c, u - 1) = Lr(x, "usr")
      /\ \A e \in Stacks : (e < u - 3 \/ e >= u) => Read(c, e) = Read(b, e)
      /\ \A i \in Held : OffStacks(i) => c.mem[i] = b.mem[i]
  <2>1. "usr" \in Banks /\ x.r[2] \in Int /\ x.r[3] \in Int /\ Sp(b, "usr") - 3 >= 1000 /\ Sp(b, "usr") <= 1022
    BY <1>1, <1>2, <1>8, RegType
  <2> HIDE DEF u
  <2> DEFINE e1 == x.r[2]
             e2 == x.r[3]
             w == Sp(b, "usr")
  <2>2. /\ c \in Machine /\ c.pc = b.pc /\ c.num = b.num /\ c.r = b.r
        /\ c.bank = [b.bank EXCEPT !["usr"].sp = w - 3]
        /\ Read(c, w - 3) = e1 /\ Read(c, w - 2) = e2 /\ Read(c, w - 1) = Lr(x, "usr")
        /\ \A e \in Stacks : (e < w - 3 \/ e >= w) => Read(c, e) = Read(b, e)
        /\ \A i \in Held : OffStacks(i) => c.mem[i] = b.mem[i]
    <3> DEFINE vs == <<x.r[2], x.r[3], Lr(x, "usr")>>
    <3>1. b \in Machine /\ "usr" \in Banks /\ w - 3 >= 1000 /\ w <= 1022
      BY <1>7, <2>1
    <3>2. /\ DOMAIN vs = 1 .. 3 /\ Len(vs) = 3 /\ vs[1] = e1 /\ vs[2] = e2 /\ vs[3] = Lr(x, "usr")
          /\ vs[1] \in Int /\ vs[2] \in Int /\ vs[3] \in Int
      BY <1>3, <2>1
    <3>3. c = Pushed(b, "usr", vs)
      OBVIOUS
    <3> HIDE DEF c, e1, e2, vs
    <3> QED
      BY <3>1, <3>2, <3>3, PushThree
  <2> QED
    BY <1>7, <1>8, <2>2
<1> HIDE DEF c
<1>10. Sp(c, "usr") = u - 3
  BY <1>2, <1>7, <1>9 DEF Sp
<1>11. /\ d \in Machine /\ d.pc = x.pc /\ d.num = x.num /\ d.r = x.r
       /\ d.bank = [c.bank EXCEPT !["usr"].sp = u - 4]
       /\ Read(d, u - 4) = x.r[4]
       /\ \A e \in Stacks : (e < u - 4 \/ e >= u - 3) => Read(d, e) = Read(c, e)
       /\ \A i \in Held : OffStacks(i) => d.mem[i] = c.mem[i]
  <2>1. /\ d \in Machine /\ d.pc = c.pc /\ d.num = c.num /\ d.r = c.r
        /\ d.bank = [c.bank EXCEPT !["usr"].sp = u - 3 - 1]
        /\ Read(d, u - 3 - 1) = x.r[4]
        /\ \A e \in Stacks : (e < u - 3 - 1 \/ e >= u - 3) => Read(d, e) = Read(c, e)
        /\ \A i \in Held : OffStacks(i) => d.mem[i] = c.mem[i]
    <3>1. "usr" \in Banks /\ x.r[4] \in Int /\ Sp(c, "usr") - 1 >= 1000 /\ Sp(c, "usr") <= 1022
      BY <1>1, <1>2, <1>10, RegType
    <3> DEFINE e1 == x.r[4]
               w == Sp(c, "usr")
    <3> DEFINE vs == <<x.r[4]>>
    <3>2. /\ d = Pushed(c, "usr", vs) /\ c \in Machine
          /\ DOMAIN vs = 1 .. 1 /\ Len(vs) = 1 /\ vs[1] = e1 /\ vs[1] \in Int
      BY <1>9, <3>1
    <3> HIDE DEF d, e1, vs
    <3>3. /\ d \in Machine /\ d.pc = c.pc /\ d.num = c.num /\ d.r = c.r
          /\ d.bank = [c.bank EXCEPT !["usr"].sp = w - 1]
          /\ Read(d, w - 1) = e1
          /\ \A e \in Stacks : (e < w - 1 \/ e >= w) => Read(d, e) = Read(c, e)
          /\ \A i \in Held : OffStacks(i) => d.mem[i] = c.mem[i]
      BY <3>1, <3>2, PushOne
    <3> QED
      BY <1>10, <3>3 DEF e1
  <2>2. u - 3 - 1 = u - 4
    BY <1>1
  <2> HIDE DEF d, u
  <2> QED
    BY <1>9, <2>1, <2>2
<1> HIDE DEF d
<1>12. /\ t.bank = [x.bank EXCEPT !["usr"] = [sp |-> u - 4, lr |-> SwiReturn, spsr |-> x.bank["usr"].spsr],
                                  !["svc"] = [sp |-> s - 4, lr |-> Lr(x, "svc"), spsr |-> x.bank["svc"].spsr]]
       /\ t.pc = x.pc /\ t.num = x.num /\ t.cpsr = SysOf(x) /\ t.mem = d.mem
       /\ t.r = [x.r EXCEPT ![11] = SysOf(x), ![12] = routine]
       /\ t \in Machine
  <2>1. d.bank = [x.bank EXCEPT !["usr"] = [@ EXCEPT !.sp = u - 4], !["svc"] = [@ EXCEPT !.sp = s - 4]]
    BY <1>1, <1>2, <1>7, <1>9, <1>11
  <2>2. t = [[[d EXCEPT !.cpsr = SysOf(x)] EXCEPT !.r = [d.r EXCEPT ![11] = SysOf(x), ![12] = routine]]
             EXCEPT !.bank = [d.bank EXCEPT !["usr"].lr = SwiReturn]]
    BY <1>5, <1>11 DEF Machine
  <2>3. SysOf(x) \in Int /\ SwiReturn \in Int
    BY SysType DEF System, IrqOff, SwiReturn
  <2>4. [d.r EXCEPT ![11] = SysOf(x), ![12] = routine] \in [Regs -> Int]
    BY <1>11, <2>3 DEF Machine
  <2>5. [d.bank EXCEPT !["usr"].lr = SwiReturn] \in [Banks -> [sp : Int, lr : Int, spsr : Int]]
    <3>1. d.bank \in [Banks -> [sp : Int, lr : Int, spsr : Int]]
      BY <1>11 DEF Machine
    <3>2. \A v \in Int : [d.bank["usr"] EXCEPT !.lr = v] \in [sp : Int, lr : Int, spsr : Int]
      BY <1>2, <3>1
    <3> QED
      BY <1>2, <2>3, <3>1, <3>2
  <2>6. t \in Machine
    BY <1>11, <2>2, <2>3, <2>4, <2>5, AlterType
  <2>7. /\ t.bank = [d.bank EXCEPT !["usr"].lr = SwiReturn]
        /\ t.pc = d.pc /\ t.num = d.num /\ t.cpsr = SysOf(x) /\ t.mem = d.mem
        /\ t.r = [d.r EXCEPT ![11] = SysOf(x), ![12] = routine]
    BY <1>11, <2>2 DEF Machine
  <2>8. [d.bank EXCEPT !["usr"].lr = SwiReturn]
          = [x.bank EXCEPT !["usr"] = [sp |-> u - 4, lr |-> SwiReturn, spsr |-> x.bank["usr"].spsr],
                           !["svc"] = [sp |-> s - 4, lr |-> Lr(x, "svc"), spsr |-> x.bank["svc"].spsr]]
    BY <1>1, <1>2, <2>1 DEF Lr
  <2> QED
    BY <1>11, <2>6, <2>7, <2>8
<1>13. \A e \in Stacks : Read(t, e) = Read(d, e)
  BY <1>12 DEF Read
<1>14. /\ Read(t, s - 4) = x.bank["svc"].spsr /\ Read(t, s - 3) = x.r[11] /\ Read(t, s - 2) = x.r[12]
       /\ Read(t, s - 1) = Lr(x, "svc")
       /\ Read(t, u - 4) = x.r[4] /\ Read(t, u - 3) = x.r[2] /\ Read(t, u - 2) = x.r[3]
       /\ Read(t, u - 1) = Lr(x, "usr")
  BY <1>1, <1>4, <1>7, <1>9, <1>11, <1>13, StacksAre
<1>15. ASSUME NEW e \in Stacks, ~InFrames(x, e) PROVE Read(t, e) = Read(x, e)
  <2>1. (e < u - 4 \/ e >= u) /\ (e < s - 4 \/ e >= s)
    BY <1>1, <1>15, StacksAre DEF InFrames, Span
  <2> QED
    BY <1>1, <1>4, <1>7, <1>9, <1>11, <1>13, <2>1, StacksAre
<1>16. \A i \in Held : OffStacks(i) => t.mem[i] = x.mem[i]
  BY <1>4, <1>7, <1>9, <1>11, <1>12
<1>17. \A k \in Regs : k # 12 => t.r[k] = IF k = 11 THEN SysOf(x) ELSE x.r[k]
  BY <1>12 DEF Machine
<1>18. t.r[12] = routine
  BY <1>12 DEF Machine, Regs
<1> QED
  BY <1>12, <1>14, <1>15, <1>16, <1>17, <1>18 DEF Opened, t

\* The engine pushes the same frames and leaves r12.
LEMMA FramedIs ==
  ASSUME NEW x \in Machine, Roomy(x)
  PROVE  Opened(x, Framed(x)) /\ Framed(x).r[12] = x.r[12]
<1> DEFINE u == Sp(x, "usr")
           s == Sp(x, "svc")
           v1 == x.bank["svc"].spsr
           a == Pushed(x, "svc", <<v1, x.r[11], x.r[12], Lr(x, "svc")>>)
           b == Pushed(a, "usr", <<x.r[4], x.r[2], x.r[3], Lr(x, "usr")>>)
           t == Framed(x)
<1>1. u \in {1008, 1004} /\ s \in {1016, 1012} /\ u \in Int /\ s \in Int
  BY DEF Roomy, UserTop, SvcTop
<1>2. /\ \A k \in Banks : x.bank[k] \in [sp : Int, lr : Int, spsr : Int]
      /\ "usr" \in Banks /\ "svc" \in Banks /\ DOMAIN x.bank = Banks
  BY DEF Machine, Banks
<1>3. /\ Lr(x, "svc") \in Int /\ Lr(x, "usr") \in Int /\ v1 \in Int
      /\ x.r[11] \in Int /\ x.r[12] \in Int /\ x.r[2] \in Int /\ x.r[3] \in Int /\ x.r[4] \in Int
  BY BankType, RegType DEF Banks
<1>4. t = [b EXCEPT !.cpsr = SysOf(x), !.r[11] = SysOf(x), !.bank["usr"].lr = SwiReturn]
  BY DEF Framed, SysOf
<1>5. /\ a \in Machine /\ a.pc = x.pc /\ a.num = x.num /\ a.r = x.r
      /\ a.bank = [x.bank EXCEPT !["svc"].sp = s - 4]
      /\ Read(a, s - 4) = v1 /\ Read(a, s - 3) = x.r[11] /\ Read(a, s - 2) = x.r[12] /\ Read(a, s - 1) = Lr(x, "svc")
      /\ \A e \in Stacks : (e < s - 4 \/ e >= s) => Read(a, e) = Read(x, e)
      /\ \A i \in Held : OffStacks(i) => a.mem[i] = x.mem[i]
  <2> DEFINE vs == <<v1, x.r[11], x.r[12], Lr(x, "svc")>>
  <2>1. s - 4 >= 1000 /\ s <= 1022
    BY <1>1
  <2>2. /\ DOMAIN vs = 1 .. 4 /\ Len(vs) = 4
        /\ vs[1] = v1 /\ vs[2] = x.r[11] /\ vs[3] = x.r[12] /\ vs[4] = Lr(x, "svc")
    OBVIOUS
  <2>3. vs[1] \in Int /\ vs[2] \in Int /\ vs[3] \in Int /\ vs[4] \in Int
    BY <1>3, <2>2
  <2>4. a = Pushed(x, "svc", vs)
    OBVIOUS
  <2> HIDE DEF v1, a, vs
  <2> QED
    BY <1>2, <2>1, <2>2, <2>3, <2>4, PushFour
<1> HIDE DEF a, t
<1>6. Sp(a, "usr") = u
  BY <1>2, <1>5 DEF Sp
<1>7. /\ b \in Machine /\ b.pc = x.pc /\ b.num = x.num /\ b.r = x.r
      /\ b.bank = [a.bank EXCEPT !["usr"].sp = u - 4]
      /\ Read(b, u - 4) = x.r[4] /\ Read(b, u - 3) = x.r[2] /\ Read(b, u - 2) = x.r[3] /\ Read(b, u - 1) = Lr(x, "usr")
      /\ \A e \in Stacks : (e < u - 4 \/ e >= u) => Read(b, e) = Read(a, e)
      /\ \A i \in Held : OffStacks(i) => b.mem[i] = a.mem[i]
  <2> DEFINE w == Sp(a, "usr")
  <2>1. /\ b \in Machine /\ b.pc = a.pc /\ b.num = a.num /\ b.r = a.r
        /\ b.bank = [a.bank EXCEPT !["usr"].sp = w - 4]
        /\ Read(b, w - 4) = x.r[4] /\ Read(b, w - 3) = x.r[2] /\ Read(b, w - 2) = x.r[3] /\ Read(b, w - 1) = Lr(x, "usr")
        /\ \A e \in Stacks : (e < w - 4 \/ e >= w) => Read(b, e) = Read(a, e)
        /\ \A i \in Held : OffStacks(i) => b.mem[i] = a.mem[i]
    <3>1. w - 4 >= 1000 /\ w <= 1022
      BY <1>1, <1>6
    <3> DEFINE e1 == x.r[4]
               e2 == x.r[2]
               e3 == x.r[3]
    <3> DEFINE vs == <<x.r[4], x.r[2], x.r[3], Lr(x, "usr")>>
    <3>2. /\ DOMAIN vs = 1 .. 4 /\ Len(vs) = 4
          /\ vs[1] = e1 /\ vs[2] = e2 /\ vs[3] = e3 /\ vs[4] = Lr(x, "usr")
      OBVIOUS
    <3>4. vs[1] \in Int /\ vs[2] \in Int /\ vs[3] \in Int /\ vs[4] \in Int
      BY <1>3
    <3>5. b = Pushed(a, "usr", vs) /\ a \in Machine /\ "usr" \in Banks /\ w \in Int
      BY <1>1, <1>2, <1>5, <1>6
    <3> HIDE DEF b, e1, e2, e3, vs, w
    <3>6. w = Sp(a, "usr")
      BY DEF w
    <3>7. Sp(a, "usr") - 4 >= 1000 /\ Sp(a, "usr") <= 1022
      BY <3>1, <3>6
    <3>8. FourOn(a, "usr", vs, b)
      BY <3>2, <3>4, <3>5, <3>7, PushFourOn, Zenon
    <3>3. /\ b \in Machine /\ b.pc = a.pc /\ b.num = a.num /\ b.r = a.r
          /\ b.bank = [a.bank EXCEPT !["usr"].sp = w - 4]
          /\ Read(b, w - 4) = vs[1] /\ Read(b, w - 3) = vs[2] /\ Read(b, w - 2) = vs[3] /\ Read(b, w - 1) = vs[4]
          /\ \A e \in Stacks : (e < w - 4 \/ e >= w) => Read(b, e) = Read(a, e)
          /\ \A i \in Held : OffStacks(i) => b.mem[i] = a.mem[i]
      BY <3>6, <3>8 DEF FourOn
    <3> QED
      BY <3>2, <3>3 DEF e1, e2, e3, w
  <2> QED
    BY <1>5, <1>6, <2>1
<1> HIDE DEF b
<1>8. /\ t.bank = [x.bank EXCEPT !["usr"] = [sp |-> u - 4, lr |-> SwiReturn, spsr |-> x.bank["usr"].spsr],
                                 !["svc"] = [sp |-> s - 4, lr |-> Lr(x, "svc"), spsr |-> x.bank["svc"].spsr]]
      /\ t.pc = x.pc /\ t.num = x.num /\ t.cpsr = SysOf(x) /\ t.mem = b.mem
      /\ t.r = [x.r EXCEPT ![11] = SysOf(x)]
      /\ t \in Machine
  <2>1. b.bank = [x.bank EXCEPT !["usr"] = [@ EXCEPT !.sp = u - 4], !["svc"] = [@ EXCEPT !.sp = s - 4]]
    BY <1>1, <1>2, <1>5, <1>7
  <2>2. t = [[[b EXCEPT !.cpsr = SysOf(x)] EXCEPT !.r = [b.r EXCEPT ![11] = SysOf(x)]]
             EXCEPT !.bank = [b.bank EXCEPT !["usr"].lr = SwiReturn]]
    BY <1>4, <1>7 DEF Machine
  <2>3. SysOf(x) \in Int /\ SwiReturn \in Int
    BY SysType DEF System, IrqOff, SwiReturn
  <2>4. [b.r EXCEPT ![11] = SysOf(x)] \in [Regs -> Int]
    BY <1>7, <2>3 DEF Machine
  <2>5. [b.bank EXCEPT !["usr"].lr = SwiReturn] \in [Banks -> [sp : Int, lr : Int, spsr : Int]]
    <3>1. b.bank \in [Banks -> [sp : Int, lr : Int, spsr : Int]]
      BY <1>7 DEF Machine
    <3>2. \A v \in Int : [b.bank["usr"] EXCEPT !.lr = v] \in [sp : Int, lr : Int, spsr : Int]
      BY <1>2, <3>1
    <3> QED
      BY <1>2, <2>3, <3>1, <3>2
  <2>6. t \in Machine
    BY <1>7, <2>2, <2>3, <2>4, <2>5, AlterType
  <2>7. /\ t.bank = [b.bank EXCEPT !["usr"].lr = SwiReturn]
        /\ t.pc = b.pc /\ t.num = b.num /\ t.cpsr = SysOf(x) /\ t.mem = b.mem
        /\ t.r = [b.r EXCEPT ![11] = SysOf(x)]
    BY <1>7, <2>2 DEF Machine
  <2>8. [b.bank EXCEPT !["usr"].lr = SwiReturn]
          = [x.bank EXCEPT !["usr"] = [sp |-> u - 4, lr |-> SwiReturn, spsr |-> x.bank["usr"].spsr],
                           !["svc"] = [sp |-> s - 4, lr |-> Lr(x, "svc"), spsr |-> x.bank["svc"].spsr]]
    BY <1>1, <1>2, <2>1 DEF Lr
  <2> QED
    BY <1>7, <2>6, <2>7, <2>8
<1>9. \A e \in Stacks : Read(t, e) = Read(b, e)
  BY <1>8 DEF Read
<1>10. /\ Read(t, s - 4) = x.bank["svc"].spsr /\ Read(t, s - 3) = x.r[11] /\ Read(t, s - 2) = x.r[12]
       /\ Read(t, s - 1) = Lr(x, "svc")
       /\ Read(t, u - 4) = x.r[4] /\ Read(t, u - 3) = x.r[2] /\ Read(t, u - 2) = x.r[3]
       /\ Read(t, u - 1) = Lr(x, "usr")
  BY <1>1, <1>5, <1>7, <1>9, StacksAre
<1>11. ASSUME NEW e \in Stacks, ~InFrames(x, e) PROVE Read(t, e) = Read(x, e)
  <2>1. (e < u - 4 \/ e >= u) /\ (e < s - 4 \/ e >= s)
    BY <1>1, <1>11, StacksAre DEF InFrames, Span
  <2> QED
    BY <1>1, <1>5, <1>7, <1>9, <2>1, StacksAre
<1>12. \A i \in Held : OffStacks(i) => t.mem[i] = x.mem[i]
  BY <1>5, <1>7, <1>8
<1>13. \A k \in Regs : k # 12 => t.r[k] = IF k = 11 THEN SysOf(x) ELSE x.r[k]
  BY <1>8 DEF Machine
<1>14. t.r[12] = x.r[12]
  BY <1>8 DEF Machine, Regs
<1> QED
  BY <1>8, <1>10, <1>11, <1>12, <1>13, <1>14 DEF Opened, t

\* New registers and a new place to run.
Placed(x, pc, r) == [[x EXCEPT !.r = r] EXCEPT !.pc = pc]

LEMMA PlacedIs ==
  ASSUME NEW x \in Machine, NEW pc \in Int, NEW r \in [Regs -> Int]
  PROVE  /\ Placed(x, pc, r) \in Machine
         /\ Placed(x, pc, r).pc = pc /\ Placed(x, pc, r).r = r
         /\ Placed(x, pc, r).cpsr = x.cpsr /\ Placed(x, pc, r).num = x.num
         /\ Placed(x, pc, r).bank = x.bank /\ Placed(x, pc, r).mem = x.mem
         /\ \A a : Read(Placed(x, pc, r), a) = Read(x, a)
BY DEF Placed, Machine, Read

LEMMA SamePlaced ==
  ASSUME NEW x, NEW y, Same(x, y), NEW pc \in Int, NEW r \in [Regs -> Int]
  PROVE  Same(Placed(x, pc, r), Placed(y, pc, r))
<1>1. x \in Machine /\ y \in Machine
  BY DEF Same
<1>2. Dead(Placed(x, pc, r)) = Dead(x)
  BY <1>1, PlacedIs DEF Dead
<1> HIDE DEF Placed
<1> QED
  BY <1>1, <1>2, PlacedIs DEF Same

\* The frames two machines open are alike if the machines are.
LEMMA OpenedSame ==
  ASSUME NEW x, NEW y, Same(x, y), Roomy(x), NEW t, NEW v, Opened(x, t), Opened(y, v),
         NEW pc \in Int, NEW r \in [Regs -> Int]
  PROVE  Same(Placed(t, pc, r), Placed(v, pc, r))
<1> DEFINE u == Sp(x, "usr")
           s == Sp(x, "svc")
           p == Placed(t, pc, r)
           q == Placed(v, pc, r)
<1>1. x \in Machine /\ y \in Machine /\ t \in Machine /\ v \in Machine
  BY DEF Same, Opened
<1>2. /\ x.pc = y.pc /\ x.cpsr = y.cpsr /\ x.num = y.num /\ x.r = y.r /\ x.bank = y.bank
      /\ Sp(y, "usr") = u /\ Sp(y, "svc") = s /\ SysOf(y) = SysOf(x)
      /\ Lr(y, "svc") = Lr(x, "svc") /\ Lr(y, "usr") = Lr(x, "usr")
  BY DEF Same, Sp, Lr, SysOf
<1>3. u \in {1008, 1004} /\ s \in {1016, 1012} /\ Sp(x, "irq") \in {1022, 1016}
  BY DEF Roomy, UserTop, SvcTop, IrqTop
<1>4. Seated(x)
  BY <1>3 DEF Seated, UserTop, SvcTop, IrqTop
<1>5. DOMAIN x.bank = Banks /\ "usr" \in Banks /\ "svc" \in Banks /\ "irq" \in Banks
  BY <1>1 DEF Machine, Banks
<1>6. /\ p \in Machine /\ q \in Machine /\ p.pc = q.pc /\ p.r = q.r
      /\ p.cpsr = t.cpsr /\ q.cpsr = v.cpsr /\ p.num = t.num /\ q.num = v.num
      /\ p.bank = t.bank /\ q.bank = v.bank /\ p.mem = t.mem /\ q.mem = v.mem
      /\ \A a : Read(p, a) = Read(t, a) /\ Read(q, a) = Read(v, a)
  BY <1>1, PlacedIs
<1> HIDE DEF p, q
<1>7. p.cpsr = q.cpsr /\ p.num = q.num /\ p.bank = q.bank
  BY <1>2, <1>6 DEF Opened
<1>8. Sp(p, "usr") = u - 4 /\ Sp(p, "svc") = s - 4 /\ Sp(p, "irq") = Sp(x, "irq")
  BY <1>5, <1>6 DEF Opened, Sp
<1>9. Seated(p)
  BY <1>3, <1>8 DEF Seated, UserTop, SvcTop, IrqTop
<1>10. ASSUME NEW a \in Stacks, a \notin Free(p) PROVE Read(p, a) = Read(q, a)
  <2>0. a \in Int
    BY StacksAre
  <2>1. CASE InFrames(x, a)
    <3>1. a \in {u - 4, u - 3, u - 2, u - 1, s - 4, s - 3, s - 2, s - 1}
      BY <1>3, <2>0, <2>1 DEF InFrames, Span
    <3>2. \A e \in {u - 4, u - 3, u - 2, u - 1, s - 4, s - 3, s - 2, s - 1} : Read(t, e) = Read(v, e)
      BY <1>2 DEF Opened
    <3> QED
      BY <1>6, <3>1, <3>2
  <2>2. CASE ~InFrames(x, a)
    <3>1. a \notin Free(x)
      BY <1>3, <1>8, <1>10, <2>0, <2>2 DEF Free, InFrames, Span, UserTop, SvcTop, IrqTop
    <3>2. Read(x, a) = Read(y, a)
      BY <1>4, <3>1, SameGives
    <3>3. ~InFrames(y, a)
      BY <1>2, <2>2 DEF InFrames
    <3> QED
      BY <1>6, <2>2, <3>2, <3>3 DEF Opened
  <2> QED
    BY <2>1, <2>2
<1>11. \A i \in Held : OffStacks(i) => p.mem[i] = q.mem[i]
  BY <1>4, <1>6, SameGives DEF Opened
<1>12. Same(p, q)
  BY <1>6, <1>7, <1>9, <1>10, <1>11, SameIs
<1> QED
  BY <1>12 DEF p, q

-----------------------------------------------------------------------------
(* Runs of stores.                                                          *)

LEMMA CellCases ==
  ASSUME NEW a \in Int, NEW n \in Nat, NEW i, ~Off(i, a, n)
  PROVE  \E k \in 1 .. n : Host[a + k - 1] = i
<1>1. PICK j \in Span(a, n) : Host[j] = i
  BY DEF Off
<1>2. j - a + 1 \in 1 .. n /\ a + (j - a + 1) - 1 = j
  BY DEF Span
<1> QED
  BY <1>1, <1>2

\* zs is vs followed by ws.
Follows(vs, n, ws, p, zs) ==
  /\ DOMAIN vs = 1 .. n /\ \A k \in 1 .. n : vs[k] \in Int
  /\ DOMAIN ws = 1 .. p /\ \A k \in 1 .. p : ws[k] \in Int
  /\ DOMAIN zs = 1 .. n + p /\ (\A k \in 1 .. n : zs[k] = vs[k]) /\ \A k \in 1 .. p : zs[n + k] = ws[k]

\* Two stores that follow each other are one.
LEMMA WritesJoin ==
  ASSUME NEW x \in Machine, NEW a \in Int, NEW n \in Nat, NEW p \in Nat, Plain(a, n + p),
         NEW vs, NEW ws, NEW zs, Follows(vs, n, ws, p, zs)
  PROVE  Writes(Writes(x, a, vs), a + n, ws) = Writes(x, a, zs)
<1>0. /\ DOMAIN vs = 1 .. n /\ \A k \in 1 .. n : vs[k] \in Int
      /\ DOMAIN ws = 1 .. p /\ \A k \in 1 .. p : ws[k] \in Int
      /\ DOMAIN zs = 1 .. n + p /\ (\A k \in 1 .. n : zs[k] = vs[k]) /\ \A k \in 1 .. p : zs[n + k] = ws[k]
  BY DEF Follows
<1> DEFINE y == Writes(x, a, vs)
           z == Writes(y, a + n, ws)
           q == Writes(x, a, zs)
<1>1. \A i \in Span(a, n) \cup Span(a + n, p) : i \in Span(a, n + p)
  BY DEF Span
<1>2. Plain(a, n) /\ Plain(a + n, p) /\ Mapped(a, n) /\ Mapped(a + n, p) /\ Mapped(a, n + p)
  BY <1>1 DEF Plain, Mapped
<1>3. \A k \in 1 .. n + p : zs[k] \in Int
  <2>1. ASSUME NEW k \in 1 .. n + p, ~(k <= n) PROVE zs[k] \in Int
    <3>1. k - n \in 1 .. p /\ n + (k - n) = k
      BY <2>1
    <3> QED
      BY <1>0, <3>1
  <2> QED
    BY <1>0, <2>1
<1>4. /\ y \in Machine /\ y = [x EXCEPT !.mem = y.mem]
      /\ \A i \in Held : Off(i, a, n) => y.mem[i] = x.mem[i]
      /\ \A k \in 1 .. n : y.mem[Host[a + k - 1]] = vs[k]
  BY <1>0, <1>2, WritesType
<1> HIDE DEF y
<1>5. /\ z \in Machine /\ z = [y EXCEPT !.mem = z.mem]
      /\ \A i \in Held : Off(i, a + n, p) => z.mem[i] = y.mem[i]
      /\ \A k \in 1 .. p : z.mem[Host[a + n + k - 1]] = ws[k]
  <2> DEFINE b == a + n
  <2>1. b \in Int /\ Mapped(b, p) /\ Plain(b, p) /\ z = Writes(y, b, ws)
    BY <1>2
  <2> HIDE DEF b, z
  <2>2. /\ z \in Machine /\ z = [y EXCEPT !.mem = z.mem]
        /\ \A i \in Held : Off(i, b, p) => z.mem[i] = y.mem[i]
        /\ \A k \in 1 .. p : z.mem[Host[b + k - 1]] = ws[k]
    BY <1>0, <1>4, <2>1, WritesType
  <2> QED
    BY <2>2 DEF b
<1>6. /\ q \in Machine /\ q = [x EXCEPT !.mem = q.mem]
      /\ \A i \in Held : Off(i, a, n + p) => q.mem[i] = x.mem[i]
      /\ \A k \in 1 .. n + p : q.mem[Host[a + k - 1]] = zs[k]
  BY <1>0, <1>2, <1>3, WritesType
<1> HIDE DEF z, q
<1>7. ASSUME NEW i \in Held PROVE z.mem[i] = q.mem[i]
  <2>1. CASE Off(i, a, n + p)
    <3>1. Off(i, a, n) /\ Off(i, a + n, p)
      BY <1>1, <2>1 DEF Off
    <3> QED
      BY <1>4, <1>5, <1>6, <2>1, <3>1
  <2>2. CASE ~Off(i, a, n + p)
    <3>1. PICK k \in 1 .. n + p : Host[a + k - 1] = i
      <4> DEFINE w == n + p
      <4>1. w \in Nat /\ ~Off(i, a, w)
        BY <2>2
      <4> HIDE DEF w
      <4>2. \E k \in 1 .. w : Host[a + k - 1] = i
        BY <4>1, CellCases
      <4> QED
        BY <4>2 DEF w
    <3>2. CASE k <= n
      <4>1. k \in 1 .. n /\ a + k - 1 \in Span(a, n + p)
        BY <3>2 DEF Span
      <4>2. Off(i, a + n, p)
        <5>1. ASSUME NEW j \in Span(a + n, p), Host[j] = i PROVE FALSE
          <6>1. j = a + k - 1
            BY <1>1, <3>1, <4>1, <5>1 DEF Plain
          <6> QED
            BY <3>2, <6>1 DEF Span
        <5> QED
          BY <5>1 DEF Off
      <4> QED
        BY <1>0, <1>4, <1>5, <1>6, <3>1, <4>1, <4>2
    <3>3. CASE ~(k <= n)
      <4>1. k - n \in 1 .. p /\ n + (k - n) = k /\ a + n + (k - n) - 1 = a + k - 1
        BY <3>3
      <4> QED
        BY <1>0, <1>5, <1>6, <3>1, <4>1
    <3> QED
      BY <3>2, <3>3
  <2> QED
    BY <2>1, <2>2
<1>8. z.mem = q.mem
  BY <1>5, <1>6, <1>7 DEF Machine
<1>9. z = q
  BY <1>4, <1>5, <1>6, <1>8 DEF Machine
<1> QED
  BY <1>9 DEF y, z, q

LEMMA WriteOne ==
  ASSUME NEW x \in Machine, NEW a \in Int, a \in DOMAIN Host, NEW v \in Int,
         NEW vs, DOMAIN vs = 1 .. 1, vs[1] = v
  PROVE  Write(x, a, v) = Writes(x, a, vs)
<1> DEFINE y == Write(x, a, v)
           z == Writes(x, a, vs)
<1>1. /\ y \in Machine /\ y.mem = [x.mem EXCEPT ![Host[a]] = v] /\ y = [x EXCEPT !.mem = y.mem]
  BY WriteType
<1>2. Plain(a, 1) /\ Mapped(a, 1) /\ \A i : Off(i, a, 1) <=> Host[a] # i
  BY DEF Plain, Mapped, Span, Off
<1>3. /\ z \in Machine /\ z = [x EXCEPT !.mem = z.mem]
      /\ \A i \in Held : Off(i, a, 1) => z.mem[i] = x.mem[i]
      /\ z.mem[Host[a + 1 - 1]] = vs[1]
  <2>1. /\ z \in Machine /\ z = [x EXCEPT !.mem = z.mem]
        /\ \A i \in Held : Off(i, a, 1) => z.mem[i] = x.mem[i]
        /\ \A k \in 1 .. 1 : z.mem[Host[a + k - 1]] = vs[k]
    <3> DEFINE n == 1
    <3>1. n \in Nat /\ DOMAIN vs = 1 .. n /\ \A k \in 1 .. n : vs[k] \in Int
      OBVIOUS
    <3>2. z = Writes(x, a, vs) /\ Mapped(a, n) /\ Plain(a, n)
      BY <1>2
    <3> HIDE DEF z, n
    <3>3. /\ z \in Machine /\ z = [x EXCEPT !.mem = z.mem]
          /\ \A i \in Held : Off(i, a, n) => z.mem[i] = x.mem[i]
          /\ \A k \in 1 .. n : z.mem[Host[a + k - 1]] = vs[k]
      BY <3>1, <3>2, WritesType
    <3> QED
      BY <3>3 DEF n
  <2> QED
    BY <2>1
<1> HIDE DEF y, z
<1>4. a + 1 - 1 = a
  OBVIOUS
<1>5. y.mem = z.mem
  BY <1>1, <1>2, <1>3, <1>4 DEF Machine, Held
<1>6. y = z
  BY <1>1, <1>3, <1>5
<1> QED
  BY <1>6 DEF y, z

-----------------------------------------------------------------------------
(* Loops: n elements from a loop top on.                                    *)

Fasts == {FastCopy, FastFill}
Fills == {FastFill, HalfFill, WordFill}
Loops == Fills \cup {FastCopy, HalfCopy, WordCopy}
UnitAt(x) == IF x.pc \in Fasts THEN Chunk ELSE 1
LeftAt(x) == CASE x.pc \in Fasts -> x.r[4]
               [] x.pc \in {WordCopy, WordFill} -> x.r[3]
               [] x.pc = HalfCopy -> x.r[3] - x.r[2]
               [] x.pc = HalfFill -> x.r[3] - x.r[1]
FromAt(x) == IF x.pc = FastCopy THEN x.r[3] ELSE x.r[2]
DestAt(x) == IF x.pc \in Fills THEN x.r[1] ELSE x.r[1] + FromAt(x)
ValueAt(x, j) == IF x.pc \in Fills THEN x.r[2] ELSE Read(x, FromAt(x) + j - 1)
MemAt(x, n) == Writes(x, DestAt(x), [j \in 1 .. n |-> ValueAt(x, j)]).mem
RegsAt(x, n) ==
  CASE x.pc = HalfCopy -> [x.r EXCEPT ![2] = @ + n, ![12] = ValueAt(x, n)]
    [] x.pc = WordCopy -> [x.r EXCEPT ![0] = ValueAt(x, n), ![2] = @ + n, ![3] = @ - n]
    [] x.pc = HalfFill -> [x.r EXCEPT ![1] = @ + n]
    [] x.pc = WordFill -> [x.r EXCEPT ![1] = @ + n, ![3] = @ - n]
    [] x.pc = FastCopy -> [x.r EXCEPT ![0] = x.r[3] + n, ![2] = ValueAt(x, n), ![3] = @ + n, ![4] = @ - n]
    [] x.pc = FastFill -> [x.r EXCEPT ![1] = @ + n, ![3] = x.r[1] + n, ![4] = @ - n]
Ran(x, n) == [[x EXCEPT !.mem = MemAt(x, n)] EXCEPT !.r = RegsAt(x, n)]
\* The loop falls through when nothing is left.
OutOf(pc) == IF pc \in Fasts THEN FastExit ELSE SetExit
Settled(x) == IF LeftAt(x) <= 0 THEN [x EXCEPT !.pc = OutOf(x.pc)] ELSE x
\* The n elements exist, are off the stacks, and what is written is neither
\* read nor written twice.
RunOk(x, n) ==
  /\ Plain(DestAt(x), n) /\ \A i \in Span(DestAt(x), n) : OffStacks(Host[i])
  /\ x.pc \notin Fills =>
       /\ Mapped(FromAt(x), n) /\ \A i \in Span(FromAt(x), n) : OffStacks(Host[i])
       /\ \A i \in Span(FromAt(x), n), j \in Span(DestAt(x), n) : Host[i] # Host[j]

LEMMA RegsAre ==
  ASSUME NEW x, NEW n
  PROVE  /\ x.pc = HalfCopy => RegsAt(x, n) = [x.r EXCEPT ![2] = @ + n, ![12] = ValueAt(x, n)]
         /\ x.pc = WordCopy => RegsAt(x, n) = [x.r EXCEPT ![0] = ValueAt(x, n), ![2] = @ + n, ![3] = @ - n]
         /\ x.pc = HalfFill => RegsAt(x, n) = [x.r EXCEPT ![1] = @ + n]
         /\ x.pc = WordFill => RegsAt(x, n) = [x.r EXCEPT ![1] = @ + n, ![3] = @ - n]
         /\ x.pc = FastCopy =>
              RegsAt(x, n) = [x.r EXCEPT ![0] = x.r[3] + n, ![2] = ValueAt(x, n), ![3] = @ + n, ![4] = @ - n]
         /\ x.pc = FastFill => RegsAt(x, n) = [x.r EXCEPT ![1] = @ + n, ![3] = x.r[1] + n, ![4] = @ - n]
BY DEF RegsAt, HalfCopy, WordCopy, HalfFill, WordFill, FastCopy, FastFill

LEMMA AtType ==
  ASSUME NEW x \in Machine, x.pc \in Loops
  PROVE  FromAt(x) \in Int /\ DestAt(x) \in Int /\ LeftAt(x) \in Int
<1>1. x.r[1] \in Int /\ x.r[2] \in Int /\ x.r[3] \in Int /\ x.r[4] \in Int
  BY RegType
<1> QED
  BY <1>1 DEF FromAt, DestAt, LeftAt, Loops, Fills, Fasts

LEMMA ValueType ==
  ASSUME NEW x \in Machine, x.pc \in Loops, NEW n \in Nat, RunOk(x, n), NEW j \in 1 .. n
  PROVE  /\ ValueAt(x, j) \in Int
         /\ x.pc \notin Fills => FromAt(x) + j - 1 \in DOMAIN Host /\ OffStacks(Host[FromAt(x) + j - 1])
<1>1. x.r[2] \in Int /\ FromAt(x) \in Int
  BY RegType, AtType
<1>2. FromAt(x) + j - 1 \in Span(FromAt(x), n)
  BY <1>1 DEF Span
<1>3. x.pc \notin Fills => FromAt(x) + j - 1 \in DOMAIN Host /\ OffStacks(Host[FromAt(x) + j - 1])
  BY <1>2 DEF RunOk, Mapped
<1> QED
  BY <1>1, <1>3, ReadType DEF ValueAt

LEMMA RanType ==
  ASSUME NEW x \in Machine, x.pc \in Loops, NEW n \in Nat \ {0}, RunOk(x, n)
  PROVE  /\ Ran(x, n) \in Machine /\ Ran(x, n).pc = x.pc /\ Ran(x, n).cpsr = x.cpsr /\ Ran(x, n).num = x.num
         /\ Ran(x, n).bank = x.bank /\ Ran(x, n).r = RegsAt(x, n) /\ Ran(x, n).mem = MemAt(x, n)
         /\ RegsAt(x, n) \in [Regs -> Int]
         /\ \A i \in Held : Off(i, DestAt(x), n) => Ran(x, n).mem[i] = x.mem[i]
         /\ \A k \in 1 .. n : Ran(x, n).mem[Host[DestAt(x) + k - 1]] = ValueAt(x, k)
         /\ \A a \in Stacks : Read(Ran(x, n), a) = Read(x, a)
<1> DEFINE a == DestAt(x)
           vs == [j \in 1 .. n |-> ValueAt(x, j)]
           w == Writes(x, a, vs)
<1>1. DOMAIN vs = 1 .. n /\ \A k \in 1 .. n : vs[k] \in Int /\ vs[k] = ValueAt(x, k)
  BY ValueType
<1>2. a \in Int /\ Plain(a, n) /\ Mapped(a, n)
  BY AtType DEF RunOk, Plain
<1>3. w.mem = MemAt(x, n)
  BY DEF MemAt
<1> HIDE DEF vs
<1>4. /\ w \in Machine
      /\ \A i \in Held : Off(i, a, n) => w.mem[i] = x.mem[i]
      /\ \A k \in 1 .. n : w.mem[Host[a + k - 1]] = vs[k]
  BY <1>1, <1>2, WritesType
<1> HIDE DEF w, a
<1>5. MemAt(x, n) \in [Held -> Int]
  BY <1>3, <1>4 DEF Machine
<1>6. RegsAt(x, n) \in [Regs -> Int]
  <2>1. ValueAt(x, n) \in Int /\ x.r \in [Regs -> Int] /\ x.r[1] \in Int /\ x.r[2] \in Int /\ x.r[3] \in Int /\ x.r[4] \in Int
    BY ValueType, RegType DEF Machine
  <2> QED
    BY <2>1 DEF RegsAt, Regs, Loops, Fills
<1>7. /\ Ran(x, n) \in Machine /\ Ran(x, n).pc = x.pc /\ Ran(x, n).cpsr = x.cpsr /\ Ran(x, n).num = x.num
      /\ Ran(x, n).bank = x.bank /\ Ran(x, n).r = RegsAt(x, n) /\ Ran(x, n).mem = MemAt(x, n)
  BY <1>5, <1>6 DEF Ran, Machine
<1>8. ASSUME NEW e \in Stacks PROVE Read(Ran(x, n), e) = Read(x, e)
  <2>1. Off(Host[e], a, n) /\ Host[e] \in Held
    BY StacksAre DEF RunOk, Off, OffStacks, a
  <2> QED
    BY <1>3, <1>4, <1>7, <2>1 DEF Read
<1> QED
  BY <1>1, <1>3, <1>4, <1>6, <1>7, <1>8 DEF a

LEMMA RanJoin ==
  ASSUME NEW x \in Machine, x.pc \in Loops, NEW n \in Nat \ {0}, NEW p \in Nat \ {0}, RunOk(x, n + p)
  PROVE  /\ RunOk(x, n) /\ RunOk(Ran(x, n), p)
         /\ LeftAt(Ran(x, n)) = LeftAt(x) - n
         /\ Ran(Ran(x, n), p) = Ran(x, n + p)
<1> DEFINE y == Ran(x, n)
           a == DestAt(x)
           f == FromAt(x)
           vs == [j \in 1 .. n |-> ValueAt(x, j)]
           ws == [j \in 1 .. p |-> ValueAt(y, j)]
           zs == [j \in 1 .. n + p |-> ValueAt(x, j)]
<1>0. a \in Int /\ f \in Int
  BY AtType
<1>1. /\ \A i \in Span(a, n) \cup Span(a + n, p) : i \in Span(a, n + p)
      /\ \A i \in Span(f, n) \cup Span(f + n, p) : i \in Span(f, n + p)
  BY <1>0 DEF Span
<1>2. RunOk(x, n)
  BY <1>1 DEF RunOk, Plain, Mapped
<1>3. /\ y \in Machine /\ y.pc = x.pc /\ y.r = RegsAt(x, n)
      /\ y = [[x EXCEPT !.mem = y.mem] EXCEPT !.r = y.r]
      /\ y.mem = MemAt(x, n)
      /\ \A i \in Held : Off(i, a, n) => y.mem[i] = x.mem[i]
  BY <1>2, RanType DEF Ran
<1>4. /\ x.r \in [Regs -> Int] /\ x.r[0] \in Int /\ x.r[1] \in Int /\ x.r[2] \in Int /\ x.r[3] \in Int /\ x.r[4] \in Int
      /\ ValueAt(x, n) \in Int
  BY <1>2, RegType, ValueType DEF Machine
<1> HIDE DEF y
<1>5. /\ DestAt(y) = a + n
      /\ x.pc \notin Fills => FromAt(y) = f + n
      /\ x.pc \in Fills => y.r[2] = x.r[2]
      /\ LeftAt(y) = LeftAt(x) - n
  <2>1. CASE x.pc = HalfCopy
    BY <1>3, <1>4, <2>1 DEF RegsAt, Regs, DestAt, FromAt, LeftAt, Fills, Fasts, HalfCopy, WordCopy, HalfFill, WordFill, FastCopy, FastFill
  <2>2. CASE x.pc = WordCopy
    BY <1>3, <1>4, <2>2 DEF RegsAt, Regs, DestAt, FromAt, LeftAt, Fills, Fasts, HalfCopy, WordCopy, HalfFill, WordFill, FastCopy, FastFill
  <2>3. CASE x.pc = HalfFill
    BY <1>3, <1>4, <2>3 DEF RegsAt, Regs, DestAt, FromAt, LeftAt, Fills, Fasts, HalfCopy, WordCopy, HalfFill, WordFill, FastCopy, FastFill
  <2>4. CASE x.pc = WordFill
    BY <1>3, <1>4, <2>4 DEF RegsAt, Regs, DestAt, FromAt, LeftAt, Fills, Fasts, HalfCopy, WordCopy, HalfFill, WordFill, FastCopy, FastFill
  <2>5. CASE x.pc = FastCopy
    BY <1>3, <1>4, <2>5 DEF RegsAt, Regs, DestAt, FromAt, LeftAt, Fills, Fasts, HalfCopy, WordCopy, HalfFill, WordFill, FastCopy, FastFill
  <2>6. CASE x.pc = FastFill
    BY <1>3, <1>4, <2>6 DEF RegsAt, Regs, DestAt, FromAt, LeftAt, Fills, Fasts, HalfCopy, WordCopy, HalfFill, WordFill, FastCopy, FastFill
  <2> QED
    BY <2>1, <2>2, <2>3, <2>4, <2>5, <2>6 DEF Loops, Fills
<1>6. RunOk(y, p)
  <2>1. Plain(a + n, p) /\ \A i \in Span(a + n, p) : OffStacks(Host[i])
    BY <1>1 DEF RunOk, Plain, Mapped
  <2>2. x.pc \notin Fills =>
          /\ Mapped(f + n, p) /\ \A i \in Span(f + n, p) : OffStacks(Host[i])
          /\ \A i \in Span(f + n, p), j \in Span(a + n, p) : Host[i] # Host[j]
    BY <1>1 DEF RunOk, Mapped
  <2> HIDE DEF a, f
  <2> QED
    BY <1>3, <1>5, <2>1, <2>2 DEF RunOk
<1>7. ASSUME NEW j \in 1 .. p PROVE ValueAt(y, j) = ValueAt(x, n + j)
  <2>1. CASE x.pc \in Fills
    BY <1>3, <1>5, <2>1 DEF ValueAt
  <2>2. CASE x.pc \notin Fills
    <3>1. f + n + j - 1 = f + (n + j) - 1 /\ f + n + j - 1 \in Span(f, n + p)
      BY <1>0 DEF Span
    <3>2. Host[f + n + j - 1] \in Held
      BY <2>2, <3>1 DEF RunOk, Mapped, Held
    <3>3. Off(Host[f + n + j - 1], a, n)
      BY <1>1, <2>2, <3>1 DEF RunOk, Off
    <3>4. Read(y, f + n + j - 1) = Read(x, f + n + j - 1)
      BY <1>3, <3>2, <3>3 DEF Read
    <3>5. ValueAt(y, j) = Read(y, f + n + j - 1) /\ ValueAt(x, n + j) = Read(x, f + (n + j) - 1)
      BY <1>3, <1>5, <2>2 DEF ValueAt
    <3> QED
      BY <3>1, <3>4, <3>5
  <2> QED
    BY <2>1, <2>2
<1>8. MemAt(y, p) = MemAt(x, n + p)
  <2>1. DOMAIN vs = 1 .. n /\ DOMAIN ws = 1 .. p /\ DOMAIN zs = 1 .. n + p
    OBVIOUS
  <2>2. \A k \in 1 .. n : vs[k] \in Int
    BY <1>2, ValueType
  <2>3. \A k \in 1 .. p : ws[k] \in Int
    BY <1>3, <1>6, ValueType
  <2>4. \A k \in 1 .. n : zs[k] = vs[k]
    OBVIOUS
  <2>5. \A k \in 1 .. p : zs[n + k] = ws[k]
    BY <1>7
  <2> HIDE DEF vs, ws, zs
  <2>6. Writes(Writes(x, a, vs), a + n, ws) = Writes(x, a, zs)
    <3>1. Plain(a, n + p)
      BY DEF RunOk
    <3>2. n \in Nat /\ p \in Nat
      OBVIOUS
    <3>3. Follows(vs, n, ws, p, zs)
      BY <2>1, <2>2, <2>3, <2>4, <2>5 DEF Follows
    <3> HIDE DEF a
    <3> QED
      BY <1>0, <3>1, <3>2, <3>3, WritesJoin
  <2>7. Writes(x, a, vs).mem = y.mem
    BY <1>3 DEF MemAt, vs
  <2>8. Writes(y, a + n, ws).mem = Writes(Writes(x, a, vs), a + n, ws).mem
    <3>1. /\ Writes(x, a, vs) \in Machine
          /\ Mapped(a + n, p) /\ Mapped(a, n)
      <4>1. Mapped(a, n) /\ Mapped(a + n, p)
        BY <1>1 DEF RunOk, Plain, Mapped
      <4> QED
        BY <1>0, <2>1, <2>2, <4>1, WritesType
    <3> DEFINE v == Writes(x, a, vs)
    <3>2. v \in Machine /\ v.mem = y.mem
      BY <2>7, <3>1
    <3> HIDE DEF v
    <3>3. Writes(y, a + n, ws).mem = Writes(v, a + n, ws).mem
      BY <1>3, <3>2 DEF Writes, Machine
    <3> QED
      BY <3>3 DEF v
  <2>9. MemAt(y, p) = Writes(y, a + n, ws).mem /\ MemAt(x, n + p) = Writes(x, a, zs).mem
    BY <1>5 DEF MemAt, ws, zs
  <2> QED
    BY <2>6, <2>8, <2>9
<1>9. RegsAt(y, p) = RegsAt(x, n + p)
  <2>0. ValueAt(y, p) = ValueAt(x, n + p)
    BY <1>7
  <2> DEFINE v == ValueAt(x, n + p)
             q == ValueAt(x, n)
  <2>a. v \in Int
    <3> DEFINE w == n + p
    <3>1. w \in Nat /\ w \in 1 .. w /\ RunOk(x, w)
      OBVIOUS
    <3> HIDE DEF w
    <3>2. ValueAt(x, w) \in Int
      BY <3>1, ValueType
    <3> QED
      BY <3>2 DEF w
  <2>b. ValueAt(y, p) = v /\ q \in Int
    BY <1>4, <2>0
  <2>c. y.r = RegsAt(x, n)
    BY <1>3
  <2> HIDE DEF v, q
  <2>1. CASE x.pc = HalfCopy
    <3>0. y.pc = HalfCopy
      BY <1>3, <2>1
    <3>1. y.r = [x.r EXCEPT ![2] = @ + n, ![12] = q]
      BY <2>1, <2>c, RegsAre DEF q
    <3>2. RegsAt(y, p) = [y.r EXCEPT ![2] = @ + p, ![12] = v]
      BY <3>0, <2>b, RegsAre
    <3>3. RegsAt(x, n + p) = [x.r EXCEPT ![2] = @ + (n + p), ![12] = v]
      BY <2>1, RegsAre DEF v
    <3> QED
      BY <1>4, <3>1, <3>2, <3>3 DEF Regs
  <2>2. CASE x.pc = WordCopy
    <3>0. y.pc = WordCopy
      BY <1>3, <2>2
    <3>1. y.r = [x.r EXCEPT ![0] = q, ![2] = @ + n, ![3] = @ - n]
      BY <2>2, <2>c, RegsAre DEF q
    <3>2. RegsAt(y, p) = [y.r EXCEPT ![0] = v, ![2] = @ + p, ![3] = @ - p]
      BY <3>0, <2>b, RegsAre
    <3>3. RegsAt(x, n + p) = [x.r EXCEPT ![0] = v, ![2] = @ + (n + p), ![3] = @ - (n + p)]
      BY <2>2, RegsAre DEF v
    <3> QED
      BY <1>4, <3>1, <3>2, <3>3 DEF Regs
  <2>3. CASE x.pc = HalfFill
    <3>0. y.pc = HalfFill
      BY <1>3, <2>3
    <3>1. y.r = [x.r EXCEPT ![1] = @ + n]
      BY <2>3, <2>c, RegsAre DEF q
    <3>2. RegsAt(y, p) = [y.r EXCEPT ![1] = @ + p]
      BY <3>0, <2>b, RegsAre
    <3>3. RegsAt(x, n + p) = [x.r EXCEPT ![1] = @ + (n + p)]
      BY <2>3, RegsAre DEF v
    <3> QED
      BY <1>4, <3>1, <3>2, <3>3 DEF Regs
  <2>4. CASE x.pc = WordFill
    <3>0. y.pc = WordFill
      BY <1>3, <2>4
    <3>1. y.r = [x.r EXCEPT ![1] = @ + n, ![3] = @ - n]
      BY <2>4, <2>c, RegsAre DEF q
    <3>2. RegsAt(y, p) = [y.r EXCEPT ![1] = @ + p, ![3] = @ - p]
      BY <3>0, <2>b, RegsAre
    <3>3. RegsAt(x, n + p) = [x.r EXCEPT ![1] = @ + (n + p), ![3] = @ - (n + p)]
      BY <2>4, RegsAre DEF v
    <3> QED
      BY <1>4, <3>1, <3>2, <3>3 DEF Regs
  <2>5. CASE x.pc = FastCopy
    <3>0. y.pc = FastCopy
      BY <1>3, <2>5
    <3>1. y.r = [x.r EXCEPT ![0] = x.r[3] + n, ![2] = q, ![3] = @ + n, ![4] = @ - n]
      BY <2>5, <2>c, RegsAre DEF q
    <3>2. RegsAt(y, p) = [y.r EXCEPT ![0] = y.r[3] + p, ![2] = v, ![3] = @ + p, ![4] = @ - p]
      BY <3>0, <2>b, RegsAre
    <3>3. RegsAt(x, n + p) = [x.r EXCEPT ![0] = x.r[3] + (n + p), ![2] = v, ![3] = @ + (n + p), ![4] = @ - (n + p)]
      BY <2>5, RegsAre DEF v
    <3> QED
      BY <1>4, <3>1, <3>2, <3>3 DEF Regs
  <2>6. CASE x.pc = FastFill
    <3>0. y.pc = FastFill
      BY <1>3, <2>6
    <3>1. y.r = [x.r EXCEPT ![1] = @ + n, ![3] = x.r[1] + n, ![4] = @ - n]
      BY <2>6, <2>c, RegsAre DEF q
    <3>2. RegsAt(y, p) = [y.r EXCEPT ![1] = @ + p, ![3] = y.r[1] + p, ![4] = @ - p]
      BY <3>0, <2>b, RegsAre
    <3>3. RegsAt(x, n + p) = [x.r EXCEPT ![1] = @ + (n + p), ![3] = x.r[1] + (n + p), ![4] = @ - (n + p)]
      BY <2>6, RegsAre DEF v
    <3> QED
      BY <1>4, <3>1, <3>2, <3>3 DEF Regs
  <2> QED
    BY <2>1, <2>2, <2>3, <2>4, <2>5, <2>6 DEF Loops, Fills
<1>10. Ran(y, p) = Ran(x, n + p)
  <2>1. Ran(y, p) = [[y EXCEPT !.mem = MemAt(x, n + p)] EXCEPT !.r = RegsAt(x, n + p)]
    BY <1>8, <1>9 DEF Ran
  <2>2. \A e, g : [[y EXCEPT !.mem = e] EXCEPT !.r = g] = [[x EXCEPT !.mem = e] EXCEPT !.r = g]
    BY <1>3 DEF Machine
  <2> QED
    BY <2>1, <2>2 DEF Ran
<1> QED
  BY <1>2, <1>5, <1>6, <1>10 DEF y

LEMMA SameRan ==
  ASSUME NEW x, NEW y, Same(x, y), Seated(x), x.pc \in Loops, NEW n \in Nat \ {0}, RunOk(x, n)
  PROVE  RunOk(y, n) /\ LeftAt(y) = LeftAt(x) /\ Same(Ran(x, n), Ran(y, n))
<1> DEFINE a == DestAt(x)
           vs == [j \in 1 .. n |-> ValueAt(x, j)]
           p == Writes(x, a, vs)
           q == Writes(y, a, vs)
<1>1. x \in Machine /\ y \in Machine /\ y.pc = x.pc /\ y.r = x.r
  BY DEF Same
<1>2. DestAt(y) = a /\ FromAt(y) = FromAt(x) /\ LeftAt(y) = LeftAt(x) /\ RunOk(y, n)
  BY <1>1 DEF DestAt, FromAt, LeftAt, RunOk
<1>3. \A j \in 1 .. n : ValueAt(y, j) = ValueAt(x, j)
  <2>1. ASSUME NEW j \in 1 .. n, x.pc \notin Fills PROVE Read(x, FromAt(x) + j - 1) = Read(y, FromAt(x) + j - 1)
    <3> DEFINE b == FromAt(x) + j - 1
    <3>1. b \in DOMAIN Host /\ OffStacks(Host[b])
      BY <1>1, <2>1, ValueType
    <3> HIDE DEF b
    <3>2. Read(x, b) = Read(y, b)
      BY <3>1, SameGives
    <3> QED
      BY <3>2 DEF b
  <2> QED
    BY <1>1, <1>2, <2>1 DEF ValueAt
<1>4. /\ a \in Int /\ Mapped(a, n) /\ DOMAIN vs = 1 .. n /\ \A k \in 1 .. n : vs[k] \in Int
  BY <1>1, AtType, ValueType DEF RunOk, Plain
<1>5. MemAt(x, n) = p.mem /\ MemAt(y, n) = q.mem
  <2>1. [j \in 1 .. n |-> ValueAt(y, j)] = vs
    BY <1>3
  <2> QED
    BY <1>2, <2>1 DEF MemAt
<1> HIDE DEF vs
<1>6. Same(p, q)
  BY <1>4, SameWrites
<1> HIDE DEF p, q
<1>7. RegsAt(y, n) = RegsAt(x, n)
  <2>1. ValueAt(y, n) = ValueAt(x, n)
    BY <1>3
  <2> QED
    BY <1>1, <2>1 DEF RegsAt
<1>8. /\ Ran(x, n) \in Machine /\ Ran(y, n) \in Machine
      /\ Ran(x, n).pc = x.pc /\ Ran(x, n).cpsr = x.cpsr /\ Ran(x, n).num = x.num /\ Ran(x, n).bank = x.bank
      /\ Ran(y, n).pc = y.pc /\ Ran(y, n).cpsr = y.cpsr /\ Ran(y, n).num = y.num /\ Ran(y, n).bank = y.bank
      /\ Ran(x, n).r = RegsAt(x, n) /\ Ran(y, n).r = RegsAt(y, n)
      /\ Ran(x, n).mem = p.mem /\ Ran(y, n).mem = q.mem
  BY <1>1, <1>2, <1>5, RanType
<1>9. Dead(Ran(x, n)) = Dead(x) /\ Dead(p) = Dead(x)
  <2>1. p.bank = x.bank
    <3>1. p = [x EXCEPT !.mem = p.mem]
      BY <1>1, <1>4, WritesType DEF p
    <3> QED
      BY <1>1, <3>1 DEF Machine
  <2> QED
    BY <1>8, <2>1 DEF Dead
<1> QED
  BY <1>1, <1>2, <1>6, <1>7, <1>8, <1>9 DEF Same

\* A batch of the engine is a run.
LEMMA AdvancedIs ==
  ASSUME NEW x \in Machine, x.pc \in Tops, NEW k \in Nat \ {0}, k * UnitAt(x) \in Nat \ {0}, RunOk(x, k * UnitAt(x))
  PROVE  Advanced(x, k) = Ran(x, k * UnitAt(x))
<1> DEFINE n == k * UnitAt(x)
           a == DestAt(x)
           vs == [j \in 1 .. n |-> ValueAt(x, j)]
           w == Writes(x, a, vs)
           v == ValueAt(x, n)
<1>1. x.pc \in Loops /\ Unit(x) = UnitAt(x) /\ n \in Nat \ {0} /\ Dest(x) = a /\ (x.pc # FastFill => Source(x) = FromAt(x))
  BY DEF Tops, Loops, Fills, Unit, UnitAt, Fasts, Dest, DestAt, Source, FromAt, FastCopy, FastFill, WordCopy, HalfCopy, WordFill, HalfFill
<1>2. x.pc = FastFill <=> x.pc \in Fills
  BY DEF Tops, Fills, FastCopy, FastFill, WordCopy, HalfCopy, WordFill, HalfFill
<1>3. w = [x EXCEPT !.mem = MemAt(x, n)] /\ w \in Machine
  <2>1. /\ a \in Int /\ Mapped(a, n) /\ DOMAIN vs = 1 .. n /\ \A j \in 1 .. n : vs[j] \in Int
    BY <1>1, AtType, ValueType DEF RunOk, Plain
  <2>2. MemAt(x, n) = w.mem
    BY DEF MemAt
  <2> HIDE DEF vs, n
  <2> QED
    BY <1>1, <2>1, <2>2, WritesType
<1>4. x.pc = FastFill => Writes(x, a, [i \in 1 .. n |-> x.r[2]]) = w
  BY <1>2 DEF ValueAt
<1>5. x.pc # FastFill => Moved(x, Source(x), a, n, FALSE) = w /\ Read(x, Source(x) + n - 1) = v
  BY <1>1, <1>2 DEF Moved, ValueAt
<1>6. /\ x.pc = FastFill => Advanced(x, k) = [w EXCEPT !.r[1] = a + n, !.r[3] = a + n, !.r[4] = @ - n]
      /\ x.pc = FastCopy => Advanced(x, k) = [w EXCEPT !.r[0] = Source(x) + n, !.r[2] = v, !.r[3] = Source(x) + n, !.r[4] = @ - n]
      /\ x.pc = WordCopy => Advanced(x, k) = [w EXCEPT !.r[0] = v, !.r[2] = Source(x) + n, !.r[3] = @ - n]
      /\ x.pc = HalfCopy => Advanced(x, k) = [w EXCEPT !.r[2] = Source(x) + n, !.r[12] = v]
  <2>1. Dest(x) = a /\ k * Unit(x) = n
    BY <1>1
  <2> HIDE DEF n, a
  <2>2. x.pc = FastFill => Advanced(x, k) = [w EXCEPT !.r[1] = a + n, !.r[3] = a + n, !.r[4] = @ - n]
    <3>1. x.pc = FastFill => Advanced(x, k) = [Writes(x, Dest(x), [i \in 1 .. k * Unit(x) |-> x.r[2]]) EXCEPT !.r[1] = Dest(x) + k * Unit(x), !.r[3] = Dest(x) + k * Unit(x), !.r[4] = @ - k * Unit(x)]
      BY DEF Advanced, FastCopy, FastFill, WordCopy, HalfCopy
    <3> HIDE DEF w, v
    <3> QED
      BY <1>4, <2>1, <3>1
  <2>3. x.pc = FastCopy => Advanced(x, k) = [w EXCEPT !.r[0] = Source(x) + n, !.r[2] = v, !.r[3] = Source(x) + n, !.r[4] = @ - n]
    <3>1. x.pc = FastCopy => Advanced(x, k) = [Moved(x, Source(x), Dest(x), k * Unit(x), FALSE) EXCEPT !.r[0] = Source(x) + k * Unit(x), !.r[2] = Read(x, Source(x) + k * Unit(x) - 1), !.r[3] = Source(x) + k * Unit(x), !.r[4] = @ - k * Unit(x)]
      BY DEF Advanced, FastCopy, FastFill, WordCopy, HalfCopy
    <3> HIDE DEF w, v
    <3>2. x.pc = FastCopy => Advanced(x, k) = [Moved(x, Source(x), a, n, FALSE) EXCEPT !.r[0] = Source(x) + n, !.r[2] = Read(x, Source(x) + n - 1), !.r[3] = Source(x) + n, !.r[4] = @ - n]
      BY <2>1, <3>1
    <3>3. x.pc = FastCopy => x.pc # FastFill
      BY DEF FastCopy, FastFill, WordCopy, HalfCopy
    <3>4. x.pc = FastCopy => Moved(x, Source(x), a, n, FALSE) = w /\ Read(x, Source(x) + n - 1) = v
      BY <1>5, <3>3
    <3> QED
      BY <3>2, <3>4
  <2>4. x.pc = WordCopy => Advanced(x, k) = [w EXCEPT !.r[0] = v, !.r[2] = Source(x) + n, !.r[3] = @ - n]
    <3>1. x.pc = WordCopy => Advanced(x, k) = [Moved(x, Source(x), Dest(x), k * Unit(x), FALSE) EXCEPT !.r[0] = Read(x, Source(x) + k * Unit(x) - 1), !.r[2] = Source(x) + k * Unit(x), !.r[3] = @ - k * Unit(x)]
      BY DEF Advanced, FastCopy, FastFill, WordCopy, HalfCopy
    <3> HIDE DEF w, v
    <3>2. x.pc = WordCopy => Advanced(x, k) = [Moved(x, Source(x), a, n, FALSE) EXCEPT !.r[0] = Read(x, Source(x) + n - 1), !.r[2] = Source(x) + n, !.r[3] = @ - n]
      BY <2>1, <3>1
    <3>3. x.pc = WordCopy => x.pc # FastFill
      BY DEF FastCopy, FastFill, WordCopy, HalfCopy
    <3>4. x.pc = WordCopy => Moved(x, Source(x), a, n, FALSE) = w /\ Read(x, Source(x) + n - 1) = v
      BY <1>5, <3>3
    <3> QED
      BY <3>2, <3>4
  <2>5. x.pc = HalfCopy => Advanced(x, k) = [w EXCEPT !.r[2] = Source(x) + n, !.r[12] = v]
    <3>1. x.pc = HalfCopy => Advanced(x, k) = [Moved(x, Source(x), Dest(x), k * Unit(x), FALSE) EXCEPT !.r[2] = Source(x) + k * Unit(x), !.r[12] = Read(x, Source(x) + k * Unit(x) - 1)]
      BY DEF Advanced, FastCopy, FastFill, WordCopy, HalfCopy
    <3> HIDE DEF w, v
    <3>2. x.pc = HalfCopy => Advanced(x, k) = [Moved(x, Source(x), a, n, FALSE) EXCEPT !.r[2] = Source(x) + n, !.r[12] = Read(x, Source(x) + n - 1)]
      BY <2>1, <3>1
    <3>3. x.pc = HalfCopy => x.pc # FastFill
      BY DEF FastCopy, FastFill, WordCopy, HalfCopy
    <3>4. x.pc = HalfCopy => Moved(x, Source(x), a, n, FALSE) = w /\ Read(x, Source(x) + n - 1) = v
      BY <1>5, <3>3
    <3> QED
      BY <3>2, <3>4
  <2> QED
    BY <2>2, <2>3, <2>4, <2>5
<1> HIDE DEF w, v, n, a
<1>7. w \in Machine /\ w.r = x.r
  BY <1>3 DEF Machine
<1>8. Ran(x, n) = [w EXCEPT !.r = RegsAt(x, n)]
  <2> DEFINE g == RegsAt(x, n)
  <2>1. Ran(x, n) = [[x EXCEPT !.mem = MemAt(x, n)] EXCEPT !.r = g]
    BY DEF Ran
  <2> HIDE DEF g
  <2>2. Ran(x, n) = [w EXCEPT !.r = g]
    BY <1>3, <2>1
  <2> QED
    BY <2>2 DEF g
<1>10. CASE x.pc = FastFill
  <2>1. RegsAt(x, n) = [w.r EXCEPT ![1] = @ + n, ![3] = w.r[1] + n, ![4] = @ - n] /\ a = w.r[1]
    BY <1>7, <1>10, RegsAre DEF a, v, Source, DestAt, Fills, FastFill, FastCopy, HalfCopy, WordCopy
  <2>2. Advanced(x, k) = [w EXCEPT !.r[1] = w.r[1] + n, !.r[3] = w.r[1] + n, !.r[4] = @ - n]
    BY <1>6, <1>7, <1>10, <2>1
  <2>3. [w EXCEPT !.r[1] = w.r[1] + n, !.r[3] = w.r[1] + n, !.r[4] = @ - n] = [w EXCEPT !.r = [w.r EXCEPT ![1] = w.r[1] + n, ![3] = w.r[1] + n, ![4] = @ - n]]
    BY <1>7 DEF Machine
  <2>4. [w.r EXCEPT ![1] = @ + n, ![3] = w.r[1] + n, ![4] = @ - n] = [w.r EXCEPT ![1] = w.r[1] + n, ![3] = w.r[1] + n, ![4] = @ - n]
    OBVIOUS
  <2> QED
    BY <1>8, <2>1, <2>2, <2>3, <2>4 DEF n
<1>11. CASE x.pc = FastCopy
  <2>1. RegsAt(x, n) = [w.r EXCEPT ![0] = w.r[3] + n, ![2] = v, ![3] = @ + n, ![4] = @ - n] /\ Source(x) = w.r[3]
    BY <1>7, <1>11, RegsAre DEF a, v, Source, DestAt, Fills, FastFill, FastCopy, HalfCopy, WordCopy
  <2>2. Advanced(x, k) = [w EXCEPT !.r[0] = w.r[3] + n, !.r[2] = v, !.r[3] = w.r[3] + n, !.r[4] = @ - n]
    BY <1>6, <1>7, <1>11, <2>1
  <2>3. [w EXCEPT !.r[0] = w.r[3] + n, !.r[2] = v, !.r[3] = w.r[3] + n, !.r[4] = @ - n] = [w EXCEPT !.r = [w.r EXCEPT ![0] = w.r[3] + n, ![2] = v, ![3] = w.r[3] + n, ![4] = @ - n]]
    BY <1>7 DEF Machine
  <2>4. [w.r EXCEPT ![0] = w.r[3] + n, ![2] = v, ![3] = @ + n, ![4] = @ - n] = [w.r EXCEPT ![0] = w.r[3] + n, ![2] = v, ![3] = w.r[3] + n, ![4] = @ - n]
    OBVIOUS
  <2> QED
    BY <1>8, <2>1, <2>2, <2>3, <2>4 DEF n
<1>12. CASE x.pc = WordCopy
  <2>1. RegsAt(x, n) = [w.r EXCEPT ![0] = v, ![2] = @ + n, ![3] = @ - n] /\ Source(x) = w.r[2]
    BY <1>7, <1>12, RegsAre DEF a, v, Source, DestAt, Fills, FastFill, FastCopy, HalfCopy, WordCopy
  <2>2. Advanced(x, k) = [w EXCEPT !.r[0] = v, !.r[2] = w.r[2] + n, !.r[3] = @ - n]
    BY <1>6, <1>7, <1>12, <2>1
  <2>3. [w EXCEPT !.r[0] = v, !.r[2] = w.r[2] + n, !.r[3] = @ - n] = [w EXCEPT !.r = [w.r EXCEPT ![0] = v, ![2] = w.r[2] + n, ![3] = @ - n]]
    BY <1>7 DEF Machine
  <2>4. [w.r EXCEPT ![0] = v, ![2] = @ + n, ![3] = @ - n] = [w.r EXCEPT ![0] = v, ![2] = w.r[2] + n, ![3] = @ - n]
    OBVIOUS
  <2> QED
    BY <1>8, <2>1, <2>2, <2>3, <2>4 DEF n
<1>13. CASE x.pc = HalfCopy
  <2>1. RegsAt(x, n) = [w.r EXCEPT ![2] = @ + n, ![12] = v] /\ Source(x) = w.r[2]
    BY <1>7, <1>13, RegsAre DEF a, v, Source, DestAt, Fills, FastFill, FastCopy, HalfCopy, WordCopy
  <2>2. Advanced(x, k) = [w EXCEPT !.r[2] = w.r[2] + n, !.r[12] = v]
    BY <1>6, <1>7, <1>13, <2>1
  <2>3. [w EXCEPT !.r[2] = w.r[2] + n, !.r[12] = v] = [w EXCEPT !.r = [w.r EXCEPT ![2] = w.r[2] + n, ![12] = v]]
    BY <1>7 DEF Machine
  <2>4. [w.r EXCEPT ![2] = @ + n, ![12] = v] = [w.r EXCEPT ![2] = w.r[2] + n, ![12] = v]
    OBVIOUS
  <2> QED
    BY <1>8, <2>1, <2>2, <2>3, <2>4 DEF n
<1> QED
  BY <1>10, <1>11, <1>12, <1>13 DEF Tops

-----------------------------------------------------------------------------
(* One round of a loop is a run of its unit.                                *)

\* Induction, with the set of the numbers that have the property.
LEMMA Induction ==
  ASSUME NEW S, 0 \in S, \A k \in Nat : k \in S => k + 1 \in S
  PROVE  Nat \subseteq S
<1> DEFINE T == Nat \ S
<1>1. SUFFICES ASSUME T # {} PROVE FALSE
  OBVIOUS
<1>2. PICK x \in T : \A y \in T : ~(y < x)
  <2>1. T \subseteq Nat
    OBVIOUS
  <2> DEFINE R == {p \in Nat \X Nat : p[1] < p[2]}
  <2>2. IsWellFoundedOn(R, Nat)
    BY NatLessThanWellFounded DEF OpToRel
  <2>4. \A x, y \in Nat : y < x => <<y, x>> \in R
    OBVIOUS
  <2> HIDE DEF T, R
  <2>3. \E x \in T : \A y \in T : ~(<<y, x>> \in R)
    BY <1>1, <2>1, <2>2, WFMin
  <2> QED
    BY <2>1, <2>3, <2>4
<1>3. \A y \in T : ~(y < x)
  BY <1>2
<1>4. x \in Nat /\ x # 0 /\ x - 1 \in Nat
  OBVIOUS
<1>5. x - 1 \in S
  BY <1>3, <1>4
<1>6. (x - 1) + 1 \in S
  BY <1>4, <1>5
<1> QED
  BY <1>4, <1>6

\* One element.
LEMMA OneIs ==
  ASSUME NEW x \in Machine, x.pc \in Loops, RunOk(x, 1)
  PROVE  LET d == DestAt(x)  v == ValueAt(x, 1) IN
         /\ d \in DOMAIN Host /\ Host[d] \in Held /\ v \in Int
         /\ v = IF x.pc \in Fills THEN x.r[2] ELSE Read(x, FromAt(x))
         /\ MemAt(x, 1) = [x.mem EXCEPT ![Host[d]] = v]
         /\ Write(x, d, v) = [x EXCEPT !.mem = MemAt(x, 1)]
<1> DEFINE d == DestAt(x)
           v == ValueAt(x, 1)
           vs == [j \in 1 .. 1 |-> ValueAt(x, j)]
<1>1. d \in Int /\ FromAt(x) \in Int
  BY AtType
<1>2. d \in DOMAIN Host
  <2>1. d \in Span(d, 1)
    BY <1>1 DEF Span
  <2> QED
    BY <2>1 DEF RunOk, Plain, Mapped
<1>3. v \in Int
  <2> DEFINE n == 1
  <2>1. n \in Nat /\ n \in 1 .. n /\ RunOk(x, n)
    OBVIOUS
  <2> HIDE DEF n
  <2>2. ValueAt(x, n) \in Int
    BY <2>1, ValueType
  <2> QED
    BY <2>2 DEF n
<1>4. v = IF x.pc \in Fills THEN x.r[2] ELSE Read(x, FromAt(x))
  <2>1. FromAt(x) + 1 - 1 = FromAt(x)
    BY <1>1
  <2> QED
    BY <2>1 DEF ValueAt
<1>5. DOMAIN vs = 1 .. 1 /\ vs[1] = v
  OBVIOUS
<1>6. MemAt(x, 1) = Writes(x, d, vs).mem
  BY DEF MemAt
<1> HIDE DEF d, v, vs
<1>7. Write(x, d, v) = Writes(x, d, vs)
  BY <1>1, <1>2, <1>3, <1>5, WriteOne
<1>8. /\ Write(x, d, v).mem = [x.mem EXCEPT ![Host[d]] = v]
      /\ Write(x, d, v) = [x EXCEPT !.mem = Write(x, d, v).mem]
  BY <1>2, <1>3, WriteType
<1>9. MemAt(x, 1) = [x.mem EXCEPT ![Host[d]] = v] /\ Write(x, d, v) = [x EXCEPT !.mem = MemAt(x, 1)]
  BY <1>6, <1>7, <1>8
<1> QED
  BY <1>2, <1>3, <1>4, <1>9 DEF Held, d, v

\* The word loop of the fast copy.
MoveOne(y) == [Write(y, y.r[1] + y.r[3], Read(y, y.r[3])) EXCEPT !.r[2] = Read(y, y.r[3]), !.r[3] = @ + 1]
MoveLoop(f, s, n) == f = [k \in 0 .. n |-> IF k = 0 THEN s ELSE MoveOne(f[k - 1])]
MoveStart(x) == [x EXCEPT !.r[0] = x.r[3] + Chunk]
MoveLess(y) == [y EXCEPT !.r[4] = @ - Chunk]
MoveEnd(y) == [y EXCEPT !.pc = IF y.r[4] > 0 THEN FastCopy ELSE FastExit]

LEMMA MoveLoops ==
  ASSUME NEW x
  PROVE  \E f : /\ MoveLoop(f, MoveStart(x), Chunk)
                /\ FastCopied(x).x = MoveEnd(MoveLess(f[Chunk]))
<1> DEFINE s == MoveStart(x)
           S == {n \in Nat : \E f : MoveLoop(f, s, n)}
<1> HIDE DEF s
<1>1. 0 \in S
  <2>1. MoveLoop([k \in 0 .. 0 |-> s], s, 0)
    BY DEF MoveLoop
  <2> QED
    BY <2>1
<1>2. ASSUME NEW n \in Nat, n \in S
      PROVE  n + 1 \in S
  <2>1. PICK f : MoveLoop(f, s, n)
    BY <1>2
  <2> DEFINE g == [k \in 0 .. n + 1 |-> IF k <= n THEN f[k] ELSE MoveOne(f[n])]
  <2>2. ASSUME NEW k \in 0 .. n + 1
        PROVE  g[k] = IF k = 0 THEN s ELSE MoveOne(g[k - 1])
    <3>1. CASE k = 0
      BY <2>1, <3>1 DEF MoveLoop
    <3>2. CASE k # 0 /\ k <= n
      <4>1. k \in 0 .. n /\ k - 1 \in 0 .. n /\ k - 1 \in 0 .. n + 1
        BY <3>2
      <4>2. g[k] = f[k] /\ g[k - 1] = f[k - 1]
        BY <3>2, <4>1
      <4>3. f[k] = MoveOne(f[k - 1])
        BY <2>1, <3>2, <4>1 DEF MoveLoop
      <4> QED
        BY <3>2, <4>2, <4>3
    <3>3. CASE k = n + 1
      <4>1. k # 0 /\ ~(k <= n) /\ k - 1 = n /\ n \in 0 .. n + 1
        BY <3>3
      <4>2. g[k] = MoveOne(f[n]) /\ g[n] = f[n]
        BY <4>1
      <4> QED
        BY <3>3, <4>1, <4>2
    <3> QED
      BY <3>1, <3>2, <3>3
  <2>3. MoveLoop(g, s, n + 1)
    <3>1. g = [k \in 0 .. n + 1 |-> g[k]]
      OBVIOUS
    <3> HIDE DEF g
    <3> QED
      BY <2>2, <3>1 DEF MoveLoop
  <2> QED
    BY <2>3
<1> HIDE DEF S
<1>3. Nat \subseteq S
  BY <1>1, <1>2, Induction
<1>4. PICK h : MoveLoop(h, s, Chunk)
  BY <1>3, ChunkMoves DEF S
<1> DEFINE F == CHOOSE f : MoveLoop(f, s, Chunk)
           z == MoveLess(F[Chunk])
           c == (4 + 7 * Chunk) * Fetch + Chunk * (Cost(x.r[3]) + Cost(x.r[1] + x.r[3])) + (Chunk - 1) * Branch
<1>5. MoveLoop(F, s, Chunk)
  BY <1>4
<1>6. FastCopied(x) = Again(z, z.r[4] > 0, FastCopy, FastExit, c, TRUE)
  BY DEF FastCopied, MoveOne, MoveStart, MoveLoop, MoveLess, s
<1> HIDE DEF z, c
<1>7. FastCopied(x).x = MoveEnd(z)
  BY <1>6 DEF Again, Stepped, MoveEnd
<1> HIDE DEF F
<1> QED
  BY <1>5, <1>7 DEF z, s

\* New memory and registers.
Remade(x, mem, r) == [[x EXCEPT !.mem = mem] EXCEPT !.r = r]
Carry(x, k) ==
  Remade(x, MemAt(x, k), [x.r EXCEPT ![0] = x.r[3] + Chunk, ![2] = ValueAt(x, k), ![3] = x.r[3] + k])

LEMMA RemadeIs ==
  ASSUME NEW x \in Machine, NEW mem, NEW r
  PROVE  /\ Remade(x, mem, r).mem = mem /\ Remade(x, mem, r).r = r
         /\ Remade(x, mem, r).pc = x.pc /\ Remade(x, mem, r).cpsr = x.cpsr /\ Remade(x, mem, r).num = x.num
         /\ Remade(x, mem, r).bank = x.bank
         /\ mem \in [Held -> Int] /\ r \in [Regs -> Int] => Remade(x, mem, r) \in Machine
BY DEF Remade, Machine

LEMMA RemadeTwice ==
  ASSUME NEW x \in Machine, NEW p, NEW q, NEW mem, NEW r
  PROVE  Remade(Remade(x, p, q), mem, r) = Remade(x, mem, r)
BY DEF Remade, Machine

LEMMA MoveOneIs ==
  ASSUME NEW y \in Machine
  PROVE  MoveOne(y) = Remade(y, [y.mem EXCEPT ![Host[y.r[1] + y.r[3]]] = Read(y, y.r[3])],
                             [y.r EXCEPT ![2] = Read(y, y.r[3]), ![3] = y.r[3] + 1])
<1> DEFINE a == y.r[1] + y.r[3]
           v == Read(y, y.r[3])
           q == [y.mem EXCEPT ![Host[a]] = v]
<1>1. MoveOne(y) = [Write(y, a, v) EXCEPT !.r[2] = v, !.r[3] = @ + 1]
  BY DEF MoveOne
<1>2. Write(y, a, v) = [y EXCEPT !.mem = q]
  BY DEF Write
<1>3. MoveOne(y) = [[y EXCEPT !.mem = q] EXCEPT !.r[2] = v, !.r[3] = @ + 1]
  BY <1>1, <1>2
<1> HIDE DEF q, v
<1>4. [[y EXCEPT !.mem = q] EXCEPT !.r[2] = v, !.r[3] = @ + 1]
        = [[y EXCEPT !.mem = q] EXCEPT !.r = [y.r EXCEPT ![2] = v, ![3] = y.r[3] + 1]]
  BY DEF Machine, Regs
<1> QED
  BY <1>3, <1>4 DEF q, v, Remade

LEMMA CarryFirst ==
  ASSUME NEW x \in Machine, x.pc = FastCopy, RunOk(x, 1)
  PROVE  MoveOne(MoveStart(x)) = Carry(x, 1)
<1> DEFINE y == MoveStart(x)
           d == DestAt(x)
           v == ValueAt(x, 1)
<1>1. x.pc \in Loops /\ x.pc \notin Fills /\ FromAt(x) = x.r[3] /\ d = x.r[1] + x.r[3]
  BY DEF Loops, Fills, FromAt, DestAt, FastCopy, FastFill, HalfFill, WordFill
<1>2. MemAt(x, 1) = [x.mem EXCEPT ![Host[d]] = v] /\ v = Read(x, x.r[3]) /\ v \in Int
  BY <1>1, OneIs
<1>3. /\ y \in Machine /\ y = Remade(x, x.mem, [x.r EXCEPT ![0] = x.r[3] + Chunk])
      /\ y.mem = x.mem /\ y.r = [x.r EXCEPT ![0] = x.r[3] + Chunk]
  <2> DEFINE q == [x.r EXCEPT ![0] = x.r[3] + Chunk]
  <2>1. x.r \in [Regs -> Int] /\ x.r[3] \in Int /\ x.mem \in [Held -> Int]
    BY RegType DEF Machine
  <2>2. q \in [Regs -> Int]
    <3>1. x.r[3] + Chunk \in Int
      BY <2>1, ChunkMoves
    <3>2. \A e \in Int : [x.r EXCEPT ![0] = e] \in [Regs -> Int]
      BY <2>1
    <3> QED
      BY <3>1, <3>2
  <2>3. y = [x EXCEPT !.r = q]
    BY DEF MoveStart
  <2> HIDE DEF q, y
  <2>4. y = Remade(x, x.mem, q)
    BY <2>3 DEF Remade, Machine
  <2> QED
    BY <2>1, <2>2, <2>4, RemadeIs DEF q
<1>4. y.r[1] = x.r[1] /\ y.r[3] = x.r[3]
  BY <1>3 DEF Machine, Regs
<1>5. Read(y, y.r[3]) = v
  BY <1>2, <1>3, <1>4 DEF Read
<1> HIDE DEF y, v, d
<1> DEFINE q == [y.r EXCEPT ![2] = v, ![3] = x.r[3] + 1]
<1>7. MoveOne(y) = Remade(y, MemAt(x, 1), q)
  <2>1. MoveOne(y) = Remade(y, [y.mem EXCEPT ![Host[y.r[1] + y.r[3]]] = Read(y, y.r[3])],
                            [y.r EXCEPT ![2] = Read(y, y.r[3]), ![3] = y.r[3] + 1])
    BY <1>3, MoveOneIs
  <2> QED
    BY <1>1, <1>2, <1>3, <1>4, <1>5, <2>1
<1>9. q = [x.r EXCEPT ![0] = x.r[3] + Chunk, ![2] = v, ![3] = x.r[3] + 1]
  BY <1>3
<1> HIDE DEF q
<1>8. Remade(y, MemAt(x, 1), q) = Remade(x, MemAt(x, 1), q)
  BY <1>3, RemadeTwice
<1> QED
  BY <1>7, <1>8, <1>9 DEF Carry, y, v

LEMMA CarryNext ==
  ASSUME NEW x \in Machine, x.pc = FastCopy, NEW k \in Nat \ {0}, RunOk(x, k + 1)
  PROVE  MoveOne(Carry(x, k)) = Carry(x, k + 1)
<1> DEFINE y == Carry(x, k)
           z == Ran(x, k)
           n == k + 1
           d == DestAt(z)
           v == ValueAt(x, n)
           w == ValueAt(x, k)
<1>1. x.pc \in Loops /\ x.pc \notin Fills
  BY DEF Loops, Fills, FastCopy, FastFill, HalfFill, WordFill
<1>2. RunOk(x, k) /\ RunOk(z, 1) /\ Ran(z, 1) = Ran(x, n) /\ n \in Nat \ {0} /\ RunOk(x, n)
  <2> DEFINE p == 1
  <2>1. p \in Nat \ {0} /\ RunOk(x, k + p)
    OBVIOUS
  <2> HIDE DEF p, z
  <2>2. RunOk(x, k) /\ RunOk(Ran(x, k), p) /\ Ran(Ran(x, k), p) = Ran(x, k + p)
    BY <1>1, <2>1, RanJoin
  <2> QED
    BY <2>2 DEF p, z
<1>3. /\ z \in Machine /\ z.pc = FastCopy /\ z.r = RegsAt(x, k) /\ z.mem = MemAt(x, k)
      /\ Ran(x, n).mem = MemAt(x, n) /\ Ran(x, n).r = RegsAt(x, n)
  <2> HIDE DEF n, z
  <2> QED
    BY <1>1, <1>2, RanType DEF z
<1>4. z.pc \in Loops /\ z.pc \notin Fills /\ FromAt(z) = z.r[3] /\ d = z.r[1] + z.r[3]
  BY <1>1, <1>3 DEF FromAt, DestAt
<1> HIDE DEF z, n, y, d
<1>5. Ran(z, 1).mem = MemAt(z, 1) /\ Ran(z, 1).r = RegsAt(z, 1)
  <2> DEFINE p == 1
  <2>1. p \in Nat \ {0} /\ RunOk(z, p)
    BY <1>2
  <2> HIDE DEF p
  <2>2. Ran(z, p).mem = MemAt(z, p) /\ Ran(z, p).r = RegsAt(z, p)
    BY <1>3, <1>4, <2>1, RanType
  <2> QED
    BY <2>2 DEF p
<1>6. MemAt(z, 1) = MemAt(x, n) /\ RegsAt(z, 1) = RegsAt(x, n)
  BY <1>2, <1>3, <1>5
<1>7. RegsAt(x, k) = [x.r EXCEPT ![0] = x.r[3] + k, ![2] = w, ![3] = @ + k, ![4] = @ - k]
  BY RegsAre
<1>8. RegsAt(x, n) = [x.r EXCEPT ![0] = x.r[3] + n, ![2] = v, ![3] = @ + n, ![4] = @ - n]
  BY RegsAre
<1>9. RegsAt(z, 1) = [z.r EXCEPT ![0] = z.r[3] + 1, ![2] = ValueAt(z, 1), ![3] = @ + 1, ![4] = @ - 1]
  BY <1>3, RegsAre
<1>10. MemAt(z, 1) = [z.mem EXCEPT ![Host[d]] = ValueAt(z, 1)] /\ ValueAt(z, 1) = Read(z, z.r[3])
  BY <1>2, <1>3, <1>4, OneIs DEF d
<1>11. v \in Int /\ w \in Int /\ x.r \in [Regs -> Int] /\ x.r[3] \in Int
  <2>1. n \in 1 .. n /\ k \in 1 .. k
    BY <1>2
  <2> QED
    BY <1>1, <1>2, <2>1, ValueType, RegType DEF Machine
<1> HIDE DEF v, w
<1>12. ValueAt(z, 1) = v
  <2>1. RegsAt(z, 1)[2] = ValueAt(z, 1)
    BY <1>3, <1>7, <1>9, <1>11 DEF Regs
  <2>2. RegsAt(x, n)[2] = v
    BY <1>8, <1>11 DEF Regs
  <2> QED
    BY <1>6, <2>1, <2>2
<1> DEFINE g == [x.r EXCEPT ![0] = x.r[3] + Chunk, ![2] = w, ![3] = x.r[3] + k]
<1>13. y = Remade(x, MemAt(x, k), g)
  BY DEF y, Carry, w
<1>14. g \in [Regs -> Int] /\ MemAt(x, k) \in [Held -> Int]
  <2>1. z.mem \in [Held -> Int]
    BY <1>3 DEF Machine
  <2>2. x.r[3] + Chunk \in Int /\ x.r[3] + k \in Int
    BY <1>11, ChunkMoves
  <2>3. \A e, f \in Int : [x.r EXCEPT ![0] = e, ![2] = w, ![3] = f] \in [Regs -> Int]
    BY <1>11
  <2> QED
    BY <1>3, <2>1, <2>2, <2>3
<1>15. g[1] = z.r[1] /\ g[3] = z.r[3] /\ g[3] = x.r[3] + k
  BY <1>3, <1>7, <1>11 DEF Regs
<1>16. [g EXCEPT ![2] = v, ![3] = g[3] + 1] = [x.r EXCEPT ![0] = x.r[3] + Chunk, ![2] = v, ![3] = x.r[3] + n]
  <2>1. g[3] + 1 = x.r[3] + n
    BY <1>11, <1>15 DEF n
  <2> QED
    BY <1>11, <2>1
<1> HIDE DEF g
<1>17. y \in Machine /\ y.r = g /\ y.mem = z.mem
  BY <1>3, <1>13, <1>14, RemadeIs
<1>18. Read(y, y.r[3]) = v /\ d = y.r[1] + y.r[3]
  BY <1>4, <1>10, <1>12, <1>15, <1>17 DEF Read
<1> DEFINE q == [g EXCEPT ![2] = v, ![3] = g[3] + 1]
<1>19. MoveOne(y) = Remade(y, MemAt(x, n), q)
  <2>1. MoveOne(y) = Remade(y, [y.mem EXCEPT ![Host[y.r[1] + y.r[3]]] = Read(y, y.r[3])],
                            [y.r EXCEPT ![2] = Read(y, y.r[3]), ![3] = y.r[3] + 1])
    BY <1>17, MoveOneIs
  <2> QED
    BY <1>6, <1>10, <1>12, <1>17, <1>18, <2>1
<1> HIDE DEF q
<1>20. Remade(y, MemAt(x, n), q) = Remade(x, MemAt(x, n), q)
  BY <1>13, RemadeTwice
<1> QED
  BY <1>16, <1>19, <1>20 DEF Carry, y, v, n, q

LEMMA RunOkLess ==
  ASSUME NEW x \in Machine, x.pc \in Loops, NEW n \in Nat, NEW p \in Nat, p <= n, RunOk(x, n)
  PROVE  RunOk(x, p)
<1>1. DestAt(x) \in Int /\ FromAt(x) \in Int
  BY AtType
<1>2. /\ \A i \in Span(DestAt(x), p) : i \in Span(DestAt(x), n)
      /\ \A i \in Span(FromAt(x), p) : i \in Span(FromAt(x), n)
  BY <1>1 DEF Span
<1> QED
  BY <1>2 DEF RunOk, Plain, Mapped

LEMMA CarryIs ==
  ASSUME NEW x \in Machine, x.pc = FastCopy, RunOk(x, Chunk), NEW f, MoveLoop(f, MoveStart(x), Chunk)
  PROVE  f[Chunk] = Carry(x, Chunk)
<1>1. x.pc \in Loops
  BY DEF Loops
<1>2. Chunk \in Nat /\ Chunk >= 1
  BY ChunkMoves
<1>3. \A k \in 0 .. Chunk : f[k] = IF k = 0 THEN MoveStart(x) ELSE MoveOne(f[k - 1])
  BY DEF MoveLoop
<1> DEFINE S == {k \in Nat : k + 1 <= Chunk => f[k + 1] = Carry(x, k + 1)}
<1>4. 0 \in S
  <2>1. RunOk(x, 1)
    <3> DEFINE p == 1
    <3>1. p \in Nat /\ p <= Chunk
      BY <1>2
    <3> HIDE DEF p
    <3>2. RunOk(x, p)
      BY <1>1, <1>2, <3>1, RunOkLess
    <3> QED
      BY <3>2 DEF p
  <2>2. f[1] = MoveOne(f[0]) /\ f[0] = MoveStart(x)
    BY <1>2, <1>3
  <2>3. f[1] = Carry(x, 1)
    BY <2>1, <2>2, CarryFirst
  <2> QED
    BY <2>3
<1>5. ASSUME NEW k \in Nat, k \in S PROVE k + 1 \in S
  <2> SUFFICES ASSUME k + 1 + 1 <= Chunk PROVE f[k + 1 + 1] = Carry(x, k + 1 + 1)
    OBVIOUS
  <2> DEFINE n == k + 1
  <2>1. n \in Nat \ {0} /\ n + 1 \in Nat /\ n + 1 <= Chunk /\ n + 1 \in 0 .. Chunk /\ n + 1 # 0 /\ (n + 1) - 1 = n
    BY <1>2
  <2>2. f[n] = Carry(x, n)
    BY <1>2, <1>5
  <2> HIDE DEF n, S
  <2>3. RunOk(x, n + 1)
    <3> DEFINE p == n + 1
    <3>1. p \in Nat /\ p <= Chunk
      BY <2>1
    <3> HIDE DEF p
    <3>2. RunOk(x, p)
      BY <1>1, <1>2, <3>1, RunOkLess
    <3> QED
      BY <3>2 DEF p
  <2>4. MoveOne(Carry(x, n)) = Carry(x, n + 1)
    BY <2>1, <2>3, CarryNext
  <2>5. f[n + 1] = MoveOne(f[n])
    BY <1>3, <2>1
  <2> QED
    BY <2>2, <2>4, <2>5 DEF n
<1> HIDE DEF S
<1>6. Nat \subseteq S
  BY <1>4, <1>5, Induction
<1>7. Chunk - 1 \in S /\ (Chunk - 1) + 1 = Chunk
  BY <1>2, <1>6
<1> QED
  BY <1>2, <1>7 DEF S

LEMMA RanLeft ==
  ASSUME NEW x \in Machine, x.pc \in Loops, NEW n \in Nat \ {0}, RunOk(x, n)
  PROVE  /\ LeftAt(Ran(x, n)) = LeftAt(x) - n
         /\ DestAt(Ran(x, n)) = DestAt(x) + n
         /\ x.pc \notin Fills => FromAt(Ran(x, n)) = FromAt(x) + n
<1> DEFINE y == Ran(x, n)
<1>1. y.pc = x.pc /\ y.r = RegsAt(x, n)
  BY RanType
<1>2. /\ x.r \in [Regs -> Int] /\ x.r[0] \in Int /\ x.r[1] \in Int /\ x.r[2] \in Int /\ x.r[3] \in Int /\ x.r[4] \in Int
      /\ ValueAt(x, n) \in Int
  BY RegType, ValueType DEF Machine
<1> HIDE DEF y
<1>3. /\ LeftAt(y) = LeftAt(x) - n
      /\ DestAt(y) = DestAt(x) + n
      /\ x.pc \notin Fills => FromAt(y) = FromAt(x) + n
  <2>1. CASE x.pc = HalfCopy
    BY <1>1, <1>2, <2>1 DEF RegsAt, Regs, DestAt, FromAt, LeftAt, Fills, Fasts, HalfCopy, WordCopy, HalfFill, WordFill, FastCopy, FastFill
  <2>2. CASE x.pc = WordCopy
    BY <1>1, <1>2, <2>2 DEF RegsAt, Regs, DestAt, FromAt, LeftAt, Fills, Fasts, HalfCopy, WordCopy, HalfFill, WordFill, FastCopy, FastFill
  <2>3. CASE x.pc = HalfFill
    BY <1>1, <1>2, <2>3 DEF RegsAt, Regs, DestAt, FromAt, LeftAt, Fills, Fasts, HalfCopy, WordCopy, HalfFill, WordFill, FastCopy, FastFill
  <2>4. CASE x.pc = WordFill
    BY <1>1, <1>2, <2>4 DEF RegsAt, Regs, DestAt, FromAt, LeftAt, Fills, Fasts, HalfCopy, WordCopy, HalfFill, WordFill, FastCopy, FastFill
  <2>5. CASE x.pc = FastCopy
    BY <1>1, <1>2, <2>5 DEF RegsAt, Regs, DestAt, FromAt, LeftAt, Fills, Fasts, HalfCopy, WordCopy, HalfFill, WordFill, FastCopy, FastFill
  <2>6. CASE x.pc = FastFill
    BY <1>1, <1>2, <2>6 DEF RegsAt, Regs, DestAt, FromAt, LeftAt, Fills, Fasts, HalfCopy, WordCopy, HalfFill, WordFill, FastCopy, FastFill
  <2> QED
    BY <2>1, <2>2, <2>3, <2>4, <2>5, <2>6 DEF Loops, Fills
<1> QED
  BY <1>3 DEF y

LEMMA SettledIs ==
  ASSUME NEW y \in Machine, y.pc \in Loops
  PROVE  /\ y.pc = HalfCopy => Settled(y) = [y EXCEPT !.pc = IF LeftAt(y) > 0 THEN HalfCopy ELSE SetExit]
         /\ y.pc = WordCopy => Settled(y) = [y EXCEPT !.pc = IF LeftAt(y) > 0 THEN WordCopy ELSE SetExit]
         /\ y.pc = HalfFill => Settled(y) = [y EXCEPT !.pc = IF LeftAt(y) > 0 THEN HalfFill ELSE SetExit]
         /\ y.pc = WordFill => Settled(y) = [y EXCEPT !.pc = IF LeftAt(y) > 0 THEN WordFill ELSE SetExit]
         /\ y.pc = FastCopy => Settled(y) = [y EXCEPT !.pc = IF LeftAt(y) > 0 THEN FastCopy ELSE FastExit]
         /\ y.pc = FastFill => Settled(y) = [y EXCEPT !.pc = IF LeftAt(y) > 0 THEN FastFill ELSE FastExit]
<1>1. OutOf(HalfCopy) = SetExit /\ OutOf(WordCopy) = SetExit /\ OutOf(HalfFill) = SetExit /\ OutOf(WordFill) = SetExit
      /\ OutOf(FastCopy) = FastExit /\ OutOf(FastFill) = FastExit
  BY DEF OutOf, Fasts, HalfCopy, WordCopy, HalfFill, WordFill, FastCopy, FastFill
<1>2. LeftAt(y) \in Int
  BY AtType
<1>3. LeftAt(y) > 0 => Settled(y) = [y EXCEPT !.pc = y.pc]
  BY <1>2 DEF Settled, Machine
<1>4. ~(LeftAt(y) > 0) => Settled(y) = [y EXCEPT !.pc = OutOf(y.pc)]
  BY <1>2 DEF Settled
<1> QED
  BY <1>1, <1>3, <1>4

LEMMA HalfCopiedIs ==
  ASSUME NEW x \in Machine, x.pc = HalfCopy, RunOk(x, 1), LeftAt(x) > 0
  PROVE  HalfCopied(x).x = Settled(Ran(x, 1))
<1> DEFINE v == Read(x, x.r[2])
           a == x.r[1] + x.r[2]
           w == Write(x, a, v)
           y == [w EXCEPT !.r[12] = v, !.r[2] = @ + 1]
           c == 7 * Fetch + Cost(x.r[2]) + Cost(x.r[1] + x.r[2])
<1>1. x.pc \in Loops /\ DestAt(x) = a /\ ValueAt(x, 1) = v /\ v \in Int
  <2>1. x.pc \in Loops /\ (x.pc \in Fills <=> FALSE) /\ FromAt(x) = x.r[2]
    BY DEF Loops, Fills, FromAt, HalfCopy, WordCopy, HalfFill, WordFill, FastCopy, FastFill
  <2>2. DestAt(x) = a
    BY <2>1 DEF DestAt
  <2> QED
    BY <2>1, <2>2, OneIs
<1>2. HalfCopied(x) = Again(y, y.r[2] # y.r[3], HalfCopy, SetExit, c, FALSE)
  BY DEF HalfCopied
<1>3. w = [x EXCEPT !.mem = MemAt(x, 1)]
  BY <1>1, OneIs
<1>4. w \in Machine /\ w.r = x.r
  <2>1. a \in DOMAIN Host /\ v \in Int /\ w = Write(x, a, v)
    BY <1>1, OneIs
  <2> HIDE DEF a, v, w
  <2>a. Write(x, a, v) \in Machine
    BY <2>1, WriteType
  <2>b. Write(x, a, v).r = x.r
    BY DEF Write, Machine
  <2>2. w \in Machine /\ w.r = x.r
    BY <2>1, <2>a, <2>b
  <2> QED
    BY <2>2
<1> HIDE DEF v, a, w
<1>5. y = [w EXCEPT !.r = [w.r EXCEPT ![12] = v, ![2] = @ + 1]]
  BY <1>4 DEF Machine, Regs
<1>6. [w.r EXCEPT ![12] = v, ![2] = @ + 1] = RegsAt(x, 1)
  <2>1. RegsAt(x, 1) = [x.r EXCEPT ![2] = @ + 1, ![12] = v]
    BY <1>1, RegsAre
  <2> QED
    BY <1>4, <2>1 DEF Machine, Regs
<1> HIDE DEF c, y
<1>7. y = Ran(x, 1)
  BY <1>3, <1>5, <1>6 DEF Ran
<1>8. y \in Machine /\ y.pc = HalfCopy /\ LeftAt(y) = LeftAt(x) - 1
  <2> DEFINE n == 1
  <2>1. n \in Nat \ {0} /\ RunOk(x, n)
    OBVIOUS
  <2> HIDE DEF n
  <2>2. Ran(x, n) \in Machine /\ Ran(x, n).pc = x.pc /\ LeftAt(Ran(x, n)) = LeftAt(x) - n
    BY <1>1, <2>1, RanType, RanLeft
  <2> QED
    BY <1>7, <2>2 DEF n
<1>9. LeftAt(x) \in Int /\ LeftAt(y) = y.r[3] - y.r[2]
  BY <1>1, <1>8, AtType DEF LeftAt, Fasts, HalfCopy, WordCopy, HalfFill, WordFill, FastCopy, FastFill
<1>10. y.r[2] # y.r[3] <=> LeftAt(y) > 0
  <2>1. y.r[1] \in Int /\ y.r[2] \in Int /\ y.r[3] \in Int
    BY <1>8, RegType
  <2> QED
    BY <1>8, <1>9, <2>1
<1>11. y.pc \in Loops
  BY <1>8 DEF Loops, Fills
<1>12. Settled(y) = [y EXCEPT !.pc = IF LeftAt(y) > 0 THEN HalfCopy ELSE SetExit]
  BY <1>8, <1>11, SettledIs
<1>13. HalfCopied(x).x = [y EXCEPT !.pc = IF LeftAt(y) > 0 THEN HalfCopy ELSE SetExit]
  <2>1. CASE LeftAt(y) > 0
    BY <1>2, <1>10, <2>1 DEF Again, Stepped
  <2>2. CASE ~(LeftAt(y) > 0)
    BY <1>2, <1>10, <2>2 DEF Again, Stepped
  <2> QED
    BY <2>1, <2>2
<1> QED
  BY <1>7, <1>12, <1>13

LEMMA WordCopiedIs ==
  ASSUME NEW x \in Machine, x.pc = WordCopy, RunOk(x, 1), LeftAt(x) > 0
  PROVE  WordCopied(x).x = Settled(Ran(x, 1))
<1> DEFINE v == Read(x, x.r[2])
           a == x.r[1] + x.r[2]
           w == Write(x, a, v)
           y == [w EXCEPT !.r[0] = v, !.r[2] = @ + 1, !.r[3] = @ - 1]
           c == 7 * Fetch + Cost(x.r[2]) + Cost(x.r[1] + x.r[2])
<1>1. x.pc \in Loops /\ DestAt(x) = a /\ ValueAt(x, 1) = v /\ v \in Int
  <2>1. x.pc \in Loops /\ (x.pc \in Fills <=> FALSE) /\ FromAt(x) = x.r[2]
    BY DEF Loops, Fills, FromAt, HalfCopy, WordCopy, HalfFill, WordFill, FastCopy, FastFill
  <2>2. DestAt(x) = a
    BY <2>1 DEF DestAt
  <2> QED
    BY <2>1, <2>2, OneIs
<1>2. WordCopied(x) = Again(y, y.r[3] # 0, WordCopy, SetExit, c, TRUE)
  BY DEF WordCopied
<1>3. w = [x EXCEPT !.mem = MemAt(x, 1)]
  BY <1>1, OneIs
<1>4. w \in Machine /\ w.r = x.r
  <2>1. a \in DOMAIN Host /\ v \in Int /\ w = Write(x, a, v)
    BY <1>1, OneIs
  <2> HIDE DEF a, v, w
  <2>a. Write(x, a, v) \in Machine
    BY <2>1, WriteType
  <2>b. Write(x, a, v).r = x.r
    BY DEF Write, Machine
  <2>2. w \in Machine /\ w.r = x.r
    BY <2>1, <2>a, <2>b
  <2> QED
    BY <2>2
<1> HIDE DEF v, a, w
<1>5. y = [w EXCEPT !.r = [w.r EXCEPT ![0] = v, ![2] = @ + 1, ![3] = @ - 1]]
  BY <1>4 DEF Machine, Regs
<1>6. [w.r EXCEPT ![0] = v, ![2] = @ + 1, ![3] = @ - 1] = RegsAt(x, 1)
  <2>1. RegsAt(x, 1) = [x.r EXCEPT ![0] = v, ![2] = @ + 1, ![3] = @ - 1]
    BY <1>1, RegsAre
  <2> QED
    BY <1>4, <2>1 DEF Machine, Regs
<1> HIDE DEF c, y
<1>7. y = Ran(x, 1)
  BY <1>3, <1>5, <1>6 DEF Ran
<1>8. y \in Machine /\ y.pc = WordCopy /\ LeftAt(y) = LeftAt(x) - 1
  <2> DEFINE n == 1
  <2>1. n \in Nat \ {0} /\ RunOk(x, n)
    OBVIOUS
  <2> HIDE DEF n
  <2>2. Ran(x, n) \in Machine /\ Ran(x, n).pc = x.pc /\ LeftAt(Ran(x, n)) = LeftAt(x) - n
    BY <1>1, <2>1, RanType, RanLeft
  <2> QED
    BY <1>7, <2>2 DEF n
<1>9. LeftAt(x) \in Int /\ LeftAt(y) = y.r[3]
  BY <1>1, <1>8, AtType DEF LeftAt, Fasts, HalfCopy, WordCopy, HalfFill, WordFill, FastCopy, FastFill
<1>10. y.r[3] # 0 <=> LeftAt(y) > 0
  <2>1. y.r[1] \in Int /\ y.r[2] \in Int /\ y.r[3] \in Int
    BY <1>8, RegType
  <2> QED
    BY <1>8, <1>9, <2>1
<1>11. y.pc \in Loops
  BY <1>8 DEF Loops, Fills
<1>12. Settled(y) = [y EXCEPT !.pc = IF LeftAt(y) > 0 THEN WordCopy ELSE SetExit]
  BY <1>8, <1>11, SettledIs
<1>13. WordCopied(x).x = [y EXCEPT !.pc = IF LeftAt(y) > 0 THEN WordCopy ELSE SetExit]
  <2>1. CASE LeftAt(y) > 0
    BY <1>2, <1>10, <2>1 DEF Again, Stepped
  <2>2. CASE ~(LeftAt(y) > 0)
    BY <1>2, <1>10, <2>2 DEF Again, Stepped
  <2> QED
    BY <2>1, <2>2
<1> QED
  BY <1>7, <1>12, <1>13

LEMMA HalfFilledIs ==
  ASSUME NEW x \in Machine, x.pc = HalfFill, RunOk(x, 1), LeftAt(x) > 0
  PROVE  HalfFilled(x).x = Settled(Ran(x, 1))
<1> DEFINE v == x.r[2]
           a == x.r[1]
           w == Write(x, a, v)
           y == [w EXCEPT !.r[1] = @ + 1]
           c == 3 * Fetch + Cost(x.r[1])
<1>1. x.pc \in Loops /\ DestAt(x) = a /\ ValueAt(x, 1) = v /\ v \in Int
  <2>1. x.pc \in Loops /\ (x.pc \in Fills <=> TRUE) /\ FromAt(x) = x.r[2]
    BY DEF Loops, Fills, FromAt, HalfCopy, WordCopy, HalfFill, WordFill, FastCopy, FastFill
  <2>2. DestAt(x) = a
    BY <2>1 DEF DestAt
  <2> QED
    BY <2>1, <2>2, OneIs
<1>2. HalfFilled(x) = Again(y, y.r[1] # y.r[3], HalfFill, SetExit, c, TRUE)
  BY DEF HalfFilled
<1>3. w = [x EXCEPT !.mem = MemAt(x, 1)]
  BY <1>1, OneIs
<1>4. w \in Machine /\ w.r = x.r
  <2>1. a \in DOMAIN Host /\ v \in Int /\ w = Write(x, a, v)
    BY <1>1, OneIs
  <2> HIDE DEF a, v, w
  <2>a. Write(x, a, v) \in Machine
    BY <2>1, WriteType
  <2>b. Write(x, a, v).r = x.r
    BY DEF Write, Machine
  <2>2. w \in Machine /\ w.r = x.r
    BY <2>1, <2>a, <2>b
  <2> QED
    BY <2>2
<1> HIDE DEF v, a, w
<1>5. y = [w EXCEPT !.r = [w.r EXCEPT ![1] = @ + 1]]
  BY <1>4 DEF Machine, Regs
<1>6. [w.r EXCEPT ![1] = @ + 1] = RegsAt(x, 1)
  <2>1. RegsAt(x, 1) = [x.r EXCEPT ![1] = @ + 1]
    BY <1>1, RegsAre
  <2> QED
    BY <1>4, <2>1 DEF Machine, Regs
<1> HIDE DEF c, y
<1>7. y = Ran(x, 1)
  BY <1>3, <1>5, <1>6 DEF Ran
<1>8. y \in Machine /\ y.pc = HalfFill /\ LeftAt(y) = LeftAt(x) - 1
  <2> DEFINE n == 1
  <2>1. n \in Nat \ {0} /\ RunOk(x, n)
    OBVIOUS
  <2> HIDE DEF n
  <2>2. Ran(x, n) \in Machine /\ Ran(x, n).pc = x.pc /\ LeftAt(Ran(x, n)) = LeftAt(x) - n
    BY <1>1, <2>1, RanType, RanLeft
  <2> QED
    BY <1>7, <2>2 DEF n
<1>9. LeftAt(x) \in Int /\ LeftAt(y) = y.r[3] - y.r[1]
  BY <1>1, <1>8, AtType DEF LeftAt, Fasts, HalfCopy, WordCopy, HalfFill, WordFill, FastCopy, FastFill
<1>10. y.r[1] # y.r[3] <=> LeftAt(y) > 0
  <2>1. y.r[1] \in Int /\ y.r[2] \in Int /\ y.r[3] \in Int
    BY <1>8, RegType
  <2> QED
    BY <1>8, <1>9, <2>1
<1>11. y.pc \in Loops
  BY <1>8 DEF Loops, Fills
<1>12. Settled(y) = [y EXCEPT !.pc = IF LeftAt(y) > 0 THEN HalfFill ELSE SetExit]
  BY <1>8, <1>11, SettledIs
<1>13. HalfFilled(x).x = [y EXCEPT !.pc = IF LeftAt(y) > 0 THEN HalfFill ELSE SetExit]
  <2>1. CASE LeftAt(y) > 0
    BY <1>2, <1>10, <2>1 DEF Again, Stepped
  <2>2. CASE ~(LeftAt(y) > 0)
    BY <1>2, <1>10, <2>2 DEF Again, Stepped
  <2> QED
    BY <2>1, <2>2
<1> QED
  BY <1>7, <1>12, <1>13

LEMMA WordFilledIs ==
  ASSUME NEW x \in Machine, x.pc = WordFill, RunOk(x, 1), LeftAt(x) > 0
  PROVE  WordFilled(x).x = Settled(Ran(x, 1))
<1> DEFINE v == x.r[2]
           a == x.r[1]
           w == Write(x, a, v)
           y == [w EXCEPT !.r[1] = @ + 1, !.r[3] = @ - 1]
           c == 3 * Fetch + Cost(x.r[1])
<1>1. x.pc \in Loops /\ DestAt(x) = a /\ ValueAt(x, 1) = v /\ v \in Int
  <2>1. x.pc \in Loops /\ (x.pc \in Fills <=> TRUE) /\ FromAt(x) = x.r[2]
    BY DEF Loops, Fills, FromAt, HalfCopy, WordCopy, HalfFill, WordFill, FastCopy, FastFill
  <2>2. DestAt(x) = a
    BY <2>1 DEF DestAt
  <2> QED
    BY <2>1, <2>2, OneIs
<1>2. WordFilled(x) = Again(y, y.r[3] # 0, WordFill, SetExit, c, TRUE)
  BY DEF WordFilled
<1>3. w = [x EXCEPT !.mem = MemAt(x, 1)]
  BY <1>1, OneIs
<1>4. w \in Machine /\ w.r = x.r
  <2>1. a \in DOMAIN Host /\ v \in Int /\ w = Write(x, a, v)
    BY <1>1, OneIs
  <2> HIDE DEF a, v, w
  <2>a. Write(x, a, v) \in Machine
    BY <2>1, WriteType
  <2>b. Write(x, a, v).r = x.r
    BY DEF Write, Machine
  <2>2. w \in Machine /\ w.r = x.r
    BY <2>1, <2>a, <2>b
  <2> QED
    BY <2>2
<1> HIDE DEF v, a, w
<1>5. y = [w EXCEPT !.r = [w.r EXCEPT ![1] = @ + 1, ![3] = @ - 1]]
  BY <1>4 DEF Machine, Regs
<1>6. [w.r EXCEPT ![1] = @ + 1, ![3] = @ - 1] = RegsAt(x, 1)
  <2>1. RegsAt(x, 1) = [x.r EXCEPT ![1] = @ + 1, ![3] = @ - 1]
    BY <1>1, RegsAre
  <2> QED
    BY <1>4, <2>1 DEF Machine, Regs
<1> HIDE DEF c, y
<1>7. y = Ran(x, 1)
  BY <1>3, <1>5, <1>6 DEF Ran
<1>8. y \in Machine /\ y.pc = WordFill /\ LeftAt(y) = LeftAt(x) - 1
  <2> DEFINE n == 1
  <2>1. n \in Nat \ {0} /\ RunOk(x, n)
    OBVIOUS
  <2> HIDE DEF n
  <2>2. Ran(x, n) \in Machine /\ Ran(x, n).pc = x.pc /\ LeftAt(Ran(x, n)) = LeftAt(x) - n
    BY <1>1, <2>1, RanType, RanLeft
  <2> QED
    BY <1>7, <2>2 DEF n
<1>9. LeftAt(x) \in Int /\ LeftAt(y) = y.r[3]
  BY <1>1, <1>8, AtType DEF LeftAt, Fasts, HalfCopy, WordCopy, HalfFill, WordFill, FastCopy, FastFill
<1>10. y.r[3] # 0 <=> LeftAt(y) > 0
  <2>1. y.r[1] \in Int /\ y.r[2] \in Int /\ y.r[3] \in Int
    BY <1>8, RegType
  <2> QED
    BY <1>8, <1>9, <2>1
<1>11. y.pc \in Loops
  BY <1>8 DEF Loops, Fills
<1>12. Settled(y) = [y EXCEPT !.pc = IF LeftAt(y) > 0 THEN WordFill ELSE SetExit]
  BY <1>8, <1>11, SettledIs
<1>13. WordFilled(x).x = [y EXCEPT !.pc = IF LeftAt(y) > 0 THEN WordFill ELSE SetExit]
  <2>1. CASE LeftAt(y) > 0
    BY <1>2, <1>10, <2>1 DEF Again, Stepped
  <2>2. CASE ~(LeftAt(y) > 0)
    BY <1>2, <1>10, <2>2 DEF Again, Stepped
  <2> QED
    BY <2>1, <2>2
<1> QED
  BY <1>7, <1>12, <1>13

LEMMA FastFilledIs ==
  ASSUME NEW x \in Machine, x.pc = FastFill, RunOk(x, Chunk), LeftAt(x) > 0
  PROVE  FastFilled(x).x = Settled(Ran(x, Chunk))
<1> DEFINE vs == [k \in 1 .. Chunk |-> x.r[2]]
           w == Writes(x, x.r[1], vs)
           y == [w EXCEPT !.r[1] = @ + Chunk, !.r[3] = x.r[1] + Chunk, !.r[4] = @ - Chunk]
           c == (4 + 3 * Chunk) * Fetch + Chunk * Cost(x.r[1]) + (Chunk - 1) * Branch
<1>1. x.pc \in Loops /\ x.pc \in Fills /\ DestAt(x) = x.r[1] /\ \A j : ValueAt(x, j) = x.r[2]
  <2>1. x.pc \in Loops /\ x.pc \in Fills
    BY DEF Loops, Fills
  <2> QED
    BY <2>1 DEF DestAt, ValueAt
<1>2. FastFilled(x) = Again(y, y.r[4] > 0, FastFill, FastExit, c, FALSE)
  BY DEF FastFilled
<1>3. x.r[1] \in Int /\ x.r[2] \in Int /\ x.r[3] \in Int /\ x.r[4] \in Int /\ Chunk \in Nat \ {0}
  BY RegType, ChunkMoves
<1>4. w.mem = MemAt(x, Chunk)
  <2>1. [j \in 1 .. Chunk |-> ValueAt(x, j)] = vs
    BY <1>1
  <2> HIDE DEF vs
  <2> QED
    BY <1>1, <2>1 DEF MemAt
<1>5. w = [x EXCEPT !.mem = MemAt(x, Chunk)] /\ w.r = x.r
  <2>1. w = [x EXCEPT !.mem = w.mem] /\ w.r = x.r
    BY DEF Writes, Machine
  <2> HIDE DEF w
  <2> QED
    BY <1>4, <2>1
<1> HIDE DEF w
<1>6. w \in Machine
  <2>1. Ran(x, Chunk) \in Machine /\ MemAt(x, Chunk) = Ran(x, Chunk).mem
    BY <1>1, <1>3, RanType
  <2>2. MemAt(x, Chunk) \in [Held -> Int]
    BY <2>1 DEF Machine
  <2> QED
    BY <1>5, <2>2, AlterType
<1>7. y = [w EXCEPT !.r = [w.r EXCEPT ![1] = @ + Chunk, ![3] = x.r[1] + Chunk, ![4] = @ - Chunk]]
  BY <1>6 DEF Machine, Regs
<1>8. [w.r EXCEPT ![1] = @ + Chunk, ![3] = x.r[1] + Chunk, ![4] = @ - Chunk] = RegsAt(x, Chunk)
  <2>1. RegsAt(x, Chunk) = [x.r EXCEPT ![1] = @ + Chunk, ![3] = x.r[1] + Chunk, ![4] = @ - Chunk]
    BY RegsAre
  <2> QED
    BY <1>5, <2>1
<1> HIDE DEF c, y
<1>9. y = Ran(x, Chunk)
  BY <1>5, <1>7, <1>8 DEF Ran
<1>10. y \in Machine /\ y.pc = FastFill
  <2>1. Ran(x, Chunk) \in Machine /\ Ran(x, Chunk).pc = x.pc
    BY <1>1, <1>3, RanType
  <2> QED
    BY <1>9, <2>1
<1>11. LeftAt(y) = y.r[4] /\ y.pc \in Loops
  BY <1>10 DEF LeftAt, Fasts, Loops, Fills, HalfCopy, WordCopy, HalfFill, WordFill, FastCopy, FastFill
<1>12. Settled(y) = [y EXCEPT !.pc = IF LeftAt(y) > 0 THEN FastFill ELSE FastExit]
  BY <1>10, <1>11, SettledIs
<1>13. FastFilled(x).x = [y EXCEPT !.pc = IF LeftAt(y) > 0 THEN FastFill ELSE FastExit]
  <2>1. CASE LeftAt(y) > 0
    BY <1>2, <1>11, <2>1 DEF Again, Stepped
  <2>2. CASE ~(LeftAt(y) > 0)
    BY <1>2, <1>11, <2>2 DEF Again, Stepped
  <2> QED
    BY <2>1, <2>2
<1> QED
  BY <1>9, <1>12, <1>13

LEMMA FastCopiedIs ==
  ASSUME NEW x \in Machine, x.pc = FastCopy, RunOk(x, Chunk), LeftAt(x) > 0
  PROVE  FastCopied(x).x = Settled(Ran(x, Chunk))
<1> DEFINE z == Carry(x, Chunk)  y == MoveLess(z)
<1>1. FastCopied(x).x = MoveEnd(y)
  <2>1. PICK f : MoveLoop(f, MoveStart(x), Chunk) /\ FastCopied(x).x = MoveEnd(MoveLess(f[Chunk]))
    BY MoveLoops
  <2>2. f[Chunk] = Carry(x, Chunk)
    BY <2>1, CarryIs
  <2> QED
    BY <2>1, <2>2
<1>2. x.pc \in Loops /\ Chunk \in Nat \ {0} /\ x.r[4] \in Int
  BY RegType, ChunkMoves DEF Loops, Fills
<1>3. /\ MemAt(x, Chunk) \in [Held -> Int] /\ RegsAt(x, Chunk) \in [Regs -> Int] /\ Ran(x, Chunk) \in Machine
      /\ Ran(x, Chunk).pc = FastCopy
  <2>1. /\ Ran(x, Chunk) \in Machine /\ MemAt(x, Chunk) = Ran(x, Chunk).mem /\ RegsAt(x, Chunk) \in [Regs -> Int]
        /\ Ran(x, Chunk).pc = x.pc
    BY <1>2, RanType
  <2> QED
    BY <2>1 DEF Machine
<1>4. RegsAt(x, Chunk) = [x.r EXCEPT ![0] = x.r[3] + Chunk, ![2] = ValueAt(x, Chunk), ![3] = @ + Chunk, ![4] = @ - Chunk]
  BY RegsAre
<1> DEFINE q == [x.r EXCEPT ![0] = x.r[3] + Chunk, ![2] = ValueAt(x, Chunk), ![3] = x.r[3] + Chunk]
<1>5. x.r \in [Regs -> Int] /\ q \in [Regs -> Int] /\ q[4] = x.r[4] /\ [q EXCEPT ![4] = @ - Chunk] = RegsAt(x, Chunk)
  <2>1. x.r \in [Regs -> Int] /\ x.r[3] + Chunk \in Int
    BY <1>2, RegType DEF Machine
  <2>2. ValueAt(x, Chunk) \in Int
    BY <1>2, ValueType
  <2>3. q[4] = x.r[4] /\ [q EXCEPT ![4] = @ - Chunk] = RegsAt(x, Chunk)
    BY <1>4, <2>1 DEF Regs
  <2>4. \A d, v, e \in Int : [x.r EXCEPT ![0] = d, ![2] = v, ![3] = e] \in [Regs -> Int]
    BY <2>1 DEF Regs
  <2> QED
    BY <2>1, <2>2, <2>3, <2>4
<1>6. z = Remade(x, MemAt(x, Chunk), q)
  BY DEF Carry
<1> HIDE DEF z, q
<1>7. y = [z EXCEPT !.r = [z.r EXCEPT ![4] = @ - Chunk]]
  <2>1. z \in Machine
    BY <1>3, <1>5, <1>6, RemadeIs
  <2> QED
    BY <2>1 DEF MoveLess, Machine, Regs
<1>8. y = Ran(x, Chunk)
  <2>1. z.r = q
    BY <1>6, RemadeIs
  <2>2. y = [z EXCEPT !.r = RegsAt(x, Chunk)]
    BY <1>5, <1>7, <2>1
  <2> HIDE DEF y
  <2> DEFINE mm == MemAt(x, Chunk)  rr == RegsAt(x, Chunk)
  <2>3. y = [z EXCEPT !.r = rr] /\ z = Remade(x, mm, q) /\ Ran(x, Chunk) = Remade(x, mm, rr)
    BY <1>6, <2>2 DEF Ran, Remade
  <2> HIDE DEF mm, rr
  <2>4. [Remade(x, mm, q) EXCEPT !.r = rr] = Remade(x, mm, rr)
    BY DEF Remade, Machine
  <2> QED
    BY <2>3, <2>4
<1> HIDE DEF y
<1>9. y \in Machine /\ y.pc = FastCopy /\ y.pc \in Loops /\ LeftAt(y) = y.r[4]
  BY <1>3, <1>8 DEF LeftAt, Fasts, Loops, Fills, HalfCopy, WordCopy, HalfFill, WordFill, FastCopy, FastFill
<1>10. Settled(y) = [y EXCEPT !.pc = IF LeftAt(y) > 0 THEN FastCopy ELSE FastExit]
  BY <1>9, SettledIs
<1> QED
  BY <1>1, <1>8, <1>9, <1>10 DEF MoveEnd

\* What the interpreter does from each address.
LEMMA BiosIs ==
  ASSUME NEW x, NEW w
  PROVE  /\ x.pc = Vector /\ x.num = 11 => BiosStep(x, w) = EnterSet(x)
         /\ x.pc = Vector /\ x.num = 12 => BiosStep(x, w) = EnterFast(x)
         /\ x.pc = HalfCopy => BiosStep(x, w) = HalfCopied(x)
         /\ x.pc = WordCopy => BiosStep(x, w) = WordCopied(x)
         /\ x.pc = HalfFill => BiosStep(x, w) = HalfFilled(x)
         /\ x.pc = WordFill => BiosStep(x, w) = WordFilled(x)
         /\ x.pc = FastCopy => BiosStep(x, w) = FastCopied(x)
         /\ x.pc = FastFill => BiosStep(x, w) = FastFilled(x)
         /\ x.pc \in {SetExit, FastExit} => BiosStep(x, w) = Completed(x)
         /\ x.pc = IrqVector => BiosStep(x, w).x = IrqEntered(x)
         /\ x.pc = IrqReturn => BiosStep(x, w).x = IrqLeft(x, w)
         /\ x.pc \in {GamePc, IsrPc} => BiosStep(x, w).x = x
BY DEF BiosStep, Vector, HalfCopy, WordCopy, HalfFill, WordFill, FastCopy, FastFill, SetExit, FastExit,
       IrqVector, IrqReturn, GamePc, IsrPc

LEMMA RoundIs ==
  ASSUME NEW x \in Machine, x.pc \in Loops, RunOk(x, UnitAt(x)), LeftAt(x) > 0, NEW w
  PROVE  BiosStep(x, w).x = Settled(Ran(x, UnitAt(x)))
<1>1. CASE x.pc = HalfCopy
  <2>1. UnitAt(x) = 1
    BY <1>1 DEF UnitAt, Fasts, HalfCopy, FastCopy, FastFill
  <2> QED
    BY <1>1, <2>1, BiosIs, HalfCopiedIs
<1>2. CASE x.pc = WordCopy
  <2>1. UnitAt(x) = 1
    BY <1>2 DEF UnitAt, Fasts, WordCopy, FastCopy, FastFill
  <2> QED
    BY <1>2, <2>1, BiosIs, WordCopiedIs
<1>3. CASE x.pc = HalfFill
  <2>1. UnitAt(x) = 1
    BY <1>3 DEF UnitAt, Fasts, HalfFill, FastCopy, FastFill
  <2> QED
    BY <1>3, <2>1, BiosIs, HalfFilledIs
<1>4. CASE x.pc = WordFill
  <2>1. UnitAt(x) = 1
    BY <1>4 DEF UnitAt, Fasts, WordFill, FastCopy, FastFill
  <2> QED
    BY <1>4, <2>1, BiosIs, WordFilledIs
<1>5. CASE x.pc = FastCopy
  <2>1. UnitAt(x) = Chunk
    BY <1>5 DEF UnitAt, Fasts
  <2> QED
    BY <1>5, <2>1, BiosIs, FastCopiedIs
<1>6. CASE x.pc = FastFill
  <2>1. UnitAt(x) = Chunk
    BY <1>6 DEF UnitAt, Fasts
  <2> QED
    BY <1>6, <2>1, BiosIs, FastFilledIs
<1> QED
  BY <1>1, <1>2, <1>3, <1>4, <1>5, <1>6 DEF Loops, Fills

\* Machines that differ from alike ones in the same way, the memory and the
\* stack pointers aside, are alike.
LEMMA SameAltered ==
  ASSUME NEW x, NEW y, Same(x, y), NEW p \in Machine, NEW q \in Machine, p.mem = x.mem, q.mem = y.mem,
         p.pc = q.pc, p.cpsr = q.cpsr, p.num = q.num, p.r = q.r, p.bank = q.bank,
         \A b \in Banks : p.bank[b].sp = x.bank[b].sp
  PROVE  Same(p, q)
<1>1. Dead(p) = Dead(x)
  BY DEF Dead, Banks
<1> QED
  BY <1>1 DEF Same

LEMMA SameRefl ==
  ASSUME NEW x \in Machine
  PROVE  Same(x, x)
BY DEF Same

LEMMA SameTrans ==
  ASSUME NEW x, NEW y, NEW z, Same(x, y), Same(y, z)
  PROVE  Same(x, z)
<1>1. Dead(y) = Dead(x)
  BY DEF Dead, Same
<1> QED
  BY <1>1 DEF Same

LEMMA SameFlip ==
  ASSUME NEW x, NEW y, Same(x, y)
  PROVE  Same(y, x)
<1>1. Dead(y) = Dead(x)
  BY DEF Dead, Same
<1> QED
  BY <1>1 DEF Same

LEMMA SettledType ==
  ASSUME NEW x \in Machine
  PROVE  /\ Settled(x) \in Machine /\ Settled(x).r = x.r /\ Settled(x).mem = x.mem
         /\ Settled(x).cpsr = x.cpsr /\ Settled(x).num = x.num /\ Settled(x).bank = x.bank
         /\ Settled(x).pc = IF LeftAt(x) <= 0 THEN OutOf(x.pc) ELSE x.pc
<1>1. OutOf(x.pc) \in Int
  BY DEF OutOf, FastExit, SetExit
<1>2. CASE LeftAt(x) <= 0
  <2> DEFINE o == OutOf(x.pc)
  <2>1. o \in Int /\ Settled(x) = [x EXCEPT !.pc = o]
    BY <1>1, <1>2 DEF Settled
  <2> HIDE DEF o
  <2>2. [x EXCEPT !.pc = o] \in Machine
    BY <2>1, AlterType
  <2>3. /\ [x EXCEPT !.pc = o].r = x.r /\ [x EXCEPT !.pc = o].mem = x.mem
        /\ [x EXCEPT !.pc = o].cpsr = x.cpsr /\ [x EXCEPT !.pc = o].num = x.num /\ [x EXCEPT !.pc = o].bank = x.bank
        /\ [x EXCEPT !.pc = o].pc = o
    BY DEF Machine
  <2> QED
    BY <1>2, <2>1, <2>2, <2>3 DEF o
<1>3. CASE ~(LeftAt(x) <= 0)
  BY <1>3 DEF Settled
<1> QED
  BY <1>2, <1>3

LEMMA SameSettled ==
  ASSUME NEW x, NEW y, Same(x, y)
  PROVE  Same(Settled(x), Settled(y))
<1>1. x \in Machine /\ y \in Machine /\ x.pc = y.pc /\ x.r = y.r /\ x.cpsr = y.cpsr /\ x.num = y.num /\ x.bank = y.bank
  BY DEF Same
<1>2. LeftAt(x) = LeftAt(y)
  BY <1>1 DEF LeftAt
<1>3. /\ Settled(x) \in Machine /\ Settled(x).r = x.r /\ Settled(x).mem = x.mem
      /\ Settled(x).cpsr = x.cpsr /\ Settled(x).num = x.num /\ Settled(x).bank = x.bank
      /\ Settled(x).pc = IF LeftAt(x) <= 0 THEN OutOf(x.pc) ELSE x.pc
  BY <1>1, SettledType
<1>4. /\ Settled(y) \in Machine /\ Settled(y).r = y.r /\ Settled(y).mem = y.mem
      /\ Settled(y).cpsr = y.cpsr /\ Settled(y).num = y.num /\ Settled(y).bank = y.bank
      /\ Settled(y).pc = IF LeftAt(y) <= 0 THEN OutOf(y.pc) ELSE y.pc
  BY <1>1, SettledType
<1> DEFINE p == Settled(x)  q == Settled(y)
<1> HIDE DEF p, q
<1>5. p \in Machine /\ q \in Machine /\ p.mem = x.mem /\ q.mem = y.mem
  BY <1>3, <1>4 DEF p, q
<1>6. p.pc = q.pc /\ p.cpsr = q.cpsr /\ p.num = q.num /\ p.r = q.r /\ p.bank = q.bank /\ p.bank = x.bank
  BY <1>1, <1>2, <1>3, <1>4 DEF p, q
<1>7. Same(p, q)
  BY <1>5, <1>6, SameAltered
<1> QED
  BY <1>7 DEF p, q

-----------------------------------------------------------------------------
(* The end of a call.                                                       *)

LEMMA MachineEq ==
  ASSUME NEW x \in Machine, NEW y \in Machine, x.pc = y.pc, x.cpsr = y.cpsr, x.num = y.num, x.r = y.r,
         x.bank = y.bank, x.mem = y.mem
  PROVE  x = y
BY DEF Machine

LEMMA PopOne ==
  ASSUME NEW x \in Machine, NEW b \in Banks, NEW k \in Regs, Sp(x, b) \in Stacks
  PROVE  LET t == Popped(x, b, <<k>>) IN
         /\ t \in Machine /\ t.mem = x.mem /\ t.pc = x.pc /\ t.cpsr = x.cpsr /\ t.num = x.num
         /\ t.r = [x.r EXCEPT ![k] = Read(x, Sp(x, b))]
         /\ t.bank = [x.bank EXCEPT ![b] = [sp |-> Sp(x, b) + 1, lr |-> Lr(x, b), spsr |-> x.bank[b].spsr]]
<1> DEFINE s == Sp(x, b)  v == Read(x, s)  rs == <<k>>
           r == [j \in DOMAIN x.r |-> IF \E i \in DOMAIN rs : rs[i] = j
                                      THEN Read(x, Sp(x, b) - 1 + (CHOOSE i \in DOMAIN rs : rs[i] = j)) ELSE x.r[j]]
           t == Popped(x, b, rs)
<1>1. s \in Int /\ v \in Int
  BY BankType, StacksAre, ReadType
<1>2. DOMAIN rs = {1} /\ rs[1] = k /\ Len(rs) = 1
  OBVIOUS
<1>3. x.r \in [Regs -> Int] /\ x.bank \in [Banks -> [sp : Int, lr : Int, spsr : Int]]
  BY DEF Machine
<1>4. r = [x.r EXCEPT ![k] = v]
  <2>1. ASSUME NEW j \in Regs PROVE r[j] = IF j = k THEN v ELSE x.r[j]
    <3>1. (\E i \in DOMAIN rs : rs[i] = j) <=> j = k
      BY <1>2
    <3>2. j = k => (CHOOSE i \in DOMAIN rs : rs[i] = j) = 1
      BY <1>2
    <3>3. s - 1 + 1 = s
      BY <1>1
    <3> QED
      BY <1>3, <3>1, <3>2, <3>3
  <2> QED
    BY <1>3, <2>1
<1>5. t = [[x EXCEPT !.r = r] EXCEPT !.bank = [x.bank EXCEPT ![b].sp = s + 1]]
  <2> HIDE DEF rs
  <2>1. t = [x EXCEPT !.r = r, !.bank[b].sp = @ + 1]
    BY <1>2 DEF Popped
  <2> HIDE DEF r, t
  <2> QED
    BY <2>1 DEF Machine, Sp
<1>6. [x.bank EXCEPT ![b].sp = s + 1] = [x.bank EXCEPT ![b] = [sp |-> s + 1, lr |-> Lr(x, b), spsr |-> x.bank[b].spsr]]
  BY <1>3 DEF Lr
<1>7. [x.r EXCEPT ![k] = v] \in [Regs -> Int]
  BY <1>1, <1>3
<1> DEFINE bank == [x.bank EXCEPT ![b] = [sp |-> s + 1, lr |-> Lr(x, b), spsr |-> x.bank[b].spsr]]
<1>8. bank \in [Banks -> [sp : Int, lr : Int, spsr : Int]]
  <2>1. Lr(x, b) \in Int /\ x.bank[b].spsr \in Int /\ s + 1 \in Int
    BY <1>1, BankType
  <2> HIDE DEF s
  <2> QED
    BY <1>3, <2>1
<1>9. t = [[x EXCEPT !.r = r] EXCEPT !.bank = bank]
  BY <1>5, <1>6
<1> HIDE DEF bank, t, r
<1>10. t.r = r /\ t.bank = bank /\ t.mem = x.mem /\ t.pc = x.pc /\ t.cpsr = x.cpsr /\ t.num = x.num
  BY <1>9 DEF Machine
<1>11. t \in Machine
  BY <1>4, <1>7, <1>8, <1>9, AlterType
<1> QED
  BY <1>4, <1>10, <1>11 DEF bank, t

LEMMA PopTwo ==
  ASSUME NEW x \in Machine, NEW b \in Banks, NEW k \in Regs, NEW l \in Regs, k # l,
         Sp(x, b) \in Stacks, Sp(x, b) + 1 \in Stacks
  PROVE  LET t == Popped(x, b, <<k, l>>) IN
         /\ t \in Machine /\ t.mem = x.mem /\ t.pc = x.pc /\ t.cpsr = x.cpsr /\ t.num = x.num
         /\ t.r = [x.r EXCEPT ![k] = Read(x, Sp(x, b)), ![l] = Read(x, Sp(x, b) + 1)]
         /\ t.bank = [x.bank EXCEPT ![b] = [sp |-> Sp(x, b) + 2, lr |-> Lr(x, b), spsr |-> x.bank[b].spsr]]
<1> DEFINE s == Sp(x, b)  v == Read(x, s)  w == Read(x, s + 1)  rs == <<k, l>>
           r == [j \in DOMAIN x.r |-> IF \E i \in DOMAIN rs : rs[i] = j
                                      THEN Read(x, Sp(x, b) - 1 + (CHOOSE i \in DOMAIN rs : rs[i] = j)) ELSE x.r[j]]
           t == Popped(x, b, rs)
<1>1. s \in Int /\ v \in Int /\ w \in Int
  BY BankType, StacksAre, ReadType
<1>2. DOMAIN rs = {1, 2} /\ rs[1] = k /\ rs[2] = l /\ Len(rs) = 2
  OBVIOUS
<1>3. x.r \in [Regs -> Int] /\ x.bank \in [Banks -> [sp : Int, lr : Int, spsr : Int]]
  BY DEF Machine
<1>4. r = [x.r EXCEPT ![k] = v, ![l] = w]
  <2>1. ASSUME NEW j \in Regs PROVE r[j] = IF j = k THEN v ELSE IF j = l THEN w ELSE x.r[j]
    <3>1. (\E i \in DOMAIN rs : rs[i] = j) <=> (j = k \/ j = l)
      BY <1>2
    <3>2. (j = k => (CHOOSE i \in DOMAIN rs : rs[i] = j) = 1) /\ (j = l => (CHOOSE i \in DOMAIN rs : rs[i] = j) = 2)
      BY <1>2
    <3>3. s - 1 + 1 = s /\ s - 1 + 2 = s + 1
      BY <1>1
    <3> QED
      BY <1>3, <3>1, <3>2, <3>3
  <2> QED
    BY <1>3, <2>1
<1>5. t = [[x EXCEPT !.r = r] EXCEPT !.bank = [x.bank EXCEPT ![b].sp = s + 2]]
  <2> HIDE DEF rs
  <2>1. t = [x EXCEPT !.r = r, !.bank[b].sp = @ + 2]
    BY <1>2 DEF Popped
  <2> HIDE DEF r, t
  <2> QED
    BY <2>1 DEF Machine, Sp
<1>6. [x.bank EXCEPT ![b].sp = s + 2] = [x.bank EXCEPT ![b] = [sp |-> s + 2, lr |-> Lr(x, b), spsr |-> x.bank[b].spsr]]
  BY <1>3 DEF Lr
<1>7. [x.r EXCEPT ![k] = v, ![l] = w] \in [Regs -> Int]
  BY <1>1, <1>3
<1> DEFINE bank == [x.bank EXCEPT ![b] = [sp |-> s + 2, lr |-> Lr(x, b), spsr |-> x.bank[b].spsr]]
<1>8. bank \in [Banks -> [sp : Int, lr : Int, spsr : Int]]
  <2>1. Lr(x, b) \in Int /\ x.bank[b].spsr \in Int /\ s + 2 \in Int
    BY <1>1, BankType
  <2> HIDE DEF s
  <2> QED
    BY <1>3, <2>1
<1>9. t = [[x EXCEPT !.r = r] EXCEPT !.bank = bank]
  BY <1>5, <1>6
<1> HIDE DEF bank, t, r
<1>10. t.r = r /\ t.bank = bank /\ t.mem = x.mem /\ t.pc = x.pc /\ t.cpsr = x.cpsr /\ t.num = x.num
  BY <1>9 DEF Machine
<1>11. t \in Machine
  BY <1>4, <1>7, <1>8, <1>9, AlterType
<1> QED
  BY <1>4, <1>10, <1>11 DEF bank, t

LEMMA RelinkedIs ==
  ASSUME NEW x \in Machine, NEW b \in Banks, Sp(x, b) \in Stacks
  PROVE  LET t == Relinked(x, b) IN
         /\ t \in Machine /\ t.mem = x.mem /\ t.pc = x.pc /\ t.cpsr = x.cpsr /\ t.num = x.num /\ t.r = x.r
         /\ t.bank = [x.bank EXCEPT ![b] = [sp |-> Sp(x, b) + 1, lr |-> Read(x, Sp(x, b)), spsr |-> x.bank[b].spsr]]
<1> DEFINE s == Sp(x, b)  v == Read(x, s)  t == Relinked(x, b)
           bank == [x.bank EXCEPT ![b] = [sp |-> s + 1, lr |-> v, spsr |-> x.bank[b].spsr]]
<1>1. s \in Int /\ v \in Int /\ s + 1 \in Int /\ x.bank[b].spsr \in Int
  BY BankType, StacksAre, ReadType
<1>2. x.bank \in [Banks -> [sp : Int, lr : Int, spsr : Int]]
  BY DEF Machine
<1>3. t = [x EXCEPT !.bank = bank]
  <2> HIDE DEF v
  <2> DEFINE c == [x.bank EXCEPT ![b] = [sp |-> s, lr |-> v, spsr |-> x.bank[b].spsr]]
             d == [c EXCEPT ![b].sp = @ + 1]
  <2>1. t = [x EXCEPT !.bank[b].lr = v, !.bank[b].sp = @ + 1]
    BY DEF Relinked, v
  <2>2. [x.bank EXCEPT ![b].lr = v] = c
    BY <1>2 DEF Sp
  <2>3. d = bank
    BY <1>2
  <2> HIDE DEF t, c
  <2>4. t = [[x EXCEPT !.bank = c] EXCEPT !.bank = d]
    BY <2>1, <2>2 DEF Machine
  <2> HIDE DEF d, bank
  <2> QED
    BY <2>3, <2>4 DEF Machine
<1>4. bank \in [Banks -> [sp : Int, lr : Int, spsr : Int]]
  <2> HIDE DEF s, v
  <2> QED
    BY <1>1, <1>2
<1> HIDE DEF bank, t
<1>5. t.r = x.r /\ t.bank = bank /\ t.mem = x.mem /\ t.pc = x.pc /\ t.cpsr = x.cpsr /\ t.num = x.num
  BY <1>3 DEF Machine
<1>6. t \in Machine
  BY <1>3, <1>4, AlterType
<1> QED
  BY <1>5, <1>6 DEF bank, t

\* The stacks hold the frames of a call.
Framing(x) == Sp(x, "usr") \in {UserTop - 8, UserTop - 4} /\ Sp(x, "svc") \in {SvcTop - 8, SvcTop - 4}
\* t is x with the frames taken off.
Closed(x, t) ==
  LET u == Sp(x, "usr")  s == Sp(x, "svc") IN
  /\ t \in Machine /\ t.mem = x.mem /\ t.num = x.num /\ t.pc = Read(x, s + 3) /\ t.cpsr = Read(x, s)
  /\ t.r[0] = x.r[0] /\ t.r[1] = x.r[1] /\ t.r[2] = Read(x, u + 1) /\ t.r[3] = Read(x, u + 2)
  /\ t.r[4] = Read(x, u) /\ t.r[11] = Read(x, s + 1) /\ t.r[12] = Read(x, s + 2)
  /\ t.bank["usr"] = [sp |-> u + 4, lr |-> Read(x, u + 3), spsr |-> x.bank["usr"].spsr]
  /\ t.bank["svc"] = [sp |-> s + 4, lr |-> Read(x, s + 3), spsr |-> Read(x, s)]
  /\ t.bank["irq"] = x.bank["irq"]

LEMMA ClosedOnce ==
  ASSUME NEW x, NEW t, NEW v, Closed(x, t), Closed(x, v)
  PROVE  t = v
<1>1. t \in Machine /\ v \in Machine /\ t.mem = v.mem /\ t.num = v.num /\ t.pc = v.pc /\ t.cpsr = v.cpsr
  BY DEF Closed
<1>2. t.r = v.r
  <2>1. t.r \in [Regs -> Int] /\ v.r \in [Regs -> Int]
    BY <1>1 DEF Machine
  <2>2. \A k \in Regs : t.r[k] = v.r[k]
    BY DEF Closed, Regs
  <2> QED
    BY <2>1, <2>2
<1>3. t.bank = v.bank
  <2>1. t.bank \in [Banks -> [sp : Int, lr : Int, spsr : Int]] /\ v.bank \in [Banks -> [sp : Int, lr : Int, spsr : Int]]
    BY <1>1 DEF Machine
  <2>2. \A b \in Banks : t.bank[b] = v.bank[b]
    BY DEF Closed, Banks
  <2> QED
    BY <2>1, <2>2
<1> QED
  BY <1>1, <1>2, <1>3, MachineEq

\* The words of the frames.
LEMMA FrameWords ==
  ASSUME NEW x \in Machine, Framing(x)
  PROVE  LET u == Sp(x, "usr")  s == Sp(x, "svc") IN
         /\ u \in Int /\ u \in Stacks /\ u + 1 \in Stacks /\ u + 2 \in Stacks /\ u + 3 \in Stacks
         /\ s \in Int /\ s \in Stacks /\ s + 1 \in Stacks /\ s + 2 \in Stacks /\ s + 3 \in Stacks
         /\ Read(x, u) \in Int /\ Read(x, u + 1) \in Int /\ Read(x, u + 2) \in Int /\ Read(x, u + 3) \in Int
         /\ Read(x, s) \in Int /\ Read(x, s + 1) \in Int /\ Read(x, s + 2) \in Int /\ Read(x, s + 3) \in Int
<1> DEFINE u == Sp(x, "usr")  s == Sp(x, "svc")
<1>1. u \in Int /\ s \in Int
  BY DEF Framing, UserTop, SvcTop
<1>2. u \in Stacks /\ u + 1 \in Stacks /\ u + 2 \in Stacks /\ u + 3 \in Stacks
  BY DEF Framing, UserTop, Stacks, HandlerCell
<1>3. s \in Stacks /\ s + 1 \in Stacks /\ s + 2 \in Stacks /\ s + 3 \in Stacks
  BY DEF Framing, UserTop, SvcTop, Stacks, HandlerCell
<1>4. \A a \in Stacks : Read(x, a) \in Int
  BY StacksAre, ReadType
<1> QED
  BY <1>1, <1>2, <1>3, <1>4

SetR(x, k, v) == [x EXCEPT !.r[k] = v]
SetBank(x, b, v) == [x EXCEPT !.bank[b] = v]

\* t is x with v in register k, and with v as the registers of bank b.
Puts(x, k, v, t) ==
  /\ t \in Machine /\ t.pc = x.pc /\ t.cpsr = x.cpsr /\ t.num = x.num /\ t.bank = x.bank /\ t.mem = x.mem
  /\ t.r[k] = v /\ \A j \in Regs : j # k => t.r[j] = x.r[j]
Banked(x, b, v, t) ==
  /\ t \in Machine /\ t.pc = x.pc /\ t.cpsr = x.cpsr /\ t.num = x.num /\ t.r = x.r /\ t.mem = x.mem
  /\ t.bank[b] = v /\ \A c \in Banks : c # b => t.bank[c] = x.bank[c]

LEMMA SetRIs ==
  ASSUME NEW x \in Machine, NEW k \in Regs, NEW v \in Int
  PROVE  Puts(x, k, v, SetR(x, k, v))
<1> DEFINE t == SetR(x, k, v)  r == [x.r EXCEPT ![k] = v]
<1>1. t = [x EXCEPT !.r = r]
  BY DEF SetR
<1>2. r \in [Regs -> Int] /\ r[k] = v /\ \A j \in Regs : j # k => r[j] = x.r[j]
  BY DEF Machine
<1> HIDE DEF t, r
<1>3. t.pc = x.pc /\ t.cpsr = x.cpsr /\ t.num = x.num /\ t.bank = x.bank /\ t.mem = x.mem /\ t.r = r
  BY <1>1 DEF Machine
<1>4. t \in Machine
  BY <1>1, <1>2, AlterType
<1> QED
  BY <1>2, <1>3, <1>4 DEF t, Puts

LEMMA SetBankIs ==
  ASSUME NEW x \in Machine, NEW b \in Banks, NEW v \in [sp : Int, lr : Int, spsr : Int]
  PROVE  Banked(x, b, v, SetBank(x, b, v))
<1> DEFINE t == SetBank(x, b, v)  bank == [x.bank EXCEPT ![b] = v]
<1>1. t = [x EXCEPT !.bank = bank]
  BY DEF SetBank
<1>2. /\ bank \in [Banks -> [sp : Int, lr : Int, spsr : Int]] /\ bank[b] = v
      /\ \A c \in Banks : c # b => bank[c] = x.bank[c]
  BY DEF Machine
<1> HIDE DEF t, bank
<1>3. t.pc = x.pc /\ t.cpsr = x.cpsr /\ t.num = x.num /\ t.r = x.r /\ t.mem = x.mem /\ t.bank = bank
  BY <1>1 DEF Machine
<1>4. t \in Machine
  BY <1>1, <1>2, AlterType
<1> QED
  BY <1>2, <1>3, <1>4 DEF t, Banked

Turn(x, pc, cpsr) == [x EXCEPT !.pc = pc, !.cpsr = cpsr]
LEMMA TurnIs ==
  ASSUME NEW x \in Machine, NEW pc \in Int, NEW cpsr \in Int
  PROVE  LET t == Turn(x, pc, cpsr) IN
         /\ t \in Machine /\ t.pc = pc /\ t.cpsr = cpsr /\ t.num = x.num /\ t.r = x.r /\ t.bank = x.bank
         /\ t.mem = x.mem
BY DEF Turn, Machine

LEMMA UnframedIs ==
  ASSUME NEW x \in Machine, Framing(x)
  PROVE  Closed(x, Unframed(x))
<1> DEFINE u == Sp(x, "usr")  s == Sp(x, "svc")
           u0 == Read(x, u)  u1 == Read(x, u + 1)  u2 == Read(x, u + 2)  u3 == Read(x, u + 3)
           s0 == Read(x, s)  s1 == Read(x, s + 1)  s2 == Read(x, s + 2)  s3 == Read(x, s + 3)
           t == Unframed(x)
           y1 == SetR(x, 4, u0)
           y2 == SetR(y1, 2, u1)
           y3 == SetR(y2, 3, u2)
           y4 == SetR(y3, 11, s1)
           y5 == SetR(y4, 12, s2)
           p == [y5.bank["usr"] EXCEPT !.sp = u + 4, !.lr = u3]
           q == [sp |-> s + 4, lr |-> s3, spsr |-> s0]
           z1 == SetBank(y5, "usr", p)
           z2 == SetBank(z1, "svc", q)
<1>1. /\ u \in Int /\ s \in Int /\ u0 \in Int /\ u1 \in Int /\ u2 \in Int /\ u3 \in Int
      /\ s0 \in Int /\ s1 \in Int /\ s2 \in Int /\ s3 \in Int
  BY FrameWords
<1>2. t = Turn(z2, s3, s0)
  BY DEF Unframed, SetR, SetBank, Turn
<1> HIDE DEF u0, u1, u2, u3, s0, s1, s2, s3, u, s, t
<1>3. 0 \in Regs /\ 1 \in Regs /\ 2 \in Regs /\ 3 \in Regs /\ 4 \in Regs /\ 11 \in Regs /\ 12 \in Regs
      /\ "usr" \in Banks /\ "svc" \in Banks /\ "irq" \in Banks
  BY DEF Regs, Banks
<1> HIDE DEF y1, y2, y3, y4, y5
<1>4. Puts(x, 4, u0, y1)
  BY <1>1, <1>3, SetRIs, Zenon DEF y1
<1>5. Puts(y1, 2, u1, y2)
  <2>1. y1 \in Machine
    BY <1>4 DEF Puts
  <2> QED
    BY <1>1, <1>3, <2>1, SetRIs, Zenon DEF y2
<1>6. Puts(y2, 3, u2, y3)
  <2>1. y2 \in Machine
    BY <1>5 DEF Puts
  <2> QED
    BY <1>1, <1>3, <2>1, SetRIs, Zenon DEF y3
<1>7. Puts(y3, 11, s1, y4)
  <2>1. y3 \in Machine
    BY <1>6 DEF Puts
  <2> QED
    BY <1>1, <1>3, <2>1, SetRIs, Zenon DEF y4
<1>801. Puts(y4, 12, s2, y5)
  <2>1. y4 \in Machine
    BY <1>7 DEF Puts
  <2> QED
    BY <1>1, <1>3, <2>1, SetRIs, Zenon DEF y5
<1>8. /\ y5 \in Machine /\ y5.pc = x.pc /\ y5.cpsr = x.cpsr /\ y5.num = x.num /\ y5.bank = x.bank
      /\ y5.mem = x.mem /\ y5.r[0] = x.r[0] /\ y5.r[1] = x.r[1]
      /\ y5.r[4] = u0 /\ y5.r[2] = u1 /\ y5.r[3] = u2 /\ y5.r[11] = s1 /\ y5.r[12] = s2
  BY <1>3, <1>4, <1>5, <1>6, <1>7, <1>801 DEF Puts
<1>9. p = [sp |-> u + 4, lr |-> u3, spsr |-> x.bank["usr"].spsr] /\ x.bank["usr"].spsr \in Int
  <2> DEFINE e == y5.bank["usr"]
  <2>1. e \in [sp : Int, lr : Int, spsr : Int]
    BY <1>3, <1>8 DEF Machine
  <2>2. e = x.bank["usr"]
    BY <1>8
  <2> HIDE DEF e
  <2>3. [e EXCEPT !.sp = u + 4, !.lr = u3] = [sp |-> u + 4, lr |-> u3, spsr |-> e.spsr] /\ e.spsr \in Int
    <3> DEFINE n == u + 4
    <3>1. n \in Int
      BY <1>1
    <3> HIDE DEF n
    <3>2. [e EXCEPT !.sp = n, !.lr = u3] = [sp |-> n, lr |-> u3, spsr |-> e.spsr] /\ e.spsr \in Int
      <4> DEFINE f == [e EXCEPT !.sp = n]
      <4>1. f = [sp |-> n, lr |-> e.lr, spsr |-> e.spsr] /\ e.lr \in Int /\ e.spsr \in Int
        BY <2>1
      <4> HIDE DEF f
      <4>2. [f EXCEPT !.lr = u3] = [sp |-> n, lr |-> u3, spsr |-> e.spsr]
        BY <4>1
      <4> QED
        BY <4>1, <4>2 DEF f
    <3> QED
      BY <3>2 DEF n
  <2> QED
    BY <2>2, <2>3 DEF e
<1>10. p \in [sp : Int, lr : Int, spsr : Int] /\ q \in [sp : Int, lr : Int, spsr : Int]
  <2> HIDE DEF p
  <2>1. u + 4 \in Int /\ s + 4 \in Int
    BY <1>1
  <2> QED
    BY <1>1, <1>9, <2>1
<1> DEFINE bu == [sp |-> u + 4, lr |-> u3, spsr |-> x.bank["usr"].spsr]
<1>11. p = bu
  BY <1>9
<1> HIDE DEF p, q, bu
<1> HIDE DEF z1, z2
<1>120. Banked(y5, "usr", p, z1)
  BY <1>3, <1>8, <1>10, SetBankIs, Zenon DEF z1
<1>12. z1 \in Machine
  BY <1>120 DEF Banked
<1>121. Banked(z1, "svc", q, z2)
  BY <1>3, <1>10, <1>12, SetBankIs, Zenon DEF z2
<1>13. z2 \in Machine /\ z2.num = x.num /\ z2.r = y5.r /\ z2.mem = x.mem /\ z2.bank["usr"] = p /\ z2.bank["svc"] = q
       /\ z2.bank["irq"] = x.bank["irq"]
  BY <1>3, <1>8, <1>120, <1>121 DEF Banked
<1>14. t \in Machine /\ t.pc = s3 /\ t.cpsr = s0 /\ t.num = x.num /\ t.r = y5.r /\ t.bank = z2.bank /\ t.mem = x.mem
  <2> DEFINE w == Turn(z2, s3, s0)
  <2>1. w \in Machine /\ w.pc = s3 /\ w.cpsr = s0 /\ w.num = z2.num /\ w.r = z2.r /\ w.bank = z2.bank /\ w.mem = z2.mem
    BY <1>1, <1>13, TurnIs
  <2> HIDE DEF w
  <2>2. t = w
    BY <1>2 DEF w
  <2> QED
    BY <1>13, <2>1, <2>2
<1> QED
  BY <1>8, <1>11, <1>13, <1>14 DEF Closed, t, u0, u1, u2, u3, s0, s1, s2, s3, q, bu, u, s

\* t is x with one or two words, or the link register, taken off the stack of
\* mode b.
Apart2(x, b, n, t) ==
  /\ t \in Machine /\ t.mem = x.mem /\ t.pc = x.pc /\ t.cpsr = x.cpsr /\ t.num = x.num
  /\ Sp(t, b) = Sp(x, b) + n /\ t.bank[b].spsr = x.bank[b].spsr
  /\ \A c \in Banks : c # b => t.bank[c] = x.bank[c]
TookOne(x, b, k, t) ==
  /\ Apart2(x, b, 1, t) /\ Lr(t, b) = Lr(x, b)
  /\ t.r[k] = Read(x, Sp(x, b)) /\ \A j \in Regs : j # k => t.r[j] = x.r[j]
TookTwo(x, b, k, l, t) ==
  /\ Apart2(x, b, 2, t) /\ Lr(t, b) = Lr(x, b)
  /\ t.r[k] = Read(x, Sp(x, b)) /\ t.r[l] = Read(x, Sp(x, b) + 1)
  /\ \A j \in Regs : j # k /\ j # l => t.r[j] = x.r[j]
TookLink(x, b, t) == Apart2(x, b, 1, t) /\ Lr(t, b) = Read(x, Sp(x, b)) /\ t.r = x.r

LEMMA TakesOne ==
  ASSUME NEW x \in Machine, NEW b \in Banks, NEW k \in Regs, Sp(x, b) \in Stacks
  PROVE  TookOne(x, b, k, Popped(x, b, <<k>>))
<1> DEFINE t == Popped(x, b, <<k>>)  v == Read(x, Sp(x, b))
           e == [sp |-> Sp(x, b) + 1, lr |-> Lr(x, b), spsr |-> x.bank[b].spsr]
<1>1. /\ t \in Machine /\ t.mem = x.mem /\ t.pc = x.pc /\ t.cpsr = x.cpsr /\ t.num = x.num
      /\ t.r = [x.r EXCEPT ![k] = v] /\ t.bank = [x.bank EXCEPT ![b] = e]
  BY PopOne
<1>2. e.sp = Sp(x, b) + 1 /\ e.lr = Lr(x, b) /\ e.spsr = x.bank[b].spsr
  OBVIOUS
<1>3. x.r \in [Regs -> Int] /\ x.bank \in [Banks -> [sp : Int, lr : Int, spsr : Int]]
  BY DEF Machine
<1> HIDE DEF t, v, e
<1>4. t.r[k] = v /\ \A j \in Regs : j # k => t.r[j] = x.r[j]
  BY <1>1, <1>3
<1>5. t.bank[b] = e /\ \A c \in Banks : c # b => t.bank[c] = x.bank[c]
  BY <1>1, <1>3
<1>6. Sp(t, b) = Sp(x, b) + 1 /\ Lr(t, b) = Lr(x, b) /\ t.bank[b].spsr = x.bank[b].spsr
  <2>1. Sp(t, b) = e.sp /\ Lr(t, b) = e.lr /\ t.bank[b].spsr = e.spsr
    BY <1>5 DEF Sp, Lr
  <2> QED
    BY <1>2, <2>1
<1> QED
  BY <1>1, <1>4, <1>5, <1>6 DEF TookOne, Apart2, t, v

LEMMA TakesTwo ==
  ASSUME NEW x \in Machine, NEW b \in Banks, NEW k \in Regs, NEW l \in Regs, k # l,
         Sp(x, b) \in Stacks, Sp(x, b) + 1 \in Stacks
  PROVE  TookTwo(x, b, k, l, Popped(x, b, <<k, l>>))
<1> DEFINE t == Popped(x, b, <<k, l>>)  v == Read(x, Sp(x, b))  w == Read(x, Sp(x, b) + 1)
           e == [sp |-> Sp(x, b) + 2, lr |-> Lr(x, b), spsr |-> x.bank[b].spsr]
<1>1. /\ t \in Machine /\ t.mem = x.mem /\ t.pc = x.pc /\ t.cpsr = x.cpsr /\ t.num = x.num
      /\ t.r = [x.r EXCEPT ![k] = v, ![l] = w] /\ t.bank = [x.bank EXCEPT ![b] = e]
  BY PopTwo
<1>2. e.sp = Sp(x, b) + 2 /\ e.lr = Lr(x, b) /\ e.spsr = x.bank[b].spsr
  OBVIOUS
<1>3. x.r \in [Regs -> Int] /\ x.bank \in [Banks -> [sp : Int, lr : Int, spsr : Int]]
  BY DEF Machine
<1> HIDE DEF t, v, w, e
<1>4. t.r[k] = v /\ t.r[l] = w /\ \A j \in Regs : j # k /\ j # l => t.r[j] = x.r[j]
  BY <1>1, <1>3
<1>5. t.bank[b] = e /\ \A c \in Banks : c # b => t.bank[c] = x.bank[c]
  BY <1>1, <1>3
<1>6. Sp(t, b) = Sp(x, b) + 2 /\ Lr(t, b) = Lr(x, b) /\ t.bank[b].spsr = x.bank[b].spsr
  <2>1. Sp(t, b) = e.sp /\ Lr(t, b) = e.lr /\ t.bank[b].spsr = e.spsr
    BY <1>5 DEF Sp, Lr
  <2> QED
    BY <1>2, <2>1
<1> QED
  BY <1>1, <1>4, <1>5, <1>6 DEF TookTwo, Apart2, t, v, w

LEMMA TakesLink ==
  ASSUME NEW x \in Machine, NEW b \in Banks, Sp(x, b) \in Stacks
  PROVE  TookLink(x, b, Relinked(x, b))
<1> DEFINE t == Relinked(x, b)  v == Read(x, Sp(x, b))
           e == [sp |-> Sp(x, b) + 1, lr |-> v, spsr |-> x.bank[b].spsr]
<1>1. /\ t \in Machine /\ t.mem = x.mem /\ t.pc = x.pc /\ t.cpsr = x.cpsr /\ t.num = x.num
      /\ t.r = x.r /\ t.bank = [x.bank EXCEPT ![b] = e]
  BY RelinkedIs
<1>2. e.sp = Sp(x, b) + 1 /\ e.lr = v /\ e.spsr = x.bank[b].spsr
  OBVIOUS
<1>3. x.bank \in [Banks -> [sp : Int, lr : Int, spsr : Int]]
  BY DEF Machine
<1> HIDE DEF t, v, e
<1>5. t.bank[b] = e /\ \A c \in Banks : c # b => t.bank[c] = x.bank[c]
  BY <1>1, <1>3
<1>6. Sp(t, b) = Sp(x, b) + 1 /\ Lr(t, b) = v /\ t.bank[b].spsr = x.bank[b].spsr
  <2>1. Sp(t, b) = e.sp /\ Lr(t, b) = e.lr /\ t.bank[b].spsr = e.spsr
    BY <1>5 DEF Sp, Lr
  <2> QED
    BY <1>2, <2>1
<1> QED
  BY <1>1, <1>5, <1>6 DEF TookLink, Apart2, t, v

LEMMA CompletedIs ==
  ASSUME NEW x \in Machine, Framing(x)
  PROVE  Closed(x, Completed(x).x)
<1> DEFINE u == Sp(x, "usr")  s == Sp(x, "svc")
           p1 == Popped(x, "usr", <<4>>)
           p2 == Popped(p1, "usr", <<2, 3>>)
           p3 == Relinked(p2, "usr")
           p4 == Popped(p3, "svc", <<11>>)
           p5 == SpsrFrom11(p4)
           p6 == Popped(p5, "svc", <<11, 12>>)
           p7 == Relinked(p6, "svc")
           t == Returned(p7).x
<1>1. /\ u \in Int /\ u \in Stacks /\ u + 1 \in Stacks /\ u + 2 \in Stacks /\ u + 3 \in Stacks
      /\ s \in Int /\ s \in Stacks /\ s + 1 \in Stacks /\ s + 2 \in Stacks /\ s + 3 \in Stacks
  BY FrameWords
<1>2. Completed(x).x = t
  BY DEF Completed
<1>3. 0 \in Regs /\ 1 \in Regs /\ 2 \in Regs /\ 3 \in Regs /\ 4 \in Regs /\ 11 \in Regs /\ 12 \in Regs
      /\ "usr" \in Banks /\ "svc" \in Banks /\ "irq" \in Banks
  BY DEF Regs, Banks
<1> HIDE DEF p1, p2, p3, p4, p5, p6, p7, t
<1>4. TookOne(x, "usr", 4, p1)
  BY <1>1, <1>3, TakesOne, Zenon DEF p1
<1>5. p1 \in Machine /\ Sp(p1, "usr") = u + 1 /\ Sp(p1, "usr") + 1 = u + 2 /\ p1.mem = x.mem
  BY <1>1, <1>4 DEF TookOne, Apart2
<1>6. TookTwo(p1, "usr", 2, 3, p2)
  <2>1. 2 # 3 /\ Sp(p1, "usr") \in Stacks /\ Sp(p1, "usr") + 1 \in Stacks
    BY <1>1, <1>5
  <2> QED
    BY <1>3, <1>5, <2>1, TakesTwo, Zenon DEF p2
<1>7. p2 \in Machine /\ Sp(p2, "usr") = u + 3 /\ p2.mem = x.mem
  BY <1>1, <1>5, <1>6 DEF TookTwo, Apart2
<1>8. TookLink(p2, "usr", p3)
  <2>1. Sp(p2, "usr") \in Stacks
    BY <1>1, <1>7
  <2> QED
    BY <1>3, <1>7, <2>1, TakesLink, Zenon DEF p3
<1>9. p3 \in Machine /\ p3.mem = x.mem /\ p3.bank["svc"] = x.bank["svc"] /\ p3.bank["irq"] = x.bank["irq"]
      /\ p3.num = x.num /\ p3.r[0] = x.r[0] /\ p3.r[1] = x.r[1] /\ p3.r[2] = Read(x, u + 1) /\ p3.r[3] = Read(x, u + 2)
      /\ p3.r[4] = Read(x, u) /\ Sp(p3, "usr") = u + 4 /\ Lr(p3, "usr") = Read(x, u + 3)
      /\ p3.bank["usr"].spsr = x.bank["usr"].spsr
  BY <1>1, <1>3, <1>4, <1>5, <1>6, <1>7, <1>8 DEF TookOne, TookTwo, TookLink, Apart2, Read
<1>10. Sp(p3, "svc") = s
  BY <1>9 DEF Sp
<1>11. TookOne(p3, "svc", 11, p4)
  BY <1>1, <1>3, <1>9, <1>10, TakesOne, Zenon DEF p4
<1>12. p4 \in Machine /\ p4.r[11] = Read(x, s) /\ p4.mem = x.mem /\ Sp(p4, "svc") = s + 1
  BY <1>9, <1>10, <1>11 DEF TookOne, Apart2, Read
<1>13. /\ p5 \in Machine /\ p5.mem = p4.mem /\ p5.pc = p4.pc /\ p5.cpsr = p4.cpsr /\ p5.num = p4.num /\ p5.r = p4.r
       /\ Sp(p5, "svc") = s + 1 /\ p5.bank["svc"].spsr = Read(x, s) /\ Lr(p5, "svc") = Lr(p4, "svc")
       /\ \A c \in Banks : c # "svc" => p5.bank[c] = p4.bank[c]
  <2> DEFINE e == [p4.bank["svc"] EXCEPT !.spsr = p4.r[11]]
  <2>1. p4.bank["svc"] \in [sp : Int, lr : Int, spsr : Int] /\ p4.r[11] \in Int
    BY <1>3, <1>12 DEF Machine
  <2>2. e \in [sp : Int, lr : Int, spsr : Int] /\ e.sp = Sp(p4, "svc") /\ e.lr = Lr(p4, "svc") /\ e.spsr = p4.r[11]
    BY <2>1 DEF Sp, Lr
  <2>3. p5 = SetBank(p4, "svc", e)
    BY DEF p5, SpsrFrom11, SetBank
  <2> HIDE DEF e
  <2>4. Banked(p4, "svc", e, p5)
    BY <1>3, <1>12, <2>2, <2>3, SetBankIs, Zenon
  <2> QED
    BY <1>12, <2>2, <2>4 DEF Banked, Sp, Lr
<1>14. TookTwo(p5, "svc", 11, 12, p6)
  <2>1. 11 # 12 /\ Sp(p5, "svc") \in Stacks /\ Sp(p5, "svc") + 1 \in Stacks
    BY <1>1, <1>13
  <2> QED
    BY <1>3, <1>13, <2>1, TakesTwo, Zenon DEF p6
<1>15. p6 \in Machine /\ Sp(p6, "svc") = s + 3 /\ p6.mem = x.mem
  BY <1>1, <1>12, <1>13, <1>14 DEF TookTwo, Apart2
<1>16. TookLink(p6, "svc", p7)
  <2>1. Sp(p6, "svc") \in Stacks
    BY <1>1, <1>15
  <2> QED
    BY <1>3, <1>15, <2>1, TakesLink, Zenon DEF p7
<1>17. p7 \in Machine /\ p7.mem = x.mem /\ p7.num = x.num
       /\ p7.r[0] = p3.r[0] /\ p7.r[1] = p3.r[1] /\ p7.r[2] = p3.r[2] /\ p7.r[3] = p3.r[3] /\ p7.r[4] = p3.r[4]
       /\ p7.r[11] = Read(x, s + 1) /\ p7.r[12] = Read(x, s + 2)
       /\ p7.bank["usr"] = p3.bank["usr"] /\ p7.bank["irq"] = p3.bank["irq"]
       /\ Sp(p7, "svc") = s + 4 /\ Lr(p7, "svc") = Read(x, s + 3) /\ p7.bank["svc"].spsr = Read(x, s)
  BY <1>1, <1>3, <1>9, <1>10, <1>11, <1>12, <1>13, <1>14, <1>15, <1>16 DEF TookOne, TookTwo, TookLink, Apart2, Read
<1>18. p7.bank["svc"] = [sp |-> s + 4, lr |-> Read(x, s + 3), spsr |-> Read(x, s)]
       /\ p7.bank["usr"] = [sp |-> u + 4, lr |-> Read(x, u + 3), spsr |-> x.bank["usr"].spsr]
  <2>1. p7.bank["svc"] \in [sp : Int, lr : Int, spsr : Int] /\ p7.bank["usr"] \in [sp : Int, lr : Int, spsr : Int]
    BY <1>3, <1>17 DEF Machine
  <2> HIDE DEF u, s
  <2> QED
    BY <1>9, <1>17, <2>1 DEF Sp, Lr
<1>19. /\ t \in Machine /\ t.pc = Lr(p7, "svc") /\ t.cpsr = p7.bank["svc"].spsr /\ t.num = p7.num /\ t.r = p7.r
       /\ t.bank = p7.bank /\ t.mem = p7.mem
  <2> DEFINE pc == Lr(p7, "svc")  c == p7.bank["svc"].spsr  w == Turn(p7, pc, c)
  <2>1. pc \in Int /\ c \in Int
    BY <1>3, <1>17, BankType
  <2>2. t = [[p7 EXCEPT !.cpsr = c] EXCEPT !.pc = pc]
    BY DEF t, Returned, Stepped
  <2> HIDE DEF pc, c
  <2>3. t = w
    BY <1>17, <2>2 DEF Turn, Machine
  <2>4. w \in Machine /\ w.pc = pc /\ w.cpsr = c /\ w.num = p7.num /\ w.r = p7.r /\ w.bank = p7.bank /\ w.mem = p7.mem
    BY <1>17, <2>1, TurnIs
  <2> HIDE DEF w
  <2> QED
    BY <2>3, <2>4 DEF pc, c
<1> QED
  BY <1>2, <1>9, <1>17, <1>18, <1>19 DEF Closed

LEMMA CompletedUnframed ==
  ASSUME NEW x \in Machine, Framing(x)
  PROVE  Completed(x).x = Unframed(x)
BY CompletedIs, UnframedIs, ClosedOnce

-----------------------------------------------------------------------------
(* The wrapper around the interrupt handler.                                *)

\* t is x where the wrapper has saved the registers and calls the handler.
Wrapped(x, t) ==
  LET s == Sp(x, "irq") IN
  /\ t \in Machine /\ t.pc = Handler(x) - (Handler(x) % 4) /\ t.cpsr = x.cpsr /\ t.num = x.num
  /\ t.r[0] = IoBase /\ \A k \in Regs : k # 0 => t.r[k] = x.r[k]
  /\ t.bank["irq"] = [sp |-> s - 6, lr |-> IrqReturn, spsr |-> x.bank["irq"].spsr]
  /\ t.bank["usr"] = x.bank["usr"] /\ t.bank["svc"] = x.bank["svc"]
  /\ Read(t, s - 6) = x.r[0] /\ Read(t, s - 5) = x.r[1] /\ Read(t, s - 4) = x.r[2]
  /\ Read(t, s - 3) = x.r[3] /\ Read(t, s - 2) = x.r[12] /\ Read(t, s - 1) = Lr(x, "irq")
  /\ \A a \in Stacks : (a < s - 6 \/ a >= s) => Read(t, a) = Read(x, a)
  /\ \A i \in Held : OffStacks(i) => t.mem[i] = x.mem[i]

LEMMA NamesAre ==
  /\ 0 \in Regs /\ 1 \in Regs /\ 2 \in Regs /\ 3 \in Regs /\ 4 \in Regs /\ 11 \in Regs /\ 12 \in Regs
  /\ "usr" \in Banks /\ "svc" \in Banks /\ "irq" \in Banks
  /\ \A k \in Regs : k = 0 \/ k = 1 \/ k = 2 \/ k = 3 \/ k = 4 \/ k = 11 \/ k = 12
  /\ \A b \in Banks : b = "usr" \/ b = "svc" \/ b = "irq"
BY DEF Regs, Banks

LEMMA IrqEnteredIs ==
  ASSUME NEW x \in Machine, Sp(x, "irq") = IrqTop, Handler(x) \in Int
  PROVE  Wrapped(x, IrqEntered(x))
<1> DEFINE s == Sp(x, "irq")
           vs == <<x.r[0], x.r[1], x.r[2], x.r[3], x.r[12], Lr(x, "irq")>>
           p == Pushed(x, "irq", vs)
           e == [sp |-> s - 6, lr |-> IrqReturn, spsr |-> x.bank["irq"].spsr]
           q1 == SetR(p, 0, IoBase)
           q2 == SetBank(q1, "irq", e)
           h == Handler(x) - (Handler(x) % 4)
           t == IrqEntered(x)
<1>1. x.r[0] \in Int /\ x.r[1] \in Int /\ x.r[2] \in Int /\ x.r[3] \in Int /\ x.r[12] \in Int /\ Lr(x, "irq") \in Int
      /\ x.bank["irq"].spsr \in Int
  BY NamesAre, RegType, BankType
<1>2. /\ DOMAIN vs = 1 .. 6 /\ Len(vs) = 6 /\ vs[1] = x.r[0] /\ vs[2] = x.r[1] /\ vs[3] = x.r[2] /\ vs[4] = x.r[3]
      /\ vs[5] = x.r[12] /\ vs[6] = Lr(x, "irq")
  OBVIOUS
<1>3. s = 1022 /\ s - 6 >= 1000
  BY DEF IrqTop
<1> HIDE DEF vs
<1>4. /\ p \in Machine /\ p.pc = x.pc /\ p.cpsr = x.cpsr /\ p.num = x.num /\ p.r = x.r
      /\ p.bank = [x.bank EXCEPT !["irq"].sp = s - 6]
      /\ Read(p, s - 6) = vs[1] /\ Read(p, s - 5) = vs[2] /\ Read(p, s - 4) = vs[3] /\ Read(p, s - 3) = vs[4]
      /\ Read(p, s - 2) = vs[5] /\ Read(p, s - 1) = vs[6]
      /\ \A a \in Stacks : (a < s - 6 \/ a >= s) => Read(p, a) = Read(x, a)
      /\ \A i \in Held : OffStacks(i) => p.mem[i] = x.mem[i]
  <2>1. vs[1] \in Int /\ vs[2] \in Int /\ vs[3] \in Int /\ vs[4] \in Int /\ vs[5] \in Int /\ vs[6] \in Int
    BY <1>1, <1>2
  <2>2. Sp(x, "irq") - 6 >= 1000 /\ Sp(x, "irq") <= 1022
    BY <1>3
  <2>3. SixOn(x, "irq", vs, p)
    BY <1>2, <2>1, <2>2, NamesAre, PushSixOn, Zenon
  <2> QED
    BY <2>3, Zenon DEF SixOn
<1>5. x.bank \in [Banks -> [sp : Int, lr : Int, spsr : Int]]
  BY DEF Machine
<1>6. p.bank["usr"] = x.bank["usr"] /\ p.bank["svc"] = x.bank["svc"] /\ p.bank["irq"].spsr = x.bank["irq"].spsr
      /\ p.bank["irq"] = [sp |-> s - 6, lr |-> Lr(x, "irq"), spsr |-> x.bank["irq"].spsr]
  <2> HIDE DEF p, s
  <2> QED
    BY <1>4, <1>5, NamesAre DEF Lr
<1>7. e \in [sp : Int, lr : Int, spsr : Int] /\ IoBase \in Int /\ x.cpsr \in Int
  BY <1>1, <1>3 DEF IrqReturn, IoBase, Machine
<1>8. t = Turn(q2, h, x.cpsr)
  <2> DEFINE pb == p.bank["irq"]
  <2>2. t = [p EXCEPT !.r[0] = IoBase, !.bank["irq"].lr = IrqReturn, !.pc = h]
    BY DEF IrqEntered, vs, Handler
  <2>3. [pb EXCEPT !.lr = IrqReturn] = e
    BY <1>6
  <2> HIDE DEF p, h, t, e
  <2>4. Turn(q2, h, x.cpsr) = [[[p EXCEPT !.r[0] = IoBase] EXCEPT !.bank["irq"] = e] EXCEPT !.pc = h]
    BY <1>4, <1>7 DEF Turn, SetR, SetBank, Machine
  <2> QED
    BY <1>4, <2>2, <2>3, <2>4 DEF Machine
<1> HIDE DEF p, q1, q2, e, h, t
<1>9. Puts(p, 0, IoBase, q1)
  BY <1>4, <1>7, NamesAre, SetRIs, Zenon DEF q1
<1>10. q1 \in Machine
  BY <1>9 DEF Puts
<1>11. Banked(q1, "irq", e, q2)
  BY <1>7, <1>10, NamesAre, SetBankIs, Zenon DEF q2
<1>12. q2 \in Machine /\ h \in Int
  <2>1. h \in Int
    BY DEF h
  <2> QED
    BY <1>11, <2>1 DEF Banked
<1>13. t \in Machine /\ t.pc = h /\ t.cpsr = x.cpsr /\ t.num = q2.num /\ t.r = q2.r /\ t.bank = q2.bank /\ t.mem = q2.mem
  <2> DEFINE w == Turn(q2, h, x.cpsr)
  <2>1. w \in Machine /\ w.pc = h /\ w.cpsr = x.cpsr /\ w.num = q2.num /\ w.r = q2.r /\ w.bank = q2.bank /\ w.mem = q2.mem
    BY <1>7, <1>12, TurnIs
  <2> HIDE DEF w
  <2>2. t = w
    BY <1>8 DEF w
  <2> QED
    BY <2>1, <2>2
<1>14. t.num = x.num /\ t.mem = p.mem /\ t.r[0] = IoBase /\ (\A k \in Regs : k # 0 => t.r[k] = x.r[k])
       /\ t.bank["irq"] = e /\ t.bank["usr"] = x.bank["usr"] /\ t.bank["svc"] = x.bank["svc"]
  BY <1>4, <1>6, <1>9, <1>11, <1>13, NamesAre DEF Puts, Banked
<1>15. \A a : Read(t, a) = Read(p, a)
  BY <1>14 DEF Read
<1> QED
  <2>1. /\ Read(t, s - 6) = x.r[0] /\ Read(t, s - 5) = x.r[1] /\ Read(t, s - 4) = x.r[2]
        /\ Read(t, s - 3) = x.r[3] /\ Read(t, s - 2) = x.r[12] /\ Read(t, s - 1) = Lr(x, "irq")
    <3> HIDE DEF s
    <3> QED
      BY <1>2, <1>4, <1>15
  <2>2. \A a \in Stacks : (a < s - 6 \/ a >= s) => Read(t, a) = Read(x, a)
    <3> HIDE DEF s
    <3> QED
      BY <1>4, <1>15
  <2>3. \A i \in Held : OffStacks(i) => t.mem[i] = x.mem[i]
    BY <1>4, <1>14
  <2>4. Wrapped(x, t)
    BY <1>13, <1>14, <2>1, <2>2, <2>3, Zenon DEF Wrapped, e, h
  <2> QED
    BY <2>4 DEF t

\* The service does the same.
LEMMA IrqEntryIs ==
  ASSUME NEW x \in Machine, Sp(x, "irq") = IrqTop, Handler(x) \in Int, Handler(x) % 4 = 0
  PROVE  IrqEntry(x) = IrqEntered(x)
<1> DEFINE s == Sp(x, "irq") - 6
           vs == <<x.r[0], x.r[1], x.r[2], x.r[3], x.r[12], Lr(x, "irq")>>
           y == Writes(x, s, vs)
           h == Handler(x)
<1>1. Len(vs) = 6 /\ h - (h % 4) = h
  OBVIOUS
<1> HIDE DEF vs
<1> DEFINE mem == y.mem
           Rec(pc, r, bank) == [pc |-> pc, cpsr |-> x.cpsr, num |-> x.num, r |-> r, bank |-> bank, mem |-> mem]
           b1 == [x.bank EXCEPT !["irq"].sp = s]
           b2 == [b1 EXCEPT !["irq"].lr = IrqReturn]
           r0 == [x.r EXCEPT ![0] = IoBase]
           z == [y EXCEPT !.bank["irq"].sp = s]
<1>2. y = Rec(x.pc, x.r, x.bank)
  <2> DEFINE mm == [i \in DOMAIN x.mem |->
                       IF \E k \in DOMAIN vs : Host[s + k - 1] = i
                       THEN vs[CHOOSE k \in DOMAIN vs : Host[s + k - 1] = i] ELSE x.mem[i]]
  <2>1. y = [x EXCEPT !.mem = mm]
    BY DEF Writes
  <2> HIDE DEF y, mm
  <2> QED
    BY <2>1 DEF Machine
<1>3. IrqEntry(x) = [z EXCEPT !.bank["irq"].lr = IrqReturn, !.r[0] = IoBase, !.pc = h]
  BY DEF IrqEntry, vs
<1>4. IrqEntered(x) = [z EXCEPT !.r[0] = IoBase, !.bank["irq"].lr = IrqReturn, !.pc = h]
  <2> DEFINE w == [y EXCEPT !.bank["irq"].sp = @ - 6]
  <2>1. Pushed(x, "irq", vs) = w
    BY <1>1 DEF Pushed, Sp
  <2>2. IrqEntered(x) = [w EXCEPT !.r[0] = IoBase, !.bank["irq"].lr = IrqReturn, !.pc = h]
    BY <1>1, <2>1 DEF IrqEntered, vs, Handler
  <2>3. w = z
    <3> HIDE DEF y
    <3>1. y.bank = x.bank
      BY <1>2
    <3>2. y.bank["irq"].sp - 6 = s
      BY <3>1 DEF Sp
    <3> QED
      BY <3>2
  <2> HIDE DEF w
  <2> QED
    BY <2>2, <2>3
<1> HIDE DEF y, s, h, mem
<1>5. z = Rec(x.pc, x.r, b1)
  BY <1>2
<1> HIDE DEF z, b1
<1>6. [z EXCEPT !.bank["irq"].lr = IrqReturn] = Rec(x.pc, x.r, b2) /\ [z EXCEPT !.r[0] = IoBase] = Rec(x.pc, r0, b1)
  BY <1>5
<1> DEFINE p == [z EXCEPT !.bank["irq"].lr = IrqReturn]  q == [z EXCEPT !.r[0] = IoBase]
<1>7. IrqEntry(x) = [p EXCEPT !.r[0] = IoBase, !.pc = h]
  BY <1>3
<1>8. IrqEntered(x) = [q EXCEPT !.bank["irq"].lr = IrqReturn, !.pc = h]
  BY <1>4
<1>9. p = Rec(x.pc, x.r, b2) /\ q = Rec(x.pc, r0, b1)
  BY <1>6
<1> HIDE DEF p, q, r0, b2
<1>10. [p EXCEPT !.r[0] = IoBase] = Rec(x.pc, r0, b2)
  BY <1>9 DEF r0
<1>11. [q EXCEPT !.bank["irq"].lr = IrqReturn] = Rec(x.pc, r0, b2)
  BY <1>9 DEF b2
<1> DEFINE pp == [p EXCEPT !.r[0] = IoBase]  qq == [q EXCEPT !.bank["irq"].lr = IrqReturn]
<1>12. IrqEntry(x) = [pp EXCEPT !.pc = h] /\ IrqEntered(x) = [qq EXCEPT !.pc = h]
  BY <1>7, <1>8
<1>13. pp = qq
  BY <1>10, <1>11
<1> HIDE DEF pp, qq
<1> QED
  BY <1>12, <1>13

LEMMA WrappedSame ==
  ASSUME NEW x, NEW y, Same(x, y), Seated(x), Sp(x, "irq") = IrqTop, NEW t, NEW v, Wrapped(x, t), Wrapped(y, v)
  PROVE  Same(t, v)
<1> DEFINE s == Sp(x, "irq")
<1>1. x \in Machine /\ y \in Machine /\ x.cpsr = y.cpsr /\ x.num = y.num /\ x.r = y.r /\ x.bank = y.bank
  BY DEF Same
<1>2. /\ \A a \in Stacks : a \notin Free(x) => Read(x, a) = Read(y, a)
      /\ \A i \in Held : OffStacks(i) => x.mem[i] = y.mem[i]
  BY SameGives
<1>3. Sp(y, "irq") = s /\ Lr(y, "irq") = Lr(x, "irq") /\ s = 1022
  BY <1>1 DEF Sp, Lr, IrqTop
<1>4. t \in Machine /\ v \in Machine
  BY DEF Wrapped
<1>5. t.bank = v.bank
  <2>1. t.bank \in [Banks -> [sp : Int, lr : Int, spsr : Int]] /\ v.bank \in [Banks -> [sp : Int, lr : Int, spsr : Int]]
    BY <1>4 DEF Machine
  <2>2. t.bank["usr"] = v.bank["usr"] /\ t.bank["svc"] = v.bank["svc"] /\ t.bank["irq"] = v.bank["irq"]
    BY <1>1, <1>3 DEF Wrapped
  <2>3. \A b \in Banks : t.bank[b] = v.bank[b]
    BY <2>2, NamesAre
  <2> QED
    BY <2>1, <2>3
<1>6. t.r = v.r
  <2>1. t.r \in [Regs -> Int] /\ v.r \in [Regs -> Int]
    BY <1>4 DEF Machine
  <2>2. \A k \in Regs : t.r[k] = v.r[k]
    BY <1>1 DEF Wrapped
  <2> QED
    BY <2>1, <2>2
<1>7. HandlerCell \in Stacks /\ HandlerCell \notin Free(x)
  BY StacksAre DEF HandlerCell, Free, Seated, UserTop, SvcTop, IrqTop
<1>8. t.pc = v.pc /\ t.cpsr = v.cpsr /\ t.num = v.num
  <2>1. Handler(x) = Handler(y)
    BY <1>2, <1>7 DEF Handler
  <2> QED
    BY <1>1, <2>1 DEF Wrapped
<1>9. Sp(t, "usr") = Sp(x, "usr") /\ Sp(t, "svc") = Sp(x, "svc") /\ Sp(t, "irq") = s - 6
  BY DEF Wrapped, Sp
<1>10. Seated(t)
  BY <1>9 DEF Seated, IrqTop
<1>11. \A a \in Stacks : a \notin Free(t) => Read(t, a) = Read(v, a)
  <2> SUFFICES ASSUME NEW a \in Stacks, a \notin Free(t) PROVE Read(t, a) = Read(v, a)
    OBVIOUS
  <2>1. a \in Int
    BY StacksAre
  <2>2. CASE a < s - 6 \/ a >= s
    <3>1. Read(t, a) = Read(x, a) /\ Read(v, a) = Read(y, a)
      BY <1>3, <2>2 DEF Wrapped
    <3>2. a \notin Free(x)
      BY <1>3, <1>9, <2>1, <2>2 DEF Free, IrqTop
    <3> QED
      BY <1>2, <3>1, <3>2
  <2>3. CASE ~(a < s - 6 \/ a >= s)
    <3>1. a = s - 6 \/ a = s - 5 \/ a = s - 4 \/ a = s - 3 \/ a = s - 2 \/ a = s - 1
      BY <1>3, <2>1, <2>3
    <3>2. /\ Read(t, s - 6) = x.r[0] /\ Read(t, s - 5) = x.r[1] /\ Read(t, s - 4) = x.r[2]
          /\ Read(t, s - 3) = x.r[3] /\ Read(t, s - 2) = x.r[12] /\ Read(t, s - 1) = Lr(x, "irq")
      BY DEF Wrapped
    <3>3. /\ Read(v, s - 6) = x.r[0] /\ Read(v, s - 5) = x.r[1] /\ Read(v, s - 4) = x.r[2]
          /\ Read(v, s - 3) = x.r[3] /\ Read(v, s - 2) = x.r[12] /\ Read(v, s - 1) = Lr(x, "irq")
      BY <1>1, <1>3 DEF Wrapped
    <3> QED
      BY <3>1, <3>2, <3>3
  <2> QED
    BY <2>2, <2>3
<1>12. \A i \in Held : OffStacks(i) => t.mem[i] = v.mem[i]
  BY <1>2 DEF Wrapped
<1> QED
  BY <1>4, <1>5, <1>6, <1>8, <1>10, <1>11, <1>12, SameIs

\* t is x back where the interrupt was taken.
Unwrapped(x, t) ==
  LET s == Sp(x, "irq") IN
  /\ t \in Machine /\ t.pc = Read(x, s + 5) - 4 /\ t.cpsr = x.bank["irq"].spsr /\ t.num = x.num /\ t.mem = x.mem
  /\ t.r[0] = Read(x, s) /\ t.r[1] = Read(x, s + 1) /\ t.r[2] = Read(x, s + 2)
  /\ t.r[3] = Read(x, s + 3) /\ t.r[12] = Read(x, s + 4) /\ t.r[4] = x.r[4] /\ t.r[11] = x.r[11]
  /\ t.bank["irq"] = [sp |-> s + 6, lr |-> Read(x, s + 5), spsr |-> x.bank["irq"].spsr]
  /\ t.bank["usr"] = x.bank["usr"] /\ t.bank["svc"] = x.bank["svc"]

LEMMA UnwrappedOnce ==
  ASSUME NEW x, NEW t, NEW v, Unwrapped(x, t), Unwrapped(x, v)
  PROVE  t = v
<1>1. t \in Machine /\ v \in Machine /\ t.mem = v.mem /\ t.num = v.num /\ t.pc = v.pc /\ t.cpsr = v.cpsr
  BY DEF Unwrapped
<1>2. t.r = v.r
  <2>1. t.r \in [Regs -> Int] /\ v.r \in [Regs -> Int]
    BY <1>1 DEF Machine
  <2>2. \A k \in Regs : t.r[k] = v.r[k]
    BY NamesAre DEF Unwrapped
  <2> QED
    BY <2>1, <2>2
<1>3. t.bank = v.bank
  <2>1. t.bank \in [Banks -> [sp : Int, lr : Int, spsr : Int]] /\ v.bank \in [Banks -> [sp : Int, lr : Int, spsr : Int]]
    BY <1>1 DEF Machine
  <2>2. \A b \in Banks : t.bank[b] = v.bank[b]
    BY NamesAre DEF Unwrapped
  <2> QED
    BY <2>1, <2>2
<1> QED
  BY <1>1, <1>2, <1>3, MachineEq

LEMMA WrapWords ==
  ASSUME NEW x \in Machine, Sp(x, "irq") = IrqTop - 6
  PROVE  LET s == Sp(x, "irq") IN
         /\ s \in Int /\ \A i \in 0 .. 5 : s + i \in Stacks /\ Read(x, s + i) \in Int
         /\ Read(x, s) \in Int /\ Read(x, s + 1) \in Int /\ Read(x, s + 2) \in Int /\ Read(x, s + 3) \in Int
         /\ Read(x, s + 4) \in Int /\ Read(x, s + 5) \in Int
<1> DEFINE s == Sp(x, "irq")
<1>1. s = 1016
  BY DEF IrqTop
<1>2. \A i \in 0 .. 5 : s + i \in Stacks
  BY <1>1, StacksAre
<1>3. s \in Stacks /\ s + 1 \in Stacks /\ s + 2 \in Stacks /\ s + 3 \in Stacks /\ s + 4 \in Stacks /\ s + 5 \in Stacks
  BY <1>1, StacksAre
<1>4. \A a \in Stacks : Read(x, a) \in Int
  BY StacksAre, ReadType
<1> HIDE DEF s
<1>5. \A i \in 0 .. 5 : Read(x, s + i) \in Int
  BY <1>2, <1>4
<1>6. /\ Read(x, s) \in Int /\ Read(x, s + 1) \in Int /\ Read(x, s + 2) \in Int /\ Read(x, s + 3) \in Int
      /\ Read(x, s + 4) \in Int /\ Read(x, s + 5) \in Int
  BY <1>3, <1>4
<1> QED
  BY <1>1, <1>2, <1>5, <1>6 DEF s

LEMMA IrqRestoredIs ==
  ASSUME NEW x \in Machine, Sp(x, "irq") = IrqTop - 6
  PROVE  Unwrapped(x, IrqRestored(x))
<1> DEFINE s == Sp(x, "irq")
           s0 == Read(x, s)  s1 == Read(x, s + 1)  s2 == Read(x, s + 2)
           s3 == Read(x, s + 3)  s4 == Read(x, s + 4)  s5 == Read(x, s + 5)
           c == x.bank["irq"].spsr
           n == s + 6  pc == s5 - 4
           t == IrqRestored(x)
           y1 == SetR(x, 0, s0)
           y2 == SetR(y1, 1, s1)
           y3 == SetR(y2, 2, s2)
           y4 == SetR(y3, 3, s3)
           y5 == SetR(y4, 12, s4)
           p1 == [y5.bank["irq"] EXCEPT !.sp = n]
           z1 == SetBank(y5, "irq", p1)
           p == [z1.bank["irq"] EXCEPT !.lr = s5]
           z == SetBank(z1, "irq", p)
<1>1. /\ s \in Int /\ s0 \in Int /\ s1 \in Int /\ s2 \in Int /\ s3 \in Int /\ s4 \in Int /\ s5 \in Int
  BY WrapWords
<1>2. c \in Int
  BY NamesAre, BankType
<1>3. t = [[z EXCEPT !.cpsr = c] EXCEPT !.pc = pc]
  BY DEF IrqRestored, SetR, SetBank
<1>4. n \in Int /\ pc \in Int
  <2> HIDE DEF s, s5
  <2> QED
    BY <1>1
<1> HIDE DEF s0, s1, s2, s3, s4, s5, s, n, pc, t, c
<1> HIDE DEF y1, y2, y3, y4, y5
<1>5. Puts(x, 0, s0, y1)
  BY <1>1, NamesAre, SetRIs, Zenon DEF y1
<1>6. Puts(y1, 1, s1, y2)
  <2>1. y1 \in Machine
    BY <1>5 DEF Puts
  <2> QED
    BY <1>1, <2>1, NamesAre, SetRIs, Zenon DEF y2
<1>7. Puts(y2, 2, s2, y3)
  <2>1. y2 \in Machine
    BY <1>6 DEF Puts
  <2> QED
    BY <1>1, <2>1, NamesAre, SetRIs, Zenon DEF y3
<1>8. Puts(y3, 3, s3, y4)
  <2>1. y3 \in Machine
    BY <1>7 DEF Puts
  <2> QED
    BY <1>1, <2>1, NamesAre, SetRIs, Zenon DEF y4
<1>9. Puts(y4, 12, s4, y5)
  <2>1. y4 \in Machine
    BY <1>8 DEF Puts
  <2> QED
    BY <1>1, <2>1, NamesAre, SetRIs, Zenon DEF y5
<1>10. /\ y5 \in Machine /\ y5.num = x.num /\ y5.bank = x.bank /\ y5.mem = x.mem
       /\ y5.r[0] = s0 /\ y5.r[1] = s1 /\ y5.r[2] = s2 /\ y5.r[3] = s3 /\ y5.r[12] = s4
       /\ y5.r[4] = x.r[4] /\ y5.r[11] = x.r[11]
  BY <1>5, <1>6, <1>7, <1>8, <1>9, NamesAre DEF Puts
<1> DEFINE b1 == [sp |-> n, lr |-> Lr(x, "irq"), spsr |-> c]
           bi == [sp |-> n, lr |-> s5, spsr |-> c]
<1>11. p1 = b1
  <2> DEFINE e == y5.bank["irq"]
  <2>1. e \in [sp : Int, lr : Int, spsr : Int]
    BY <1>10, NamesAre DEF Machine
  <2>2. e.spsr = c /\ e.lr = Lr(x, "irq")
    BY <1>10 DEF c, Lr
  <2> HIDE DEF e
  <2>3. [e EXCEPT !.sp = n] = [sp |-> n, lr |-> e.lr, spsr |-> e.spsr]
    BY <2>1
  <2> QED
    BY <2>2, <2>3 DEF e
<1>12. b1 \in [sp : Int, lr : Int, spsr : Int] /\ bi \in [sp : Int, lr : Int, spsr : Int]
  <2>1. Lr(x, "irq") \in Int
    BY BankType, NamesAre
  <2> QED
    BY <1>1, <1>2, <1>4, <2>1
<1> HIDE DEF p1, b1, z1
<1>121. Banked(y5, "irq", p1, z1)
  BY <1>10, <1>11, <1>12, NamesAre, SetBankIs, Zenon DEF z1
<1>122. z1 \in Machine /\ z1.bank["irq"] = b1
  BY <1>11, <1>121 DEF Banked
<1>123. p = bi
  BY <1>122 DEF b1
<1> HIDE DEF p, bi, z
<1>13. Banked(z1, "irq", p, z)
  BY <1>12, <1>122, <1>123, NamesAre, SetBankIs, Zenon DEF z
<1>14. z \in Machine
  BY <1>13 DEF Banked
<1>15. t \in Machine /\ t.pc = pc /\ t.cpsr = c /\ t.num = z.num /\ t.r = z.r /\ t.bank = z.bank /\ t.mem = z.mem
  <2> DEFINE w == Turn(z, pc, c)
  <2>1. w \in Machine /\ w.pc = pc /\ w.cpsr = c /\ w.num = z.num /\ w.r = z.r /\ w.bank = z.bank /\ w.mem = z.mem
    BY <1>2, <1>4, <1>14, TurnIs
  <2>2. t = w
    BY <1>3, <1>14 DEF Turn, Machine
  <2> HIDE DEF w
  <2> QED
    BY <2>1, <2>2
<1>16. t.num = x.num /\ t.mem = x.mem /\ t.r = y5.r /\ t.bank["irq"] = bi /\ t.bank["usr"] = x.bank["usr"]
       /\ t.bank["svc"] = x.bank["svc"]
  BY <1>10, <1>121, <1>123, <1>13, <1>15, NamesAre DEF Banked
<1>17. Unwrapped(x, t)
  BY <1>10, <1>15, <1>16, Zenon DEF Unwrapped, s0, s1, s2, s3, s4, s5, s, n, pc, c, bi
<1> QED
  BY <1>17 DEF t

\* Several registers off a stack.
Listed(x, b, n, rs) ==
  /\ DOMAIN rs = 1 .. n /\ Len(rs) = n
  /\ \A i \in 1 .. n : rs[i] \in Regs /\ Read(x, Sp(x, b) + i - 1) \in Int
  /\ \A i, j \in 1 .. n : rs[i] = rs[j] => i = j
TookMany(x, b, n, rs, t) ==
  /\ Apart2(x, b, n, t) /\ Lr(t, b) = Lr(x, b)
  /\ \A i \in 1 .. n : t.r[rs[i]] = Read(x, Sp(x, b) + i - 1)
  /\ \A j \in Regs : (\A i \in 1 .. n : rs[i] # j) => t.r[j] = x.r[j]
LEMMA TakesMany ==
  ASSUME NEW x \in Machine, NEW b \in Banks, NEW n \in Nat, NEW rs, Listed(x, b, n, rs)
  PROVE  TookMany(x, b, n, rs, Popped(x, b, rs))
<1>0. /\ DOMAIN rs = 1 .. n /\ Len(rs) = n
      /\ \A i \in 1 .. n : rs[i] \in Regs /\ Read(x, Sp(x, b) + i - 1) \in Int
      /\ \A i, j \in 1 .. n : rs[i] = rs[j] => i = j
  BY DEF Listed
<1> DEFINE s == Sp(x, b)
           r == [j \in DOMAIN x.r |-> IF \E i \in DOMAIN rs : rs[i] = j
                                      THEN Read(x, Sp(x, b) - 1 + (CHOOSE i \in DOMAIN rs : rs[i] = j)) ELSE x.r[j]]
           t == Popped(x, b, rs)
<1>1. s \in Int
  BY BankType
<1>2. x.r \in [Regs -> Int] /\ x.bank \in [Banks -> [sp : Int, lr : Int, spsr : Int]]
  BY DEF Machine
<1>3. ASSUME NEW i \in 1 .. n PROVE r[rs[i]] = Read(x, s + i - 1)
  <2>1. (CHOOSE k \in DOMAIN rs : rs[k] = rs[i]) = i
    BY <1>0
  <2>2. s - 1 + i = s + i - 1
    BY <1>1
  <2>3. rs[i] \in DOMAIN x.r
    BY <1>0, <1>2
  <2>4. \E k \in DOMAIN rs : rs[k] = rs[i]
    BY <1>0
  <2>5. r[rs[i]] = Read(x, s - 1 + (CHOOSE k \in DOMAIN rs : rs[k] = rs[i]))
    BY <2>3, <2>4
  <2> QED
    BY <2>1, <2>2, <2>5
<1>4. ASSUME NEW j \in Regs, \A i \in 1 .. n : rs[i] # j PROVE r[j] = x.r[j]
  BY <1>0, <1>2, <1>4
<1>5. r \in [Regs -> Int]
  <2>1. DOMAIN r = Regs
    BY <1>2
  <2>2. ASSUME NEW j \in Regs PROVE r[j] \in Int
    <3>1. CASE \A i \in 1 .. n : rs[i] # j
      BY <1>2, <1>4, <3>1
    <3>2. CASE \E i \in 1 .. n : rs[i] = j
      <4>1. PICK i \in 1 .. n : rs[i] = j
        BY <3>2
      <4> HIDE DEF r
      <4>2. r[j] = Read(x, s + i - 1)
        BY <1>3, <4>1
      <4> QED
        BY <1>0, <4>2
    <3> QED
      BY <3>1, <3>2
  <2>3. r = [j \in Regs |-> r[j]]
    BY <1>2
  <2> HIDE DEF r
  <2> QED
    BY <2>2, <2>3
<1> DEFINE e == [sp |-> s + n, lr |-> Lr(x, b), spsr |-> x.bank[b].spsr]
           y == [x EXCEPT !.r = r]
<1>6. e \in [sp : Int, lr : Int, spsr : Int]
  <2>1. s + n \in Int /\ Lr(x, b) \in Int /\ x.bank[b].spsr \in Int
    BY <1>1, BankType
  <2> HIDE DEF s
  <2> QED
    BY <2>1
<1>7. t = SetBank(y, b, e)
  <2>1. t = [x EXCEPT !.r = r, !.bank[b].sp = @ + n]
    BY <1>0 DEF Popped
  <2>2. [x.bank[b] EXCEPT !.sp = s + n] = e
    BY <1>2 DEF Lr
  <2>3. x.bank[b].sp + n = s + n
    BY DEF Sp
  <2> HIDE DEF r, t, e, s
  <2>4. t = [y EXCEPT !.bank = [x.bank EXCEPT ![b].sp = @ + n]]
    BY <2>1 DEF Machine
  <2>5. [x.bank EXCEPT ![b].sp = @ + n] = [x.bank EXCEPT ![b] = e]
    BY <2>2, <2>3
  <2>6. y.bank = x.bank
    BY DEF Machine
  <2> HIDE DEF y
  <2> QED
    BY <2>4, <2>5, <2>6 DEF SetBank
<1> HIDE DEF r
<1>8. y \in Machine /\ y.pc = x.pc /\ y.cpsr = x.cpsr /\ y.num = x.num /\ y.r = r /\ y.bank = x.bank /\ y.mem = x.mem
  <2>1. y \in Machine
    BY <1>5, AlterType
  <2> QED
    BY <2>1 DEF Machine
<1> HIDE DEF y, t
<1>9. e.sp = s + n /\ e.lr = Lr(x, b) /\ e.spsr = x.bank[b].spsr
  OBVIOUS
<1> HIDE DEF e
<1>10. Banked(y, b, e, t)
  BY <1>6, <1>7, <1>8, SetBankIs, Zenon
<1>11. t.r = r
  BY <1>8, <1>10 DEF Banked
<1>12. Apart2(x, b, n, t) /\ Lr(t, b) = Lr(x, b)
  BY <1>8, <1>9, <1>10 DEF Banked, Apart2, Sp, Lr
<1>13. \A i \in 1 .. n : t.r[rs[i]] = Read(x, Sp(x, b) + i - 1)
  BY <1>3, <1>11
<1>14. \A j \in Regs : (\A i \in 1 .. n : rs[i] # j) => t.r[j] = x.r[j]
  BY <1>4, <1>11
<1> QED
  BY <1>12, <1>13, <1>14 DEF t, TookMany

LEMMA IrqBackIs ==
  ASSUME NEW x \in Machine, Sp(x, "irq") = IrqTop - 6
  PROVE  Unwrapped(x, IrqBack(Relinked(Popped(x, "irq", <<0, 1, 2, 3, 12>>), "irq")))
<1> DEFINE s == Sp(x, "irq")
           rs == <<0, 1, 2, 3, 12>>
           p == Popped(x, "irq", rs)
           q == Relinked(p, "irq")
           t == IrqBack(q)
           n == 5
<1>1. /\ s \in Int /\ \A i \in 0 .. 5 : s + i \in Stacks /\ Read(x, s + i) \in Int
      /\ Read(x, s + 5) \in Int
  BY WrapWords
<1>2. /\ n \in Nat /\ DOMAIN rs = 1 .. n /\ Len(rs) = n
      /\ rs[1] = 0 /\ rs[2] = 1 /\ rs[3] = 2 /\ rs[4] = 3 /\ rs[5] = 12
  OBVIOUS
<1>3. \A i \in 1 .. n : i = 1 \/ i = 2 \/ i = 3 \/ i = 4 \/ i = 5
  OBVIOUS
<1> HIDE DEF rs
<1>4. \A i \in 1 .. n : rs[i] \in Regs
  <2>1. rs[1] \in Regs /\ rs[2] \in Regs /\ rs[3] \in Regs /\ rs[4] \in Regs /\ rs[5] \in Regs
    BY <1>2, NamesAre
  <2> QED
    BY <1>3, <2>1
<1>5. \A i \in 1 .. n : Read(x, s + i - 1) \in Int
  <2> SUFFICES ASSUME NEW i \in 1 .. n PROVE Read(x, s + i - 1) \in Int
    OBVIOUS
  <2> DEFINE k == i - 1
  <2>1. k \in 0 .. 5 /\ s + k = s + i - 1
    BY <1>1
  <2> HIDE DEF k, s
  <2>2. Read(x, s + k) \in Int
    BY <1>1, <2>1
  <2> QED
    BY <2>1, <2>2
<1>6. \A i, j \in 1 .. n : rs[i] = rs[j] => i = j
  <2> SUFFICES ASSUME NEW i \in 1 .. n, NEW j \in 1 .. n, rs[i] = rs[j] PROVE i = j
    OBVIOUS
  <2> QED
    BY <1>2, <1>3
<1> HIDE DEF n, p
<1>7. /\ Apart2(x, "irq", n, p) /\ Lr(p, "irq") = Lr(x, "irq")
      /\ \A i \in 1 .. n : p.r[rs[i]] = Read(x, s + i - 1)
      /\ \A j \in Regs : (\A i \in 1 .. n : rs[i] # j) => p.r[j] = x.r[j]
  <2>1. Listed(x, "irq", n, rs)
    BY <1>2, <1>4, <1>5, <1>6 DEF Listed
  <2>2. TookMany(x, "irq", n, rs, p)
    BY <1>2, <2>1, NamesAre, TakesMany, Zenon DEF p
  <2> QED
    BY <2>2 DEF TookMany
<1>8. p.r[0] = Read(x, s) /\ p.r[1] = Read(x, s + 1) /\ p.r[2] = Read(x, s + 2) /\ p.r[3] = Read(x, s + 3)
      /\ p.r[12] = Read(x, s + 4)
  <2>1. 1 \in 1 .. n /\ 2 \in 1 .. n /\ 3 \in 1 .. n /\ 4 \in 1 .. n /\ 5 \in 1 .. n
    BY DEF n
  <2>2. s + 1 - 1 = s /\ s + 2 - 1 = s + 1 /\ s + 3 - 1 = s + 2 /\ s + 4 - 1 = s + 3 /\ s + 5 - 1 = s + 4
    BY <1>1
  <2> HIDE DEF s
  <2>3. /\ p.r[rs[1]] = Read(x, s + 1 - 1) /\ p.r[rs[2]] = Read(x, s + 2 - 1) /\ p.r[rs[3]] = Read(x, s + 3 - 1)
        /\ p.r[rs[4]] = Read(x, s + 4 - 1) /\ p.r[rs[5]] = Read(x, s + 5 - 1)
    BY <1>7, <2>1
  <2> QED
    BY <1>2, <2>2, <2>3
<1>9. p.r[4] = x.r[4] /\ p.r[11] = x.r[11]
  <2>1. (\A i \in 1 .. n : rs[i] # 4) /\ (\A i \in 1 .. n : rs[i] # 11)
    BY <1>2, <1>3
  <2> QED
    BY <1>7, <2>1, NamesAre
<1>10. p \in Machine /\ Sp(p, "irq") = s + 5 /\ p.mem = x.mem /\ p.num = x.num
       /\ p.bank["usr"] = x.bank["usr"] /\ p.bank["svc"] = x.bank["svc"] /\ p.bank["irq"].spsr = x.bank["irq"].spsr
  BY <1>7, NamesAre DEF Apart2, n
<1>11. s + 5 \in Stacks
  BY <1>1
<1> HIDE DEF q
<1>12. TookLink(p, "irq", q)
  BY <1>10, <1>11, NamesAre, TakesLink, Zenon DEF q
<1>13. q \in Machine /\ Sp(q, "irq") = s + 6 /\ q.mem = x.mem /\ q.num = x.num /\ q.r = p.r
       /\ q.bank["usr"] = x.bank["usr"] /\ q.bank["svc"] = x.bank["svc"] /\ q.bank["irq"].spsr = x.bank["irq"].spsr
       /\ Lr(q, "irq") = Read(x, s + 5)
  BY <1>1, <1>10, <1>12, NamesAre DEF TookLink, Apart2, Read
<1>14. q.bank["irq"] = [sp |-> s + 6, lr |-> Read(x, s + 5), spsr |-> x.bank["irq"].spsr]
  <2>1. q.bank["irq"] \in [sp : Int, lr : Int, spsr : Int]
    BY <1>13, NamesAre DEF Machine
  <2> HIDE DEF s
  <2> QED
    BY <1>13, <2>1 DEF Sp, Lr
<1>15. /\ t \in Machine /\ t.pc = Read(x, s + 5) - 4 /\ t.cpsr = x.bank["irq"].spsr /\ t.num = q.num /\ t.r = q.r
       /\ t.bank = q.bank /\ t.mem = q.mem
  <2> DEFINE pc == Lr(q, "irq") - 4  c == q.bank["irq"].spsr  w == Turn(q, pc, c)
  <2>1. pc \in Int /\ c \in Int
    BY <1>13, NamesAre, BankType
  <2>2. t = [[q EXCEPT !.cpsr = c] EXCEPT !.pc = pc]
    BY DEF IrqBack
  <2>5. pc = Read(x, s + 5) - 4 /\ c = x.bank["irq"].spsr
    BY <1>13
  <2> HIDE DEF pc, c, t
  <2>3. t = w
    BY <1>13, <2>2 DEF Turn, Machine
  <2>4. w \in Machine /\ w.pc = pc /\ w.cpsr = c /\ w.num = q.num /\ w.r = q.r /\ w.bank = q.bank /\ w.mem = q.mem
    BY <1>13, <2>1, TurnIs
  <2> HIDE DEF w
  <2> QED
    BY <2>3, <2>4, <2>5
<1> HIDE DEF t
<1>16. Unwrapped(x, t)
  <2>1. t.r = p.r /\ t.bank = q.bank /\ t.num = x.num /\ t.mem = x.mem
    BY <1>13, <1>15
  <2> QED
    BY <1>8, <1>9, <1>13, <1>14, <1>15, <2>1, Zenon DEF Unwrapped, s
<1> QED
  BY <1>16 DEF t, q, p, rs

LEMMA IrqExitIs ==
  ASSUME NEW x \in Machine, Sp(x, "irq") = IrqTop - 6, NEW w
  PROVE  IrqExit(x, w) = IrqLeft(x, w)
<1> DEFINE t == IrqBack(Relinked(Popped(x, "irq", <<0, 1, 2, 3, 12>>), "irq"))
<1>1. IrqRestored(x) = t
  BY IrqRestoredIs, IrqBackIs, UnwrappedOnce
<1> HIDE DEF t
<1>2. IrqLeft(x, w) = Unmasked(t, w)
  BY DEF IrqLeft, t
<1>3. IrqExit(x, w) = Raised(t, w)
  BY <1>1 DEF IrqExit
<1> QED
  BY <1>2, <1>3 DEF Raised, Unmasked, Interrupted
=============================================================================
