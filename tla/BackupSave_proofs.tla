-------------------------- MODULE BackupSave_proofs --------------------------
(***************************************************************************)
(* What TLC checks of four games, proved for every library of games, every *)
(* byte they save and any number of operations and sessions.               *)
(***************************************************************************)
EXTENDS BackupSave, SequenceTheorems, TLAPS

(* The operations of the game, item by item. *)
After(x, s) == <<x>> \o s
Unlocked(s) == After(Byte(Unlock1, 170), After(Byte(Unlock2, 85), s))
Order(v, s) == After(Byte(Unlock1, v), s)
Wipe(b, o) == Erased({Cell(b, o)})
SectorByte(o) == Byte(Sector(o) * 4096, 48)

(* What a game sends in bank b once it has unlocked the flash. *)
InBankOps(b) ==
  {Operation(Order(CmdProgram, <<Byte(o, v)>>), Holding(Cell(b, o), v)) : o \in Offsets, v \in Values}
  \cup {Operation(Order(CmdErase, Unlocked(<<SectorByte(o)>>)), Wipe(b, o)) : o \in Offsets}
SelectOps ==
  UNION {{Operation(Order(CmdBank, After(Byte(0, c), Unlocked(op.todo))), op.goal) : op \in InBankOps(c)} :
           c \in {0, 1}}
BaseOps(g, b) ==
  InBankOps(b) \cup (IF g \in Large THEN SelectOps ELSE {})
  \cup {Operation(Order(CmdErase, Unlocked(Order(CmdChip, <<>>))), Erased(Cells(g))),
        Operation(Order(CmdIdentify, Unlocked(Order(CmdLeave, <<>>))), Nothing)}
EraseOps(g, b) ==
  {Operation(<<SectorByte(o)>>, Wipe(b, o)) : o \in Offsets}
  \cup {Operation(Order(CmdChip, <<>>), Erased(Cells(g)))}
Orders(g, mode, bank) ==
  CASE mode = "base" -> BaseOps(g, bank)
    [] mode = "erase" -> EraseOps(g, bank)
    [] mode = "id" -> {Operation(Order(CmdLeave, <<>>), Nothing)}
    [] OTHER -> {}

Locked(op, sc) == sc = Operation(Unlocked(op.todo), op.goal)
HalfLocked(op, sc) == sc = Operation(After(Byte(Unlock2, 85), op.todo), op.goal)

(* What is left of a flash game's operation is what the chip waits for. *)
FlashWaits(g, t, f, sc) ==
  /\ g \in Large => f.cnt = 2
  /\ g \notin Large => f.bank = 0
  /\ t # "eeprom"
  /\ f.pos # 0 \/ f.mode # "base" => t = "flash"
  /\ \/ f.pos = 0 /\ f.mode = "base" /\ sc = Idle
     \/ f.pos = 0 /\ \E op \in Orders(g, f.mode, f.bank) : Locked(op, sc)
     \/ f.pos = 1 /\ \E op \in Orders(g, f.mode, f.bank) : HalfLocked(op, sc)
     \/ f.pos = 2 /\ sc \in Orders(g, f.mode, f.bank)
     \/ /\ f.pos = 0 /\ f.mode = "write"
        /\ \E o \in Offsets, v \in Values : sc = Operation(<<Byte(o, v)>>, Holding(Cell(f.bank, o), v))
     \/ /\ f.pos = 0 /\ f.mode = "bank" /\ g \in Large
        /\ \E b \in {0, 1} : \E op \in InBankOps(b) :
             sc = Operation(After(Byte(0, b), Unlocked(op.todo)), op.goal)

SramWaits(t, f, sc) ==
  /\ t \in {"unkn", "sram"} /\ f.mode = "base" /\ f.pos = 0
  /\ sc = Idle \/ sc \in SramOperations

EepromWaits(g, t, e, sc) ==
  /\ t \in {"unkn", "eeprom"}
  /\ \/ e.mode = "base" /\ sc = Idle
     \/ /\ e.mode = "base"
        /\ \E a \in Cells(g), v \in Values :
             sc = Operation(<<Block("write", a, v)>>, Holding(a, v))
     \/ /\ e.mode = "base"
        /\ \E a \in Cells(g) :
             sc = Operation(<<Block("request", a, 0), Block("read", a, 0)>>, Nothing)
     \/ /\ e.mode = "header" /\ t = "eeprom"
        /\ \E a \in Cells(g) : sc = Operation(<<Block("read", a, 0)>>, Nothing)

Waits(g, t, f, e, sc) ==
  CASE Kind[g] = "sram" -> SramWaits(t, f, sc)
    [] Kind[g] = "flash" -> FlashWaits(g, t, f, sc)
    [] OTHER -> EepromWaits(g, t, e, sc)

(* The registers say which chip the game has, and how large it is. *)
Sized(g, t, f, e) ==
  /\ t = Kind[g]
  /\ t = "flash" /\ g \in Large => f.cnt = 2
  /\ t = "eeprom" /\ g \in Large => e.size = 16

ChipWaits == Playing => Waits(game, type, flash, eeprom, script)
StatesWait ==
  \A g \in Games : LET s == states[Stem[g]] IN
    s.made => Waits(g, s.type, s.flash, s.eeprom, s.script) /\ Sized(g, s.type, s.flash, s.eeprom)
DirtySized == Playing /\ dirty => Sized(game, type, flash, eeprom)
CleanKept ==
  Playing /\ ~dirty => \A p \in Cells(game) : file[Stem[game]].data[p] = saved[game][p]
SaveInv == ChipWaits /\ StatesWait /\ DirtySized /\ CleanKept /\ LiveSave /\ SaveKept

-----------------------------------------------------------------------------
(* Sequences of items *)

Items ==
  [op : {"byte", "write", "read"}, at : Nat, value : 0 .. 255]
  \cup [op : {"request"}, at : Places, value : 0 .. 255]
Lists == Seq(Items)
IsScript(sc) ==
  /\ sc = Operation(sc.todo, sc.goal)
  /\ sc.todo \in Lists
  /\ \A p \in DOMAIN sc.goal : sc.goal[p] \in 0 .. 255

LEMMA Facts ==
  /\ Offsets = {0, 21845} /\ Places = {0, 21845, 512, 65536, 87381}
  /\ Places \subseteq Nat
  /\ \A o \in Offsets : o \in Nat /\ Sector(o) \in {0, 5}
  /\ \A g \in Games : Cells(g) \subseteq Places
  /\ Values \subseteq 0 .. 255
  /\ Kind \in [Games -> Kinds] /\ NoGame \notin Games
<1>1. Offsets = {0, 21845} /\ Places = {0, 21845, 512, 65536, 87381}
  BY DEF Offsets, Places, Unlock1, BankSize
<1>2. \A o \in Offsets : o \in Nat /\ Sector(o) \in {0, 5}
  BY <1>1 DEF Sector
<1>3. \A g \in Games : Cells(g) \subseteq Places
  BY <1>1 DEF Cells
<1> QED
  BY <1>1, <1>2, <1>3, SaveAssumption

LEMMA AfterForm ==
  ASSUME NEW x \in Items, NEW s \in Lists
  PROVE  /\ After(x, s) \in Lists /\ After(x, s) # <<>>
         /\ Head(After(x, s)) = x /\ Tail(After(x, s)) = s
<1>1. <<x>> \in Lists /\ Len(<<x>>) = 1 /\ <<x>>[1] = x
  BY DEF Lists
<1>2. /\ After(x, s) \in Lists /\ Len(After(x, s)) = 1 + Len(s) /\ Len(s) \in Nat
      /\ \A i \in 1 .. 1 + Len(s) : After(x, s)[i] = IF i <= 1 THEN x ELSE s[i - 1]
  BY <1>1, ConcatProperties, LenProperties DEF After, Lists
<1>3. After(x, s) # <<>>
  BY <1>2, EmptySeq DEF Lists
<1>4. Head(After(x, s)) = x
  BY <1>2, <1>3 DEF Lists
<1>5. Tail(After(x, s)) = s
  <2>1. /\ Tail(After(x, s)) \in Lists /\ Len(Tail(After(x, s))) = Len(s)
        /\ \A i \in 1 .. Len(s) : Tail(After(x, s))[i] = After(x, s)[i + 1]
    BY <1>2, <1>3, HeadTailProperties DEF Lists
  <2>2. \A i \in 1 .. Len(s) : Tail(After(x, s))[i] = s[i]
    BY <1>2, <2>1
  <2> QED
    BY <2>1, <2>2, SeqEqual DEF Lists
<1> QED
  BY <1>2, <1>3, <1>4, <1>5

LEMMA SingleForm ==
  ASSUME NEW x \in Items
  PROVE  <<x>> = After(x, <<>>) /\ <<x>> \in Lists /\ <<x>> # <<>>
         /\ Head(<<x>>) = x /\ Tail(<<x>>) = <<>>
<1>1. <<x>> \in Lists
  BY DEF Lists
<1>2. <<x>> = After(x, <<>>)
  BY <1>1, ConcatEmptySeq DEF After, Lists
<1>3. <<>> \in Lists
  BY DEF Lists
<1> QED
  BY <1>1, <1>2, <1>3, AfterForm

LEMMA PairForm ==
  ASSUME NEW x \in Items, NEW y \in Items
  PROVE  <<x, y>> = After(x, <<y>>)
<1>1. <<x, y>> \in Lists /\ Len(<<x, y>>) = 2 /\ <<x, y>>[1] = x /\ <<x, y>>[2] = y
  BY DEF Lists
<1>2. <<x>> \in Lists /\ Len(<<x>>) = 1 /\ <<x>>[1] = x /\ <<y>> \in Lists /\ Len(<<y>>) = 1 /\ <<y>>[1] = y
  BY DEF Lists
<1>3. /\ After(x, <<y>>) \in Lists /\ Len(After(x, <<y>>)) = 2
      /\ After(x, <<y>>)[1] = x /\ After(x, <<y>>)[2] = y
  BY <1>2, ConcatProperties DEF After, Lists
<1>4. \A i \in 1 .. 2 : <<x, y>>[i] = After(x, <<y>>)[i]
  BY <1>1, <1>3
<1> QED
  BY <1>1, <1>3, <1>4, SeqEqual DEF Lists

LEMMA Codes ==
  /\ CmdIdentify \in 0 .. 255 /\ CmdLeave \in 0 .. 255 /\ CmdProgram \in 0 .. 255
  /\ CmdBank \in 0 .. 255 /\ CmdErase \in 0 .. 255 /\ CmdChip \in 0 .. 255
  /\ 48 \in 0 .. 255 /\ 85 \in 0 .. 255 /\ 170 \in 0 .. 255
BY DEF CmdIdentify, CmdLeave, CmdProgram, CmdBank, CmdErase, CmdChip

LEMMA ByteItem ==
  ASSUME NEW a \in Nat, NEW v \in 0 .. 255
  PROVE  Byte(a, v) \in Items
BY DEF Byte, Items

LEMMA Bytes ==
  /\ \A v \in 0 .. 255 : Byte(Unlock1, v) \in Items
  /\ Byte(Unlock2, 85) \in Items
  /\ \A o \in Offsets : SectorByte(o) \in Items /\ \A v \in Values : Byte(o, v) \in Items
  /\ \A b \in {0, 1} : Byte(0, b) \in Items
<1>1. \A o \in Offsets : Sector(o) * 4096 \in Nat
  BY Facts
<1> QED
  BY <1>1, ByteItem, Facts DEF Unlock1, Unlock2, SectorByte

LEMMA UnlockedForm ==
  ASSUME NEW s \in Lists
  PROVE  /\ Unlocked(s) \in Lists /\ Unlocked(s) # <<>>
         /\ Head(Unlocked(s)) = Byte(Unlock1, 170)
         /\ Tail(Unlocked(s)) = After(Byte(Unlock2, 85), s)
         /\ After(Byte(Unlock2, 85), s) \in Lists /\ After(Byte(Unlock2, 85), s) # <<>>
         /\ Head(After(Byte(Unlock2, 85), s)) = Byte(Unlock2, 85)
         /\ Tail(After(Byte(Unlock2, 85), s)) = s
<1> DEFINE y == Byte(Unlock2, 85)
<1>1. Byte(Unlock1, 170) \in Items /\ y \in Items
  BY Bytes
<1>2. After(y, s) \in Lists /\ After(y, s) # <<>> /\ Head(After(y, s)) = y /\ Tail(After(y, s)) = s
  BY <1>1, AfterForm
<1> DEFINE t == After(y, s)
<1>3. t \in Lists
  BY <1>2
<1> HIDE DEF t
<1>4. /\ After(Byte(Unlock1, 170), t) \in Lists /\ After(Byte(Unlock1, 170), t) # <<>>
      /\ Head(After(Byte(Unlock1, 170), t)) = Byte(Unlock1, 170)
      /\ Tail(After(Byte(Unlock1, 170), t)) = t
  BY <1>1, <1>3, AfterForm
<1>5. Unlocked(s) = After(Byte(Unlock1, 170), t)
  BY DEF Unlocked, t
<1> QED
  BY <1>2, <1>4, <1>5 DEF t

LEMMA OrderForm ==
  ASSUME NEW s \in Lists, NEW v \in 0 .. 255
  PROVE  /\ Order(v, s) \in Lists /\ Order(v, s) # <<>>
         /\ Head(Order(v, s)) = Byte(Unlock1, v) /\ Tail(Order(v, s)) = s
<1>1. Byte(Unlock1, v) \in Items
  BY Bytes
<1> QED
  BY <1>1, AfterForm DEF Order

Join(r, s) == r \o s

LEMMA JoinForm ==
  /\ \A r, s \in Lists : Join(r, s) \in Lists
  /\ \A r, s, t \in Lists : Join(Join(r, s), t) = Join(r, Join(s, t))
  /\ \A r \in Lists : Join(r, <<>>) = r /\ Join(<<>>, r) = r
  /\ \A x \in Items, s \in Lists : After(x, s) = Join(<<x>>, s)
  /\ <<>> \in Lists
BY ConcatProperties, ConcatAssociative, ConcatEmptySeq DEF Join, After, Lists

LEMMA UnlockForm ==
  /\ Unlock \in Lists
  /\ \A s \in Lists : Join(Unlock, s) = Unlocked(s)
<1> DEFINE x == Byte(Unlock1, 170)
           y == Byte(Unlock2, 85)
<1>1. x \in Items /\ y \in Items
  BY Codes, Bytes, Zenon
<1> HIDE DEF x, y
<1>2. <<x>> \in Lists /\ <<y>> \in Lists /\ <<x, y>> = Join(<<x>>, <<y>>)
  BY <1>1, PairForm, SingleForm DEF Join, After
<1>3. Unlock = Join(<<x>>, <<y>>)
  BY <1>2 DEF Unlock, x, y
<1>4. \A s \in Lists : Unlocked(s) = After(x, After(y, s)) /\ After(y, s) \in Lists
  BY <1>1, AfterForm DEF Unlocked, x, y
<1>5. Unlock \in Lists
  BY <1>2, <1>3, JoinForm
<1>6. ASSUME NEW s \in Lists PROVE Join(Unlock, s) = Unlocked(s)
  <2>1. Join(Unlock, s) = Join(<<x>>, Join(<<y>>, s))
    BY <1>2, <1>3, JoinForm
  <2>2. After(y, s) = Join(<<y>>, s) /\ After(x, After(y, s)) = Join(<<x>>, After(y, s))
    BY <1>1, <1>4, JoinForm
  <2> QED
    BY <1>4, <2>1, <2>2
<1> QED
  BY <1>5, <1>6

LEMMA CommandForm ==
  \A v \in 0 .. 255 :
    /\ Command(v) \in Lists
    /\ \A s \in Lists : Join(Command(v), s) = Unlocked(Order(v, s))
<1> SUFFICES ASSUME NEW v \in 0 .. 255
             PROVE  /\ Command(v) \in Lists
                    /\ \A s \in Lists : Join(Command(v), s) = Unlocked(Order(v, s))
  OBVIOUS
<1> DEFINE z == Byte(Unlock1, v)
<1>1. z \in Items
  BY Bytes
<1>2. <<z>> \in Lists /\ Command(v) = Join(Unlock, <<z>>)
  BY <1>1, SingleForm DEF Command, Join
<1>3. \A s \in Lists : Order(v, s) = Join(<<z>>, s)
  BY <1>1, JoinForm DEF Order
<1> HIDE DEF z
<1>4. Command(v) \in Lists
  BY <1>2, JoinForm, UnlockForm
<1>5. ASSUME NEW s \in Lists PROVE Join(Command(v), s) = Unlocked(Order(v, s))
  <2>1. Join(<<z>>, s) \in Lists
    BY <1>2, JoinForm
  <2>2. Join(Command(v), s) = Join(Unlock, Join(<<z>>, s))
    BY <1>2, JoinForm, UnlockForm
  <2> QED
    BY <1>3, <2>1, <2>2, UnlockForm
<1> QED
  BY <1>4, <1>5

(* Every operation is a sequence of items, in the form FlashWaits knows. *)

LEMMA GoalForms ==
  ASSUME NEW todo \in Lists
  PROVE  /\ \A b \in {0, 1}, o \in Offsets : IsScript(Operation(todo, Wipe(b, o)))
         /\ \A b \in {0, 1}, o \in Offsets, v \in Values : IsScript(Operation(todo, Holding(Cell(b, o), v)))
         /\ \A g \in Games : IsScript(Operation(todo, Erased(Cells(g))))
         /\ IsScript(Operation(todo, Nothing))
BY Facts DEF IsScript, Operation, Wipe, Holding, Erased, Nothing, Blank

LEMMA InBankForms ==
  ASSUME NEW b \in {0, 1}, NEW op \in InBankOps(b)
  PROVE  IsScript(op) /\ op.todo # <<>>
<1>1. CASE \E o \in Offsets, v \in Values : op = Operation(Order(CmdProgram, <<Byte(o, v)>>), Holding(Cell(b, o), v))
  <2>1. PICK o \in Offsets, v \in Values : op = Operation(Order(CmdProgram, <<Byte(o, v)>>), Holding(Cell(b, o), v))
    BY <1>1
  <2>2. <<Byte(o, v)>> \in Lists
    BY Bytes, SingleForm
  <2>3. Order(CmdProgram, <<Byte(o, v)>>) \in Lists /\ Order(CmdProgram, <<Byte(o, v)>>) # <<>>
    BY <2>2, OrderForm, Codes, Zenon
  <2> QED
    BY <2>1, <2>3, GoalForms DEF Operation
<1>2. CASE \E o \in Offsets : op = Operation(Order(CmdErase, Unlocked(<<SectorByte(o)>>)), Wipe(b, o))
  <2>1. PICK o \in Offsets : op = Operation(Order(CmdErase, Unlocked(<<SectorByte(o)>>)), Wipe(b, o))
    BY <1>2
  <2>2. Unlocked(<<SectorByte(o)>>) \in Lists
    BY Bytes, SingleForm, UnlockedForm
  <2>3. /\ Order(CmdErase, Unlocked(<<SectorByte(o)>>)) \in Lists
        /\ Order(CmdErase, Unlocked(<<SectorByte(o)>>)) # <<>>
    BY <2>2, OrderForm, Codes, Zenon
  <2> QED
    BY <2>1, <2>3, GoalForms DEF Operation
<1> QED
  BY <1>1, <1>2 DEF InBankOps

LEMMA SelectForms ==
  ASSUME NEW op \in SelectOps
  PROVE  IsScript(op) /\ op.todo # <<>>
<1>0. PICK c \in {0, 1} : \E t \in InBankOps(c) :
        op = Operation(Order(CmdBank, After(Byte(0, c), Unlocked(t.todo))), t.goal)
  BY DEF SelectOps
<1>1. PICK t \in InBankOps(c) :
        op = Operation(Order(CmdBank, After(Byte(0, c), Unlocked(t.todo))), t.goal)
  BY <1>0
<1>2. IsScript(t)
  BY InBankForms
<1>3. After(Byte(0, c), Unlocked(t.todo)) \in Lists
  <2>1. Unlocked(t.todo) \in Lists
    BY <1>2, UnlockedForm DEF IsScript
  <2> QED
    BY <2>1, Bytes, AfterForm
<1>4. /\ Order(CmdBank, After(Byte(0, c), Unlocked(t.todo))) \in Lists
      /\ Order(CmdBank, After(Byte(0, c), Unlocked(t.todo))) # <<>>
  BY <1>3, OrderForm, Codes, Zenon
<1> QED
  BY <1>1, <1>2, <1>4 DEF IsScript, Operation

LEMMA OrdersForms ==
  ASSUME NEW g \in Games, NEW m, NEW b \in {0, 1}, NEW op \in Orders(g, m, b)
  PROVE  IsScript(op) /\ op.todo # <<>>
<1>0. <<>> \in Lists
  BY JoinForm
<1>1. CASE m = "base"
  <2>1. ASSUME op = Operation(Order(CmdErase, Unlocked(Order(CmdChip, <<>>))), Erased(Cells(g)))
        PROVE  IsScript(op) /\ op.todo # <<>>
    <3>1. Unlocked(Order(CmdChip, <<>>)) \in Lists
      BY <1>0, OrderForm, UnlockedForm, Codes, Zenon
    <3>2. /\ Order(CmdErase, Unlocked(Order(CmdChip, <<>>))) \in Lists
          /\ Order(CmdErase, Unlocked(Order(CmdChip, <<>>))) # <<>>
      BY <3>1, OrderForm, Codes, Zenon
    <3> QED
      BY <2>1, <3>2, GoalForms DEF Operation
  <2>2. ASSUME op = Operation(Order(CmdIdentify, Unlocked(Order(CmdLeave, <<>>))), Nothing)
        PROVE  IsScript(op) /\ op.todo # <<>>
    <3>1. Unlocked(Order(CmdLeave, <<>>)) \in Lists
      BY <1>0, OrderForm, UnlockedForm, Codes, Zenon
    <3>2. /\ Order(CmdIdentify, Unlocked(Order(CmdLeave, <<>>))) \in Lists
          /\ Order(CmdIdentify, Unlocked(Order(CmdLeave, <<>>))) # <<>>
      BY <3>1, Codes, OrderForm, Zenon
    <3> QED
      BY <2>2, <3>2, GoalForms DEF Operation
  <2>3. op \in BaseOps(g, b)
    BY <1>1 DEF Orders
  <2> QED
    BY <2>1, <2>2, <2>3, InBankForms, SelectForms DEF BaseOps
<1>2. CASE m = "erase"
  <2>1. op \in EraseOps(g, b)
    BY <1>2 DEF Orders
  <2>2. ASSUME NEW o \in Offsets, op = Operation(<<SectorByte(o)>>, Wipe(b, o))
        PROVE  IsScript(op) /\ op.todo # <<>>
    <3>1. <<SectorByte(o)>> \in Lists /\ <<SectorByte(o)>> # <<>>
      BY Bytes, SingleForm
    <3> QED
      BY <2>2, <3>1, GoalForms DEF Operation
  <2>3. ASSUME op = Operation(Order(CmdChip, <<>>), Erased(Cells(g)))
        PROVE  IsScript(op) /\ op.todo # <<>>
    <3>1. Order(CmdChip, <<>>) \in Lists /\ Order(CmdChip, <<>>) # <<>>
      BY <1>0, OrderForm, Codes, Zenon
    <3> QED
      BY <2>3, <3>1, GoalForms DEF Operation
  <2> QED
    BY <2>1, <2>2, <2>3 DEF EraseOps
<1>3. CASE m = "id"
  <2>1. op = Operation(Order(CmdLeave, <<>>), Nothing)
    BY <1>3 DEF Orders
  <2>2. Order(CmdLeave, <<>>) \in Lists /\ Order(CmdLeave, <<>>) # <<>>
    BY <1>0, OrderForm, Codes, Zenon
  <2> QED
    BY <2>1, <2>2, GoalForms DEF Operation
<1> QED
  BY <1>1, <1>2, <1>3 DEF Orders

LEMMA SelectForm ==
  ASSUME NEW b \in {0, 1}
  PROVE  /\ Select(b) \in Lists
         /\ game \in Large => Select(b) = Join(Command(CmdBank), <<Byte(0, b)>>)
         /\ game \notin Large => Select(b) = <<>>
<1>1. <<Byte(0, b)>> \in Lists
  BY Bytes, SingleForm
<1>2. Command(CmdBank) \in Lists
  BY Codes, CommandForm
<1>3. Join(Command(CmdBank), <<Byte(0, b)>>) \in Lists /\ <<>> \in Lists
  BY <1>1, <1>2, JoinForm
<1> QED
  BY <1>3 DEF Select, Join

(* A bank is selected, if there are two, and a command is sent to it.        *)
LEMMA BankForm ==
  ASSUME NEW v \in 0 .. 255, NEW b \in {0, 1}, NEW s \in Lists
  PROVE  /\ Join(Select(b), Command(v)) \in Lists
         /\ game \in Large =>
              Join(Join(Select(b), Command(v)), s)
              = Unlocked(Order(CmdBank, After(Byte(0, b), Unlocked(Order(v, s)))))
         /\ game \notin Large => Join(Join(Select(b), Command(v)), s) = Unlocked(Order(v, s))
<1> DEFINE z == <<Byte(0, b)>>
           x == Command(CmdBank)
           y == Command(v)
           t == Unlocked(Order(v, s))
<1>1. z \in Lists
  BY Bytes, SingleForm
<1>2. x \in Lists /\ y \in Lists
  BY Codes, CommandForm
<1>3. Join(y, s) = t /\ t \in Lists
  <2>1. Order(v, s) \in Lists
    BY OrderForm
  <2> QED
    BY <2>1, UnlockedForm, CommandForm
<1>4. \A u \in Lists : Join(x, u) = Unlocked(Order(CmdBank, u))
  BY Codes, CommandForm
<1>5. After(Byte(0, b), t) = Join(z, t)
  BY <1>3, Bytes, JoinForm
<1>6. /\ Select(b) \in Lists
      /\ game \in Large => Select(b) = Join(x, z)
      /\ game \notin Large => Select(b) = <<>>
  BY SelectForm
<1> HIDE DEF x, y, z, t
<1>7. Join(Select(b), y) \in Lists
  BY <1>2, <1>6, JoinForm
<1>8. ASSUME game \in Large
      PROVE  Join(Join(Select(b), y), s) = Unlocked(Order(CmdBank, Join(z, t)))
  <2>1. Join(Join(Select(b), y), s) = Join(Select(b), Join(y, s))
    BY <1>2, <1>6, JoinForm
  <2>2. Join(Join(x, z), t) = Join(x, Join(z, t)) /\ Join(z, t) \in Lists
    BY <1>1, <1>2, <1>3, JoinForm
  <2> QED
    BY <1>3, <1>4, <1>6, <1>8, <2>1, <2>2
<1>9. ASSUME game \notin Large
      PROVE  Join(Join(Select(b), y), s) = t
  BY <1>2, <1>3, <1>6, <1>9, JoinForm
<1> QED
  BY <1>5, <1>7, <1>8, <1>9 DEF y, t

LEMMA InSelect ==
  ASSUME NEW b \in {0, 1}, NEW todo, NEW goal, Operation(todo, goal) \in InBankOps(b)
  PROVE  Operation(Order(CmdBank, After(Byte(0, b), Unlocked(todo))), goal) \in SelectOps
<1> DEFINE t == Operation(todo, goal)
<1>1. t.todo = todo /\ t.goal = goal
  BY DEF Operation
<1> QED
  BY <1>1 DEF SelectOps

(* What a flash game may begin is what FlashWaits expects of it.            *)
LEMMA FlashForms ==
  ASSUME game \in Games, Kind[game] = "flash",
         NEW b \in {0, 1}, game \notin Large => b = 0, NEW sc \in Operations
  PROVE  \E op \in BaseOps(game, b) : Locked(op, sc)
<1>1. ASSUME NEW c \in Banks, NEW v \in {CmdErase, CmdProgram}, NEW s \in Lists, NEW goal,
             Operation(Order(v, s), goal) \in InBankOps(c),
             sc = Operation(Join(Join(Select(c), Command(v)), s), goal)
      PROVE  \E op \in BaseOps(game, b) : Locked(op, sc)
  <2>1. c \in {0, 1} /\ (game \notin Large => c = 0) /\ v \in 0 .. 255
    BY Codes DEF Banks
  <2>2. CASE game \in Large
    <3> DEFINE op == Operation(Order(CmdBank, After(Byte(0, c), Unlocked(Order(v, s)))), goal)
    <3>0. Join(Join(Select(c), Command(v)), s) = Unlocked(Order(CmdBank, After(Byte(0, c), Unlocked(Order(v, s)))))
      BY <2>1, <2>2, BankForm
    <3>1. sc = Operation(Unlocked(op.todo), op.goal)
      BY <1>1, <3>0 DEF Operation
    <3>2. op \in BaseOps(game, b)
      BY <1>1, <2>1, <2>2, InSelect DEF BaseOps
    <3> QED
      BY <3>1, <3>2 DEF Locked
  <2>3. CASE game \notin Large
    <3> DEFINE op == Operation(Order(v, s), goal)
    <3>0. Join(Join(Select(c), Command(v)), s) = Unlocked(Order(v, s))
      BY <2>1, <2>3, BankForm
    <3>1. sc = Operation(Unlocked(op.todo), op.goal)
      BY <1>1, <3>0 DEF Operation
    <3>2. op \in BaseOps(game, b)
      BY <1>1, <2>1, <2>3 DEF BaseOps
    <3> QED
      BY <3>1, <3>2 DEF Locked
  <2> QED
    BY <2>2, <2>3
<1>2. ASSUME NEW c \in Banks, NEW o \in Offsets, NEW v \in Values, sc = Program(c, o, v)
      PROVE  \E op \in BaseOps(game, b) : Locked(op, sc)
  <2>1. <<Byte(o, v)>> \in Lists
    BY Bytes, SingleForm
  <2>2. sc = Operation(Join(Join(Select(c), Command(CmdProgram)), <<Byte(o, v)>>), Holding(Cell(c, o), v))
    BY <1>2 DEF Join, Program
  <2>3. Operation(Order(CmdProgram, <<Byte(o, v)>>), Holding(Cell(c, o), v)) \in InBankOps(c)
    BY DEF InBankOps
  <2> QED
    BY <1>1, <2>1, <2>2, <2>3
<1>3. ASSUME NEW c \in Banks, NEW o \in Offsets, sc = SectorErase(c, o)
      PROVE  \E op \in BaseOps(game, b) : Locked(op, sc)
  <2> DEFINE u == <<SectorByte(o)>>
             s == Unlocked(u)
             lead == Join(Select(c), Command(CmdErase))
  <2>1. u \in Lists
    BY Bytes, SingleForm
  <2>2. s \in Lists /\ Join(Unlock, u) = s
    BY <2>1, UnlockedForm, UnlockForm
  <2>3. lead \in Lists
    <3>1. c \in {0, 1}
      BY DEF Banks
    <3> QED
      BY <3>1, <2>1, Codes, BankForm
  <2>4. sc = Operation(Join(Join(lead, Unlock), u), Wipe(c, o))
    BY <1>3 DEF Join, Wipe, SectorErase, SectorByte
  <2>5. Operation(Order(CmdErase, s), Wipe(c, o)) \in InBankOps(c)
    BY DEF InBankOps
  <2> HIDE DEF u, s, lead
  <2>6. Join(Join(lead, Unlock), u) = Join(lead, s)
    BY <2>1, <2>2, <2>3, UnlockForm, JoinForm
  <2> QED
    BY <1>1, <2>2, <2>4, <2>5, <2>6 DEF lead
<1>4. ASSUME NEW v \in 0 .. 255
      PROVE  Command(v) = Unlocked(Order(v, <<>>)) /\ Command(v) \in Lists
  <2>1. Command(v) \in Lists /\ Join(Command(v), <<>>) = Unlocked(Order(v, <<>>))
    BY CommandForm, JoinForm
  <2> QED
    BY <2>1, JoinForm
<1>5. ASSUME sc = ChipErase
      PROVE  \E op \in BaseOps(game, b) : Locked(op, sc)
  <2> DEFINE op == Operation(Order(CmdErase, Unlocked(Order(CmdChip, <<>>))), Erased(Cells(game)))
  <2>a. Command(CmdChip) = Unlocked(Order(CmdChip, <<>>)) /\ Command(CmdChip) \in Lists
    BY <1>4, Codes
  <2>b. Join(Command(CmdErase), Command(CmdChip)) = Unlocked(Order(CmdErase, Command(CmdChip)))
    BY <2>a, Codes, CommandForm
  <2>1. Join(Command(CmdErase), Command(CmdChip)) = Unlocked(Order(CmdErase, Unlocked(Order(CmdChip, <<>>))))
    BY <2>a, <2>b
  <2>2. sc = Operation(Unlocked(op.todo), op.goal)
    BY <1>5, <2>1 DEF ChipErase, Operation, Join
  <2>3. op \in BaseOps(game, b)
    BY DEF BaseOps
  <2> QED
    BY <2>2, <2>3 DEF Locked
<1>6. ASSUME sc = Identify
      PROVE  \E op \in BaseOps(game, b) : Locked(op, sc)
  <2> DEFINE op == Operation(Order(CmdIdentify, Unlocked(Order(CmdLeave, <<>>))), Nothing)
  <2>a. Command(CmdLeave) = Unlocked(Order(CmdLeave, <<>>)) /\ Command(CmdLeave) \in Lists
    BY <1>4, Codes
  <2>b. Join(Command(CmdIdentify), Command(CmdLeave)) = Unlocked(Order(CmdIdentify, Command(CmdLeave)))
    BY <2>a, Codes, CommandForm
  <2>1. Join(Command(CmdIdentify), Command(CmdLeave)) = Unlocked(Order(CmdIdentify, Unlocked(Order(CmdLeave, <<>>))))
    BY <2>a, <2>b
  <2>2. sc = Operation(Unlocked(op.todo), op.goal)
    BY <1>6, <2>1 DEF Identify, Operation, Join
  <2>3. op \in BaseOps(game, b)
    BY DEF BaseOps
  <2> QED
    BY <2>2, <2>3 DEF Locked
<1>7. Operations = Programs \cup SectorErases \cup {ChipErase, Identify}
  BY DEF Operations
<1>8. CASE sc \in Programs
  BY <1>2, <1>8 DEF Programs
<1>9. CASE sc \in SectorErases
  BY <1>3, <1>9 DEF SectorErases
<1> QED
  BY <1>5, <1>6, <1>7, <1>8, <1>9

LEMMA BaseForms ==
  ASSUME NEW g \in Games, NEW b \in {0, 1}, NEW op \in BaseOps(g, b)
  PROVE  IsScript(op) /\ op.todo # <<>>
<1>1. op \in Orders(g, "base", b)
  BY DEF Orders
<1> QED
  BY <1>1, OrdersForms

LEMMA SramForms ==
  ASSUME NEW sc \in SramOperations
  PROVE  /\ \E o \in Offsets, v \in Values :
              (o # Unlock1 \/ v # 170) /\ sc = Operation(<<Byte(o, v)>>, Holding(o, v))
         /\ IsScript(sc) /\ sc.todo # <<>>
<1>1. PICK w \in (Offsets \X Values) \ {<<Unlock1, 170>>} :
        sc = Operation(<<Byte(w[1], w[2])>>, Holding(w[1], w[2]))
  BY DEF SramOperations
<1>2. w[1] \in Offsets /\ w[2] \in Values /\ (w[1] # Unlock1 \/ w[2] # 170)
  OBVIOUS
<1>3. <<Byte(w[1], w[2])>> \in Lists /\ <<Byte(w[1], w[2])>> # <<>>
  BY <1>2, Bytes, SingleForm
<1>4. IsScript(sc) /\ sc.todo # <<>>
  <2>1. sc.todo = <<Byte(w[1], w[2])>> /\ sc.goal = Holding(w[1], w[2])
    BY <1>1, Zenon DEF Operation
  <2>2. w[2] \in 0 .. 255 /\ sc.goal = [q \in {w[1]} |-> w[2]]
    BY <1>2, <2>1, SaveAssumption DEF Holding
  <2> QED
    BY <1>1, <1>3, <2>1, <2>2 DEF IsScript
<1> QED
  BY <1>1, <1>2, <1>4

LEMMA BlockForms ==
  ASSUME NEW g \in Games, NEW a \in Cells(g)
  PROVE  /\ \A v \in Values : Block("write", a, v) \in Items
         /\ Block("request", a, 0) \in Items /\ Block("read", a, 0) \in Items
BY Facts DEF Block, Items

LEMMA RequestForm ==
  ASSUME NEW g \in Games, NEW a \in Cells(g)
  PROVE  LET r == Block("request", a, 0)
             s == <<Block("read", a, 0)>>
         IN  /\ s \in Lists /\ s # <<>> /\ Head(s) = Block("read", a, 0) /\ Tail(s) = <<>>
             /\ <<r, Block("read", a, 0)>> \in Lists /\ <<r, Block("read", a, 0)>> # <<>>
             /\ Head(<<r, Block("read", a, 0)>>) = r /\ Tail(<<r, Block("read", a, 0)>>) = s
<1> DEFINE r == Block("request", a, 0)
           x == Block("read", a, 0)
<1>1. r \in Items /\ x \in Items
  BY BlockForms
<1> HIDE DEF r, x
<1>2. <<x>> \in Lists /\ <<x>> # <<>> /\ Head(<<x>>) = x /\ Tail(<<x>>) = <<>>
  BY <1>1, SingleForm
<1>3. <<r, x>> = After(r, <<x>>)
  BY <1>1, PairForm
<1>4. /\ After(r, <<x>>) \in Lists /\ After(r, <<x>>) # <<>>
      /\ Head(After(r, <<x>>)) = r /\ Tail(After(r, <<x>>)) = <<x>>
  BY <1>1, <1>2, AfterForm
<1>5. <<r, x>> \in Lists /\ <<r, x>> # <<>> /\ Head(<<r, x>>) = r /\ Tail(<<r, x>>) = <<x>>
  BY <1>3, <1>4, Zenon
<1> QED
  BY <1>2, <1>5, Zenon DEF r, x

LEMMA WaitsForms ==
  ASSUME NEW g \in Games, NEW t, NEW f, f.bank \in {0, 1}, NEW e, NEW sc, Waits(g, t, f, e, sc)
  PROVE  IsScript(sc)
<1>0. IsScript(Idle)
  BY JoinForm DEF IsScript, Idle, Operation, Nothing
<1>1. CASE Kind[g] = "sram"
  BY <1>0, <1>1, SramForms DEF Waits, SramWaits
<1>2. CASE Kind[g] = "flash"
  <2>1. FlashWaits(g, t, f, sc)
    BY <1>2 DEF Waits
  <2>2. ASSUME NEW op \in Orders(g, f.mode, f.bank), Locked(op, sc) \/ HalfLocked(op, sc) \/ sc = op
        PROVE  IsScript(sc)
    <3>1. IsScript(op)
      BY OrdersForms
    <3>2. Unlocked(op.todo) \in Lists /\ After(Byte(Unlock2, 85), op.todo) \in Lists
      BY <3>1, UnlockedForm DEF IsScript
    <3>3. \A s \in Lists : IsScript(Operation(s, op.goal))
      BY <3>1 DEF IsScript, Operation
    <3> QED
      BY <2>2, <3>1, <3>2, <3>3 DEF Locked, HalfLocked
  <2>3. ASSUME NEW o \in Offsets, NEW v \in Values, sc = Operation(<<Byte(o, v)>>, Holding(Cell(f.bank, o), v))
        PROVE  IsScript(sc)
    <3>1. <<Byte(o, v)>> \in Lists
      BY Bytes, SingleForm
    <3>2. IsScript(Operation(<<Byte(o, v)>>, Holding(Cell(f.bank, o), v)))
      BY <3>1, GoalForms
    <3> QED
      BY <2>3, <3>2
  <2>4. ASSUME NEW b \in {0, 1}, NEW op \in InBankOps(b),
               sc = Operation(After(Byte(0, b), Unlocked(op.todo)), op.goal)
        PROVE  IsScript(sc)
    <3>1. IsScript(op)
      BY InBankForms
    <3>2. Unlocked(op.todo) \in Lists
      BY <3>1, UnlockedForm DEF IsScript
    <3>3. After(Byte(0, b), Unlocked(op.todo)) \in Lists
      BY <3>2, Bytes, AfterForm
    <3> QED
      BY <2>4, <3>1, <3>3 DEF IsScript, Operation
  <2>5. \/ sc = Idle
        \/ \E op \in Orders(g, f.mode, f.bank) : Locked(op, sc) \/ HalfLocked(op, sc) \/ sc = op
        \/ \E o \in Offsets, v \in Values : sc = Operation(<<Byte(o, v)>>, Holding(Cell(f.bank, o), v))
        \/ \E b \in {0, 1} : \E op \in InBankOps(b) :
              sc = Operation(After(Byte(0, b), Unlocked(op.todo)), op.goal)
    BY <2>1, Zenon DEF FlashWaits
  <2> QED
    BY <1>0, <2>2, <2>3, <2>4, <2>5, Zenon
<1>3. CASE Kind[g] \notin {"sram", "flash"}
  <2>1. EepromWaits(g, t, e, sc)
    BY <1>3 DEF Waits
  <2>2. ASSUME NEW a \in Cells(g), NEW v \in Values,
               sc = Operation(<<Block("write", a, v)>>, Holding(a, v))
        PROVE  IsScript(sc)
    <3>1. <<Block("write", a, v)>> \in Lists
      BY BlockForms, SingleForm
    <3> QED
      BY <2>2, <3>1, Facts DEF IsScript, Operation, Holding
  <2>3. ASSUME NEW a \in Cells(g),
               \/ sc = Operation(<<Block("request", a, 0), Block("read", a, 0)>>, Nothing)
               \/ sc = Operation(<<Block("read", a, 0)>>, Nothing)
        PROVE  IsScript(sc)
    <3>1. /\ <<Block("read", a, 0)>> \in Lists
          /\ <<Block("request", a, 0), Block("read", a, 0)>> \in Lists
      BY BlockForms, RequestForm
    <3> QED
      BY <2>3, <3>1, GoalForms
  <2> QED
    BY <1>0, <2>1, <2>2, <2>3 DEF EepromWaits
<1> QED
  BY <1>1, <1>2, <1>3

(* What a game may begin.                                                   *)
LEMMA OperationForms ==
  ASSUME game \in Games, NEW sc \in Operations
  PROVE  IsScript(sc) /\ sc.todo # <<>>
<1>1. CASE Kind[game] = "sram"
  BY <1>1, SramForms DEF Operations
<1>2. CASE Kind[game] = "flash"
  <2>1. PICK op \in BaseOps(game, 0) : Locked(op, sc)
    BY <1>2, FlashForms
  <2>2. IsScript(op)
    BY BaseForms
  <2>3. Unlocked(op.todo) \in Lists /\ Unlocked(op.todo) # <<>>
    BY <2>2, UnlockedForm DEF IsScript
  <2> QED
    BY <2>1, <2>2, <2>3 DEF Locked, IsScript, Operation
<1>3. CASE Kind[game] \notin {"sram", "flash"}
  <2>1. \/ \E a \in Cells(game), v \in Values :
             sc = Operation(<<Block("write", a, v)>>, Holding(a, v))
        \/ \E a \in Cells(game) :
             sc = Operation(<<Block("request", a, 0), Block("read", a, 0)>>, Nothing)
    <3>1. Kind[game] # "sram" /\ Kind[game] # "flash"
      BY <1>3
    <3>2. sc \in EepromOperations
      BY <3>1 DEF Operations
    <3> QED
      BY <3>2 DEF EepromOperations
  <2>2. ASSUME NEW a \in Cells(game), NEW v \in Values,
               sc = Operation(<<Block("write", a, v)>>, Holding(a, v))
        PROVE  IsScript(sc) /\ sc.todo # <<>>
    <3>1. <<Block("write", a, v)>> \in Lists /\ <<Block("write", a, v)>> # <<>>
      BY BlockForms, SingleForm
    <3> QED
      BY <2>2, <3>1, Facts DEF IsScript, Operation, Holding
  <2>3. ASSUME NEW a \in Cells(game),
               sc = Operation(<<Block("request", a, 0), Block("read", a, 0)>>, Nothing)
        PROVE  IsScript(sc) /\ sc.todo # <<>>
    <3>1. /\ <<Block("request", a, 0), Block("read", a, 0)>> \in Lists
          /\ <<Block("request", a, 0), Block("read", a, 0)>> # <<>>
      BY RequestForm
    <3> QED
      BY <2>3, <3>1, GoalForms DEF Operation
  <2> QED
    BY <2>1, <2>2, <2>3
<1> QED
  BY <1>1, <1>2, <1>3

-----------------------------------------------------------------------------
(* Types *)

FlashOK(f) ==
  /\ f \in [mode : FlashModes, pos : 0 .. 2, bank : {0, 1}, cnt : {1, 2}]
  /\ f.bank = 1 => f.cnt = 2
EepromOK(e) == e \in [size : {1, 16}, mode : EepromModes, at : Places]
RegsOK(t, f, e) == t \in Kinds \cup {"unkn"} /\ FlashOK(f) /\ EepromOK(e)
Bytes8 == [Places -> 0 .. 255]
StateOK(s) == RegsOK(s.type, s.flash, s.eeprom) /\ IsScript(s.script)
StatesOK == states = [n \in Names |-> states[n]] /\ \A n \in Names : StateOK(states[n])
SaveFile == [size : {0, 512, 8192, 32768, 65536, 131072}, data : Bytes8]

TypeInv ==
  /\ game \in Games \cup {NoGame} /\ RegsOK(type, flash, eeprom)
  /\ backup \in Bytes8 /\ dirty \in BOOLEAN
  /\ file \in [Names -> SaveFile] /\ saved \in [Games -> Bytes8]
  /\ loaded \in BOOLEAN /\ count \in 0 .. MaxSaves
  /\ IsScript(script) /\ StatesOK

LEMMA ResetType == FlashOK(ResetFlash) /\ EepromOK(ResetEeprom) /\ Empty \in Bytes8 /\ IsScript(Idle)
<1>1. FlashOK(ResetFlash) /\ EepromOK(ResetEeprom)
  BY Facts DEF FlashOK, EepromOK, ResetFlash, ResetEeprom, FlashModes, EepromModes
<1>2. IsScript(Idle)
  BY JoinForm DEF IsScript, Idle, Operation, Nothing
<1> QED
  BY <1>1, <1>2 DEF Empty, Blank, Bytes8

LEMMA PutType ==
  ASSUME NEW old \in Bytes8, NEW new, \A p \in DOMAIN new : new[p] \in 0 .. 255
  PROVE  Put(old, new) \in Bytes8
BY DEF Put, Bytes8

FlashOf(m, p, b, c) == [mode |-> m, pos |-> p, bank |-> b, cnt |-> c]

PosMode(f, p, m) == [f EXCEPT !.pos = p, !.mode = m]
BankMode(f, b, m) == [f EXCEPT !.bank = b, !.mode = m]

LEMMA FlashFields ==
  ASSUME NEW f, FlashOK(f)
  PROVE  /\ f = FlashOf(f.mode, f.pos, f.bank, f.cnt)
         /\ f.mode \in FlashModes /\ f.pos \in 0 .. 2 /\ f.bank \in {0, 1} /\ f.cnt \in {1, 2}
         /\ f.bank = 1 => f.cnt = 2
         /\ \A p : [f EXCEPT !.pos = p] = FlashOf(f.mode, p, f.bank, f.cnt)
         /\ \A m : [f EXCEPT !.mode = m] = FlashOf(m, f.pos, f.bank, f.cnt)
         /\ \A c, m : [f EXCEPT !.cnt = c, !.mode = m] = FlashOf(m, f.pos, f.bank, c)
<1>1. f \in [mode : FlashModes, pos : 0 .. 2, bank : {0, 1}, cnt : {1, 2}] /\ (f.bank = 1 => f.cnt = 2)
  BY DEF FlashOK
<1>2. f = FlashOf(f.mode, f.pos, f.bank, f.cnt)
  BY <1>1 DEF FlashOf
<1>3. f.mode \in FlashModes /\ f.pos \in 0 .. 2 /\ f.bank \in {0, 1} /\ f.cnt \in {1, 2}
  BY <1>1
<1>4. \A p : [f EXCEPT !.pos = p] = FlashOf(f.mode, p, f.bank, f.cnt)
  BY <1>1 DEF FlashOf
<1>5. \A m : [f EXCEPT !.mode = m] = FlashOf(m, f.pos, f.bank, f.cnt)
  BY <1>1 DEF FlashOf
<1>6. \A c, m : [f EXCEPT !.cnt = c, !.mode = m] = FlashOf(m, f.pos, f.bank, c)
  <2> SUFFICES ASSUME NEW c, NEW m PROVE [f EXCEPT !.cnt = c, !.mode = m] = FlashOf(m, f.pos, f.bank, c)
    OBVIOUS
  <2>1. [f EXCEPT !.cnt = c, !.mode = m] = [[f EXCEPT !.cnt = c] EXCEPT !.mode = m]
    BY Zenon
  <2>2. [f EXCEPT !.cnt = c] = FlashOf(f.mode, f.pos, f.bank, c)
    BY <1>1 DEF FlashOf
  <2>3. [FlashOf(f.mode, f.pos, f.bank, c) EXCEPT !.mode = m] = FlashOf(m, f.pos, f.bank, c)
    BY DEF FlashOf
  <2> QED
    BY <2>1, <2>2, <2>3, Zenon
<1> QED
  BY <1>1, <1>2, <1>3, <1>4, <1>5, <1>6, Zenon

LEMMA FlashTwice ==
  ASSUME NEW f, FlashOK(f), NEW x, NEW m
  PROVE  /\ PosMode(f, x, m) = FlashOf(m, x, f.bank, f.cnt)
         /\ BankMode(f, x, m) = FlashOf(m, f.pos, x, f.cnt)
<1>0. f \in [mode : FlashModes, pos : 0 .. 2, bank : {0, 1}, cnt : {1, 2}]
  BY DEF FlashOK
<1>1. PosMode(f, x, m) = [[f EXCEPT !.pos = x] EXCEPT !.mode = m]
  BY Zenon DEF PosMode
<1>2. BankMode(f, x, m) = [[f EXCEPT !.bank = x] EXCEPT !.mode = m]
  BY Zenon DEF BankMode
<1>3. /\ [f EXCEPT !.pos = x] = FlashOf(f.mode, x, f.bank, f.cnt)
      /\ [f EXCEPT !.bank = x] = FlashOf(f.mode, f.pos, x, f.cnt)
  BY <1>0 DEF FlashOf
<1>4. /\ [FlashOf(f.mode, x, f.bank, f.cnt) EXCEPT !.mode = m] = FlashOf(m, x, f.bank, f.cnt)
      /\ [FlashOf(f.mode, f.pos, x, f.cnt) EXCEPT !.mode = m] = FlashOf(m, f.pos, x, f.cnt)
  BY DEF FlashOf
<1> QED
  BY <1>1, <1>2, <1>3, <1>4, Zenon

LEMMA FlashOfOK ==
  ASSUME NEW m \in FlashModes, NEW p \in 0 .. 2, NEW b \in {0, 1}, NEW c \in {1, 2}
  PROVE  /\ (b = 1 => c = 2) => FlashOK(FlashOf(m, p, b, c))
         /\ FlashOf(m, p, b, c).mode = m /\ FlashOf(m, p, b, c).pos = p
         /\ FlashOf(m, p, b, c).bank = b /\ FlashOf(m, p, b, c).cnt = c
BY DEF FlashOf, FlashOK

LEMMA Modes ==
  /\ "base" \in FlashModes /\ "id" \in FlashModes /\ "erase" \in FlashModes
  /\ "write" \in FlashModes /\ "bank" \in FlashModes
  /\ 0 \in 0 .. 2 /\ 1 \in 0 .. 2 /\ 2 \in 0 .. 2
  /\ 0 \in {0, 1} /\ 1 \in {0, 1} /\ 2 \in {1, 2}
BY DEF FlashModes

(* What a command does to the flash, field by field.                        *)
LEMMA CommandedForm ==
  ASSUME FlashOK(flash), NEW v \in 0 .. 255
  PROVE  /\ \/ \E m \in FlashModes : Commanded(v) = FlashOf(m, 0, flash.bank, flash.cnt)
            \/ \E m \in FlashModes : Commanded(v) = FlashOf(m, 0, flash.bank, 2)
         /\ flash.mode = "base" =>
              /\ v = CmdIdentify => Commanded(v) = FlashOf("id", 0, flash.bank, flash.cnt)
              /\ v = CmdErase => Commanded(v) = FlashOf("erase", 0, flash.bank, flash.cnt)
              /\ v = CmdProgram => Commanded(v) = FlashOf("write", 0, flash.bank, flash.cnt)
              /\ v = CmdBank => Commanded(v) = FlashOf("bank", 0, flash.bank, 2)
         /\ flash.mode = "id" /\ v = CmdLeave => Commanded(v) = FlashOf("base", 0, flash.bank, flash.cnt)
         /\ flash.mode = "erase" /\ v = CmdChip =>
              Commanded(v) = FlashOf("base", 0, flash.bank, flash.cnt)
<1> DEFINE f == [flash EXCEPT !.pos = 0]
<1>1. f = FlashOf(flash.mode, 0, flash.bank, flash.cnt)
  BY FlashFields, Zenon
<1>2. FlashOK(f) /\ f.mode = flash.mode /\ f.bank = flash.bank /\ f.cnt = flash.cnt /\ f.pos = 0
  <2>1. /\ flash.mode \in FlashModes /\ flash.bank \in {0, 1} /\ flash.cnt \in {1, 2}
        /\ flash.bank = 1 => flash.cnt = 2
    BY FlashFields, Zenon
  <2> HIDE DEF f
  <2> QED
    BY <1>1, <2>1, FlashOfOK, Modes
<1>3. /\ \A m : [f EXCEPT !.mode = m] = FlashOf(m, 0, flash.bank, flash.cnt)
      /\ \A c, m : [f EXCEPT !.cnt = c, !.mode = m] = FlashOf(m, 0, flash.bank, c)
  <2> HIDE DEF f
  <2>1. /\ \A m : [f EXCEPT !.mode = m] = FlashOf(m, f.pos, f.bank, f.cnt)
        /\ \A c, m : [f EXCEPT !.cnt = c, !.mode = m] = FlashOf(m, f.pos, f.bank, c)
    BY <1>2, FlashFields, Zenon
  <2> QED
    BY <1>2, <2>1, Zenon
<1>4. Commanded(v) =
        CASE v = CmdIdentify /\ f.mode = "base" -> [f EXCEPT !.mode = "id"]
          [] v = CmdErase /\ f.mode = "base" -> [f EXCEPT !.mode = "erase"]
          [] v = CmdLeave /\ f.mode = "id" -> [f EXCEPT !.mode = "base"]
          [] v = CmdProgram /\ f.mode = "base" -> [f EXCEPT !.mode = "write"]
          [] v = CmdBank -> [f EXCEPT !.cnt = 2, !.mode = IF @ = "base" THEN "bank" ELSE @]
          [] v = CmdChip /\ f.mode = "erase" -> [f EXCEPT !.mode = "base"]
          [] OTHER -> f
  BY DEF Commanded
<1> HIDE DEF f
<1>5. Commanded(v) =
        CASE v = CmdIdentify /\ flash.mode = "base" -> FlashOf("id", 0, flash.bank, flash.cnt)
          [] v = CmdErase /\ flash.mode = "base" -> FlashOf("erase", 0, flash.bank, flash.cnt)
          [] v = CmdLeave /\ flash.mode = "id" -> FlashOf("base", 0, flash.bank, flash.cnt)
          [] v = CmdProgram /\ flash.mode = "base" -> FlashOf("write", 0, flash.bank, flash.cnt)
          [] v = CmdBank -> FlashOf(IF flash.mode = "base" THEN "bank" ELSE flash.mode, 0, flash.bank, 2)
          [] v = CmdChip /\ flash.mode = "erase" -> FlashOf("base", 0, flash.bank, flash.cnt)
          [] OTHER -> FlashOf(flash.mode, 0, flash.bank, flash.cnt)
  BY <1>1, <1>2, <1>3, <1>4 DEF f
<1>6. flash.mode \in FlashModes
  BY FlashFields
<1>7. /\ CmdIdentify = 144 /\ CmdLeave = 240 /\ CmdProgram = 160
      /\ CmdBank = 176 /\ CmdErase = 128 /\ CmdChip = 16
  BY DEF CmdIdentify, CmdLeave, CmdProgram, CmdBank, CmdErase, CmdChip
<1> QED
  BY <1>5, <1>6, <1>7, Modes

LEMMA CommandedType ==
  ASSUME FlashOK(flash), NEW v \in 0 .. 255
  PROVE  FlashOK(Commanded(v))
<1>1. \/ \E m \in FlashModes : Commanded(v) = FlashOf(m, 0, flash.bank, flash.cnt)
      \/ \E m \in FlashModes : Commanded(v) = FlashOf(m, 0, flash.bank, 2)
  BY CommandedForm
<1>2. /\ flash.bank \in {0, 1} /\ flash.cnt \in {1, 2}
      /\ flash.bank = 1 => flash.cnt = 2
  BY FlashFields, Zenon
<1>3. \A m \in FlashModes : /\ FlashOK(FlashOf(m, 0, flash.bank, flash.cnt))
                             /\ FlashOK(FlashOf(m, 0, flash.bank, 2))
  BY <1>2, FlashOfOK, Modes
<1> QED
  BY <1>1, <1>3, Zenon

LEMMA EffectType ==
  ASSUME FlashOK(flash), NEW known \in Kinds, NEW a \in Nat, NEW v \in 0 .. 255
  PROVE  /\ Effect(known, a, v).type \in Kinds
         /\ FlashOK(Effect(known, a, v).flash)
         /\ \A p \in DOMAIN Effect(known, a, v).bytes : Effect(known, a, v).bytes[p] \in 0 .. 255
<1> DEFINE Small(b) == \A p \in DOMAIN b : b[p] \in 0 .. 255
           Fine(d) == d.type \in Kinds /\ FlashOK(d.flash) /\ Small(d.bytes)
<1>1. ASSUME NEW t \in Kinds, NEW f, FlashOK(f), NEW b, Small(b)
      PROVE  Fine(Did(t, f, b))
  BY <1>1 DEF Did
<1>2. /\ Small(Stored(known, a, v)) /\ Small(Nothing) /\ Small([p \in {InBank(a)} |-> v])
      /\ \A ps : Small(Erased(ps))
  BY DEF Erased, Nothing, Blank, Stored
<1>0. /\ flash.mode \in FlashModes /\ flash.pos \in 0 .. 2 /\ flash.bank \in {0, 1}
      /\ flash.cnt \in {1, 2} /\ (flash.bank = 1 => flash.cnt = 2)
  BY FlashFields, Zenon
<1>3. /\ FlashOK([flash EXCEPT !.pos = 1]) /\ FlashOK([flash EXCEPT !.pos = 2])
      /\ FlashOK([flash EXCEPT !.pos = 0, !.mode = "base"])
      /\ FlashOK([flash EXCEPT !.mode = "base"])
  <2>1. /\ FlashOK(FlashOf(flash.mode, 1, flash.bank, flash.cnt))
        /\ FlashOK(FlashOf(flash.mode, 2, flash.bank, flash.cnt))
        /\ FlashOK(FlashOf("base", 0, flash.bank, flash.cnt))
        /\ FlashOK(FlashOf("base", flash.pos, flash.bank, flash.cnt))
    BY <1>0, FlashOfOK, Modes
  <2>2. [flash EXCEPT !.pos = 1] = FlashOf(flash.mode, 1, flash.bank, flash.cnt)
    BY FlashFields, Zenon
  <2>3. [flash EXCEPT !.pos = 2] = FlashOf(flash.mode, 2, flash.bank, flash.cnt)
    BY FlashFields, Zenon
  <2>4. PosMode(flash, 0, "base") = FlashOf("base", 0, flash.bank, flash.cnt)
    BY FlashTwice, Zenon
  <2>5. [flash EXCEPT !.mode = "base"] = FlashOf("base", flash.pos, flash.bank, flash.cnt)
    BY FlashFields, Zenon
  <2> QED
    BY <2>1, <2>2, <2>3, <2>4, <2>5, Zenon DEF PosMode
<1>4. ASSUME flash.cnt = 2 PROVE FlashOK([flash EXCEPT !.bank = v % 2, !.mode = "base"])
  <2>1. v % 2 \in {0, 1}
    OBVIOUS
  <2>2. FlashOK(FlashOf("base", flash.pos, v % 2, flash.cnt))
    <3> DEFINE b == v % 2
    <3> HIDE DEF b
    <3>1. b \in {0, 1}
      BY <2>1 DEF b
    <3>2. FlashOK(FlashOf("base", flash.pos, b, flash.cnt))
      BY <1>0, <1>4, <3>1, FlashOfOK, Modes
    <3> QED
      BY <3>2 DEF b
  <2>3. BankMode(flash, v % 2, "base") = FlashOf("base", flash.pos, v % 2, flash.cnt)
    BY FlashTwice, Zenon
  <2>4. FlashOK(BankMode(flash, v % 2, "base"))
    BY <2>2, <2>3, Zenon
  <2> QED
    BY <2>4, Zenon DEF BankMode
<1>5. "flash" \in Kinds
  BY DEF Kinds
<1>6. FlashOK(Commanded(v))
  BY CommandedType
<1> DEFINE one == [flash EXCEPT !.pos = 1]
           two == [flash EXCEPT !.pos = 2]
           swept == [flash EXCEPT !.pos = 0, !.mode = "base"]
           done == [flash EXCEPT !.mode = "base"]
           moved == [flash EXCEPT !.bank = v % 2, !.mode = "base"]
           sector == Erased({p \in Places : Sector(p) = Sector(InBank(a))})
           cell == [p \in {InBank(a)} |-> v]
<1>a. FlashOK(one) /\ FlashOK(two) /\ FlashOK(swept) /\ FlashOK(done) /\ (flash.cnt = 2 => FlashOK(moved))
  BY <1>3, <1>4, Zenon
<1>b. Small(sector) /\ Small(cell) /\ Small(Erased(Places)) /\ Small(Stored(known, a, v)) /\ Small(Nothing)
  BY <1>2, Zenon
<1>7. Effect(known, a, v) =
        CASE AtCommand(a) /\ flash.pos = 0 /\ v = 170 -> Did("flash", one, Nothing)
          [] AtCommand(a) /\ flash.pos = 2 ->
               Did(known, Commanded(v),
                   IF v = CmdChip /\ flash.mode = "erase" THEN Erased(Places) ELSE Stored(known, a, v))
          [] AtCommand(a) /\ flash.pos # 2 /\ ~(flash.pos = 0 /\ v = 170) ->
               Did(known, flash, Stored(known, a, v))
          [] ~AtCommand(a) /\ a = Unlock2 /\ v = 85 /\ flash.pos = 1 -> Did(known, two, Nothing)
          [] ~AtCommand(a) /\ flash.pos = 2 /\ flash.mode = "erase" /\ v = 48 -> Did(known, swept, sector)
          [] ~AtCommand(a) /\ flash.pos = 0 /\ flash.mode = "bank" /\ a = 0 /\ flash.cnt = 2 ->
               Did(known, moved, Nothing)
          [] ~AtCommand(a) /\ flash.pos = 0 /\ flash.mode = "write" -> Did(known, done, cell)
          [] OTHER -> Did(known, flash, Stored(known, a, v))
  BY Zenon DEF Effect
<1> HIDE DEF Fine, Small, one, two, swept, done, moved, sector, cell
<1>8. Fine(Did("flash", one, Nothing)) /\ Fine(Did(known, two, Nothing))
  BY <1>1, <1>a, <1>b, <1>5
<1>9. Fine(Did(known, swept, sector)) /\ Fine(Did(known, done, cell))
  BY <1>1, <1>a, <1>b
<1>10. flash.cnt = 2 => Fine(Did(known, moved, Nothing))
  BY <1>1, <1>a, <1>b
<1>11. /\ Fine(Did(known, Commanded(v), Erased(Places)))
       /\ Fine(Did(known, Commanded(v), Stored(known, a, v)))
       /\ Fine(Did(known, flash, Stored(known, a, v)))
  BY <1>1, <1>b, <1>6
<1>12. Fine(Effect(known, a, v))
  BY <1>7, <1>8, <1>9, <1>10, <1>11
<1> QED
  BY <1>12 DEF Fine, Small

LEMMA WriteType ==
  ASSUME RegsOK(type, flash, eeprom), backup \in Bytes8, dirty \in BOOLEAN,
         NEW a \in Nat, NEW v \in 0 .. 255, WriteBackup(a, v)
  PROVE  RegsOK(type', flash', eeprom') /\ backup' \in Bytes8 /\ dirty' \in BOOLEAN
<1>1. CASE type = "eeprom"
  BY <1>1 DEF WriteBackup, chip
<1>2. CASE type # "eeprom"
  <2> DEFINE known == IF type = "unkn" THEN "sram" ELSE type
             did == Effect(known, a, v)
  <2>1. known \in Kinds
    BY DEF RegsOK, Kinds
  <2>2. /\ did.type \in Kinds /\ FlashOK(did.flash)
        /\ \A p \in DOMAIN did.bytes : did.bytes[p] \in 0 .. 255
    <3>1. FlashOK(flash)
      BY DEF RegsOK
    <3> HIDE DEF known
    <3> QED
      BY <2>1, <3>1, EffectType, Zenon
  <2>3. /\ type' = did.type /\ flash' = did.flash /\ backup' = Put(backup, did.bytes)
        /\ dirty' = TRUE /\ eeprom' = eeprom
    BY <1>2 DEF WriteBackup
  <2> HIDE DEF did
  <2> QED
    BY <2>2, <2>3, PutType DEF RegsOK
<1> QED
  BY <1>1, <1>2

LEMMA BlockType ==
  ASSUME RegsOK(type, flash, eeprom), backup \in Bytes8, dirty \in BOOLEAN,
         NEW a, NEW v \in 0 .. 255,
         EepromWrite(a, v) \/ (a \in Places /\ EepromRequest(a)) \/ EepromRead
  PROVE  RegsOK(type', flash', eeprom') /\ backup' \in Bytes8 /\ dirty' \in BOOLEAN
<1>1. Learned \in {1, 16} /\ 0 \in Places
  BY Facts DEF Learned, RegsOK, EepromOK
<1>2. "eeprom" \in Kinds /\ "base" \in EepromModes /\ "header" \in EepromModes
  BY DEF Kinds, EepromModes
<1>3. CASE EepromWrite(a, v)
  <2>1. EepromOK([eeprom EXCEPT !.size = Learned, !.at = 0]) /\ EepromOK([eeprom EXCEPT !.size = Learned])
    BY <1>1 DEF RegsOK, EepromOK
  <2>2. Put(backup, [p \in {a} |-> v]) \in Bytes8
    BY PutType
  <2> QED
    BY <1>2, <1>3, <2>1, <2>2 DEF EepromWrite, RegsOK
<1>4. CASE a \in Places /\ EepromRequest(a)
  <2>1. /\ EepromOK([size |-> Learned, mode |-> "header", at |-> a])
        /\ EepromOK([eeprom EXCEPT !.size = Learned])
    BY <1>1, <1>2, <1>4 DEF RegsOK, EepromOK
  <2> QED
    BY <1>2, <1>4, <2>1 DEF EepromRequest, RegsOK
<1>5. CASE EepromRead
  <2>1. EepromOK([eeprom EXCEPT !.mode = "base"])
    BY <1>2 DEF RegsOK, EepromOK
  <2> QED
    BY <1>5, <2>1 DEF EepromRead, RegsOK
<1> QED
  BY <1>3, <1>4, <1>5

LEMMA ItemForm ==
  ASSUME IsScript(script), script.todo # <<>>
  PROVE  LET item == Head(script.todo)
             rest == Tail(script.todo)
         IN  /\ rest \in Lists
             /\ item.value \in 0 .. 255
             /\ item.op \in {"byte", "write", "read", "request"}
             /\ item.op # "request" => item.at \in Nat
             /\ item.op = "request" => item.at \in Places
             /\ IsScript(IF rest = <<>> THEN Idle ELSE [script EXCEPT !.todo = rest])
             /\ rest # <<>> => [script EXCEPT !.todo = rest] = Operation(rest, script.goal)
<1> DEFINE item == Head(script.todo)
           rest == Tail(script.todo)
<1>1. item \in Items /\ rest \in Lists
  BY HeadTailProperties DEF IsScript, Lists
<1>2. IsScript(Idle)
  BY ResetType
<1> HIDE DEF item, rest
<1>3. [script EXCEPT !.todo = rest] = Operation(rest, script.goal)
  BY DEF IsScript, Operation
<1>4. IsScript(Operation(rest, script.goal))
  BY <1>1 DEF IsScript, Operation
<1>5. /\ item.value \in 0 .. 255
      /\ item.op \in {"byte", "write", "read", "request"}
      /\ item.op # "request" => item.at \in Nat
      /\ item.op = "request" => item.at \in Places
  BY <1>1 DEF Items
<1> QED
  BY <1>1, <1>2, <1>3, <1>4, <1>5 DEF item, rest

LEMMA EmptyType == Empty \in Bytes8 /\ NoFile \in SaveFile
<1>1. Empty \in Bytes8
  BY ResetType
<1> QED
  BY <1>1 DEF NoFile, SaveFile

LEMMA TypeInit == Init => TypeInv
<1> SUFFICES ASSUME Init PROVE TypeInv
  OBVIOUS
<1>1. RegsOK(type, flash, eeprom) /\ IsScript(script) /\ backup \in Bytes8
  BY ResetType, Zenon DEF Init, RegsOK
<1>2. StatesOK
  <2>1. StateOK(NoState)
    <3>1. NoState.type \in Kinds \cup {"unkn"} /\ NoState.flash = ResetFlash /\ NoState.eeprom = ResetEeprom
          /\ NoState.script = Idle
      BY DEF NoState
    <3> QED
      BY <3>1, ResetType DEF StateOK, RegsOK
  <2>2. states = [n \in Names |-> NoState]
    BY DEF Init
  <2> QED
    BY <2>1, <2>2 DEF StatesOK
<1>3. file \in [Names -> SaveFile] /\ saved \in [Games -> Bytes8]
  BY EmptyType DEF Init
<1>4. count \in 0 .. MaxSaves
  BY SaveAssumption DEF Init
<1>5. game \in Games \cup {NoGame} /\ dirty \in BOOLEAN /\ loaded \in BOOLEAN
  BY DEF Init
<1> QED
  BY <1>1, <1>2, <1>3, <1>4, <1>5 DEF TypeInv

LEMMA SameStates ==
  ASSUME StatesOK, states' = states
  PROVE  StatesOK'
BY DEF StatesOK, StateOK, RegsOK, FlashOK, EepromOK, IsScript

LEMMA SizeType ==
  ASSUME RegsOK(type, flash, eeprom)
  PROVE  BackupSize \in {0, 512, 8192, 32768, 65536, 131072}
<1>1. flash.cnt \in {1, 2} /\ eeprom.size \in {1, 16}
  BY DEF RegsOK, FlashOK, EepromOK
<1>2. \A c \in {1, 2} : c * 65536 \in {65536, 131072}
  OBVIOUS
<1>3. \A c \in {1, 16} : c * 512 \in {512, 8192}
  OBVIOUS
<1> QED
  BY <1>1, <1>2, <1>3 DEF BackupSize

LEMMA ImageType ==
  ASSUME NEW size \in {0, 512, 8192, 32768, 65536, 131072}, NEW from \in Bytes8, NEW old \in Bytes8, NEW cut
  PROVE  Image(size, from, old, cut) \in SaveFile
<1>1. [p \in Places |-> CASE p >= size -> Blank [] p < cut -> from[p] [] OTHER -> old[p]] \in Bytes8
  <2>1. \A p \in Places : from[p] \in 0 .. 255 /\ old[p] \in 0 .. 255 /\ Blank \in 0 .. 255
    BY DEF Bytes8, Blank
  <2> QED
    BY <2>1 DEF Bytes8
<1> QED
  BY <1>1 DEF Image, SaveFile

LEMMA EndType ==
  ASSUME EndSession
  PROVE  /\ game' = NoGame /\ RegsOK(type', flash', eeprom') /\ backup' \in Bytes8
         /\ dirty' = FALSE /\ loaded' = FALSE /\ script' = Idle /\ IsScript(script')
BY ResetType, Zenon DEF EndSession, RegsOK

LEMMA TypeBoot ==
  ASSUME TypeInv, NEW g \in Games, Boot(g)
  PROVE  TypeInv'
<1>0. /\ file \in [Names -> SaveFile] /\ saved \in [Games -> Bytes8]
      /\ count \in 0 .. MaxSaves /\ StatesOK
  BY DEF TypeInv
<1>1. RegsOK(type', flash', eeprom')
  <2>1. type' \in Kinds \cup {"unkn"} /\ eeprom' = ResetEeprom
    BY Facts DEF Boot
  <2>2. FlashOK(flash')
    <3>1. flash' = [ResetFlash EXCEPT !.cnt = 1] \/ flash' = [ResetFlash EXCEPT !.cnt = 2]
      BY DEF Boot
    <3> QED
      BY <3>1, Modes DEF ResetFlash, FlashOK
  <2> QED
    BY <2>1, <2>2, ResetType DEF RegsOK
<1>2. backup' \in Bytes8 /\ loaded' \in BOOLEAN
  <2>1. file[Stem[g]].data \in Bytes8
    BY <1>0 DEF Names, SaveFile
  <2>2. \A cut : [p \in Places |-> IF p < cut THEN file[Stem[g]].data[p] ELSE Blank] \in Bytes8
    BY <2>1 DEF Bytes8, Blank
  <2>3. \/ backup' = file[Stem[g]].data /\ loaded' = TRUE
        \/ /\ loaded' = FALSE
           /\ \E cut : backup' = [p \in Places |-> IF p < cut THEN file[Stem[g]].data[p] ELSE Blank]
    BY DEF Boot
  <2> QED
    BY <2>1, <2>2, <2>3
<1>3. /\ game' = g /\ dirty' = FALSE /\ script' = Idle /\ states' = states /\ file' = file
      /\ saved' = saved /\ count' = count
  BY DEF Boot
<1>4. IsScript(script')
  BY <1>3, ResetType, Zenon
<1>5. StatesOK'
  BY <1>0, <1>3, SameStates
<1> QED
  BY <1>0, <1>1, <1>2, <1>3, <1>4, <1>5 DEF TypeInv

LEMMA TypeSend ==
  ASSUME TypeInv, Send
  PROVE  TypeInv'
<1>0. /\ game \in Games \cup {NoGame} /\ RegsOK(type, flash, eeprom)
      /\ backup \in Bytes8 /\ dirty \in BOOLEAN
      /\ file \in [Names -> SaveFile] /\ saved \in [Games -> Bytes8]
      /\ loaded \in BOOLEAN /\ count \in 0 .. MaxSaves /\ StatesOK
      /\ IsScript(script) /\ script.todo # <<>>
  BY Zenon DEF TypeInv, Send
<1> DEFINE item == Head(script.todo)
           rest == Tail(script.todo)
<1>1. /\ rest \in Lists /\ item.value \in 0 .. 255
      /\ item.op # "request" => item.at \in Nat
      /\ item.op = "request" => item.at \in Places
      /\ IsScript(IF rest = <<>> THEN Idle ELSE [script EXCEPT !.todo = rest])
  BY <1>0, ItemForm, Zenon
<1>2. /\ \/ item.op = "byte" /\ WriteBackup(item.at, item.value)
         \/ item.op = "write" /\ EepromWrite(item.at, item.value)
         \/ item.op = "request" /\ EepromRequest(item.at)
         \/ item.op = "read" /\ EepromRead
      /\ script' = IF rest = <<>> THEN Idle ELSE [script EXCEPT !.todo = rest]
      /\ saved' = IF rest = <<>> THEN [saved EXCEPT ![game] = Put(@, script.goal)] ELSE saved
      /\ game' = game /\ states' = states /\ file' = file /\ loaded' = loaded /\ count' = count
  BY Zenon DEF Send
<1> HIDE DEF item, rest
<1>3. RegsOK(type', flash', eeprom') /\ backup' \in Bytes8 /\ dirty' \in BOOLEAN
  BY <1>0, <1>1, <1>2, WriteType, BlockType
<1>4. saved' \in [Games -> Bytes8]
  <2>1. ASSUME NEW h \in Games PROVE Put(saved[h], script.goal) \in Bytes8
    BY <1>0, PutType DEF IsScript
  <2> QED
    BY <1>0, <1>2, <2>1
<1>5. IsScript(script') /\ StatesOK'
  BY <1>0, <1>1, <1>2, SameStates
<1> QED
  BY <1>0, <1>2, <1>3, <1>4, <1>5 DEF TypeInv

LEMMA TypeShutdown ==
  ASSUME TypeInv, Shutdown
  PROVE  TypeInv'
<1>0. /\ game \in Games /\ RegsOK(type, flash, eeprom) /\ backup \in Bytes8
      /\ file \in [Names -> SaveFile] /\ saved \in [Games -> Bytes8]
      /\ count \in 0 .. MaxSaves /\ StatesOK
  BY DEF TypeInv, Shutdown, Playing
<1>1. EndSession /\ states' = states /\ count' = count
  BY DEF Shutdown
<1> DEFINE name == Stem[game]
<1>2. name \in Names /\ file[name] \in SaveFile
  BY <1>0 DEF Names
<1>3. file[name].data \in Bytes8
  BY <1>2 DEF SaveFile
<1>4. Written(file[name], BackupSize) \in SaveFile
  BY <1>0, SizeType, EmptyType, ImageType DEF Written
<1>5. Failures(file[name], BackupSize) \subseteq SaveFile
  <2>1. (IF file[name].size = BackupSize THEN file[name].data ELSE Empty) \in Bytes8
    BY <1>3, EmptyType
  <2>2. (IF file[name].size = BackupSize THEN file[name] ELSE NoFile) \in SaveFile
    BY <1>2, EmptyType
  <2>3. \A cut \in Places :
          Image(BackupSize, backup, IF file[name].size = BackupSize THEN file[name].data ELSE Empty, cut)
            \in SaveFile
    BY <1>0, <2>1, SizeType, ImageType
  <2> QED
    BY <2>2, <2>3 DEF Failures
<1>6. \/ file' = file /\ saved' = saved
      \/ \E f \in SaveFile :
           /\ file' = [file EXCEPT ![name] = f]
           /\ saved' = saved \/ saved' = [saved EXCEPT ![game] = file'[name].data]
  <2> HIDE DEF name
  <2>1. \/ file' = file /\ saved' = saved
        \/ /\ file' = [file EXCEPT ![name] = Written(file[name], BackupSize)]
           /\ saved' = saved \/ saved' = [saved EXCEPT ![game] = file'[name].data]
        \/ \E f \in Failures(file[name], BackupSize) :
           /\ file' = [file EXCEPT ![name] = f]
           /\ saved' = [saved EXCEPT ![game] = file'[name].data]
    BY Zenon DEF Shutdown, name
  <2> QED
    BY <1>4, <1>5, <2>1
<1>7. file' \in [Names -> SaveFile] /\ saved' \in [Games -> Bytes8]
  <2> HIDE DEF name
  <2>1. file' \in [Names -> SaveFile]
    BY <1>0, <1>6
  <2>2. file'[name].data \in Bytes8
    BY <1>2, <2>1 DEF SaveFile
  <2> QED
    BY <1>0, <1>6, <2>1, <2>2
<1>8. StatesOK'
  BY <1>0, <1>1, SameStates
<1> QED
  BY <1>0, <1>1, <1>7, <1>8, EndType DEF TypeInv

LEMMA TypeLoadState ==
  ASSUME TypeInv, LoadState
  PROVE  TypeInv'
<1>0. /\ game \in Games
      /\ backup \in Bytes8 /\ dirty \in BOOLEAN
      /\ file \in [Names -> SaveFile] /\ saved \in [Games -> Bytes8]
      /\ loaded \in BOOLEAN /\ count \in 0 .. MaxSaves /\ StatesOK
  BY DEF TypeInv, LoadState, Playing
<1>1. StateOK(states[Stem[game]])
  BY <1>0 DEF StatesOK, Names
<1>2. /\ type' = states[Stem[game]].type /\ flash' = states[Stem[game]].flash
      /\ eeprom' = states[Stem[game]].eeprom /\ script' = states[Stem[game]].script
      /\ game' = game /\ backup' = backup /\ dirty' = dirty /\ states' = states /\ file' = file
      /\ saved' = saved /\ loaded' = loaded /\ count' = count
  BY Zenon DEF LoadState
<1>3. RegsOK(type', flash', eeprom') /\ IsScript(script') /\ StatesOK'
  BY <1>0, <1>1, <1>2, SameStates DEF StateOK
<1> QED
  BY <1>0, <1>2, <1>3 DEF TypeInv

LEMMA TypeSaveState ==
  ASSUME TypeInv, SaveState
  PROVE  TypeInv'
<1>0. /\ game \in Games /\ RegsOK(type, flash, eeprom)
      /\ backup \in Bytes8 /\ dirty \in BOOLEAN
      /\ file \in [Names -> SaveFile] /\ saved \in [Games -> Bytes8]
      /\ loaded \in BOOLEAN /\ count \in 0 .. MaxSaves /\ StatesOK /\ IsScript(script)
  BY DEF TypeInv, SaveState, Playing
<1> DEFINE s == [made |-> TRUE, type |-> type, flash |-> flash, eeprom |-> eeprom, script |-> script]
<1>1. StateOK(s)
  BY <1>0 DEF StateOK
<1>2. /\ states' = [states EXCEPT ![Stem[game]] = s]
      /\ type' = type /\ flash' = flash /\ eeprom' = eeprom /\ script' = script
      /\ game' = game /\ backup' = backup /\ dirty' = dirty /\ file' = file
      /\ saved' = saved /\ loaded' = loaded /\ count' = count
  BY Zenon DEF SaveState, chip
<1> HIDE DEF s
<1>3. /\ states = [n \in Names |-> states[n]] /\ \A n \in Names : StateOK(states[n])
      /\ Stem[game] \in Names
  BY <1>0 DEF StatesOK, Names
<1>4. /\ states' = [n \in Names |-> states'[n]]
      /\ \A n \in Names : StateOK(states'[n])
  <2>1. \A n \in Names : states'[n] = s \/ states'[n] = states[n]
    BY <1>2, <1>3
  <2> QED
    BY <1>1, <1>2, <1>3, <2>1
<1>5. StatesOK'
  BY <1>4 DEF StatesOK, StateOK, RegsOK, FlashOK, EepromOK, IsScript
<1>6. RegsOK(type', flash', eeprom') /\ IsScript(script')
  BY <1>0, <1>2
<1> QED
  BY <1>0, <1>2, <1>5, <1>6 DEF TypeInv

LEMMA TypeStep ==
  ASSUME TypeInv, [Next]_vars
  PROVE  TypeInv'
<1>0. /\ game \in Games \cup {NoGame} /\ RegsOK(type, flash, eeprom)
      /\ backup \in Bytes8 /\ dirty \in BOOLEAN
      /\ file \in [Names -> SaveFile] /\ saved \in [Games -> Bytes8]
      /\ loaded \in BOOLEAN /\ count \in 0 .. MaxSaves /\ StatesOK /\ IsScript(script)
  BY Zenon DEF TypeInv
<1>1. CASE Begin
  <2>1. /\ game \in Games /\ script' \in Operations /\ count' = count + 1 /\ count < MaxSaves
        /\ type' = type /\ flash' = flash /\ eeprom' = eeprom
        /\ game' = game /\ backup' = backup /\ dirty' = dirty /\ states' = states /\ file' = file
        /\ saved' = saved /\ loaded' = loaded
    BY <1>0, <1>1, Zenon DEF Begin, chip, Playing
  <2>2. IsScript(script')
    BY <2>1, OperationForms
  <2>3. count' \in 0 .. MaxSaves
    BY <1>0, <2>1, SaveAssumption
  <2>4. StatesOK' /\ RegsOK(type', flash', eeprom')
    BY <1>0, <2>1, SameStates
  <2> QED
    BY <1>0, <2>1, <2>2, <2>3, <2>4 DEF TypeInv
<1>2. CASE Look
  <2>1. /\ type' = (IF type = "unkn" THEN "sram" ELSE type)
        /\ flash' = flash /\ eeprom' = eeprom /\ script' = script /\ count' = count
        /\ game' = game /\ backup' = backup /\ dirty' = dirty /\ states' = states /\ file' = file
        /\ saved' = saved /\ loaded' = loaded
    BY <1>2, Zenon DEF Look, ReadBackup
  <2>2. RegsOK(type', flash', eeprom')
    BY <1>0, <2>1 DEF RegsOK, Kinds
  <2>3. StatesOK' /\ IsScript(script')
    BY <1>0, <2>1, SameStates
  <2> QED
    BY <1>0, <2>1, <2>2, <2>3 DEF TypeInv
<1>3. CASE PowerOff
  <2>1. /\ EndSession /\ states' = states /\ file' = file /\ count' = count
        /\ saved' = [saved EXCEPT ![game] = file[Stem[game]].data] /\ game \in Games
    BY <1>0, <1>3, Zenon DEF PowerOff, Playing
  <2>2. file[Stem[game]].data \in Bytes8
    BY <1>0, <2>1 DEF Names, SaveFile
  <2>3. saved' \in [Games -> Bytes8] /\ StatesOK'
    BY <1>0, <2>1, <2>2, SameStates
  <2> QED
    BY <1>0, <2>1, <2>3, EndType DEF TypeInv
<1>4. CASE UNCHANGED vars
  <2>1. /\ type' = type /\ flash' = flash /\ eeprom' = eeprom /\ script' = script /\ count' = count
        /\ game' = game /\ backup' = backup /\ dirty' = dirty /\ states' = states /\ file' = file
        /\ saved' = saved /\ loaded' = loaded
    BY <1>4 DEF vars, chip
  <2>2. StatesOK' /\ RegsOK(type', flash', eeprom') /\ IsScript(script')
    BY <1>0, <2>1, SameStates
  <2> QED
    BY <1>0, <2>1, <2>2 DEF TypeInv
<1> QED
  BY <1>1, <1>2, <1>3, <1>4, TypeBoot, TypeSend, TypeShutdown, TypeLoadState, TypeSaveState DEF Next

(* The registers of the chip, the bytes and the files stay in their types,  *)
(* for every library, and every bank a flash selects is one it has.         *)
THEOREM TypesHold == Spec => []TypeOK
<1>1. Init => TypeInv
  BY TypeInit
<1>2. TypeInv /\ [Next]_vars => TypeInv'
  BY TypeStep
<1>3. TypeInv => TypeOK
  <2> SUFFICES ASSUME TypeInv PROVE TypeOK
    OBVIOUS
  <2>1. /\ type \in Kinds \cup {"unkn"}
        /\ flash \in [mode : FlashModes, pos : 0 .. 2, bank : {0, 1}, cnt : {1, 2}]
        /\ flash.bank = 1 => flash.cnt = 2
        /\ eeprom \in [size : {1, 16}, mode : EepromModes, at : Places]
    BY DEF TypeInv, RegsOK, FlashOK, EepromOK
  <2>2. backup \in [Places -> 0 .. 255] /\ saved \in [Games -> [Places -> 0 .. 255]]
    BY DEF TypeInv, Bytes8
  <2>3. file \in [Names -> [size : {0, 512, 8192, 32768, 65536, 131072}, data : [Places -> 0 .. 255]]]
    BY DEF TypeInv, SaveFile, Bytes8
  <2>4. /\ game \in Games \cup {NoGame} /\ dirty \in BOOLEAN
        /\ loaded \in BOOLEAN /\ count \in 0 .. MaxSaves
    BY DEF TypeInv
  <2> QED
    BY <2>1, <2>2, <2>3, <2>4 DEF TypeOK
<1> QED
  BY <1>1, <1>2, <1>3, PTL DEF Spec

-----------------------------------------------------------------------------
(* What a byte that is sent does *)

ByteDone(did) ==
  /\ type' = did.type /\ flash' = did.flash /\ backup' = Put(backup, did.bytes) /\ dirty' = TRUE
  /\ eeprom' = eeprom
Sent(rest) ==
  /\ script' = IF rest = <<>> THEN Idle ELSE Operation(rest, script.goal)
  /\ saved' = IF rest = <<>> THEN [saved EXCEPT ![game] = Put(@, script.goal)] ELSE saved
  /\ game' = game /\ states' = states /\ file' = file /\ loaded' = loaded /\ count' = count

LEMMA SentForm ==
  ASSUME IsScript(script), Send
  PROVE  Sent(Tail(script.todo)) /\ script.todo # <<>>
<1>1. script.todo # <<>>
  BY DEF Send
<1> DEFINE rest == Tail(script.todo)
<1>2. rest # <<>> => [script EXCEPT !.todo = rest] = Operation(rest, script.goal)
  BY <1>1, ItemForm, Zenon
<1>3. /\ script' = IF rest = <<>> THEN Idle ELSE [script EXCEPT !.todo = rest]
      /\ saved' = IF rest = <<>> THEN [saved EXCEPT ![game] = Put(@, script.goal)] ELSE saved
      /\ game' = game /\ states' = states /\ file' = file /\ loaded' = loaded /\ count' = count
  BY Zenon DEF Send
<1> QED
  BY <1>1, <1>2, <1>3, Zenon DEF Sent

LEMMA ByteSent ==
  ASSUME Send, NEW a, NEW v, Head(script.todo) = Byte(a, v), type # "eeprom"
  PROVE  ByteDone(Effect(IF type = "unkn" THEN "sram" ELSE type, a, v))
<1>1. Byte(a, v).op = "byte" /\ Byte(a, v).at = a /\ Byte(a, v).value = v
  BY DEF Byte
<1>2. WriteBackup(a, v)
  BY <1>1 DEF Send
<1> QED
  BY <1>2, Zenon DEF WriteBackup, ByteDone

LEMMA DidFields ==
  ASSUME NEW t, NEW f, NEW b
  PROVE  Did(t, f, b).type = t /\ Did(t, f, b).flash = f /\ Did(t, f, b).bytes = b
BY DEF Did

AtOrder(a) == a = Unlock1 /\ flash.mode # "write"
Bare(mode, pos, bank) == FlashOf(mode, pos, bank, flash.cnt)
Swept(a) == Erased({p \in Places : Sector(p) = Sector(InBank(a))})

LEMMA EffectCases ==
  ASSUME FlashOK(flash), NEW known, NEW a, NEW v
  PROVE  Effect(known, a, v) =
           CASE AtOrder(a) /\ flash.pos = 0 /\ v = 170 ->
                  Did("flash", Bare(flash.mode, 1, flash.bank), Nothing)
             [] AtOrder(a) /\ flash.pos = 2 ->
                  Did(known, Commanded(v),
                      IF v = CmdChip /\ flash.mode = "erase" THEN Erased(Places) ELSE Stored(known, a, v))
             [] AtOrder(a) /\ flash.pos # 2 /\ ~(flash.pos = 0 /\ v = 170) ->
                  Did(known, flash, Stored(known, a, v))
             [] ~AtOrder(a) /\ a = Unlock2 /\ v = 85 /\ flash.pos = 1 ->
                  Did(known, Bare(flash.mode, 2, flash.bank), Nothing)
             [] ~AtOrder(a) /\ flash.pos = 2 /\ flash.mode = "erase" /\ v = 48 ->
                  Did(known, Bare("base", 0, flash.bank), Swept(a))
             [] ~AtOrder(a) /\ flash.pos = 0 /\ flash.mode = "bank" /\ a = 0 /\ flash.cnt = 2 ->
                  Did(known, Bare("base", flash.pos, v % 2), Nothing)
             [] ~AtOrder(a) /\ flash.pos = 0 /\ flash.mode = "write" ->
                  Did(known, Bare("base", flash.pos, flash.bank), Holding(InBank(a), v))
             [] OTHER -> Did(known, flash, Stored(known, a, v))
<1>1. [flash EXCEPT !.pos = 1] = Bare(flash.mode, 1, flash.bank)
  BY FlashFields, Zenon DEF Bare
<1>2. [flash EXCEPT !.pos = 2] = Bare(flash.mode, 2, flash.bank)
  BY FlashFields, Zenon DEF Bare
<1>3. PosMode(flash, 0, "base") = Bare("base", 0, flash.bank)
  BY FlashTwice, Zenon DEF Bare
<1>4. BankMode(flash, v % 2, "base") = Bare("base", flash.pos, v % 2)
  BY FlashTwice, Zenon DEF Bare
<1>5. [flash EXCEPT !.mode = "base"] = Bare("base", flash.pos, flash.bank)
  BY FlashFields, Zenon DEF Bare
<1>6. AtCommand(a) <=> AtOrder(a)
  BY DEF AtCommand, AtOrder
<1> QED
  BY <1>1, <1>2, <1>3, <1>4, <1>5, <1>6, Zenon DEF Effect, PosMode, BankMode, Swept, Holding

LEMMA EffectUnlock ==
  ASSUME FlashOK(flash), flash.mode # "write", flash.pos = 0, NEW known
  PROVE  Effect(known, Unlock1, 170) = Did("flash", Bare(flash.mode, 1, flash.bank), Nothing)
<1>1. AtOrder(Unlock1)
  BY DEF AtOrder
<1> QED
  BY <1>1, EffectCases

LEMMA EffectUnlocked ==
  ASSUME FlashOK(flash), flash.pos = 1, NEW known
  PROVE  Effect(known, Unlock2, 85) = Did(known, Bare(flash.mode, 2, flash.bank), Nothing)
<1>1. ~AtOrder(Unlock2)
  BY DEF AtOrder, Unlock1, Unlock2
<1> QED
  BY <1>1, EffectCases

LEMMA EffectOrder ==
  ASSUME FlashOK(flash), flash.mode # "write", flash.pos = 2, NEW known, NEW v
  PROVE  Effect(known, Unlock1, v)
         = Did(known, Commanded(v),
               IF v = CmdChip /\ flash.mode = "erase" THEN Erased(Places) ELSE Stored(known, Unlock1, v))
<1>1. AtOrder(Unlock1)
  BY DEF AtOrder
<1> QED
  BY <1>1, EffectCases

LEMMA EffectSector ==
  ASSUME FlashOK(flash), flash.mode = "erase", flash.pos = 2, NEW known, NEW a, a # Unlock1
  PROVE  Effect(known, a, 48) = Did(known, Bare("base", 0, flash.bank), Swept(a))
<1>1. ~AtOrder(a)
  BY DEF AtOrder
<1> QED
  BY <1>1, EffectCases

LEMMA EffectBank ==
  ASSUME FlashOK(flash), flash.mode = "bank", flash.pos = 0, flash.cnt = 2, NEW known, NEW v
  PROVE  Effect(known, 0, v) = Did(known, Bare("base", 0, v % 2), Nothing)
<1>1. ~AtOrder(0)
  BY DEF AtOrder, Unlock1
<1> QED
  BY <1>1, EffectCases

LEMMA EffectProgram ==
  ASSUME FlashOK(flash), flash.mode = "write", flash.pos = 0, NEW known, NEW a, NEW v
  PROVE  Effect(known, a, v) = Did(known, Bare("base", 0, flash.bank), Holding(InBank(a), v))
<1>1. ~AtOrder(a)
  BY DEF AtOrder
<1> QED
  BY <1>1, EffectCases

LEMMA EffectStore ==
  ASSUME FlashOK(flash), flash.mode = "base", flash.pos = 0, NEW known, NEW a, NEW v,
         a # Unlock1 \/ v # 170
  PROVE  Effect(known, a, v) = Did(known, flash, Stored(known, a, v))
<1>1. AtOrder(a) => v # 170
  BY DEF AtOrder
<1> QED
  BY <1>1, EffectCases

-----------------------------------------------------------------------------
(* A flash game sends a byte: the chip waits for what is left, and the bytes *)
(* of the game are those it had or, with the last byte, its goal.            *)

KeptCells(goal) ==
  \A p \in Cells(game) : backup'[p] = IF p \in DOMAIN goal THEN goal[p] ELSE backup[p]
FlashStep ==
  /\ FlashWaits(game, type', flash', script') /\ type' = "flash" /\ dirty' = TRUE
  /\ KeptCells(IF Tail(script.todo) = <<>> THEN script.goal ELSE Nothing)

FlashGame ==
  /\ TypeInv /\ game \in Games /\ Kind[game] = "flash" /\ Send
  /\ game \in Large => flash.cnt = 2
  /\ game \notin Large => flash.bank = 0

LEMMA FlashGameForm ==
  ASSUME FlashGame
  PROVE  /\ FlashOK(flash) /\ IsScript(script) /\ backup \in Bytes8
         /\ flash.mode \in FlashModes /\ flash.pos \in 0 .. 2 /\ flash.bank \in {0, 1} /\ flash.cnt \in {1, 2}
         /\ script.todo # <<>> /\ Sent(Tail(script.todo))
<1>1. FlashOK(flash) /\ IsScript(script) /\ backup \in Bytes8
  BY DEF FlashGame, TypeInv, RegsOK
<1>2. Sent(Tail(script.todo)) /\ script.todo # <<>>
  BY <1>1, SentForm DEF FlashGame
<1> QED
  BY <1>1, <1>2, FlashFields, Zenon

(* FlashWaits, of registers that are given field by field.                  *)
LEMMA WaitsIntro ==
  ASSUME FlashGame, NEW m \in FlashModes, NEW p \in 0 .. 2, NEW b \in {0, 1}, NEW c \in {1, 2},
         flash' = FlashOf(m, p, b, c), type' = "flash",
         game \in Large => c = 2, game \notin Large => b = 0,
         \/ p = 0 /\ m = "base" /\ script' = Idle
         \/ p = 0 /\ \E op \in Orders(game, m, b) : Locked(op, script')
         \/ p = 1 /\ \E op \in Orders(game, m, b) : HalfLocked(op, script')
         \/ p = 2 /\ script' \in Orders(game, m, b)
         \/ p = 0 /\ m = "write" /\ \E o \in Offsets, v \in Values :
              script' = Operation(<<Byte(o, v)>>, Holding(Cell(b, o), v))
         \/ p = 0 /\ m = "bank" /\ game \in Large /\ \E d \in {0, 1} : \E op \in InBankOps(d) :
              script' = Operation(After(Byte(0, d), Unlocked(op.todo)), op.goal)
  PROVE  FlashWaits(game, type', flash', script')
<1>1. flash'.mode = m /\ flash'.pos = p /\ flash'.bank = b /\ flash'.cnt = c
  BY FlashOfOK
<1>2. type' # "eeprom"
  OBVIOUS
<1> QED
  BY <1>1, <1>2, Zenon DEF FlashWaits

LEMMA NoneTouched ==
  ASSUME FlashGame, backup' = Put(backup, Nothing)
  PROVE  KeptCells(Nothing)
BY Facts DEF Put, Nothing, KeptCells, FlashGame

LEMMA DoneForm ==
  ASSUME NEW t, NEW f, NEW b, ByteDone(Did(t, f, b))
  PROVE  type' = t /\ flash' = f /\ backup' = Put(backup, b) /\ dirty' = TRUE
<1>1. Did(t, f, b).type = t /\ Did(t, f, b).flash = f /\ Did(t, f, b).bytes = b
  BY DidFields
<1> QED
  BY <1>1 DEF ByteDone

(* The first byte that unlocks the flash.                                   *)
LEMMA StepLocked ==
  ASSUME FlashGame, type # "eeprom", flash.pos = 0,
         NEW op \in Orders(game, flash.mode, flash.bank), Locked(op, script)
  PROVE  FlashStep
<1>0. /\ FlashOK(flash) /\ flash.mode \in FlashModes /\ flash.bank \in {0, 1} /\ flash.cnt \in {1, 2}
      /\ script.todo # <<>> /\ Sent(Tail(script.todo)) /\ game \in Games
  BY FlashGameForm, Zenon DEF FlashGame
<1>1. IsScript(op) /\ op.todo \in Lists
  BY <1>0, OrdersForms DEF IsScript
<1>2. script.todo = Unlocked(op.todo) /\ script.goal = op.goal
  BY Zenon DEF Locked, Operation
<1> DEFINE rest == After(Byte(Unlock2, 85), op.todo)
<1>3. Head(script.todo) = Byte(Unlock1, 170) /\ Tail(script.todo) = rest /\ rest # <<>>
  <2>1. /\ Head(Unlocked(op.todo)) = Byte(Unlock1, 170) /\ Tail(Unlocked(op.todo)) = rest
        /\ rest # <<>>
    BY <1>1, UnlockedForm
  <2> QED
    BY <1>2, <2>1, Zenon
<1>4. flash.mode # "write"
  BY DEF Orders
<1>5. ByteDone(Did("flash", Bare(flash.mode, 1, flash.bank), Nothing))
  <2> DEFINE known == IF type = "unkn" THEN "sram" ELSE type
  <2>1. ByteDone(Effect(known, Unlock1, 170))
    BY <1>3, ByteSent, Zenon DEF FlashGame
  <2> HIDE DEF known
  <2>2. Effect(known, Unlock1, 170) = Did("flash", Bare(flash.mode, 1, flash.bank), Nothing)
    BY <1>0, <1>4, EffectUnlock
  <2> QED
    BY <2>1, <2>2, Zenon
<1>6. /\ type' = "flash" /\ flash' = Bare(flash.mode, 1, flash.bank)
      /\ backup' = Put(backup, Nothing) /\ dirty' = TRUE
  BY <1>5, DoneForm, Zenon
<1> HIDE DEF rest
<1>7. script' = Operation(rest, op.goal)
  BY <1>0, <1>2, <1>3 DEF Sent
<1>8. HalfLocked(op, script')
  BY <1>7, Zenon DEF HalfLocked, rest
<1>9. FlashWaits(game, type', flash', script')
  BY <1>0, <1>6, <1>8, Modes, WaitsIntro DEF FlashGame, Bare
<1>10. KeptCells(Nothing)
  BY <1>6, NoneTouched, Zenon
<1> QED
  BY <1>3, <1>6, <1>9, <1>10 DEF FlashStep

(* The second.                                                              *)
LEMMA StepHalfLocked ==
  ASSUME FlashGame, type = "flash", flash.pos = 1,
         NEW op \in Orders(game, flash.mode, flash.bank), HalfLocked(op, script)
  PROVE  FlashStep
<1>0. /\ FlashOK(flash) /\ flash.mode \in FlashModes /\ flash.bank \in {0, 1} /\ flash.cnt \in {1, 2}
      /\ script.todo # <<>> /\ Sent(Tail(script.todo)) /\ game \in Games
  BY FlashGameForm, Zenon DEF FlashGame
<1>1. IsScript(op) /\ op.todo \in Lists /\ op.todo # <<>>
  <2>1. IsScript(op) /\ op.todo # <<>>
    BY <1>0, OrdersForms
  <2> QED
    BY <2>1 DEF IsScript
<1>2. script.todo = After(Byte(Unlock2, 85), op.todo) /\ script.goal = op.goal
  BY Zenon DEF HalfLocked, Operation
<1>3. Head(script.todo) = Byte(Unlock2, 85) /\ Tail(script.todo) = op.todo
  <2>1. /\ Head(After(Byte(Unlock2, 85), op.todo)) = Byte(Unlock2, 85)
        /\ Tail(After(Byte(Unlock2, 85), op.todo)) = op.todo
    BY <1>1, UnlockedForm, Zenon
  <2> QED
    BY <1>2, <2>1, Zenon
<1>5. ByteDone(Did("flash", Bare(flash.mode, 2, flash.bank), Nothing))
  <2>1. ByteDone(Effect("flash", Unlock2, 85))
    <3>1. ByteDone(Effect(IF type = "unkn" THEN "sram" ELSE type, Unlock2, 85))
      BY <1>3, ByteSent DEF FlashGame
    <3> QED
      BY <3>1
  <2>2. Effect("flash", Unlock2, 85) = Did("flash", Bare(flash.mode, 2, flash.bank), Nothing)
    BY <1>0, EffectUnlocked
  <2> QED
    BY <2>1, <2>2, Zenon
<1>6. /\ type' = "flash" /\ flash' = Bare(flash.mode, 2, flash.bank)
      /\ backup' = Put(backup, Nothing) /\ dirty' = TRUE
  BY <1>5, DoneForm, Zenon
<1>7. script' = Operation(op.todo, op.goal)
  BY <1>0, <1>1, <1>2, <1>3 DEF Sent
<1>8. script' \in Orders(game, flash.mode, flash.bank)
  BY <1>1, <1>7 DEF IsScript
<1>9. FlashWaits(game, type', flash', script')
  BY <1>0, <1>6, <1>8, Modes, WaitsIntro DEF FlashGame, Bare
<1>10. KeptCells(Nothing)
  BY <1>6, NoneTouched, Zenon
<1> QED
  BY <1>1, <1>3, <1>6, <1>9, <1>10 DEF FlashStep

(* A command.                                                               *)
LEMMA StepOrder ==
  ASSUME FlashGame, type = "flash", flash.pos = 2, flash.mode # "write",
         NEW v \in 0 .. 255, NEW rest \in Lists, NEW goal,
         script = Operation(Order(v, rest), goal)
  PROVE  /\ type' = "flash" /\ flash' = Commanded(v) /\ dirty' = TRUE
         /\ backup' = Put(backup, IF v = CmdChip /\ flash.mode = "erase" THEN Erased(Places) ELSE Nothing)
         /\ script' = IF rest = <<>> THEN Idle ELSE Operation(rest, goal)
         /\ Tail(script.todo) = rest /\ script.goal = goal
<1>0. FlashOK(flash) /\ Sent(Tail(script.todo))
  BY FlashGameForm, Zenon
<1>1. script.todo = Order(v, rest) /\ script.goal = goal
  BY Zenon DEF Operation
<1>2. Head(script.todo) = Byte(Unlock1, v) /\ Tail(script.todo) = rest
  BY <1>1, OrderForm, Zenon
<1>3. ByteDone(Effect("flash", Unlock1, v))
  <2>1. ByteDone(Effect(IF type = "unkn" THEN "sram" ELSE type, Unlock1, v))
    BY <1>2, ByteSent DEF FlashGame
  <2> QED
    BY <2>1
<1> DEFINE bytes == IF v = CmdChip /\ flash.mode = "erase" THEN Erased(Places) ELSE Stored("flash", Unlock1, v)
<1>4. Effect("flash", Unlock1, v) = Did("flash", Commanded(v), bytes)
  BY <1>0, EffectOrder
<1>5. bytes = IF v = CmdChip /\ flash.mode = "erase" THEN Erased(Places) ELSE Nothing
  BY DEF Stored
<1> HIDE DEF bytes
<1>6. type' = "flash" /\ flash' = Commanded(v) /\ backup' = Put(backup, bytes) /\ dirty' = TRUE
  <2>1. ByteDone(Did("flash", Commanded(v), bytes))
    BY <1>3, <1>4, Zenon
  <2> QED
    BY <2>1, DoneForm, Zenon
<1>7. script' = IF rest = <<>> THEN Idle ELSE Operation(rest, goal)
  BY <1>0, <1>1, <1>2, Zenon DEF Sent
<1> QED
  BY <1>1, <1>2, <1>5, <1>6, <1>7, Zenon

(* Commands after which the operation goes on.                              *)
LEMMA StepGoesOn ==
  ASSUME FlashGame, type = "flash", flash.pos = 2, flash.mode # "write",
         NEW v \in 0 .. 255, NEW rest \in Lists, rest # <<>>, NEW goal,
         script = Operation(Order(v, rest), goal), ~(v = CmdChip /\ flash.mode = "erase"),
         NEW m \in FlashModes, NEW c \in {1, 2}, Commanded(v) = FlashOf(m, 0, flash.bank, c),
         game \in Large => c = 2,
         \/ \E op \in Orders(game, m, flash.bank) : Locked(op, Operation(rest, goal))
         \/ m = "write" /\ \E o \in Offsets, w \in Values :
              Operation(rest, goal) = Operation(<<Byte(o, w)>>, Holding(Cell(flash.bank, o), w))
         \/ m = "bank" /\ game \in Large /\ \E d \in {0, 1} : \E op \in InBankOps(d) :
              Operation(rest, goal) = Operation(After(Byte(0, d), Unlocked(op.todo)), op.goal)
  PROVE  FlashStep
<1>0. flash.bank \in {0, 1} /\ (game \notin Large => flash.bank = 0)
  BY FlashGameForm, Zenon DEF FlashGame
<1>1. /\ type' = "flash" /\ flash' = Commanded(v) /\ dirty' = TRUE
      /\ backup' = Put(backup, IF v = CmdChip /\ flash.mode = "erase" THEN Erased(Places) ELSE Nothing)
      /\ script' = (IF rest = <<>> THEN Idle ELSE Operation(rest, goal))
      /\ Tail(script.todo) = rest
  BY StepOrder, Zenon
<1>2. backup' = Put(backup, Nothing) /\ script' = Operation(rest, goal)
  BY <1>1, Zenon
<1>3. FlashWaits(game, type', flash', script')
  BY <1>0, <1>1, <1>2, Modes, WaitsIntro
<1>4. KeptCells(Nothing)
  BY <1>2, NoneTouched, Zenon
<1> QED
  BY <1>1, <1>3, <1>4, Zenon DEF FlashStep

(* Its last byte.                                                           *)
LEMMA StepEnds ==
  ASSUME FlashGame, type' = "flash", dirty' = TRUE, Tail(script.todo) = <<>>, script' = Idle,
         NEW b \in {0, 1}, game \notin Large => b = 0,
         NEW c \in {1, 2}, game \in Large => c = 2,
         flash' = FlashOf("base", 0, b, c), KeptCells(script.goal)
  PROVE  FlashStep
<1>1. FlashWaits(game, type', flash', script')
  BY Modes, WaitsIntro
<1> QED
  BY <1>1, Zenon DEF FlashStep

LEMMA StepInBank ==
  ASSUME FlashGame, type = "flash", flash.pos = 2, flash.mode = "base",
         script \in InBankOps(flash.bank)
  PROVE  FlashStep
<1>0. /\ FlashOK(flash) /\ flash.bank \in {0, 1} /\ flash.cnt \in {1, 2}
      /\ game \in Large => flash.cnt = 2
  BY FlashGameForm, Zenon DEF FlashGame
<1>a. flash.mode # "write" /\ ~(CmdProgram = CmdChip) /\ ~(CmdErase = CmdChip)
  BY DEF CmdProgram, CmdErase, CmdChip
<1>1. ASSUME NEW o \in Offsets, NEW w \in Values,
             script = Operation(Order(CmdProgram, <<Byte(o, w)>>), Holding(Cell(flash.bank, o), w))
      PROVE  FlashStep
  <2> DEFINE rest == <<Byte(o, w)>>
             goal == Holding(Cell(flash.bank, o), w)
  <2>1. rest \in Lists /\ rest # <<>>
    BY Bytes, SingleForm
  <2>2. Commanded(CmdProgram) = FlashOf("write", 0, flash.bank, flash.cnt)
    BY <1>0, Codes, CommandedForm
  <2>3. \E x \in Offsets, y \in Values :
          Operation(rest, goal) = Operation(<<Byte(x, y)>>, Holding(Cell(flash.bank, x), y))
    BY Zenon
  <2>4. script = Operation(Order(CmdProgram, rest), goal)
    BY <1>1
  <2> HIDE DEF rest, goal
  <2> QED
    BY <1>0, <1>a, <2>1, <2>2, <2>3, <2>4, Codes, Modes, StepGoesOn
<1>2. ASSUME NEW o \in Offsets,
             script = Operation(Order(CmdErase, Unlocked(<<SectorByte(o)>>)), Wipe(flash.bank, o))
      PROVE  FlashStep
  <2> DEFINE rest == Unlocked(<<SectorByte(o)>>)
             goal == Wipe(flash.bank, o)
             op == Operation(<<SectorByte(o)>>, goal)
  <2>1. rest \in Lists /\ rest # <<>>
    <3>1. <<SectorByte(o)>> \in Lists
      BY Bytes, SingleForm
    <3> QED
      BY <3>1, UnlockedForm
  <2>2. Commanded(CmdErase) = FlashOf("erase", 0, flash.bank, flash.cnt)
    BY <1>0, Codes, CommandedForm
  <2>3. \E x \in Orders(game, "erase", flash.bank) : Locked(x, Operation(rest, goal))
    <3>1. op \in EraseOps(game, flash.bank)
      BY DEF EraseOps
    <3>2. op \in Orders(game, "erase", flash.bank)
      BY <3>1 DEF Orders
    <3>3. Locked(op, Operation(rest, goal))
      BY Zenon DEF Locked, Operation
    <3> QED
      BY <3>2, <3>3, Zenon
  <2>4. script = Operation(Order(CmdErase, rest), goal)
    BY <1>2
  <2> HIDE DEF rest, goal, op
  <2> QED
    BY <1>0, <1>a, <2>1, <2>2, <2>3, <2>4, Codes, Modes, StepGoesOn
<1>3. \/ \E o \in Offsets, w \in Values :
           script = Operation(Order(CmdProgram, <<Byte(o, w)>>), Holding(Cell(flash.bank, o), w))
      \/ \E o \in Offsets :
           script = Operation(Order(CmdErase, Unlocked(<<SectorByte(o)>>)), Wipe(flash.bank, o))
  BY DEF InBankOps
<1> QED
  BY <1>1, <1>2, <1>3, Zenon

LEMMA StepSelect ==
  ASSUME FlashGame, type = "flash", flash.pos = 2, flash.mode = "base",
         game \in Large, script \in SelectOps
  PROVE  FlashStep
<1>0. /\ FlashOK(flash) /\ flash.bank \in {0, 1} /\ flash.mode # "write" /\ ~(CmdBank = CmdChip)
  BY FlashGameForm DEF CmdBank, CmdChip
<1>1. PICK d \in {0, 1} : \E t \in InBankOps(d) :
        script = Operation(Order(CmdBank, After(Byte(0, d), Unlocked(t.todo))), t.goal)
  BY DEF SelectOps
<1>2. PICK t \in InBankOps(d) :
        script = Operation(Order(CmdBank, After(Byte(0, d), Unlocked(t.todo))), t.goal)
  BY <1>1
<1> DEFINE rest == After(Byte(0, d), Unlocked(t.todo))
           goal == t.goal
<1>3. rest \in Lists /\ rest # <<>>
  <2>1. t.todo \in Lists
    BY InBankForms DEF IsScript
  <2>2. Unlocked(t.todo) \in Lists /\ Byte(0, d) \in Items
    BY <2>1, UnlockedForm, Bytes
  <2> QED
    BY <2>2, AfterForm
<1>4. Commanded(CmdBank) = FlashOf("bank", 0, flash.bank, 2)
  BY <1>0, Codes, CommandedForm
<1>5. \E e \in {0, 1} : \E op \in InBankOps(e) :
        Operation(rest, goal) = Operation(After(Byte(0, e), Unlocked(op.todo)), op.goal)
  BY Zenon
<1>6. script = Operation(Order(CmdBank, rest), goal)
  BY <1>2
<1> HIDE DEF rest, goal
<1> QED
  <2>1. CmdBank \in 0 .. 255 /\ "bank" \in FlashModes /\ 2 \in {1, 2}
    BY Codes, Modes
  <2>2. ~(CmdBank = CmdChip /\ flash.mode = "erase") /\ (game \in Large => 2 = 2)
    BY <1>0
  <2>3. \/ \E op \in Orders(game, "bank", flash.bank) : Locked(op, Operation(rest, goal))
        \/ "bank" = "write" /\ \E o \in Offsets, w \in Values :
             Operation(rest, goal) = Operation(<<Byte(o, w)>>, Holding(Cell(flash.bank, o), w))
        \/ "bank" = "bank" /\ game \in Large /\ \E e \in {0, 1} : \E op \in InBankOps(e) :
             Operation(rest, goal) = Operation(After(Byte(0, e), Unlocked(op.todo)), op.goal)
    BY <1>5, Zenon
  <2> QED
    BY <1>0, <1>3, <1>4, <1>6, <2>1, <2>2, <2>3, StepGoesOn, Zenon

LEMMA StepBase ==
  ASSUME FlashGame, type = "flash", flash.pos = 2, flash.mode = "base",
         script \in BaseOps(game, flash.bank)
  PROVE  FlashStep
<1>0. /\ FlashOK(flash) /\ flash.bank \in {0, 1} /\ flash.cnt \in {1, 2}
      /\ game \in Large => flash.cnt = 2
  BY FlashGameForm, Zenon DEF FlashGame
<1>a. flash.mode # "write" /\ ~(CmdIdentify = CmdChip) /\ ~(CmdErase = CmdChip)
  BY DEF CmdIdentify, CmdErase, CmdChip
<1>b. Order(CmdChip, <<>>) \in Lists /\ Order(CmdLeave, <<>>) \in Lists
  BY JoinForm, OrderForm, Codes
<1>1. ASSUME script = Operation(Order(CmdErase, Unlocked(Order(CmdChip, <<>>))), Erased(Cells(game)))
      PROVE  FlashStep
  <2> DEFINE rest == Unlocked(Order(CmdChip, <<>>))
             goal == Erased(Cells(game))
             op == Operation(Order(CmdChip, <<>>), goal)
  <2>1. rest \in Lists /\ rest # <<>>
    BY <1>b, UnlockedForm
  <2>2. Commanded(CmdErase) = FlashOf("erase", 0, flash.bank, flash.cnt)
    BY <1>0, Codes, CommandedForm
  <2>3. \E x \in Orders(game, "erase", flash.bank) : Locked(x, Operation(rest, goal))
    <3>1. op \in EraseOps(game, flash.bank)
      BY DEF EraseOps
    <3>2. op \in Orders(game, "erase", flash.bank)
      BY <3>1 DEF Orders
    <3>3. Locked(op, Operation(rest, goal))
      BY Zenon DEF Locked, Operation
    <3> QED
      BY <3>2, <3>3, Zenon
  <2>4. script = Operation(Order(CmdErase, rest), goal)
    BY <1>1
  <2> HIDE DEF rest, goal, op
  <2> QED
    BY <1>0, <1>a, <2>1, <2>2, <2>3, <2>4, Codes, Modes, StepGoesOn
<1>2. ASSUME script = Operation(Order(CmdIdentify, Unlocked(Order(CmdLeave, <<>>))), Nothing)
      PROVE  FlashStep
  <2> DEFINE rest == Unlocked(Order(CmdLeave, <<>>))
             op == Operation(Order(CmdLeave, <<>>), Nothing)
  <2>1. rest \in Lists /\ rest # <<>>
    BY <1>b, UnlockedForm
  <2>2. Commanded(CmdIdentify) = FlashOf("id", 0, flash.bank, flash.cnt)
    BY <1>0, Codes, CommandedForm
  <2>3. \E x \in Orders(game, "id", flash.bank) : Locked(x, Operation(rest, Nothing))
    <3>1. op \in Orders(game, "id", flash.bank)
      BY DEF Orders
    <3>2. Locked(op, Operation(rest, Nothing))
      BY Zenon DEF Locked, Operation
    <3> QED
      BY <3>1, <3>2, Zenon
  <2>4. script = Operation(Order(CmdIdentify, rest), Nothing)
    BY <1>2
  <2> HIDE DEF rest, op
  <2> QED
    BY <1>0, <1>a, <2>1, <2>2, <2>3, <2>4, Codes, Modes, StepGoesOn
<1>3. \/ script \in InBankOps(flash.bank)
      \/ game \in Large /\ script \in SelectOps
      \/ script = Operation(Order(CmdErase, Unlocked(Order(CmdChip, <<>>))), Erased(Cells(game)))
      \/ script = Operation(Order(CmdIdentify, Unlocked(Order(CmdLeave, <<>>))), Nothing)
  BY DEF BaseOps
<1> QED
  BY <1>1, <1>2, <1>3, StepInBank, StepSelect

(* The whole chip is erased.                                                *)
LEMMA StepChip ==
  ASSUME FlashGame, type = "flash", flash.pos = 2, flash.mode = "erase",
         script = Operation(Order(CmdChip, <<>>), Erased(Cells(game)))
  PROVE  FlashStep
<1>0. /\ FlashOK(flash) /\ flash.bank \in {0, 1} /\ flash.cnt \in {1, 2}
      /\ game \in Large => flash.cnt = 2
      /\ game \notin Large => flash.bank = 0
      /\ game \in Games
  BY FlashGameForm, Zenon DEF FlashGame
<1>1. /\ type' = "flash" /\ flash' = Commanded(CmdChip) /\ dirty' = TRUE
      /\ backup' = Put(backup, IF CmdChip = CmdChip /\ flash.mode = "erase" THEN Erased(Places) ELSE Nothing)
      /\ script' = (IF <<>> = <<>> THEN Idle ELSE Operation(<<>>, Erased(Cells(game))))
      /\ Tail(script.todo) = <<>> /\ script.goal = Erased(Cells(game))
  <2>1. flash.mode # "write" /\ <<>> \in Lists /\ CmdChip \in 0 .. 255
    BY JoinForm, Codes
  <2> QED
    BY <2>1, StepOrder, Zenon
<1>2. backup' = Put(backup, Erased(Places)) /\ script' = Idle
  BY <1>1, Zenon
<1>3. flash' = FlashOf("base", 0, flash.bank, flash.cnt)
  <2>1. Commanded(CmdChip) = FlashOf("base", 0, flash.bank, flash.cnt)
    BY <1>0, Codes, CommandedForm
  <2> QED
    BY <1>1, <2>1
<1>4. KeptCells(Erased(Cells(game)))
  BY <1>0, <1>2, Facts DEF KeptCells, Put, Erased
<1> QED
  BY <1>0, <1>1, <1>2, <1>3, <1>4, StepEnds

LEMMA StepLeave ==
  ASSUME FlashGame, type = "flash", flash.pos = 2, flash.mode = "id",
         script = Operation(Order(CmdLeave, <<>>), Nothing)
  PROVE  FlashStep
<1>0. /\ FlashOK(flash) /\ flash.bank \in {0, 1} /\ flash.cnt \in {1, 2}
      /\ game \in Large => flash.cnt = 2
      /\ game \notin Large => flash.bank = 0
      /\ game \in Games
  BY FlashGameForm, Zenon DEF FlashGame
<1>1. /\ type' = "flash" /\ flash' = Commanded(CmdLeave) /\ dirty' = TRUE
      /\ backup' = Put(backup, IF CmdLeave = CmdChip /\ flash.mode = "erase" THEN Erased(Places) ELSE Nothing)
      /\ script' = (IF <<>> = <<>> THEN Idle ELSE Operation(<<>>, Nothing))
      /\ Tail(script.todo) = <<>> /\ script.goal = Nothing
  <2>1. flash.mode # "write" /\ <<>> \in Lists /\ CmdLeave \in 0 .. 255
    BY JoinForm, Codes
  <2> QED
    BY <2>1, StepOrder, Zenon
<1>2. backup' = Put(backup, Nothing) /\ script' = Idle
  <2>1. ~(flash.mode = "erase")
    OBVIOUS
  <2> QED
    BY <1>1, <2>1, Zenon
<1>3. flash' = FlashOf("base", 0, flash.bank, flash.cnt)
  <2>1. Commanded(CmdLeave) = FlashOf("base", 0, flash.bank, flash.cnt)
    BY <1>0, Codes, CommandedForm
  <2> QED
    BY <1>1, <2>1
<1>4. KeptCells(Nothing)
  BY <1>2, NoneTouched, Zenon
<1> QED
  BY <1>0, <1>1, <1>2, <1>3, <1>4, StepEnds

(* The sectors of the bytes a flash game keeps.                             *)
LEMMA SectorCells ==
  ASSUME game \in Games, Kind[game] = "flash", NEW b \in {0, 1}, game \notin Large => b = 0,
         NEW o \in Offsets, NEW p \in Cells(game)
  PROVE  Sector(p) = Sector(Sector(o) * 4096 + BankSize * b) <=> p = Cell(b, o)
<1>1. o \in {0, 21845} /\ p \in {0, 21845, 65536, 87381} /\ (game \notin Large => p \in {0, 21845})
  BY Facts DEF Cells
<1>2. /\ Sector(0) = 0 /\ Sector(21845) = 5 /\ Sector(65536) = 16 /\ Sector(87381) = 21
      /\ Sector(20480) = 5 /\ Sector(86016) = 21
  BY DEF Sector
<1>3. /\ BankSize * 0 = 0 /\ BankSize * 1 = 65536
      /\ Cell(0, 0) = 0 /\ Cell(0, 21845) = 21845 /\ Cell(1, 0) = 65536 /\ Cell(1, 21845) = 87381
  BY DEF BankSize, Cell
<1>4. Sector(o) * 4096 = (IF o = 0 THEN 0 ELSE 20480)
  BY <1>1, <1>2
<1> DEFINE n == Sector(o) * 4096 + BankSize * b
<1>5. Sector(n) = IF o = 0 THEN (IF b = 0 THEN 0 ELSE 16) ELSE (IF b = 0 THEN 5 ELSE 21)
  <2>1. n = IF o = 0 THEN (IF b = 0 THEN 0 ELSE 65536) ELSE (IF b = 0 THEN 20480 ELSE 86016)
    BY <1>1, <1>3, <1>4
  <2> HIDE DEF n
  <2> QED
    BY <1>2, <2>1
<1> HIDE DEF n
<1>6. Sector(p) = Sector(n) <=> p = Cell(b, o)
  BY <1>1, <1>2, <1>3, <1>5
<1> QED
  BY <1>6 DEF n

LEMMA StepSector ==
  ASSUME FlashGame, type = "flash", flash.pos = 2, flash.mode = "erase", NEW o \in Offsets,
         script = Operation(<<SectorByte(o)>>, Wipe(flash.bank, o))
  PROVE  FlashStep
<1>0. /\ FlashOK(flash) /\ flash.bank \in {0, 1} /\ flash.cnt \in {1, 2}
      /\ game \in Large => flash.cnt = 2
      /\ game \notin Large => flash.bank = 0
      /\ game \in Games /\ Sent(Tail(script.todo)) /\ Kind[game] = "flash"
  BY FlashGameForm, Zenon DEF FlashGame
<1> DEFINE a == Sector(o) * 4096
<1>1. script.todo = <<SectorByte(o)>> /\ script.goal = Wipe(flash.bank, o)
  BY Zenon DEF Operation
<1>2. Head(script.todo) = Byte(a, 48) /\ Tail(script.todo) = <<>>
  <2>1. Head(<<SectorByte(o)>>) = SectorByte(o) /\ Tail(<<SectorByte(o)>>) = <<>>
    BY Bytes, SingleForm
  <2>2. SectorByte(o) = Byte(a, 48)
    BY Zenon DEF SectorByte
  <2> HIDE DEF a
  <2>3. Head(script.todo) = Byte(a, 48)
    BY <1>1, <2>1, <2>2
  <2> QED
    BY <1>1, <2>1, <2>3
<1>3. a # Unlock1 /\ InBank(a) = a + BankSize * flash.bank
  <2>1. Sector(o) \in {0, 5}
    BY Facts
  <2> QED
    BY <2>1 DEF Unlock1, InBank
<1>4. ByteDone(Effect("flash", a, 48))
  <2> HIDE DEF a
  <2>1. ByteDone(Effect(IF type = "unkn" THEN "sram" ELSE type, a, 48))
    BY <1>2, ByteSent DEF FlashGame
  <2> QED
    BY <2>1
<1>5. Effect("flash", a, 48) = Did("flash", Bare("base", 0, flash.bank), Swept(a))
  <2> HIDE DEF a
  <2> QED
    BY <1>0, <1>3, EffectSector
<1>6. /\ type' = "flash" /\ flash' = FlashOf("base", 0, flash.bank, flash.cnt)
      /\ backup' = Put(backup, Swept(a)) /\ dirty' = TRUE
  <2> HIDE DEF a
  <2>1. ByteDone(Did("flash", Bare("base", 0, flash.bank), Swept(a)))
    BY <1>4, <1>5, Zenon
  <2> QED
    BY <2>1, DoneForm, Zenon DEF Bare
<1>7. script' = Idle
  <2>1. script' = IF Tail(script.todo) = <<>> THEN Idle ELSE Operation(Tail(script.todo), script.goal)
    BY <1>0, Zenon DEF Sent
  <2>2. Tail(script.todo) = <<>>
    BY <1>2, Zenon
  <2> QED
    BY <2>1, <2>2
<1>8. KeptCells(Wipe(flash.bank, o))
  <2>1. \A p \in Cells(game) : Sector(p) = Sector(InBank(a)) <=> p = Cell(flash.bank, o)
    BY <1>0, <1>3, SectorCells
  <2> HIDE DEF a
  <2>2. Cells(game) \subseteq Places
    BY <1>0, Facts
  <2> QED
    BY <1>6, <2>1, <2>2 DEF KeptCells, Put, Erased, Swept, Wipe
<1> QED
  BY <1>0, <1>1, <1>2, <1>6, <1>7, <1>8, StepEnds

LEMMA StepProgram ==
  ASSUME FlashGame, type = "flash", flash.pos = 0, flash.mode = "write", NEW o \in Offsets, NEW v \in Values,
         script = Operation(<<Byte(o, v)>>, Holding(Cell(flash.bank, o), v))
  PROVE  FlashStep
<1>0. /\ FlashOK(flash) /\ flash.bank \in {0, 1} /\ flash.cnt \in {1, 2}
      /\ game \in Large => flash.cnt = 2
      /\ game \notin Large => flash.bank = 0
      /\ game \in Games /\ Sent(Tail(script.todo))
  BY FlashGameForm, Zenon DEF FlashGame
<1> DEFINE p == Cell(flash.bank, o)
<1>1. script.todo = <<Byte(o, v)>> /\ script.goal = Holding(p, v)
  BY Zenon DEF Operation
<1>2. Head(script.todo) = Byte(o, v) /\ Tail(script.todo) = <<>>
  <2>1. Head(<<Byte(o, v)>>) = Byte(o, v) /\ Tail(<<Byte(o, v)>>) = <<>>
    BY Bytes, SingleForm
  <2> QED
    BY <1>1, <2>1, Zenon
<1>3. InBank(o) = p
  BY <1>0, Facts DEF InBank, Cell, BankSize
<1> HIDE DEF p
<1>4. ByteDone(Effect("flash", o, v))
  <2>1. ByteDone(Effect(IF type = "unkn" THEN "sram" ELSE type, o, v))
    BY <1>2, ByteSent DEF FlashGame
  <2> QED
    BY <2>1
<1>5. Effect("flash", o, v) = Did("flash", Bare("base", 0, flash.bank), Holding(p, v))
  BY <1>0, <1>3, EffectProgram
<1>6. /\ type' = "flash" /\ flash' = FlashOf("base", 0, flash.bank, flash.cnt)
      /\ backup' = Put(backup, Holding(p, v)) /\ dirty' = TRUE
  <2>1. ByteDone(Did("flash", Bare("base", 0, flash.bank), Holding(p, v)))
    BY <1>4, <1>5, Zenon
  <2> QED
    BY <2>1, DoneForm, Zenon DEF Bare
<1>7. script' = Idle
  <2>1. script' = IF Tail(script.todo) = <<>> THEN Idle ELSE Operation(Tail(script.todo), script.goal)
    BY <1>0, Zenon DEF Sent
  <2>2. Tail(script.todo) = <<>>
    BY <1>2, Zenon
  <2> QED
    BY <2>1, <2>2
<1>8. KeptCells(Holding(p, v))
  <2>1. Cells(game) \subseteq Places
    BY <1>0, Facts
  <2> QED
    BY <1>6, <2>1 DEF KeptCells, Put, Holding
<1> QED
  BY <1>0, <1>1, <1>2, <1>6, <1>7, <1>8, StepEnds

LEMMA StepBank ==
  ASSUME FlashGame, type = "flash", flash.pos = 0, flash.mode = "bank", game \in Large,
         NEW b \in {0, 1}, NEW op \in InBankOps(b),
         script = Operation(After(Byte(0, b), Unlocked(op.todo)), op.goal)
  PROVE  FlashStep
<1>0. /\ FlashOK(flash) /\ flash.cnt = 2 /\ game \in Games /\ Sent(Tail(script.todo))
  BY FlashGameForm, Zenon DEF FlashGame
<1> DEFINE rest == Unlocked(op.todo)
<1>1. script.todo = After(Byte(0, b), rest) /\ script.goal = op.goal
  BY Zenon DEF Operation
<1>2. Head(script.todo) = Byte(0, b) /\ Tail(script.todo) = rest /\ rest # <<>>
  <2>1. op.todo \in Lists
    BY InBankForms DEF IsScript
  <2>2. rest \in Lists /\ rest # <<>> /\ Byte(0, b) \in Items
    BY <2>1, UnlockedForm, Bytes
  <2> HIDE DEF rest
  <2>3. Head(After(Byte(0, b), rest)) = Byte(0, b) /\ Tail(After(Byte(0, b), rest)) = rest
    BY <2>2, AfterForm
  <2> QED
    BY <1>1, <2>2, <2>3, Zenon
<1>4. ByteDone(Effect("flash", 0, b))
  <2>1. ByteDone(Effect(IF type = "unkn" THEN "sram" ELSE type, 0, b))
    BY <1>2, ByteSent DEF FlashGame
  <2> QED
    BY <2>1
<1>5. Effect("flash", 0, b) = Did("flash", Bare("base", 0, b), Nothing)
  <2>1. b % 2 = b
    OBVIOUS
  <2>2. Effect("flash", 0, b) = Did("flash", Bare("base", 0, b % 2), Nothing)
    BY <1>0, EffectBank
  <2> QED
    BY <2>1, <2>2
<1>6. /\ type' = "flash" /\ flash' = FlashOf("base", 0, b, flash.cnt)
      /\ backup' = Put(backup, Nothing) /\ dirty' = TRUE
  <2>1. ByteDone(Did("flash", Bare("base", 0, b), Nothing))
    BY <1>4, <1>5, Zenon
  <2> QED
    BY <2>1, DoneForm, Zenon DEF Bare
<1>7. script' = Operation(rest, op.goal)
  <2> HIDE DEF rest
  <2> QED
    BY <1>0, <1>1, <1>2 DEF Sent
<1>8. Locked(op, script')
  BY <1>7, Zenon DEF Locked
<1>9. op \in Orders(game, "base", b)
  BY DEF Orders, BaseOps
<1>10. FlashWaits(game, type', flash', script')
  <2>1. flash.cnt \in {1, 2}
    BY <1>0
  <2> QED
    BY <1>0, <1>6, <1>8, <1>9, <2>1, Modes, WaitsIntro
<1>11. KeptCells(Nothing)
  BY <1>6, NoneTouched, Zenon
<1> HIDE DEF rest
<1> QED
  BY <1>2, <1>6, <1>10, <1>11 DEF FlashStep

(* Whatever a flash game sends of an operation, the chip goes along.        *)
LEMMA FlashSend ==
  ASSUME TypeInv, game \in Games, Kind[game] = "flash", Send, FlashWaits(game, type, flash, script)
  PROVE  FlashStep /\ (game \in Large => flash'.cnt = 2)
<1> SUFFICES FlashStep
  BY DEF FlashStep, FlashWaits
<1>1. /\ FlashGame /\ type # "eeprom" /\ flash.mode \in FlashModes
      /\ flash.pos # 0 \/ flash.mode # "base" => type = "flash"
  BY FlashFields DEF FlashGame, FlashWaits, TypeInv, RegsOK
<1>2. script # Idle
  BY DEF Send, Idle
<1>3. CASE flash.pos = 0 /\ \E op \in Orders(game, flash.mode, flash.bank) : Locked(op, script)
  BY <1>1, <1>3, StepLocked
<1>4. CASE flash.pos = 1 /\ \E op \in Orders(game, flash.mode, flash.bank) : HalfLocked(op, script)
  BY <1>1, <1>4, StepHalfLocked
<1>5. CASE flash.pos = 2 /\ script \in Orders(game, flash.mode, flash.bank)
  <2>1. CASE flash.mode = "base"
    BY <1>1, <1>5, <2>1, StepBase DEF Orders
  <2>2. CASE flash.mode = "erase"
    <3>1. \/ \E o \in Offsets : script = Operation(<<SectorByte(o)>>, Wipe(flash.bank, o))
          \/ script = Operation(Order(CmdChip, <<>>), Erased(Cells(game)))
      BY <1>5, <2>2 DEF Orders, EraseOps
    <3> QED
      BY <1>1, <1>5, <2>2, <3>1, StepSector, StepChip
  <2>3. CASE flash.mode = "id"
    BY <1>1, <1>5, <2>3, StepLeave DEF Orders
  <2> QED
    BY <1>5, <2>1, <2>2, <2>3 DEF Orders
<1>6. CASE /\ flash.pos = 0 /\ flash.mode = "write"
           /\ \E o \in Offsets, v \in Values :
                script = Operation(<<Byte(o, v)>>, Holding(Cell(flash.bank, o), v))
  BY <1>1, <1>6, StepProgram
<1>7. CASE /\ flash.pos = 0 /\ flash.mode = "bank" /\ game \in Large
           /\ \E b \in {0, 1} : \E op \in InBankOps(b) :
                script = Operation(After(Byte(0, b), Unlocked(op.todo)), op.goal)
  BY <1>1, <1>7, StepBank
<1> QED
  BY <1>2, <1>3, <1>4, <1>5, <1>6, <1>7, Zenon DEF FlashWaits

-----------------------------------------------------------------------------
(* The other chips. *)

LEMMA SramSend ==
  ASSUME TypeInv, game \in Games, Kind[game] = "sram", Send, SramWaits(type, flash, script)
  PROVE  /\ SramWaits(type', flash', script') /\ type' = "sram" /\ dirty' = TRUE
         /\ Tail(script.todo) = <<>> /\ KeptCells(script.goal)
<1>0. FlashOK(flash) /\ IsScript(script)
  BY DEF TypeInv, RegsOK
<1>a. Sent(Tail(script.todo)) /\ script.todo # <<>>
  BY <1>0, SentForm
<1>1. script \in SramOperations /\ flash.mode = "base" /\ flash.pos = 0 /\ type \in {"unkn", "sram"}
  BY <1>a DEF SramWaits, Idle
<1>2. PICK o \in Offsets, v \in Values :
        (o # Unlock1 \/ v # 170) /\ script = Operation(<<Byte(o, v)>>, Holding(o, v))
  BY <1>1, SramForms
<1>3. script.todo = <<Byte(o, v)>> /\ script.goal = Holding(o, v)
  BY <1>2, Zenon DEF Operation
<1>4. Head(script.todo) = Byte(o, v) /\ Tail(script.todo) = <<>>
  <2>1. Head(<<Byte(o, v)>>) = Byte(o, v) /\ Tail(<<Byte(o, v)>>) = <<>>
    BY Bytes, SingleForm
  <2> QED
    BY <1>3, <2>1, Zenon
<1>5. ByteDone(Effect("sram", o, v))
  <2>1. ByteDone(Effect(IF type = "unkn" THEN "sram" ELSE type, o, v))
    BY <1>1, <1>4, ByteSent
  <2>2. (IF type = "unkn" THEN "sram" ELSE type) = "sram"
    BY <1>1
  <2> QED
    BY <2>1, <2>2
<1>6. Effect("sram", o, v) = Did("sram", flash, Holding(o, v))
  <2>1. Stored("sram", o, v) = Holding(o, v)
    BY DEF Stored, Holding
  <2>2. Effect("sram", o, v) = Did("sram", flash, Stored("sram", o, v))
    BY <1>0, <1>1, <1>2, EffectStore
  <2> QED
    BY <2>1, <2>2, Zenon
<1>7. type' = "sram" /\ flash' = flash /\ backup' = Put(backup, Holding(o, v)) /\ dirty' = TRUE
  <2>1. ByteDone(Did("sram", flash, Holding(o, v)))
    BY <1>5, <1>6, Zenon
  <2> QED
    BY <2>1, DoneForm, Zenon
<1>8. script' = Idle
  <2>1. script' = IF Tail(script.todo) = <<>> THEN Idle ELSE Operation(Tail(script.todo), script.goal)
    BY <1>a, Zenon DEF Sent
  <2>2. Tail(script.todo) = <<>>
    BY <1>4, Zenon
  <2> QED
    BY <2>1, <2>2
<1>9. KeptCells(Holding(o, v))
  <2>1. Cells(game) \subseteq Places
    BY Facts
  <2> QED
    BY <1>7, <2>1 DEF KeptCells, Put, Holding
<1> QED
  BY <1>1, <1>3, <1>4, <1>7, <1>8, <1>9 DEF SramWaits

EepromStep ==
  /\ EepromWaits(game, type', eeprom', script')
  /\ KeptCells(IF Tail(script.todo) = <<>> THEN script.goal ELSE Nothing)
  /\ \/ dirty' = TRUE /\ type' = "eeprom" /\ (game \in Large => eeprom'.size = 16)
     \/ /\ dirty' = dirty
        /\ Tail(script.todo) = <<>> => script.goal = Nothing
        /\ type = "eeprom" => type' = "eeprom"
        /\ eeprom.size = 16 => eeprom'.size = 16

LEMMA EepromSend ==
  ASSUME TypeInv, game \in Games, Kind[game] \notin {"sram", "flash"}, Send,
         EepromWaits(game, type, eeprom, script)
  PROVE  EepromStep
<1>0. EepromOK(eeprom) /\ IsScript(script) /\ Cells(game) \subseteq Places /\ backup \in Bytes8
  BY Facts DEF TypeInv, RegsOK
<1>a. Sent(Tail(script.todo)) /\ script.todo # <<>> /\ script # Idle
  BY <1>0, SentForm DEF Idle
<1>b. script' = IF Tail(script.todo) = <<>> THEN Idle ELSE Operation(Tail(script.todo), script.goal)
  BY <1>a, Zenon DEF Sent
<1>1. ASSUME NEW a \in Cells(game), NEW v \in Values, eeprom.mode = "base",
             script = Operation(<<Block("write", a, v)>>, Holding(a, v))
      PROVE  EepromStep
  <2>1. script.todo = <<Block("write", a, v)>> /\ script.goal = Holding(a, v)
    BY <1>1, Zenon DEF Operation
  <2>2. Head(script.todo) = Block("write", a, v) /\ Tail(script.todo) = <<>>
    <3>1. Block("write", a, v) \in Items
      BY BlockForms
    <3>2. Head(<<Block("write", a, v)>>) = Block("write", a, v) /\ Tail(<<Block("write", a, v)>>) = <<>>
      BY <3>1, SingleForm
    <3> QED
      BY <2>1, <3>2, Zenon
  <2>3. EepromWrite(a, v)
    <3>1. Block("write", a, v).op = "write" /\ Block("write", a, v).at = a /\ Block("write", a, v).value = v
      BY DEF Block
    <3> QED
      BY <2>2, <3>1 DEF Send
  <2>4. /\ type' = "eeprom" /\ eeprom' = [eeprom EXCEPT !.size = Learned, !.at = 0]
        /\ backup' = Put(backup, Holding(a, v)) /\ dirty' = TRUE
    BY <1>1, <2>3, Zenon DEF EepromWrite, Holding
  <2>5. eeprom'.mode = "base" /\ (game \in Large => eeprom'.size = 16)
    BY <1>0, <1>1, <2>4 DEF Learned, EepromOK
  <2>6. script' = Idle
    BY <1>b, <2>2
  <2>7. KeptCells(Holding(a, v))
    BY <1>0, <2>4 DEF KeptCells, Put, Holding
  <2> QED
    BY <2>1, <2>2, <2>4, <2>5, <2>6, <2>7 DEF EepromStep, EepromWaits
<1>2. ASSUME NEW a \in Cells(game), eeprom.mode = "base",
             script = Operation(<<Block("request", a, 0), Block("read", a, 0)>>, Nothing)
      PROVE  EepromStep
  <2> DEFINE r == Block("request", a, 0)
             rest == <<Block("read", a, 0)>>
  <2>1. script.todo = <<r, Block("read", a, 0)>> /\ script.goal = Nothing
    BY <1>2, Zenon DEF Operation
  <2>2. Head(script.todo) = r /\ Tail(script.todo) = rest /\ rest # <<>>
    <3>1. /\ Head(<<r, Block("read", a, 0)>>) = r /\ Tail(<<r, Block("read", a, 0)>>) = rest
          /\ rest # <<>>
      BY RequestForm
    <3> QED
      BY <2>1, <3>1, Zenon
  <2>3. EepromRequest(a)
    <3>1. r.op = "request" /\ r.at = a
      BY DEF Block
    <3> QED
      BY <2>2, <3>1 DEF Send
  <2>4. /\ type' = "eeprom" /\ eeprom' = [size |-> Learned, mode |-> "header", at |-> a]
        /\ backup' = backup /\ dirty' = dirty
    BY <1>2, <2>3 DEF EepromRequest
  <2>5. eeprom'.mode = "header" /\ (eeprom.size = 16 => eeprom'.size = 16)
    BY <2>4 DEF Learned
  <2>6. script' = Operation(rest, Nothing)
    <3> HIDE DEF rest
    <3> QED
      BY <1>b, <2>1, <2>2
  <2>7. KeptCells(Nothing)
    BY <2>4 DEF KeptCells, Nothing
  <2>8. EepromWaits(game, type', eeprom', script')
    BY <2>4, <2>5, <2>6, Zenon DEF EepromWaits
  <2> HIDE DEF rest, r
  <2> QED
    BY <2>2, <2>4, <2>5, <2>7, <2>8 DEF EepromStep
<1>3. ASSUME NEW a \in Cells(game), eeprom.mode = "header", type = "eeprom",
             script = Operation(<<Block("read", a, 0)>>, Nothing)
      PROVE  EepromStep
  <2> DEFINE x == Block("read", a, 0)
  <2>1. script.todo = <<x>> /\ script.goal = Nothing
    BY <1>3, Zenon DEF Operation
  <2>2. Head(script.todo) = x /\ Tail(script.todo) = <<>>
    <3>1. Head(<<x>>) = x /\ Tail(<<x>>) = <<>>
      BY BlockForms, SingleForm
    <3> QED
      BY <2>1, <3>1, Zenon
  <2>3. EepromRead
    <3>1. x.op = "read"
      BY DEF Block
    <3> QED
      BY <2>2, <3>1 DEF Send
  <2> HIDE DEF x
  <2>4. /\ type' = "eeprom" /\ eeprom' = [eeprom EXCEPT !.mode = "base"]
        /\ backup' = backup /\ dirty' = dirty
    BY <1>3, <2>3 DEF EepromRead
  <2>5. eeprom'.mode = "base" /\ eeprom'.size = eeprom.size
    BY <1>0, <2>4 DEF EepromOK
  <2>6. script' = Idle
    BY <1>b, <2>2
  <2>7. KeptCells(Nothing)
    BY <2>4 DEF KeptCells, Nothing
  <2> QED
    BY <2>1, <2>2, <2>4, <2>5, <2>6, <2>7 DEF EepromStep, EepromWaits
<1> QED
  BY <1>a, <1>1, <1>2, <1>3, Zenon DEF EepromWaits

-----------------------------------------------------------------------------
(* The bytes of a save. *)

(* What the theorems about them ask of a library: savestates are made once   *)
(* the chip is known, no two games have one name, and a flash of two banks   *)
(* is recognised when its game is loaded.                                    *)
Apart ==
  /\ ~EarlyStates
  /\ \A g, h \in Games : Stem[g] = Stem[h] => g = h
  /\ \A g \in Large : Kind[g] = "flash" => g \in Detected

LEMMA SaveInit == Init => SaveInv
<1> SUFFICES ASSUME Init PROVE SaveInv
  OBVIOUS
<1>1. ~Playing
  BY DEF Init, Playing
<1>2. StatesWait
  <2>1. \A g \in Games : Stem[g] \in Names /\ states[Stem[g]] = NoState
    BY DEF Init, Names
  <2> QED
    BY <2>1 DEF StatesWait, NoState
<1>3. SaveKept
  <2>1. \A g \in Games : Stem[g] \in Names /\ file[Stem[g]] = NoFile /\ saved[g] = Empty
    BY DEF Init, Names
  <2>2. NoFile.data = Empty
    BY DEF NoFile
  <2> QED
    BY <2>1, <2>2 DEF SaveKept
<1> QED
  BY <1>1, <1>2, <1>3 DEF SaveInv, ChipWaits, DirtySized, CleanKept, LiveSave

(* Between two operations the chip is at rest.                               *)
LEMMA AtRest ==
  ASSUME NEW g \in Games, NEW t, NEW f, f.bank \in {0, 1}, NEW e, NEW sc,
         Waits(g, t, f, e, sc), sc.todo = <<>>
  PROVE  /\ sc = Idle
         /\ Kind[g] = "flash" => f.pos = 0 /\ f.mode = "base"
         /\ Kind[g] \notin {"sram", "flash"} => e.mode = "base"
<1>1. CASE Kind[g] = "sram"
  BY <1>1, SramForms DEF Waits, SramWaits
<1>2. CASE Kind[g] = "flash"
  <2>1. FlashWaits(g, t, f, sc)
    BY <1>2 DEF Waits
  <2>2. ASSUME NEW op \in Orders(g, f.mode, f.bank), Locked(op, sc) \/ HalfLocked(op, sc) \/ sc = op
        PROVE  FALSE
    <3>1. IsScript(op) /\ op.todo # <<>>
      BY OrdersForms
    <3>2. op.todo \in Lists
      BY <3>1 DEF IsScript
    <3>3. Unlocked(op.todo) # <<>> /\ After(Byte(Unlock2, 85), op.todo) # <<>>
      BY <3>2, UnlockedForm
    <3> QED
      BY <2>2, <3>1, <3>3 DEF Locked, HalfLocked, Operation
  <2>3. ASSUME NEW o \in Offsets, NEW v \in Values,
               sc = Operation(<<Byte(o, v)>>, Holding(Cell(f.bank, o), v))
        PROVE  FALSE
    <3>1. <<Byte(o, v)>> # <<>>
      BY Bytes, SingleForm
    <3> QED
      BY <2>3, <3>1, Zenon DEF Operation
  <2>4. ASSUME NEW b \in {0, 1}, NEW op \in InBankOps(b),
               sc = Operation(After(Byte(0, b), Unlocked(op.todo)), op.goal)
        PROVE  FALSE
    <3>1. op.todo \in Lists
      BY InBankForms DEF IsScript
    <3>2. Unlocked(op.todo) \in Lists /\ Byte(0, b) \in Items
      BY <3>1, UnlockedForm, Bytes
    <3>3. After(Byte(0, b), Unlocked(op.todo)) # <<>>
      BY <3>2, AfterForm
    <3> QED
      BY <2>4, <3>3, Zenon DEF Operation
  <2>5. f.pos = 0 /\ f.mode = "base" /\ sc = Idle
    BY <2>1, <2>2, <2>3, <2>4, Zenon DEF FlashWaits
  <2> QED
    BY <1>2, <2>5
<1>3. CASE Kind[g] \notin {"sram", "flash"}
  <2>1. EepromWaits(g, t, e, sc)
    BY <1>3 DEF Waits
  <2>2. ASSUME NEW a \in Cells(g), NEW v \in Values,
               sc = Operation(<<Block("write", a, v)>>, Holding(a, v))
        PROVE  FALSE
    <3>1. <<Block("write", a, v)>> # <<>>
      BY BlockForms, SingleForm
    <3> QED
      BY <2>2, <3>1, Zenon DEF Operation
  <2>3. ASSUME NEW a \in Cells(g),
               sc = Operation(<<Block("request", a, 0), Block("read", a, 0)>>, Nothing)
        PROVE  FALSE
    <3>1. <<Block("request", a, 0), Block("read", a, 0)>> # <<>>
      BY RequestForm
    <3> QED
      BY <2>3, <3>1, Zenon DEF Operation
  <2>4. ASSUME NEW a \in Cells(g), sc = Operation(<<Block("read", a, 0)>>, Nothing)
        PROVE  FALSE
    <3>1. <<Block("read", a, 0)>> # <<>>
      BY RequestForm
    <3> QED
      BY <2>4, <3>1, Zenon DEF Operation
  <2>5. e.mode = "base" /\ sc = Idle
    BY <2>1, <2>2, <2>3, <2>4, Zenon DEF EepromWaits
  <2> QED
    BY <1>3, <2>5
<1> QED
  BY <1>1, <1>2, <1>3

(* Whatever game is running, the parts of the invariant about it.           *)
GameInv ==
  /\ Waits(game, type, flash, eeprom, script)
  /\ dirty => Sized(game, type, flash, eeprom)
  /\ ~dirty => \A p \in Cells(game) : file[Stem[game]].data[p] = saved[game][p]
  /\ loaded => \A p \in Cells(game) : backup[p] = saved[game][p]

LEMMA SaveParts ==
  /\ SaveInv => (Playing => GameInv) /\ StatesWait /\ SaveKept
  /\ (Playing => GameInv) /\ StatesWait /\ SaveKept => SaveInv
BY Zenon DEF SaveInv, GameInv, ChipWaits, DirtySized, CleanKept, LiveSave

LEMMA SavePartsNext ==
  /\ (Playing => GameInv)' /\ StatesWait' /\ SaveKept' => SaveInv'
BY Zenon DEF SaveInv, GameInv, ChipWaits, DirtySized, CleanKept, LiveSave

LEMMA StatesSame ==
  ASSUME StatesWait, states' = states
  PROVE  StatesWait'
BY DEF StatesWait, Waits, Sized, SramWaits, FlashWaits, EepromWaits

LEMMA SaveSend ==
  ASSUME TypeInv, SaveInv, Send
  PROVE  SaveInv'
<1>0. /\ game \in Games /\ IsScript(script) /\ Playing /\ GameInv /\ StatesWait /\ SaveKept
      /\ saved \in [Games -> Bytes8] /\ backup \in Bytes8 /\ RegsOK(type, flash, eeprom)
  BY SaveParts DEF Send, Playing, TypeInv
<1>1. Sent(Tail(script.todo))
  BY <1>0, SentForm
<1> DEFINE goal == IF Tail(script.todo) = <<>> THEN script.goal ELSE Nothing
<1>2. /\ game' = game /\ states' = states /\ file' = file /\ loaded' = loaded
      /\ saved' = IF Tail(script.todo) = <<>> THEN [saved EXCEPT ![game] = Put(@, script.goal)] ELSE saved
  BY <1>1, Zenon DEF Sent
<1>3. \A p \in Cells(game) : saved'[game][p] = IF p \in DOMAIN goal THEN goal[p] ELSE saved[game][p]
  <2>1. CASE Tail(script.todo) = <<>>
    <3>1. saved'[game] = Put(saved[game], script.goal)
      BY <1>0, <1>2, <2>1
    <3> QED
      BY <1>0, <2>1, <3>1, Facts DEF Put
  <2>2. CASE Tail(script.todo) # <<>>
    BY <1>2, <2>2 DEF Nothing
  <2> QED
    BY <2>1, <2>2
<1>4. \A h \in Games \ {game} : saved'[h] = saved[h]
  BY <1>0, <1>2
<1> HIDE DEF goal
<1>5. /\ Waits(game, type', flash', eeprom', script')
      /\ KeptCells(goal)
      /\ dirty' => Sized(game, type', flash', eeprom')
      /\ ~dirty' => ~dirty /\ goal = Nothing
  <2>1. CASE Kind[game] = "sram"
    <3>1. SramWaits(type, flash, script)
      BY <1>0, <2>1 DEF GameInv, Waits
    <3>2. /\ SramWaits(type', flash', script') /\ type' = "sram" /\ dirty' = TRUE
          /\ Tail(script.todo) = <<>> /\ KeptCells(script.goal)
      BY <1>0, <2>1, <3>1, SramSend
    <3> QED
      BY <2>1, <3>2 DEF Waits, Sized, goal
  <2>2. CASE Kind[game] = "flash"
    <3>1. FlashWaits(game, type, flash, script)
      BY <1>0, <2>2 DEF GameInv, Waits
    <3>2. /\ FlashWaits(game, type', flash', script') /\ type' = "flash" /\ dirty' = TRUE
          /\ KeptCells(goal) /\ (game \in Large => flash'.cnt = 2)
      BY <1>0, <2>2, <3>1, FlashSend, Zenon DEF FlashStep, goal
    <3> QED
      BY <2>2, <3>2 DEF Waits, Sized
  <2>3. CASE Kind[game] \notin {"sram", "flash"}
    <3>0. Kind[game] = "eeprom"
      BY <1>0, <2>3, Facts DEF Kinds
    <3>1. EepromWaits(game, type, eeprom, script)
      BY <1>0, <2>3 DEF GameInv, Waits
    <3>2. EepromStep
      BY <1>0, <2>3, <3>1, EepromSend
    <3>3. KeptCells(goal) /\ Waits(game, type', flash', eeprom', script')
      BY <2>3, <3>2 DEF EepromStep, Waits, goal
    <3>4. dirty => Sized(game, type, flash, eeprom)
      BY <1>0 DEF GameInv
    <3>5. /\ \/ dirty' = TRUE /\ type' = "eeprom" /\ (game \in Large => eeprom'.size = 16)
             \/ /\ dirty' = dirty
                /\ goal = Nothing
                /\ type = "eeprom" => type' = "eeprom"
                /\ eeprom.size = 16 => eeprom'.size = 16
      BY <3>2, Zenon DEF EepromStep, goal
    <3> QED
      BY <3>0, <3>3, <3>4, <3>5 DEF Sized
  <2> QED
    BY <2>1, <2>2, <2>3
<1>6. GameInv'
  <2>1. loaded' => \A p \in Cells(game) : backup'[p] = saved'[game][p]
    BY <1>0, <1>2, <1>3, <1>5 DEF GameInv, KeptCells
  <2>2. ~dirty' => \A p \in Cells(game) : file'[Stem[game]].data[p] = saved'[game][p]
    <3> SUFFICES ASSUME ~dirty' PROVE \A p \in Cells(game) : file'[Stem[game]].data[p] = saved'[game][p]
      OBVIOUS
    <3>1. ~dirty /\ goal = Nothing
      BY <1>5
    <3>2. \A p \in Cells(game) : saved'[game][p] = saved[game][p]
      BY <1>3, <3>1 DEF Nothing
    <3> QED
      BY <1>0, <1>2, <3>1, <3>2 DEF GameInv
  <2> QED
    BY <1>2, <1>5, <2>1, <2>2 DEF GameInv
<1>7. SaveKept'
  BY <1>0, <1>2, <1>4 DEF SaveKept, Cells
<1>8. StatesWait'
  BY <1>0, <1>2, StatesSame
<1> QED
  BY <1>6, <1>7, <1>8, SavePartsNext

LEMMA SaveBoot ==
  ASSUME TypeInv, SaveInv, Apart, NEW g \in Games, Boot(g)
  PROVE  SaveInv'
<1>0. ~Playing /\ StatesWait /\ SaveKept
  BY SaveParts DEF Boot
<1>1. /\ game' = g /\ eeprom' = ResetEeprom /\ dirty' = FALSE /\ script' = Idle
      /\ states' = states /\ file' = file /\ saved' = saved
      /\ type' = (IF g \in Detected THEN Kind[g] ELSE "unkn")
      /\ loaded' => backup' = file[Stem[g]].data
  BY DEF Boot
<1>2. /\ flash'.mode = "base" /\ flash'.pos = 0 /\ flash'.bank = 0
      /\ Kind[g] = "flash" /\ g \in Large => flash'.cnt = 2
  BY DEF Boot, ResetFlash, Apart
<1>3. \A p \in Cells(g) : file[Stem[g]].data[p] = saved[g][p]
  <2>1. g # game
    BY <1>0, Facts DEF Playing
  <2> QED
    BY <1>0, <2>1 DEF SaveKept
<1>4. Waits(g, type', flash', eeprom', script')
  <2>1. type' # "eeprom" \/ Kind[g] = "eeprom"
    BY <1>1
  <2>2. Kind[g] \in {"sram", "flash", "eeprom"}
    BY Facts DEF Kinds
  <2>3. CASE Kind[g] = "sram"
    BY <1>1, <1>2, <2>3 DEF Waits, SramWaits
  <2>4. CASE Kind[g] = "flash"
    BY <1>1, <1>2, <2>1, <2>4, Zenon DEF Waits, FlashWaits
  <2>5. CASE Kind[g] = "eeprom"
    <3>1. eeprom'.mode = "base"
      BY <1>1 DEF ResetEeprom
    <3> QED
      BY <1>1, <2>5, <3>1 DEF Waits, EepromWaits
  <2> QED
    BY <2>2, <2>3, <2>4, <2>5
<1>5. GameInv'
  <2>1. loaded' => \A p \in Cells(g) : backup'[p] = saved'[g][p]
    BY <1>1, <1>3
  <2>2. ~dirty' => \A p \in Cells(g) : file'[Stem[g]].data[p] = saved'[g][p]
    BY <1>1, <1>3
  <2> QED
    BY <1>1, <1>4, <2>1, <2>2 DEF GameInv
<1>6. SaveKept'
  <2>1. \A h \in Games : h # game
    BY <1>0, Facts DEF Playing
  <2> QED
    BY <1>0, <1>1, <2>1 DEF SaveKept, Cells
<1>7. StatesWait'
  BY <1>0, <1>1, StatesSame
<1> QED
  BY <1>5, <1>6, <1>7, SavePartsNext

(* What an idle chip waits for when its game begins an operation.           *)
LEMMA BeginWaits ==
  ASSUME game \in Games, RegsOK(type, flash, eeprom), Waits(game, type, flash, eeprom, script),
         script.todo = <<>>, NEW sc \in Operations
  PROVE  Waits(game, type, flash, eeprom, sc)
<1>0. flash.bank \in {0, 1}
  BY FlashFields DEF RegsOK
<1>1. /\ Kind[game] = "flash" => flash.pos = 0 /\ flash.mode = "base"
      /\ Kind[game] \notin {"sram", "flash"} => eeprom.mode = "base"
  BY <1>0, AtRest
<1>2. CASE Kind[game] = "sram"
  BY <1>2 DEF Waits, SramWaits, Operations
<1>3. CASE Kind[game] = "flash"
  <2>1. FlashWaits(game, type, flash, script)
    BY <1>3 DEF Waits
  <2>2. game \notin Large => flash.bank = 0
    BY <2>1 DEF FlashWaits
  <2>3. PICK op \in BaseOps(game, flash.bank) : Locked(op, sc)
    BY <1>0, <1>3, <2>2, FlashForms
  <2>4. op \in Orders(game, flash.mode, flash.bank)
    BY <1>1, <1>3 DEF Orders
  <2>5. FlashWaits(game, type, flash, sc)
    BY <1>1, <1>3, <2>1, <2>3, <2>4, Zenon DEF FlashWaits
  <2> QED
    BY <1>3, <2>5 DEF Waits
<1>4. CASE Kind[game] \notin {"sram", "flash"}
  <2>1. EepromWaits(game, type, eeprom, script)
    BY <1>4 DEF Waits
  <2>2. sc \in EepromOperations
    <3>1. Kind[game] # "sram" /\ Kind[game] # "flash"
      BY <1>4
    <3> QED
      BY <3>1 DEF Operations
  <2>3. \/ \E a \in Cells(game), v \in Values :
             sc = Operation(<<Block("write", a, v)>>, Holding(a, v))
        \/ \E a \in Cells(game) :
             sc = Operation(<<Block("request", a, 0), Block("read", a, 0)>>, Nothing)
    BY <2>2 DEF EepromOperations
  <2>4. EepromWaits(game, type, eeprom, sc)
    BY <1>1, <1>4, <2>1, <2>3, Zenon DEF EepromWaits
  <2> QED
    BY <1>4, <2>4 DEF Waits
<1> QED
  BY <1>2, <1>3, <1>4

LEMMA SaveBegin ==
  ASSUME TypeInv, SaveInv, Begin
  PROVE  SaveInv'
<1>0. /\ game \in Games /\ GameInv /\ StatesWait /\ SaveKept /\ RegsOK(type, flash, eeprom)
      /\ script.todo = <<>>
  BY SaveParts DEF Begin, Playing, TypeInv
<1>1. /\ script' \in Operations /\ type' = type /\ flash' = flash /\ eeprom' = eeprom
      /\ game' = game /\ backup' = backup /\ dirty' = dirty /\ states' = states /\ file' = file
      /\ saved' = saved /\ loaded' = loaded
  BY Zenon DEF Begin, chip
<1>2. Waits(game, type, flash, eeprom, script)
  BY <1>0 DEF GameInv
<1>3. Waits(game, type, flash, eeprom, script')
  BY <1>0, <1>1, <1>2, BeginWaits
<1>4. GameInv'
  BY <1>0, <1>1, <1>3 DEF GameInv, Sized
<1>5. SaveKept' /\ StatesWait'
  BY <1>0, <1>1, StatesSame DEF SaveKept, Cells
<1> QED
  BY <1>4, <1>5, SavePartsNext

LEMMA SaveLook ==
  ASSUME TypeInv, SaveInv, Look
  PROVE  SaveInv'
<1>0. /\ game \in Games /\ GameInv /\ StatesWait /\ SaveKept /\ RegsOK(type, flash, eeprom)
      /\ script.todo = <<>> /\ Kind[game] # "eeprom"
  BY SaveParts DEF Look, Playing, TypeInv
<1>1. /\ type' = (IF type = "unkn" THEN "sram" ELSE type)
      /\ flash' = flash /\ eeprom' = eeprom /\ script' = script
      /\ game' = game /\ backup' = backup /\ dirty' = dirty /\ states' = states /\ file' = file
      /\ saved' = saved /\ loaded' = loaded
  BY Zenon DEF Look, ReadBackup
<1>2. Waits(game, type, flash, eeprom, script) /\ (dirty => Sized(game, type, flash, eeprom))
  BY <1>0 DEF GameInv
<1>3. Kind[game] \in {"sram", "flash"}
  BY <1>0, Facts DEF Kinds
<1>4. Waits(game, type', flash, eeprom, script)
  <2>1. CASE Kind[game] = "sram"
    BY <1>1, <1>2, <2>1 DEF Waits, SramWaits
  <2>2. CASE Kind[game] = "flash"
    <3>1. FlashWaits(game, type, flash, script)
      BY <1>2, <2>2 DEF Waits
    <3>2. type' # "eeprom" /\ (type = "flash" => type' = "flash")
      BY <1>1, <3>1 DEF FlashWaits
    <3>3. FlashWaits(game, type', flash, script)
      BY <3>1, <3>2, Zenon DEF FlashWaits
    <3> QED
      BY <2>2, <3>3 DEF Waits
  <2> QED
    BY <1>3, <2>1, <2>2
<1>5. dirty => Sized(game, type', flash, eeprom)
  <2>1. dirty => type # "unkn"
    BY <1>2, <1>3 DEF Sized
  <2> QED
    BY <1>1, <1>2, <2>1
<1>6. GameInv'
  BY <1>0, <1>1, <1>4, <1>5 DEF GameInv
<1>7. SaveKept' /\ StatesWait'
  BY <1>0, <1>1, StatesSame DEF SaveKept, Cells
<1> QED
  BY <1>6, <1>7, SavePartsNext

(* The size that a dirty chip is known to have holds all its game saves.    *)
LEMMA SizeHolds ==
  ASSUME game \in Games, RegsOK(type, flash, eeprom), Sized(game, type, flash, eeprom)
  PROVE  BackupSize # 0 /\ \A p \in Cells(game) : p < BackupSize
<1>0. /\ flash.cnt \in {1, 2} /\ eeprom.size \in {1, 16} /\ Kind[game] \in {"sram", "flash", "eeprom"}
  <2>1. FlashOK(flash) /\ eeprom.size \in {1, 16}
    BY DEF RegsOK, EepromOK
  <2>2. flash.cnt \in {1, 2}
    BY <2>1, FlashFields
  <2>3. Kind[game] \in {"sram", "flash", "eeprom"}
    BY Facts DEF Kinds
  <2> QED
    BY <2>1, <2>2, <2>3
<1>1. CASE Kind[game] = "sram"
  <2>1. BackupSize = 32768
    BY <1>1 DEF Sized, BackupSize
  <2>2. Cells(game) = {0, 21845}
    BY <1>1, Facts DEF Cells
  <2> QED
    BY <2>1, <2>2
<1>2. CASE Kind[game] = "flash"
  <2>1. BackupSize = flash.cnt * 65536 /\ (game \in Large => flash.cnt = 2)
    BY <1>2 DEF Sized, BackupSize
  <2>2. BackupSize \in {65536, 131072} /\ (game \in Large => BackupSize = 131072)
    BY <1>0, <2>1
  <2>3. Cells(game) \subseteq {0, 21845, 65536, 87381} /\ (game \notin Large => Cells(game) = {0, 21845})
    BY <1>2, Facts DEF Cells
  <2> QED
    BY <2>2, <2>3
<1>3. CASE Kind[game] = "eeprom"
  <2>1. BackupSize = eeprom.size * 512 /\ (game \in Large => eeprom.size = 16)
    BY <1>3 DEF Sized, BackupSize
  <2>2. BackupSize \in {512, 8192} /\ (game \in Large => BackupSize = 8192)
    BY <1>0, <2>1
  <2>3. Cells(game) \subseteq {0, 512} /\ (game \notin Large => Cells(game) = {0})
    BY <1>3 DEF Cells
  <2> QED
    BY <2>2, <2>3
<1> QED
  BY <1>0, <1>1, <1>2, <1>3

LEMMA SaveShutdown ==
  ASSUME TypeInv, SaveInv, Apart, Shutdown
  PROVE  SaveInv'
<1>0. /\ game \in Games /\ GameInv /\ StatesWait /\ SaveKept /\ RegsOK(type, flash, eeprom)
      /\ file \in [Names -> SaveFile] /\ saved \in [Games -> Bytes8] /\ Cells(game) \subseteq Places
  BY SaveParts, Facts DEF Shutdown, Playing, TypeInv
<1>1. game' = NoGame /\ states' = states /\ ~Playing'
  BY EndType DEF Shutdown, Playing
<1> DEFINE name == Stem[game]
<1>2. name \in Names
  BY <1>0 DEF Names
<1>3. dirty => BackupSize # 0 /\ \A p \in Cells(game) : p < BackupSize
  BY <1>0, SizeHolds DEF GameInv
<1>4. \A h \in Games \ {game} : file'[Stem[h]] = file[Stem[h]] /\ saved'[h] = saved[h]
  <2>1. \A h \in Games \ {game} : Stem[h] # name /\ Stem[h] \in Names
    BY <1>0 DEF Apart, Names
  <2>2. \/ file' = file
        \/ \E f : file' = [file EXCEPT ![name] = f]
    BY DEF Shutdown
  <2>3. \/ saved' = saved
        \/ \E s : saved' = [saved EXCEPT ![game] = s]
    BY DEF Shutdown
  <2> HIDE DEF name
  <2> QED
    BY <1>0, <1>2, <2>1, <2>2, <2>3
<1>5. \A p \in Cells(game) : file'[name].data[p] = saved'[game][p]
  <2> HIDE DEF name
  <2>1. \/ /\ ~(BackupSize # 0 /\ dirty) /\ file' = file /\ saved' = saved
        \/ /\ dirty /\ file' = [file EXCEPT ![name] = Written(file[name], BackupSize)]
           /\ loaded /\ saved' = saved
        \/ saved' = [saved EXCEPT ![game] = file'[name].data]
    BY Zenon DEF Shutdown, name
  <2>2. CASE /\ ~(BackupSize # 0 /\ dirty) /\ file' = file /\ saved' = saved
    <3>1. ~dirty
      BY <1>3, <2>2
    <3> QED
      BY <1>0, <2>2, <3>1 DEF GameInv, name
  <2>3. CASE /\ dirty /\ file' = [file EXCEPT ![name] = Written(file[name], BackupSize)]
             /\ loaded /\ saved' = saved
    <3>1. file'[name] = Written(file[name], BackupSize)
      BY <1>0, <1>2, <2>3
    <3>2. \A p \in Cells(game) : p < BackupSize /\ p \in Places /\ p \in Nat
      BY <1>0, <1>3, <2>3, Facts
    <3>3. BackupSize \in Nat
      BY <1>0, SizeType
    <3>4. \A p \in Cells(game) : Written(file[name], BackupSize).data[p] = backup[p]
      <4> DEFINE z == BackupSize
      <4>1. \A p \in Cells(game) : ~(p >= z) /\ p < z /\ p \in Places
        BY <3>2, <3>3
      <4> HIDE DEF z
      <4>2. Written(file[name], z).data
            = [p \in Places |-> CASE p >= z -> Blank [] p < z -> backup[p] [] OTHER -> Empty[p]]
        BY DEF Written, Image
      <4>3. \A p \in Cells(game) : Written(file[name], z).data[p] = backup[p]
        BY <4>1, <4>2
      <4> QED
        BY <4>3 DEF z
    <3> QED
      BY <1>0, <2>3, <3>1, <3>4 DEF GameInv
  <2>4. CASE saved' = [saved EXCEPT ![game] = file'[name].data]
    BY <1>0, <2>4
  <2> QED
    BY <2>1, <2>2, <2>3, <2>4
<1>6. SaveKept'
  BY <1>0, <1>4, <1>5 DEF SaveKept, Cells
<1>7. StatesWait'
  BY <1>0, <1>1, StatesSame
<1> QED
  BY <1>1, <1>6, <1>7, SavePartsNext

LEMMA SavePowerOff ==
  ASSUME TypeInv, SaveInv, PowerOff
  PROVE  SaveInv'
<1>0. /\ game \in Games /\ StatesWait /\ SaveKept /\ saved \in [Games -> Bytes8]
  BY SaveParts DEF PowerOff, Playing, TypeInv
<1>1. /\ ~Playing' /\ states' = states /\ file' = file
      /\ saved' = [saved EXCEPT ![game] = file[Stem[game]].data]
  BY EndType DEF PowerOff, Playing
<1>2. SaveKept'
  BY <1>0, <1>1 DEF SaveKept, Cells
<1>3. StatesWait'
  BY <1>0, <1>1, StatesSame
<1> QED
  BY <1>1, <1>2, <1>3, SavePartsNext

LEMMA SaveSaveState ==
  ASSUME TypeInv, SaveInv, Apart, SaveState
  PROVE  SaveInv'
<1>0. /\ game \in Games /\ GameInv /\ StatesWait /\ SaveKept /\ StatesOK /\ Known
  BY SaveParts DEF SaveState, Playing, TypeInv, Apart
<1> DEFINE s == [made |-> TRUE, type |-> type, flash |-> flash, eeprom |-> eeprom, script |-> script]
<1>1. /\ states' = [states EXCEPT ![Stem[game]] = s]
      /\ type' = type /\ flash' = flash /\ eeprom' = eeprom /\ script' = script
      /\ game' = game /\ backup' = backup /\ dirty' = dirty /\ file' = file
      /\ saved' = saved /\ loaded' = loaded
  BY Zenon DEF SaveState, chip
<1>2. s.type = type /\ s.flash = flash /\ s.eeprom = eeprom /\ s.script = script
  OBVIOUS
<1>3. Waits(game, s.type, s.flash, s.eeprom, s.script) /\ Sized(game, s.type, s.flash, s.eeprom)
  BY <1>0, <1>2, Zenon DEF GameInv, Known, Sized
<1> HIDE DEF s
<1>4. /\ states'[Stem[game]] = s
      /\ \A h \in Games \ {game} : states'[Stem[h]] = states[Stem[h]]
  <2>1. \A h \in Games : Stem[h] \in Names
    BY DEF Names
  <2>2. \A h \in Games \ {game} : Stem[h] # Stem[game]
    BY <1>0 DEF Apart
  <2> QED
    BY <1>0, <1>1, <2>1, <2>2 DEF StatesOK
<1>5. \A h \in Games : states'[Stem[h]].made =>
        /\ Waits(h, states'[Stem[h]].type, states'[Stem[h]].flash, states'[Stem[h]].eeprom,
                 states'[Stem[h]].script)
        /\ Sized(h, states'[Stem[h]].type, states'[Stem[h]].flash, states'[Stem[h]].eeprom)
  BY <1>0, <1>3, <1>4 DEF StatesWait
<1>6. StatesWait'
  BY <1>5, Zenon DEF StatesWait, Waits, Sized, SramWaits, FlashWaits, EepromWaits
<1>7. GameInv'
  BY <1>0, <1>1 DEF GameInv
<1>8. SaveKept'
  BY <1>0, <1>1 DEF SaveKept, Cells
<1> QED
  BY <1>6, <1>7, <1>8, SavePartsNext

LEMMA SaveLoadState ==
  ASSUME TypeInv, SaveInv, LoadState
  PROVE  SaveInv'
<1>0. /\ game \in Games /\ GameInv /\ StatesWait /\ SaveKept
  BY SaveParts DEF LoadState, Playing, TypeInv
<1> DEFINE s == states[Stem[game]]
<1>1. /\ s.made /\ type' = s.type /\ flash' = s.flash /\ eeprom' = s.eeprom /\ script' = s.script
      /\ game' = game /\ backup' = backup /\ dirty' = dirty /\ states' = states /\ file' = file
      /\ saved' = saved /\ loaded' = loaded
  BY Zenon DEF LoadState
<1>2. Waits(game, s.type, s.flash, s.eeprom, s.script) /\ Sized(game, s.type, s.flash, s.eeprom)
  BY <1>0, <1>1 DEF StatesWait
<1> HIDE DEF s
<1>3. GameInv'
  BY <1>0, <1>1, <1>2 DEF GameInv
<1>4. SaveKept' /\ StatesWait'
  BY <1>0, <1>1, StatesSame DEF SaveKept, Cells
<1> QED
  BY <1>3, <1>4, SavePartsNext

LEMMA SaveStep ==
  ASSUME TypeInv, SaveInv, Apart, [Next]_vars
  PROVE  SaveInv'
<1>1. CASE UNCHANGED vars
  <2>1. /\ type' = type /\ flash' = flash /\ eeprom' = eeprom /\ script' = script
        /\ game' = game /\ backup' = backup /\ dirty' = dirty /\ states' = states /\ file' = file
        /\ saved' = saved /\ loaded' = loaded
    BY <1>1, Zenon DEF vars, chip
  <2>2. (Playing => GameInv) /\ StatesWait /\ SaveKept
    BY SaveParts
  <2>3. (Playing => GameInv)'
    BY <2>1, <2>2 DEF GameInv, Playing
  <2>4. SaveKept' /\ StatesWait'
    BY <2>1, <2>2, StatesSame DEF SaveKept, Cells
  <2> QED
    BY <2>3, <2>4, SavePartsNext
<1> QED
  BY <1>1, SaveBoot, SaveBegin, SaveSend, SaveLook, SaveShutdown, SavePowerOff, SaveSaveState,
     SaveLoadState DEF Next

(* Whatever commands games send, and whatever savestates they are moved to   *)
(* in the middle of one, the bytes of the chip are those of the operations   *)
(* that were completed.                                                      *)
THEOREM LiveHolds ==
  ASSUME Apart
  PROVE  Spec => []LiveSave
<1>1. Init => TypeInv /\ SaveInv
  BY TypeInit, SaveInit
<1>2. (TypeInv /\ SaveInv) /\ [Next]_vars => (TypeInv /\ SaveInv)'
  BY TypeStep, SaveStep
<1>3. TypeInv /\ SaveInv => LiveSave
  BY DEF SaveInv
<1> QED
  BY <1>1, <1>2, <1>3, PTL DEF Spec

(* The file of a game that is not running holds every byte of its chip, as   *)
(* the last session that could store it left them: no session of another     *)
(* game, no power loss and no failed write of one touches it.                *)
THEOREM KeptHolds ==
  ASSUME Apart
  PROVE  Spec => []SaveKept
<1>1. Init => TypeInv /\ SaveInv
  BY TypeInit, SaveInit
<1>2. (TypeInv /\ SaveInv) /\ [Next]_vars => (TypeInv /\ SaveInv)'
  BY TypeStep, SaveStep
<1>3. TypeInv /\ SaveInv => SaveKept
  BY DEF SaveInv
<1> QED
  BY <1>1, <1>2, <1>3, PTL DEF Spec
=============================================================================
