----------------------------- MODULE BackupSave -----------------------------
(***************************************************************************)
(* The game's own save.  gba_memory.c emulates the chip that holds it: an  *)
(* SRAM, a flash with its command sequences and its banks, or a serial     *)
(* EEPROM; which one it is, and how large, is detected when the game is    *)
(* loaded or learned from what the game sends.  gpsp_runner.c loads the    *)
(* bytes from a file when a game starts and, when the session ends, writes *)
(* back as many as the chip is then known to have.  A savestate holds the  *)
(* chip's registers, not its bytes.                                        *)
(*                                                                         *)
(* Addresses and sizes are those of the chips.  Of the bytes only a few    *)
(* are kept (Places); a block of eight EEPROM bytes counts as one.         *)
(***************************************************************************)
EXTENDS Integers, Sequences, FiniteSets

CONSTANTS
  Games,       \* the games of the library
  NoGame,      \* not a game: nothing runs
  Stem,        \* the name of a game's files
  Kind,        \* the chip a game was built with: "sram", "flash", "eeprom"
  Large,       \* the games whose flash has two banks, or whose EEPROM has 8 KiB
  Detected,    \* the games whose chip is recognised when they are loaded
  Values,      \* the bytes games save
  EarlyStates, \* savestates are made before the chip is known, too
  MaxSaves     \* bound on the operations the games send to their chips

Kinds == {"sram", "flash", "eeprom"}

ASSUME SaveAssumption ==
  /\ NoGame \notin Games
  /\ Kind \in [Games -> Kinds]
  /\ Large \subseteq Games
  /\ Detected \subseteq Games
  /\ Values \subseteq 0 .. 255
  /\ EarlyStates \in BOOLEAN
  /\ MaxSaves \in Nat

(* The addresses of the flash commands, and the bytes that are kept: in     *)
(* each bank the first and the one at the first command address, and the    *)
(* first past a small EEPROM.                                               *)
Unlock1 == 21845
Unlock2 == 10922
CmdIdentify == 144
CmdLeave == 240
CmdProgram == 160
CmdBank == 176
CmdErase == 128
CmdChip == 16
BankSize == 65536
Blank == 255
Offsets == {0, Unlock1}
Places == Offsets \cup {512} \cup {BankSize + o : o \in Offsets}
Sector(p) == p \div 4096

FlashModes == {"base", "id", "erase", "write", "bank"}
EepromModes == {"base", "header"}

VARIABLES
  game,      \* cgba_loaded_rom_id while the game runs, else NoGame
  type,      \* backup_type
  flash,     \* flash_mode, flash_command_position, flash_bank_num, flash_bank_cnt
  eeprom,    \* eeprom_size, eeprom_mode, eeprom_address
  backup,    \* gamepak_backup
  dirty,     \* cgba_backup_dirty
  script,    \* the operation the game is in: what it still sends, and the
             \* bytes its save is to have when it is through
  states,    \* the savestates, by name of the file
  file,      \* the save files, by name
  saved,     \* what each game's save should hold
  loaded,    \* the save file of this session was read without an error
  count      \* operations begun

chip == <<type, flash, eeprom>>
vars == <<game, chip, backup, dirty, script, states, file, saved, loaded, count>>

Nothing == [p \in {} |-> Blank]
Idle == [todo |-> <<>>, goal |-> Nothing]
Empty == [p \in Places |-> Blank]
NoFile == [size |-> 0, data |-> Empty]
ResetFlash == [mode |-> "base", pos |-> 0, bank |-> 0, cnt |-> 1]
ResetEeprom == [size |-> 1, mode |-> "base", at |-> 0]
NoState == [made |-> FALSE, type |-> "unkn", flash |-> ResetFlash,
            eeprom |-> ResetEeprom, script |-> Idle]

Put(old, new) == [p \in Places |-> IF p \in DOMAIN new THEN new[p] ELSE old[p]]
Erased(ps) == [p \in ps |-> Blank]

-----------------------------------------------------------------------------
(* write_backup: a byte v at 0x0E000000 + a.  The chip that is not known is *)
(* an SRAM until it is sent 0xAA at the first unlock address.               *)
Commanded(v) ==
  LET f == [flash EXCEPT !.pos = 0] IN
  CASE v = CmdIdentify /\ f.mode = "base" -> [f EXCEPT !.mode = "id"]
    [] v = CmdErase /\ f.mode = "base" -> [f EXCEPT !.mode = "erase"]
    [] v = CmdLeave /\ f.mode = "id" -> [f EXCEPT !.mode = "base"]
    [] v = CmdProgram /\ f.mode = "base" -> [f EXCEPT !.mode = "write"]
    [] v = CmdBank -> [f EXCEPT !.cnt = 2, !.mode = IF @ = "base" THEN "bank" ELSE @]
    [] v = CmdChip /\ f.mode = "erase" -> [f EXCEPT !.mode = "base"]
    [] OTHER -> f

InBank(a) == a + BankSize * flash.bank

AtCommandAlways(a) == a = Unlock1
AtCommand(a) == a = Unlock1 /\ flash.mode # "write"

(* What a byte written does, by the state the flash is in: the new type, the *)
(* new flash registers and the bytes that change.                            *)
Did(t, f, bytes) == [type |-> t, flash |-> f, bytes |-> bytes]
Stored(known, a, v) == IF known = "sram" THEN [p \in {a} |-> v] ELSE Nothing

Effect(known, a, v) ==
  CASE AtCommand(a) /\ flash.pos = 0 /\ v = 170 ->
         Did("flash", [flash EXCEPT !.pos = 1], Nothing)
    [] AtCommand(a) /\ flash.pos = 2 ->
         Did(known, Commanded(v),
             IF v = CmdChip /\ flash.mode = "erase" THEN Erased(Places) ELSE Stored(known, a, v))
    [] AtCommand(a) /\ flash.pos # 2 /\ ~(flash.pos = 0 /\ v = 170) ->
         Did(known, flash, Stored(known, a, v))
    [] ~AtCommand(a) /\ a = Unlock2 /\ v = 85 /\ flash.pos = 1 ->
         Did(known, [flash EXCEPT !.pos = 2], Nothing)
    [] ~AtCommand(a) /\ flash.pos = 2 /\ flash.mode = "erase" /\ v = 48 ->
         Did(known, [flash EXCEPT !.pos = 0, !.mode = "base"],
             Erased({p \in Places : Sector(p) = Sector(InBank(a))}))
    [] ~AtCommand(a) /\ flash.pos = 0 /\ flash.mode = "bank" /\ a = 0 /\ flash.cnt = 2 ->
         Did(known, [flash EXCEPT !.bank = v % 2, !.mode = "base"], Nothing)
    [] ~AtCommand(a) /\ flash.pos = 0 /\ flash.mode = "write" ->
         Did(known, [flash EXCEPT !.mode = "base"], [p \in {InBank(a)} |-> v])
    [] OTHER -> Did(known, flash, Stored(known, a, v))

WriteBackup(a, v) ==
  IF type = "eeprom"
  THEN UNCHANGED <<chip, backup, dirty>>
  ELSE LET did == Effect(IF type = "unkn" THEN "sram" ELSE type, a, v) IN
       /\ type' = did.type
       /\ flash' = did.flash
       /\ backup' = Put(backup, did.bytes)
       /\ dirty' = TRUE
       /\ UNCHANGED eeprom

(* read_backup: the first read makes an unknown chip an SRAM.               *)
ReadBackup ==
  /\ type' = IF type = "unkn" THEN "sram" ELSE type
  /\ UNCHANGED <<flash, eeprom, backup, dirty>>

(* A DMA to or from the EEPROM is one call of dma_transfer: the bits of a   *)
(* request, of a block to write with its address, or of a block read.  Its  *)
(* length tells the size of the chip.                                       *)
LearnedInBytes == IF game \in Large THEN 8192 ELSE eeprom.size
Learned == IF game \in Large THEN 16 ELSE eeprom.size

EepromWrite(a, v) ==
  IF eeprom.mode = "base"
  THEN /\ type' = "eeprom"
       /\ eeprom' = [eeprom EXCEPT !.size = Learned, !.at = 0]
       /\ backup' = Put(backup, [p \in {a} |-> v])
       /\ dirty' = TRUE
       /\ UNCHANGED flash
  ELSE /\ eeprom' = [eeprom EXCEPT !.size = Learned]
       /\ UNCHANGED <<type, flash, backup, dirty>>

EepromRequest(a) ==
  /\ eeprom' = IF eeprom.mode = "base"
               THEN [size |-> Learned, mode |-> "header", at |-> a]
               ELSE [eeprom EXCEPT !.size = Learned]
  /\ type' = IF eeprom.mode = "base" THEN "eeprom" ELSE type
  /\ UNCHANGED <<flash, backup, dirty>>

EepromRead ==
  /\ eeprom' = IF type = "eeprom" THEN [eeprom EXCEPT !.mode = "base"] ELSE eeprom
  /\ UNCHANGED <<type, flash, backup, dirty>>

-----------------------------------------------------------------------------
(* The game: the operations of the save library it was built with.          *)
Byte(a, v) == [op |-> "byte", at |-> a, value |-> v]
Block(op, a, v) == [op |-> op, at |-> a, value |-> v]
Unlock == <<Byte(Unlock1, 170), Byte(Unlock2, 85)>>
Command(v) == Unlock \o <<Byte(Unlock1, v)>>
Select(b) == IF game \in Large THEN Command(CmdBank) \o <<Byte(0, b)>> ELSE <<>>
Banks == IF game \in Large THEN {0, 1} ELSE {0}
Operation(todo, goal) == [todo |-> todo, goal |-> goal]

Cells(g) ==
  CASE Kind[g] = "sram" -> Offsets
    [] Kind[g] = "flash" -> IF g \in Large THEN Places \ {512} ELSE Offsets
    [] OTHER -> IF g \in Large THEN {0, 512} ELSE {0}

(* A game erases a flash byte before it programs it, and an SRAM game does  *)
(* not store the byte that would be taken for a flash command.              *)
Cell(b, o) == b * BankSize + o
Holding(p, v) == [q \in {p} |-> v]

SramOperations ==
  {Operation(<<Byte(w[1], w[2])>>, Holding(w[1], w[2])) :
     w \in (Offsets \X Values) \ {<<Unlock1, 170>>}}

Program(b, o, v) ==
  Operation(Select(b) \o Command(CmdProgram) \o <<Byte(o, v)>>, Holding(Cell(b, o), v))
Programs ==
  {Program(w[1], w[2], w[3]) :
     w \in {x \in Banks \X Offsets \X Values : saved[game][Cell(x[1], x[2])] = Blank}}

SectorErase(b, o) ==
  Operation(Select(b) \o Command(CmdErase) \o Unlock \o <<Byte(Sector(o) * 4096, 48)>>,
            Erased({Cell(b, o)}))
SectorErases == {SectorErase(b, o) : b \in Banks, o \in Offsets}

ChipErase == Operation(Command(CmdErase) \o Command(CmdChip), Erased(Cells(game)))
Identify == Operation(Command(CmdIdentify) \o Command(CmdLeave), Nothing)

EepromOperations ==
  {Operation(<<Block("write", a, v)>>, Holding(a, v)) : a \in Cells(game), v \in Values}
  \cup {Operation(<<Block("request", a, 0), Block("read", a, 0)>>, Nothing) : a \in Cells(game)}

Operations ==
  CASE Kind[game] = "sram" -> SramOperations
    [] Kind[game] = "flash" -> Programs \cup SectorErases \cup {ChipErase, Identify}
    [] OTHER -> EepromOperations

Playing == game # NoGame

Begin ==
  /\ Playing /\ script.todo = <<>> /\ count < MaxSaves
  /\ script' \in Operations
  /\ count' = count + 1
  /\ UNCHANGED <<game, chip, backup, dirty, states, file, saved, loaded>>

(* The next item is sent; with the last one the operation is done.          *)
Send ==
  /\ Playing /\ script.todo # <<>>
  /\ LET item == Head(script.todo)
         rest == Tail(script.todo)
     IN /\ \/ item.op = "byte" /\ WriteBackup(item.at, item.value)
           \/ item.op = "write" /\ EepromWrite(item.at, item.value)
           \/ item.op = "request" /\ EepromRequest(item.at)
           \/ item.op = "read" /\ EepromRead
        /\ script' = IF rest = <<>> THEN Idle ELSE [script EXCEPT !.todo = rest]
        /\ saved' = IF rest = <<>> THEN [saved EXCEPT ![game] = Put(@, script.goal)] ELSE saved
  /\ UNCHANGED <<game, states, file, loaded, count>>

(* The game looks at its save between two operations.                       *)
Look ==
  /\ Playing /\ Kind[game] # "eeprom" /\ script.todo = <<>>
  /\ ReadBackup
  /\ UNCHANGED <<game, script, states, file, saved, loaded, count>>

-----------------------------------------------------------------------------
(* The session.                                                             *)
(* load_gamepak_from_pages, init_memory and cgba_gpsp_backup_load.  A read  *)
(* that fails may have filled a part of the buffer; its result is ignored.  *)
Boot(g) ==
  /\ ~Playing
  /\ game' = g
  /\ type' = IF g \in Detected THEN Kind[g] ELSE "unkn"
  /\ flash' = [ResetFlash EXCEPT !.cnt = IF g \in Detected \cap Large /\ Kind[g] = "flash"
                                         THEN 2 ELSE 1]
  /\ eeprom' = ResetEeprom
  /\ dirty' = FALSE
  /\ script' = Idle
  /\ LET found == file[Stem[g]] IN
     \/ backup' = found.data /\ loaded' = TRUE
     \/ /\ found # NoFile
        /\ \E cut \in Places :
             backup' = [p \in Places |-> IF p < cut THEN found.data[p] ELSE Blank]
        /\ loaded' = FALSE
  /\ UNCHANGED <<states, file, saved, count>>

(* cgba_backup_size, in bytes.                                              *)
BackupSizeOneBank ==
  CASE type = "sram" -> 32768
    [] type = "flash" -> 65536
    [] type = "eeprom" -> eeprom.size * 512
    [] OTHER -> 0

BackupSize ==
  CASE type = "sram" -> 32768
    [] type = "flash" -> flash.cnt * 65536
    [] type = "eeprom" -> eeprom.size * 512
    [] OTHER -> 0

(* What the storage can make of a file that is written: in place when the   *)
(* size is the same, else removed, created and written; a write may stop    *)
(* short, and the file may not be created.                                  *)
Image(size, from, old, cut) ==
  [size |-> size,
   data |-> [p \in Places |-> CASE p >= size -> Blank [] p < cut -> from[p] [] OTHER -> old[p]]]

Written(old, size) == Image(size, backup, Empty, size)

Failures(old, size) ==
  {Image(size, backup, IF old.size = size THEN old.data ELSE Empty, cut) : cut \in Places}
    \cup {IF old.size = size THEN old ELSE NoFile}

EndSession ==
  /\ game' = NoGame
  /\ type' = "unkn"
  /\ flash' = ResetFlash
  /\ eeprom' = ResetEeprom
  /\ backup' = Empty
  /\ dirty' = FALSE
  /\ script' = Idle
  /\ loaded' = FALSE

(* cgba_gpsp_shutdown, for a reset, another game or the end: the save is    *)
(* written when it is dirty and its size is known.  A session that could    *)
(* not read its save, and a write that fails, promise only what is stored.  *)
Shutdown ==
  /\ Playing
  /\ EndSession
  /\ LET name == Stem[game]
         written == BackupSize # 0 /\ dirty
     IN \/ /\ ~written
           /\ UNCHANGED <<file, saved>>
        \/ /\ written
           /\ file' = [file EXCEPT ![name] = Written(@, BackupSize)]
           /\ saved' = IF loaded THEN saved ELSE [saved EXCEPT ![game] = file'[name].data]
        \/ /\ written
           /\ \E f \in Failures(file[name], BackupSize) : file' = [file EXCEPT ![name] = f]
           /\ saved' = [saved EXCEPT ![game] = file'[name].data]
  /\ UNCHANGED <<states, count>>

(* The calculator is switched off or reset: what was not stored is lost.    *)
PowerOff ==
  /\ Playing
  /\ EndSession
  /\ saved' = [saved EXCEPT ![game] = file[Stem[game]].data]
  /\ UNCHANGED <<states, file, count>>

(* gba_save_state, gba_load_state: the chip's registers and the game, which *)
(* is in the operation it was in.                                           *)
Known ==
  /\ type = Kind[game]
  /\ type = "flash" /\ game \in Large => flash.cnt = 2
  /\ type = "eeprom" /\ game \in Large => eeprom.size = 16

SaveState ==
  /\ Playing /\ (EarlyStates \/ Known)
  /\ states' = [states EXCEPT ![Stem[game]] =
                  [made |-> TRUE, type |-> type, flash |-> flash, eeprom |-> eeprom,
                   script |-> script]]
  /\ UNCHANGED <<game, chip, backup, dirty, script, file, saved, loaded, count>>

LoadState ==
  /\ Playing
  /\ LET s == states[Stem[game]] IN
     /\ s.made
     /\ type' = s.type
     /\ flash' = s.flash
     /\ eeprom' = s.eeprom
     /\ script' = s.script
  /\ UNCHANGED <<game, backup, dirty, states, file, saved, loaded, count>>

Names == {Stem[g] : g \in Games}

Init ==
  /\ game = NoGame
  /\ type = "unkn"
  /\ flash = ResetFlash
  /\ eeprom = ResetEeprom
  /\ backup = Empty
  /\ dirty = FALSE
  /\ script = Idle
  /\ states = [n \in Names |-> NoState]
  /\ file = [n \in Names |-> NoFile]
  /\ saved = [g \in Games |-> Empty]
  /\ loaded = FALSE
  /\ count = 0

Next ==
  \/ \E g \in Games : Boot(g)
  \/ Begin
  \/ Send
  \/ Look
  \/ Shutdown
  \/ PowerOff
  \/ SaveState
  \/ LoadState

Spec == Init /\ [][Next]_vars

-----------------------------------------------------------------------------
(* The chip registers, the bytes and the files stay within what the code    *)
(* declares for them; a bank is selected only on a chip that has it, and a  *)
(* file is as long as some chip.                                            *)
TypeOK ==
  /\ game \in Games \cup {NoGame}
  /\ type \in Kinds \cup {"unkn"}
  /\ flash \in [mode : FlashModes, pos : 0 .. 2, bank : {0, 1}, cnt : {1, 2}]
  /\ flash.bank = 1 => flash.cnt = 2
  /\ eeprom \in [size : {1, 16}, mode : EepromModes, at : Places]
  /\ backup \in [Places -> 0 .. 255]
  /\ dirty \in BOOLEAN
  /\ file \in [Names -> [size : {0, 512, 8192, 32768, 65536, 131072},
                         data : [Places -> 0 .. 255]]]
  /\ saved \in [Games -> [Places -> 0 .. 255]]
  /\ loaded \in BOOLEAN
  /\ count \in 0 .. MaxSaves

(* Whatever commands the game sends, and whatever savestates it is moved    *)
(* to in the middle of one, the bytes of its chip are those its completed   *)
(* operations left there (write_backup, write_eeprom).                      *)
LiveSave ==
  Playing /\ loaded => \A p \in Cells(game) : backup[p] = saved[game][p]

(* "written back to \\fls0\<BASE>.SAV ... when it changes" (gpsp_runner.c   *)
(* 1208): the file of a game that is not running holds every byte of its    *)
(* chip, as the last session that could store it left them.                 *)
SaveKept ==
  \A g \in Games \ {game} : \A p \in Cells(g) : file[Stem[g]].data[p] = saved[g][p]
=============================================================================
