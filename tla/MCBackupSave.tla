---------------------------- MODULE MCBackupSave ----------------------------
(***************************************************************************)
(* Four games: a flash of two banks and an EEPROM of 8 KiB that are        *)
(* recognised when the game is loaded, and a flash of one bank and an SRAM *)
(* that are not.  0xAA is the first byte of every flash command.           *)
(***************************************************************************)
EXTENDS BackupSave, TLC

CONSTANTS Racer, Quest, Maze, Farm

MCStem == [g \in Games |-> g]
MCKind == (Racer :> "flash") @@ (Quest :> "eeprom") @@ (Maze :> "flash") @@ (Farm :> "sram")
MCLarge == {Racer, Quest}
MCValues == {170}
=============================================================================
