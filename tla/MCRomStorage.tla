---------------------------- MODULE MCRomStorage ----------------------------
(***************************************************************************)
(* A session with an image of three pages of two blocks, two cache slots   *)
(* and two writes to storage.  Both pages but page 0 are executed in       *)
(* place; after a write the file may lie contiguous, scattered, or its     *)
(* addresses may lead elsewhere.                                           *)
(***************************************************************************)
EXTENDS RomStorage

Region(w, i, b) == [w |-> w, i |-> i, b |-> b]

InPlace    == {Region("lo", 1, 0), Region("lo", 2, 1)}
ImageReads == {Region("lo", 0, 0), Region("lo", 1, 1), Region("lo", 2, 0)}

Moves ==
  {[direct |-> 0 .. 5, whole |-> 0 .. 2, sane |-> TRUE],
   [direct |-> {0, 3}, whole |-> {}, sane |-> TRUE],
   [direct |-> 0 .. 3, whole |-> {0, 1}, sane |-> FALSE]}
=============================================================================
