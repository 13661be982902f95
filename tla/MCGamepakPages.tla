--------------------------- MODULE MCGamepakPages ---------------------------
(***************************************************************************)
(* Instances of the page cache for TLC.  Pages of two blocks, a cache of   *)
(* two or three slots, an image of at most five pages.  Page 0 has its     *)
(* shadow; the others compete for the slots, except for what is reachable  *)
(* directly.                                                               *)
(***************************************************************************)
EXTENDS GamepakPages

Region(w, i, b) == [w |-> w, i |-> i, b |-> b]

(* Nothing is reachable directly, or some blocks are, of which the last is *)
(* not full, or whole pages are.                                           *)
Fragmented ==
  {[direct |-> {}, whole |-> {}, sane |-> TRUE],
   [direct |-> {0, 1, 3, 6, 7}, whole |-> {0, 3}, sane |-> TRUE],
   [direct |-> 0 .. 5, whole |-> {2}, sane |-> TRUE]}

(* The guest executes the image in place, through both windows, and reads  *)
(* it as data.                                                             *)
InPlace ==
  {Region("lo", i, 0) : i \in 1 .. 4}
    \cup {Region("lo", 3, 1), Region("hi", 2, 0)}

ImageReads == {Region(w, i, 0) : w \in Windows, i \in 1 .. 3}

(* It executes page 1 of an image of four pages through the mirror of it.  *)
Mirrored == {Region("lo", 5, 0)}
=============================================================================
