----------------------------- MODULE Cartridge -----------------------------
(***************************************************************************)
(* What the storage layers promise the interpreter: a cartridge that can   *)
(* be put down and taken up again, and whose code, wherever it executes,   *)
(* is the image's.  Nothing here knows of pages, slots or flash.           *)
(***************************************************************************)
CONSTANTS
  Places,     \* where the guest may execute from
  Code(_),    \* the block of the image at a place
  Nowhere     \* not executing from the cartridge

VARIABLES
  phase,   \* "playing", "paused" or "over"
  at,      \* the place the interpreter executes from
  shows    \* the block it executes there

Init == phase = "playing" /\ at = Nowhere /\ shows = Nowhere

Fetch(r) ==
  /\ phase = "playing"
  /\ at' = r /\ shows' = Code(r)
  /\ UNCHANGED phase

Leave ==
  /\ phase = "playing"
  /\ at' = Nowhere /\ shows' = Nowhere
  /\ UNCHANGED phase

(* The session stops, resumes and ends only between two frames. *)
Turn(from, to) ==
  /\ phase = from /\ phase' = to
  /\ at = Nowhere
  /\ UNCHANGED <<at, shows>>

Next ==
  \/ \E r \in Places : Fetch(r)
  \/ Leave
  \/ Turn("playing", "paused") \/ Turn("paused", "playing")
  \/ Turn("paused", "over")

Spec == Init /\ [][Next]_<<phase, at, shows>>
=============================================================================
