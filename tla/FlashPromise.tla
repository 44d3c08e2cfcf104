--------------------------- MODULE FlashPromise ---------------------------
(***************************************************************************)
(* What SDWire.FlashAndBoot (flash.go) promises its caller, seen from   *)
(* the bench: where the card is, whether it holds the image, whether the   *)
(* target board has power, and what the call has answered.  Nothing here   *)
(* knows of chunks, sectors, polls, retries or page caches; Flash is shown *)
(* to implement it.                                                        *)
(*                                                                         *)
(* The promise: the card is written only on the host's side of the mux and *)
(* only while a controllable board is dark, and the call powers the board  *)
(* up, or answers "ok", only for a whole image on the target's side.       *)
(***************************************************************************)

CONSTANT Controlled  \* BOOLEAN: a PowerFunc is configured for the board

VARIABLES
  side,     \* which side of the mux holds the card: "host" or "target"
  power,    \* the board's power: "on" or "off"
  content,  \* "image" once the card holds all of the image, else "other"
  outcome   \* what the call has answered: "running", "ok" or "failed"

vars == <<side, power, content, outcome>>

TypeOK ==
  /\ side    \in {"host", "target"}
  /\ power   \in {"on", "off"}
  /\ content \in {"image", "other"}
  /\ outcome \in {"running", "ok", "failed"}

Init ==
  /\ TypeOK
  /\ content = "other"
  /\ outcome = "running"

\* The board is cut off before anything else is touched.
CutPower ==
  /\ Controlled
  /\ outcome = "running"
  /\ power' = "off"
  /\ UNCHANGED <<side, content, outcome>>

\* The card comes to the host.
TakeCard ==
  /\ outcome = "running"
  /\ Controlled => power = "off"
  /\ side' = "host"
  /\ UNCHANGED <<power, content, outcome>>

\* Anything that changes the card's content: a chunk that completes or
\* spoils the image, or the write-back of one after the call has failed.
WriteCard ==
  /\ outcome # "ok"
  /\ side = "host"
  /\ Controlled => power = "off"
  /\ content' \in {"image", "other"}
  /\ UNCHANGED <<side, power, outcome>>

\* A whole image is handed to the target.
GiveCard ==
  /\ outcome = "running"
  /\ content = "image"
  /\ Controlled => power = "off"
  /\ side' = "target"
  /\ UNCHANGED <<power, content, outcome>>

\* The board, if it can be controlled, is powered up from the image.
Boot ==
  /\ outcome = "running"
  /\ content = "image"
  /\ side = "target"
  /\ power' = IF Controlled THEN "on" ELSE power
  /\ outcome' = "ok"
  /\ UNCHANGED <<side, content>>

\* The call gives up.  What it was doing may be half done: the power cut, the
\* card moved, a chunk written.  It never leaves a board on that it found or
\* made dark, except from a whole image on the target's side.
GiveUp ==
  /\ outcome = "running"
  /\ outcome' = "failed"
  /\ power' \in {"on", "off"}
  /\ power' # power => power' = "off" \/ (content = "image" /\ side = "target")
  /\ side' \in {"host", "target"}
  /\ side' # side => (Controlled => power' = "off")
  /\ content' \in {"image", "other"}
  /\ content' # content => side = "host" /\ (Controlled => power' = "off")

Next == CutPower \/ TakeCard \/ WriteCard \/ GiveCard \/ Boot \/ GiveUp

Spec == Init /\ [][Next]_vars
=============================================================================
