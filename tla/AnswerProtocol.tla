--------------------------- MODULE AnswerProtocol ---------------------------
(***************************************************************************)
(* What the client of a streamed answer may rely on.  An answer begins,     *)
(* which a retry repeats from scratch; its parts (thinking, text, tool      *)
(* calls) come one after the other, numbered from 0, each opened, written   *)
(* and closed; then it is finished and the stream ends.  Or an error comes, *)
(* at any time before that, and the stream ends.  Once an answer is tangled *)
(* nothing is promised of its parts and their numbers any more, of its end  *)
(* as much as before.                                                       *)
(***************************************************************************)
EXTENDS Naturals

CONSTANTS Part,     \* kinds of parts
          NoPart, Bare,
          MayDangle \* parts that need not be closed before the answer is finished

VARIABLES phase,   \* "idle", "open", "finished", "failed", "ended"
          part,    \* the part that is open, or NoPart
          index,   \* its number, or the number of the next one
          at,      \* the number the last event named
          tangled, \* whether the parts have lost their order
          seen     \* events so far

vars == <<phase, part, index, at, tangled, seen>>

Init == phase = "idle" /\ part = NoPart /\ index = 0 /\ at = 0 /\ ~tangled /\ seen = 0

Begin ==
  /\ phase \in {"idle", "open"} /\ ~tangled
  /\ phase' = "open" /\ part' \in {NoPart, Bare} /\ index' = 0 /\ at' = 0

Open ==
  /\ phase = "open" /\ part = NoPart
  /\ part' \in Part
  /\ at' = index
  /\ UNCHANGED <<phase, index>>

Write ==
  /\ phase = "open" /\ part # NoPart
  /\ at' = index
  /\ UNCHANGED <<phase, part, index>>

Close ==
  /\ phase = "open" /\ part \in Part
  /\ at' = index
  /\ part' = NoPart /\ index' = index + 1
  /\ UNCHANGED phase

(* The order of the parts is lost, before an event shows it. *)
Tangle ==
  /\ phase = "open" /\ ~tangled
  /\ tangled' = TRUE
  /\ UNCHANGED <<phase, part, index, at, seen>>

(* Any event of a part *)
Jumble == tangled /\ phase = "open" /\ UNCHANGED phase

Finish ==
  /\ phase = "open" /\ (tangled \/ part \in MayDangle \cup {NoPart})
  /\ phase' = "finished"
  /\ UNCHANGED <<part, index, at>>

Fail ==
  /\ phase \in {"idle", "open"}
  /\ phase' = "failed"
  /\ UNCHANGED <<part, index, at>>

End ==
  /\ phase \in {"finished", "failed"}
  /\ phase' = "ended"
  /\ UNCHANGED <<part, index, at>>

Event ==
  /\ seen' = seen + 1 /\ UNCHANGED tangled
  /\ Begin \/ Open \/ Write \/ Close \/ Jumble \/ Finish \/ Fail \/ End

Next == Tangle \/ Event

Spec == Init /\ [][Next]_vars
=============================================================================
