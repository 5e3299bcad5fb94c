---------------------------- MODULE EventChannel ----------------------------
(***************************************************************************)
(* What /chat/stream promises to one client: it is shown what the run      *)
(* produces, in order and without gaps; the stream is complete only when   *)
(* the run is over and all of it was shown; the client may leave earlier.  *)
(***************************************************************************)
EXTENDS Integers, Sequences

CONSTANT Items       \* what a run can produce

VARIABLES
  produced,          \* what the run produced so far
  shown,             \* the part of it the client was shown
  over,              \* the run produces no more
  client             \* "here", "complete" or "left"

Init == produced = << >> /\ shown = << >> /\ over = FALSE /\ client = "here"

Produce(item) ==
  /\ ~over
  /\ produced' = Append(produced, item)
  /\ UNCHANGED << shown, over, client >>

Finish ==
  /\ ~over
  /\ over' = TRUE
  /\ UNCHANGED << produced, shown, client >>

Show ==
  /\ client = "here"
  /\ Len(shown) < Len(produced)
  /\ shown' = Append(shown, produced[Len(shown) + 1])
  /\ UNCHANGED << produced, over, client >>

Complete ==
  /\ client = "here"
  /\ over
  /\ shown = produced
  /\ client' = "complete"
  /\ UNCHANGED << produced, shown, over >>

Leave ==
  /\ client = "here"
  /\ client' = "left"
  /\ UNCHANGED << produced, shown, over >>

Next == (\E item \in Items : Produce(item)) \/ Finish \/ Show \/ Complete \/ Leave

Spec == Init /\ [][Next]_<< produced, shown, over, client >>
=============================================================================
