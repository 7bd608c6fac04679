------------------------------- MODULE Meaning -------------------------------
(***************************************************************************)
(* What an engine promises for a program and an input: it shows the events *)
(* the program means, one after the other and no others, and then ends the *)
(* way the program means.                                                  *)
(*                                                                         *)
(* events and result are what the program means; shown and outcome are     *)
(* what the engine has done.                                               *)
(***************************************************************************)
EXTENDS Naturals, Sequences

VARIABLES events, result, shown, outcome

vars == <<events, result, shown, outcome>>

Init == shown = <<>> /\ outcome.sig = "running"

Show ==
  /\ outcome.sig = "running" /\ Len(shown) < Len(events)
  /\ shown' = Append(shown, events[Len(shown) + 1])
  /\ UNCHANGED <<events, result, outcome>>

End ==
  /\ outcome.sig = "running" /\ shown = events
  /\ outcome' = result
  /\ UNCHANGED <<events, result, shown>>

Next == Show \/ End

Spec == Init /\ [][Next]_vars /\ WF_vars(Next)

=============================================================================
