------------------------------ MODULE TermHost ------------------------------
(***************************************************************************)
(* The module term of the direct host runner (TermHost of                  *)
(* src/src/hosts/run.py): raw mode and the full-screen interface.  The     *)
(* bytes of keys, pushed back ones included, are left out.                 *)
(***************************************************************************)
EXTENDS Naturals

CONSTANTS IsTty,       \* the standard input is a terminal
          MaxUi        \* bound of ui_depth

ASSUME TermAssumption == IsTty \in BOOLEAN /\ MaxUi \in Nat

VARIABLES saved,       \* TermHost.saved: the mode leave gives back, or "none"
          ui_depth,    \* TermHost.ui_depth
          mode,        \* the terminal's mode
          screen       \* the screen the terminal shows

termvars == <<saved, ui_depth, mode, screen>>

Mode == {"cooked", "raw"}
TermType == /\ saved \in {"none"} \cup Mode
            /\ ui_depth \in 0..MaxUi
            /\ mode \in Mode
            /\ screen \in {"main", "alternate"}

TermInit == /\ saved = "none" /\ ui_depth = 0
            /\ mode = "cooked" /\ screen = "main"

\* (mutant: enter saves the mode again)
enters_again(s0) == IsTty

\* enter, from a saved mode s0 and a terminal in mode m0.
enters(s0) == IsTty /\ s0 = "none"
enter_saved(s0, m0) == IF enters(s0) THEN m0 ELSE s0
enter_mode(s0, m0) == IF enters(s0) THEN "raw" ELSE m0

\* (mutant: leave restores what is not there)
leave_mode_unguarded(s0, m0) == s0

\* leave.
leave_mode(s0, m0) == IF s0 # "none" THEN s0 ELSE m0

enter == /\ saved' = enter_saved(saved, mode)
         /\ mode' = enter_mode(saved, mode)
         /\ UNCHANGED <<ui_depth, screen>>

leave == /\ mode' = leave_mode(saved, mode)
         /\ saved' = "none"
         /\ UNCHANGED <<ui_depth, screen>>

enter_ui == /\ ui_depth < MaxUi
            /\ saved' = enter_saved(saved, mode)
            /\ mode' = enter_mode(saved, mode)
            /\ screen' = "alternate"
            /\ ui_depth' = ui_depth + 1

leave_ui == /\ screen' = "main"
            /\ mode' = leave_mode(saved, mode)
            /\ saved' = "none"
            /\ ui_depth' = IF ui_depth = 0 THEN 0 ELSE ui_depth - 1

\* read_key, read_key_timeout, write, rows and cols.
use_term == UNCHANGED termvars

\* checkpoint.
term_checkpoint == [saved |-> saved, ui_depth |-> ui_depth]

\* rollback: the levels of the interface are left or entered one by one, and
\* then the mode is made to fit the saved mode of the checkpoint.
term_rollback(c) ==
  LET reenters == ui_depth < c.ui_depth
      s1 == IF reenters THEN enter_saved(saved, mode) ELSE saved
      m1 == IF reenters THEN enter_mode(saved, mode) ELSE mode
  IN /\ ui_depth' = c.ui_depth
     /\ screen' = CASE ui_depth > c.ui_depth -> "main"
                    [] reenters -> "alternate"
                    [] OTHER -> screen
     /\ saved' = c.saved
     /\ mode' = IF c.saved = "none" THEN leave_mode(s1, m1)
                ELSE IF s1 = "none" /\ IsTty THEN "raw" ELSE m1
=============================================================================
