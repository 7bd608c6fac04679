----------------------------- MODULE Containment ----------------------------
(***************************************************************************)
(* What a recoverable boundary promises (docs/language/                    *)
(* 05-host-module-interface.md, "State guarantees"), without lists,        *)
(* lengths and descriptors.  Every live handle belongs to the call that    *)
(* acquired it.  A call that returns leaves its handles to its caller, one *)
(* that traps takes exactly its own with it and gives the terminal the     *)
(* mode it had at the call's entry, while the outer calls go on.  A handle *)
(* that is gone never comes back.                                          *)
(***************************************************************************)
EXTENDS Naturals, Sequences

CONSTANTS Handle, Mode

VARIABLES scopes,      \* the live handles of the application and of each call, outermost first
          spent,       \* the handles that are gone
          entry,       \* the terminal's mode when each call was entered
          tty          \* the terminal's mode

Live == UNION {scopes[k] : k \in DOMAIN scopes}

Init == scopes = <<{}>> /\ spent = {} /\ entry = <<>> /\ tty \in Mode

Acquire == /\ UNCHANGED <<spent, entry, tty>>
           /\ \E new \in SUBSET (Handle \ (Live \cup spent)) :
                scopes' = [scopes EXCEPT ![Len(scopes)] = @ \cup new]

Release == \E h \in Live :
             /\ scopes' = [k \in DOMAIN scopes |-> scopes[k] \ {h}]
             /\ spent' = spent \cup {h}
             /\ UNCHANGED <<entry, tty>>

SetMode == tty' \in Mode /\ UNCHANGED <<scopes, spent, entry>>

Enter == /\ scopes' = Append(scopes, {})
         /\ entry' = Append(entry, tty)
         /\ UNCHANGED <<spent, tty>>

Return == /\ entry # <<>>
          /\ LET n == Len(entry) IN
               /\ scopes' = Append(SubSeq(scopes, 1, n - 1), scopes[n] \cup scopes[n + 1])
               /\ entry' = SubSeq(entry, 1, n - 1)
          /\ UNCHANGED <<spent, tty>>

Trap == /\ entry # <<>>
        /\ LET n == Len(entry) IN
             /\ scopes' = SubSeq(scopes, 1, n)
             /\ spent' = spent \cup scopes[n + 1]
             /\ entry' = SubSeq(entry, 1, n - 1)
             /\ tty' = entry[n]

\* The application ends, normally or by an error no boundary contains: it
\* gives up some of the handles at once and the rest in the end.
Abandon == /\ entry' = <<>> /\ tty' \in Mode
           /\ \E given \in SUBSET Live :
                scopes' = <<Live \ given>> /\ spent' = spent \cup given

End == /\ entry = <<>>
       /\ scopes' = <<{}>> /\ spent' = spent \cup Live
       /\ UNCHANGED <<entry, tty>>

Next == Acquire \/ Release \/ SetMode \/ Enter \/ Return \/ Trap \/ Abandon \/ End

Spec == Init /\ [][Next]_<<scopes, spent, entry, tty>>
=============================================================================
