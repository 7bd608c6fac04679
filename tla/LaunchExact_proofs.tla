-------------------------- MODULE LaunchExact_proofs --------------------------
(***************************************************************************)
(* The safety of a foreground launch (LaunchExact), for pipelines of every *)
(* length and every number of failed attempts.                             *)
(***************************************************************************)
EXTENDS LaunchExact, TLAPS

\* The last child is forked and its launch is not decided yet.
InFlight == pc \in {"setpgid", "tcsetpgrp", "read", "waitpid"}
Over == pc \in {"failed", "back"}

\* launch_impl's group is that of its first child.
GroupOK ==
  /\ children \subseteq 1 .. child
  /\ group = Shell => children = {}
  /\ group # Shell => group \in children
  /\ InFlight => child \in Pid \ children

\* A child that was kept executed its program, or died in its group.
KidsOK ==
  \A p \in children :
    /\ pgrp[p] = group
    /\ Alive(p) => at[p] = "image"
    /\ ~Over => Alive(p) \/ run[p] = "zombie"
    /\ Over => run[p] = "gone"

\* Nothing is left of the others, and nothing is there yet of the next ones.
OthersOK ==
  \A p \in Pid \ children :
    /\ ~(InFlight /\ p = child) => run[p] \in {"none", "gone"}
    /\ p > child => run[p] = "none" /\ ~err[p]

\* The child in flight is in its group once it got there; only an error or a
\* signal, after its group owned the terminal, ends or stops it.
FlightOK ==
  InFlight =>
    /\ Alive(child) \/ run[child] = "zombie"
    /\ at[child] # "none"
    /\ err[child] => run[child] = "zombie"
    /\ run[child] # "ready" /\ ~err[child] => at[child] \in {"exec", "image"}
    /\ at[child] # "setpgid" => pgrp[child] = GroupOf(child)
    /\ pc = "waitpid" => err[child]

\* The terminal is with the pipeline from its first stage on, and with the
\* child in flight from its tcsetpgrp on.
TerminalOK ==
  up => /\ group # Shell /\ ~Over => fg \in {group, Other}
        /\ group # Shell /\ (InFlight \/ pc = "restore") => prev \in {group, Other}
        /\ InFlight /\ ~err[child] /\ at[child] \in {"dup", "exec", "image"} =>
             fg \in {GroupOf(child), Other}

IInv == TypeOK /\ GroupOK /\ KidsOK /\ OthersOK /\ FlightOK /\ TerminalOK

-----------------------------------------------------------------------------
USE LaunchAssumption DEF Pid, Shell, Other, Groups, At, RunState

LEMMA InitInvariant == Init => IInv
BY DEF Init, IInv, TypeOK, GroupOK, KidsOK, OthersOK, FlightOK, TerminalOK, InFlight,
       Over, Alive

LEMMA ForkStep == IInv /\ Fork => IInv'
<1> SUFFICES ASSUME IInv, Fork PROVE IInv'
  OBVIOUS
<1> USE DEF Fork, Goto, Processes, InFlight, Over, Alive
<1>1. TypeOK'
  BY DEF IInv, TypeOK, GroupOf
<1>2. GroupOK'
  BY DEF IInv, TypeOK, GroupOK, GroupOf
<1>3. KidsOK'
  BY DEF IInv, TypeOK, GroupOK, KidsOK, FlightOK, GroupOf, WriteEndOpen
<1>4. OthersOK'
  BY DEF IInv, TypeOK, GroupOK, KidsOK, OthersOK, FlightOK
<1>5. FlightOK'
  BY DEF IInv, TypeOK, GroupOK, OthersOK, FlightOK, GroupOf
<1>6. TerminalOK'
  BY DEF IInv, TypeOK, GroupOK, FlightOK, TerminalOK, GroupOf, WriteEndOpen
<1> QED
  BY <1>1, <1>2, <1>3, <1>4, <1>5, <1>6 DEF IInv

LEMMA ForkFailsStep == IInv /\ ForkFails => IInv'
<1> SUFFICES ASSUME IInv, ForkFails PROVE IInv'
  OBVIOUS
<1> USE DEF ForkFails, Goto, Processes, InFlight, Over, Alive
<1>1. TypeOK'
  BY DEF IInv, TypeOK, GroupOf
<1>2. GroupOK'
  BY DEF IInv, TypeOK, GroupOK, GroupOf
<1>3. KidsOK'
  BY DEF IInv, TypeOK, GroupOK, KidsOK, FlightOK, GroupOf, WriteEndOpen
<1>4. OthersOK'
  BY DEF IInv, TypeOK, GroupOK, KidsOK, OthersOK, FlightOK
<1>5. FlightOK'
  BY DEF IInv, TypeOK, GroupOK, OthersOK, FlightOK, GroupOf
<1>6. TerminalOK'
  BY DEF IInv, TypeOK, GroupOK, FlightOK, TerminalOK, GroupOf, WriteEndOpen
<1> QED
  BY <1>1, <1>2, <1>3, <1>4, <1>5, <1>6 DEF IInv

LEMMA ParentSetpgidStep == IInv /\ ParentSetpgid => IInv'
<1> SUFFICES ASSUME IInv, ParentSetpgid PROVE IInv'
  OBVIOUS
<1> USE DEF ParentSetpgid, Goto, Processes, InFlight, Over, Alive
<1>1. TypeOK'
  BY DEF IInv, TypeOK, GroupOf
<1>2. GroupOK'
  BY DEF IInv, TypeOK, GroupOK, GroupOf
<1>3. KidsOK'
  BY DEF IInv, TypeOK, GroupOK, KidsOK, FlightOK, GroupOf, WriteEndOpen
<1>4. OthersOK'
  BY DEF IInv, TypeOK, GroupOK, KidsOK, OthersOK, FlightOK
<1>5. FlightOK'
  BY DEF IInv, TypeOK, GroupOK, OthersOK, FlightOK, GroupOf
<1>6. TerminalOK'
  BY DEF IInv, TypeOK, GroupOK, FlightOK, TerminalOK, GroupOf, WriteEndOpen
<1> QED
  BY <1>1, <1>2, <1>3, <1>4, <1>5, <1>6 DEF IInv

LEMMA ParentTcsetpgrpStep == IInv /\ ParentTcsetpgrp => IInv'
<1> SUFFICES ASSUME IInv, ParentTcsetpgrp PROVE IInv'
  OBVIOUS
<1> USE DEF ParentTcsetpgrp, Goto, Processes, InFlight, Over, Alive
<1>1. TypeOK'
  BY DEF IInv, TypeOK, GroupOf
<1>2. GroupOK'
  BY DEF IInv, TypeOK, GroupOK, GroupOf
<1>3. KidsOK'
  BY DEF IInv, TypeOK, GroupOK, KidsOK, FlightOK, GroupOf, WriteEndOpen
<1>4. OthersOK'
  BY DEF IInv, TypeOK, GroupOK, KidsOK, OthersOK, FlightOK
<1>5. FlightOK'
  BY DEF IInv, TypeOK, GroupOK, OthersOK, FlightOK, GroupOf
<1>6. TerminalOK'
  BY DEF IInv, TypeOK, GroupOK, FlightOK, TerminalOK, GroupOf, WriteEndOpen
<1> QED
  BY <1>1, <1>2, <1>3, <1>4, <1>5, <1>6 DEF IInv

LEMMA ReadErrorStep == IInv /\ ReadError => IInv'
<1> SUFFICES ASSUME IInv, ReadError PROVE IInv'
  OBVIOUS
<1> USE DEF ReadError, Goto, Processes, InFlight, Over, Alive
<1>1. TypeOK'
  BY DEF IInv, TypeOK, GroupOf
<1>2. GroupOK'
  BY DEF IInv, TypeOK, GroupOK, GroupOf
<1>3. KidsOK'
  BY DEF IInv, TypeOK, GroupOK, KidsOK, FlightOK, GroupOf, WriteEndOpen
<1>4. OthersOK'
  BY DEF IInv, TypeOK, GroupOK, KidsOK, OthersOK, FlightOK
<1>5. FlightOK'
  BY DEF IInv, TypeOK, GroupOK, OthersOK, FlightOK, GroupOf
<1>6. TerminalOK'
  BY DEF IInv, TypeOK, GroupOK, FlightOK, TerminalOK, GroupOf, WriteEndOpen
<1> QED
  BY <1>1, <1>2, <1>3, <1>4, <1>5, <1>6 DEF IInv

LEMMA ReadEofStep == IInv /\ ReadEof => IInv'
<1> SUFFICES ASSUME IInv, ReadEof PROVE IInv'
  OBVIOUS
<1> USE DEF ReadEof, Goto, Processes, InFlight, Over, Alive
<1>1. TypeOK'
  BY DEF IInv, TypeOK, GroupOK, GroupOf
<1>2. GroupOK'
  BY DEF IInv, TypeOK, GroupOK, GroupOf
<1>3. KidsOK'
  BY DEF IInv, TypeOK, GroupOK, KidsOK, FlightOK, GroupOf, WriteEndOpen
<1>4. OthersOK'
  BY DEF IInv, TypeOK, GroupOK, KidsOK, OthersOK, FlightOK
<1>5. FlightOK'
  BY DEF IInv, TypeOK, GroupOK, OthersOK, FlightOK, GroupOf
<1>6. TerminalOK'
  BY DEF IInv, TypeOK, GroupOK, FlightOK, TerminalOK, GroupOf, WriteEndOpen
<1> QED
  BY <1>1, <1>2, <1>3, <1>4, <1>5, <1>6 DEF IInv

LEMMA WaitpidStep == IInv /\ Waitpid => IInv'
<1> SUFFICES ASSUME IInv, Waitpid PROVE IInv'
  OBVIOUS
<1> USE DEF Waitpid, Goto, Processes, InFlight, Over, Alive
<1>1. TypeOK'
  BY DEF IInv, TypeOK, GroupOf
<1>2. GroupOK'
  BY DEF IInv, TypeOK, GroupOK, GroupOf
<1>3. KidsOK'
  BY DEF IInv, TypeOK, GroupOK, KidsOK, FlightOK, GroupOf, WriteEndOpen
<1>4. OthersOK'
  BY DEF IInv, TypeOK, GroupOK, KidsOK, OthersOK, FlightOK
<1>5. FlightOK'
  BY DEF IInv, TypeOK, GroupOK, OthersOK, FlightOK, GroupOf
<1>6. TerminalOK'
  BY DEF IInv, TypeOK, GroupOK, FlightOK, TerminalOK, GroupOf, WriteEndOpen
<1> QED
  BY <1>1, <1>2, <1>3, <1>4, <1>5, <1>6 DEF IInv

LEMMA RestoreForegroundStep == IInv /\ RestoreForeground => IInv'
<1> SUFFICES ASSUME IInv, RestoreForeground PROVE IInv'
  OBVIOUS
<1> USE DEF RestoreForeground, Goto, Processes, InFlight, Over, Alive
<1>1. TypeOK'
  BY DEF IInv, TypeOK, GroupOf
<1>2. GroupOK'
  BY DEF IInv, TypeOK, GroupOK, GroupOf
<1>3. KidsOK'
  BY DEF IInv, TypeOK, GroupOK, KidsOK, FlightOK, GroupOf, WriteEndOpen
<1>4. OthersOK'
  BY DEF IInv, TypeOK, GroupOK, KidsOK, OthersOK, FlightOK
<1>5. FlightOK'
  BY DEF IInv, TypeOK, GroupOK, OthersOK, FlightOK, GroupOf
<1>6. TerminalOK'
  BY DEF IInv, TypeOK, GroupOK, FlightOK, TerminalOK, GroupOf, WriteEndOpen
<1> QED
  BY <1>1, <1>2, <1>3, <1>4, <1>5, <1>6 DEF IInv

LEMMA NextCandidateStep == IInv /\ NextCandidate => IInv'
<1> SUFFICES ASSUME IInv, NextCandidate PROVE IInv'
  OBVIOUS
<1> USE DEF NextCandidate, Goto, Processes, InFlight, Over, Alive
<1>1. TypeOK'
  BY DEF IInv, TypeOK, GroupOf
<1>2. GroupOK'
  BY DEF IInv, TypeOK, GroupOK, GroupOf
<1>3. KidsOK'
  BY DEF IInv, TypeOK, GroupOK, KidsOK, FlightOK, GroupOf, WriteEndOpen
<1>4. OthersOK'
  BY DEF IInv, TypeOK, GroupOK, KidsOK, OthersOK, FlightOK
<1>5. FlightOK'
  BY DEF IInv, TypeOK, GroupOK, OthersOK, FlightOK, GroupOf
<1>6. TerminalOK'
  BY DEF IInv, TypeOK, GroupOK, FlightOK, TerminalOK, GroupOf, WriteEndOpen
<1> QED
  BY <1>1, <1>2, <1>3, <1>4, <1>5, <1>6 DEF IInv

LEMMA RollbackStep == IInv /\ Rollback => IInv'
<1> SUFFICES ASSUME IInv, Rollback PROVE IInv'
  OBVIOUS
<1> USE DEF Rollback, Goto, Processes, InFlight, Over, Alive
<1>1. TypeOK'
  BY DEF IInv, TypeOK, GroupOf
<1>2. GroupOK'
  BY DEF IInv, TypeOK, GroupOK, GroupOf
<1>3. KidsOK'
  BY DEF IInv, TypeOK, GroupOK, KidsOK, FlightOK, GroupOf, WriteEndOpen
<1>4. OthersOK'
  BY DEF IInv, TypeOK, GroupOK, KidsOK, OthersOK, FlightOK
<1>5. FlightOK'
  BY DEF IInv, TypeOK, GroupOK, OthersOK, FlightOK, GroupOf
<1>6. TerminalOK'
  BY DEF IInv, TypeOK, GroupOK, FlightOK, TerminalOK, GroupOf, WriteEndOpen
<1> QED
  BY <1>1, <1>2, <1>3, <1>4, <1>5, <1>6 DEF IInv

LEMMA ReclaimStep == IInv /\ Reclaim => IInv'
<1> SUFFICES ASSUME IInv, Reclaim PROVE IInv'
  OBVIOUS
<1> USE DEF Reclaim, Goto, Processes, InFlight, Over, Alive
<1>1. TypeOK'
  BY DEF IInv, TypeOK, GroupOf
<1>2. GroupOK'
  BY DEF IInv, TypeOK, GroupOK, GroupOf
<1>3. KidsOK'
  BY DEF IInv, TypeOK, GroupOK, KidsOK, FlightOK, GroupOf, WriteEndOpen
<1>4. OthersOK'
  BY DEF IInv, TypeOK, GroupOK, KidsOK, OthersOK, FlightOK
<1>5. FlightOK'
  BY DEF IInv, TypeOK, GroupOK, OthersOK, FlightOK, GroupOf
<1>6. TerminalOK'
  BY DEF IInv, TypeOK, GroupOK, FlightOK, TerminalOK, GroupOf, WriteEndOpen
<1> QED
  BY <1>1, <1>2, <1>3, <1>4, <1>5, <1>6 DEF IInv

LEMMA ChildSetpgidStep == ASSUME IInv, NEW c \in Pid, ChildSetpgid(c) PROVE IInv'
<1> USE DEF ChildSetpgid, May, Step, Report, shell, InFlight, Over, Alive
<1>1. InFlight /\ c = child
  BY DEF IInv, TypeOK, KidsOK, OthersOK
<1>2. TypeOK'
  <2>1. GroupOf(c) \in Pid \cup {Shell}
    BY DEF IInv, TypeOK, GroupOf
  <2>2. TypeOK
    BY DEF IInv
  <2>3. pgrp' \in [Pid -> Pid \cup {Shell}]
    <3>1. CASE pgrp' = [pgrp EXCEPT ![c] = GroupOf(c)]
      BY <2>1, <2>2, <3>1 DEF TypeOK
    <3>2. CASE pgrp' = pgrp
      BY <2>2, <3>2 DEF TypeOK
    <3> QED
      BY <3>1, <3>2
  <2>4. at' \in [Pid -> At]
    BY <2>2 DEF TypeOK, At
  <2>5. run' \in [Pid -> RunState]
    BY <2>2 DEF TypeOK, RunState
  <2>6. err' \in [Pid -> BOOLEAN]
    <3>1. CASE err' = [err EXCEPT ![c] = TRUE]
      BY <2>2, <3>1 DEF TypeOK
    <3>2. CASE err' = err
      BY <2>2, <3>2 DEF TypeOK
    <3> QED
      BY <3>1, <3>2
  <2>7. UNCHANGED <<pc, child, children, group, prev, fg, up>>
    OBVIOUS
  <2> HIDE DEF ChildSetpgid, May, Step, Report, shell, InFlight, Over, Alive
  <2> QED
    BY <2>2, <2>3, <2>4, <2>5, <2>6, <2>7 DEF TypeOK
<1>3. GroupOK'
  BY DEF IInv, TypeOK, GroupOK
<1>4. KidsOK'
  BY <1>1 DEF IInv, TypeOK, GroupOK, KidsOK
<1>5. OthersOK'
  BY <1>1 DEF IInv, TypeOK, GroupOK, OthersOK
<1>6. FlightOK'
  BY <1>1 DEF IInv, TypeOK, GroupOK, FlightOK, GroupOf
<1>7. TerminalOK'
  BY <1>1 DEF IInv, TypeOK, GroupOK, FlightOK, TerminalOK, GroupOf
<1> QED
  BY <1>2, <1>3, <1>4, <1>5, <1>6, <1>7 DEF IInv

LEMMA ChildTcsetpgrpStep == ASSUME IInv, NEW c \in Pid, ChildTcsetpgrp(c) PROVE IInv'
<1> USE DEF ChildTcsetpgrp, May, Step, Report, shell, InFlight, Over, Alive
<1>1. InFlight /\ c = child
  BY DEF IInv, TypeOK, KidsOK, OthersOK
<1>2. TypeOK'
  BY ZenonT(60) DEF IInv, TypeOK, GroupOf
<1>3. GroupOK'
  BY DEF IInv, TypeOK, GroupOK
<1>4. KidsOK'
  BY <1>1 DEF IInv, TypeOK, GroupOK, KidsOK
<1>5. OthersOK'
  BY <1>1 DEF IInv, TypeOK, GroupOK, OthersOK
<1>6. FlightOK'
  BY <1>1 DEF IInv, TypeOK, GroupOK, FlightOK, GroupOf
<1>7. TerminalOK'
  BY <1>1 DEF IInv, TypeOK, GroupOK, FlightOK, TerminalOK, GroupOf
<1> QED
  BY <1>2, <1>3, <1>4, <1>5, <1>6, <1>7 DEF IInv

LEMMA ChildDupStep == ASSUME IInv, NEW c \in Pid, ChildDup(c) PROVE IInv'
<1> USE DEF ChildDup, May, Step, Report, shell, InFlight, Over, Alive
<1>1. InFlight /\ c = child
  BY DEF IInv, TypeOK, KidsOK, OthersOK
<1>2. TypeOK'
  BY ZenonT(60) DEF IInv, TypeOK, GroupOf
<1>3. GroupOK'
  BY DEF IInv, TypeOK, GroupOK
<1>4. KidsOK'
  BY <1>1 DEF IInv, TypeOK, GroupOK, KidsOK
<1>5. OthersOK'
  BY <1>1 DEF IInv, TypeOK, GroupOK, OthersOK
<1>6. FlightOK'
  BY <1>1 DEF IInv, TypeOK, GroupOK, FlightOK, GroupOf
<1>7. TerminalOK'
  BY <1>1 DEF IInv, TypeOK, GroupOK, FlightOK, TerminalOK, GroupOf
<1> QED
  BY <1>2, <1>3, <1>4, <1>5, <1>6, <1>7 DEF IInv

LEMMA ChildExecStep == ASSUME IInv, NEW c \in Pid, ChildExec(c) PROVE IInv'
<1> USE DEF ChildExec, May, Step, Report, shell, InFlight, Over, Alive
<1>1. InFlight /\ c = child
  BY DEF IInv, TypeOK, KidsOK, OthersOK
<1>2. TypeOK'
  BY ZenonT(60) DEF IInv, TypeOK, GroupOf
<1>3. GroupOK'
  BY DEF IInv, TypeOK, GroupOK
<1>4. KidsOK'
  BY <1>1 DEF IInv, TypeOK, GroupOK, KidsOK
<1>5. OthersOK'
  BY <1>1 DEF IInv, TypeOK, GroupOK, OthersOK
<1>6. FlightOK'
  BY <1>1 DEF IInv, TypeOK, GroupOK, FlightOK, GroupOf
<1>7. TerminalOK'
  BY <1>1 DEF IInv, TypeOK, GroupOK, FlightOK, TerminalOK, GroupOf
<1> QED
  BY <1>2, <1>3, <1>4, <1>5, <1>6, <1>7 DEF IInv

LEMMA CtrlZStep == ASSUME IInv, CtrlZ PROVE IInv'
<1> USE DEF CtrlZ, Hit, Default, shell, Processes, InFlight, Over, Alive
<1>1. TypeOK'
  BY DEF IInv, TypeOK
<1>2. GroupOK'
  BY DEF IInv, TypeOK, GroupOK
<1>3. KidsOK'
  BY DEF IInv, TypeOK, GroupOK, KidsOK
<1>4. OthersOK'
  BY DEF IInv, TypeOK, GroupOK, OthersOK
<1>5. FlightOK'
  BY DEF IInv, TypeOK, GroupOK, OthersOK, FlightOK, GroupOf
<1>6. TerminalOK'
  BY DEF IInv, TypeOK, GroupOK, FlightOK, TerminalOK, GroupOf
<1> QED
  BY <1>1, <1>2, <1>3, <1>4, <1>5, <1>6 DEF IInv

LEMMA CtrlCStep == ASSUME IInv, CtrlC PROVE IInv'
<1> USE DEF CtrlC, Hit, Default, shell, Processes, InFlight, Over, Alive
<1>1. TypeOK'
  BY DEF IInv, TypeOK
<1>2. GroupOK'
  BY DEF IInv, TypeOK, GroupOK
<1>3. KidsOK'
  BY DEF IInv, TypeOK, GroupOK, KidsOK
<1>4. OthersOK'
  BY DEF IInv, TypeOK, GroupOK, OthersOK
<1>5. FlightOK'
  BY DEF IInv, TypeOK, GroupOK, OthersOK, FlightOK, GroupOf
<1>6. TerminalOK'
  BY DEF IInv, TypeOK, GroupOK, FlightOK, TerminalOK, GroupOf
<1> QED
  BY <1>1, <1>2, <1>3, <1>4, <1>5, <1>6 DEF IInv

LEMMA EndsStep == ASSUME IInv, NEW p \in Pid, Ends(p) PROVE IInv'
<1> USE DEF Ends, shell, Processes, InFlight, Over, Alive
<1>1. TypeOK'
  BY DEF IInv, TypeOK
<1>2. GroupOK'
  BY DEF IInv, TypeOK, GroupOK
<1>3. KidsOK'
  BY DEF IInv, TypeOK, GroupOK, KidsOK
<1>4. OthersOK'
  BY DEF IInv, TypeOK, GroupOK, OthersOK
<1>5. FlightOK'
  BY DEF IInv, TypeOK, GroupOK, OthersOK, FlightOK, GroupOf
<1>6. TerminalOK'
  BY DEF IInv, TypeOK, GroupOK, FlightOK, TerminalOK, GroupOf
<1> QED
  BY <1>1, <1>2, <1>3, <1>4, <1>5, <1>6 DEF IInv

LEMMA HandOverStep == ASSUME IInv, NEW p \in Pid, HandOver(p) PROVE IInv'
<1> USE DEF HandOver, shell, Processes, InFlight, Over, Alive
<1>1. TypeOK'
  BY DEF IInv, TypeOK
<1>2. GroupOK'
  BY DEF IInv, TypeOK, GroupOK
<1>3. KidsOK'
  BY DEF IInv, TypeOK, GroupOK, KidsOK
<1>4. OthersOK'
  BY DEF IInv, TypeOK, GroupOK, OthersOK
<1>5. FlightOK'
  BY DEF IInv, TypeOK, GroupOK, OthersOK, FlightOK, GroupOf
<1>6. TerminalOK'
  BY DEF IInv, TypeOK, GroupOK, FlightOK, TerminalOK, GroupOf
<1> QED
  BY <1>1, <1>2, <1>3, <1>4, <1>5, <1>6 DEF IInv

LEMMA HangupStep == ASSUME IInv, Hangup PROVE IInv'
<1> USE DEF Hangup, shell, Processes, InFlight, Over, Alive
<1>1. TypeOK'
  BY DEF IInv, TypeOK
<1>2. GroupOK'
  BY DEF IInv, TypeOK, GroupOK
<1>3. KidsOK'
  BY DEF IInv, TypeOK, GroupOK, KidsOK
<1>4. OthersOK'
  BY DEF IInv, TypeOK, GroupOK, OthersOK
<1>5. FlightOK'
  BY DEF IInv, TypeOK, GroupOK, OthersOK, FlightOK, GroupOf
<1>6. TerminalOK'
  BY DEF IInv, TypeOK, GroupOK, FlightOK, TerminalOK, GroupOf
<1> QED
  BY <1>1, <1>2, <1>3, <1>4, <1>5, <1>6 DEF IInv

LEMMA StutterStep == IInv /\ UNCHANGED vars => IInv'
BY DEF vars, shell, IInv, TypeOK, GroupOK, KidsOK, OthersOK, FlightOK, TerminalOK,
       InFlight, Over, Alive, GroupOf

LEMMA NextInvariant == IInv /\ [Next]_vars => IInv'
<1> SUFFICES ASSUME IInv, [Next]_vars PROVE IInv'
  OBVIOUS
<1>1. CASE ParentStep
  BY <1>1, ForkStep, ForkFailsStep, ParentSetpgidStep, ParentTcsetpgrpStep,
     ReadErrorStep, ReadEofStep, WaitpidStep, RestoreForegroundStep,
     NextCandidateStep, RollbackStep, ReclaimStep
     DEF ParentStep
<1>2. ASSUME NEW c \in Pid, ChildStep(c) PROVE IInv'
  BY <1>2, ChildSetpgidStep, ChildTcsetpgrpStep, ChildDupStep, ChildExecStep
     DEF ChildStep
<1>3. CASE EnvironmentStep
  BY <1>3, CtrlZStep, CtrlCStep, EndsStep, HandOverStep, HangupStep
     DEF EnvironmentStep
<1>4. CASE UNCHANGED vars
  BY <1>4, StutterStep
<1> QED
  BY <1>1, <1>2, <1>3, <1>4 DEF Next

\* The inductive invariant of a launch.
THEOREM Invariant == Spec => []IInv
<1>1. Init => IInv
  BY InitInvariant
<1>2. IInv /\ [Next]_vars => IInv'
  BY NextInvariant
<1> QED
  BY <1>1, <1>2, PTL DEF Spec

-----------------------------------------------------------------------------
(* The properties.                                                         *)

\* The variables of a launch keep their types.
THEOREM TypeOKHolds == Spec => []TypeOK
<1>1. IInv => TypeOK
  BY DEF IInv
<1> QED
  BY <1>1, Invariant, PTL

\* No program of a pipeline runs in the background while its launch goes on,
\* however the parent's and the children's calls interleave.
THEOREM HandoffBeforeExecHolds == Spec => []HandoffBeforeExec
<1>1. ASSUME IInv PROVE HandoffBeforeExec
  <2> SUFFICES ASSUME NEW p \in Pid, Alive(p), at[p] = "image", up
               PROVE  fg \in {pgrp[p], Other}
    BY DEF HandoffBeforeExec
  <2>1. CASE p \in children
    <3>1. pgrp[p] = group /\ ~Over /\ group # Shell
      BY <1>1, <2>1 DEF IInv, KidsOK, GroupOK, Alive
    <3> QED
      BY <1>1, <3>1 DEF IInv, TerminalOK
  <2>2. CASE p \notin children
    <3>1. InFlight /\ p = child /\ ~err[p]
      BY <1>1, <2>2 DEF IInv, OthersOK, FlightOK, Alive
    <3>2. pgrp[p] = GroupOf(p)
      BY <1>1, <3>1 DEF IInv, FlightOK
    <3> QED
      BY <1>1, <3>1, <3>2 DEF IInv, TerminalOK
  <2> QED
    BY <2>1, <2>2
<1> QED
  BY <1>1, Invariant, PTL

\* A later stage always finds the group of the first, even when every earlier
\* process has ended.
THEOREM JoinSucceedsHolds == Spec => []JoinSucceeds
<1>1. ASSUME IInv PROVE JoinSucceeds
  <2> SUFFICES ASSUME NEW p \in Pid, run[p] = "ready", at[p] = "setpgid", group # Shell
               PROVE  Exists(group)
    BY DEF JoinSucceeds
  <2>1. p \notin children /\ InFlight
    BY <1>1 DEF IInv, KidsOK, OthersOK, Alive
  <2>2. group \in children /\ group \in Pid
    BY <1>1 DEF IInv, GroupOK, TypeOK
  <2>3. pgrp[group] = group /\ (Alive(group) \/ run[group] = "zombie")
    BY <1>1, <2>1, <2>2 DEF IInv, KidsOK, InFlight, Over
  <2> QED
    BY <2>2, <2>3 DEF Exists
<1> QED
  BY <1>1, Invariant, PTL

\* A launch that ends has either all its stages, unreaped and in one group,
\* and nothing else, or no child at all.
THEOREM AllOrNothingHolds == Spec => []AllOrNothing
<1>1. ASSUME IInv PROVE AllOrNothing
  <2>1. ASSUME NEW p \in children, pc = "launched"
        PROVE  pgrp[p] = group /\ run[p] # "gone"
    BY <1>1, <2>1 DEF IInv, KidsOK, Over, Alive
  <2>2. ASSUME NEW p \in Pid \ children, pc \in {"launched", "failed", "back"}
        PROVE  run[p] \in {"none", "gone"}
    BY <1>1, <2>2 DEF IInv, OthersOK, InFlight
  <2>3. ASSUME NEW p \in children, pc \in {"failed", "back"}
        PROVE  run[p] = "gone"
    BY <1>1, <2>3 DEF IInv, KidsOK, Over
  <2> QED
    BY <2>1, <2>2, <2>3 DEF AllOrNothing
<1> QED
  BY <1>1, Invariant, PTL

=============================================================================
