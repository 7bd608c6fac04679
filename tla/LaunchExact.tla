----------------------------- MODULE LaunchExact -----------------------------
(***************************************************************************)
(* One foreground launch of a pipeline, call by call: launch_impl and      *)
(* spawn_command of tools/shell/executor.l over linux_spawn_exact_impl of  *)
(* src/vm/linux_host_base.inc. Parent and child run concurrently from the  *)
(* fork to the exec; both put the child into the job's process group and   *)
(* give the group the terminal, and the parent learns of the exec from a   *)
(* close-on-exec pipe. Meanwhile earlier stages run and the user types.    *)
(***************************************************************************)
EXTENDS Integers, FiniteSets

CONSTANTS
  Stages,     \* commands of the pipeline
  MaxForks    \* bound on the forks: stages, and PATH candidates that fail

ASSUME LaunchAssumption == Stages \in Nat \ {0} /\ MaxForks \in Nat \ {0}

Pid == 1 .. MaxForks
Shell == 0       \* the shell's process group; a job's is named by its leader
Other == -1      \* a group made by a program of the job

VARIABLES
  pc,        \* the shell in launch_impl, or after it
  child,     \* the child of the last fork (0: none)
  children,  \* launch_impl's children
  group,     \* launch_impl's group (Shell: none yet)
  prev,      \* previous_foreground
  fg, up,    \* the terminal's foreground group; it is not hung up
  at,        \* what each process will do next; "image": it has exec'd
  run,       \* how it is
  pgrp,      \* its process group
  err        \* it reported an error through its launch pipe

shell == <<pc, child, children, group, prev>>
vars == <<shell, fg, up, at, run, pgrp, err>>

At == {"none", "setpgid", "tcsetpgrp", "dup", "exec", "image"}
RunState == {"none", "ready", "stopped", "zombie", "gone"}
Groups == Pid \cup {Shell, Other}

Alive(p) == run[p] \in {"ready", "stopped"}
\* A process group exists while it has a process that is not reaped.
Exists(g) ==
  g \in {Shell, Other} \/ \E p \in Pid : pgrp[p] = g /\ (Alive(p) \/ run[p] = "zombie")
\* The group of a child: the pipeline's, or its own for the first stage.
GroupOf(p) == IF group = Shell THEN p ELSE group
\* signal(..., SIG_DFL) was done; before, the shell's "ignored" is inherited.
Default(p) == at[p] \in {"exec", "image"}
\* (mutant: the parent keeps its own write end)
WriteEndOpen_Parent(p) == TRUE
\* The write end of a launch pipe is closed by exec or by death.
WriteEndOpen(p) == Alive(p) /\ at[p] # "image"

-----------------------------------------------------------------------------
(* The parent.                                                             *)

Goto(l) == pc' = l /\ UNCHANGED <<child, children, group, prev>>
Processes == <<at, run, pgrp, err>>

\* tcgetpgrp, pipe and fork; without a terminal, or a process, an error.
Fork ==
  /\ pc = "fork" /\ up /\ child < MaxForks
  /\ LET c == child + 1
     IN  /\ child' = c /\ prev' = fg
         /\ at' = [at EXCEPT ![c] = "setpgid"]
         /\ run' = [run EXCEPT ![c] = "ready"]
         /\ pgrp' = [pgrp EXCEPT ![c] = Shell]
  /\ pc' = "setpgid"
  /\ UNCHANGED <<children, group, fg, up, err>>
ForkFails ==
  /\ pc = "fork" /\ Goto("failing")
  /\ UNCHANGED <<fg, up, Processes>>

\* setpgid of the child: refused once it has exec'd, or is reaped.
ParentSetpgid ==
  /\ pc = "setpgid"
  /\ pgrp' = [pgrp EXCEPT ![child] =
                IF at[child] # "image" /\ Alive(child)
                   /\ (GroupOf(child) = child \/ Exists(GroupOf(child)))
                THEN GroupOf(child) ELSE @]
  /\ Goto("tcsetpgrp")
  /\ UNCHANGED <<fg, up, at, run, err>>

ParentTcsetpgrp ==
  /\ pc = "tcsetpgrp"
  /\ fg' = IF up /\ Exists(GroupOf(child)) THEN GroupOf(child) ELSE fg
  /\ Goto("read")
  /\ UNCHANGED <<up, Processes>>

\* The read of the launch pipe: an error number, or end of file.
ReadError ==
  /\ pc = "read" /\ err[child] /\ Goto("waitpid")
  /\ UNCHANGED <<fg, up, Processes>>
\* (mutant: a child that has ended already is reaped at once)
ReadEof_Reaps ==
  /\ pc = "read" /\ ~err[child] /\ ~WriteEndOpen(child)
  /\ children' = children \cup {child} /\ group' = GroupOf(child)
  /\ run' = [run EXCEPT ![child] = IF @ = "zombie" THEN "gone" ELSE @]
  /\ pc' = IF Cardinality(children') = Stages THEN "launched" ELSE "fork"
  /\ UNCHANGED <<child, prev, fg, up, at, pgrp, err>>
ReadEof ==
  /\ pc = "read" /\ ~err[child] /\ ~WriteEndOpen(child)
  /\ children' = children \cup {child} /\ group' = GroupOf(child)
  /\ pc' = IF Cardinality(children') = Stages THEN "launched" ELSE "fork"
  /\ UNCHANGED <<child, prev, fg, up, Processes>>

\* (mutant: waitpid(-1))
Waitpid_Any ==
  /\ pc = "waitpid" /\ Goto("restore")
  /\ \E p \in Pid : run[p] = "zombie" /\ run' = [run EXCEPT ![p] = "gone"]
  /\ UNCHANGED <<fg, up, at, pgrp, err>>
Waitpid ==
  /\ pc = "waitpid" /\ run[child] = "zombie" /\ Goto("restore")
  /\ run' = [run EXCEPT ![child] = "gone"]
  /\ UNCHANGED <<fg, up, at, pgrp, err>>

\* (mutant: the terminal goes back to the shell, as for a first stage)
RestoreForeground_Shell ==
  /\ pc = "restore" /\ Goto("failing")
  /\ fg' = IF up THEN Shell ELSE fg
  /\ UNCHANGED <<up, Processes>>
RestoreForeground ==
  /\ pc = "restore" /\ Goto("failing")
  /\ fg' = IF up /\ Exists(prev) THEN prev ELSE fg
  /\ UNCHANGED <<up, Processes>>

\* spawn_command tries the next candidate of PATH, or launch_impl gives up:
\* kill_children and wait_exit.
NextCandidate ==
  /\ pc = "failing" /\ Goto("fork")
  /\ UNCHANGED <<fg, up, Processes>>
Rollback ==
  /\ pc = "failing"
  /\ run' = [p \in Pid |-> IF p \in children THEN "gone" ELSE run[p]]
  /\ Goto("failed")
  /\ UNCHANGED <<fg, up, at, pgrp, err>>
\* external: enable_editor_terminal takes the terminal back.
Reclaim ==
  /\ pc = "failed" /\ up
  /\ fg' = Shell /\ Goto("back")
  /\ UNCHANGED <<up, Processes>>

-----------------------------------------------------------------------------
(* The child c, from fork to exec.                                         *)

May(c, a) == run[c] = "ready" /\ at[c] = a
Step(c, a) == at' = [at EXCEPT ![c] = a] /\ UNCHANGED <<run, err>>
Report(c) ==
  /\ err' = [err EXCEPT ![c] = TRUE]
  /\ run' = [run EXCEPT ![c] = "zombie"]
  /\ UNCHANGED at

\* (mutant: the terminal is left to the parent)
ChildSetpgid_ThenDup(c) ==
  /\ May(c, "setpgid")
  /\ pgrp' = [pgrp EXCEPT ![c] = GroupOf(c)] /\ Step(c, "dup")
  /\ UNCHANGED <<shell, fg, up>>
ChildSetpgid(c) ==
  /\ May(c, "setpgid")
  /\ IF GroupOf(c) = c \/ Exists(GroupOf(c))
     THEN pgrp' = [pgrp EXCEPT ![c] = GroupOf(c)] /\ Step(c, "tcsetpgrp")
     ELSE Report(c) /\ UNCHANGED pgrp
  /\ UNCHANGED <<shell, fg, up>>
ChildTcsetpgrp(c) ==
  /\ May(c, "tcsetpgrp")
  /\ IF up THEN fg' = pgrp[c] /\ Step(c, "dup")
     ELSE Report(c) /\ UNCHANGED fg
  /\ UNCHANGED <<shell, up, pgrp>>
\* dup2, the inherited descriptors, signal(..., SIG_DFL)
ChildDup(c) ==
  /\ May(c, "dup")
  /\ Step(c, "exec") \/ Report(c)
  /\ UNCHANGED <<shell, fg, up, pgrp>>
ChildExec(c) ==
  /\ May(c, "exec")
  /\ Step(c, "image") \/ Report(c)
  /\ UNCHANGED <<shell, fg, up, pgrp>>

ChildStep(c) ==
  \/ ChildSetpgid(c)
  \/ ChildTcsetpgrp(c)
  \/ ChildDup(c)
  \/ ChildExec(c)

-----------------------------------------------------------------------------
(* The user, the programs, the terminal line.                              *)

\* Ctrl-Z and Ctrl-C reach the foreground group, where not ignored.
Hit == {p \in Pid : run[p] \in {"ready", "stopped"} /\ pgrp[p] = fg /\ Default(p)}
CtrlZ ==
  /\ up /\ Hit # {}
  /\ run' = [p \in Pid |-> IF p \in Hit THEN "stopped" ELSE run[p]]
  /\ UNCHANGED <<shell, fg, up, at, pgrp, err>>
CtrlC ==
  /\ up /\ Hit # {}
  /\ run' = [p \in Pid |-> IF p \in Hit /\ run[p] = "ready" THEN "zombie" ELSE run[p]]
  /\ UNCHANGED <<shell, fg, up, at, pgrp, err>>

\* A program ends, or gives the terminal to a group of its own; a process is
\* killed from outside.
Ends(p) ==
  /\ Alive(p) /\ (run[p] = "ready" => at[p] = "image")
  /\ run' = [run EXCEPT ![p] = "zombie"]
  /\ UNCHANGED <<shell, fg, up, at, pgrp, err>>
HandOver(p) ==
  /\ up /\ run[p] = "ready" /\ at[p] = "image" /\ fg = pgrp[p]
  /\ fg' = Other
  /\ UNCHANGED <<shell, up, Processes>>
Hangup ==
  /\ up /\ up' = FALSE
  /\ UNCHANGED <<shell, fg, Processes>>

-----------------------------------------------------------------------------
Init ==
  /\ pc = "fork" /\ child = 0 /\ children = {} /\ group = Shell /\ prev = Shell
  /\ fg = Shell /\ up = TRUE
  /\ at = [p \in Pid |-> "none"] /\ run = [p \in Pid |-> "none"]
  /\ pgrp = [p \in Pid |-> Shell] /\ err = [p \in Pid |-> FALSE]

ParentStep ==
  \/ Fork
  \/ ForkFails
  \/ ParentSetpgid
  \/ ParentTcsetpgrp
  \/ ReadError
  \/ ReadEof
  \/ Waitpid
  \/ RestoreForeground
  \/ NextCandidate
  \/ Rollback
  \/ Reclaim

EnvironmentStep ==
  \/ CtrlZ
  \/ CtrlC
  \/ \E p \in Pid : Ends(p)
  \/ \E p \in Pid : HandOver(p)
  \/ Hangup

Next ==
  \/ ParentStep
  \/ \E c \in Pid : ChildStep(c)
  \/ pc \notin {"launched", "back"} /\ EnvironmentStep

Spec == Init /\ [][Next]_vars

\* The scheduler runs the shell and every child that is not stopped.
FairSpec == Spec /\ WF_vars(ParentStep) /\ \A c \in Pid : WF_vars(ChildStep(c))

-----------------------------------------------------------------------------
(* The properties.                                                         *)

TypeOK ==
  /\ pc \in {"fork", "setpgid", "tcsetpgrp", "read", "waitpid", "restore", "failing",
             "failed", "back", "launched"}
  /\ child \in 0 .. MaxForks /\ children \subseteq Pid
  /\ group \in Pid \cup {Shell} /\ prev \in Groups /\ fg \in Groups /\ up \in BOOLEAN
  /\ at \in [Pid -> At] /\ run \in [Pid -> RunState]
  /\ pgrp \in [Pid -> Pid \cup {Shell}] /\ err \in [Pid -> BOOLEAN]

\* A program of the pipeline never runs in the background while the launch
\* goes on: its group got the terminal before its exec, and keeps it through
\* failed attempts at later stages (else it is stopped by SIGTTIN at once).
HandoffBeforeExec ==
  \A p \in Pid : Alive(p) /\ at[p] = "image" /\ up => fg \in {pgrp[p], Other}

\* A later stage finds the first one's group, even when every earlier process
\* has ended already: none of them is reaped before the launch is over.
JoinSucceeds ==
  \A p \in Pid : run[p] = "ready" /\ at[p] = "setpgid" /\ group # Shell => Exists(group)

\* A launch is all or nothing: it ends with every stage in one group and no
\* other child left, or with no child left at all.
AllOrNothing ==
  /\ pc = "launched" =>
       \A p \in Pid : /\ p \in children => pgrp[p] = group /\ run[p] # "gone"
                      /\ p \notin children => run[p] \in {"none", "gone"}
  /\ pc \in {"failed", "back"} => \A p \in Pid : run[p] \in {"none", "gone"}

\* The parent's read of the launch pipe returns, unless the child was stopped
\* between its signal(SIGTSTP, SIG_DFL) and its exec.
StoppedBeforeExec == run[child] = "stopped" /\ at[child] # "image"
ReadReturns == (pc = "read") ~> (pc # "read" \/ StoppedBeforeExec)

\* tests/shell_pty.py:169: "Ctrl-Z likewise stops the child pgrp rather than
\* the shell. The job is retained, visible to `jobs`, and `fg` can resume it":
\* whatever Ctrl-Z stops, the launch comes to its end and the shell goes on.
CtrlZKeepsTheShell ==
  (\E p \in Pid : run[p] = "stopped") ~> (pc \in {"launched", "back"} \/ ~up)

=============================================================================
