------------------------------ MODULE LinuxJobs ------------------------------
(***************************************************************************)
(* Process groups, child state changes and the controlling terminal, as    *)
(* the Linux host profile (linux_host_base.inc, linux_job_host.inc) shows  *)
(* them to an L program, and what the processes, the user and other        *)
(* programs may do to them meanwhile.                                      *)
(*                                                                         *)
(* The kernel keeps one unreported change per child: a stop or a continue  *)
(* replaces the other, and an exit replaces both until it is reaped.       *)
(***************************************************************************)
EXTENDS Integers, FiniteSets

CONSTANTS
  Job,        \* process groups of jobs; a group is named like its job
  Shell,      \* the process group of the shell
  Other,      \* a group that a program of a job made for itself
  Cooked,     \* the terminal mode the shell found at its start (shell_mode)
  Raw,        \* the mode term.enter_raw sets for the line editor
  MaxStages,  \* bound on the commands of a pipeline
  MaxSignals  \* bound on the SIGCONTs sent from outside the shell

ASSUME GroupsAssumption ==
  /\ Shell \notin Job /\ Other \notin Job /\ Shell # Other
  /\ Cooked \notin Job /\ Raw \notin Job /\ Cooked # Raw
  /\ MaxStages \in Nat \ {0} /\ MaxSignals \in Nat

VARIABLES
  proc,     \* the state of the process of each stage of each job
  news,     \* its unreported change while it lives
  fg,       \* the terminal's foreground process group
  mode,     \* the terminal's mode: Cooked, Raw, or the one job j set
  up,       \* the terminal has not been hung up
  signals   \* SIGCONTs sent from outside so far

kernel == <<proc, news, fg, mode, up, signals>>

Stage == 1 .. MaxStages
ProcState == {"none", "running", "stopped", "zombie", "gone"}
Mode == Job \cup {Cooked, Raw}

KernelTypeOK ==
  /\ proc \in [Job -> [Stage -> ProcState]]
  /\ news \in [Job -> [Stage -> {"none", "stop", "cont"}]]
  /\ fg \in Job \cup {Shell, Other}
  /\ mode \in Mode
  /\ up \in BOOLEAN
  /\ signals \in 0 .. MaxSignals

Running(j) == {i \in Stage : proc[j][i] = "running"}
Alive(j) == {i \in Stage : proc[j][i] \in {"running", "stopped"}}
Unreaped(j) == {i \in Stage : proc[j][i] \in {"running", "stopped", "zombie"}}

-----------------------------------------------------------------------------
(* Host operations of the shell, as parts of its actions.                  *)

\* linux_spawn_exact_impl with a foreground terminal, as one step: the child
\* is in the job's group, which owns the terminal. A later stage can join the
\* group only while one of its processes is unreaped.
CanSpawn(j, i) == up /\ (i > 1 => Unreaped(j) # {})
Spawn(j, i) ==
  /\ CanSpawn(j, i)
  /\ proc' = [proc EXCEPT ![j][i] = "running"]
  /\ fg' = j
  /\ UNCHANGED <<news, mode, up, signals>>

\* tcsetpgrp with SIGTTOU blocked; the group needs an unreaped process.
CanSetForeground(g) == up /\ (g \in Job => Unreaped(g) # {})

\* waitid on a group: which child's change is reported is the kernel's choice.
Reportable(j, i) == proc[j][i] = "zombie" \/ news[j][i] # "none"
Report(j, i) ==
  /\ Reportable(j, i)
  /\ news' = [news EXCEPT ![j][i] = "none"]
  /\ proc' = [proc EXCEPT ![j][i] = IF @ = "zombie" THEN "gone" ELSE @]
  /\ UNCHANGED <<fg, mode, up, signals>>

\* kill(-pgid, SIGCONT) and kill(-pgid, SIGKILL).
ContGroup(j) ==
  /\ proc' = [proc EXCEPT ![j] = [i \in Stage |->
                IF @[i] = "stopped" THEN "running" ELSE @[i]]]
  /\ news' = [news EXCEPT ![j] = [i \in Stage |->
                IF proc[j][i] = "stopped" THEN "cont" ELSE @[i]]]
  /\ UNCHANGED <<fg, mode, up, signals>>
KillGroup(j) ==
  /\ proc' = [proc EXCEPT ![j] = [i \in Stage |->
                IF i \in Alive(j) THEN "zombie" ELSE @[i]]]
  /\ news' = [news EXCEPT ![j] = [i \in Stage |-> "none"]]
  /\ UNCHANGED <<fg, mode, up, signals>>

\* Kill and reap: the children of one job (executor's rollback), or all that
\* were not waited for (linux_host_cleanup).
KillAndReap(js) ==
  /\ proc' = [j \in Job |-> [i \in Stage |->
                IF j \in js /\ i \in Unreaped(j) THEN "gone" ELSE proc[j][i]]]
  /\ news' = [j \in Job |-> IF j \in js THEN [i \in Stage |-> "none"] ELSE news[j]]

-----------------------------------------------------------------------------
(* The environment: nothing here is under the shell's control, and no      *)
(* fairness is assumed of it.                                              *)

\* A process ends, by itself or by a signal (Ctrl-C, SIGKILL).
Exit(j, i) ==
  /\ i \in Alive(j)
  /\ proc' = [proc EXCEPT ![j][i] = "zombie"]
  /\ news' = [news EXCEPT ![j][i] = "none"]
  /\ UNCHANGED <<fg, mode, up, signals>>

\* It stops: Ctrl-Z, SIGSTOP, or terminal access from the background.
Stop(j, i) ==
  /\ i \in Running(j)
  /\ proc' = [proc EXCEPT ![j][i] = "stopped"]
  /\ news' = [news EXCEPT ![j][i] = "stop"]
  /\ UNCHANGED <<fg, mode, up, signals>>

\* Another program continues it.
OutsideCont(j, i) ==
  /\ signals < MaxSignals /\ proc[j][i] = "stopped"
  /\ proc' = [proc EXCEPT ![j][i] = "running"]
  /\ news' = [news EXCEPT ![j][i] = "cont"]
  /\ signals' = signals + 1
  /\ UNCHANGED <<fg, mode, up>>

\* A running program of the foreground job sets a terminal mode of its own,
\* or gives the terminal to a group it made (a shell run as a job does).
ChangeMode(j) ==
  /\ up /\ fg = j /\ Running(j) # {}
  /\ mode' = j
  /\ UNCHANGED <<proc, news, fg, up, signals>>
HandOver(j) ==
  /\ up /\ fg = j /\ Running(j) # {}
  /\ fg' = Other
  /\ UNCHANGED <<proc, news, mode, up, signals>>

Hangup ==
  /\ up /\ up' = FALSE
  /\ UNCHANGED <<proc, news, fg, mode, signals>>

EnvironmentStep ==
  \/ \E j \in Job, i \in Stage : Exit(j, i)
  \/ \E j \in Job, i \in Stage : Stop(j, i)
  \/ \E j \in Job, i \in Stage : OutsideCont(j, i)
  \/ \E j \in Job : ChangeMode(j)
  \/ \E j \in Job : HandOver(j)
  \/ Hangup

KernelInit ==
  /\ proc = [j \in Job |-> [i \in Stage |-> "none"]]
  /\ news = [j \in Job |-> [i \in Stage |-> "none"]]
  /\ fg = Shell /\ mode = Raw /\ up = TRUE /\ signals = 0

=============================================================================
