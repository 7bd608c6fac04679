------------------------------ MODULE ShellJobs ------------------------------
(***************************************************************************)
(* The interactive shell's job control (tools/shell/job_control.l, and the *)
(* parts of executor.l and main.l that launch, wait for and resume jobs),  *)
(* on the process groups and terminal of LinuxJobs.                        *)
(*                                                                         *)
(* The shell is one thread; an action is what it does from one host call   *)
(* that meets the outside world to the next, so processes may exit, stop,  *)
(* continue or change the terminal between any two of them.                *)
(***************************************************************************)
EXTENDS LinuxJobs, Sequences

CONSTANTS
  NoMode,   \* the "none" of Job.tty_mode
  NoJob     \* no command is running

ASSUME NoneAssumption == NoMode \notin Mode /\ NoJob \notin Job

VARIABLES
  pc,       \* where the shell is
  cmd,      \* the command being executed: "none", "run", "fg", "bg", "jobs"
  at,       \* the index poll_all or launch_impl has reached
  want,     \* the number of commands in the pipeline being launched
  cur,      \* the job of the running command
  resume,   \* run_foreground's parameter
  member,   \* Member.state of each stage; "none" when there is no Member
  jstate,   \* Job.state
  saved,    \* Job.tty_mode
  stored,   \* the jobs whose id is not 0
  table     \* Table.jobs

shell == <<pc, cmd, at, want, cur, resume, member, jstate, saved, stored, table>>
jobs == <<member, jstate, saved, stored, table>>
vars == <<kernel, shell>>

MemberState == {"none", "running", "stopped", "done"}   \* "done": exited, signaled
JobState == {"running", "stopped", "done"}
Ended == {"closed", "killed"}
InTable == {table[k] : k \in DOMAIN table}

-----------------------------------------------------------------------------
(* job_control.l                                                           *)

\* (mutant: a job with an ended member counts as running)
Refreshed_EndedRuns(ms) ==
  IF \A i \in Stage : ms[i] \in {"none", "done"} THEN "done"
  ELSE IF \A i \in Stage : ms[i] \in {"none", "stopped"} THEN "stopped" ELSE "running"
\* refresh
Refreshed(ms) ==
  IF \A i \in Stage : ms[i] \in {"none", "done"} THEN "done"
  ELSE IF \A i \in Stage : ms[i] # "running" THEN "stopped" ELSE "running"

\* event_state: what the next event about a process says.
EventState(j, i) ==
  IF proc[j][i] = "zombie" THEN "done"
  ELSE IF news[j][i] = "stop" THEN "stopped" ELSE "running"

\* apply_event, on an event of the group
ApplyEvent(j, i) ==
  /\ Report(j, i)
  /\ member' = [member EXCEPT ![j][i] = EventState(j, i)]
  /\ jstate' = [jstate EXCEPT ![j] = Refreshed(member'[j])]

\* from_live, once every command of the pipeline was spawned
FromLive(j, n) ==
  /\ member' = [member EXCEPT ![j] =
       [i \in Stage |-> IF i <= n THEN "running" ELSE "none"]]
  /\ jstate' = [jstate EXCEPT ![j] = "running"]
  /\ saved' = [saved EXCEPT ![j] = NoMode]

\* (mutant: every member is marked, also one that ended)
MarkStoppedRunning_Ended(j) ==
  /\ member' = [member EXCEPT ![j] = [i \in Stage |->
       IF @[i] # "none" THEN "running" ELSE @[i]]]
  /\ jstate' = [jstate EXCEPT ![j] = Refreshed(member'[j])]
\* mark_stopped_running
MarkStoppedRunning(j) ==
  /\ member' = [member EXCEPT ![j] = [i \in Stage |->
       IF @[i] = "stopped" THEN "running" ELSE @[i]]]
  /\ jstate' = [jstate EXCEPT ![j] = Refreshed(member'[j])]

\* continue_job: SIGCONT fails when the group has no process left.
ContinueJob(j) ==
  IF Unreaped(j) # {}
  THEN ContGroup(j) /\ MarkStoppedRunning(j)
  ELSE UNCHANGED <<kernel, member, jstate>>

\* store and prune_done
Store(j) ==
  IF j \in stored THEN UNCHANGED <<stored, table>>
  ELSE stored' = stored \cup {j} /\ table' = Append(table, j)
\* The table becomes its entries ks, in their order.
Keep(ks) ==
  \E f \in [1 .. Cardinality(ks) -> ks] :
    /\ ks = {f[n] : n \in DOMAIN f}
    /\ \A m, n \in DOMAIN f : m < n => f[m] < f[n]
    /\ table' = [n \in 1 .. Cardinality(ks) |-> table[f[n]]]
\* (mutant: stopped jobs are dropped too)
PruneDone_DropsStopped == Keep({k \in DOMAIN table : jstate[table[k]] = "running"})
PruneDone == Keep({k \in DOMAIN table : jstate[table[k]] # "done"})

-----------------------------------------------------------------------------
(* The loop of run_with_terminal: poll_all, then a key.                    *)

\* Back to the top of the loop; the locals of the command are gone.
Loop == /\ pc' = "poll" /\ at' = 1 /\ cmd' = "none"
        /\ want' = 1 /\ cur' = NoJob /\ resume' = FALSE
Goto(l) == pc' = l /\ UNCHANGED <<cmd, at, want, cur, resume>>
\* A host call on the terminal failed: ui.running = false.
GiveUp == Goto("leave") /\ UNCHANGED <<kernel, jobs>>

\* poll, one wait.poll_group of it.
PollEvent(i) ==
  /\ pc = "poll" /\ at \in DOMAIN table /\ jstate[table[at]] # "done"
  /\ ApplyEvent(table[at], i)
  /\ at' = IF jstate'[table[at]] = "done" THEN at + 1 ELSE at
  /\ UNCHANGED <<pc, cmd, want, cur, resume, saved, stored, table>>
\* (mutant: only running jobs are polled)
PollNext_RunningOnly ==
  /\ pc = "poll" /\ at \in DOMAIN table
  /\ LET j == table[at]
     IN  \/ jstate[j] # "running"
         \/ Unreaped(j) # {} /\ \A i \in Stage : ~Reportable(j, i)
  /\ at' = at + 1
  /\ UNCHANGED <<kernel, pc, cmd, want, cur, resume, jobs>>
PollNext ==
  /\ pc = "poll" /\ at \in DOMAIN table
  /\ LET j == table[at]
     IN  \/ jstate[j] = "done"
         \/ Unreaped(j) # {} /\ \A i \in Stage : ~Reportable(j, i)
  /\ at' = at + 1
  /\ UNCHANGED <<kernel, pc, cmd, want, cur, resume, jobs>>
PollEnd ==
  /\ pc = "poll" /\ at \notin DOMAIN table
  /\ pc' = IF cmd = "none" THEN "read" ELSE "select"
  /\ at' = 1
  /\ UNCHANGED <<kernel, cmd, want, cur, resume, jobs>>

\* waitid would say ECHILD: the host call dies, and the shell with it.
PollDies == pc = "poll" /\ at \in DOMAIN table /\ jstate[table[at]] # "done"
            /\ Unreaped(table[at]) = {}
WaitDies == pc \in {"wait", "killwait"} /\ Refreshed(member[cur]) = "running"
            /\ Unreaped(cur) = {}

\* read_key_timeout returns without a key, or with one that runs no job.
Idle ==
  /\ pc = "read" /\ Loop
  /\ UNCHANGED <<kernel, jobs>>

\* An external pipeline of n commands; fg, bg and jobs poll first.
Run(j, n) ==
  /\ pc = "read" /\ \A i \in Stage : proc[j][i] = "none"
  /\ pc' = "release" /\ cmd' = "run" /\ cur' = j /\ want' = n
  /\ UNCHANGED <<kernel, at, resume, jobs>>
Builtin(c) ==
  /\ pc = "read"
  /\ pc' = "poll" /\ at' = 1 /\ cmd' = c
  /\ UNCHANGED <<kernel, want, cur, resume, jobs>>
Quit ==
  /\ pc = "read" /\ Goto("leave")
  /\ UNCHANGED <<kernel, jobs>>

JobsBuiltin ==
  /\ pc = "select" /\ cmd = "jobs"
  /\ UNCHANGED <<kernel, member, jstate, saved, stored>>
  /\ PruneDone /\ Loop
\* No such job, or one already done: fg and bg only say so.
NoSuchJob ==
  /\ pc = "select" /\ cmd \in {"fg", "bg"}
  /\ Loop /\ UNCHANGED <<kernel, jobs>>
BgBuiltin(j) ==
  /\ pc = "select" /\ cmd = "bg" /\ j \in InTable /\ jstate[j] # "done"
  /\ IF jstate[j] = "stopped" THEN ContinueJob(j)
     ELSE UNCHANGED <<kernel, member, jstate>>
  /\ Loop /\ UNCHANGED <<saved, stored, table>>
FgBuiltin(j) ==
  /\ pc = "select" /\ cmd = "fg" /\ j \in InTable /\ jstate[j] # "done"
  /\ pc' = "release" /\ cur' = j /\ resume' = (jstate[j] = "stopped")
  /\ UNCHANGED <<kernel, cmd, at, want, jobs>>

-----------------------------------------------------------------------------
(* The terminal. A process that sets the mode from the background is       *)
(* stopped by SIGTTOU, which the shell does not ignore.                    *)

SetMode(m) ==
  /\ up /\ fg = Shell
  /\ mode' = m /\ UNCHANGED <<proc, news, fg, up, signals>>
SetForeground(g) ==
  /\ CanSetForeground(g)
  /\ fg' = g /\ UNCHANGED <<proc, news, mode, up, signals>>

\* The shell is about to set the mode, from the background.
HungByTty ==
  pc \in {"release", "fgmode", "settle", "edit", "leave"} /\ up /\ fg # Shell

\* What follows disable_editor_terminal: launch_impl, or in run_foreground the
\* mode saved with a job that is resumed.
\* (mutant: the saved mode is ignored)
AfterRelease_NoMode == IF cmd = "run" THEN "launch" ELSE "give"
AfterRelease ==
  CASE cmd = "run" -> "launch"
    [] cmd = "fg" /\ resume /\ saved[cur] # NoMode -> "fgmode"
    [] OTHER -> "give"

\* disable_editor_terminal
Release ==
  /\ pc = "release"
  /\ \/ SetMode(Cooked) /\ Goto(AfterRelease) /\ UNCHANGED jobs
     \/ ~up /\ GiveUp

\* enable_editor_terminal: take the terminal back, then enter_editor_mode.
Enable ==
  /\ pc = "enable"
  /\ \/ SetForeground(Shell) /\ Goto("edit") /\ UNCHANGED jobs
     \/ ~up /\ GiveUp
EnterEditorMode ==
  /\ pc = "edit"
  /\ \/ SetMode(Raw) /\ Loop /\ UNCHANGED jobs
     \/ ~up /\ GiveUp

-----------------------------------------------------------------------------
(* external: launch a pipeline in the foreground.                          *)

\* launch_impl spawns command number at.
LaunchStage ==
  /\ pc = "launch" /\ Spawn(cur, at)
  /\ IF at < want
     THEN /\ at' = at + 1
          /\ UNCHANGED <<pc, cmd, want, cur, resume, jobs>>
     ELSE /\ FromLive(cur, want)
          /\ Goto("wait") /\ UNCHANGED <<stored, table>>
\* It fails (fork, exec, or no terminal): kill_children, wait_exit of each.
\* (mutants: the shell returns to its prompt at once; it enters the editor's
\* mode without taking the terminal back from the first stages' group)
LaunchFails_Returns ==
  /\ pc = "launch"
  /\ KillAndReap({cur})
  /\ Loop
  /\ UNCHANGED <<fg, mode, up, signals, jobs>>
LaunchFails_KeepsGroup ==
  /\ pc = "launch"
  /\ KillAndReap({cur})
  /\ Goto("edit")
  /\ UNCHANGED <<fg, mode, up, signals, jobs>>
LaunchFails ==
  /\ pc = "launch"
  /\ KillAndReap({cur})
  /\ Goto("enable")
  /\ UNCHANGED <<fg, mode, up, signals, jobs>>

-----------------------------------------------------------------------------
(* run_foreground: resume a job in the foreground.                         *)

RestoreJobMode ==
  /\ pc = "fgmode"
  /\ \/ SetMode(saved[cur]) /\ Goto("give") /\ UNCHANGED jobs
     \/ ~up /\ Goto("enable") /\ UNCHANGED <<kernel, jobs>>
GiveTerminal ==
  /\ pc = "give"
  /\ \/ SetForeground(cur) /\ Goto(IF resume THEN "cont" ELSE "wait")
     \/ ~CanSetForeground(cur) /\ KillGroup(cur) /\ Goto("killwait")
  /\ UNCHANGED jobs
ContinueForeground ==
  /\ pc = "cont" /\ ContinueJob(cur)
  /\ Goto(IF Unreaped(cur) # {} THEN "wait" ELSE "enable")
  /\ UNCHANGED <<saved, stored, table>>

\* wait_foreground: wait for events until no member runs.
WaitEvent(i) ==
  /\ pc \in {"wait", "killwait"} /\ Refreshed(member[cur]) = "running"
  /\ ApplyEvent(cur, i)
  /\ UNCHANGED <<pc, cmd, at, want, cur, resume, saved, stored, table>>
WaitDone ==
  /\ pc \in {"wait", "killwait"} /\ Refreshed(member[cur]) # "running"
  /\ jstate' = [jstate EXCEPT ![cur] = Refreshed(member[cur])]
  /\ Goto(IF pc = "wait" THEN "reclaim" ELSE "enable")
  /\ UNCHANGED <<kernel, member, saved, stored, table>>

\* wait_foreground_owned after the wait: take the terminal back; save the
\* mode of a stopped job, set the editor's, then keep or forget the job.
Reclaim ==
  /\ pc = "reclaim"
  /\ \/ SetForeground(Shell) /\ Goto("settle") /\ UNCHANGED jobs
     \/ ~up /\ GiveUp
\* (mutant: the job's mode is captured after the editor's was entered)
Settle_SavesLate ==
  /\ pc = "settle"
  /\ \/ /\ SetMode(Raw)
        /\ IF jstate[cur] = "stopped"
           THEN saved' = [saved EXCEPT ![cur] = mode'] /\ Store(cur)
           ELSE UNCHANGED <<saved, stored>> /\ PruneDone
        /\ Loop /\ UNCHANGED <<member, jstate>>
     \/ ~up /\ GiveUp
Settle ==
  /\ pc = "settle"
  /\ \/ /\ SetMode(Raw)
        /\ UNCHANGED <<member, jstate>>
        /\ IF jstate[cur] = "stopped"
           THEN saved' = [saved EXCEPT ![cur] = mode] /\ Store(cur)
           ELSE UNCHANGED <<saved, stored>> /\ PruneDone
        /\ Loop
     \/ ~up /\ GiveUp

-----------------------------------------------------------------------------
(* The end of the shell.                                                   *)

\* The loop ends: restore the terminal; vm_cleanup kills and reaps whatever
\* was not waited for.
Leave ==
  /\ pc = "leave" /\ (up => fg = Shell)
  /\ mode' = IF up THEN Cooked ELSE mode
  /\ KillAndReap(Job)
  /\ Goto("closed")
  /\ UNCHANGED <<fg, up, signals, jobs>>

\* SIGTERM or SIGHUP: runtime_signal restores the terminal and exits.
Killed ==
  /\ pc \notin Ended
  /\ mode' = IF up /\ mode = Raw THEN Cooked ELSE mode
  /\ Goto("killed")
  /\ UNCHANGED <<proc, news, fg, up, signals, jobs>>

-----------------------------------------------------------------------------
Init ==
  /\ KernelInit
  /\ pc = "poll" /\ cmd = "none" /\ at = 1 /\ want = 1
  /\ cur = NoJob /\ resume = FALSE
  /\ member = [j \in Job |-> [i \in Stage |-> "none"]]
  /\ jstate = [j \in Job |-> "running"]
  /\ saved = [j \in Job |-> NoMode]
  /\ stored = {} /\ table = <<>>

\* What the shell does by itself.
ShellStep ==
  \/ \E i \in Stage : PollEvent(i)
  \/ PollNext
  \/ PollEnd
  \/ Idle
  \/ JobsBuiltin
  \/ NoSuchJob
  \/ \E j \in Job : BgBuiltin(j)
  \/ \E j \in Job : FgBuiltin(j)
  \/ Release
  \/ Enable
  \/ EnterEditorMode
  \/ LaunchStage
  \/ LaunchFails
  \/ RestoreJobMode
  \/ GiveTerminal
  \/ ContinueForeground
  \/ \E i \in Stage : WaitEvent(i)
  \/ WaitDone
  \/ Reclaim
  \/ Settle
  \/ Leave

\* What the user types.
UserStep ==
  \/ \E j \in Job, n \in Stage : Run(j, n)
  \/ \E c \in {"fg", "bg", "jobs"} : Builtin(c)
  \/ Quit

Next ==
  \/ ShellStep
  \/ UserStep
  \/ Killed
  \/ pc \notin Ended /\ EnvironmentStep /\ UNCHANGED shell

Spec == Init /\ [][Next]_vars

\* The shell is a running program whose host calls return; the processes, the
\* user and the failures are under no obligation.
FairSpec == Spec /\ WF_vars(ShellStep)

-----------------------------------------------------------------------------
(* The properties.                                                         *)

ControlTypeOK ==
  /\ pc \in {"poll", "read", "select", "release", "launch", "fgmode", "give", "cont",
             "wait", "killwait", "reclaim", "settle", "enable", "edit", "leave"} \cup Ended
  /\ cmd \in {"none", "run", "fg", "bg", "jobs"}
  /\ at \in Nat \ {0} /\ want \in Stage
  /\ cur \in Job \cup {NoJob} /\ resume \in BOOLEAN
JobsTypeOK ==
  /\ member \in [Job -> [Stage -> MemberState]]
  /\ jstate \in [Job -> JobState]
  /\ saved \in [Job -> Mode \cup {NoMode}]
  /\ stored \subseteq Job
  /\ table \in Seq(Job)
TypeOK == KernelTypeOK /\ ControlTypeOK /\ JobsTypeOK

\* No event is lost: where a job's record and the kernel disagree about a
\* process, the event that will correct the record is still to be reported
\* (stops, continues and exits of pipeline members race with continue_job's
\* own marking, and each event is consumed once).
TableTruth ==
  pc # "closed" => \A j \in Job, i \in Stage :
    /\ member[j][i] = "running" /\ proc[j][i] = "stopped" => news[j][i] = "stop"
    /\ member[j][i] = "stopped" /\ proc[j][i] = "running" => news[j][i] = "cont"
    /\ member[j][i] # "none" => /\ proc[j][i] # "none"
                                /\ jstate[j] = Refreshed(member[j])
                                /\ member[j][i] = "done" <=> proc[j][i] = "gone"

\* At its prompt the shell owns the terminal, in the editor's mode, whatever
\* the foreground job did to it and however its launch failed.
AtPrompt == pc \in {"poll", "read", "select"}
PromptOwnsTerminal == AtPrompt /\ up => fg = Shell /\ mode = Raw

\* At the prompt every child that is not reaped is a member of a job of the
\* table that poll_all looks at, once.
JobsAccounted ==
  AtPrompt =>
    /\ \A j \in Job : Unreaped(j) # {} => j \in InTable /\ jstate[j] # "done"
    /\ \A k, l \in DOMAIN table : table[k] = table[l] => k = l

\* The shell never waits for a group without children (waitid would fail and
\* end it), nor sets the terminal's mode from the background (SIGTTOU would
\* stop it).
ShellSurvives == ~PollDies /\ ~WaitDies /\ ~HungByTty

\* The mode saved with a job is one that job may have left, never the
\* editor's or another job's.
SavedModesApart == \A j \in Job : saved[j] \in {NoMode, Cooked, j}

\* A stopped job is continued in the foreground under the mode it was stopped
\* with, unless a member that something else continued already changed it.
ResumesInItsMode ==
  pc = "cont" /\ up => mode \in {cur, saved[cur]}

\* A foreground job whose every process has ended or stopped does not keep
\* the shell waiting.
ForegroundReturns ==
  (pc = "wait" /\ Running(cur) = {}) ~> (pc # "wait" \/ Running(cur) # {})

\* An ended process is reaped, unless a foreground job goes on holding the
\* shell, or the shell itself ends.
ZombiesReaped ==
  \A j \in Job, i \in Stage :
    proc[j][i] = "zombie" ~> (proc[j][i] = "gone" \/ pc \in {"wait"} \cup Ended)

=============================================================================
