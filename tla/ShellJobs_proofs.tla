--------------------------- MODULE ShellJobs_proofs ---------------------------
(***************************************************************************)
(* Proofs about ShellJobs: the job table follows the processes, the shell  *)
(* returns to a prompt that owns its terminal and never waits in vain, for *)
(* any number of jobs, pipelines of any length and any behaviour of the    *)
(* processes, the user and the line.                                       *)
(***************************************************************************)
EXTENDS ShellJobs, FiniteSetTheorems, TLAPS

-----------------------------------------------------------------------------
(* The inductive invariant.                                                *)

HasMembers(j) == \E i \in Stage : member[j][i] # "none"
Launching(j) == pc = "launch" /\ j = cur

\* The kernel's unreported change is the last thing that happened.
NewsOK ==
  \A j \in Job, i \in Stage :
    /\ news[j][i] = "stop" => proc[j][i] = "stopped"
    /\ news[j][i] = "cont" => proc[j][i] = "running"

\* The record of a process lags behind the kernel by that change at most.
RecordOK(j, i) ==
  /\ proc[j][i] = "stopped" => member[j][i] = "stopped" \/ news[j][i] = "stop"
  /\ member[j][i] = "stopped" /\ proc[j][i] = "running" => news[j][i] = "cont"
  /\ member[j][i] # "none" => /\ proc[j][i] # "none"
                              /\ jstate[j] = Refreshed(member[j])
                              /\ member[j][i] = "done" <=> proc[j][i] = "gone"
NoRecordOK(j, i) == member[j][i] = "none" => proc[j][i] \in {"none", "gone"}
RecordsOK ==
  pc # "closed" => \A j \in Job, i \in Stage :
    RecordOK(j, i) /\ (NoRecordOK(j, i) \/ Launching(j) \/ pc = "killed")

\* A pipeline under launch has its first stages and nothing else; any other
\* job the shell works on has been launched, and for fg also stored.
CommandOK ==
  /\ pc = "read" => at = 1
  /\ pc = "release" => cmd \in {"run", "fg"}
  /\ pc = "release" /\ cmd = "run" =>
       at = 1 /\ cur \in Job /\ \A i \in Stage : proc[cur][i] = "none"
  /\ pc = "launch" =>
       /\ at \in 1 .. want /\ cur \in Job
       /\ \A i \in Stage : /\ member[cur][i] = "none"
                           /\ i < at => proc[cur][i] \notin {"none", "gone"}
                           /\ i >= at => proc[cur][i] = "none"
  /\ pc \in {"wait", "reclaim", "settle"} => cur \in Job /\ HasMembers(cur)
  /\ pc \in {"fgmode", "give", "cont", "killwait"} \/ (pc = "release" /\ cmd = "fg") =>
       cur \in stored
  /\ pc \in {"reclaim", "settle"} => jstate[cur] # "running"

\* The table holds the stored jobs that are not done, each once.
StoredOK ==
  /\ \A k, l \in DOMAIN table : table[k] = table[l] => k = l
  /\ InTable \subseteq stored
  /\ \A j \in stored : HasMembers(j) /\ saved[j] # NoMode
  /\ pc # "closed" => \A j \in stored : jstate[j] # "done" => j \in InTable

\* A child that is not reaped belongs to one of them, or to the job in the
\* foreground.
AccountedOK ==
  pc \notin {"leave"} \cup Ended =>
    \A j \in Job : Unreaped(j) # {} =>
      j \in stored \/ (j = cur /\ pc \in {"launch", "wait", "reclaim", "settle"})

\* Who owns the terminal, and in which mode, follows from where the shell is.
TerminalOK ==
  /\ \A j \in Job : saved[j] \in {NoMode, Cooked, j}
  /\ pc = "fgmode" => resume
  /\ up =>
      /\ pc \in {"poll", "read", "select", "release", "fgmode", "give", "settle", "edit",
                 "leave"} => fg = Shell
      /\ pc \in {"launch", "cont", "wait", "reclaim"} => fg \in {Shell, Other, cur}
      /\ pc \in {"poll", "read", "select"} => mode = Raw
      /\ pc \in {"launch", "give", "cont", "wait", "reclaim", "settle"} =>
           mode \in {Cooked, cur}
      /\ pc = "give" /\ resume => mode = saved[cur]
      /\ pc = "cont" => mode \in {cur, saved[cur]}

IInv ==
  TypeOK /\ NewsOK /\ RecordsOK /\ CommandOK /\ StoredOK /\ AccountedOK /\ TerminalOK

-----------------------------------------------------------------------------
(* The initial states.                                                     *)

USE GroupsAssumption, NoneAssumption DEF Stage, ProcState, MemberState, JobState, Mode, Ended,
    RecordOK, NoRecordOK

\* refresh: done when no member can change any more, running when one runs.
LEMMA RefreshedOK ==
  ASSUME NEW ms \in [Stage -> MemberState]
  PROVE  /\ Refreshed(ms) \in JobState
         /\ Refreshed(ms) = "done" <=> \A i \in Stage : ms[i] \in {"none", "done"}
         /\ Refreshed(ms) = "running" <=> \E i \in Stage : ms[i] = "running"
BY DEF Refreshed

\* The shell starts with no children, no jobs and the editor's terminal.
LEMMA InitInvariant == Init => IInv
<1> SUFFICES ASSUME Init PROVE IInv
  OBVIOUS
<1> USE DEF Init, KernelInit
<1>0. 1 \in Stage /\ 1 \in Nat \ {0} /\ 0 \in 0 .. MaxSignals
  OBVIOUS
<1>1. KernelTypeOK
  BY <1>0 DEF KernelTypeOK
<1>2. ControlTypeOK
  BY <1>0 DEF ControlTypeOK
<1>3. JobsTypeOK
  BY DEF JobsTypeOK
<1>4. NewsOK /\ RecordsOK
  BY DEF NewsOK, RecordsOK
<1>5. CommandOK /\ TerminalOK
  BY DEF CommandOK, TerminalOK
<1>6. StoredOK /\ AccountedOK
  BY DEF StoredOK, AccountedOK, InTable, Unreaped
<1> QED
  BY <1>1, <1>2, <1>3, <1>4, <1>5, <1>6 DEF IInv, TypeOK

-----------------------------------------------------------------------------
(* What the parts of the steps do, process by process.                     *)

\* The locals of the loop after an iteration.
LEMMA LoopTypes == Loop => ControlTypeOK'
<1> SUFFICES ASSUME Loop PROVE ControlTypeOK'
  OBVIOUS
<1>1. 1 \in Stage /\ 1 \in Nat \ {0}
  OBVIOUS
<1> QED
  BY <1>1 DEF Loop, ControlTypeOK

\* waitid takes one child's change and leaves the others'.
LEMMA ReportEffect ==
  ASSUME KernelTypeOK, NEW j \in Job, NEW i \in Stage, Report(j, i)
  PROVE  /\ KernelTypeOK'
         /\ UNCHANGED <<fg, mode, up>>
         /\ \A a \in Job, b \in Stage :
              /\ a = j /\ b = i =>
                   /\ news'[a][b] = "none"
                   /\ proc'[a][b] = IF proc[a][b] = "zombie" THEN "gone" ELSE proc[a][b]
              /\ ~(a = j /\ b = i) =>
                   news'[a][b] = news[a][b] /\ proc'[a][b] = proc[a][b]
BY DEF Report, KernelTypeOK

\* SIGCONT runs exactly the stopped processes of the group.
LEMMA ContGroupEffect ==
  ASSUME KernelTypeOK, NEW j \in Job, ContGroup(j)
  PROVE  /\ KernelTypeOK'
         /\ UNCHANGED <<fg, mode, up>>
         /\ \A a \in Job, b \in Stage :
              /\ a = j /\ proc[a][b] = "stopped" =>
                   news'[a][b] = "cont" /\ proc'[a][b] = "running"
              /\ ~(a = j /\ proc[a][b] = "stopped") =>
                   news'[a][b] = news[a][b] /\ proc'[a][b] = proc[a][b]
BY DEF ContGroup, KernelTypeOK

\* SIGKILL ends exactly the living processes of the group.
LEMMA KillGroupEffect ==
  ASSUME KernelTypeOK, NEW j \in Job, KillGroup(j)
  PROVE  /\ KernelTypeOK'
         /\ UNCHANGED <<fg, mode, up>>
         /\ \A a \in Job, b \in Stage :
              /\ a = j => news'[a][b] = "none"
              /\ a # j => news'[a][b] = news[a][b]
              /\ proc'[a][b] = IF a = j /\ proc[a][b] \in {"running", "stopped"}
                               THEN "zombie" ELSE proc[a][b]
BY DEF KillGroup, Alive, KernelTypeOK

\* A spawn runs one more process, whose group owns the terminal.
LEMMA SpawnEffect ==
  ASSUME KernelTypeOK, NEW j \in Job, NEW i \in Stage, Spawn(j, i)
  PROVE  /\ KernelTypeOK'
         /\ fg' = j /\ UNCHANGED <<news, mode, up>>
         /\ \A a \in Job, b \in Stage :
              proc'[a][b] = IF a = j /\ b = i THEN "running" ELSE proc[a][b]
BY DEF Spawn, KernelTypeOK

\* refresh sets one job's state from its members.
LEMMA RefreshEffect ==
  ASSUME JobsTypeOK, NEW j \in Job, member' \in [Job -> [Stage -> MemberState]],
         jstate' = [jstate EXCEPT ![j] = Refreshed(member'[j])]
  PROVE  /\ jstate' \in [Job -> JobState]
         /\ jstate'[j] = Refreshed(member'[j])
         /\ \A a \in Job : a # j => jstate'[a] = jstate[a]
BY RefreshedOK DEF JobsTypeOK

\* apply_event changes one member, and the state of its job.
LEMMA ApplyEventEffect ==
  ASSUME JobsTypeOK, NEW j \in Job, NEW i \in Stage, ApplyEvent(j, i)
  PROVE  /\ Report(j, i)
         /\ member' \in [Job -> [Stage -> MemberState]]
         /\ \A a \in Job, b \in Stage :
              member'[a][b] = IF a = j /\ b = i THEN EventState(j, i) ELSE member[a][b]
         /\ \A a \in Job : a # j => member'[a] = member[a]
         /\ jstate' \in [Job -> JobState]
         /\ jstate'[j] = Refreshed(member'[j])
         /\ \A a \in Job : a # j => jstate'[a] = jstate[a]
<1>1. EventState(j, i) \in MemberState
  BY DEF EventState
<1>2. member' = [member EXCEPT ![j][i] = EventState(j, i)]
  BY DEF ApplyEvent
<1>3. member' \in [Job -> [Stage -> MemberState]]
  BY <1>1, <1>2 DEF JobsTypeOK
<1>4. \A a \in Job, b \in Stage :
        member'[a][b] = IF a = j /\ b = i THEN EventState(j, i) ELSE member[a][b]
  BY <1>2 DEF JobsTypeOK
<1>5. \A a \in Job : a # j => member'[a] = member[a]
  BY <1>2 DEF JobsTypeOK
<1> QED
  BY <1>3, <1>4, <1>5, RefreshEffect DEF ApplyEvent

\* mark_stopped_running changes the stopped members of one job.
LEMMA MarkEffect ==
  ASSUME JobsTypeOK, NEW j \in Job, MarkStoppedRunning(j)
  PROVE  /\ member' \in [Job -> [Stage -> MemberState]]
         /\ \A a \in Job, b \in Stage :
              member'[a][b] = IF a = j /\ member[a][b] = "stopped" THEN "running"
                              ELSE member[a][b]
         /\ \A a \in Job : a # j => member'[a] = member[a]
         /\ jstate' \in [Job -> JobState]
         /\ jstate'[j] = Refreshed(member'[j])
         /\ \A a \in Job : a # j => jstate'[a] = jstate[a]
<1> DEFINE new == [i \in Stage |-> IF member[j][i] = "stopped" THEN "running" ELSE member[j][i]]
<1>1. member' = [member EXCEPT ![j] = new]
  BY DEF MarkStoppedRunning, JobsTypeOK
<1>2. new \in [Stage -> MemberState]
  BY DEF JobsTypeOK
<1>3. member' \in [Job -> [Stage -> MemberState]] /\ member'[j] = new
  BY <1>1, <1>2 DEF JobsTypeOK
<1>4. \A a \in Job : a # j => member'[a] = member[a]
  BY <1>1 DEF JobsTypeOK
<1> QED
  BY <1>3, <1>4, RefreshEffect, ZenonT(60) DEF MarkStoppedRunning

\* from_live fills the record of one job.
LEMMA FromLiveEffect ==
  ASSUME JobsTypeOK, NEW j \in Job, NEW n \in Stage, FromLive(j, n)
  PROVE  /\ member' \in [Job -> [Stage -> MemberState]]
         /\ \A b \in Stage : member'[j][b] = IF b <= n THEN "running" ELSE "none"
         /\ jstate' \in [Job -> JobState] /\ jstate'[j] = "running"
         /\ saved' \in [Job -> Mode \cup {NoMode}] /\ saved'[j] = NoMode
         /\ \A a \in Job : a # j => /\ member'[a] = member[a]
                                     /\ jstate'[a] = jstate[a]
                                     /\ saved'[a] = saved[a]
<1> DEFINE new == [i \in Stage |-> IF i <= n THEN "running" ELSE "none"]
<1>1. member' = [member EXCEPT ![j] = new]
  BY DEF FromLive
<1>2. new \in [Stage -> MemberState]
  OBVIOUS
<1>3. member' \in [Job -> [Stage -> MemberState]] /\ member'[j] = new
  BY <1>1, <1>2 DEF JobsTypeOK
<1> QED
  BY <1>1, <1>3 DEF FromLive, JobsTypeOK

\* prune_done keeps exactly the entries it means to, each once.
LEMMA KeepEffect ==
  ASSUME table \in Seq(Job), NEW ks \in SUBSET DOMAIN table, Keep(ks)
  PROVE  /\ table' \in Seq(Job)
         /\ InTable' = {table[k] : k \in ks}
         /\ (\A k, l \in DOMAIN table : table[k] = table[l] => k = l) =>
              \A k, l \in DOMAIN table' : table'[k] = table'[l] => k = l
<1>1. IsFiniteSet(ks) /\ Cardinality(ks) \in Nat
  <2>1. DOMAIN table = 1 .. Len(table) /\ Len(table) \in Nat
    OBVIOUS
  <2>2. IsFiniteSet(1 .. Len(table))
    BY <2>1, FS_Interval
  <2>3. IsFiniteSet(ks)
    BY <2>1, <2>2, FS_Subset
  <2> QED
    BY <2>3, FS_CardinalityType
<1> DEFINE c == Cardinality(ks)
<1>2. PICK f \in [1 .. c -> ks] :
         /\ ks = {f[n] : n \in DOMAIN f}
         /\ \A m, n \in DOMAIN f : m < n => f[m] < f[n]
         /\ table' = [n \in 1 .. c |-> table[f[n]]]
  BY DEF Keep
<1>3. \A n \in 1 .. c : f[n] \in Nat /\ f[n] \in DOMAIN table /\ table[f[n]] \in Job
  OBVIOUS
<1>4. c \in Nat
  BY <1>1
<1> HIDE DEF c
<1>5. table' \in [1 .. c -> Job]
  BY <1>2, <1>3
<1>6. table' \in Seq(Job) /\ DOMAIN table' = 1 .. c
  BY <1>4, <1>5
<1>7. InTable' = {table[k] : k \in ks}
  BY <1>2, <1>3, <1>6, ZenonT(60) DEF InTable
<1>8. \A m, n \in 1 .. c : f[m] = f[n] => m = n
  <2> SUFFICES ASSUME NEW m \in 1 .. c, NEW n \in 1 .. c, f[m] = f[n] PROVE m = n
    OBVIOUS
  <2>1. ~(m < n) /\ ~(n < m)
    BY <1>2, <1>3, SMTT(60)
  <2> QED
    BY <1>4, <2>1
<1> QED
  BY <1>2, <1>3, <1>6, <1>7, <1>8

\* Nothing is left of the children that are killed and reaped.
LEMMA KillAndReapEffect ==
  ASSUME KernelTypeOK, NEW js \in SUBSET Job, KillAndReap(js)
  PROVE  /\ proc' \in [Job -> [Stage -> ProcState]]
         /\ news' \in [Job -> [Stage -> {"none", "stop", "cont"}]]
         /\ \A a \in Job, b \in Stage :
              /\ proc'[a][b] = IF a \in js /\ proc[a][b] \in {"running", "stopped", "zombie"}
                               THEN "gone" ELSE proc[a][b]
              /\ news'[a][b] = IF a \in js THEN "none" ELSE news[a][b]
BY DEF KillAndReap, Unreaped, KernelTypeOK

\* The shell works on the pipeline without having it in its table.
Foreground == {"launch", "wait", "reclaim", "settle"}

\* A step that changes neither processes nor jobs.
LEMMA ControlFrame ==
  ASSUME IInv, UNCHANGED <<proc, news, jobs>>, pc \notin Ended,
         pc = "launch" => pc' = "killed" \/ (pc' = "launch" /\ cur' = cur)
  PROVE  JobsTypeOK' /\ NewsOK' /\ RecordsOK' /\ StoredOK'
<1> USE DEF IInv, TypeOK, jobs
<1>1. JobsTypeOK'
  BY DEF JobsTypeOK
<1>2. NewsOK'
  BY DEF NewsOK
<1>3. RecordsOK'
  BY DEF RecordsOK, Launching
<1>4. StoredOK'
  BY DEF StoredOK, InTable, HasMembers
<1> QED
  BY <1>1, <1>2, <1>3, <1>4

\* A step that leaves every child accounted for as it was.
LEMMA AccountedFrame ==
  ASSUME AccountedOK, stored \subseteq stored',
         \A j \in Job : Unreaped(j)' # {} => Unreaped(j) # {},
         \/ pc' \in {"leave"} \cup Ended
         \/ /\ pc \notin {"leave"} \cup Ended
            /\ pc \in Foreground => pc' \in Foreground /\ cur' = cur
  PROVE  AccountedOK'
BY DEF AccountedOK, Foreground

\* Children are unreaped as before when no process changed.
LEMMA SameUnreaped == UNCHANGED proc => \A j \in Job : Unreaped(j)' = Unreaped(j)
BY DEF Unreaped

\* poll and wait_foreground: one event of a job that was launched.
LEMMA EventStep ==
  ASSUME IInv, NEW j \in Job, NEW i \in Stage, HasMembers(j), ApplyEvent(j, i),
         UNCHANGED <<pc, cur, saved, stored, table>>, pc \notin {"launch"} \cup Ended
  PROVE  /\ KernelTypeOK' /\ JobsTypeOK' /\ NewsOK' /\ RecordsOK' /\ StoredOK'
         /\ AccountedOK'
         /\ UNCHANGED <<fg, mode, up>>
         /\ HasMembers(j)'
<1>0. KernelTypeOK /\ JobsTypeOK /\ NewsOK /\ RecordsOK /\ StoredOK /\ AccountedOK
  BY DEF IInv, TypeOK
<1>1. /\ Report(j, i)
      /\ member' \in [Job -> [Stage -> MemberState]]
      /\ \A a \in Job, b \in Stage :
           member'[a][b] = IF a = j /\ b = i THEN EventState(j, i) ELSE member[a][b]
      /\ \A a \in Job : a # j => member'[a] = member[a]
      /\ jstate' \in [Job -> JobState]
      /\ jstate'[j] = Refreshed(member'[j])
      /\ \A a \in Job : a # j => jstate'[a] = jstate[a]
  BY <1>0, ApplyEventEffect
<1>2. /\ KernelTypeOK'
      /\ UNCHANGED <<fg, mode, up>>
      /\ \A a \in Job, b \in Stage :
           /\ a = j /\ b = i =>
                /\ news'[a][b] = "none"
                /\ proc'[a][b] = IF proc[a][b] = "zombie" THEN "gone" ELSE proc[a][b]
           /\ ~(a = j /\ b = i) =>
                news'[a][b] = news[a][b] /\ proc'[a][b] = proc[a][b]
  BY <1>0, <1>1, ReportEffect
<1>3. /\ proc[j][i] = "zombie" \/ news[j][i] \in {"stop", "cont"}
      /\ EventState(j, i) \in {"running", "stopped", "done"}
      /\ EventState(j, i) = "done" <=> proc[j][i] = "zombie"
      /\ EventState(j, i) = "stopped" <=> news[j][i] = "stop" /\ proc[j][i] # "zombie"
  BY <1>0, <1>1 DEF Report, Reportable, EventState, KernelTypeOK
<1>4. proc[j][i] \in {"zombie", "stopped", "running"}
  BY <1>0, <1>3 DEF NewsOK
<1>5. JobsTypeOK'
  BY <1>0, <1>1 DEF JobsTypeOK
<1>6. NewsOK'
  BY <1>0, <1>2 DEF NewsOK
<1>7. pc # "closed"
  OBVIOUS
<1>8. RecordsOK'
  <2> SUFFICES ASSUME NEW a \in Job, NEW b \in Stage
      PROVE  RecordOK(a, b)' /\ NoRecordOK(a, b)'
    BY DEF RecordsOK
  <2>0. RecordOK(a, b) /\ NoRecordOK(a, b)
    BY <1>0, <1>7 DEF RecordsOK, Launching
  <2>1. CASE a = j /\ b = i
    BY <2>0, <2>1, <1>0, <1>1, <1>2, <1>3, <1>4 DEF NewsOK
  <2>2. CASE a = j /\ b # i
    BY <2>0, <2>2, <1>1, <1>2
  <2>3. CASE a # j
    BY <2>0, <2>3, <1>1, <1>2
  <2> QED
    BY <2>1, <2>2, <2>3
<1>9. jstate[j] # "done"
  <2>1. jstate[j] = Refreshed(member[j]) /\ member[j] \in [Stage -> MemberState]
    BY <1>0, <1>7 DEF RecordsOK, HasMembers, JobsTypeOK
  <2>2. member[j][i] \notin {"none", "done"}
    BY <1>0, <1>4, <1>7 DEF RecordsOK, Launching
  <2> QED
    BY <2>1, <2>2, RefreshedOK
<1>10. HasMembers(j)'
  BY <1>1, <1>3 DEF HasMembers
<1>11. StoredOK'
  <2>1. InTable' = InTable
    BY DEF InTable
  <2>2. \A a \in Job : HasMembers(a) => HasMembers(a)'
    BY <1>1, <1>3 DEF HasMembers
  <2>3. stored \subseteq Job
    BY <1>0 DEF JobsTypeOK
  <2> QED
    BY <1>0, <1>1, <1>7, <1>9, <2>1, <2>2, <2>3 DEF StoredOK
<1>12. \A a \in Job : Unreaped(a)' # {} => Unreaped(a) # {}
  BY <1>2 DEF Unreaped
<1>13. AccountedOK'
  BY <1>0, <1>12, AccountedFrame DEF AccountedOK
<1> QED
  BY <1>2, <1>5, <1>6, <1>8, <1>10, <1>11, <1>13

\* continue_job on a job that was launched.
LEMMA ContinueStep ==
  ASSUME IInv, NEW j \in Job, HasMembers(j), ContinueJob(j),
         UNCHANGED <<saved, stored, table>>, pc \notin {"launch"} \cup Ended, pc' # "closed"
  PROVE  /\ KernelTypeOK' /\ JobsTypeOK' /\ NewsOK' /\ RecordsOK' /\ StoredOK'
         /\ \A a \in Job : Unreaped(a)' # {} => Unreaped(a) # {}
         /\ UNCHANGED <<fg, mode, up>>
         /\ HasMembers(j)'
<1>0. KernelTypeOK /\ JobsTypeOK /\ NewsOK /\ RecordsOK /\ StoredOK /\ pc # "closed"
  BY DEF IInv, TypeOK
<1>1. CASE Unreaped(j) # {}
  <2>1. ContGroup(j) /\ MarkStoppedRunning(j)
    BY <1>1 DEF ContinueJob
  <2>2. /\ KernelTypeOK'
        /\ UNCHANGED <<fg, mode, up>>
        /\ \A a \in Job, b \in Stage :
             /\ a = j /\ proc[a][b] = "stopped" =>
                  news'[a][b] = "cont" /\ proc'[a][b] = "running"
             /\ ~(a = j /\ proc[a][b] = "stopped") =>
                  news'[a][b] = news[a][b] /\ proc'[a][b] = proc[a][b]
    BY <1>0, <2>1, ContGroupEffect
  <2>3. /\ member' \in [Job -> [Stage -> MemberState]]
        /\ \A a \in Job, b \in Stage :
             member'[a][b] = IF a = j /\ member[a][b] = "stopped" THEN "running"
                             ELSE member[a][b]
        /\ \A a \in Job : a # j => member'[a] = member[a]
        /\ jstate' \in [Job -> JobState]
        /\ jstate'[j] = Refreshed(member'[j])
        /\ \A a \in Job : a # j => jstate'[a] = jstate[a]
    BY <1>0, <2>1, MarkEffect
  <2>4. JobsTypeOK'
    BY <1>0, <2>3 DEF JobsTypeOK
  <2>5. NewsOK'
    BY <1>0, <2>2 DEF NewsOK
  <2>6. RecordsOK'
    <3> SUFFICES ASSUME NEW a \in Job, NEW b \in Stage
        PROVE  RecordOK(a, b)' /\ NoRecordOK(a, b)'
      BY DEF RecordsOK
    <3>0. RecordOK(a, b) /\ NoRecordOK(a, b)
      BY <1>0 DEF RecordsOK, Launching
    <3>1. CASE a = j /\ proc[a][b] = "stopped"
      BY <3>0, <3>1, <2>2, <2>3
    <3>2. CASE a = j /\ proc[a][b] # "stopped"
      BY <3>0, <3>2, <2>2, <2>3
    <3>3. CASE a # j
      BY <3>0, <3>3, <2>2, <2>3
    <3> QED
      BY <3>1, <3>2, <3>3
  <2>7. \A a \in Job : HasMembers(a) => HasMembers(a)'
    BY <2>3 DEF HasMembers
  <2>8. jstate'[j] # "done" => jstate[j] # "done"
    <3>1. jstate[j] = Refreshed(member[j]) /\ member[j] \in [Stage -> MemberState]
      BY <1>0 DEF RecordsOK, HasMembers, JobsTypeOK
    <3>2. (\A b \in Stage : member[j][b] \in {"none", "done"}) =>
            \A b \in Stage : member'[j][b] \in {"none", "done"}
      BY <2>3
    <3>3. member'[j] \in [Stage -> MemberState]
      BY <2>3
    <3> QED
      BY <2>3, <3>1, <3>2, <3>3, RefreshedOK
  <2>9. StoredOK'
    <3>1. InTable' = InTable /\ stored \subseteq Job
      BY <1>0 DEF InTable, JobsTypeOK
    <3> QED
      BY <1>0, <2>3, <2>7, <2>8, <3>1 DEF StoredOK
  <2>10. \A a \in Job : Unreaped(a)' # {} => Unreaped(a) # {}
    BY <2>2 DEF Unreaped
  <2> QED
    BY <2>2, <2>4, <2>5, <2>6, <2>7, <2>9, <2>10
<1>2. CASE Unreaped(j) = {}
  <2>1. UNCHANGED <<kernel, member, jstate>>
    BY <1>2 DEF ContinueJob
  <2>2. UNCHANGED <<proc, news, jobs>> /\ UNCHANGED <<fg, mode, up, signals>>
    BY <2>1 DEF kernel, jobs
  <2>3. KernelTypeOK'
    BY <1>0, <2>2 DEF KernelTypeOK
  <2>4. HasMembers(j)'
    BY <2>1 DEF HasMembers
  <2> QED
    BY <2>2, <2>3, <2>4, ControlFrame, SameUnreaped
<1> QED
  BY <1>1, <1>2

-----------------------------------------------------------------------------
(* The steps.                                                              *)

\* poll_all goes on to the next job, and ends.
LEMMA PollNextStep ==
  ASSUME IInv, PollNext
  PROVE  IInv'
<1> USE DEF PollNext, kernel, jobs
<1>1. JobsTypeOK' /\ NewsOK' /\ RecordsOK' /\ StoredOK'
  BY ControlFrame
<1>2. KernelTypeOK'
  BY DEF IInv, TypeOK, KernelTypeOK
<1>3. ControlTypeOK'
  BY DEF IInv, TypeOK, ControlTypeOK
<1>4. CommandOK'
  BY DEF CommandOK
<1>5. AccountedOK'
  BY AccountedFrame, SameUnreaped DEF IInv, Foreground
<1>6. TerminalOK'
  BY DEF IInv, TerminalOK
<1> QED
  BY <1>1, <1>2, <1>3, <1>4, <1>5, <1>6 DEF IInv, TypeOK

LEMMA PollEndStep ==
  ASSUME IInv, PollEnd
  PROVE  IInv'
<1> USE DEF PollEnd, kernel, jobs
<1>1. JobsTypeOK' /\ NewsOK' /\ RecordsOK' /\ StoredOK'
  BY ControlFrame
<1>2. KernelTypeOK'
  BY DEF IInv, TypeOK, KernelTypeOK
<1>3. ControlTypeOK'
  BY DEF IInv, TypeOK, ControlTypeOK
<1>4. CommandOK'
  BY DEF CommandOK
<1>5. AccountedOK'
  BY AccountedFrame, SameUnreaped DEF IInv, Foreground
<1>6. TerminalOK'
  BY DEF IInv, TerminalOK
<1> QED
  BY <1>1, <1>2, <1>3, <1>4, <1>5, <1>6 DEF IInv, TypeOK

\* The key runs no job, or the job it names is gone.
LEMMA IdleStep ==
  ASSUME IInv, Idle
  PROVE  IInv'
<1> USE DEF Idle, kernel, jobs
<1>1. JobsTypeOK' /\ NewsOK' /\ RecordsOK' /\ StoredOK'
  BY ControlFrame
<1>2. KernelTypeOK'
  BY DEF IInv, TypeOK, KernelTypeOK
<1>3. ControlTypeOK'
  BY LoopTypes
<1>4. CommandOK'
  BY DEF Loop, CommandOK
<1>5. AccountedOK'
  BY AccountedFrame, SameUnreaped DEF Loop, IInv, Foreground
<1>6. TerminalOK'
  BY DEF Loop, IInv, TerminalOK
<1> QED
  BY <1>1, <1>2, <1>3, <1>4, <1>5, <1>6 DEF IInv, TypeOK

LEMMA NoSuchJobStep ==
  ASSUME IInv, NoSuchJob
  PROVE  IInv'
<1> USE DEF NoSuchJob, kernel, jobs
<1>1. JobsTypeOK' /\ NewsOK' /\ RecordsOK' /\ StoredOK'
  BY ControlFrame
<1>2. KernelTypeOK'
  BY DEF IInv, TypeOK, KernelTypeOK
<1>3. ControlTypeOK'
  BY LoopTypes
<1>4. CommandOK'
  BY DEF Loop, CommandOK
<1>5. AccountedOK'
  BY AccountedFrame, SameUnreaped DEF Loop, IInv, Foreground
<1>6. TerminalOK'
  BY DEF Loop, IInv, TerminalOK
<1> QED
  BY <1>1, <1>2, <1>3, <1>4, <1>5, <1>6 DEF IInv, TypeOK

\* fg chooses its job.
LEMMA FgBuiltinStep ==
  ASSUME IInv, NEW j \in Job, FgBuiltin(j)
  PROVE  IInv'
<1> USE DEF FgBuiltin, kernel, jobs
<1>1. JobsTypeOK' /\ NewsOK' /\ RecordsOK' /\ StoredOK'
  BY ControlFrame
<1>2. KernelTypeOK'
  BY DEF IInv, TypeOK, KernelTypeOK
<1>3. ControlTypeOK'
  BY DEF IInv, TypeOK, ControlTypeOK
<1>4. CommandOK'
  BY DEF CommandOK, IInv, StoredOK
<1>5. AccountedOK'
  BY AccountedFrame, SameUnreaped DEF IInv, Foreground
<1>6. TerminalOK'
  BY DEF IInv, TerminalOK
<1> QED
  BY <1>1, <1>2, <1>3, <1>4, <1>5, <1>6 DEF IInv, TypeOK

\* disable_editor_terminal, enable_editor_terminal, enter_editor_mode.
LEMMA ReleaseStep ==
  ASSUME IInv, Release
  PROVE  IInv'
<1> USE DEF Release, SetMode, Goto, GiveUp, AfterRelease, kernel, jobs
<1>1. JobsTypeOK' /\ NewsOK' /\ RecordsOK' /\ StoredOK'
  BY ControlFrame
<1>2. KernelTypeOK'
  BY DEF IInv, TypeOK, KernelTypeOK
<1>3. ControlTypeOK'
  BY DEF IInv, TypeOK, ControlTypeOK
<1>4. CommandOK'
  BY DEF CommandOK, IInv, TypeOK, ControlTypeOK, RecordsOK
<1>5. AccountedOK'
  BY AccountedFrame, SameUnreaped DEF IInv, Foreground
<1>6. TerminalOK'
  BY DEF IInv, TerminalOK, CommandOK, StoredOK
<1> QED
  BY <1>1, <1>2, <1>3, <1>4, <1>5, <1>6 DEF IInv, TypeOK

LEMMA EnableStep ==
  ASSUME IInv, Enable
  PROVE  IInv'
<1> USE DEF Enable, SetForeground, Goto, GiveUp, kernel, jobs
<1>1. JobsTypeOK' /\ NewsOK' /\ RecordsOK' /\ StoredOK'
  BY ControlFrame
<1>2. KernelTypeOK'
  BY DEF IInv, TypeOK, KernelTypeOK
<1>3. ControlTypeOK'
  BY DEF IInv, TypeOK, ControlTypeOK
<1>4. CommandOK'
  BY DEF CommandOK
<1>5. AccountedOK'
  BY AccountedFrame, SameUnreaped DEF IInv, Foreground
<1>6. TerminalOK'
  BY DEF IInv, TerminalOK
<1> QED
  BY <1>1, <1>2, <1>3, <1>4, <1>5, <1>6 DEF IInv, TypeOK

LEMMA EnterEditorModeStep ==
  ASSUME IInv, EnterEditorMode
  PROVE  IInv'
<1> USE DEF EnterEditorMode, SetMode, Goto, GiveUp, kernel, jobs
<1>1. JobsTypeOK' /\ NewsOK' /\ RecordsOK' /\ StoredOK'
  BY ControlFrame
<1>2. KernelTypeOK'
  BY DEF IInv, TypeOK, KernelTypeOK
<1>3. ControlTypeOK'
  BY LoopTypes DEF IInv, TypeOK, ControlTypeOK
<1>4. CommandOK'
  BY DEF Loop, CommandOK
<1>5. AccountedOK'
  BY AccountedFrame, SameUnreaped DEF Loop, IInv, Foreground
<1>6. TerminalOK'
  BY DEF Loop, IInv, TerminalOK
<1> QED
  BY <1>1, <1>2, <1>3, <1>4, <1>5, <1>6 DEF IInv, TypeOK

\* run_foreground sets the mode saved with the job.
LEMMA RestoreJobModeStep ==
  ASSUME IInv, RestoreJobMode
  PROVE  IInv'
<1> USE DEF RestoreJobMode, SetMode, Goto, kernel, jobs
<1>1. JobsTypeOK' /\ NewsOK' /\ RecordsOK' /\ StoredOK'
  BY ControlFrame
<1>2. KernelTypeOK'
  BY DEF IInv, TypeOK, KernelTypeOK, JobsTypeOK, CommandOK, StoredOK
<1>3. ControlTypeOK'
  BY DEF IInv, TypeOK, ControlTypeOK
<1>4. CommandOK'
  BY DEF CommandOK, IInv, HasMembers
<1>5. AccountedOK'
  BY AccountedFrame, SameUnreaped DEF IInv, Foreground
<1>6. TerminalOK'
  BY DEF IInv, TerminalOK, TypeOK, ControlTypeOK, JobsTypeOK, CommandOK, StoredOK
<1> QED
  BY <1>1, <1>2, <1>3, <1>4, <1>5, <1>6 DEF IInv, TypeOK

\* The terminal comes back after the wait.
LEMMA ReclaimStep ==
  ASSUME IInv, Reclaim
  PROVE  IInv'
<1> USE DEF Reclaim, SetForeground, Goto, GiveUp, kernel, jobs
<1>1. JobsTypeOK' /\ NewsOK' /\ RecordsOK' /\ StoredOK'
  BY ControlFrame
<1>2. KernelTypeOK'
  BY DEF IInv, TypeOK, KernelTypeOK
<1>3. ControlTypeOK'
  BY DEF IInv, TypeOK, ControlTypeOK
<1>4. CommandOK'
  BY DEF CommandOK, IInv, HasMembers
<1>5. AccountedOK'
  BY AccountedFrame, SameUnreaped DEF IInv, Foreground
<1>6. TerminalOK'
  BY DEF IInv, TerminalOK
<1> QED
  BY <1>1, <1>2, <1>3, <1>4, <1>5, <1>6 DEF IInv, TypeOK

\* The user types a command.
LEMMA RunStep ==
  ASSUME IInv, NEW j \in Job, NEW n \in Stage, Run(j, n)
  PROVE  IInv'
<1> USE DEF Run, kernel, jobs
<1>1. JobsTypeOK' /\ NewsOK' /\ RecordsOK' /\ StoredOK'
  BY ControlFrame
<1>2. KernelTypeOK'
  BY DEF IInv, TypeOK, KernelTypeOK
<1>3. ControlTypeOK'
  BY DEF IInv, TypeOK, ControlTypeOK
<1>4. CommandOK'
  BY DEF CommandOK, IInv
<1>5. AccountedOK'
  BY AccountedFrame, SameUnreaped DEF IInv, Foreground
<1>6. TerminalOK'
  BY DEF IInv, TerminalOK
<1> QED
  BY <1>1, <1>2, <1>3, <1>4, <1>5, <1>6 DEF IInv, TypeOK

LEMMA BuiltinStep ==
  ASSUME IInv, NEW c \in {"fg", "bg", "jobs"}, Builtin(c)
  PROVE  IInv'
<1> USE DEF Builtin, kernel, jobs
<1>1. JobsTypeOK' /\ NewsOK' /\ RecordsOK' /\ StoredOK'
  BY ControlFrame
<1>2. KernelTypeOK'
  BY DEF IInv, TypeOK, KernelTypeOK
<1>3. ControlTypeOK'
  BY DEF IInv, TypeOK, ControlTypeOK
<1>4. CommandOK'
  BY DEF CommandOK
<1>5. AccountedOK'
  BY AccountedFrame, SameUnreaped DEF IInv, Foreground
<1>6. TerminalOK'
  BY DEF IInv, TerminalOK
<1> QED
  BY <1>1, <1>2, <1>3, <1>4, <1>5, <1>6 DEF IInv, TypeOK

LEMMA QuitStep ==
  ASSUME IInv, Quit
  PROVE  IInv'
<1> USE DEF Quit, Goto, kernel, jobs
<1>1. JobsTypeOK' /\ NewsOK' /\ RecordsOK' /\ StoredOK'
  BY ControlFrame
<1>2. KernelTypeOK'
  BY DEF IInv, TypeOK, KernelTypeOK
<1>3. ControlTypeOK'
  BY DEF IInv, TypeOK, ControlTypeOK
<1>4. CommandOK'
  BY DEF CommandOK
<1>5. AccountedOK'
  BY AccountedFrame, SameUnreaped DEF IInv, Foreground
<1>6. TerminalOK'
  BY DEF IInv, TerminalOK
<1> QED
  BY <1>1, <1>2, <1>3, <1>4, <1>5, <1>6 DEF IInv, TypeOK

\* A signal ends the shell; programs use the terminal; the line hangs up.
LEMMA KilledStep ==
  ASSUME IInv, Killed
  PROVE  IInv'
<1> USE DEF Killed, Goto, kernel, jobs
<1>1. JobsTypeOK' /\ NewsOK' /\ RecordsOK' /\ StoredOK'
  BY ControlFrame
<1>2. KernelTypeOK'
  BY DEF IInv, TypeOK, KernelTypeOK
<1>3. ControlTypeOK'
  BY DEF IInv, TypeOK, ControlTypeOK
<1>4. CommandOK'
  BY DEF CommandOK
<1>5. AccountedOK'
  BY AccountedFrame, SameUnreaped DEF IInv, Foreground
<1>6. TerminalOK'
  BY DEF IInv, TerminalOK
<1> QED
  BY <1>1, <1>2, <1>3, <1>4, <1>5, <1>6 DEF IInv, TypeOK

LEMMA ChangeModeStep ==
  ASSUME IInv, pc \notin Ended, UNCHANGED shell, NEW j \in Job, ChangeMode(j)
  PROVE  IInv'
<1> USE DEF ChangeMode, shell, kernel, jobs
<1>1. JobsTypeOK' /\ NewsOK' /\ RecordsOK' /\ StoredOK'
  BY ControlFrame
<1>2. KernelTypeOK'
  BY DEF IInv, TypeOK, KernelTypeOK
<1>3. ControlTypeOK'
  BY DEF IInv, TypeOK, ControlTypeOK
<1>4. CommandOK'
  BY DEF CommandOK, IInv, HasMembers
<1>5. AccountedOK'
  BY AccountedFrame, SameUnreaped DEF IInv, Foreground
<1>6. TerminalOK'
  BY DEF IInv, TerminalOK
<1> QED
  BY <1>1, <1>2, <1>3, <1>4, <1>5, <1>6 DEF IInv, TypeOK

LEMMA HandOverStep ==
  ASSUME IInv, pc \notin Ended, UNCHANGED shell, NEW j \in Job, HandOver(j)
  PROVE  IInv'
<1> USE DEF HandOver, shell, kernel, jobs
<1>1. JobsTypeOK' /\ NewsOK' /\ RecordsOK' /\ StoredOK'
  BY ControlFrame
<1>2. KernelTypeOK'
  BY DEF IInv, TypeOK, KernelTypeOK
<1>3. ControlTypeOK'
  BY DEF IInv, TypeOK, ControlTypeOK
<1>4. CommandOK'
  BY DEF CommandOK, IInv, HasMembers
<1>5. AccountedOK'
  BY AccountedFrame, SameUnreaped DEF IInv, Foreground
<1>6. TerminalOK'
  BY DEF IInv, TerminalOK
<1> QED
  BY <1>1, <1>2, <1>3, <1>4, <1>5, <1>6 DEF IInv, TypeOK

LEMMA HangupStep ==
  ASSUME IInv, pc \notin Ended, UNCHANGED shell, Hangup
  PROVE  IInv'
<1> USE DEF Hangup, shell, kernel, jobs
<1>1. JobsTypeOK' /\ NewsOK' /\ RecordsOK' /\ StoredOK'
  BY ControlFrame
<1>2. KernelTypeOK'
  BY DEF IInv, TypeOK, KernelTypeOK
<1>3. ControlTypeOK'
  BY DEF IInv, TypeOK, ControlTypeOK
<1>4. CommandOK'
  BY DEF CommandOK, IInv, HasMembers
<1>5. AccountedOK'
  BY AccountedFrame, SameUnreaped DEF IInv, Foreground
<1>6. TerminalOK'
  BY DEF IInv, TerminalOK
<1> QED
  BY <1>1, <1>2, <1>3, <1>4, <1>5, <1>6 DEF IInv, TypeOK

\* An event is read while polling, and while waiting.
LEMMA PollEventStep ==
  ASSUME IInv, NEW i \in Stage, PollEvent(i)
  PROVE  IInv'
<1> DEFINE j == table[at]
<1>1. j \in Job /\ HasMembers(j)
  BY DEF IInv, TypeOK, JobsTypeOK, StoredOK, InTable, PollEvent
<1>2. ApplyEvent(j, i)
  BY DEF PollEvent
<1> HIDE DEF j
<1>3. /\ pc = "poll" /\ at' \in {at, at + 1}
      /\ UNCHANGED <<pc, cmd, want, cur, resume, saved, stored, table>>
  BY DEF PollEvent
<1>4. /\ KernelTypeOK' /\ JobsTypeOK' /\ NewsOK' /\ RecordsOK' /\ StoredOK' /\ AccountedOK'
      /\ UNCHANGED <<fg, mode, up>>
  BY <1>1, <1>2, <1>3, EventStep
<1>5. ControlTypeOK'
  BY <1>3 DEF IInv, TypeOK, ControlTypeOK
<1>6. CommandOK'
  BY <1>3 DEF CommandOK
<1>7. TerminalOK'
  BY <1>3, <1>4 DEF IInv, TerminalOK
<1> QED
  BY <1>4, <1>5, <1>6, <1>7 DEF IInv, TypeOK

LEMMA WaitEventStep ==
  ASSUME IInv, NEW i \in Stage, WaitEvent(i)
  PROVE  IInv'
<1>1. cur \in Job /\ HasMembers(cur)
  BY DEF IInv, TypeOK, JobsTypeOK, CommandOK, StoredOK, WaitEvent
<1>2. ApplyEvent(cur, i)
  BY DEF WaitEvent
<1>3. /\ pc \in {"wait", "killwait"}
      /\ UNCHANGED <<pc, cmd, at, want, cur, resume, saved, stored, table>>
  BY DEF WaitEvent
<1>4. /\ KernelTypeOK' /\ JobsTypeOK' /\ NewsOK' /\ RecordsOK' /\ StoredOK' /\ AccountedOK'
      /\ UNCHANGED <<fg, mode, up>> /\ HasMembers(cur)'
  BY <1>1, <1>2, <1>3, EventStep
<1>5. ControlTypeOK'
  BY <1>3 DEF IInv, TypeOK, ControlTypeOK
<1>6. CommandOK'
  BY <1>1, <1>3, <1>4 DEF IInv, CommandOK
<1>7. TerminalOK'
  BY <1>3, <1>4 DEF IInv, TerminalOK
<1> QED
  BY <1>4, <1>5, <1>6, <1>7 DEF IInv, TypeOK

\* bg and fg continue a stopped job.
LEMMA BgBuiltinStep ==
  ASSUME IInv, NEW j \in Job, BgBuiltin(j)
  PROVE  IInv'
<1>1. j \in InTable /\ HasMembers(j)
  BY DEF IInv, StoredOK, BgBuiltin
<1>2. /\ pc = "select" /\ cmd = "bg" /\ jstate[j] # "done"
      /\ Loop /\ UNCHANGED <<saved, stored, table>>
  BY DEF BgBuiltin
<1>3. pc' = "poll"
  BY <1>2 DEF Loop
<1>4. /\ KernelTypeOK' /\ JobsTypeOK' /\ NewsOK' /\ RecordsOK' /\ StoredOK'
      /\ \A a \in Job : Unreaped(a)' # {} => Unreaped(a) # {}
      /\ UNCHANGED <<fg, mode, up>>
  <2>1. CASE jstate[j] = "stopped"
    <3>1. ContinueJob(j)
      BY <2>1 DEF BgBuiltin
    <3> QED
      BY <1>1, <1>2, <1>3, <3>1, ContinueStep
  <2>2. CASE jstate[j] # "stopped"
    <3>1. UNCHANGED <<kernel, member, jstate>>
      BY <2>2 DEF BgBuiltin
    <3>2. UNCHANGED <<proc, news, jobs>> /\ UNCHANGED <<fg, mode, up, signals>>
      BY <1>2, <3>1 DEF kernel, jobs
    <3>3. KernelTypeOK'
      BY <3>2 DEF IInv, TypeOK, KernelTypeOK
    <3> QED
      BY <1>2, <1>3, <3>2, <3>3, ControlFrame, SameUnreaped
  <2> QED
    BY <2>1, <2>2
<1>5. ControlTypeOK'
  BY <1>2, LoopTypes
<1>6. CommandOK'
  BY <1>3 DEF CommandOK
<1>7. AccountedOK'
  BY <1>2, <1>3, <1>4, AccountedFrame DEF IInv, Foreground
<1>8. TerminalOK'
  BY <1>2, <1>3, <1>4 DEF IInv, TerminalOK
<1> QED
  BY <1>4, <1>5, <1>6, <1>7, <1>8 DEF IInv, TypeOK

LEMMA ContinueForegroundStep ==
  ASSUME IInv, ContinueForeground
  PROVE  IInv'
<1>1. pc = "cont" /\ cur \in stored /\ cur \in Job /\ HasMembers(cur)
  BY DEF IInv, TypeOK, JobsTypeOK, CommandOK, StoredOK, ContinueForeground
<1>2. /\ ContinueJob(cur) /\ pc' \in {"wait", "enable"}
      /\ UNCHANGED <<cmd, at, want, cur, resume, saved, stored, table>>
  BY DEF ContinueForeground, Goto
<1>3. /\ KernelTypeOK' /\ JobsTypeOK' /\ NewsOK' /\ RecordsOK' /\ StoredOK'
      /\ \A a \in Job : Unreaped(a)' # {} => Unreaped(a) # {}
      /\ UNCHANGED <<fg, mode, up>> /\ HasMembers(cur)'
  BY <1>1, <1>2, ContinueStep
<1>4. ControlTypeOK'
  BY <1>2 DEF IInv, TypeOK, ControlTypeOK
<1>5. CommandOK'
  BY <1>1, <1>2, <1>3 DEF IInv, CommandOK
<1>6. AccountedOK'
  BY <1>1, <1>2, <1>3, AccountedFrame DEF IInv, Foreground
<1>7. TerminalOK'
  BY <1>1, <1>2, <1>3 DEF IInv, TerminalOK
<1> QED
  BY <1>3, <1>4, <1>5, <1>6, <1>7 DEF IInv, TypeOK

\* No member runs any more: the wait is over.
LEMMA WaitDoneStep ==
  ASSUME IInv, WaitDone
  PROVE  IInv'
<1>1. cur \in Job /\ HasMembers(cur)
  BY DEF IInv, TypeOK, JobsTypeOK, CommandOK, StoredOK, WaitDone
<1>2. /\ pc \in {"wait", "killwait"} /\ Refreshed(member[cur]) # "running"
      /\ pc' = IF pc = "wait" THEN "reclaim" ELSE "enable"
      /\ jstate' = [jstate EXCEPT ![cur] = Refreshed(member[cur])]
      /\ UNCHANGED <<cmd, at, want, cur, resume, member, saved, stored, table>>
      /\ UNCHANGED <<proc, news, fg, mode, up, signals>>
  BY DEF WaitDone, Goto, kernel
<1>3. jstate[cur] = Refreshed(member[cur])
  BY <1>1, <1>2 DEF IInv, RecordsOK, HasMembers
<1>4. jstate' = jstate
  BY <1>1, <1>2, <1>3 DEF IInv, TypeOK, JobsTypeOK
<1>5. JobsTypeOK' /\ NewsOK' /\ RecordsOK' /\ StoredOK'
  BY <1>2, <1>4, ControlFrame DEF jobs
<1>6. KernelTypeOK'
  BY <1>2 DEF IInv, TypeOK, KernelTypeOK
<1>7. ControlTypeOK'
  BY <1>2 DEF IInv, TypeOK, ControlTypeOK
<1>8. CommandOK'
  BY <1>1, <1>2, <1>3, <1>4 DEF CommandOK, HasMembers
<1>9. AccountedOK'
  BY <1>2, AccountedFrame, SameUnreaped DEF IInv, Foreground
<1>10. TerminalOK'
  BY <1>2 DEF IInv, TerminalOK
<1> QED
  BY <1>5, <1>6, <1>7, <1>8, <1>9, <1>10 DEF IInv, TypeOK

\* The jobs of the table that are not done stay in it.
LEMMA PruneStep ==
  ASSUME IInv, pc # "closed", UNCHANGED <<member, jstate, saved, stored>>, PruneDone
  PROVE  JobsTypeOK' /\ StoredOK'
<1> DEFINE ks == {k \in DOMAIN table : jstate[table[k]] # "done"}
<1>1. Keep(ks)
  BY DEF PruneDone
<1>2. ks \in SUBSET DOMAIN table /\ table \in Seq(Job)
  BY DEF IInv, TypeOK, JobsTypeOK
<1>3. /\ table' \in Seq(Job)
      /\ InTable' = {table[k] : k \in ks}
      /\ \A k, l \in DOMAIN table' : table'[k] = table'[l] => k = l
  <2> HIDE DEF ks
  <2> QED
    BY <1>1, <1>2, KeepEffect DEF IInv, StoredOK
<1>4. JobsTypeOK'
  BY <1>3 DEF IInv, TypeOK, JobsTypeOK
<1>5. \A j \in InTable : jstate[j] # "done" => j \in InTable'
  BY <1>3 DEF InTable
<1>6. InTable' \subseteq InTable
  BY <1>3 DEF InTable
<1>7. StoredOK'
  BY <1>3, <1>5, <1>6 DEF IInv, StoredOK, HasMembers
<1> QED
  BY <1>4, <1>7

\* jobs prunes the table after it printed it.
LEMMA JobsBuiltinStep ==
  ASSUME IInv, JobsBuiltin
  PROVE  IInv'
<1>1. /\ pc = "select" /\ Loop /\ PruneDone
      /\ UNCHANGED <<proc, news, fg, mode, up, signals, member, jstate, saved, stored>>
  BY DEF JobsBuiltin, kernel
<1>2. JobsTypeOK' /\ StoredOK'
  BY <1>1, PruneStep
<1>3. KernelTypeOK' /\ ControlTypeOK'
  BY <1>1, LoopTypes DEF IInv, TypeOK, KernelTypeOK
<1>4. NewsOK' /\ RecordsOK'
  BY <1>1 DEF IInv, NewsOK, RecordsOK, Launching
<1>5. pc' = "poll"
  BY <1>1 DEF Loop
<1>6. CommandOK'
  BY <1>5 DEF CommandOK
<1>7. AccountedOK'
  BY <1>1, <1>5, AccountedFrame, SameUnreaped DEF IInv, Foreground
<1>8. TerminalOK'
  BY <1>1, <1>5 DEF IInv, TerminalOK
<1> QED
  BY <1>2, <1>3, <1>4, <1>6, <1>7, <1>8 DEF IInv, TypeOK

\* The next stage of a launch, or its end.
LEMMA LaunchStageStep ==
  ASSUME IInv, LaunchStage
  PROVE  IInv'
<1>1. /\ pc = "launch" /\ cur \in Job /\ want \in Stage /\ at \in 1 .. want
      /\ \A b \in Stage : /\ member[cur][b] = "none"
                          /\ b < at => proc[cur][b] \notin {"none", "gone"}
                          /\ b >= at => proc[cur][b] = "none"
  BY DEF IInv, TypeOK, ControlTypeOK, CommandOK, LaunchStage
<1>2. at \in Stage /\ want \in Nat /\ at \in Nat
  BY <1>1
<1>3. Spawn(cur, at)
  BY DEF LaunchStage
<1>4. /\ KernelTypeOK'
      /\ fg' = cur /\ UNCHANGED <<news, mode, up>>
      /\ \A a \in Job, b \in Stage :
           proc'[a][b] = IF a = cur /\ b = at THEN "running" ELSE proc[a][b]
  BY <1>1, <1>2, <1>3, SpawnEffect DEF IInv, TypeOK
<1>5. NewsOK'
  BY <1>1, <1>2, <1>4 DEF IInv, NewsOK
<1>6. cur \notin stored /\ cur \notin InTable
  BY <1>1 DEF IInv, StoredOK, HasMembers
<1>7. \A a \in Job : a # cur => (Unreaped(a)' # {} => Unreaped(a) # {})
  BY <1>4 DEF Unreaped
<1>8. CASE at < want
  <2>1. /\ at' = at + 1 /\ UNCHANGED <<pc, cmd, want, cur, resume>>
        /\ UNCHANGED <<member, jstate, saved, stored, table>>
    BY <1>8 DEF LaunchStage, jobs
  <2>2. JobsTypeOK' /\ StoredOK'
    BY <1>1, <2>1 DEF IInv, TypeOK, JobsTypeOK, StoredOK, InTable, HasMembers
  <2>3. ControlTypeOK'
    BY <1>2, <2>1 DEF IInv, TypeOK, ControlTypeOK
  <2>4. RecordsOK'
    <3> SUFFICES ASSUME NEW a \in Job, NEW b \in Stage
        PROVE  RecordOK(a, b)' /\ (NoRecordOK(a, b) \/ Launching(a))'
      BY DEF RecordsOK
    <3>1. Launching(cur)' /\ pc # "closed"
      BY <1>1, <2>1 DEF Launching
    <3>2. CASE a = cur
      BY <3>1, <3>2, <1>1, <1>4, <2>1 DEF IInv, RecordsOK
    <3>3. CASE a # cur
      BY <3>1, <3>3, <1>1, <1>4, <2>1 DEF IInv, RecordsOK, Launching
    <3> QED
      BY <3>2, <3>3
  <2>5. CommandOK'
    <3>1. at' \in 1 .. want'
      BY <1>1, <1>2, <1>8, <2>1
    <3>2. \A b \in Stage : /\ member'[cur][b] = "none"
                           /\ b < at' => proc'[cur][b] \notin {"none", "gone"}
                           /\ b >= at' => proc'[cur][b] = "none"
      BY <1>1, <1>2, <1>4, <2>1
    <3> QED
      BY <1>1, <2>1, <3>1, <3>2 DEF CommandOK
  <2>6. AccountedOK'
    BY <1>1, <1>7, <2>1 DEF IInv, AccountedOK
  <2>7. TerminalOK'
    BY <1>1, <1>4, <2>1 DEF IInv, TerminalOK
  <2> QED
    BY <1>4, <1>5, <2>2, <2>3, <2>4, <2>5, <2>6, <2>7 DEF IInv, TypeOK
<1>9. CASE ~(at < want)
  <2>1. /\ FromLive(cur, want) /\ pc' = "wait"
        /\ UNCHANGED <<cmd, at, want, cur, resume, stored, table>>
    BY <1>9 DEF LaunchStage, Goto
  <2>2. at = want
    BY <1>1, <1>2, <1>9
  <2>3. /\ member' \in [Job -> [Stage -> MemberState]]
        /\ \A b \in Stage : member'[cur][b] = IF b <= want THEN "running" ELSE "none"
        /\ jstate' \in [Job -> JobState] /\ jstate'[cur] = "running"
        /\ saved' \in [Job -> Mode \cup {NoMode}] /\ saved'[cur] = NoMode
        /\ \A a \in Job : a # cur => /\ member'[a] = member[a]
                                     /\ jstate'[a] = jstate[a]
                                     /\ saved'[a] = saved[a]
    BY <1>1, <2>1, FromLiveEffect DEF IInv, TypeOK
  <2>4. JobsTypeOK'
    BY <2>1, <2>3 DEF IInv, TypeOK, JobsTypeOK
  <2>5. StoredOK'
    <3>1. stored \subseteq Job
      BY DEF IInv, TypeOK, JobsTypeOK
    <3>2. \A a \in stored : /\ member'[a] = member[a] /\ jstate'[a] = jstate[a]
                            /\ saved'[a] = saved[a]
      BY <1>6, <2>3, <3>1
    <3> QED
      BY <1>1, <2>1, <3>1, <3>2 DEF IInv, StoredOK, InTable, HasMembers
  <2>6. ControlTypeOK'
    BY <2>1 DEF IInv, TypeOK, ControlTypeOK
  <2>7. member'[cur][at] = "running"
    BY <1>2, <2>2, <2>3
  <2>8. RecordsOK'
    <3>1. jstate'[cur] = Refreshed(member'[cur])
      BY <1>1, <1>2, <2>3, <2>7, RefreshedOK
    <3> SUFFICES ASSUME NEW a \in Job, NEW b \in Stage
        PROVE  RecordOK(a, b)' /\ NoRecordOK(a, b)'
      BY DEF RecordsOK
    <3>2. CASE a = cur
      <4>1. proc[cur][b] = "stopped" => news[cur][b] = "stop"
        BY <1>1 DEF IInv, RecordsOK
      <4>2. b <= want => proc'[cur][b] \notin {"none", "gone"}
        BY <1>1, <1>2, <1>4, <2>2
      <4>3. ~(b <= want) => proc'[cur][b] = "none"
        BY <1>1, <1>2, <1>4, <2>2
      <4>4. proc'[cur][b] = "stopped" => news'[cur][b] = "stop"
        BY <1>1, <1>4, <4>1
      <4>5. member'[cur][b] \in {"running", "none"} /\ (member'[cur][b] = "running" <=> b <= want)
        BY <2>3
      <4> QED
        BY <3>1, <3>2, <4>2, <4>3, <4>4, <4>5
    <3>3. CASE a # cur
      <4>1. /\ member'[a] = member[a] /\ jstate'[a] = jstate[a]
            /\ proc'[a][b] = proc[a][b] /\ news' = news
        BY <3>3, <1>4, <2>3
      <4> QED
        BY <3>3, <4>1, <1>1 DEF IInv, RecordsOK, Launching
    <3> QED
      BY <3>2, <3>3
  <2>9. CommandOK'
    BY <1>1, <1>2, <2>1, <2>7 DEF CommandOK, HasMembers
  <2>10. AccountedOK'
    BY <1>1, <1>7, <2>1 DEF IInv, AccountedOK
  <2>11. TerminalOK'
    BY <1>1, <1>4, <2>1, <2>3 DEF IInv, TerminalOK
  <2> QED
    BY <1>4, <1>5, <2>4, <2>5, <2>6, <2>8, <2>9, <2>10, <2>11 DEF IInv, TypeOK
<1> QED
  BY <1>8, <1>9

\* A launch that fails leaves no child behind.
LEMMA LaunchFailsStep ==
  ASSUME IInv, LaunchFails
  PROVE  IInv'
<1>1. /\ pc = "launch" /\ cur \in Job
      /\ \A b \in Stage : member[cur][b] = "none"
  BY DEF IInv, CommandOK, LaunchFails
<1>2. /\ KillAndReap({cur}) /\ pc' = "enable"
      /\ UNCHANGED <<cmd, at, want, cur, resume, member, jstate, saved, stored, table>>
      /\ UNCHANGED <<fg, mode, up, signals>>
  BY DEF LaunchFails, Goto, jobs
<1>3. /\ proc' \in [Job -> [Stage -> ProcState]]
      /\ news' \in [Job -> [Stage -> {"none", "stop", "cont"}]]
      /\ \A a \in Job, b \in Stage :
           /\ proc'[a][b] = IF a \in {cur} /\ proc[a][b] \in {"running", "stopped", "zombie"}
                            THEN "gone" ELSE proc[a][b]
           /\ news'[a][b] = IF a \in {cur} THEN "none" ELSE news[a][b]
  <2>1. {cur} \in SUBSET Job /\ KernelTypeOK
    BY <1>1 DEF IInv, TypeOK
  <2> HIDE DEF Stage, ProcState
  <2> QED
    BY <1>2, <2>1, KillAndReapEffect
<1>4. KernelTypeOK' /\ ControlTypeOK' /\ JobsTypeOK'
  BY <1>2, <1>3 DEF IInv, TypeOK, KernelTypeOK, ControlTypeOK, JobsTypeOK
<1>5. \A b \in Stage : proc'[cur][b] \in {"none", "gone"}
  BY <1>1, <1>3 DEF IInv, TypeOK, KernelTypeOK
<1>6. NewsOK'
  BY <1>3, <1>5 DEF IInv, NewsOK
<1>7. RecordsOK'
  <2> SUFFICES ASSUME NEW a \in Job, NEW b \in Stage
      PROVE  RecordOK(a, b)' /\ NoRecordOK(a, b)'
    BY DEF RecordsOK
  <2>1. CASE a = cur
    BY <2>1, <1>1, <1>2, <1>5
  <2>2. CASE a # cur
    <3>1. RecordOK(a, b) /\ NoRecordOK(a, b)
      BY <2>2, <1>1 DEF IInv, RecordsOK, Launching
    <3> QED
      BY <2>2, <3>1, <1>2, <1>3
  <2> QED
    BY <2>1, <2>2
<1>8. CommandOK'
  BY <1>2 DEF CommandOK
<1>9. StoredOK'
  BY <1>1, <1>2 DEF IInv, StoredOK, InTable, HasMembers
<1>10. AccountedOK'
  <2>1. Unreaped(cur)' = {}
    BY <1>2, <1>5 DEF Unreaped
  <2>2. \A a \in Job : a # cur => Unreaped(a)' = Unreaped(a)
    BY <1>3 DEF Unreaped
  <2> QED
    BY <1>1, <1>2, <2>1, <2>2 DEF IInv, AccountedOK
<1>11. TerminalOK'
  BY <1>2 DEF IInv, TerminalOK
<1> QED
  BY <1>4, <1>6, <1>7, <1>8, <1>9, <1>10, <1>11 DEF IInv, TypeOK

\* The terminal goes to the job to resume; if it cannot, the job is killed.
LEMMA GiveTerminalStep ==
  ASSUME IInv, GiveTerminal
  PROVE  IInv'
<1>1. pc = "give" /\ cur \in stored /\ cur \in Job /\ HasMembers(cur)
  BY DEF IInv, TypeOK, JobsTypeOK, CommandOK, StoredOK, GiveTerminal
<1>2. /\ UNCHANGED <<cmd, at, want, cur, resume>>
      /\ UNCHANGED <<member, jstate, saved, stored, table>>
      /\ pc' \in {"cont", "wait", "killwait"}
  BY DEF GiveTerminal, Goto, jobs
<1>3. JobsTypeOK' /\ ControlTypeOK' /\ StoredOK'
  BY <1>1, <1>2 DEF IInv, TypeOK, JobsTypeOK, ControlTypeOK, StoredOK, InTable, HasMembers
<1>4. CommandOK'
  BY <1>1, <1>2 DEF CommandOK, HasMembers
<1>5. CASE SetForeground(cur) /\ Goto(IF resume THEN "cont" ELSE "wait")
  <2>1. /\ fg' = cur /\ UNCHANGED <<proc, news, mode, up, signals>>
        /\ pc' = IF resume THEN "cont" ELSE "wait"
    BY <1>5 DEF SetForeground, Goto
  <2>2. NewsOK' /\ RecordsOK'
    BY <1>1, <1>2, <2>1, ControlFrame DEF jobs
  <2>3. KernelTypeOK'
    BY <1>1, <2>1 DEF IInv, TypeOK, KernelTypeOK
  <2>4. AccountedOK'
    BY <1>1, <1>2, <2>1, AccountedFrame, SameUnreaped DEF IInv, Foreground
  <2>5. TerminalOK'
    BY <1>1, <1>2, <2>1 DEF IInv, TerminalOK
  <2> QED
    BY <1>3, <1>4, <2>2, <2>3, <2>4, <2>5 DEF IInv, TypeOK
<1>6. CASE KillGroup(cur) /\ pc' = "killwait"
  <2>1. /\ KernelTypeOK'
        /\ UNCHANGED <<fg, mode, up>>
        /\ \A a \in Job, b \in Stage :
             /\ a = cur => news'[a][b] = "none"
             /\ a # cur => news'[a][b] = news[a][b]
             /\ proc'[a][b] = IF a = cur /\ proc[a][b] \in {"running", "stopped"}
                              THEN "zombie" ELSE proc[a][b]
    BY <1>1, <1>6, KillGroupEffect DEF IInv, TypeOK
  <2>2. NewsOK'
    BY <2>1 DEF IInv, NewsOK
  <2>3. RecordsOK'
    <3> SUFFICES ASSUME NEW a \in Job, NEW b \in Stage
        PROVE  RecordOK(a, b)' /\ NoRecordOK(a, b)'
      BY DEF RecordsOK
    <3>1. RecordOK(a, b) /\ NoRecordOK(a, b)
      BY <1>1 DEF IInv, RecordsOK, Launching
    <3>2. CASE a = cur
      BY <3>1, <3>2, <1>2, <2>1
    <3>3. CASE a # cur
      BY <3>1, <3>3, <1>2, <2>1
    <3> QED
      BY <3>2, <3>3
  <2>4. \A a \in Job : Unreaped(a)' # {} => Unreaped(a) # {}
    BY <2>1 DEF Unreaped
  <2>5. AccountedOK'
    BY <1>1, <1>2, <2>4, AccountedFrame DEF IInv, Foreground
  <2>6. TerminalOK'
    BY <1>2, <1>6, <2>1 DEF IInv, TerminalOK
  <2> QED
    BY <1>3, <1>4, <2>1, <2>2, <2>3, <2>5, <2>6 DEF IInv, TypeOK
<1> QED
  BY <1>5, <1>6 DEF GiveTerminal, Goto

\* The end of a foreground job: it is stored or forgotten.
LEMMA SettleStep ==
  ASSUME IInv, Settle
  PROVE  IInv'
<1>1. pc = "settle" /\ cur \in Job /\ HasMembers(cur) /\ jstate[cur] # "running"
  BY DEF IInv, CommandOK, Settle
<1>2. UNCHANGED <<proc, news, fg, up, signals, member, jstate>>
  BY DEF Settle, SetMode, GiveUp, Goto, kernel, jobs
<1>3. NewsOK'
  BY <1>2 DEF IInv, NewsOK
<1>4. CASE ~up /\ GiveUp
  <2>1. /\ pc' = "leave" /\ UNCHANGED <<cmd, at, want, cur, resume>>
        /\ UNCHANGED <<mode, saved, stored, table>>
    BY <1>4 DEF GiveUp, Goto, kernel, jobs
  <2>2. JobsTypeOK' /\ RecordsOK' /\ StoredOK'
    BY <1>1, <1>2, <2>1, ControlFrame DEF jobs
  <2>3. KernelTypeOK' /\ ControlTypeOK'
    BY <1>2, <2>1 DEF IInv, TypeOK, KernelTypeOK, ControlTypeOK
  <2>4. CommandOK' /\ AccountedOK'
    BY <2>1 DEF CommandOK, AccountedOK
  <2>5. TerminalOK'
    BY <1>2, <1>4, <2>1 DEF IInv, TerminalOK
  <2> QED
    BY <1>3, <2>2, <2>3, <2>4, <2>5 DEF IInv, TypeOK
<1>5. CASE SetMode(Raw) /\ Loop
  <2>1. /\ up /\ fg = Shell /\ mode' = Raw /\ pc' = "poll"
        /\ mode \in {Cooked, cur}
    BY <1>1, <1>5 DEF SetMode, Loop, IInv, TerminalOK
  <2>2. KernelTypeOK' /\ ControlTypeOK'
    BY <1>2, <1>5, <2>1, LoopTypes DEF IInv, TypeOK, KernelTypeOK
  <2>3. RecordsOK'
    BY <1>1, <1>2, <2>1 DEF IInv, RecordsOK, Launching
  <2>4. CommandOK'
    BY <2>1 DEF CommandOK
  <2>5. CASE jstate[cur] = "stopped"
    <3>1. saved' = [saved EXCEPT ![cur] = mode] /\ Store(cur)
      BY <1>1, <2>1, <2>5 DEF Settle, GiveUp, Goto
    <3>2. /\ saved' \in [Job -> Mode \cup {NoMode}]
          /\ \A a \in Job : saved'[a] = IF a = cur THEN mode ELSE saved[a]
      BY <1>1, <2>1, <3>1 DEF IInv, TypeOK, JobsTypeOK
    <3>3. mode # NoMode
      BY <1>1, <2>1
    <3>4. /\ stored' = stored \cup {cur}
          /\ table' \in Seq(Job)
          /\ InTable' = InTable \cup {cur}
          /\ \A k, l \in DOMAIN table' : table'[k] = table'[l] => k = l
      <4>1. CASE cur \in stored
        <5>1. table' = table /\ stored' = stored
          BY <3>1, <4>1 DEF Store
        <5>2. cur \in InTable
          BY <1>1, <2>5, <4>1 DEF IInv, StoredOK
        <5> QED
          BY <4>1, <5>1, <5>2 DEF IInv, TypeOK, JobsTypeOK, StoredOK, InTable
      <4>2. CASE cur \notin stored
        <5>1. table' = Append(table, cur) /\ stored' = stored \cup {cur}
          BY <3>1, <4>2 DEF Store
        <5>2. table \in Seq(Job) /\ cur \notin InTable
          BY <4>2 DEF IInv, TypeOK, JobsTypeOK, StoredOK
        <5>3. /\ table' \in Seq(Job) /\ Len(table') = Len(table) + 1 /\ Len(table) \in Nat
              /\ \A k \in 1 .. Len(table) : table'[k] = table[k]
              /\ table'[Len(table) + 1] = cur
              /\ DOMAIN table = 1 .. Len(table) /\ DOMAIN table' = 1 .. Len(table')
          BY <1>1, <5>1, <5>2
        <5>4. \A k \in DOMAIN table' : k \in DOMAIN table \/ k = Len(table) + 1
          BY <5>3
        <5>5. \A k \in DOMAIN table : k \in DOMAIN table' /\ table'[k] = table[k] /\ table[k] # cur
          BY <5>2, <5>3 DEF InTable
        <5>6. Len(table) + 1 \in DOMAIN table'
          BY <5>3
        <5>7. InTable' = InTable \cup {cur}
          BY <5>3, <5>4, <5>5, <5>6 DEF InTable
        <5>8. \A k, l \in DOMAIN table' : table'[k] = table'[l] => k = l
          BY <5>3, <5>4, <5>5 DEF IInv, StoredOK
        <5> QED
          BY <5>1, <5>3, <5>7, <5>8
      <4> QED
        BY <4>1, <4>2
    <3>5. JobsTypeOK'
      BY <1>1, <1>2, <3>2, <3>4 DEF IInv, TypeOK, JobsTypeOK
    <3>6. StoredOK'
      <4>1. \A j \in stored' : j \in Job
        BY <3>5 DEF JobsTypeOK
      <4>2. \A j \in stored' : HasMembers(j)' /\ saved'[j] # NoMode
        BY <1>1, <1>2, <3>2, <3>3, <3>4, <4>1 DEF IInv, StoredOK, HasMembers
      <4>3. InTable' \subseteq stored'
        BY <3>4 DEF IInv, StoredOK
      <4>4. \A j \in stored' : jstate'[j] # "done" => j \in InTable'
        BY <1>1, <1>2, <3>4 DEF IInv, StoredOK
      <4> QED
        BY <3>4, <4>2, <4>3, <4>4 DEF StoredOK
    <3>7. AccountedOK'
      <4>1. \A j \in Job : Unreaped(j)' = Unreaped(j)
        BY <1>2, SameUnreaped
      <4> QED
        BY <1>1, <3>4, <4>1 DEF IInv, AccountedOK
    <3>8. TerminalOK'
      BY <1>2, <2>1, <3>2 DEF IInv, TerminalOK
    <3> QED
      BY <1>3, <2>2, <2>3, <2>4, <3>5, <3>6, <3>7, <3>8 DEF IInv, TypeOK
  <2>6. CASE jstate[cur] # "stopped"
    <3>1. UNCHANGED <<saved, stored>> /\ PruneDone
      BY <1>1, <2>1, <2>6 DEF Settle, GiveUp, Goto
    <3>2. JobsTypeOK' /\ StoredOK'
      BY <1>1, <1>2, <3>1, PruneStep
    <3>3. Unreaped(cur) = {}
      <4>1. jstate[cur] = "done"
        BY <1>1, <2>6 DEF IInv, TypeOK, JobsTypeOK
      <4>2. jstate[cur] = Refreshed(member[cur]) /\ member[cur] \in [Stage -> MemberState]
        BY <1>1 DEF IInv, RecordsOK, HasMembers, TypeOK, JobsTypeOK
      <4>3. \A b \in Stage : member[cur][b] \in {"none", "done"}
        BY <4>1, <4>2, RefreshedOK
      <4>4. \A b \in Stage : proc[cur][b] \in {"none", "gone"}
        BY <1>1, <4>3 DEF IInv, RecordsOK, Launching
      <4> QED
        BY <4>4 DEF Unreaped
    <3>4. AccountedOK'
      <4>1. \A j \in Job : Unreaped(j)' = Unreaped(j)
        BY <1>2, SameUnreaped
      <4> QED
        BY <1>1, <3>1, <3>3, <4>1 DEF IInv, AccountedOK
    <3>5. TerminalOK'
      BY <1>2, <2>1, <3>1 DEF IInv, TerminalOK
    <3> QED
      BY <1>3, <2>2, <2>3, <2>4, <3>2, <3>4, <3>5 DEF IInv, TypeOK
  <2> QED
    BY <2>5, <2>6
<1> QED
  BY <1>4, <1>5 DEF Settle

\* The loop's end reaps whatever is left.
LEMMA LeaveStep ==
  ASSUME IInv, Leave
  PROVE  IInv'
<1>1. /\ KillAndReap(Job) /\ pc = "leave" /\ pc' = "closed"
      /\ mode' = IF up THEN Cooked ELSE mode
      /\ UNCHANGED <<cmd, at, want, cur, resume, member, jstate, saved, stored, table>>
      /\ UNCHANGED <<fg, up, signals>>
  BY DEF Leave, Goto, jobs
<1>2. /\ proc' \in [Job -> [Stage -> ProcState]]
      /\ news' \in [Job -> [Stage -> {"none", "stop", "cont"}]]
      /\ \A a \in Job, b \in Stage : news'[a][b] = "none"
  BY <1>1, KillAndReapEffect DEF IInv, TypeOK
<1>3. KernelTypeOK' /\ ControlTypeOK' /\ JobsTypeOK'
  BY <1>1, <1>2 DEF IInv, TypeOK, KernelTypeOK, ControlTypeOK, JobsTypeOK
<1>4. NewsOK' /\ RecordsOK' /\ CommandOK' /\ AccountedOK'
  BY <1>1, <1>2 DEF NewsOK, RecordsOK, CommandOK, AccountedOK
<1>5. StoredOK'
  BY <1>1 DEF IInv, StoredOK, InTable, HasMembers
<1>6. TerminalOK'
  BY <1>1 DEF IInv, TerminalOK
<1> QED
  BY <1>3, <1>4, <1>5, <1>6 DEF IInv, TypeOK

\* The environment: a process ends, stops or is continued by others.
LEMMA ExitStep ==
  ASSUME IInv, pc \notin Ended, UNCHANGED shell,
         NEW j \in Job, NEW i \in Stage, Exit(j, i)
  PROVE  IInv'
<1> USE DEF Exit, Alive, shell
<1>1. KernelTypeOK' /\ ControlTypeOK' /\ JobsTypeOK'
  BY DEF IInv, TypeOK, KernelTypeOK, ControlTypeOK, JobsTypeOK
<1>2. NewsOK'
  BY DEF IInv, TypeOK, KernelTypeOK, NewsOK
<1>3. RecordsOK'
  BY DEF IInv, TypeOK, KernelTypeOK, NewsOK, RecordsOK, Launching
<1>4. CommandOK'
  BY DEF IInv, TypeOK, KernelTypeOK, CommandOK, HasMembers
<1>5. StoredOK'
  BY DEF IInv, StoredOK, InTable, HasMembers
<1>6. \A a \in Job : Unreaped(a)' # {} => Unreaped(a) # {}
  BY DEF IInv, TypeOK, KernelTypeOK, Unreaped
<1>7. AccountedOK'
  BY <1>6 DEF IInv, AccountedOK
<1>8. TerminalOK'
  BY DEF IInv, TerminalOK
<1> QED
  BY <1>1, <1>2, <1>3, <1>4, <1>5, <1>7, <1>8 DEF IInv, TypeOK

LEMMA StopStep ==
  ASSUME IInv, pc \notin Ended, UNCHANGED shell,
         NEW j \in Job, NEW i \in Stage, Stop(j, i)
  PROVE  IInv'
<1> USE DEF Stop, Running, shell
<1>1. KernelTypeOK' /\ ControlTypeOK' /\ JobsTypeOK'
  BY DEF IInv, TypeOK, KernelTypeOK, ControlTypeOK, JobsTypeOK
<1>2. NewsOK'
  BY DEF IInv, TypeOK, KernelTypeOK, NewsOK
<1>3. RecordsOK'
  BY DEF IInv, TypeOK, KernelTypeOK, NewsOK, RecordsOK, Launching
<1>4. CommandOK'
  BY DEF IInv, TypeOK, KernelTypeOK, CommandOK, HasMembers
<1>5. StoredOK'
  BY DEF IInv, StoredOK, InTable, HasMembers
<1>6. \A a \in Job : Unreaped(a)' # {} => Unreaped(a) # {}
  BY DEF IInv, TypeOK, KernelTypeOK, Unreaped
<1>7. AccountedOK'
  BY <1>6 DEF IInv, AccountedOK
<1>8. TerminalOK'
  BY DEF IInv, TerminalOK
<1> QED
  BY <1>1, <1>2, <1>3, <1>4, <1>5, <1>7, <1>8 DEF IInv, TypeOK

LEMMA OutsideContStep ==
  ASSUME IInv, pc \notin Ended, UNCHANGED shell,
         NEW j \in Job, NEW i \in Stage, OutsideCont(j, i)
  PROVE  IInv'
<1> USE DEF OutsideCont, shell
<1>1. KernelTypeOK' /\ ControlTypeOK' /\ JobsTypeOK'
  BY DEF IInv, TypeOK, KernelTypeOK, ControlTypeOK, JobsTypeOK
<1>2. NewsOK'
  BY DEF IInv, TypeOK, KernelTypeOK, NewsOK
<1>3. RecordsOK'
  BY DEF IInv, TypeOK, KernelTypeOK, NewsOK, RecordsOK, Launching
<1>4. CommandOK'
  BY DEF IInv, TypeOK, KernelTypeOK, CommandOK, HasMembers
<1>5. StoredOK'
  BY DEF IInv, StoredOK, InTable, HasMembers
<1>6. \A a \in Job : Unreaped(a)' # {} => Unreaped(a) # {}
  BY DEF IInv, TypeOK, KernelTypeOK, Unreaped
<1>7. AccountedOK'
  BY <1>6 DEF IInv, AccountedOK
<1>8. TerminalOK'
  BY DEF IInv, TerminalOK
<1> QED
  BY <1>1, <1>2, <1>3, <1>4, <1>5, <1>7, <1>8 DEF IInv, TypeOK

\* Nothing changes.
LEMMA StutterStep == IInv /\ UNCHANGED vars => IInv'
BY DEF vars, kernel, shell, IInv, TypeOK, KernelTypeOK, ControlTypeOK, JobsTypeOK, NewsOK,
       RecordsOK, CommandOK, StoredOK, AccountedOK, TerminalOK, HasMembers, Launching,
       InTable, Unreaped

\* Every step keeps the invariant.
LEMMA NextInvariant == IInv /\ [Next]_vars => IInv'
<1> SUFFICES ASSUME IInv, [Next]_vars PROVE IInv'
  OBVIOUS
<1>1. CASE ShellStep
  BY <1>1, PollEventStep, BgBuiltinStep, FgBuiltinStep, WaitEventStep,
     PollNextStep, PollEndStep, IdleStep, JobsBuiltinStep, NoSuchJobStep,
     ReleaseStep, EnableStep, EnterEditorModeStep, LaunchStageStep, LaunchFailsStep,
     RestoreJobModeStep, GiveTerminalStep, ContinueForegroundStep, WaitDoneStep,
     ReclaimStep, SettleStep, LeaveStep
     DEF ShellStep
<1>2. CASE UserStep
  BY <1>2, RunStep, BuiltinStep, QuitStep DEF UserStep
<1>3. CASE Killed
  BY <1>3, KilledStep
<1>4. CASE pc \notin Ended /\ EnvironmentStep /\ UNCHANGED shell
  BY <1>4, ExitStep, StopStep, OutsideContStep, ChangeModeStep, HandOverStep, HangupStep
     DEF EnvironmentStep
<1>5. CASE UNCHANGED vars
  BY <1>5, StutterStep
<1> QED
  BY <1>1, <1>2, <1>3, <1>4, <1>5 DEF Next

\* The inductive invariant of the shell's job control.
THEOREM Invariant == Spec => []IInv
<1>1. Init => IInv
  BY InitInvariant
<1>2. IInv /\ [Next]_vars => IInv'
  BY NextInvariant
<1> QED
  BY <1>1, <1>2, PTL DEF Spec

-----------------------------------------------------------------------------
(* The properties.                                                         *)

\* A job is done exactly when none of its processes can report anything more.
LEMMA UnreapedNotDone ==
  ASSUME IInv, pc \notin {"launch"} \cup Ended, NEW j \in Job, HasMembers(j),
         Unreaped(j) # {}
  PROVE  jstate[j] # "done"
<1>1. jstate[j] = Refreshed(member[j]) /\ member[j] \in [Stage -> MemberState]
  BY DEF IInv, RecordsOK, HasMembers, TypeOK, JobsTypeOK
<1>2. PICK i \in Stage : proc[j][i] \in {"running", "stopped", "zombie"}
  BY DEF Unreaped
<1>3. member[j][i] \notin {"none", "done"}
  BY <1>2 DEF IInv, RecordsOK, Launching
<1> QED
  BY <1>1, <1>3, RefreshedOK

\* Until then one of them is left to report it.
LEMMA NotDoneUnreaped ==
  ASSUME IInv, pc \notin {"launch"} \cup Ended, NEW j \in Job, HasMembers(j),
         jstate[j] # "done"
  PROVE  Unreaped(j) # {}
<1>1. jstate[j] = Refreshed(member[j]) /\ member[j] \in [Stage -> MemberState]
  BY DEF IInv, RecordsOK, HasMembers, TypeOK, JobsTypeOK
<1>2. PICK i \in Stage : member[j][i] \notin {"none", "done"}
  BY <1>1, RefreshedOK
<1>3. proc[j][i] \notin {"none", "gone"} /\ proc[j][i] \in ProcState
  BY <1>2 DEF IInv, RecordsOK, TypeOK, KernelTypeOK
<1> QED
  BY <1>3 DEF Unreaped

\* The variables of the shell and the kernel keep their types.
THEOREM TypeOKHolds == Spec => []TypeOK
<1>1. IInv => TypeOK
  BY DEF IInv
<1> QED
  BY <1>1, Invariant, PTL

\* No event is lost: where a job's record and the kernel disagree about a
\* process, the event that will correct the record is still to be reported.
THEOREM TableTruthHolds == Spec => []TableTruth
<1>1. IInv => TableTruth
  <2> SUFFICES ASSUME IInv, pc # "closed", NEW j \in Job, NEW i \in Stage
      PROVE  /\ member[j][i] = "running" /\ proc[j][i] = "stopped" => news[j][i] = "stop"
             /\ member[j][i] = "stopped" /\ proc[j][i] = "running" => news[j][i] = "cont"
             /\ member[j][i] # "none" => /\ proc[j][i] # "none"
                                         /\ jstate[j] = Refreshed(member[j])
                                         /\ member[j][i] = "done" <=> proc[j][i] = "gone"
    BY DEF TableTruth
  <2> QED
    BY DEF IInv, RecordsOK
<1> QED
  BY <1>1, Invariant, PTL

\* At its prompt the shell owns the terminal, in the editor's mode.
THEOREM PromptOwnsTerminalHolds == Spec => []PromptOwnsTerminal
<1>1. IInv => PromptOwnsTerminal
  BY DEF IInv, TerminalOK, PromptOwnsTerminal, AtPrompt
<1> QED
  BY <1>1, Invariant, PTL

\* At the prompt every child that is not reaped is a member of a job of the
\* table that poll_all looks at, once.
THEOREM JobsAccountedHolds == Spec => []JobsAccounted
<1>1. IInv => JobsAccounted
  <2> SUFFICES ASSUME IInv, AtPrompt PROVE JobsAccounted
    BY DEF JobsAccounted
  <2>1. ASSUME NEW j \in Job, Unreaped(j) # {} PROVE j \in InTable /\ jstate[j] # "done"
    <3>1. j \in stored /\ HasMembers(j)
      BY <2>1 DEF IInv, AccountedOK, StoredOK, AtPrompt
    <3>2. jstate[j] # "done"
      BY <2>1, <3>1, UnreapedNotDone DEF AtPrompt
    <3> QED
      BY <3>1, <3>2 DEF IInv, StoredOK, AtPrompt
  <2>2. \A k, l \in DOMAIN table : table[k] = table[l] => k = l
    BY DEF IInv, StoredOK
  <2> QED
    BY <2>1, <2>2 DEF JobsAccounted
<1> QED
  BY <1>1, Invariant, PTL

\* The shell never waits for a group without children, and never sets the
\* terminal's mode from the background.
THEOREM ShellSurvivesHolds == Spec => []ShellSurvives
<1>1. IInv => ShellSurvives
  <2> SUFFICES ASSUME IInv PROVE ~PollDies /\ ~WaitDies /\ ~HungByTty
    BY DEF ShellSurvives
  <2>1. ~PollDies
    <3> SUFFICES ASSUME PollDies PROVE FALSE
      OBVIOUS
    <3>1. table[at] \in Job /\ HasMembers(table[at])
      BY DEF PollDies, IInv, TypeOK, JobsTypeOK, StoredOK, InTable
    <3> QED
      BY <3>1, NotDoneUnreaped DEF PollDies
  <2>2. ~WaitDies
    <3> SUFFICES ASSUME WaitDies PROVE FALSE
      OBVIOUS
    <3>1. cur \in Job /\ HasMembers(cur)
      BY DEF WaitDies, IInv, TypeOK, JobsTypeOK, CommandOK, StoredOK
    <3>2. jstate[cur] = "running"
      BY <3>1 DEF WaitDies, IInv, RecordsOK, HasMembers
    <3> QED
      BY <3>1, <3>2, NotDoneUnreaped DEF WaitDies
  <2>3. ~HungByTty
    BY DEF HungByTty, IInv, TerminalOK
  <2> QED
    BY <2>1, <2>2, <2>3
<1> QED
  BY <1>1, Invariant, PTL

\* The mode saved with a job is one that job may have left.
THEOREM SavedModesApartHolds == Spec => []SavedModesApart
<1>1. IInv => SavedModesApart
  BY DEF IInv, TerminalOK, SavedModesApart
<1> QED
  BY <1>1, Invariant, PTL

\* A stopped job is continued in the foreground under the mode it was stopped
\* with, or one it set since.
THEOREM ResumesInItsModeHolds == Spec => []ResumesInItsMode
<1>1. IInv => ResumesInItsMode
  BY DEF IInv, TerminalOK, ResumesInItsMode
<1> QED
  BY <1>1, Invariant, PTL

=============================================================================
