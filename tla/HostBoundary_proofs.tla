-------------------------- MODULE HostBoundary_proofs --------------------------
(***************************************************************************)
(* Theorems about HostBoundary, for every bound.  None of its invariants   *)
(* is inductive alone.  IInv adds to Res, the invariant of the resources,  *)
(* what the snapshots, the loop of close_one and the terminal have to do   *)
(* with them: a snapshot counts no handle that was never made, its saved   *)
(* mode is the user's, and when cleanup is under way the processes before  *)
(* the one it is closing have stopped.                                     *)
(***************************************************************************)
EXTENDS HostResources_proofs, WellFoundedInduction

CtlType == /\ TermType
           /\ calls \in Seq(Snapshot)
           /\ todo \in [next : Nat, last : Nat] /\ stage \in Stage
           /\ pc \in {"run", "closing", "cleanup", "over"}

\* No snapshot counts a handle that was never made, or a later one less.
Counts ==
  /\ \A k \in DOMAIN calls : /\ calls[k].fds <= Len(fds)
                             /\ calls[k].children <= Len(children)
                             /\ calls[k].procs <= Len(ps)
  /\ \A k, l \in DOMAIN calls : k < l => /\ calls[k].fds <= calls[l].fds
                                         /\ calls[k].children <= calls[l].children
                                         /\ calls[k].procs <= calls[l].procs
  /\ Handles <= MaxHandles

\* A mode is only saved on a terminal, and it is the user's.
Modes == /\ saved # "none" => IsTty
         /\ \A k \in DOMAIN calls : calls[k].saved # "none" => IsTty /\ calls[k].saved = "cooked"

\* A process close_one has done with.
Stopped(j) == ~Running(ps[j].pid, <<"popen", j>>) /\ (ps[j].gone \/ ps[j].stdin = 0)

\* Where the loop of close_one stands.
Closing == /\ stage = "idle" <=> pc \in {"run", "over"}
           /\ todo.next >= 1 /\ todo.last <= Len(ps)
           /\ stage = "idle" => todo = nothing_to_do
           /\ stage \in {"grace", "terminated"} => todo.next <= todo.last /\ ps[todo.next].stdin = 0
           /\ pc \in {"cleanup", "over"} => calls = <<>> /\ saved = "none"
           /\ pc = "cleanup" => /\ todo.last = Len(ps)
                                /\ \A j \in DOMAIN ps : j < todo.next => Stopped(j)

Ctl == CtlType /\ Counts /\ Modes /\ TerminalOurs /\ Closing /\ NothingLeft

IInv == Res /\ Ctl

-----------------------------------------------------------------------------
(* What the operations do to the two lists of Linux handles.               *)

\* Handles are added, all of them live.
Grown ==
  /\ Len(fds') \in Nat /\ Len(fds) <= Len(fds')
  /\ Len(children') \in Nat /\ Len(children) <= Len(children')
  /\ \A i \in 1..Len(fds) : fds'[i] = fds[i]
  /\ \A i \in 1..Len(fds') : i > Len(fds) => ~fds'[i].closed
  /\ \A i \in 1..Len(children) : children'[i] = children[i]
  /\ \A i \in 1..Len(children') : i > Len(children) => ~children'[i].waited

\* One handle is spent.
FdSpent(i) ==
  /\ i \in DOMAIN fds /\ ~fds[i].closed /\ fds'[i].closed
  /\ Len(fds') = Len(fds) /\ children' = children
  /\ \A k \in DOMAIN fds : k # i => fds'[k] = fds[k]

ChildSpent(i) ==
  /\ i \in DOMAIN children /\ ~children[i].waited /\ children'[i].waited
  /\ Len(children') = Len(children) /\ fds' = fds
  /\ \A k \in DOMAIN children : k # i => children'[k] = children[k]

LEMMA SameGrown ==
  ASSUME Res, UNCHANGED <<fds, children>>
  PROVE  Grown
<1>1. /\ Len(fds) \in Nat /\ Len(children) \in Nat
      /\ fds' = fds /\ children' = children
  BY Elements DEF Res
<1> QED BY <1>1, SMTT(60) DEF Grown

\* own_fd, pipe and spawn add handles.
LEMMA OwnGrown ==
  ASSUME Res, NEW n \in Num, own_fd(n), UNCHANGED children
  PROVE  Grown /\ Len(fds') = Len(fds) + 1 /\ Len(children') = Len(children)
<1> DEFINE e == [num |-> n, closed |-> FALSE]
<1>1. e \in LinuxFd /\ e.closed = FALSE
  BY DEF LinuxFd
<1>2. fds' = Append(fds, e) /\ fds \in Seq(LinuxFd) /\ Len(children) \in Nat /\ children' = children
  BY Elements DEF own_fd, Res, ResType
<1> HIDE DEF e
<1>3. /\ Len(fds) \in Nat /\ Len(fds') = Len(fds) + 1
      /\ \A i \in 1..Len(fds) : fds'[i] = fds[i]
      /\ fds'[Len(fds) + 1] = e
  BY <1>1, <1>2, AppendFacts
<1>4. \A i \in 1..Len(fds') : i > Len(fds) => i = Len(fds) + 1
  BY <1>3, SMTT(60)
<1>5. /\ Len(fds') \in Nat /\ Len(fds) <= Len(fds')
      /\ Len(children') = Len(children) /\ Len(children) <= Len(children')
      /\ \A i \in 1..Len(children') : ~(i > Len(children))
  BY <1>2, <1>3, SMTT(60)
<1> QED BY <1>1, <1>2, <1>3, <1>4, <1>5 DEF Grown

LEMMA PipeGrown ==
  ASSUME Res, pipe
  PROVE  Grown /\ Len(fds') = Len(fds) + 2 /\ Len(children') = Len(children)
<1>1. PICK n \in Num, m \in Num :
        fds' = fds \o <<[num |-> n, closed |-> FALSE], [num |-> m, closed |-> FALSE]>>
  BY DEF pipe
<1>2. fds \in Seq(LinuxFd) /\ Len(fds) \in Nat /\ Len(children) \in Nat /\ children' = children
  BY Elements DEF Res, ResType, pipe
<1>3. /\ Len(fds') = Len(fds) + 2
      /\ \A i \in 1..Len(fds) : fds'[i] = fds[i]
      /\ fds'[Len(fds) + 1] = [num |-> n, closed |-> FALSE]
      /\ fds'[Len(fds) + 2] = [num |-> m, closed |-> FALSE]
  BY <1>1, <1>2, SMTT(60)
<1>4. \A i \in 1..Len(fds') : i > Len(fds) => i = Len(fds) + 1 \/ i = Len(fds) + 2
  BY <1>2, <1>3, SMTT(60)
<1>5. \A i \in 1..Len(fds') : i > Len(fds) => ~fds'[i].closed
  BY <1>3, <1>4
<1>6. /\ Len(fds') \in Nat /\ Len(fds) <= Len(fds')
      /\ Len(children') = Len(children) /\ Len(children) <= Len(children')
      /\ \A i \in 1..Len(children') : ~(i > Len(children))
  BY <1>2, <1>3, SMTT(60)
<1> QED BY <1>2, <1>3, <1>5, <1>6 DEF Grown

LEMMA SpawnGrown ==
  ASSUME Res, NEW p \in Pid, NEW g \in {0} \cup Pid, spawn(p, g)
  PROVE  Grown /\ Len(fds') = Len(fds) /\ Len(children') = Len(children) + 1
<1>1. PICK m \in Num : children' = Append(children, [pid |-> p, pidfd |-> m, waited |-> FALSE,
                                                     pgid |-> IF g = 0 THEN p ELSE g])
  BY DEF spawn
<1> DEFINE e == [pid |-> p, pidfd |-> m, waited |-> FALSE, pgid |-> IF g = 0 THEN p ELSE g]
<1>2. e \in LinuxChild /\ e.waited = FALSE
  BY MaxNumNat, SMTT(60) DEF LinuxChild, Num
<1>3. children' = Append(children, e) /\ children \in Seq(LinuxChild) /\ Len(fds) \in Nat /\ fds' = fds
  BY <1>1, Elements DEF Res, ResType, spawn
<1> HIDE DEF e
<1>4. /\ Len(children) \in Nat /\ Len(children') = Len(children) + 1
      /\ \A i \in 1..Len(children) : children'[i] = children[i]
      /\ children'[Len(children) + 1] = e
  BY <1>2, <1>3, AppendFacts
<1>5. \A i \in 1..Len(children') : i > Len(children) => i = Len(children) + 1
  BY <1>4, SMTT(60)
<1>6. /\ Len(children') \in Nat /\ Len(children) <= Len(children')
      /\ Len(fds') = Len(fds) /\ Len(fds) <= Len(fds')
      /\ \A i \in 1..Len(fds') : ~(i > Len(fds))
  BY <1>3, <1>4, SMTT(60)
<1> QED BY <1>2, <1>3, <1>4, <1>5, <1>6 DEF Grown

\* close and the end of a child spend one handle, or none.
LEMMA CloseSpent ==
  ASSUME Res, NEW i \in DOMAIN fds, close(i)
  PROVE  FdSpent(i) \/ UNCHANGED <<fds, children>>
<1>1. CASE fds[i].closed
  BY <1>1 DEF close
<1>2. CASE ~fds[i].closed
  <2>1. fds[i] \in LinuxFd /\ fds \in Seq(LinuxFd) /\ DOMAIN fds = 1..Len(fds)
    BY Elements DEF Res, ResType
  <2>2. fds' = [fds EXCEPT ![i].closed = TRUE] /\ children' = children
    BY <1>2 DEF close
  <2>3. [fds[i] EXCEPT !.closed = TRUE] \in LinuxFd /\ [fds[i] EXCEPT !.closed = TRUE].closed
    BY <2>1 DEF LinuxFd
  <2>4. Len(fds') = Len(fds)
    BY <2>1, <2>2, <2>3, UpdateFacts
  <2>5. fds'[i].closed /\ \A k \in DOMAIN fds : k # i => fds'[k] = fds[k]
    BY <2>1, <2>2, <2>3
  <2> QED BY <1>2, <2>2, <2>4, <2>5 DEF FdSpent
<1> QED BY <1>1, <1>2

LEMMA SameChild ==
  ASSUME NEW c \in LinuxChild, NEW d \in LinuxChild,
         c.pid = d.pid, c.pgid = d.pgid, c.waited = d.waited, c.pidfd = d.pidfd
  PROVE  c = d
BY SMTT(60) DEF LinuxChild

LEMMA FinishSpent ==
  ASSUME Res, NEW i \in DOMAIN children, finish_terminal(i)
  PROVE  ChildSpent(i) \/ UNCHANGED <<fds, children>>
<1> DEFINE c == [children[i] EXCEPT !.waited = TRUE, !.pidfd = 0]
<1>1. /\ children[i] \in LinuxChild /\ children \in Seq(LinuxChild)
      /\ children[i].waited => children[i].pidfd = 0
  BY Elements DEF Res, ResType, NoPidfd
<1>2. c \in LinuxChild /\ c.waited = TRUE
  BY <1>1, SpentChild
<1>3. children' = [children EXCEPT ![i] = c] /\ fds' = fds
  <2>1. children' = [children EXCEPT ![i].waited = TRUE, ![i].pidfd = 0] /\ fds' = fds
    BY Zenon DEF finish_terminal
  <2>2. [children EXCEPT ![i].waited = TRUE, ![i].pidfd = 0] = [children EXCEPT ![i] = c]
    BY Zenon
  <2> QED BY <2>1, <2>2
<1>4. ASSUME children[i].waited
      PROVE  c = children[i]
  <2>1. children[i].waited = TRUE /\ children[i].pidfd = 0
    BY <1>1, <1>4 DEF LinuxChild
  <2>2. /\ c.waited = TRUE /\ c.pidfd = 0
        /\ c.pid = children[i].pid /\ c.pgid = children[i].pgid
    BY <1>1, SMTT(60) DEF LinuxChild
  <2> HIDE DEF c
  <2> QED BY <1>1, <1>2, <2>1, <2>2, SameChild
<1> HIDE DEF c
<1>5. Len([children EXCEPT ![i] = c]) = Len(children)
  BY <1>1, <1>2, UpdateFacts
<1>6. /\ [children EXCEPT ![i] = c][i] = c
      /\ \A k \in DOMAIN children : k # i => [children EXCEPT ![i] = c][k] = children[k]
  BY Zenon
<1>7. CASE children[i].waited
  <2>1. [children EXCEPT ![i] = children[i]] = children
    BY <1>1, SMTT(60)
  <2> QED BY <1>3, <1>4, <1>7, <2>1
<1>8. CASE ~children[i].waited
  BY <1>2, <1>3, <1>5, <1>6, <1>8 DEF ChildSpent
<1> QED BY <1>7, <1>8

\* A call of linux preserves Res and adds handles within the bound or spends one.
LEMMA LinuxEffect ==
  ASSUME Res, Ctl, LinuxCall
  PROVE  /\ Res'
         /\ \/ Grown /\ Handles' <= MaxHandles
            \/ \E i \in DOMAIN fds : FdSpent(i)
            \/ \E i \in DOMAIN children : ChildSpent(i)
<1>1. ps' = ps /\ Handles <= MaxHandles /\ Len(fds) \in Nat /\ Len(children) \in Nat /\ Len(ps) \in Nat
      /\ MaxHandles \in Nat
  BY Elements, BoundaryAssumption DEF LinuxCall, procvars, Res, Ctl, Counts
<1>2. CASE UNCHANGED <<fds, children>> /\ Res'
  <2>1. Handles' = Handles
    BY <1>1, <1>2 DEF Handles
  <2> QED BY <1>1, <1>2, <2>1, SameGrown
<1>3. CASE Fits(1) /\ dup
  <2>1. PICK n \in Num : own_fd(n) /\ UNCHANGED children
    BY <1>3 DEF dup
  <2>2. Res'
    BY <1>1, <1>3, DupRes
  <2> QED BY <1>1, <1>3, <2>1, <2>2, OwnGrown DEF Fits, Handles
<1>4. CASE Fits(2) /\ pipe
  BY <1>1, <1>4, PipeRes, PipeGrown DEF Fits, Handles
<1>5. CASE Fits(1) /\ open_file
  <2>1. CASE UNCHANGED <<table, proc, whose, fds, children>>
    BY <1>1, <1>2, <2>1, ResStutter DEF resvars
  <2> QED BY <1>3, <1>5, <2>1 DEF open_file
<1>6. CASE \E i \in DOMAIN fds : close(i)
  <2>1. PICK i \in DOMAIN fds : close(i)
    BY <1>6
  <2>2. Res'
    BY <1>1, <2>1, CloseRes
  <2> QED BY <1>2, <2>1, <2>2, CloseSpent
<1>7. CASE Fits(1) /\ \E p \in Pid, g \in {0} \cup Pid : spawn(p, g)
  <2>1. PICK p \in Pid, g \in {0} \cup Pid : spawn(p, g)
    BY <1>7
  <2>2. Res'
    BY <1>1, <2>1, SpawnRes
  <2>3. Grown /\ Len(fds') = Len(fds) /\ Len(children') = Len(children) + 1
    BY <2>1, SpawnGrown
  <2> QED BY <1>1, <1>7, <2>2, <2>3 DEF Fits, Handles
<1>8. CASE \E p \in Pid : spawn_error(p)
  <2>1. PICK p \in Pid : spawn_error(p)
    BY <1>8
  <2> QED BY <1>1, <1>2, <2>1, SpawnErrorRes DEF spawn_error
<1>9. CASE \E i \in DOMAIN children : send(i)
  <2>1. PICK i \in DOMAIN children : send(i)
    BY <1>9
  <2> QED BY <1>1, <1>2, <2>1, SendRes DEF send
<1>10. CASE \E g \in Pid : send_group(g)
  <2>1. PICK g \in Pid : send_group(g)
    BY <1>10
  <2> QED BY <1>1, <1>2, <2>1, SendGroupRes DEF send_group
<1>11. CASE \E i \in DOMAIN children : wait_exit(i)
  <2>1. PICK i \in DOMAIN children : wait_exit(i)
    BY <1>11
  <2>2. finish_terminal(i) /\ Res'
    BY <1>1, <2>1, WaitExitRes DEF wait_exit
  <2> QED BY <1>2, <2>2, FinishSpent
<1>12. ASSUME NEW p \in Pid, from_waitid(p)
       PROVE  (\E i \in DOMAIN children : ChildSpent(i)) \/ UNCHANGED <<fds, children>>
  <2>1. PICK i \in DOMAIN children : finish_terminal(i)
    BY <1>12 DEF from_waitid
  <2> QED BY <2>1, FinishSpent
<1>13. CASE \E i \in DOMAIN children : wait_child(i)
  <2>1. PICK i \in DOMAIN children : wait_child(i)
    BY <1>13
  <2>2. from_waitid(children[i].pid) /\ children[i].pid \in Pid
    BY <2>1, Elements DEF wait_child, Res
  <2>3. Res'
    BY <1>1, <2>1, WaitChildRes
  <2> QED BY <1>2, <1>12, <2>2, <2>3
<1>18. CASE \E g \in Pid : wait_group(g)
  <2>1. PICK g \in Pid : wait_group(g)
    BY <1>18
  <2>2. PICK p \in Pid : from_waitid(p)
    BY <2>1 DEF wait_group
  <2>3. Res'
    BY <1>1, <2>1, WaitGroupRes
  <2> QED BY <1>2, <1>12, <2>2, <2>3
<1>14. CASE UNCHANGED linuxvars
  BY <1>1, <1>2, <1>14, ResStutter DEF resvars, linuxvars
<1>15. fd_module \/ process_module
  BY DEF LinuxCall
<1>16. CASE fd_module
  BY <1>3, <1>4, <1>5, <1>6, <1>14, <1>16, Zenon DEF fd_module
<1>17. CASE process_module
  BY <1>7, <1>8, <1>9, <1>10, <1>11, <1>13, <1>17, <1>18, Zenon DEF process_module
<1> QED BY <1>15, <1>16, <1>17, Zenon

-----------------------------------------------------------------------------
(* The steps, one lemma each.                                              *)

\* The snapshots of a stack whose end is removed.
LEMMA Popped ==
  ASSUME Ctl, calls # <<>>, calls' = SubSeq(calls, 1, Len(calls) - 1)
  PROVE  /\ Len(calls) \in Nat \ {0} /\ DOMAIN calls = 1..Len(calls)
         /\ calls[Len(calls)] \in Snapshot
         /\ calls' \in Seq(Snapshot) /\ Len(calls') = Len(calls) - 1
         /\ DOMAIN calls' = 1..(Len(calls) - 1)
         /\ \A k \in 1..(Len(calls) - 1) : calls'[k] = calls[k] /\ k \in DOMAIN calls
<1> DEFINE n == Len(calls)
<1>1. calls \in Seq(Snapshot)
  BY DEF Ctl, CtlType
<1>2. n \in Nat \ {0} /\ DOMAIN calls = 1..n /\ \A k \in 1..n : calls[k] \in Snapshot
  BY <1>1, EmptySeq, LenProperties, ElementOfSeq
<1>3. calls' = [k \in 1..(n - 1) |-> calls[k]]
  BY <1>1, <1>2, SMTT(60)
<1>4. \A k \in 1..(n - 1) : k \in 1..n
  BY <1>2, SMTT(60)
<1> HIDE DEF n
<1>5. calls' \in [1..(n - 1) -> Snapshot] /\ \A k \in 1..(n - 1) : calls'[k] = calls[k]
  BY <1>2, <1>3, <1>4
<1>6. n - 1 \in Nat
  BY <1>2
<1>7. calls' \in Seq(Snapshot)
  BY <1>5, <1>6, SeqDef
<1>8. Len(calls') = n - 1
  BY <1>5, <1>6, <1>7, LenProperties, SMTT(60)
<1> QED BY <1>2, <1>4, <1>5, <1>7, <1>8 DEF n

\* The counts and the snapshots when the lists do not shrink and no boundary
\* is entered.
LEMMA CountsKeep ==
  ASSUME Res, Ctl, UNCHANGED calls, Len(fds') >= Len(fds), Len(children') >= Len(children),
         Len(ps') >= Len(ps), Res', Handles' <= MaxHandles
  PROVE  Counts'
<1>1. /\ Len(fds) \in Nat /\ Len(children) \in Nat /\ Len(ps) \in Nat
      /\ calls \in Seq(Snapshot) /\ DOMAIN calls = 1..Len(calls)
      /\ \A k \in DOMAIN calls : /\ calls[k].fds \in Nat /\ calls[k].children \in Nat
                                 /\ calls[k].procs \in Nat
  <2>1. calls \in Seq(Snapshot) /\ Len(fds) \in Nat /\ Len(children) \in Nat /\ Len(ps) \in Nat
    BY Elements DEF Ctl, CtlType, Res
  <2>2. DOMAIN calls = 1..Len(calls) /\ \A k \in DOMAIN calls : calls[k] \in Snapshot
    BY <2>1, SMTT(60)
  <2> QED BY <2>1, <2>2 DEF Snapshot
<1>2. /\ Len(fds)' \in Nat /\ Len(children)' \in Nat /\ Len(ps)' \in Nat
  BY Elements DEF Res, ResType
<1>3. calls' = calls
  OBVIOUS
<1> QED BY <1>1, <1>2, <1>3, SMTT(60) DEF Ctl, Counts

\* A step that leaves the calls, the loop and the terminal alone.
LEMMA CtlKeep ==
  ASSUME Res, Ctl, pc = "run", UNCHANGED <<calls, pc, todo, stage, termvars>>,
         Counts', Res', Len(ps') >= Len(ps)
  PROVE  Ctl'
<1>1. /\ calls' = calls /\ pc' = pc /\ todo' = todo /\ stage' = stage
      /\ saved' = saved /\ ui_depth' = ui_depth /\ mode' = mode /\ screen' = screen
  BY DEF termvars
<1>2. Len(ps) \in Nat /\ Len(ps)' \in Nat /\ todo.last \in Nat
  <2>1. todo \in [next : Nat, last : Nat]
    BY DEF Ctl, CtlType
  <2> QED BY <2>1, Elements DEF Res, ResType
<1>3. CtlType' /\ Modes' /\ TerminalOurs'
  BY <1>1 DEF Ctl, CtlType, TermType, Modes, TerminalOurs
<1>4. Closing'
  <2>1. todo.last <= Len(ps)'
    BY <1>2, SMTT(60) DEF Ctl, Closing
  <2> QED BY <1>1, <2>1 DEF Ctl, Closing
<1>5. NothingLeft'
  BY <1>1 DEF NothingLeft
<1> QED BY <1>3, <1>4, <1>5 DEF Ctl

LEMMA LinuxCallInv ==
  ASSUME IInv, LinuxCall
  PROVE  IInv'
<1>1. /\ Res' /\ ps' = ps /\ pc = "run"
      /\ UNCHANGED <<calls, pc, todo, stage, termvars>>
  BY LinuxEffect DEF IInv, LinuxCall, procvars
<1>2. /\ Len(fds) \in Nat /\ Len(children) \in Nat /\ Len(ps) \in Nat /\ Handles <= MaxHandles
  BY Elements DEF IInv, Res, Ctl, Counts
<1>3. Len(fds') >= Len(fds) /\ Len(children') >= Len(children) /\ Handles' <= MaxHandles
  <2>1. CASE Grown /\ Handles' <= MaxHandles
    BY <2>1, <1>2 DEF Grown
  <2>2. ASSUME NEW i \in DOMAIN fds, FdSpent(i)
        PROVE  Len(fds') = Len(fds) /\ Len(children') = Len(children)
    BY <2>2 DEF FdSpent
  <2>3. ASSUME NEW i \in DOMAIN children, ChildSpent(i)
        PROVE  Len(fds') = Len(fds) /\ Len(children') = Len(children)
    BY <2>3 DEF ChildSpent
  <2>4. CASE Len(fds') = Len(fds) /\ Len(children') = Len(children)
    BY <1>1, <1>2, <2>4 DEF Handles
  <2> QED BY <2>1, <2>2, <2>3, <2>4, LinuxEffect DEF IInv
<1>4. Len(ps') >= Len(ps)
  BY <1>1, <1>2
<1>5. Counts'
  BY <1>1, <1>3, <1>4, CountsKeep DEF IInv
<1> QED BY <1>1, <1>4, <1>5, CtlKeep DEF IInv

LEMMA ProcCallInv ==
  ASSUME IInv, ProcCall
  PROVE  IInv'
<1>1. /\ pc = "run" /\ UNCHANGED <<fds, children, calls, pc, todo, stage, termvars>>
      /\ fds' = fds /\ children' = children
  BY DEF ProcCall, popen, alive, move_bytes
<1>2. /\ Len(fds) \in Nat /\ Len(children) \in Nat /\ Len(ps) \in Nat /\ Handles <= MaxHandles
      /\ ps \in Seq(Popen)
  BY Elements DEF IInv, Res, ResType, Ctl, Counts
<1>3. Res' /\ Len(ps') >= Len(ps) /\ Handles' <= MaxHandles
  <2>1. CASE Fits(1) /\ \E p \in Pid : GroupEmpty(p) /\ popen(p)
    <3>1. PICK p \in Pid : popen(p)
      BY <2>1
    <3>2. Res'
      BY <1>1, <3>1, PopenRes DEF IInv
    <3>3. PICK e : ps' = Append(ps, e)
      BY <3>1 DEF popen
    <3>4. Len(ps') = Len(ps) + 1
      BY <1>2, <3>3, SMTT(60)
    <3> QED BY <1>1, <1>2, <2>1, <3>2, <3>4, BoundaryAssumption, SMTT(60) DEF Fits, Handles
  <2>2. CASE \E j \in DOMAIN ps : alive(j)
    <3>1. PICK j \in DOMAIN ps : reap(j) /\ UNCHANGED table
      BY <2>2 DEF alive
    <3>2. Res'
      BY <1>1, <3>1, ReapRes DEF IInv
    <3>3. Len(ps') = Len(ps)
      <4>1. ps[j] \in Popen
        BY Elements DEF IInv, Res
      <4>2. [ps[j] EXCEPT !.gone = TRUE] \in Popen
        BY <4>1, Zenon DEF Popen
      <4>3. ps' = [ps EXCEPT ![j] = [ps[j] EXCEPT !.gone = TRUE]]
        BY <3>1, Zenon DEF reap
      <4> QED BY <1>2, <4>2, <4>3, UpdateFacts
    <3> QED BY <1>1, <1>2, <3>2, <3>3 DEF Handles
  <2>3. CASE move_bytes
    <3>1. UNCHANGED resvars /\ ps' = ps
      BY <1>1, <2>3 DEF move_bytes, resvars
    <3> QED BY <1>1, <1>2, <3>1, ResStutter DEF IInv, Handles
  <2> QED BY <2>1, <2>2, <2>3 DEF ProcCall
<1>4. Counts'
  <2>1. UNCHANGED calls /\ Len(fds') >= Len(fds) /\ Len(children') >= Len(children)
    BY <1>1, <1>2
  <2> QED BY <1>3, <2>1, CountsKeep DEF IInv
<1> QED BY <1>1, <1>3, <1>4, CtlKeep DEF IInv

LEMMA ProcCloseInv ==
  ASSUME IInv, ProcClose
  PROVE  IInv'
<1>1. PICK j \in DOMAIN ps : todo' = [next |-> j, last |-> j] /\ stage' = "poll"
  BY DEF ProcClose, close_range
<1>2. /\ pc = "run" /\ pc' = "closing" /\ UNCHANGED <<resvars, calls>>
      /\ saved' = saved /\ ui_depth' = ui_depth /\ mode' = mode /\ screen' = screen
      /\ ps' = ps /\ fds' = fds /\ children' = children /\ calls' = calls
  BY DEF ProcClose, linuxvars, resvars, termvars
<1>3. j \in Nat /\ 1 <= j /\ j <= Len(ps)
  BY Elements DEF IInv, Res
<1>4. Res'
  BY <1>2, ResStutter DEF IInv
<1>5. CtlType' /\ Modes' /\ TerminalOurs' /\ Counts' /\ NothingLeft'
  BY <1>1, <1>2, <1>3 DEF IInv, Ctl, CtlType, TermType, Stage, Modes, TerminalOurs, Counts, Handles, NothingLeft
<1>6. Closing'
  BY <1>1, <1>2, <1>3, Zenon DEF IInv, Ctl, Closing
<1> QED BY <1>4, <1>5, <1>6 DEF IInv, Ctl

\* The calls of term keep the terminal's invariant.
LEMMA TermCallInv ==
  ASSUME IInv, TermCall
  PROVE  IInv'
<1>1. /\ pc = "run" /\ pc' = pc /\ UNCHANGED <<resvars, calls>>
      /\ ps' = ps /\ fds' = fds /\ children' = children /\ calls' = calls
      /\ todo' = todo /\ stage' = stage
  BY DEF TermCall, linuxvars, procvars, resvars
<1>2. Res'
  BY <1>1, ResStutter DEF IInv
<1>3. TermType /\ TerminalOurs /\ (saved # "none" => IsTty) /\ MaxUi \in Nat
  BY TermAssumption DEF IInv, Ctl, CtlType, Modes
<1>4. TermType' /\ TerminalOurs' /\ (saved' # "none" => IsTty)
  <2>1. CASE enter
    BY <1>3, <2>1 DEF enter, enter_saved, enter_mode, enters, TermType, Mode, TerminalOurs
  <2>2. CASE leave
    BY <1>3, <2>2 DEF leave, leave_mode, TermType, Mode, TerminalOurs
  <2>3. CASE enter_ui
    BY <1>3, <2>3 DEF enter_ui, enter_saved, enter_mode, enters, TermType, Mode, TerminalOurs
  <2>4. CASE leave_ui
    BY <1>3, <2>4 DEF leave_ui, leave_mode, TermType, Mode, TerminalOurs
  <2>5. CASE use_term
    BY <1>3, <2>5 DEF use_term, termvars, TermType, TerminalOurs
  <2> QED BY <2>1, <2>2, <2>3, <2>4, <2>5 DEF TermCall
<1>5. CtlType' /\ Counts' /\ Modes' /\ Closing' /\ NothingLeft'
  BY <1>1, <1>4 DEF IInv, Ctl, CtlType, Counts, Handles, Modes, Closing, NothingLeft
<1> QED BY <1>2, <1>4, <1>5 DEF IInv, Ctl

LEMMA CallInv ==
  ASSUME IInv, Call
  PROVE  IInv'
<1>1. /\ pc = "run" /\ pc' = pc /\ UNCHANGED resvars
      /\ ps' = ps /\ fds' = fds /\ children' = children /\ calls' = Append(calls, snapshot)
      /\ todo' = todo /\ stage' = stage
      /\ saved' = saved /\ ui_depth' = ui_depth /\ mode' = mode /\ screen' = screen
  BY DEF Call, linuxvars, procvars, termvars, resvars
<1>2. Res'
  BY <1>1, ResStutter DEF IInv
<1>3. /\ Len(fds) \in Nat /\ Len(children) \in Nat /\ Len(ps) \in Nat
      /\ TermType /\ calls \in Seq(Snapshot)
  BY Elements DEF IInv, Res, Ctl, CtlType
<1>4. /\ snapshot \in Snapshot
      /\ snapshot.fds = Len(fds) /\ snapshot.children = Len(children) /\ snapshot.procs = Len(ps)
      /\ snapshot.saved = saved
  BY <1>3 DEF snapshot, linux_checkpoint, term_checkpoint, Snapshot, TermType
<1>5. /\ calls' \in Seq(Snapshot) /\ Len(calls) \in Nat
      /\ DOMAIN calls = 1..Len(calls) /\ DOMAIN calls' = 1..(Len(calls) + 1)
      /\ \A k \in 1..Len(calls) : calls'[k] = calls[k]
      /\ calls'[Len(calls) + 1] = snapshot
  BY <1>1, <1>3, <1>4, AppendFacts
<1>6. \A k \in DOMAIN calls' : \/ k \in DOMAIN calls /\ calls'[k] = calls[k]
                               \/ k = Len(calls) + 1 /\ calls'[k] = snapshot
  BY <1>5, SMTT(60)
<1>7. CtlType' /\ TerminalOurs' /\ NothingLeft' /\ Closing'
  BY <1>1, <1>5 DEF IInv, Ctl, CtlType, TermType, TerminalOurs, NothingLeft, Closing
<1>8. Modes'
  BY <1>1, <1>4, <1>6 DEF IInv, Ctl, Modes, TerminalOurs
<1>9. Counts'
  <2>1. \A k \in DOMAIN calls' : /\ calls'[k].fds <= Len(fds)
                                 /\ calls'[k].children <= Len(children)
                                 /\ calls'[k].procs <= Len(ps)
    BY <1>3, <1>4, <1>6 DEF IInv, Ctl, Counts
  <2>2. ASSUME NEW k \in DOMAIN calls', NEW l \in DOMAIN calls', k < l
        PROVE  /\ calls'[k].fds <= calls'[l].fds /\ calls'[k].children <= calls'[l].children
               /\ calls'[k].procs <= calls'[l].procs
    <3>1. CASE l = Len(calls) + 1
      BY <1>4, <1>5, <2>1, <3>1
    <3>2. CASE l # Len(calls) + 1
      <4>1. k \in DOMAIN calls /\ l \in DOMAIN calls /\ calls'[k] = calls[k] /\ calls'[l] = calls[l]
        BY <1>5, <1>6, <2>2, <3>2
      <4> QED BY <2>2, <4>1 DEF IInv, Ctl, Counts
    <3> QED BY <3>1, <3>2
  <2>3. Handles' = Handles /\ Handles <= MaxHandles
    BY <1>1 DEF IInv, Ctl, Counts, Handles
  <2> QED BY <1>1, <2>1, <2>2, <2>3 DEF Counts
<1> QED BY <1>2, <1>7, <1>8, <1>9 DEF IInv, Ctl

LEMMA CallOkInv ==
  ASSUME IInv, CallOk
  PROVE  IInv'
<1>1. /\ pc = "run" /\ pc' = pc /\ UNCHANGED resvars
      /\ ps' = ps /\ fds' = fds /\ children' = children
      /\ calls # <<>> /\ calls' = SubSeq(calls, 1, Len(calls) - 1)
      /\ todo' = todo /\ stage' = stage
      /\ saved' = saved /\ ui_depth' = ui_depth /\ mode' = mode /\ screen' = screen
  BY DEF CallOk, linuxvars, procvars, termvars, resvars
<1>2. Res'
  BY <1>1, ResStutter DEF IInv
<1>3. /\ calls' \in Seq(Snapshot)
      /\ \A k \in DOMAIN calls' : k \in DOMAIN calls /\ calls'[k] = calls[k]
  BY <1>1, Popped DEF IInv
<1>4. CtlType' /\ TerminalOurs' /\ NothingLeft' /\ Closing'
  BY <1>1, <1>3 DEF IInv, Ctl, CtlType, TermType, TerminalOurs, NothingLeft, Closing
<1>5. Modes' /\ Counts'
  BY <1>1, <1>3 DEF IInv, Ctl, Modes, Counts, Handles
<1> QED BY <1>2, <1>4, <1>5 DEF IInv, Ctl

\* The rollback of the terminal gives it the mode of the snapshot.
LEMMA TermRollback ==
  ASSUME TermType, TerminalOurs, saved # "none" => IsTty,
         NEW c \in Snapshot, c.saved # "none" => IsTty /\ c.saved = "cooked", term_rollback(c)
  PROVE  /\ TermType' /\ TerminalOurs' /\ (saved' # "none" => IsTty)
         /\ saved' = c.saved
         /\ mode' = IF c.saved = "none" THEN "cooked" ELSE "raw"
<1> DEFINE reenters == ui_depth < c.ui_depth
           s1 == IF reenters THEN enter_saved(saved, mode) ELSE saved
           m1 == IF reenters THEN enter_mode(saved, mode) ELSE mode
<1>1. /\ c.ui_depth \in 0..MaxUi /\ ui_depth \in 0..MaxUi /\ MaxUi \in Nat
      /\ screen \in {"main", "alternate"}
      /\ saved \in {"none", "cooked"} /\ mode = IF saved = "none" THEN "cooked" ELSE "raw"
  BY TermAssumption DEF TermType, TerminalOurs, Snapshot, Mode
<1>2. s1 \in {"none", "cooked"} /\ m1 = IF s1 = "none" THEN "cooked" ELSE "raw"
  BY <1>1 DEF enter_saved, enter_mode, enters
<1>3. /\ ui_depth' = c.ui_depth
      /\ screen' = CASE ui_depth > c.ui_depth -> "main" [] reenters -> "alternate" [] OTHER -> screen
      /\ saved' = c.saved
      /\ mode' = IF c.saved = "none" THEN leave_mode(s1, m1)
                 ELSE IF s1 = "none" /\ IsTty THEN "raw" ELSE m1
  BY DEF term_rollback
<1> HIDE DEF s1, m1
<1>4. mode' = IF c.saved = "none" THEN "cooked" ELSE "raw"
  <2>1. CASE c.saved = "none"
    <3>1. leave_mode(s1, m1) = "cooked"
      BY <1>2 DEF leave_mode
    <3> QED BY <1>3, <2>1, <3>1
  <2>2. CASE c.saved # "none"
    BY <1>2, <1>3, <2>2
  <2> QED BY <2>1, <2>2
<1>5. screen' \in {"main", "alternate"} /\ (ui_depth' = 0 => screen' = "main")
  <2>1. CASE ui_depth > c.ui_depth
    BY <1>1, <1>3, <2>1
  <2>2. CASE ui_depth < c.ui_depth
    BY <1>1, <1>3, <2>2
  <2>3. CASE ui_depth = c.ui_depth
    BY <1>1, <1>3, <2>3 DEF TerminalOurs
  <2> QED BY <1>1, <2>1, <2>2, <2>3
<1> QED BY <1>1, <1>3, <1>4, <1>5 DEF TermType, TerminalOurs, Mode

LEMMA CallTrapInv ==
  ASSUME IInv, CallTrap
  PROVE  IInv'
<1> DEFINE c == calls[Len(calls)]
<1>1. /\ pc' = "closing" /\ ps' = ps
      /\ calls # <<>> /\ calls' = SubSeq(calls, 1, Len(calls) - 1)
      /\ linux_rollback(c.fds, c.children) /\ term_rollback(c)
      /\ todo' = [next |-> c.procs + 1, last |-> Len(ps)] /\ stage' = "poll"
  BY DEF CallTrap, proc_rollback, close_range
<1>2. /\ c \in Snapshot /\ Len(calls) \in DOMAIN calls
      /\ calls' \in Seq(Snapshot)
      /\ \A k \in DOMAIN calls' : k \in DOMAIN calls /\ calls'[k] = calls[k]
  BY <1>1, Popped DEF IInv
<1>3. /\ c.fds \in Nat /\ c.children \in Nat /\ c.procs \in Nat
      /\ c.saved # "none" => IsTty /\ c.saved = "cooked"
  BY <1>2 DEF Snapshot, IInv, Ctl, Modes
<1> HIDE DEF c
<1>4. /\ Res' /\ Len(fds') = Len(fds) /\ Len(children') = Len(children)
  BY <1>1, <1>3, RollbackRes DEF IInv
<1>5. TermType' /\ TerminalOurs' /\ (saved' # "none" => IsTty)
  BY <1>1, <1>2, <1>3, TermRollback DEF IInv, Ctl, CtlType, Modes
<1>6. Len(ps) \in Nat
  BY Elements DEF IInv, Res
<1>7. CtlType' /\ Modes' /\ NothingLeft'
  BY <1>1, <1>2, <1>3, <1>5, <1>6 DEF IInv, Ctl, CtlType, Stage, Modes, NothingLeft
<1>8. Counts'
  <2>1. Handles' = Handles
    BY <1>1, <1>4 DEF Handles
  <2> QED BY <1>1, <1>2, <1>4, <2>1 DEF IInv, Ctl, Counts
<1>9. Closing'
  BY <1>1, <1>3, <1>6 DEF Closing
<1> QED BY <1>4, <1>5, <1>7, <1>8, <1>9 DEF IInv, Ctl

LEMMA FinishInv ==
  ASSUME IInv, Finish
  PROVE  IInv'
<1>1. /\ pc' = "cleanup" /\ ps' = ps /\ calls' = <<>> /\ leave /\ RaisesError
      /\ todo' = [next |-> 1, last |-> Len(ps)] /\ stage' = "poll"
  BY DEF Finish, proc_cleanup, close_range
<1>2. Res' /\ fds' = fds /\ children' = children
  <2>1. CASE UNCHANGED linuxvars
    BY <1>1, <2>1, ResStutter DEF IInv, linuxvars, resvars
  <2>2. CASE \E p \in Pid : spawn_raises(p)
    <3>1. PICK p \in Pid : spawn_error(p)
      BY <2>2 DEF spawn_raises
    <3> QED BY <1>1, <3>1, SpawnErrorRes DEF IInv, spawn_error
  <2>3. CASE fork_raises
    BY <1>1, <2>3, ForkRaisesRes DEF IInv, fork_raises
  <2> QED BY <1>1, <2>1, <2>2, <2>3 DEF RaisesError
<1>3. TermType' /\ TerminalOurs' /\ saved' = "none"
  BY <1>1 DEF IInv, Ctl, CtlType, leave, leave_mode, TermType, Mode, TerminalOurs
<1>4. Len(ps) \in Nat /\ DOMAIN ps = 1..Len(ps) /\ calls' \in Seq(Snapshot) /\ DOMAIN calls' = {}
  BY <1>1, Elements DEF IInv, Res
<1>5. CtlType' /\ Modes' /\ NothingLeft'
  BY <1>1, <1>3, <1>4 DEF CtlType, Stage, Modes, NothingLeft
<1>6. Counts'
  <2>1. Handles' = Handles
    BY <1>1, <1>2 DEF Handles
  <2> QED BY <1>4, <2>1 DEF IInv, Ctl, Counts
<1>7. Closing'
  BY <1>1, <1>3, <1>4 DEF Closing
<1> QED BY <1>2, <1>3, <1>5, <1>6, <1>7 DEF IInv, Ctl

\* Nobody starts when processes end.
LEMMA EndedNoStart ==
  ASSUME KernelType, NEW R, NEW K, Ended(R, K)
  PROVE  \A p \in Pid : \A j : Running(p, <<"popen", j>>)' => Running(p, <<"popen", j>>)
<1> SUFFICES ASSUME NEW p \in Pid, NEW j, Running(p, <<"popen", j>>)'
             PROVE  Running(p, <<"popen", j>>)
  OBVIOUS
<1>1. proc'[p] = "running" /\ whose'[p] = <<"popen", j>>
  BY DEF Running
<1>2. /\ whose'[p] # Nobody
  BY <1>1, WhoseTags
<1>3. p \notin R /\ ~(p \in K /\ whose[p] = Stranger)
  BY <1>2, EndedFacts
<1>4. whose'[p] = whose[p]
  BY <1>3, EndedFacts
<1>5. proc[p] = "running"
  BY <1>1, <1>3, EndedFacts
<1> QED BY <1>1, <1>4, <1>5 DEF Running

\* What a step of close_one does to the loop and to the processes: it stops
\* the one it closes, and touches no other but by the number of a Popen that
\* missed the end of its own.
LEMMA CloseOneEffect ==
  ASSUME Res, CtlType, Closing, NEW j \in DOMAIN ps, close_one_poll(j) \/ close_one_wait(j)
  PROVE  /\ stage # "idle" /\ j = todo.next /\ j <= todo.last
         /\ Len(ps') = Len(ps) /\ DOMAIN ps' = DOMAIN ps
         /\ \A k \in DOMAIN ps : ps'[k].pid = ps[k].pid /\ (k # j => ps'[k] = ps[k])
         /\ \A p \in Pid : \A k : Running(p, <<"popen", k>>)' => Running(p, <<"popen", k>>)
         /\ \A p \in Pid : ~Missed(p) /\ whose[p] # <<"popen", todo.next>> => Untouched(p)
         /\ \/ todo' = todo /\ stage' \in {"grace", "terminated"} /\ ps'[j].stdin = 0
            \/ todo' = [todo EXCEPT !.next = @ + 1] /\ stage' = "poll" /\ Stopped(j)'
<1>1. /\ stage # "idle" /\ j = todo.next /\ j <= todo.last
      /\ stage \in {"grace", "terminated"} => ps[j].stdin = 0
  BY DEF close_one_poll, close_one_wait, closing, Closing
<1>2. ps[j] \in Popen /\ ps[j].pid \in Pid /\ ps \in Seq(Popen) /\ KernelType
  BY Elements DEF Res, ResType
<1> DEFINE psOK == /\ Len(ps') = Len(ps) /\ DOMAIN ps' = DOMAIN ps
                   /\ \A k \in DOMAIN ps : ps'[k].pid = ps[k].pid /\ (k # j => ps'[k] = ps[k])
           runOK == \A p \in Pid : \A k : Running(p, <<"popen", k>>)' => Running(p, <<"popen", k>>)
           sparesOK == \A p \in Pid : ~Missed(p) /\ whose[p] # <<"popen", j>> => Untouched(p)
           procsOK == runOK /\ sparesOK
           loopOK == \/ todo' = todo /\ stage' \in {"grace", "terminated"} /\ ps'[j].stdin = 0
                     \/ todo' = [todo EXCEPT !.next = @ + 1] /\ stage' = "poll" /\ Stopped(j)'
<1>3. ASSUME ps' = ps
      PROVE  psOK
  BY <1>3
<1>4. ASSUME UNCHANGED <<proc, whose>>
      PROVE  procsOK
  BY <1>4 DEF Running, Untouched
<1>5. ASSUME NEW R, NEW K, Ended(R, K), R \cup K \subseteq {ps[j].pid}, ~ps[j].gone
      PROVE  procsOK
  <2>1. runOK
    BY <1>2, <1>5, EndedNoStart
  <2>2. ASSUME NEW p \in Pid, ~Missed(p), whose[p] # <<"popen", j>>
        PROVE  Untouched(p)
    <3>1. p # ps[j].pid
      BY <1>5, <2>2 DEF Missed, MissedPopen
    <3>2. p \notin R /\ p \notin K
      BY <1>5, <3>1
    <3> QED BY <1>2, <1>5, <3>2, EndedFacts DEF Untouched
  <2> QED BY <2>1, <2>2
<1>6. ASSUME reap(j)
      PROVE  psOK /\ procsOK /\ Stopped(j)'
  <2>1. /\ ps' = [ps EXCEPT ![j].gone = TRUE] /\ ~ps[j].gone
        /\ Ended(IF Ours(ps[j].pid) THEN {ps[j].pid} ELSE {}, {})
    BY <1>6, Zenon DEF reap
  <2>2. procsOK
    <3>1. (IF Ours(ps[j].pid) THEN {ps[j].pid} ELSE {}) \cup {} \subseteq {ps[j].pid}
      OBVIOUS
    <3> QED BY <1>5, <2>1, <3>1
  <2>3. psOK /\ ps'[j].gone = TRUE
    <3>1. [ps[j] EXCEPT !.gone = TRUE] \in Popen
      BY <1>2, Zenon DEF Popen
    <3>2. [ps[j] EXCEPT !.gone = TRUE].pid = ps[j].pid /\ [ps[j] EXCEPT !.gone = TRUE].gone = TRUE
      BY <1>2, SMTT(60) DEF Popen
    <3>3. ps' = [ps EXCEPT ![j] = [ps[j] EXCEPT !.gone = TRUE]]
      BY <2>1, Zenon
    <3>4. Len(ps') = Len(ps) /\ DOMAIN ps' = DOMAIN ps
      BY <1>2, <3>1, <3>3, UpdateFacts
    <3> QED BY <3>2, <3>3, <3>4
  <2>4. whose'[ps[j].pid] # <<"popen", j>>
    <3>1. CASE Ours(ps[j].pid)
      <4>1. whose'[ps[j].pid] = Nobody
        BY <1>2, <2>1, <3>1, EndedFacts
      <4> QED BY <4>1, WhoseTags
    <3>2. CASE ~Ours(ps[j].pid)
      <4>1. whose'[ps[j].pid] = whose[ps[j].pid]
        BY <1>2, <2>1, <3>2, EndedFacts
      <4>2. j \in Nat
        BY Elements DEF Res
      <4>3. <<"popen", j>> \in Process
        BY <4>2 DEF Process
      <4> QED BY <3>2, <4>1, <4>3 DEF Ours
    <3> QED BY <3>1, <3>2
  <2>5. Stopped(j)'
    BY <2>3, <2>4 DEF Stopped, Running
  <2> HIDE DEF psOK, procsOK
  <2> QED BY <2>2, <2>3, <2>5
<1>7. ASSUME ps' = [ps EXCEPT ![j].stdin = 0]
      PROVE  psOK /\ ps'[j].stdin = 0
  <2>1. [ps[j] EXCEPT !.stdin = 0] \in Popen
    <3>1. 0 \in 0..MaxNum
      BY MaxNumNat
    <3> QED BY <1>2, <3>1, Zenon DEF Popen
  <2>2. [ps[j] EXCEPT !.stdin = 0].pid = ps[j].pid /\ [ps[j] EXCEPT !.stdin = 0].stdin = 0
    BY <1>2, SMTT(60) DEF Popen
  <2>3. ps' = [ps EXCEPT ![j] = [ps[j] EXCEPT !.stdin = 0]]
    BY <1>7, Zenon
  <2>4. Len(ps') = Len(ps) /\ DOMAIN ps' = DOMAIN ps
    BY <1>2, <2>1, <2>3, UpdateFacts
  <2> QED BY <2>2, <2>3, <2>4
<1>8. CASE ps[j].gone /\ close_next /\ UNCHANGED <<table, proc, whose, ps>>
  <2>1. whose[ps[j].pid] # <<"popen", j>>
    BY <1>8 DEF Res, Truth
  <2>2. Stopped(j)'
    BY <1>8, <2>1 DEF Stopped, Running
  <2>3. psOK /\ procsOK
    BY <1>3, <1>4, <1>8
  <2>4. loopOK
    BY <1>8, <2>2 DEF close_next
  <2> HIDE DEF psOK, runOK, sparesOK, loopOK
  <2>5. psOK /\ runOK /\ sparesOK /\ loopOK
    BY <2>3, <2>4
  <2> QED BY <1>1, <2>5 DEF psOK, runOK, sparesOK, loopOK
<1>9. CASE reap(j) /\ close_next
  <2>1. psOK /\ procsOK /\ Stopped(j)'
    BY <1>6, <1>9
  <2>2. loopOK
    BY <1>9, <2>1 DEF close_next
  <2> HIDE DEF psOK, runOK, sparesOK, loopOK
  <2>3. psOK /\ runOK /\ sparesOK /\ loopOK
    BY <2>1, <2>2
  <2> QED BY <1>1, <2>3 DEF psOK, runOK, sparesOK, loopOK
<1>10. CASE /\ ps' = [ps EXCEPT ![j].stdin = 0] /\ stage' = "grace"
            /\ UNCHANGED <<proc, whose, todo>>
  <2>1. psOK /\ procsOK /\ ps'[j].stdin = 0
    BY <1>4, <1>7, <1>10
  <2>2. loopOK
    BY <1>10, <2>1
  <2> HIDE DEF psOK, runOK, sparesOK, loopOK
  <2>3. psOK /\ runOK /\ sparesOK /\ loopOK
    BY <2>1, <2>2
  <2> QED BY <1>1, <2>3 DEF psOK, runOK, sparesOK, loopOK
<1>11. CASE /\ alive_by_number(j) /\ ps[j].stdin = 0 /\ stage' = "terminated" /\ terminate(j)
            /\ UNCHANGED <<ps, todo>>
  <2>1. psOK
    BY <1>3, <1>11
  <2>2. procsOK
    <3>1. ~ps[j].gone /\ {} \cup {ps[j].pid} \subseteq {ps[j].pid}
      BY <1>11 DEF alive_by_number
    <3>2. CASE Ended({}, {ps[j].pid})
      BY <1>5, <3>1, <3>2
    <3> QED BY <1>4, <1>11, <3>2 DEF terminate
  <2>3. loopOK
    BY <1>11
  <2> HIDE DEF psOK, runOK, sparesOK, loopOK
  <2>4. psOK /\ runOK /\ sparesOK /\ loopOK
    BY <2>1, <2>2, <2>3
  <2> QED BY <1>1, <2>4 DEF psOK, runOK, sparesOK, loopOK
<1>12. CASE alive_by_number(j) /\ ps[j].stdin = 0 /\ close_next /\ kill(j) /\ UNCHANGED ps
  <2>1. psOK
    BY <1>3, <1>12
  <2>2. ~ps[j].gone /\ Ended({}, {ps[j].pid}) /\ {} \cup {ps[j].pid} \subseteq {ps[j].pid}
    BY <1>12 DEF alive_by_number, kill
  <2>3. procsOK
    BY <1>5, <2>2
  <2>4. ~Running(ps[j].pid, <<"popen", j>>)'
    <3>1. CASE whose[ps[j].pid] = Stranger
      <4>1. whose'[ps[j].pid] = Nobody
        BY <1>2, <2>2, <3>1, EndedFacts
      <4> QED BY <1>12, <4>1, WhoseTags DEF Running
    <3>2. CASE whose[ps[j].pid] # Stranger
      <4>1. proc'[ps[j].pid] = IF proc[ps[j].pid] = "running" THEN "zombie" ELSE proc[ps[j].pid]
        BY <1>2, <2>2, <3>2, EndedFacts
      <4> QED BY <1>12, <4>1 DEF Running
    <3> QED BY <3>1, <3>2
  <2>5. loopOK
    BY <1>12, <2>4 DEF close_next, Stopped, Running
  <2> HIDE DEF psOK, runOK, sparesOK, loopOK
  <2>6. psOK /\ runOK /\ sparesOK /\ loopOK
    BY <2>1, <2>3, <2>5
  <2> QED BY <1>1, <2>6 DEF psOK, runOK, sparesOK, loopOK
<1> HIDE DEF psOK, procsOK, loopOK, runOK, sparesOK
<1>13. CASE close_one_poll(j)
  BY <1>8, <1>9, <1>10, <1>13, Zenon DEF close_one_poll
<1>14. CASE close_one_wait(j)
  <2>1. ps[j].stdin = 0
    BY <1>1, <1>14, Zenon DEF close_one_wait
  <2> QED BY <1>9, <1>11, <1>12, <1>14, <2>1, Zenon DEF close_one_wait
<1> QED BY <1>13, <1>14

LEMMA CloseOneInv ==
  ASSUME IInv, CloseOne
  PROVE  IInv'
<1>1. PICK j \in DOMAIN ps : close_one_poll(j) \/ close_one_wait(j)
  BY DEF CloseOne
<1>2. /\ fds' = fds /\ children' = children /\ calls' = calls /\ pc' = pc
      /\ saved' = saved /\ ui_depth' = ui_depth /\ mode' = mode /\ screen' = screen
      /\ UNCHANGED <<fds, children>>
  BY DEF CloseOne, termvars
<1>3. Res'
  BY <1>1, <1>2, CloseOneRes DEF IInv
<1>4. /\ stage # "idle" /\ j = todo.next /\ j <= todo.last
      /\ Len(ps') = Len(ps) /\ DOMAIN ps' = DOMAIN ps
      /\ \A k \in DOMAIN ps : ps'[k].pid = ps[k].pid /\ (k # j => ps'[k] = ps[k])
      /\ \A p \in Pid : \A k : Running(p, <<"popen", k>>)' => Running(p, <<"popen", k>>)
      /\ \/ todo' = todo /\ stage' \in {"grace", "terminated"} /\ ps'[j].stdin = 0
         \/ todo' = [todo EXCEPT !.next = @ + 1] /\ stage' = "poll" /\ Stopped(j)'
  BY <1>1, CloseOneEffect DEF IInv, Ctl
<1>5. /\ todo \in [next : Nat, last : Nat] /\ todo' \in [next : Nat, last : Nat]
      /\ todo'.last = todo.last
      /\ \/ todo'.next = todo.next /\ stage' \in {"grace", "terminated"} /\ ps'[j].stdin = 0
         \/ todo'.next = todo.next + 1 /\ stage' = "poll" /\ Stopped(j)'
  <2>1. todo \in [next : Nat, last : Nat]
    BY DEF IInv, Ctl, CtlType
  <2>2. /\ [todo EXCEPT !.next = @ + 1] \in [next : Nat, last : Nat]
        /\ [todo EXCEPT !.next = @ + 1].last = todo.last
        /\ [todo EXCEPT !.next = @ + 1].next = todo.next + 1
    BY <2>1
  <2> QED BY <1>4, <2>1, <2>2
<1>6. pc \in {"closing", "cleanup"} /\ stage' \in {"poll", "grace", "terminated"}
  BY <1>4, <1>5 DEF IInv, Ctl, CtlType, Closing
<1>7. CtlType' /\ Modes' /\ TerminalOurs' /\ NothingLeft'
  BY <1>2, <1>5, <1>6 DEF IInv, Ctl, CtlType, Stage, TermType, Modes, TerminalOurs, NothingLeft
<1>8. Counts'
  <2>1. Handles' = Handles
    BY <1>2, <1>4 DEF Handles
  <2> QED BY <1>2, <1>4, <2>1 DEF IInv, Ctl, Counts
<1>9. Closing'
  <2>1. \A k \in DOMAIN ps : ps[k].pid \in Pid /\ k \in Nat
    BY Elements DEF IInv, Res
  <2>2. ASSUME pc = "cleanup", NEW k \in DOMAIN ps, k < todo'.next
        PROVE  Stopped(k)'
    <3>1. CASE k < todo.next
      <4>1. Stopped(k) /\ k # j
        BY <1>4, <2>1, <2>2, <3>1 DEF IInv, Ctl, Closing
      <4>2. ps'[k] = ps[k] /\ ps[k].pid \in Pid
        BY <1>4, <2>1, <4>1
      <4>3. ~Running(ps[k].pid, <<"popen", k>>)'
        BY <1>4, <4>1, <4>2 DEF Stopped
      <4> QED BY <4>1, <4>2, <4>3 DEF Stopped, Running
    <3>2. CASE k = j /\ Stopped(j)'
      BY <3>2
    <3> QED BY <1>4, <1>5, <2>1, <2>2, <3>1, <3>2
  <2>3. \A k \in DOMAIN ps' : pc = "cleanup" /\ k < todo'.next => Stopped(k)'
    BY <1>4, <2>2
  <2>4. /\ todo'.next >= 1 /\ todo'.last <= Len(ps')
        /\ pc = "cleanup" => calls = <<>> /\ saved = "none" /\ todo'.last = Len(ps')
    BY <1>4, <1>5, <1>6 DEF IInv, Ctl, Closing
  <2>5. stage' \in {"grace", "terminated"} => todo'.next <= todo'.last /\ ps'[todo'.next].stdin = 0
    BY <1>4, <1>5
  <2> QED BY <1>2, <1>6, <2>3, <2>4, <2>5 DEF Closing
<1> QED BY <1>3, <1>7, <1>8, <1>9 DEF IInv, Ctl

LEMMA ClosedInv ==
  ASSUME IInv, Closed
  PROVE  IInv'
<1>1. /\ stage = "poll" /\ todo.next > todo.last /\ stage' = "idle"
      /\ ps' = ps /\ todo' = nothing_to_do /\ todo' = [next |-> 1, last |-> 0] /\ calls' = calls
      /\ saved' = saved /\ ui_depth' = ui_depth /\ mode' = mode /\ screen' = screen
  BY DEF Closed, closed_all, termvars, nothing_to_do
<1>5. Len(ps) \in Nat
  BY Elements DEF IInv, Res
<1>2. pc \in {"closing", "cleanup"}
  BY <1>1 DEF IInv, Ctl, CtlType, Closing
<1>3. CASE pc = "closing"
  <2>1. pc' = "run" /\ fds' = fds /\ children' = children /\ UNCHANGED resvars
    BY <1>1, <1>3 DEF Closed, linuxvars, resvars
  <2>2. Res'
    BY <2>1, ResStutter DEF IInv
  <2>3. CtlType' /\ Counts' /\ Modes' /\ TerminalOurs' /\ NothingLeft'
    BY <1>1, <2>1 DEF IInv, Ctl, CtlType, Stage, TermType, Counts, Handles, Modes, TerminalOurs, NothingLeft
  <2>4. Closing'
    BY <1>1, <1>5, <2>1 DEF Closing
  <2> QED BY <2>2, <2>3, <2>4 DEF IInv, Ctl
<1>4. CASE pc = "cleanup"
  <2>1. pc' = "over" /\ linux_rollback(0, 0)
    BY <1>4 DEF Closed, linux_cleanup
  <2>2. /\ Res' /\ Len(fds') = Len(fds) /\ Len(children') = Len(children)
        /\ DOMAIN fds' = DOMAIN fds /\ DOMAIN children' = DOMAIN children
        /\ \A i \in DOMAIN fds : fds'[i].closed = (i > 0 \/ fds[i].closed)
        /\ \A i \in DOMAIN children : children'[i].waited = (i > 0 \/ children[i].waited)
        /\ \A p \in Pid : \A o : Running(p, o)' => Running(p, o)
    BY <1>1, <2>1, RollbackRes DEF IInv
  <2>3. /\ \A i \in DOMAIN fds : i > 0
        /\ \A i \in DOMAIN children : i > 0
        /\ \A j \in DOMAIN ps : ps[j].pid \in Pid /\ j \in Nat /\ j <= Len(ps)
        /\ Len(ps) \in Nat
    BY Elements DEF IInv, Res
  <2>4. /\ todo \in [next : Nat, last : Nat] /\ todo.last = Len(ps)
        /\ \A j \in DOMAIN ps : j < todo.next => ~Running(ps[j].pid, <<"popen", j>>)
        /\ calls = <<>> /\ saved = "none" /\ mode = "cooked"
    BY <1>4 DEF IInv, Ctl, CtlType, Closing, Stopped, TerminalOurs
  <2>5. \A j \in DOMAIN ps' : ~Running(ps[j].pid, <<"popen", j>>)'
    <3>1. \A j \in DOMAIN ps : j < todo.next
      BY <1>1, <2>3, <2>4
    <3> QED BY <1>1, <2>2, <2>3, <2>4, <3>1
  <2>6. NothingLeft'
    <3>1. \A i \in DOMAIN fds' : fds'[i].closed
      BY <2>2, <2>3
    <3>2. \A i \in DOMAIN children' : children'[i].waited /\ ~has_process(i)'
      BY <2>2, <2>3 DEF Res, Truth
    <3>3. \A j \in DOMAIN ps' : ~Running(ps[j].pid, <<"popen", j>>)' /\ ps'[j].pid = ps[j].pid
      BY <1>1, <2>5
    <3>4. mode' = "cooked"
      BY <1>1, <2>4
    <3> QED BY <1>1, <3>1, <3>2, <3>3, <3>4 DEF NothingLeft, Running
  <2>7. Counts'
    <3>1. Handles' = Handles
      BY <1>1, <2>2 DEF Handles
    <3> QED BY <1>1, <2>2, <3>1 DEF IInv, Ctl, Counts
  <2>8. CtlType' /\ Modes' /\ TerminalOurs'
    BY <1>1, <2>1 DEF IInv, Ctl, CtlType, Stage, TermType, Modes, TerminalOurs
  <2>9. Closing'
    BY <1>1, <1>5, <2>1, <2>4 DEF Closing
  <2> QED BY <2>2, <2>6, <2>7, <2>8, <2>9 DEF IInv, Ctl
<1> QED BY <1>2, <1>3, <1>4

LEMMA KernelInv ==
  ASSUME IInv, Kernel
  PROVE  IInv'
<1>1. PICK p \in Pid : ProcessExits(p) \/ PidReused(p)
  BY DEF Kernel
<1>2. /\ fds' = fds /\ children' = children /\ ps' = ps /\ calls' = calls /\ pc' = pc
      /\ todo' = todo /\ stage' = stage
      /\ saved' = saved /\ ui_depth' = ui_depth /\ mode' = mode /\ screen' = screen
  BY DEF Kernel, procvars, termvars
<1>3. Res'
  BY <1>1, <1>2, KernelRes DEF IInv
<1>4. \A q \in Pid : \A j : Running(q, <<"popen", j>>)' => Running(q, <<"popen", j>>)
  <2>1. KernelType
    BY DEF IInv, Res, ResType
  <2>2. CASE ProcessExits(p)
    <3>1. Ended({}, {p})
      BY <2>2 DEF ProcessExits
    <3> QED BY <2>1, <3>1, EndedNoStart
  <2>3. CASE PidReused(p)
    <3>1. /\ whose'[p] = Stranger
          /\ \A q \in Pid : q # p => proc'[q] = proc[q] /\ whose'[q] = whose[q]
      BY <2>1, <2>3 DEF PidReused, Starts, KernelType
    <3> QED BY <3>1, WhoseTags DEF Running
  <2> QED BY <1>1, <2>2, <2>3
<1>5. \A j \in DOMAIN ps : ps[j].pid \in Pid
  BY Elements DEF IInv, Res
<1>6. CtlType' /\ Counts' /\ Modes' /\ TerminalOurs'
  BY <1>2 DEF IInv, Ctl, CtlType, TermType, Counts, Handles, Modes, TerminalOurs
<1>7. Closing'
  <2>1. \A j \in DOMAIN ps : Stopped(j) => Stopped(j)'
    BY <1>2, <1>4, <1>5 DEF Stopped
  <2> QED BY <1>2, <2>1 DEF IInv, Ctl, Closing
<1>8. NothingLeft'
  <2>1. ASSUME pc = "over", NEW i \in DOMAIN children
        PROVE  children[i].waited /\ ~has_process(i)'
    <3>1. children[i].waited
      BY <2>1 DEF IInv, Ctl, NothingLeft
    <3>2. children'[i].waited => ~has_process(i)'
      BY <1>2, <1>3, <2>1 DEF Res, Truth
    <3> QED BY <1>2, <3>1, <3>2
  <2>2. ASSUME pc = "over", NEW j \in DOMAIN ps
        PROVE  ~Running(ps[j].pid, <<"popen", j>>)'
    BY <1>2, <1>4, <1>5, <2>2 DEF IInv, Ctl, NothingLeft
  <2>3. \A j \in DOMAIN ps : ps'[j].pid = ps[j].pid
    BY <1>2
  <2> QED BY <1>2, <2>1, <2>2, <2>3 DEF IInv, Ctl, NothingLeft, Running
<1> QED BY <1>3, <1>6, <1>7, <1>8 DEF IInv, Ctl

-----------------------------------------------------------------------------
(* The theorems.                                                           *)

LEMMA InitInv == Init => IInv
<1> SUFFICES ASSUME Init PROVE IInv
  OBVIOUS
<1>1. /\ fds = <<>> /\ children = <<>> /\ ps = <<>> /\ calls = <<>> /\ pc = "run"
      /\ todo = nothing_to_do /\ todo = [next |-> 1, last |-> 0] /\ stage = "idle"
      /\ saved = "none" /\ ui_depth = 0 /\ mode = "cooked" /\ screen = "main"
      /\ table = [n \in Num |-> Free] /\ proc = [p \in Pid |-> "free"]
      /\ whose = [p \in Pid |-> Nobody]
  BY DEF Init, KernelInit, LinuxInit, ProcessInit, TermInit, nothing_to_do
<1>2. /\ fds \in Seq(LinuxFd) /\ children \in Seq(LinuxChild) /\ ps \in Seq(Popen)
      /\ calls \in Seq(Snapshot)
      /\ DOMAIN fds = {} /\ DOMAIN children = {} /\ DOMAIN ps = {} /\ DOMAIN calls = {}
      /\ Len(fds) = 0 /\ Len(children) = 0 /\ Len(ps) = 0
  BY <1>1, SMTT(60)
<1>3. ResType
  BY <1>1, <1>2 DEF ResType, KernelType, ProcState
<1>4. Owners /\ Truth /\ NoPidfd /\ HandlesOwnTheirNumber /\ NumbersOwned
  BY <1>1, <1>2, WhoseTags DEF Owners, Truth, NoPidfd, HandlesOwnTheirNumber, NumbersOwned
<1>5. CtlType /\ Modes /\ TerminalOurs /\ NothingLeft
  BY <1>1, <1>2, TermAssumption DEF CtlType, TermType, Mode, Stage, Modes, TerminalOurs, NothingLeft
<1>6. Counts /\ Closing
  BY <1>1, <1>2, BoundaryAssumption DEF Counts, Handles, Closing
<1> QED BY <1>3, <1>4, <1>5, <1>6 DEF IInv, Res, Ctl

LEMMA StepInv == IInv /\ [Next]_vars => IInv'
<1> SUFFICES ASSUME IInv, [Next]_vars PROVE IInv'
  OBVIOUS
<1>1. CASE UNCHANGED vars
  <2>1. UNCHANGED resvars
    BY <1>1 DEF vars, resvars
  <2>2. Res'
    BY <2>1, ResStutter DEF IInv
  <2>3. Ctl'
    BY <1>1 DEF vars, IInv, Ctl, CtlType, TermType, Counts, Handles, Modes, TerminalOurs, Closing, Stopped, Running,
              NothingLeft, has_process
  <2> QED BY <2>2, <2>3 DEF IInv
<1>2. CASE Next
  BY <1>2, LinuxCallInv, ProcCallInv, ProcCloseInv, TermCallInv, CallInv, CallOkInv, CallTrapInv,
     FinishInv, CloseOneInv, ClosedInv, KernelInv DEF Next
<1> QED BY <1>1, <1>2

LEMMA AlwaysInv == Spec => []IInv
BY InitInv, StepInv, PTL DEF Spec

\* Every variable has its type in every reachable state.
THEOREM TypeCorrect == Spec => []TypeOK
<1>1. IInv => TypeOK
  BY DEF IInv, Res, ResType, Ctl, CtlType, TypeOK
<1> QED BY <1>1, AlwaysInv, PTL

\* Every live handle refers to what was opened for it and every open number
\* is owned, whatever is opened, closed, reaped and rolled back meanwhile.
THEOREM Owned == Spec => []DescriptorsOwned
<1>1. IInv => DescriptorsOwned
  BY DEF IInv, Res, DescriptorsOwned
<1> QED BY <1>1, AlwaysInv, PTL

\* A handle says that its process is reaped exactly when it is, whichever call
\* reaped it, but for a number that an older child had before; so a program
\* in which no number is used twice has no handle that missed the end.
THEOREM Told == Spec => []HandlesTellTruth
<1>1. IInv => HandlesTellTruth
  <2> SUFFICES ASSUME Truth PROVE HandlesTellTruth
    BY DEF IInv, Res
  <2>1. ASSUME NEW j \in DOMAIN ps, MissedPopen(j)
        PROVE  \E k \in DOMAIN children : children[k].pid = ps[j].pid
    BY <2>1 DEF Truth
  <2>2. \A j \in DOMAIN ps : ps[j].gone => whose[ps[j].pid] # <<"popen", j>>
    BY DEF Truth
  <2> QED BY <2>1, <2>2, Zenon DEF Truth, HandlesTellTruth
<1> QED BY <1>1, AlwaysInv, PTL

\* The terminal is raw exactly while the user's mode is saved.
THEOREM Terminal == Spec => []TerminalOurs
<1>1. IInv => TerminalOurs
  BY DEF IInv, Ctl
<1> QED BY <1>1, AlwaysInv, PTL

\* After the application's cleanup nothing of ours is left.
THEOREM Cleaned == Spec => []NothingLeft
<1>1. IInv => NothingLeft
  BY DEF IInv, Ctl
<1> QED BY <1>1, AlwaysInv, PTL

\* Containing and cleaning up touch nobody but the processes they are for,
\* and the numbers of handles that missed the end of theirs.
THEOREM Spares == Spec => SparesOthers
<1> DEFINE A == \A p \in Pid : ~Missed(p) =>
                  /\ CallTrap /\ ~Inside(p) => Untouched(p)
                  /\ CloseOne /\ whose[p] # <<"popen", todo.next>> => Untouched(p)
                  /\ Closed /\ whose[p][1] # "child" => Untouched(p)
<1>1. IInv /\ [Next]_vars => [A]_vars
  <2> SUFFICES ASSUME IInv, NEW p \in Pid, ~Missed(p)
               PROVE  /\ CallTrap /\ ~Inside(p) => Untouched(p)
                      /\ CloseOne /\ whose[p] # <<"popen", todo.next>> => Untouched(p)
                      /\ Closed /\ whose[p][1] # "child" => Untouched(p)
    OBVIOUS
  <2>1. ASSUME CallTrap, ~Inside(p)
        PROVE  Untouched(p)
    <3> DEFINE c == calls[Len(calls)]
    <3>1. linux_rollback(c.fds, c.children) /\ ps' = ps /\ calls # <<>>
          /\ calls' = SubSeq(calls, 1, Len(calls) - 1)
      BY <2>1 DEF CallTrap
    <3>2. c \in Snapshot
      BY <3>1, Popped DEF IInv
    <3>3. c.fds \in Nat /\ c.children \in Nat
      BY <3>2 DEF Snapshot
    <3>4. ~(whose[p][1] = "child" /\ whose[p][2] > c.children)
      BY <2>1 DEF Inside
    <3> HIDE DEF c
    <3> QED BY <3>1, <3>3, <3>4, RollbackRes DEF IInv
  <2>2. ASSUME CloseOne, whose[p] # <<"popen", todo.next>>
        PROVE  Untouched(p)
    BY <2>2, CloseOneEffect DEF CloseOne, IInv, Ctl
  <2>3. ASSUME Closed, whose[p][1] # "child"
        PROVE  Untouched(p)
    <3>1. CASE UNCHANGED linuxvars
      BY <3>1 DEF linuxvars, Untouched
    <3>2. CASE linux_rollback(0, 0)
      <4>1. ps' = ps
        BY <2>3 DEF Closed
      <4> QED BY <2>3, <3>2, <4>1, RollbackRes DEF IInv
    <3> QED BY <2>3, <3>1, <3>2 DEF Closed, linux_cleanup
  <2> QED BY <2>1, <2>2, <2>3
<1>2. Spec => [][A]_vars
  BY <1>1, AlwaysInv, PTL DEF Spec
<1> QED BY <1>2 DEF SparesOthers

-----------------------------------------------------------------------------
(* The boundaries keep the promise of Containment: every step of           *)
(* HostBoundary is a step of it, or changes nothing there.                 *)

\* What the instance Promise puts for the variables of Containment.
Scopes == [k \in 1..(Len(calls) + 1) |-> Scope(k)]
Entry == [k \in DOMAIN calls |-> IF calls[k].saved = "none" THEN "cooked" ELSE "raw"]
LiveHandles == UNION {Scopes[k] : k \in DOMAIN Scopes}

Still == UNCHANGED <<Scopes, Spent, Entry, mode>>

-----------------------------------------------------------------------------
(* The actions of Containment in these terms.                              *)

LEMMA PromiseInit ==
  ASSUME Scopes = <<{}>>, Spent = {}, Entry = <<>>, mode \in Mode
  PROVE  Promise!Init
BY Zenon DEF Promise!Init, Scopes, Entry

LEMMA PromiseAcquire ==
  ASSUME NEW new \in SUBSET (Handle \ (LiveHandles \cup Spent)),
         Scopes' = [Scopes EXCEPT ![Len(Scopes)] = @ \cup new],
         Spent' = Spent, Entry' = Entry, mode' = mode
  PROVE  Promise!Next
BY Zenon DEF Promise!Next, Promise!Acquire, Promise!Live, Scopes, Entry, LiveHandles

LEMMA PromiseRelease ==
  ASSUME NEW h \in LiveHandles,
         Scopes' = [k \in DOMAIN Scopes |-> Scopes[k] \ {h}],
         Spent' = Spent \cup {h}, Entry' = Entry, mode' = mode
  PROVE  Promise!Next
BY Zenon DEF Promise!Next, Promise!Release, Promise!Live, Scopes, Entry, LiveHandles

LEMMA PromiseSetMode ==
  ASSUME mode' \in Mode, Scopes' = Scopes, Spent' = Spent, Entry' = Entry
  PROVE  Promise!Next
BY Zenon DEF Promise!Next, Promise!SetMode, Scopes, Entry

LEMMA PromiseEnter ==
  ASSUME Scopes' = Append(Scopes, {}), Entry' = Append(Entry, mode),
         Spent' = Spent, mode' = mode
  PROVE  Promise!Next
BY Zenon DEF Promise!Next, Promise!Enter, Scopes, Entry

LEMMA PromiseReturn ==
  ASSUME Entry # <<>>,
         Scopes' = Append(SubSeq(Scopes, 1, Len(Entry) - 1),
                          Scopes[Len(Entry)] \cup Scopes[Len(Entry) + 1]),
         Entry' = SubSeq(Entry, 1, Len(Entry) - 1),
         Spent' = Spent, mode' = mode
  PROVE  Promise!Next
BY Zenon DEF Promise!Next, Promise!Return, Scopes, Entry

LEMMA PromiseTrap ==
  ASSUME Entry # <<>>,
         Scopes' = SubSeq(Scopes, 1, Len(Entry)),
         Spent' = Spent \cup Scopes[Len(Entry) + 1],
         Entry' = SubSeq(Entry, 1, Len(Entry) - 1),
         mode' = Entry[Len(Entry)]
  PROVE  Promise!Next
BY Zenon DEF Promise!Next, Promise!Trap, Scopes, Entry

LEMMA PromiseAbandon ==
  ASSUME NEW given \in SUBSET LiveHandles, Scopes' = <<LiveHandles \ given>>,
         Spent' = Spent \cup given, Entry' = <<>>, mode' \in Mode
  PROVE  Promise!Next
BY Zenon DEF Promise!Next, Promise!Abandon, Promise!Live, Scopes, Entry, LiveHandles

LEMMA PromiseEnd ==
  ASSUME Entry = <<>>, Scopes' = <<{}>>, Spent' = Spent \cup LiveHandles,
         Entry' = Entry, mode' = mode
  PROVE  Promise!Next
BY Zenon DEF Promise!Next, Promise!End, Promise!Live, Scopes, Entry, LiveHandles

-----------------------------------------------------------------------------
(* Sets and sequences of handles.                                          *)

Kinds == {"fd", "child", "proc"}

Tagged(S) == S \subseteq (Kinds \X Nat)

\* Two sets with the same members of each kind are equal.
LEMMA SameHandles ==
  ASSUME NEW S, NEW T, Tagged(S), Tagged(T),
         \A K \in Kinds, i \in Nat : <<K, i>> \in S <=> <<K, i>> \in T
  PROVE  S = T
<1>1. ASSUME NEW h, h \in S \/ h \in T
      PROVE  \E K \in Kinds, i \in Nat : h = <<K, i>>
  <2>1. h \in Kinds \X Nat
    BY <1>1 DEF Tagged
  <2> QED BY <2>1
<1>2. ASSUME NEW h, h \in S \/ h \in T
      PROVE  h \in S /\ h \in T
  <2>1. PICK K \in Kinds, i \in Nat : h = <<K, i>>
    BY <1>1, <1>2, Zenon
  <2> QED BY <1>2, <2>1
<1> QED BY <1>2

LEMMA LeastNat ==
  ASSUME NEW T, T \subseteq Nat, T # {}
  PROVE  \E x \in T : \A y \in T : x <= y
<1> DEFINE R == {ss \in Nat \X Nat : ss[1] < ss[2]}
<1>1. IsWellFoundedOn(R, Nat)
  BY NatLessThanWellFounded, Zenon DEF OpToRel
<1> HIDE DEF R
<1>2. PICK x \in T : \A y \in T : ~ (<<y, x>> \in R)
  BY <1>1, WFMin
<1>3. \A y \in T : ~(y < x)
  BY <1>2 DEF R
<1> QED BY <1>3

\* A function over 1..m is a sequence.
LEMMA FunSeq ==
  ASSUME NEW m \in Nat, NEW f, f = [k \in 1..m |-> f[k]]
  PROVE  Len(f) = m /\ DOMAIN f = 1..m /\ \E S : f \in Seq(S)
<1> DEFINE S == {f[k] : k \in 1..m}
<1>1. f \in [1..m -> S]
  OBVIOUS
<1> HIDE DEF S
<1>2. f \in Seq(S)
  BY <1>1, SeqDef
<1>3. DOMAIN f = 1..m
  BY <1>1
<1>4. Len(f) = m
  BY <1>2, <1>3, LenProperties, SMTT(60)
<1> QED BY <1>2, <1>3, <1>4

\* Functions over the same set that agree are equal.
LEMMA FunSame ==
  ASSUME NEW D, NEW f, NEW g, f = [k \in D |-> f[k]], g = [k \in D |-> g[k]],
         \A k \in D : f[k] = g[k]
  PROVE  f = g
<1>1. [k \in D |-> f[k]] = [k \in D |-> g[k]]
  BY Zenon
<1> QED BY <1>1

\* Append and SubSeq, element by element.
LEMMA AppendFun ==
  ASSUME NEW m \in Nat, NEW f, f = [k \in 1..m |-> f[k]], NEW e
  PROVE  Append(f, e) = [k \in 1..(m + 1) |-> IF k = m + 1 THEN e ELSE f[k]]
<1>1. PICK S : f \in Seq(S)
  BY FunSeq, Zenon
<1>2. Len(f) = m
  BY FunSeq
<1> QED BY <1>1, <1>2, SMTT(60)

LEMMA SubSeqFun ==
  ASSUME NEW m \in Nat, NEW f, f = [k \in 1..m |-> f[k]], NEW n \in 0..m
  PROVE  SubSeq(f, 1, n) = [k \in 1..n |-> f[k]]
<1>1. PICK S : f \in Seq(S)
  BY FunSeq, Zenon
<1>2. Len(f) = m
  BY FunSeq
<1> QED BY <1>1, <1>2, SMTT(60)

-----------------------------------------------------------------------------
(* What the scopes contain.                                                *)

\* What the three kinds of handle have in common: how many were made, how many
\* a snapshot counts, and which are in use.
Size(K) == CASE K = "fd" -> Len(fds) [] K = "child" -> Len(children) [] K = "proc" -> Len(ps)

Count(c, K) == CASE K = "fd" -> c.fds [] K = "child" -> c.children [] K = "proc" -> c.procs

Open(K, i) == \/ K = "fd" /\ fd_open(i)
              \/ K = "child" /\ i \in DOMAIN children /\ ~children[i].waited
              \/ K = "proc" /\ i \in DOMAIN ps /\ InUse(i)

\* The ends of a scope.
Lo(K, k) == IF k = 1 THEN 0 ELSE Count(calls[k - 1], K)
Hi(K, k) == IF k > Len(calls) THEN Size(K) ELSE Count(calls[k], K)

LEMMA KindFacts ==
  /\ Size("fd") = Len(fds) /\ Size("child") = Len(children) /\ Size("proc") = Len(ps)
  /\ \A c : Count(c, "fd") = c.fds /\ Count(c, "child") = c.children /\ Count(c, "proc") = c.procs
  /\ \A i : /\ Open("fd", i) <=> i \in DOMAIN fds /\ ~fds[i].closed
            /\ Open("child", i) <=> i \in DOMAIN children /\ ~children[i].waited
            /\ Open("proc", i) <=> i \in DOMAIN ps /\ InUse(i)
  /\ \A K \in Kinds : K = "fd" \/ K = "child" \/ K = "proc"
<1>1. /\ "fd" # "child" /\ "fd" # "proc" /\ "child" # "proc"
  OBVIOUS
<1>2. /\ Size("fd") = Len(fds) /\ Size("child") = Len(children) /\ Size("proc") = Len(ps)
  BY <1>1 DEF Size
<1>3. \A c : Count(c, "fd") = c.fds /\ Count(c, "child") = c.children /\ Count(c, "proc") = c.procs
  BY <1>1 DEF Count
<1>4. \A i : /\ Open("fd", i) <=> i \in DOMAIN fds /\ ~fds[i].closed
             /\ Open("child", i) <=> i \in DOMAIN children /\ ~children[i].waited
             /\ Open("proc", i) <=> i \in DOMAIN ps /\ InUse(i)
  BY <1>1, Zenon DEF Open, fd_open
<1> QED BY <1>2, <1>3, <1>4 DEF Kinds

LEMMA KindFactsAfter ==
  /\ Size("fd")' = Len(fds') /\ Size("child")' = Len(children') /\ Size("proc")' = Len(ps')
  /\ \A i : /\ Open("fd", i)' <=> i \in DOMAIN fds' /\ ~fds'[i].closed
            /\ Open("child", i)' <=> i \in DOMAIN children' /\ ~children'[i].waited
            /\ Open("proc", i)' <=> i \in DOMAIN ps' /\ InUse(i)'
<1>1. /\ "fd" # "child" /\ "fd" # "proc" /\ "child" # "proc"
  OBVIOUS
<1>2. /\ Size("fd")' = Len(fds') /\ Size("child")' = Len(children') /\ Size("proc")' = Len(ps')
  BY <1>1 DEF Size
<1>3. \A i : /\ Open("fd", i)' <=> i \in DOMAIN fds' /\ ~fds'[i].closed
             /\ Open("child", i)' <=> i \in DOMAIN children' /\ ~children'[i].waited
             /\ Open("proc", i)' <=> i \in DOMAIN ps' /\ InUse(i)'
  BY <1>1, Zenon DEF Open, fd_open
<1> QED BY <1>2, <1>3

\* A scope and the spent handles, member by member.
Members ==
  /\ \A k \in Nat : Tagged(Scope(k))
  /\ \A K \in Kinds, k \in Nat, i \in Nat :
       <<K, i>> \in Scope(k) <=> Open(K, i) /\ Lo(K, k) < i /\ i <= Hi(K, k)
  /\ Tagged(Spent)
  /\ \A K \in Kinds, i \in Nat : <<K, i>> \in Spent <=> i \in 1..Size(K) /\ ~Open(K, i)

LEMMA MembersHold == ResType => Members
<1> SUFFICES ASSUME ResType PROVE Members
  OBVIOUS
<1>1. /\ DOMAIN fds = 1..Len(fds) /\ Len(fds) \in Nat
      /\ DOMAIN children = 1..Len(children) /\ Len(children) \in Nat
      /\ DOMAIN ps = 1..Len(ps) /\ Len(ps) \in Nat
  BY Elements
<1>2. ASSUME NEW k \in Nat
      PROVE  /\ Tagged(Scope(k))
             /\ \A K \in Kinds, i \in Nat : <<K, i>> \in Scope(k) <=>
                  Open(K, i) /\ Lo(K, k) < i /\ i <= Hi(K, k)
  <2>1. /\ From(k).fds = Lo("fd", k) /\ From(k).children = Lo("child", k) /\ From(k).procs = Lo("proc", k)
    BY KindFacts DEF From, Lo
  <2>2. /\ To(k).fds = Hi("fd", k) /\ To(k).children = Hi("child", k) /\ To(k).procs = Hi("proc", k)
    BY KindFacts DEF To, Hi, snapshot, linux_checkpoint
  <2>3. /\ Tagged(Scope(k))
        /\ \A i \in Nat : /\ <<"fd", i>> \in Scope(k) <=>
                               i \in DOMAIN fds /\ ~fds[i].closed /\ From(k).fds < i /\ i <= To(k).fds
                          /\ <<"child", i>> \in Scope(k) <=>
                               i \in DOMAIN children /\ ~children[i].waited
                                 /\ From(k).children < i /\ i <= To(k).children
                          /\ <<"proc", i>> \in Scope(k) <=>
                               i \in DOMAIN ps /\ InUse(i) /\ From(k).procs < i /\ i <= To(k).procs
    BY <1>1 DEF Scope, Tagged, Kinds, Between
  <2> QED BY <2>1, <2>2, <2>3, KindFacts
<1>3. /\ Tagged(Spent)
      /\ \A K \in Kinds, i \in Nat : <<K, i>> \in Spent <=> i \in 1..Size(K) /\ ~Open(K, i)
  <2>1. /\ Tagged(Spent)
        /\ \A i \in Nat : /\ <<"fd", i>> \in Spent <=> i \in DOMAIN fds /\ fds[i].closed
                          /\ <<"child", i>> \in Spent <=> i \in DOMAIN children /\ children[i].waited
                          /\ <<"proc", i>> \in Spent <=> i \in DOMAIN ps /\ ~InUse(i)
    BY <1>1 DEF Spent, Tagged, Kinds
  <2> QED BY <1>1, <2>1, KindFacts
<1> QED BY <1>2, <1>3 DEF Members

LEMMA MembersAfter == ResType' => Members'
BY MembersHold, PTL

\* The bounds of the scopes.
Bounds ==
  /\ Len(calls) \in Nat /\ DOMAIN calls = 1..Len(calls) /\ MaxHandles \in Nat
  /\ \A k \in 1..Len(calls) : calls[k] \in Snapshot
  /\ \A K \in Kinds : Size(K) \in Nat /\ Size(K) <= MaxHandles
  /\ \A K \in Kinds : \A i \in Nat : Open(K, i) => i \in 1..Size(K)
  /\ \A K \in Kinds : \A k \in 1..Len(calls) : Count(calls[k], K) \in Nat /\ Count(calls[k], K) <= Size(K)
  /\ \A K \in Kinds : \A k, l \in 1..Len(calls) : k < l => Count(calls[k], K) <= Count(calls[l], K)

LEMMA BoundsHold == IInv => Bounds
<1> SUFFICES ASSUME IInv PROVE Bounds
  OBVIOUS
<1>1. /\ calls \in Seq(Snapshot)
      /\ Len(fds) \in Nat /\ Len(children) \in Nat /\ Len(ps) \in Nat
      /\ DOMAIN fds = 1..Len(fds) /\ DOMAIN children = 1..Len(children) /\ DOMAIN ps = 1..Len(ps)
  BY Elements DEF IInv, Ctl, CtlType, Res
<1>2. /\ Len(calls) \in Nat /\ DOMAIN calls = 1..Len(calls)
      /\ \A k \in 1..Len(calls) : calls[k] \in Snapshot
  BY <1>1, LenProperties, ElementOfSeq
<1>3. \A k \in 1..Len(calls) : calls[k].fds \in Nat /\ calls[k].children \in Nat /\ calls[k].procs \in Nat
  BY <1>2 DEF Snapshot
<1>4. /\ Len(fds) <= MaxHandles /\ Len(children) <= MaxHandles /\ Len(ps) <= MaxHandles
      /\ MaxHandles \in Nat
  BY <1>1, BoundaryAssumption, SMTT(60) DEF IInv, Ctl, Counts, Handles
<1>5. \A K \in Kinds : Size(K) \in Nat /\ Size(K) <= MaxHandles
  BY <1>1, <1>4, KindFacts
<1>6. \A K \in Kinds : \A i \in Nat : Open(K, i) => i \in 1..Size(K)
  BY <1>1, KindFacts
<1>7. \A K \in Kinds : \A k \in 1..Len(calls) :
        Count(calls[k], K) \in Nat /\ Count(calls[k], K) <= Size(K)
  <2>1. \A k \in 1..Len(calls) : /\ calls[k].fds <= Len(fds) /\ calls[k].children <= Len(children)
                                 /\ calls[k].procs <= Len(ps)
    BY <1>2 DEF IInv, Ctl, Counts
  <2> QED BY <1>3, <2>1, KindFacts
<1>8. \A K \in Kinds : \A k, l \in 1..Len(calls) : k < l => Count(calls[k], K) <= Count(calls[l], K)
  <2>1. \A k, l \in 1..Len(calls) : k < l => /\ calls[k].fds <= calls[l].fds
                                             /\ calls[k].children <= calls[l].children
                                             /\ calls[k].procs <= calls[l].procs
    BY <1>2 DEF IInv, Ctl, Counts
  <2> QED BY <2>1, KindFacts
<1> QED BY <1>2, <1>4, <1>5, <1>6, <1>7, <1>8, Zenon DEF Bounds

\* The ends of the scopes: each begins where the one before ends.
LEMMA Ends ==
  ASSUME Bounds, NEW K \in Kinds, NEW n \in Nat, n = Len(calls)
  PROVE  /\ Lo(K, 1) = 0 /\ Hi(K, n + 1) = Size(K)
         /\ \A k \in 1..n : /\ Hi(K, k) = Count(calls[k], K) /\ Lo(K, k + 1) = Hi(K, k)
                            /\ Hi(K, k) \in Nat /\ Hi(K, k) <= Size(K) /\ Lo(K, k) <= Hi(K, k)
         /\ \A k \in 1..(n + 1) : Lo(K, k) \in Nat /\ Lo(K, k) <= Size(K)
         /\ \A k, l \in 1..n : k <= l => Hi(K, k) <= Hi(K, l)
<1>1. /\ Size(K) \in Nat
      /\ \A k \in 1..n : Count(calls[k], K) \in Nat /\ Count(calls[k], K) <= Size(K)
      /\ \A k, l \in 1..n : k < l => Count(calls[k], K) <= Count(calls[l], K)
  BY DEF Bounds
<1>2. Lo(K, 1) = 0
  BY DEF Lo
<1>3. Hi(K, n + 1) = Size(K)
  <2>1. n + 1 > n
    OBVIOUS
  <2> QED BY <2>1, Zenon DEF Hi
<1>4. ASSUME NEW k \in 1..n
      PROVE  Hi(K, k) = Count(calls[k], K) /\ Lo(K, k + 1) = Hi(K, k)
  <2>1. k <= n /\ ~(k > n) /\ k + 1 # 1 /\ k + 1 - 1 = k
    OBVIOUS
  <2>2. Hi(K, k) = Count(calls[k], K)
    BY <2>1, Zenon DEF Hi
  <2>3. \A m : m # 1 /\ m - 1 = k => Lo(K, m) = Count(calls[k], K)
    BY Zenon DEF Lo
  <2>4. Lo(K, k + 1) = Count(calls[k], K)
    BY <2>1, <2>3
  <2> QED BY <2>2, <2>4, Zenon
<1>5. ASSUME NEW k \in 1..(n + 1)
      PROVE  /\ Lo(K, k) \in Nat /\ Lo(K, k) <= Size(K)
             /\ k \in 1..n => Lo(K, k) <= Hi(K, k)
  <2>1. CASE k = 1
    BY <1>1, <1>2, <1>4, <2>1
  <2>2. CASE k # 1
    <3>1. k - 1 \in 1..n /\ k - 1 + 1 = k /\ (k \in 1..n => k - 1 < k)
      BY <2>2
    <3>2. Lo(K, k) = Count(calls[k - 1], K)
      BY <2>2, Zenon DEF Lo
    <3> QED BY <1>1, <1>4, <3>1, <3>2
  <2> QED BY <2>1, <2>2
<1>6. \A k, l \in 1..n : k <= l => Hi(K, k) <= Hi(K, l)
  <2>1. \A k, l \in 1..n : k <= l => k = l \/ k < l
    OBVIOUS
  <2> QED BY <1>1, <1>4, <2>1
<1>7. \A k \in 1..n : k \in 1..(n + 1)
  OBVIOUS
<1> QED BY <1>1, <1>2, <1>3, <1>4, <1>5, <1>6, <1>7

LEMMA EndsAfter ==
  ASSUME Bounds', NEW K \in Kinds, NEW n \in Nat, n = Len(calls')
  PROVE  /\ Lo(K, 1)' = 0 /\ Hi(K, n + 1)' = Size(K)'
         /\ \A k \in 1..n : Hi(K, k)' = Count(calls'[k], K) /\ Lo(K, k + 1)' = Hi(K, k)'
<1>1. Lo(K, 1)' = 0
  BY DEF Lo
<1>2. Hi(K, n + 1)' = Size(K)'
  <2>1. n + 1 > n
    OBVIOUS
  <2> QED BY <2>1, Zenon DEF Hi
<1>3. ASSUME NEW k \in 1..n
      PROVE  Hi(K, k)' = Count(calls'[k], K) /\ Lo(K, k + 1)' = Hi(K, k)'
  <2>1. k <= n /\ ~(k > n) /\ k + 1 # 1 /\ k + 1 - 1 = k
    OBVIOUS
  <2>2. Hi(K, k)' = Count(calls'[k], K)
    BY <2>1, Zenon DEF Hi
  <2>3. \A m : m # 1 /\ m - 1 = k => Lo(K, m)' = Count(calls'[k], K)
    BY Zenon DEF Lo
  <2>4. Lo(K, k + 1)' = Count(calls'[k], K)
    BY <2>1, <2>3
  <2> QED BY <2>2, <2>4, Zenon
<1> QED BY <1>1, <1>2, <1>3

\* The two functions.
LEMMA ScopesFacts ==
  ASSUME IInv
  PROVE  /\ Scopes = [k \in 1..(Len(calls) + 1) |-> Scopes[k]]
         /\ \A k \in 1..(Len(calls) + 1) : Scopes[k] = Scope(k)
         /\ Len(Scopes) = Len(calls) + 1 /\ DOMAIN Scopes = 1..(Len(calls) + 1)
         /\ Entry = [k \in 1..Len(calls) |-> Entry[k]]
         /\ \A k \in 1..Len(calls) : Entry[k] = IF calls[k].saved = "none" THEN "cooked" ELSE "raw"
         /\ Len(Entry) = Len(calls) /\ DOMAIN Entry = 1..Len(calls)
<1>1. Len(calls) \in Nat /\ Len(calls) + 1 \in Nat /\ DOMAIN calls = 1..Len(calls)
  BY BoundsHold DEF Bounds
<1>2. /\ Scopes = [k \in 1..(Len(calls) + 1) |-> Scopes[k]]
      /\ \A k \in 1..(Len(calls) + 1) : Scopes[k] = Scope(k)
  BY Zenon DEF Scopes
<1>3. /\ Entry = [k \in DOMAIN calls |-> Entry[k]]
      /\ \A k \in DOMAIN calls : Entry[k] = IF calls[k].saved = "none" THEN "cooked" ELSE "raw"
  BY Zenon DEF Entry
<1>4. Len(Scopes) = Len(calls) + 1 /\ DOMAIN Scopes = 1..(Len(calls) + 1)
  BY <1>1, <1>2, FunSeq
<1>5. Entry = [k \in 1..Len(calls) |-> Entry[k]]
  BY <1>1, <1>3
<1>6. Len(Entry) = Len(calls) /\ DOMAIN Entry = 1..Len(calls)
  BY <1>1, <1>5, FunSeq
<1> QED BY <1>1, <1>2, <1>3, <1>4, <1>5, <1>6

\* Every handle in use lies in one scope.
LEMMA LiveFacts ==
  ASSUME IInv
  PROVE  /\ Tagged(LiveHandles)
         /\ \A K \in Kinds, i \in Nat : <<K, i>> \in LiveHandles <=> Open(K, i)
<1>0. PICK n \in Nat : n = Len(calls)
  BY BoundsHold DEF Bounds
<1>1. Bounds /\ Members
  BY BoundsHold, MembersHold DEF IInv, Res
<1>2. \A h : h \in LiveHandles <=> \E k \in 1..(n + 1) : h \in Scope(k)
  BY <1>0, ScopesFacts, Zenon DEF LiveHandles
<1>3. \A k \in 1..(n + 1) : k \in Nat
  OBVIOUS
<1>4. Tagged(LiveHandles)
  BY <1>1, <1>2, <1>3 DEF Members, Tagged
<1>5. ASSUME NEW K \in Kinds, NEW i \in Nat, Open(K, i)
      PROVE  <<K, i>> \in LiveHandles
  <2> DEFINE T == {k \in 1..(n + 1) : i <= Hi(K, k)}
  <2>1. i \in 1..Size(K) /\ Size(K) \in Nat
    BY <1>1, <1>5 DEF Bounds
  <2>2. Hi(K, n + 1) = Size(K)
    BY <1>0, <1>1, Ends
  <2>3. n + 1 \in T /\ T \subseteq Nat
    BY <2>1, <2>2
  <2>4. PICK k \in T : \A l \in T : k <= l
    BY <2>3, LeastNat
  <2>5. k \in 1..(n + 1) /\ i <= Hi(K, k)
    BY <2>4
  <2>6. Lo(K, k) < i
    <3>1. CASE k = 1
      <4>1. Lo(K, 1) = 0
        BY <1>0, <1>1, Ends
      <4> QED BY <2>1, <3>1, <4>1
    <3>2. CASE k # 1
      <4>1. k - 1 \in 1..n /\ k - 1 \in 1..(n + 1) /\ ~(k <= k - 1) /\ k - 1 + 1 = k
        BY <2>5, <3>2
      <4>2. Lo(K, k) = Hi(K, k - 1) /\ Hi(K, k - 1) \in Nat
        BY <1>0, <1>1, <4>1, Ends
      <4>3. ~(i <= Hi(K, k - 1))
        BY <2>4, <4>1
      <4> QED BY <4>2, <4>3
    <3> QED BY <3>1, <3>2
  <2>7. <<K, i>> \in Scope(k)
    <3>1. k \in Nat
      BY <1>3, <2>5
    <3> QED BY <1>1, <1>5, <2>5, <2>6, <3>1, Zenon DEF Members
  <2> QED BY <1>2, <2>5, <2>7
<1>6. \A K \in Kinds, i \in Nat : <<K, i>> \in LiveHandles => Open(K, i)
  BY <1>1, <1>2, <1>3 DEF Members
<1> QED BY <1>4, <1>5, <1>6

-----------------------------------------------------------------------------
(* The steps.                                                              *)

\* The facts about the state after a step.
LEMMA After ==
  ASSUME IInv'
  PROVE  /\ Members' /\ Bounds'
         /\ Scopes' = [k \in 1..(Len(calls') + 1) |-> Scopes'[k]]
         /\ \A k \in 1..(Len(calls') + 1) : Scopes'[k] = Scope(k)'
         /\ Entry' = [k \in 1..Len(calls') |-> Entry'[k]]
         /\ \A k \in 1..Len(calls') : Entry'[k] = IF calls'[k].saved = "none" THEN "cooked" ELSE "raw"
<1>1. Bounds'
  BY BoundsHold, PTL
<1>2. Members'
  BY MembersAfter DEF IInv, Res
<1>3. Len(calls') \in Nat /\ DOMAIN calls' = 1..Len(calls')
  BY <1>1 DEF Bounds
<1>4. /\ Scopes' = [k \in 1..(Len(calls') + 1) |-> Scopes'[k]]
      /\ \A k \in 1..(Len(calls') + 1) : Scopes'[k] = Scope(k)'
  BY Zenon DEF Scopes
<1>5. /\ Entry' = [k \in DOMAIN calls' |-> Entry'[k]]
      /\ \A k \in DOMAIN calls' : Entry'[k] = IF calls'[k].saved = "none" THEN "cooked" ELSE "raw"
  BY Zenon DEF Entry
<1> QED BY <1>1, <1>2, <1>3, <1>4, <1>5

\* A scope after a step, where its ends and what is in use are known.
LEMMA ScopeAfter ==
  ASSUME IInv, IInv', NEW k \in Nat, NEW T, Tagged(T),
         \A K \in Kinds, i \in Nat :
           Open(K, i)' /\ Lo(K, k)' < i /\ i <= Hi(K, k)' <=> <<K, i>> \in T
  PROVE  Scope(k)' = T
<1>1. Members'
  BY After
<1>2. \A K \in Kinds, i \in Nat : <<K, i>> \in Scope(k)' <=> <<K, i>> \in T
  <2>1. \A K \in Kinds, i \in Nat :
          <<K, i>> \in Scope(k)' <=> Open(K, i)' /\ Lo(K, k)' < i /\ i <= Hi(K, k)'
    BY <1>1, Zenon DEF Members
  <2> QED BY <2>1, Zenon
<1>3. Tagged(Scope(k)')
  BY <1>1 DEF Members
<1> QED BY <1>2, <1>3, SameHandles

LEMMA SpentAfter ==
  ASSUME IInv, IInv', NEW T, Tagged(T),
         \A K \in Kinds, i \in Nat : i \in 1..Size(K)' /\ ~Open(K, i)' <=> <<K, i>> \in T
  PROVE  Spent' = T
<1>1. Members'
  BY After
<1>2. \A K \in Kinds, i \in Nat : <<K, i>> \in Spent' <=> <<K, i>> \in T
  BY <1>1, Zenon DEF Members
<1>3. Tagged(Spent')
  BY <1>1 DEF Members
<1> QED BY <1>2, <1>3, SameHandles

\* The ends of the scopes when the snapshots stay.
LEMMA SameEnds ==
  ASSUME IInv, IInv', calls' = calls, NEW n \in Nat, n = Len(calls), NEW K \in Kinds
  PROVE  /\ \A k \in 1..(n + 1) : Lo(K, k)' = Lo(K, k)
         /\ \A k \in 1..n : Hi(K, k)' = Hi(K, k)
         /\ Hi(K, n + 1)' = Size(K)' /\ Hi(K, n + 1) = Size(K)
<1>1. \A k : Lo(K, k)' = Lo(K, k)
  BY Zenon DEF Lo
<1>2. ASSUME NEW k \in 1..n
      PROVE  Hi(K, k)' = Hi(K, k)
  <2>1. ~(k > n)
    OBVIOUS
  <2> QED BY <2>1, Zenon DEF Hi
<1>3. Hi(K, n + 1)' = Size(K)' /\ Hi(K, n + 1) = Size(K)
  <2>1. n + 1 > n
    OBVIOUS
  <2> QED BY <2>1, Zenon DEF Hi
<1> QED BY <1>1, <1>2, <1>3

\* Nothing that Containment sees has changed.
LEMMA StillStep ==
  ASSUME IInv, IInv', calls' = calls,
         \A K \in Kinds : Size(K)' = Size(K),
         \A K \in Kinds, i \in Nat : Open(K, i)' <=> Open(K, i)
  PROVE  Scopes' = Scopes /\ Spent' = Spent /\ Entry' = Entry
<1>0. PICK n \in Nat : n = Len(calls)
  BY BoundsHold DEF Bounds
<1>1. Members
  BY MembersHold DEF IInv, Res
<1>2. ASSUME NEW k \in 1..(n + 1)
      PROVE  Scope(k)' = Scope(k)
  <2>1. k \in Nat /\ (k \in 1..n \/ k = n + 1)
    OBVIOUS
  <2>2. \A K \in Kinds : Lo(K, k)' = Lo(K, k) /\ Hi(K, k)' = Hi(K, k)
    BY <1>0, <2>1, SameEnds
  <2>3. /\ Tagged(Scope(k))
        /\ \A K \in Kinds, i \in Nat :
             <<K, i>> \in Scope(k) <=> Open(K, i) /\ Lo(K, k) < i /\ i <= Hi(K, k)
    BY <1>1, <2>1, Zenon DEF Members
  <2>4. \A K \in Kinds, i \in Nat :
          Open(K, i)' /\ Lo(K, k)' < i /\ i <= Hi(K, k)' <=> <<K, i>> \in Scope(k)
    BY <2>2, <2>3
  <2> QED BY <2>1, <2>3, <2>4, ScopeAfter
<1>3. Scopes' = Scopes
  <2>1. /\ Scopes = [k \in 1..(n + 1) |-> Scopes[k]]
        /\ \A k \in 1..(n + 1) : Scopes[k] = Scope(k)
    BY <1>0, ScopesFacts
  <2>2. /\ Scopes' = [k \in 1..(n + 1) |-> Scopes'[k]]
        /\ \A k \in 1..(n + 1) : Scopes'[k] = Scope(k)'
    BY <1>0, After
  <2>3. \A k \in 1..(n + 1) : Scopes'[k] = Scopes[k]
    BY <1>2, <2>1, <2>2
  <2> QED BY <2>1, <2>2, <2>3, FunSame
<1>4. Spent' = Spent
  <2>1. Tagged(Spent) /\ \A K \in Kinds, i \in Nat : <<K, i>> \in Spent <=> i \in 1..Size(K) /\ ~Open(K, i)
    BY <1>1 DEF Members
  <2> QED BY <2>1, SpentAfter
<1>5. Entry' = Entry
  BY Zenon DEF Entry
<1> QED BY <1>3, <1>4, <1>5

\* Handles are acquired.
LEMMA GrownStep ==
  ASSUME IInv, IInv', calls' = calls, mode' = mode,
         \A K \in Kinds : Size(K) <= Size(K)',
         \A K \in Kinds, i \in Nat :
           Open(K, i)' <=> Open(K, i) \/ (Size(K) < i /\ i <= Size(K)')
  PROVE  Promise!Next
<1>0. PICK n \in Nat : n = Len(calls)
  BY BoundsHold DEF Bounds
<1> DEFINE fresh(K, i) == Size(K) < i /\ i <= Size(K)'
           new == {h \in Kinds \X Nat : fresh(h[1], h[2])}
<1>1. /\ Bounds /\ Bounds' /\ Members /\ Members'
  BY After, BoundsHold, MembersHold DEF IInv, Res
<1>2. \A k \in 1..(n + 1) : k \in Nat /\ (k \in 1..n \/ k = n + 1)
  OBVIOUS
<1>3. Tagged(new) /\ \A K \in Kinds, i \in Nat : <<K, i>> \in new <=> fresh(K, i)
  BY DEF Tagged
<1>4. /\ \A K \in Kinds : Size(K) \in Nat /\ Size(K)' \in Nat /\ Size(K)' <= MaxHandles
      /\ \A K \in Kinds, i \in Nat : Open(K, i) => 1 <= i /\ i <= Size(K)
      /\ MaxHandles \in Nat
  BY <1>1 DEF Bounds
<1>5. new \in SUBSET (Handle \ (LiveHandles \cup Spent))
  <2>1. ASSUME NEW K \in Kinds, NEW i \in Nat, fresh(K, i)
        PROVE  <<K, i>> \in Handle /\ <<K, i>> \notin LiveHandles /\ <<K, i>> \notin Spent
    <3>1. i \in 1..MaxHandles /\ ~(i <= Size(K))
      BY <1>4, <2>1
    <3>2. <<K, i>> \in Handle
      BY <3>1 DEF Handle, Kinds
    <3>3. <<K, i>> \notin LiveHandles
      BY <1>4, <3>1, LiveFacts
    <3>4. <<K, i>> \notin Spent
      BY <1>1, <1>4, <3>1 DEF Members
    <3> QED BY <3>2, <3>3, <3>4
  <2>2. \A h \in new : \E K \in Kinds, i \in Nat : h = <<K, i>> /\ fresh(K, i)
    OBVIOUS
  <2> HIDE DEF new, fresh
  <2> QED BY <2>1, <2>2
<1>6. ASSUME NEW k \in 1..n
      PROVE  Scope(k)' = Scope(k)
  <2>1. k \in Nat /\ k \in 1..(n + 1)
    OBVIOUS
  <2>2. ASSUME NEW K \in Kinds, NEW i \in Nat
        PROVE  Open(K, i)' /\ Lo(K, k)' < i /\ i <= Hi(K, k)' <=> <<K, i>> \in Scope(k)
    <3>1. Lo(K, k)' = Lo(K, k) /\ Hi(K, k)' = Hi(K, k) /\ Hi(K, k) \in Nat /\ Hi(K, k) <= Size(K)
      BY <1>0, <1>1, <2>1, SameEnds, Ends
    <3>2. i <= Hi(K, k) => ~fresh(K, i)
      BY <1>4, <3>1
    <3>3. <<K, i>> \in Scope(k) <=> Open(K, i) /\ Lo(K, k) < i /\ i <= Hi(K, k)
      BY <1>1, <2>1, Zenon DEF Members
    <3> QED BY <3>1, <3>2, <3>3, Zenon
  <2>3. Tagged(Scope(k))
    BY <1>1, <2>1 DEF Members
  <2> QED BY <2>1, <2>2, <2>3, ScopeAfter
<1>7. Scope(n + 1)' = Scope(n + 1) \cup new
  <2>1. n + 1 \in Nat /\ n + 1 \in 1..(n + 1)
    OBVIOUS
  <2>2. ASSUME NEW K \in Kinds, NEW i \in Nat
        PROVE  Open(K, i)' /\ Lo(K, n + 1)' < i /\ i <= Hi(K, n + 1)' <=> <<K, i>> \in Scope(n + 1) \cup new
    <3>1. /\ Lo(K, n + 1)' = Lo(K, n + 1) /\ Hi(K, n + 1)' = Size(K)' /\ Hi(K, n + 1) = Size(K)
          /\ Lo(K, n + 1) \in Nat /\ Lo(K, n + 1) <= Size(K)
      BY <1>0, <1>1, <2>1, SameEnds, Ends
    <3>2. fresh(K, i) => Lo(K, n + 1) < i /\ i <= Size(K)'
      BY <1>4, <3>1
    <3>3. Open(K, i) => i <= Size(K) /\ i <= Size(K)'
      BY <1>4
    <3>4. <<K, i>> \in Scope(n + 1) <=> Open(K, i) /\ Lo(K, n + 1) < i /\ i <= Hi(K, n + 1)
      BY <1>1, <2>1, Zenon DEF Members
    <3>5. <<K, i>> \in new <=> fresh(K, i)
      BY <1>3
    <3> HIDE DEF new
    <3> QED BY <3>1, <3>2, <3>3, <3>4, <3>5, Zenon
  <2>3. Tagged(Scope(n + 1) \cup new)
    BY <1>1, <1>3, <2>1 DEF Members, Tagged
  <2> HIDE DEF new
  <2> QED BY <2>1, <2>2, <2>3, ScopeAfter
<1>8. Spent' = Spent
  <2>1. ASSUME NEW K \in Kinds, NEW i \in Nat
        PROVE  i \in 1..Size(K)' /\ ~Open(K, i)' <=> <<K, i>> \in Spent
    <3>1. <<K, i>> \in Spent <=> i \in 1..Size(K) /\ ~Open(K, i)
      BY <1>1 DEF Members
    <3> QED BY <1>4, <3>1
  <2>2. Tagged(Spent)
    BY <1>1 DEF Members
  <2> QED BY <2>1, <2>2, SpentAfter
<1> HIDE DEF new
<1>9. Scopes' = [Scopes EXCEPT ![Len(Scopes)] = @ \cup new]
  <2> DEFINE g == [Scopes EXCEPT ![Len(Scopes)] = @ \cup new]
  <2>1. Len(Scopes) = n + 1 /\ DOMAIN Scopes = 1..(n + 1) /\ \A k \in 1..(n + 1) : Scopes[k] = Scope(k)
    BY <1>0, ScopesFacts
  <2>2. /\ g = [k \in 1..(n + 1) |-> g[k]]
        /\ \A k \in 1..(n + 1) : g[k] = IF k = n + 1 THEN Scopes[k] \cup new ELSE Scopes[k]
    BY <2>1, Zenon
  <2>3. /\ Scopes' = [k \in 1..(n + 1) |-> Scopes'[k]]
        /\ \A k \in 1..(n + 1) : Scopes'[k] = Scope(k)'
    BY <1>0, After
  <2> HIDE DEF g
  <2>4. \A k \in 1..(n + 1) : Scopes'[k] = g[k]
    BY <1>2, <1>6, <1>7, <2>1, <2>2, <2>3
  <2>5. Scopes' = g
    BY <2>2, <2>3, <2>4, FunSame
  <2> QED BY <2>5 DEF g
<1>10. Entry' = Entry
  BY Zenon DEF Entry
<1> QED BY <1>5, <1>8, <1>9, <1>10, PromiseAcquire

\* One handle is spent.
LEMMA SpentStep ==
  ASSUME IInv, IInv', calls' = calls, mode' = mode,
         \A K \in Kinds : Size(K)' = Size(K),
         NEW h \in LiveHandles,
         \A K \in Kinds, i \in Nat : Open(K, i)' <=> Open(K, i) /\ <<K, i>> # h
  PROVE  Promise!Next
<1>0. PICK n \in Nat : n = Len(calls)
  BY BoundsHold DEF Bounds
<1>1. Bounds /\ Members
  BY BoundsHold, MembersHold DEF IInv, Res
<1>2. Tagged({h}) /\ \A K \in Kinds, i \in Nat : <<K, i>> = h => Open(K, i)
  BY LiveFacts DEF Tagged
<1>3. ASSUME NEW k \in 1..(n + 1)
      PROVE  Scope(k)' = Scope(k) \ {h}
  <2>1. k \in Nat /\ (k \in 1..n \/ k = n + 1)
    OBVIOUS
  <2>2. \A K \in Kinds : Lo(K, k)' = Lo(K, k) /\ Hi(K, k)' = Hi(K, k)
    BY <1>0, <2>1, SameEnds
  <2>3. \A K \in Kinds, i \in Nat :
          <<K, i>> \in Scope(k) <=> Open(K, i) /\ Lo(K, k) < i /\ i <= Hi(K, k)
    BY <1>1, <2>1, Zenon DEF Members
  <2>4. \A K \in Kinds, i \in Nat :
          Open(K, i)' /\ Lo(K, k)' < i /\ i <= Hi(K, k)' <=> <<K, i>> \in Scope(k) \ {h}
    BY <2>2, <2>3
  <2>5. Tagged(Scope(k) \ {h})
    BY <1>1, <2>1 DEF Members, Tagged
  <2> QED BY <2>1, <2>4, <2>5, ScopeAfter
<1>4. Scopes' = [k \in DOMAIN Scopes |-> Scopes[k] \ {h}]
  <2> DEFINE g == [k \in DOMAIN Scopes |-> Scopes[k] \ {h}]
  <2>1. DOMAIN Scopes = 1..(n + 1) /\ \A k \in 1..(n + 1) : Scopes[k] = Scope(k)
    BY <1>0, ScopesFacts
  <2>2. g = [k \in 1..(n + 1) |-> g[k]] /\ \A k \in 1..(n + 1) : g[k] = Scopes[k] \ {h}
    BY <2>1, Zenon
  <2>3. /\ Scopes' = [k \in 1..(n + 1) |-> Scopes'[k]]
        /\ \A k \in 1..(n + 1) : Scopes'[k] = Scope(k)'
    BY <1>0, After
  <2> HIDE DEF g
  <2>4. \A k \in 1..(n + 1) : Scopes'[k] = g[k]
    BY <1>3, <2>1, <2>2, <2>3
  <2>5. Scopes' = g
    BY <2>2, <2>3, <2>4, FunSame
  <2> QED BY <2>5 DEF g
<1>5. Spent' = Spent \cup {h}
  <2>1. ASSUME NEW K \in Kinds, NEW i \in Nat
        PROVE  i \in 1..Size(K)' /\ ~Open(K, i)' <=> <<K, i>> \in Spent \cup {h}
    <3>1. <<K, i>> \in Spent <=> i \in 1..Size(K) /\ ~Open(K, i)
      BY <1>1 DEF Members
    <3>2. Open(K, i) => i \in 1..Size(K)
      BY <1>1 DEF Bounds
    <3>3. 1..Size(K)' = 1..Size(K) /\ (Open(K, i)' <=> Open(K, i) /\ <<K, i>> # h)
          /\ (<<K, i>> = h => Open(K, i))
      BY <1>2
    <3> QED BY <3>1, <3>2, <3>3, Zenon
  <2>2. Tagged(Spent \cup {h})
    BY <1>1, <1>2 DEF Members, Tagged
  <2> QED BY <2>1, <2>2, SpentAfter
<1>6. Entry' = Entry
  BY Zenon DEF Entry
<1> QED BY <1>4, <1>5, <1>6, PromiseRelease

-----------------------------------------------------------------------------
(* The actions of HostBoundary.                                            *)

\* The three lists as functions.
Lists == /\ DOMAIN fds = 1..Len(fds) /\ Len(fds) \in Nat
         /\ DOMAIN children = 1..Len(children) /\ Len(children) \in Nat
         /\ DOMAIN ps = 1..Len(ps) /\ Len(ps) \in Nat

LEMMA ListsHold == IInv => Lists
BY Elements DEF IInv, Res, Lists

LEMMA ListsAfter == IInv' => Lists'
BY ListsHold, PTL

\* A kind of handle of which nothing has changed, and all three of them.
Kept(K) == Size(K)' = Size(K) /\ \A i \in Nat : Open(K, i)' <=> Open(K, i)

LEMMA KeptKinds ==
  /\ fds' = fds => Kept("fd")
  /\ children' = children => Kept("child")
  /\ ps' = ps /\ (\A i \in Nat : i \in DOMAIN ps => (InUse(i)' <=> InUse(i))) => Kept("proc")
  /\ ps' = ps /\ todo' = todo => Kept("proc")
<1>1. fds' = fds => Kept("fd")
  BY KindFacts, KindFactsAfter DEF Kept
<1>2. children' = children => Kept("child")
  BY KindFacts, KindFactsAfter DEF Kept
<1>3. ASSUME ps' = ps, \A i \in Nat : i \in DOMAIN ps => (InUse(i)' <=> InUse(i))
      PROVE  Kept("proc")
  <2>1. DOMAIN ps' = DOMAIN ps /\ Len(ps') = Len(ps)
    BY <1>3
  <2>2. \A i \in Nat : Open("proc", i)' <=> Open("proc", i)
    BY <1>3, <2>1, KindFacts, KindFactsAfter, Zenon
  <2>3. Size("proc")' = Size("proc")
    BY <2>1, KindFacts, KindFactsAfter
  <2> QED BY <2>2, <2>3 DEF Kept
<1>4. ps' = ps /\ todo' = todo => \A i : InUse(i)' <=> InUse(i)
  BY Zenon DEF InUse
<1> QED BY <1>1, <1>2, <1>3, <1>4, Zenon

LEMMA AllKept ==
  ASSUME Kept("fd"), Kept("child"), Kept("proc")
  PROVE  /\ \A K \in Kinds : Size(K)' = Size(K)
         /\ \A K \in Kinds, i \in Nat : Open(K, i)' <=> Open(K, i)
<1>1. \A K \in Kinds : Kept(K)
  BY KindFacts
<1> QED BY <1>1, Zenon DEF Kept

\* Nobody waits for, closes or opens anything Containment counts.
LEMMA KeptStep ==
  ASSUME IInv, IInv', calls' = calls, mode' = mode,
         Kept("fd"), Kept("child"), Kept("proc")
  PROVE  Still
BY AllKept, StillStep DEF Still

LEMMA LinuxCallStep ==
  ASSUME IInv, IInv', LinuxCall
  PROVE  Promise!Next
<1>1. calls' = calls /\ mode' = mode /\ ps' = ps /\ todo' = todo
  BY DEF LinuxCall, termvars, procvars
<1>2. /\ DOMAIN fds = 1..Len(fds) /\ Len(fds) \in Nat
      /\ DOMAIN children = 1..Len(children) /\ Len(children) \in Nat
      /\ DOMAIN fds' = 1..Len(fds') /\ Len(fds') \in Nat
      /\ DOMAIN children' = 1..Len(children') /\ Len(children') \in Nat
      /\ Size("proc") \in Nat
  BY ListsHold, ListsAfter, KindFacts DEF Lists
<1>3. Kept("proc")
  BY <1>1, KeptKinds
<1>4. CASE Grown
  <2>1. Size("fd") <= Size("fd")' /\ Size("child") <= Size("child")' /\ Size("proc") <= Size("proc")'
    BY <1>2, <1>3, <1>4, KindFacts, KindFactsAfter DEF Grown, Kept
  <2>2. \A i \in Nat : Open("fd", i)' <=> Open("fd", i) \/ (Size("fd") < i /\ i <= Size("fd")')
    <3> TAKE i \in Nat
    <3>1. /\ Open("fd", i) <=> i \in 1..Len(fds) /\ ~fds[i].closed
          /\ Open("fd", i)' <=> i \in 1..Len(fds') /\ ~fds'[i].closed
      BY <1>2, KindFacts, KindFactsAfter
    <3>2. /\ Len(fds) <= Len(fds')
          /\ i \in 1..Len(fds) => fds'[i] = fds[i]
          /\ i \in 1..Len(fds') /\ i > Len(fds) => ~fds'[i].closed
      BY <1>4 DEF Grown
    <3>3. Size("fd") = Len(fds) /\ Size("fd")' = Len(fds')
      BY KindFacts, KindFactsAfter
    <3> QED BY <1>2, <3>1, <3>2, <3>3
  <2>3. \A i \in Nat : Open("child", i)' <=> Open("child", i) \/ (Size("child") < i /\ i <= Size("child")')
    <3> TAKE i \in Nat
    <3>1. /\ Open("child", i) <=> i \in 1..Len(children) /\ ~children[i].waited
          /\ Open("child", i)' <=> i \in 1..Len(children') /\ ~children'[i].waited
      BY <1>2, KindFacts, KindFactsAfter
    <3>2. /\ Len(children) <= Len(children')
          /\ i \in 1..Len(children) => children'[i] = children[i]
          /\ i \in 1..Len(children') /\ i > Len(children) => ~children'[i].waited
      BY <1>4 DEF Grown
    <3>3. Size("child") = Len(children) /\ Size("child")' = Len(children')
      BY KindFacts, KindFactsAfter
    <3> QED BY <1>2, <3>1, <3>2, <3>3
  <2>4. \A i \in Nat : Open("proc", i)' <=> Open("proc", i) \/ (Size("proc") < i /\ i <= Size("proc")')
    BY <1>2, <1>3 DEF Kept
  <2>5. \A K \in Kinds : Size(K) <= Size(K)'
    BY <2>1, KindFacts
  <2>6. \A K \in Kinds, i \in Nat : Open(K, i)' <=> Open(K, i) \/ (Size(K) < i /\ i <= Size(K)')
    BY <2>2, <2>3, <2>4, KindFacts
  <2> QED BY <1>1, <2>5, <2>6, GrownStep
<1>5. ASSUME NEW i \in DOMAIN fds, FdSpent(i)
      PROVE  Promise!Next
  <2>1. /\ Open("fd", i) /\ i \in Nat
        /\ \A k \in Nat : Open("fd", k)' <=> Open("fd", k) /\ k # i
        /\ Size("fd")' = Size("fd") /\ Kept("child")
    BY <1>2, <1>5, KindFacts, KindFactsAfter, KeptKinds DEF FdSpent
  <2>2. <<"fd", i>> \in LiveHandles
    BY <2>1, LiveFacts DEF Kinds
  <2>3. \A K \in Kinds : Size(K)' = Size(K)
    BY <1>3, <2>1, KindFacts DEF Kept
  <2>4. \A K \in Kinds, k \in Nat : Open(K, k)' <=> Open(K, k) /\ <<K, k>> # <<"fd", i>>
    BY <1>3, <2>1, KindFacts DEF Kept
  <2> QED BY <1>1, <2>2, <2>3, <2>4, SpentStep
<1>6. ASSUME NEW i \in DOMAIN children, ChildSpent(i)
      PROVE  Promise!Next
  <2>0. /\ ~children[i].waited /\ children'[i].waited
        /\ Len(children') = Len(children) /\ DOMAIN children' = DOMAIN children /\ fds' = fds
        /\ \A k \in DOMAIN children : k # i => children'[k] = children[k]
    BY <1>2, <1>6 DEF ChildSpent
  <2>1. /\ Open("child", i) /\ i \in Nat
        /\ \A k \in Nat : Open("child", k)' <=> Open("child", k) /\ k # i
        /\ Size("child")' = Size("child") /\ Kept("fd")
    <3>1. \A k \in Nat : Open("child", k)' <=> Open("child", k) /\ k # i
      <4>1. \A k : Open("child", k)' <=> k \in DOMAIN children /\ ~children'[k].waited
        BY <2>0, KindFactsAfter
      <4>2. \A k : Open("child", k) <=> k \in DOMAIN children /\ ~children[k].waited
        BY KindFacts
      <4> QED BY <2>0, <4>1, <4>2, Zenon
    <3>2. Open("child", i) /\ i \in Nat
      BY <1>2, <2>0, KindFacts
    <3> QED BY <2>0, <3>1, <3>2, KindFacts, KindFactsAfter, KeptKinds
  <2>2. <<"child", i>> \in LiveHandles
    BY <2>1, LiveFacts DEF Kinds
  <2>3. \A K \in Kinds : Size(K)' = Size(K)
    BY <1>3, <2>1, KindFacts DEF Kept
  <2>4. \A K \in Kinds, k \in Nat : Open(K, k)' <=> Open(K, k) /\ <<K, k>> # <<"child", i>>
    BY <1>3, <2>1, KindFacts DEF Kept
  <2> QED BY <1>1, <2>2, <2>3, <2>4, SpentStep
<1> QED BY <1>4, <1>5, <1>6, LinuxEffect DEF IInv

\* One process of proc is closed or known to have ended, if it was in use.
LEMMA ProcSpent ==
  ASSUME IInv, IInv', calls' = calls, mode' = mode, fds' = fds, children' = children,
         NEW j \in DOMAIN ps, Len(ps') = Len(ps),
         \A i \in DOMAIN ps : InUse(i)' <=> InUse(i) /\ i # j
  PROVE  Promise!Next \/ Still
<1>1. DOMAIN ps = 1..Len(ps) /\ DOMAIN ps' = DOMAIN ps /\ j \in Nat
  BY ListsHold, ListsAfter DEF Lists
<1>2. /\ Size("proc")' = Size("proc") /\ Kept("fd") /\ Kept("child")
      /\ \A i \in Nat : Open("proc", i)' <=> Open("proc", i) /\ i # j
      /\ Open("proc", j) <=> InUse(j)
  BY <1>1, KindFacts, KindFactsAfter, KeptKinds
<1>3. CASE InUse(j)
  <2>1. <<"proc", j>> \in LiveHandles
    BY <1>1, <1>2, <1>3, LiveFacts DEF Kinds
  <2>2. \A K \in Kinds : Size(K)' = Size(K)
    BY <1>2, KindFacts DEF Kept
  <2>3. \A K \in Kinds, k \in Nat : Open(K, k)' <=> Open(K, k) /\ <<K, k>> # <<"proc", j>>
    BY <1>2, KindFacts DEF Kept
  <2> QED BY <2>1, <2>2, <2>3, SpentStep
<1>4. CASE ~InUse(j)
  <2>1. Kept("proc")
    BY <1>2, <1>4 DEF Kept
  <2> QED BY <1>2, <2>1, KeptStep
<1> QED BY <1>3, <1>4

\* While a program runs nothing is being closed.
LEMMA NothingToDo ==
  ASSUME IInv, pc = "run"
  PROVE  todo.next = 1 /\ todo.last = 0 /\ \A i \in DOMAIN ps : InUse(i) <=> ~ps[i].gone /\ ps[i].stdin # 0
<1>1. todo = nothing_to_do
  BY DEF IInv, Ctl, Closing
<1>2. todo.next = 1 /\ todo.last = 0
  BY <1>1 DEF nothing_to_do
<1> QED BY <1>2 DEF InUse

LEMMA ProcCallStep ==
  ASSUME IInv, IInv', ProcCall
  PROVE  Promise!Next \/ Still
<1>1. /\ pc = "run" /\ calls' = calls /\ mode' = mode /\ fds' = fds /\ children' = children
      /\ todo' = todo
  BY DEF ProcCall, termvars, popen, alive, move_bytes
<1>2. /\ DOMAIN ps = 1..Len(ps) /\ Len(ps) \in Nat /\ ps \in Seq(Popen)
      /\ DOMAIN ps' = 1..Len(ps') /\ Len(ps') \in Nat
      /\ Len(fds) \in Nat /\ Len(children) \in Nat
  BY ListsHold, ListsAfter DEF Lists, IInv, Res, ResType
<1>3. /\ todo.next = 1 /\ todo.last = 0
      /\ \A i \in DOMAIN ps : InUse(i) <=> ~ps[i].gone /\ ps[i].stdin # 0
  BY <1>1, NothingToDo
<1>4. \A i \in DOMAIN ps' : InUse(i)' <=> ~ps'[i].gone /\ ps'[i].stdin # 0
  BY <1>1, <1>3 DEF InUse
<1>5. Kept("fd") /\ Kept("child")
  BY <1>1, KeptKinds
<1>6. ASSUME NEW p \in Pid, popen(p)
      PROVE  Promise!Next
  <2>1. PICK n \in Num, m \in Num :
          ps' = Append(ps, [pid |-> p, stdin |-> n, stdout |-> m, gone |-> FALSE])
    BY <1>6 DEF popen
  <2>2. PICK e : e = [pid |-> p, stdin |-> n, stdout |-> m, gone |-> FALSE]
    OBVIOUS
  <2>3. ~e.gone /\ e.stdin # 0
    BY <2>2, MaxNumNat DEF Num
  <2>4. /\ Len(ps') = Len(ps) + 1 /\ ps'[Len(ps) + 1] = e
        /\ \A i \in 1..Len(ps) : ps'[i] = ps[i]
    BY <1>2, <2>1, <2>2, SMTT(60)
  <2>5. \A i \in Nat : Open("proc", i)' <=> Open("proc", i) \/ (Size("proc") < i /\ i <= Size("proc")')
    <3>1. ASSUME NEW i \in 1..Len(ps)
          PROVE  Open("proc", i)' <=> Open("proc", i)
      <4>1. i \in DOMAIN ps /\ i \in DOMAIN ps' /\ ps'[i] = ps[i]
        BY <1>2, <2>4
      <4> QED BY <1>3, <1>4, <4>1, KindFacts, KindFactsAfter, Zenon
    <3>0. PICK new \in Nat : new = Len(ps) + 1
      BY <1>2
    <3>2. Open("proc", new)'
      <4>1. new \in DOMAIN ps'
        BY <1>2, <2>4, <3>0
      <4>2. ~ps'[new].gone /\ ps'[new].stdin # 0
        BY <2>3, <2>4, <3>0
      <4> QED BY <1>4, <4>1, <4>2, KindFactsAfter, Zenon
    <3>3. \A i : /\ Open("proc", i) => i \in 1..Len(ps)
                 /\ Open("proc", i)' => i \in 1..Len(ps) \/ i = new
      BY <1>2, <2>4, <3>0, KindFacts, KindFactsAfter
    <3>4. Size("proc") = Len(ps) /\ Size("proc")' = new
      BY <2>4, <3>0, KindFacts, KindFactsAfter
    <3>5. \A i \in Nat : Len(ps) < i /\ i <= new <=> i = new
      BY <1>2, <3>0
    <3>6. new \notin 1..Len(ps)
      BY <1>2, <3>0
    <3> QED BY <3>1, <3>2, <3>3, <3>4, <3>5, <3>6, Zenon
  <2>6. \A K \in Kinds : Size(K) <= Size(K)'
    <3>1. Size("proc") <= Size("proc")' /\ Size("fd") <= Size("fd")' /\ Size("child") <= Size("child")'
      BY <1>2, <1>5, <2>4, KindFacts, KindFactsAfter DEF Kept
    <3> QED BY <3>1, KindFacts
  <2>7. \A K \in Kinds, i \in Nat : Open(K, i)' <=> Open(K, i) \/ (Size(K) < i /\ i <= Size(K)')
    <3>1. /\ \A i \in Nat : Open("fd", i)' <=> Open("fd", i) \/ (Size("fd") < i /\ i <= Size("fd")')
          /\ \A i \in Nat : Open("child", i)' <=> Open("child", i) \/ (Size("child") < i /\ i <= Size("child")')
      BY <1>5, KindFacts DEF Kept
    <3> QED BY <2>5, <3>1, KindFacts
  <2> QED BY <1>1, <2>6, <2>7, GrownStep
<1>7. ASSUME NEW j \in DOMAIN ps, reap(j)
      PROVE  Promise!Next \/ Still
  <2>1. ps' = [ps EXCEPT ![j].gone = TRUE]
    BY <1>7 DEF reap
  <2>2. /\ DOMAIN ps' = DOMAIN ps /\ \A i \in DOMAIN ps : i # j => ps'[i] = ps[i]
        /\ ps'[j] = [ps[j] EXCEPT !.gone = TRUE]
    BY <2>1
  <2>3. ps'[j].gone
    <3>1. ps[j] \in Popen
      BY <1>2, <1>7, ElementOfSeq
    <3>2. \A e \in Popen : [e EXCEPT !.gone = TRUE].gone
      BY DEF Popen
    <3> QED BY <2>2, <3>1, <3>2
  <2>4. Len(ps') = Len(ps)
    <3>1. ps[j] \in Popen
      BY <1>2, <1>7, ElementOfSeq
    <3>2. [ps[j] EXCEPT !.gone = TRUE] \in Popen
      BY <3>1, Zenon DEF Popen
    <3>3. ps' = [ps EXCEPT ![j] = [ps[j] EXCEPT !.gone = TRUE]]
      BY <2>1, Zenon
    <3> QED BY <1>2, <1>7, <3>2, <3>3, UpdateFacts
  <2>5. \A i \in DOMAIN ps : InUse(i)' <=> InUse(i) /\ i # j
    <3>1. ASSUME NEW i \in DOMAIN ps, i # j
          PROVE  InUse(i)' <=> InUse(i)
      <4>1. ps'[i] = ps[i] /\ i \in DOMAIN ps'
        BY <2>2, <3>1
      <4> QED BY <1>3, <1>4, <4>1, Zenon
    <3>2. ~InUse(j)'
      BY <1>4, <2>2, <2>3, Zenon
    <3> QED BY <3>1, <3>2, Zenon
  <2> QED BY <1>1, <2>4, <2>5, ProcSpent
<1>8. CASE move_bytes
  <2>1. Kept("proc")
    BY <1>1, <1>8, KeptKinds DEF move_bytes
  <2> QED BY <1>1, <1>5, <2>1, KeptStep
<1> QED BY <1>6, <1>7, <1>8, Zenon DEF ProcCall, alive

LEMMA ProcCloseStep ==
  ASSUME IInv, IInv', ProcClose
  PROVE  Promise!Next \/ Still
<1>1. PICK j \in DOMAIN ps : todo' = [next |-> j, last |-> j]
  BY DEF ProcClose, close_range
<1>2. /\ pc = "run" /\ calls' = calls /\ mode' = mode /\ fds' = fds /\ children' = children
      /\ ps' = ps /\ Len(ps') = Len(ps)
  BY DEF ProcClose, linuxvars, termvars
<1>3. \A i \in DOMAIN ps : i \in Nat
  BY ListsHold DEF Lists
<1>4. /\ todo'.next = j /\ todo'.last = j
      /\ \A i \in DOMAIN ps : InUse(i) <=> ~ps[i].gone /\ ps[i].stdin # 0
  BY <1>1, <1>2, NothingToDo
<1>5. \A i \in DOMAIN ps : i \in j..j <=> i = j
  BY <1>3
<1>6. \A i \in DOMAIN ps : InUse(i)' <=> InUse(i) /\ i # j
  <2>1. \A i \in DOMAIN ps : InUse(i)' <=> ~ps[i].gone /\ ps[i].stdin # 0 /\ i \notin j..j
    BY <1>2, <1>4, Zenon DEF InUse
  <2> QED BY <1>4, <1>5, <2>1, Zenon
<1> QED BY <1>2, <1>6, ProcSpent

LEMMA CloseOneStep ==
  ASSUME IInv, IInv', CloseOne
  PROVE  Still
<1>1. /\ calls' = calls /\ mode' = mode /\ fds' = fds /\ children' = children
  BY DEF CloseOne, termvars
<1>2. PICK j \in DOMAIN ps : close_one_poll(j) \/ close_one_wait(j)
  BY DEF CloseOne
<1>3. /\ j = todo.next /\ j <= todo.last /\ Len(ps') = Len(ps) /\ DOMAIN ps' = DOMAIN ps
      /\ \A k \in DOMAIN ps : k # j => ps'[k] = ps[k]
      /\ \/ todo' = todo
         \/ todo' = [todo EXCEPT !.next = @ + 1] /\ (ps'[j].gone \/ ps'[j].stdin = 0)
  BY <1>2, CloseOneEffect DEF IInv, Ctl, Stopped
<1>4. /\ j \in Nat /\ todo \in [next : Nat, last : Nat] /\ todo.last \in Nat
      /\ \A i \in DOMAIN ps : i \in Nat
  BY ListsHold DEF Lists, IInv, Ctl, CtlType
<1>5. ~InUse(j)
  BY <1>3, <1>4 DEF InUse
<1>6. ~InUse(j)'
  <2>1. CASE todo' = todo
    BY <1>3, <1>4, <2>1 DEF InUse
  <2>2. CASE ps'[j].gone \/ ps'[j].stdin = 0
    BY <2>2 DEF InUse
  <2> QED BY <1>3, <2>1, <2>2
<1>7. ASSUME NEW i \in DOMAIN ps, i # j
      PROVE  InUse(i)' <=> InUse(i)
  <2>1. ps'[i] = ps[i]
    BY <1>3, <1>7
  <2>2. i \in todo'.next..todo'.last <=> i \in todo.next..todo.last
    <3>1. CASE todo' = todo
      BY <3>1
    <3>2. CASE todo' = [todo EXCEPT !.next = @ + 1]
      <4>1. todo'.next = j + 1 /\ todo'.last = todo.last
        BY <1>3, <1>4, <3>2
      <4>2. i \in (j + 1)..todo.last <=> i \in j..todo.last
        BY <1>4, <1>7
      <4> QED BY <1>3, <4>1, <4>2
    <3> QED BY <1>3, <3>1, <3>2
  <2> QED BY <2>1, <2>2, Zenon DEF InUse
<1>8. Kept("proc")
  <2>1. \A i \in DOMAIN ps : InUse(i)' <=> InUse(i)
    BY <1>5, <1>6, <1>7
  <2>2. \A i \in Nat : Open("proc", i)' <=> Open("proc", i)
    BY <1>3, <2>1, KindFacts, KindFactsAfter, Zenon
  <2> QED BY <1>3, <2>2, KindFacts, KindFactsAfter DEF Kept
<1> QED BY <1>1, <1>8, KeptKinds, KeptStep

LEMMA KernelStep ==
  ASSUME IInv, IInv', Kernel
  PROVE  Still
<1>1. /\ calls' = calls /\ mode' = mode /\ fds' = fds /\ children' = children
      /\ ps' = ps /\ todo' = todo
  BY DEF Kernel, termvars, procvars
<1> QED BY <1>1, KeptKinds, KeptStep

LEMMA TermCallStep ==
  ASSUME IInv, IInv', TermCall
  PROVE  Promise!Next
<1>1. fds' = fds /\ children' = children /\ calls' = calls /\ ps' = ps /\ todo' = todo
  BY DEF TermCall, linuxvars, procvars
<1>2. mode' \in Mode
  BY DEF IInv, Ctl, CtlType, TermType
<1>3. Scopes' = Scopes /\ Spent' = Spent /\ Entry' = Entry
  BY <1>1, KeptKinds, AllKept, StillStep
<1> QED BY <1>2, <1>3, PromiseSetMode

\* The ends of the scopes whose snapshots stay.
LEMMA KeptEnds ==
  ASSUME Bounds, Bounds', NEW n \in Nat, n = Len(calls), NEW m \in Nat, m = Len(calls'),
         NEW r \in Nat, r <= n, r <= m, \A k \in 1..r : calls'[k] = calls[k],
         NEW K \in Kinds
  PROVE  /\ \A k \in 1..r : Hi(K, k)' = Hi(K, k)
         /\ \A k \in 1..(r + 1) : Lo(K, k)' = Lo(K, k)
<1>1. ASSUME NEW k \in 1..r
      PROVE  Hi(K, k)' = Hi(K, k) /\ Lo(K, k + 1)' = Lo(K, k + 1)
  <2>1. k \in 1..n /\ k \in 1..m
    OBVIOUS
  <2>2. Hi(K, k) = Count(calls[k], K) /\ Lo(K, k + 1) = Hi(K, k)
    BY <2>1, Ends
  <2>3. Hi(K, k)' = Count(calls'[k], K) /\ Lo(K, k + 1)' = Hi(K, k)'
    BY <2>1, EndsAfter
  <2>4. Count(calls'[k], K) = Count(calls[k], K)
    BY Zenon
  <2> QED BY <2>2, <2>3, <2>4
<1>2. Lo(K, 1)' = Lo(K, 1)
  BY DEF Lo
<1>3. ASSUME NEW k \in 1..(r + 1)
      PROVE  Lo(K, k)' = Lo(K, k)
  <2>1. CASE k = 1
    BY <1>2, <2>1
  <2>2. CASE k # 1
    <3>1. PICK l \in 1..r : l + 1 = k
      <4>1. k - 1 \in 1..r /\ k - 1 + 1 = k
        BY <2>2
      <4> QED BY <4>1
    <3> QED BY <1>1, <3>1
  <2> QED BY <2>1, <2>2
<1> QED BY <1>1, <1>3

\* A boundary is entered.
LEMMA CallStep ==
  ASSUME IInv, IInv', Call
  PROVE  Promise!Next
<1>0. PICK n \in Nat : n = Len(calls)
  BY BoundsHold DEF Bounds
<1>1. /\ fds' = fds /\ children' = children /\ ps' = ps /\ todo' = todo /\ mode' = mode
      /\ calls' = Append(calls, snapshot)
  BY DEF Call, linuxvars, procvars, termvars
<1>2. Bounds /\ Bounds' /\ Members /\ Members'
  BY After, BoundsHold, MembersHold DEF IInv, Res
<1>3. calls \in Seq(Snapshot)
  BY DEF IInv, Ctl, CtlType
<1>4. /\ Len(calls') = n + 1 /\ calls'[n + 1] = snapshot
      /\ \A k \in 1..n : calls'[k] = calls[k]
  BY <1>0, <1>1, <1>3, SMTT(60)
<1>5. /\ \A K \in Kinds : Count(snapshot, K) = Size(K)
      /\ snapshot.saved = saved
  BY KindFacts DEF snapshot, linux_checkpoint, term_checkpoint
<1>6. /\ \A K \in Kinds : Size(K)' = Size(K)
      /\ \A K \in Kinds, i \in Nat : Open(K, i)' <=> Open(K, i)
  BY <1>1, KeptKinds, AllKept
<1>7. PICK m \in Nat : m = n + 1
  OBVIOUS
<1>8. ASSUME NEW K \in Kinds
      PROVE  /\ \A k \in 1..m : Lo(K, k)' = Lo(K, k) /\ Hi(K, k)' = Hi(K, k)
             /\ Lo(K, m + 1)' = Size(K) /\ Hi(K, m + 1)' = Size(K)
  <2>1. /\ \A k \in 1..n : Hi(K, k)' = Hi(K, k)
        /\ \A k \in 1..m : Lo(K, k)' = Lo(K, k)
    <3>1. n <= n /\ n <= m
      BY <1>7
    <3>2. \A k \in 1..n : calls'[k] = calls[k]
      BY <1>4
    <3>3. n = Len(calls) /\ m = Len(calls')
      BY <1>0, <1>4, <1>7
    <3>4. /\ \A k \in 1..n : Hi(K, k)' = Hi(K, k)
          /\ \A k \in 1..(n + 1) : Lo(K, k)' = Lo(K, k)
      BY <1>2, <3>1, <3>2, <3>3, KeptEnds
    <3> QED BY <1>7, <3>4
  <2>2. Hi(K, m) = Size(K)
    BY <1>0, <1>2, <1>7, Ends
  <2>3. m \in 1..m /\ \A k \in 1..m : k \in 1..n \/ k = m
    BY <1>7
  <2>4. /\ Hi(K, m + 1)' = Size(K)'
        /\ Hi(K, m)' = Count(calls'[m], K) /\ Lo(K, m + 1)' = Hi(K, m)'
    BY <1>2, <1>4, <1>7, <2>3, EndsAfter
  <2>5. Count(calls'[m], K) = Size(K)
    BY <1>4, <1>5, <1>7
  <2> QED BY <1>6, <2>1, <2>2, <2>3, <2>4, <2>5
<1>9. ASSUME NEW k \in 1..m
      PROVE  Scope(k)' = Scope(k)
  <2>1. k \in Nat
    OBVIOUS
  <2>2. /\ Tagged(Scope(k))
        /\ \A K \in Kinds, i \in Nat :
             <<K, i>> \in Scope(k) <=> Open(K, i) /\ Lo(K, k) < i /\ i <= Hi(K, k)
    BY <1>2, <2>1, Zenon DEF Members
  <2>3. \A K \in Kinds, i \in Nat :
          Open(K, i)' /\ Lo(K, k)' < i /\ i <= Hi(K, k)' <=> <<K, i>> \in Scope(k)
    BY <1>6, <1>8, <2>2
  <2> QED BY <2>1, <2>2, <2>3, ScopeAfter
<1>10. PICK l \in Nat : l = m + 1
  OBVIOUS
<1>11. Scope(l)' = {}
  <2>1. ASSUME NEW K \in Kinds, NEW i \in Nat
        PROVE  Open(K, i)' /\ Lo(K, l)' < i /\ i <= Hi(K, l)' <=> <<K, i>> \in {}
    <3>1. Lo(K, l)' = Size(K) /\ Hi(K, l)' = Size(K)
      BY <1>8, <1>10
    <3>2. Size(K) \in Nat /\ ~(Size(K) < i /\ i <= Size(K))
      BY <1>2 DEF Bounds
    <3> QED BY <3>1, <3>2
  <2>2. Tagged({})
    BY DEF Tagged
  <2> QED BY <2>1, <2>2, ScopeAfter
<1>12. Scopes' = Append(Scopes, {})
  <2> DEFINE g == Append(Scopes, {})
  <2>1. /\ Scopes = [k \in 1..m |-> Scopes[k]]
        /\ \A k \in 1..m : Scopes[k] = Scope(k)
    BY <1>0, <1>7, ScopesFacts
  <2>2. g = [k \in 1..l |-> IF k = l THEN {} ELSE Scopes[k]]
    BY <1>10, <2>1, AppendFun
  <2>3. /\ Scopes' = [k \in 1..l |-> Scopes'[k]]
        /\ \A k \in 1..l : Scopes'[k] = Scope(k)'
    BY <1>4, <1>7, <1>10, After
  <2> HIDE DEF g
  <2>4. \A k \in 1..l : k = l \/ (k # l /\ k \in 1..m)
    BY <1>10
  <2>5. \A k \in 1..l : Scopes'[k] = g[k]
    BY <1>9, <1>11, <2>1, <2>2, <2>3, <2>4
  <2>6. g = [k \in 1..l |-> g[k]]
    BY <2>2
  <2>7. Scopes' = g
    BY <2>3, <2>5, <2>6, FunSame
  <2> QED BY <2>7 DEF g
<1>13. Entry' = Append(Entry, mode)
  <2> DEFINE g == Append(Entry, mode)
  <2>1. /\ Entry = [k \in 1..n |-> Entry[k]]
        /\ \A k \in 1..n : Entry[k] = IF calls[k].saved = "none" THEN "cooked" ELSE "raw"
    BY <1>0, ScopesFacts
  <2>2. g = [k \in 1..m |-> IF k = m THEN mode ELSE Entry[k]]
    BY <1>7, <2>1, AppendFun
  <2>3. /\ Entry' = [k \in 1..m |-> Entry'[k]]
        /\ \A k \in 1..m : Entry'[k] = IF calls'[k].saved = "none" THEN "cooked" ELSE "raw"
    BY <1>4, <1>7, After
  <2> HIDE DEF g
  <2>4. mode = IF saved = "none" THEN "cooked" ELSE "raw"
    BY DEF IInv, Ctl, TerminalOurs
  <2>5. \A k \in 1..m : k = m \/ k \in 1..n
    BY <1>7
  <2>6. \A k \in 1..m : Entry'[k] = g[k]
    <3> TAKE k \in 1..m
    <3>1. CASE k = m
      BY <1>4, <1>5, <1>7, <2>2, <2>3, <2>4, <3>1
    <3>2. CASE k \in 1..n
      <4>1. k # m /\ k \in 1..m /\ calls'[k] = calls[k]
        BY <1>4, <1>5, <1>7, <3>2
      <4> QED BY <2>1, <2>2, <2>3, <3>2, <4>1
    <3> QED BY <2>5, <3>1, <3>2
  <2>7. g = [k \in 1..m |-> g[k]]
    BY <2>2
  <2>8. Entry' = g
    BY <2>3, <2>6, <2>7, FunSame
  <2> QED BY <2>8 DEF g
<1>14. Spent' = Spent
  <2>1. Tagged(Spent) /\ \A K \in Kinds, i \in Nat : <<K, i>> \in Spent <=> i \in 1..Size(K) /\ ~Open(K, i)
    BY <1>2 DEF Members
  <2> QED BY <1>6, <2>1, SpentAfter
<1> QED BY <1>1, <1>12, <1>13, <1>14, PromiseEnter

\* The snapshots and the entry modes when the innermost boundary is left.
LEMMA PoppedFacts ==
  ASSUME IInv, IInv', calls # <<>>, calls' = SubSeq(calls, 1, Len(calls) - 1),
         NEW n \in Nat, n = Len(calls), NEW r \in Nat, n = r + 1
  PROVE  /\ Len(calls') = r
         /\ Entry # <<>>
         /\ Entry' = SubSeq(Entry, 1, Len(Entry) - 1)
         /\ \A K \in Kinds : /\ \A k \in 1..n : Lo(K, k)' = Lo(K, k)
                             /\ \A k \in 1..r : Hi(K, k)' = Hi(K, k)
                             /\ Hi(K, n)' = Size(K)'
<1>1. /\ Len(calls') = r
      /\ \A k \in 1..r : calls'[k] = calls[k] /\ k \in 1..n
      /\ DOMAIN calls = 1..n
  <2>1. n - 1 = r
    OBVIOUS
  <2> QED BY <2>1, Popped DEF IInv
<1>2. /\ Len(Entry) = n /\ DOMAIN Entry = 1..n
      /\ Entry = [k \in 1..n |-> Entry[k]]
      /\ \A k \in 1..n : Entry[k] = IF calls[k].saved = "none" THEN "cooked" ELSE "raw"
  BY ScopesFacts
<1>3. Entry # <<>>
  <2>1. 1 \in DOMAIN Entry
    BY <1>2
  <2> QED BY <2>1
<1>4. Entry' = SubSeq(Entry, 1, Len(Entry) - 1)
  <2> DEFINE g == SubSeq(Entry, 1, r)
  <2>1. r \in 0..n /\ Len(Entry) - 1 = r
    BY <1>2
  <2>2. g = [k \in 1..r |-> Entry[k]]
    BY <1>2, <2>1, SubSeqFun
  <2>3. /\ Entry' = [k \in 1..r |-> Entry'[k]]
        /\ \A k \in 1..r : Entry'[k] = IF calls'[k].saved = "none" THEN "cooked" ELSE "raw"
    BY <1>1, After
  <2> HIDE DEF g
  <2>4. \A k \in 1..r : Entry'[k] = g[k]
    BY <1>1, <1>2, <2>2, <2>3
  <2>5. g = [k \in 1..r |-> g[k]]
    BY <2>2
  <2>6. Entry' = g
    BY <2>3, <2>4, <2>5, FunSame
  <2> QED BY <2>1, <2>6 DEF g
<1>5. ASSUME NEW K \in Kinds
      PROVE  /\ \A k \in 1..n : Lo(K, k)' = Lo(K, k)
             /\ \A k \in 1..r : Hi(K, k)' = Hi(K, k)
             /\ Hi(K, n)' = Size(K)'
  <2>1. Bounds /\ Bounds'
    BY After, BoundsHold
  <2>2. r <= n /\ r <= r
    OBVIOUS
  <2>3. /\ \A k \in 1..(r + 1) : Lo(K, k)' = Lo(K, k)
        /\ \A k \in 1..r : Hi(K, k)' = Hi(K, k)
    BY <1>1, <2>1, <2>2, KeptEnds
  <2>4. Hi(K, n)' = Size(K)'
    BY <1>1, <2>1, EndsAfter
  <2> QED BY <2>3, <2>4
<1> QED BY <1>1, <1>3, <1>4, <1>5

\* A boundary is left by a return.
LEMMA CallOkStep ==
  ASSUME IInv, IInv', CallOk
  PROVE  Promise!Next
<1>1. /\ fds' = fds /\ children' = children /\ ps' = ps /\ todo' = todo /\ mode' = mode
      /\ calls # <<>> /\ calls' = SubSeq(calls, 1, Len(calls) - 1)
  BY DEF CallOk, linuxvars, procvars, termvars
<1>0. PICK n \in Nat, r \in Nat : n = Len(calls) /\ n = r + 1
  <2>1. Len(calls) \in Nat /\ Len(calls) - 1 \in Nat /\ Len(calls) = Len(calls) - 1 + 1
    BY <1>1, Popped DEF IInv
  <2> QED BY <2>1
<1>2. Bounds /\ Bounds' /\ Members /\ Members'
  BY After, BoundsHold, MembersHold DEF IInv, Res
<1>3. /\ Len(calls') = r
      /\ Entry # <<>> /\ Entry' = SubSeq(Entry, 1, Len(Entry) - 1)
      /\ \A K \in Kinds : /\ \A k \in 1..n : Lo(K, k)' = Lo(K, k)
                          /\ \A k \in 1..r : Hi(K, k)' = Hi(K, k)
                          /\ Hi(K, n)' = Size(K)'
  BY <1>0, <1>1, PoppedFacts
<1>4. /\ \A K \in Kinds : Size(K)' = Size(K)
      /\ \A K \in Kinds, i \in Nat : Open(K, i)' <=> Open(K, i)
  BY <1>1, KeptKinds, AllKept
<1>5. ASSUME NEW k \in 1..r
      PROVE  Scope(k)' = Scope(k)
  <2>1. k \in Nat /\ k \in 1..n
    BY <1>0
  <2>2. \A K \in Kinds : Lo(K, k)' = Lo(K, k) /\ Hi(K, k)' = Hi(K, k)
    BY <1>3, <2>1
  <2>3. /\ Tagged(Scope(k))
        /\ \A K \in Kinds, i \in Nat :
             <<K, i>> \in Scope(k) <=> Open(K, i) /\ Lo(K, k) < i /\ i <= Hi(K, k)
    BY <1>2, <2>1, Zenon DEF Members
  <2>4. \A K \in Kinds, i \in Nat :
          Open(K, i)' /\ Lo(K, k)' < i /\ i <= Hi(K, k)' <=> <<K, i>> \in Scope(k)
    BY <1>4, <2>2, <2>3
  <2> QED BY <2>1, <2>3, <2>4, ScopeAfter
<1>6. PICK m \in Nat : m = n + 1
  OBVIOUS
<1>7. Scope(n)' = Scope(n) \cup Scope(m)
  <2>1. n \in 1..n /\ n \in 1..m
    BY <1>0, <1>6
  <2>2. ASSUME NEW K \in Kinds, NEW i \in Nat
        PROVE  Open(K, i)' /\ Lo(K, n)' < i /\ i <= Hi(K, n)' <=> <<K, i>> \in Scope(n) \cup Scope(m)
    <3>1. /\ Lo(K, n)' = Lo(K, n) /\ Hi(K, n)' = Size(K)
      BY <1>3, <1>4, <2>1
    <3>2. /\ Lo(K, m) = Hi(K, n) /\ Hi(K, m) = Size(K)
          /\ Lo(K, n) \in Nat /\ Hi(K, n) \in Nat /\ Size(K) \in Nat
          /\ Lo(K, n) <= Hi(K, n) /\ Hi(K, n) <= Size(K)
      BY <1>0, <1>2, <1>6, <2>1, Ends DEF Bounds
    <3>3. Lo(K, n) < i /\ i <= Size(K) <=> (Lo(K, n) < i /\ i <= Hi(K, n)) \/ (Hi(K, n) < i /\ i <= Size(K))
      BY <3>2
    <3>4. /\ <<K, i>> \in Scope(n) <=> Open(K, i) /\ Lo(K, n) < i /\ i <= Hi(K, n)
          /\ <<K, i>> \in Scope(m) <=> Open(K, i) /\ Lo(K, m) < i /\ i <= Hi(K, m)
      BY <1>2, Zenon DEF Members
    <3> QED BY <1>4, <3>1, <3>2, <3>3, <3>4, Zenon
  <2>3. Tagged(Scope(n) \cup Scope(m))
    BY <1>2 DEF Members, Tagged
  <2> QED BY <2>2, <2>3, ScopeAfter
<1>8. Scopes' = Append(SubSeq(Scopes, 1, Len(Entry) - 1), Scopes[Len(Entry)] \cup Scopes[Len(Entry) + 1])
  <2> DEFINE s == SubSeq(Scopes, 1, r)
             e == Scopes[n] \cup Scopes[m]
             g == Append(s, e)
  <2>1. /\ Len(Entry) = n /\ Len(Entry) - 1 = r /\ Len(Entry) + 1 = m
        /\ Scopes = [k \in 1..m |-> Scopes[k]]
        /\ \A k \in 1..m : Scopes[k] = Scope(k)
    BY <1>0, <1>6, ScopesFacts
  <2>2. r \in 0..m /\ n \in 1..m /\ m \in 1..m
    BY <1>0, <1>6
  <2>3. s = [k \in 1..r |-> Scopes[k]]
    BY <2>1, <2>2, SubSeqFun
  <2>4. s = [k \in 1..r |-> s[k]] /\ \A k \in 1..r : s[k] = Scopes[k]
    BY <2>3
  <2> HIDE DEF s
  <2>5. e = Scope(n) \cup Scope(m)
    BY <2>1, <2>2
  <2> HIDE DEF e
  <2>6. g = [k \in 1..n |-> IF k = n THEN e ELSE s[k]]
    BY <1>0, <2>4, AppendFun
  <2> HIDE DEF g
  <2>7. /\ Scopes' = [k \in 1..n |-> Scopes'[k]]
        /\ \A k \in 1..n : Scopes'[k] = Scope(k)'
    BY <1>0, <1>3, After
  <2>8. \A k \in 1..n : (k = n \/ (k # n /\ k \in 1..r)) /\ k \in 1..m
    BY <1>0, <1>6
  <2>9. ASSUME NEW k \in 1..n
        PROVE  Scopes'[k] = g[k]
    <3>1. CASE k = n
      BY <1>7, <2>5, <2>6, <2>7, <3>1
    <3>2. CASE k # n
      <4>1. k \in 1..r /\ k \in 1..m
        BY <2>8, <3>2
      <4>2. Scopes'[k] = Scope(k)
        BY <1>5, <2>7, <4>1
      <4>3. g[k] = s[k]
        BY <2>6, <3>2
      <4>4. s[k] = Scope(k)
        BY <2>1, <2>4, <4>1
      <4> QED BY <4>2, <4>3, <4>4
    <3> QED BY <3>1, <3>2
  <2>10. g = [k \in 1..n |-> g[k]]
    BY <2>6
  <2>11. Scopes' = g
    BY <2>7, <2>9, <2>10, FunSame
  <2> QED BY <2>1, <2>11 DEF g, s, e
<1>9. Spent' = Spent
  <2>1. Tagged(Spent) /\ \A K \in Kinds, i \in Nat : <<K, i>> \in Spent <=> i \in 1..Size(K) /\ ~Open(K, i)
    BY <1>2 DEF Members
  <2> QED BY <1>4, <2>1, SpentAfter
<1> QED BY <1>1, <1>3, <1>8, <1>9, PromiseReturn

\* A boundary contains a trap: what is in use after it was made before its
\* snapshot.
LEMMA TrapKinds ==
  ASSUME IInv, IInv', CallTrap, NEW n \in Nat, n = Len(calls), NEW c, c = calls[n]
  PROVE  /\ \A K \in Kinds : Size(K)' = Size(K)
         /\ \A K \in Kinds, i \in Nat : Open(K, i)' <=> Open(K, i) /\ i <= Count(c, K)
<1>1. /\ calls # <<>> /\ calls' = SubSeq(calls, 1, Len(calls) - 1) /\ ps' = ps /\ pc = "run"
      /\ linux_rollback(c.fds, c.children)
      /\ todo' = [next |-> c.procs + 1, last |-> Len(ps)]
  BY DEF CallTrap, proc_rollback, close_range
<1>2. c.fds \in Nat /\ c.children \in Nat /\ c.procs \in Nat
  <2>1. calls[Len(calls)] \in Snapshot
    BY <1>1, Popped DEF IInv
  <2> QED BY <2>1 DEF Snapshot
<1>3. /\ DOMAIN fds' = DOMAIN fds /\ DOMAIN children' = DOMAIN children
      /\ Len(fds') = Len(fds) /\ Len(children') = Len(children)
      /\ \A i \in DOMAIN fds : fds'[i].closed = (i > c.fds \/ fds[i].closed)
      /\ \A i \in DOMAIN children : children'[i].waited = (i > c.children \/ children[i].waited)
  BY <1>1, <1>2, RollbackRes DEF IInv
<1>4. /\ DOMAIN fds \subseteq Nat /\ DOMAIN children \subseteq Nat
      /\ DOMAIN ps = 1..Len(ps) /\ Len(ps) \in Nat
  BY ListsHold DEF Lists
<1>5. \A i \in Nat : /\ i > c.fds <=> ~(i <= c.fds)
                     /\ i > c.children <=> ~(i <= c.children)
  BY <1>2
<1>6. \A i \in Nat : Open("fd", i)' <=> Open("fd", i) /\ i <= c.fds
  <2>1. \A i \in Nat : /\ Open("fd", i)' <=> i \in DOMAIN fds /\ ~fds'[i].closed
                       /\ Open("fd", i) <=> i \in DOMAIN fds /\ ~fds[i].closed
    BY <1>3, KindFacts, KindFactsAfter
  <2> QED BY <1>3, <1>5, <2>1, Zenon
<1>7. \A i \in Nat : Open("child", i)' <=> Open("child", i) /\ i <= c.children
  <2>1. \A i \in Nat : /\ Open("child", i)' <=> i \in DOMAIN children /\ ~children'[i].waited
                       /\ Open("child", i) <=> i \in DOMAIN children /\ ~children[i].waited
    BY <1>3, KindFacts, KindFactsAfter
  <2> QED BY <1>3, <1>5, <2>1, Zenon
<1>8. \A i \in Nat : Open("proc", i)' <=> Open("proc", i) /\ i <= c.procs
  <2>1. todo'.next = c.procs + 1 /\ todo'.last = Len(ps)
    BY <1>1
  <2>2. \A i \in DOMAIN ps : i \in (c.procs + 1)..Len(ps) <=> ~(i <= c.procs)
    BY <1>2, <1>4
  <2>3. \A i \in DOMAIN ps : InUse(i)' <=> ~ps[i].gone /\ ps[i].stdin # 0 /\ i <= c.procs
    BY <1>1, <2>1, <2>2 DEF InUse
  <2>4. \A i \in DOMAIN ps : InUse(i) <=> ~ps[i].gone /\ ps[i].stdin # 0
    BY <1>1, NothingToDo
  <2>5. \A i \in Nat : /\ Open("proc", i)' <=> i \in DOMAIN ps /\ InUse(i)'
                       /\ Open("proc", i) <=> i \in DOMAIN ps /\ InUse(i)
    BY <1>1, KindFacts, KindFactsAfter
  <2> QED BY <2>3, <2>4, <2>5, Zenon
<1>9. Size("fd")' = Size("fd") /\ Size("child")' = Size("child") /\ Size("proc")' = Size("proc")
  BY <1>1, <1>3, KindFacts, KindFactsAfter
<1>10. \A K \in Kinds : Size(K)' = Size(K)
  BY <1>9, KindFacts
<1>11. \A K \in Kinds, i \in Nat : Open(K, i)' <=> Open(K, i) /\ i <= Count(c, K)
  <2>1. Count(c, "fd") = c.fds /\ Count(c, "child") = c.children /\ Count(c, "proc") = c.procs
    BY KindFacts
  <2> QED BY <1>6, <1>7, <1>8, <2>1, KindFacts
<1> QED BY <1>10, <1>11

LEMMA CallTrapStep ==
  ASSUME IInv, IInv', CallTrap
  PROVE  Promise!Next
<1>1. calls # <<>> /\ calls' = SubSeq(calls, 1, Len(calls) - 1)
  BY DEF CallTrap
<1>2. PICK n \in Nat, r \in Nat : n = Len(calls) /\ n = r + 1
  <2>1. Len(calls) \in Nat /\ Len(calls) - 1 \in Nat /\ Len(calls) = Len(calls) - 1 + 1
    BY <1>1, Popped DEF IInv
  <2> QED BY <2>1
<1>3. PICK c : c = calls[n]
  OBVIOUS
<1>4. Bounds /\ Bounds' /\ Members /\ Members'
  BY After, BoundsHold, MembersHold DEF IInv, Res
<1>5. /\ Len(calls') = r
      /\ Entry # <<>> /\ Entry' = SubSeq(Entry, 1, Len(Entry) - 1)
      /\ \A K \in Kinds : /\ \A k \in 1..n : Lo(K, k)' = Lo(K, k)
                          /\ \A k \in 1..r : Hi(K, k)' = Hi(K, k)
                          /\ Hi(K, n)' = Size(K)'
  BY <1>1, <1>2, PoppedFacts
<1>6. /\ \A K \in Kinds : Size(K)' = Size(K)
      /\ \A K \in Kinds, i \in Nat : Open(K, i)' <=> Open(K, i) /\ i <= Count(c, K)
  BY <1>2, <1>3, TrapKinds
<1>7. PICK m \in Nat : m = n + 1
  OBVIOUS
<1>8. n \in 1..n /\ m \in 1..m /\ \A k \in 1..n : k \in 1..m /\ k <= n /\ (k = n \/ k \in 1..r)
  BY <1>2, <1>7
<1>9. ASSUME NEW K \in Kinds
      PROVE  /\ Count(c, K) = Hi(K, n) /\ Lo(K, m) = Hi(K, n) /\ Hi(K, m) = Size(K)
             /\ Size(K) \in Nat
             /\ \A k \in 1..n : Hi(K, k) \in Nat /\ Hi(K, k) <= Hi(K, n)
             /\ \A i \in Nat : Open(K, i) => 1 <= i /\ i <= Size(K)
  <2>1. /\ Hi(K, n) = Count(calls[n], K) /\ Lo(K, n + 1) = Hi(K, n) /\ Hi(K, n + 1) = Size(K)
        /\ \A k \in 1..n : Hi(K, k) \in Nat /\ (k <= n => Hi(K, k) <= Hi(K, n))
    BY <1>2, <1>4, <1>8, Ends
  <2>2. Size(K) \in Nat /\ \A i \in Nat : Open(K, i) => 1 <= i /\ i <= Size(K)
    BY <1>4 DEF Bounds
  <2> QED BY <1>3, <1>7, <1>8, <2>1, <2>2
<1>10. ASSUME NEW k \in 1..n
       PROVE  Scope(k)' = Scope(k)
  <2>1. k \in Nat /\ k \in 1..n
    BY <1>8
  <2>2. ASSUME NEW K \in Kinds, NEW i \in Nat
        PROVE  Open(K, i)' /\ Lo(K, k)' < i /\ i <= Hi(K, k)' <=> <<K, i>> \in Scope(k)
    <3>1. <<K, i>> \in Scope(k) <=> Open(K, i) /\ Lo(K, k) < i /\ i <= Hi(K, k)
      BY <1>4, <2>1, Zenon DEF Members
    <3>2. Lo(K, k)' = Lo(K, k)
      BY <1>5
    <3>3. Open(K, i) => (i <= Count(c, K) /\ i <= Hi(K, k)' <=> i <= Hi(K, k))
      <4>1. CASE k = n
        <5>1. Hi(K, k)' = Size(K)
          BY <1>5, <1>6, <4>1
        <5> QED BY <1>9, <4>1, <5>1
      <4>2. CASE k # n
        <5>1. Hi(K, k)' = Hi(K, k)
          BY <1>5, <1>8, <4>2
        <5> QED BY <1>8, <1>9, <5>1
      <4> QED BY <4>1, <4>2
    <3> QED BY <1>6, <3>1, <3>2, <3>3, Zenon
  <2>3. Tagged(Scope(k))
    BY <1>4, <2>1 DEF Members
  <2> QED BY <2>1, <2>2, <2>3, ScopeAfter
<1>11. Spent' = Spent \cup Scope(m)
  <2>1. ASSUME NEW K \in Kinds, NEW i \in Nat
        PROVE  i \in 1..Size(K)' /\ ~Open(K, i)' <=> <<K, i>> \in Spent \cup Scope(m)
    <3>1. /\ <<K, i>> \in Scope(m) <=> Open(K, i) /\ Lo(K, m) < i /\ i <= Hi(K, m)
          /\ <<K, i>> \in Spent <=> i \in 1..Size(K) /\ ~Open(K, i)
      BY <1>4, Zenon DEF Members
    <3>2. Open(K, i)' <=> Open(K, i) /\ i <= Hi(K, n)
      BY <1>6, <1>9
    <3>3. Open(K, i) => i \in 1..Size(K)
      BY <1>9
    <3>4. Hi(K, n) < i <=> ~(i <= Hi(K, n))
      BY <1>8, <1>9
    <3>5. Lo(K, m) = Hi(K, n) /\ Hi(K, m) = Size(K) /\ (i \in 1..Size(K) => i <= Size(K))
      BY <1>9
    <3>6. i \in 1..Size(K)' <=> i \in 1..Size(K)
      BY <1>6
    <3> QED BY <3>1, <3>2, <3>3, <3>4, <3>5, <3>6, Zenon
  <2>2. Tagged(Spent \cup Scope(m))
    BY <1>4 DEF Members, Tagged
  <2> QED BY <2>1, <2>2, SpentAfter
<1>12. mode' = IF c.saved = "none" THEN "cooked" ELSE "raw"
  <2>1. term_rollback(c) /\ c \in Snapshot /\ n \in DOMAIN calls
    BY <1>1, <1>2, <1>3, Popped DEF CallTrap, IInv
  <2>2. c.saved # "none" => IsTty /\ c.saved = "cooked"
    BY <1>3, <2>1 DEF IInv, Ctl, Modes
  <2> QED BY <2>1, <2>2, TermRollback DEF IInv, Ctl, CtlType, Modes
<1>13. /\ Len(Entry) = n /\ Len(Entry) + 1 = m
       /\ Entry[n] = IF c.saved = "none" THEN "cooked" ELSE "raw"
       /\ Scopes = [k \in 1..m |-> Scopes[k]]
       /\ \A k \in 1..m : Scopes[k] = Scope(k)
  BY <1>2, <1>3, <1>7, <1>8, ScopesFacts
<1>14. Scopes' = SubSeq(Scopes, 1, Len(Entry))
  <2> DEFINE g == SubSeq(Scopes, 1, n)
  <2>1. n \in 0..m
    BY <1>7
  <2>2. g = [k \in 1..n |-> Scopes[k]]
    BY <1>13, <2>1, SubSeqFun
  <2>3. /\ Scopes' = [k \in 1..n |-> Scopes'[k]]
        /\ \A k \in 1..n : Scopes'[k] = Scope(k)'
    BY <1>2, <1>5, After
  <2> HIDE DEF g
  <2>4. \A k \in 1..n : Scopes'[k] = g[k]
    BY <1>8, <1>10, <1>13, <2>2, <2>3
  <2>5. g = [k \in 1..n |-> g[k]]
    BY <2>2
  <2>6. Scopes' = g
    BY <2>3, <2>4, <2>5, FunSame
  <2> QED BY <1>13, <2>6 DEF g
<1>15. Spent' = Spent \cup Scopes[Len(Entry) + 1]
  BY <1>8, <1>11, <1>13
<1>16. mode' = Entry[Len(Entry)]
  BY <1>12, <1>13
<1> QED BY <1>5, <1>14, <1>15, <1>16, PromiseTrap

\* When no boundary is left, every handle in use is in one scope.
LEMMA Bottom ==
  ASSUME IInv', calls' = <<>>
  PROVE  /\ Scopes' = <<Scope(1)'>> /\ Entry' = <<>>
         /\ Tagged(Scope(1)')
         /\ \A K \in Kinds, i \in Nat : <<K, i>> \in Scope(1)' <=> Open(K, i)'
<1>1. /\ Members' /\ Bounds'
      /\ Scopes' = [k \in 1..(Len(calls') + 1) |-> Scopes'[k]]
      /\ \A k \in 1..(Len(calls') + 1) : Scopes'[k] = Scope(k)'
      /\ Entry' = [k \in 1..Len(calls') |-> Entry'[k]]
  BY After
<1>2. Len(calls') = 0 /\ 1 \in Nat /\ 0 + 1 = 1
  BY SMT
<1>3. Scopes' = <<Scope(1)'>>
  <2>1. \A k \in 1..1 : Scopes'[k] = <<Scope(1)'>>[k]
    BY <1>1, <1>2
  <2>2. Scopes' = [k \in 1..1 |-> Scopes'[k]]
    BY <1>1, <1>2
  <2>3. <<Scope(1)'>> = [k \in 1..1 |-> <<Scope(1)'>>[k]]
    OBVIOUS
  <2> QED BY <2>1, <2>2, <2>3, FunSame
<1>4. Entry' = <<>>
  <2>1. Entry' = [k \in {} |-> Entry'[k]]
    BY <1>1, <1>2
  <2> QED BY <2>1
<1>5. ASSUME NEW K \in Kinds, NEW i \in Nat
      PROVE  <<K, i>> \in Scope(1)' <=> Open(K, i)'
  <2>1. <<K, i>> \in Scope(1)' <=> Open(K, i)' /\ Lo(K, 1)' < i /\ i <= Hi(K, 1)'
    BY <1>1, <1>2, Zenon DEF Members
  <2>2. Lo(K, 1)' = 0 /\ Hi(K, 0 + 1)' = Size(K)'
    <3>1. 0 \in Nat /\ 0 = Len(calls')
      BY <1>2
    <3> QED BY <1>1, <3>1, EndsAfter
  <2>3. Open(K, i)' => 0 < i /\ i <= Size(K)'
    BY <1>1 DEF Bounds
  <2> QED BY <2>1, <2>2, <2>3
<1>6. Tagged(Scope(1)')
  BY <1>1, <1>2 DEF Members
<1> QED BY <1>3, <1>4, <1>5, <1>6

\* The application ends: no call is left, and every process of proc is about
\* to be closed.
LEMMA FinishStep ==
  ASSUME IInv, IInv', Finish
  PROVE  Promise!Next
<1>1. calls' = <<>> /\ fds' = fds /\ children' = children /\ ps' = ps /\ pc = "run"
      /\ todo' = [next |-> 1, last |-> Len(ps)]
  BY DEF Finish, RaisesError, linuxvars, spawn_raises, spawn_error, fork_raises, proc_cleanup, close_range
<1>2. mode' \in Mode
  BY DEF IInv, Ctl, CtlType, TermType
<1>3. Bounds /\ Bounds' /\ Members /\ Members'
  BY After, BoundsHold, MembersHold DEF IInv, Res
<1>4. \A i \in Nat : ~Open("proc", i)'
  <2>1. DOMAIN ps = 1..Len(ps) /\ todo'.next = 1 /\ todo'.last = Len(ps)
    BY <1>1, ListsHold DEF Lists
  <2>2. \A i \in DOMAIN ps' : ~InUse(i)'
    BY <1>1, <2>1 DEF InUse
  <2> QED BY <2>2, KindFactsAfter
<1>5. \A K \in Kinds, i \in Nat : Open(K, i)' => Open(K, i)
  <2>1. Kept("fd") /\ Kept("child")
    BY <1>1, KeptKinds
  <2> QED BY <1>4, <2>1, KindFacts DEF Kept
<1>6. \A K \in Kinds : Size(K)' = Size(K)
  <2>1. Size("fd")' = Size("fd") /\ Size("child")' = Size("child") /\ Size("proc")' = Size("proc")
    BY <1>1, KindFacts, KindFactsAfter
  <2> QED BY <2>1, KindFacts
<1> DEFINE given == LiveHandles \cap Spent'
<1>7. ASSUME NEW K \in Kinds, NEW i \in Nat
      PROVE  /\ <<K, i>> \in LiveHandles <=> Open(K, i)
             /\ <<K, i>> \in Spent' <=> i \in 1..Size(K) /\ ~Open(K, i)'
             /\ <<K, i>> \in Spent <=> i \in 1..Size(K) /\ ~Open(K, i)
             /\ Open(K, i) => i \in 1..Size(K)
  <2>1. <<K, i>> \in Spent' <=> i \in 1..Size(K)' /\ ~Open(K, i)'
    BY <1>3, Zenon DEF Members
  <2>2. <<K, i>> \in Spent <=> i \in 1..Size(K) /\ ~Open(K, i)
    BY <1>3, Zenon DEF Members
  <2>3. Open(K, i) => i \in 1..Size(K)
    BY <1>3, Zenon DEF Bounds
  <2>4. <<K, i>> \in LiveHandles <=> Open(K, i)
    BY LiveFacts, Zenon
  <2> QED BY <1>6, <2>1, <2>2, <2>3, <2>4
<1>8. /\ Tagged(LiveHandles) /\ Tagged(LiveHandles \ given)
      /\ Tagged(Spent') /\ Tagged(Spent \cup given)
  BY <1>3, LiveFacts DEF Members, Tagged
<1>9. Scope(1)' = LiveHandles \ given
  <2>1. \A K \in Kinds, i \in Nat : <<K, i>> \in Scope(1)' <=> <<K, i>> \in LiveHandles \ given
    <3>1. \A K \in Kinds, i \in Nat : <<K, i>> \in Scope(1)' <=> Open(K, i)'
      BY <1>1, Bottom
    <3> QED BY <1>5, <1>7, <3>1, Zenon
  <2>2. Tagged(Scope(1)')
    BY <1>1, Bottom
  <2> HIDE DEF given
  <2> QED BY <1>8, <2>1, <2>2, SameHandles
<1>10. Spent' = Spent \cup given
  <2>1. \A K \in Kinds, i \in Nat : <<K, i>> \in Spent' <=> <<K, i>> \in Spent \cup given
    BY <1>5, <1>7, Zenon
  <2> HIDE DEF given
  <2> QED BY <1>8, <2>1, SameHandles
<1>11. Scopes' = <<LiveHandles \ given>> /\ Entry' = <<>>
  BY <1>1, <1>9, Bottom
<1>12. given \in SUBSET LiveHandles
  OBVIOUS
<1> HIDE DEF given
<1> QED BY <1>2, <1>10, <1>11, <1>12, PromiseAbandon

\* The processes are closed; cleanup goes on to the handles.
LEMMA ClosedStep ==
  ASSUME IInv, IInv', Closed
  PROVE  Promise!Next \/ Still
<1>1. /\ ps' = ps /\ calls' = calls /\ mode' = mode
      /\ todo.next > todo.last /\ todo' = nothing_to_do
  BY DEF Closed, closed_all, termvars
<1>2. /\ DOMAIN ps = 1..Len(ps) /\ Len(ps) \in Nat
      /\ DOMAIN fds \subseteq Nat /\ DOMAIN children \subseteq Nat
      /\ \A i \in DOMAIN fds : i > 0
      /\ \A i \in DOMAIN children : i > 0
      /\ todo \in [next : Nat, last : Nat]
  BY ListsHold DEF Lists, IInv, Ctl, CtlType
<1>3. /\ \A i : i \notin todo.next..todo.last
      /\ \A i : i \notin todo'.next..todo'.last
  BY <1>1, <1>2 DEF nothing_to_do
<1>4. Kept("proc")
  <2>1. \A i \in Nat : InUse(i)' <=> InUse(i)
    BY <1>1, <1>3, Zenon DEF InUse
  <2> QED BY <1>1, <2>1, KeptKinds, Zenon
<1>5. CASE pc # "cleanup"
  <2>1. fds' = fds /\ children' = children
    BY <1>5 DEF Closed, linuxvars
  <2> QED BY <1>1, <1>4, <2>1, KeptKinds, KeptStep
<1>6. CASE pc = "cleanup"
  <2>1. linux_rollback(0, 0) /\ calls = <<>> /\ calls' = <<>>
    BY <1>1, <1>6 DEF Closed, linux_cleanup, IInv, Ctl, Closing
  <2>2. /\ DOMAIN fds' = DOMAIN fds /\ DOMAIN children' = DOMAIN children
        /\ Len(fds') = Len(fds) /\ Len(children') = Len(children)
        /\ \A i \in DOMAIN fds : fds'[i].closed = (i > 0 \/ fds[i].closed)
        /\ \A i \in DOMAIN children : children'[i].waited = (i > 0 \/ children[i].waited)
    BY <1>1, <2>1, RollbackRes DEF IInv
  <2>3. Bounds /\ Members /\ Members'
    BY After, BoundsHold, MembersHold DEF IInv, Res
  <2>4. \A i \in Nat : ~Open("fd", i)' /\ ~Open("child", i)'
    BY <1>2, <2>2, KindFactsAfter
  <2>5. \A i \in Nat : ~Open("proc", i)'
    <3>1. /\ todo.last = Len(ps)
          /\ \A j \in DOMAIN ps : j < todo.next => ps[j].gone \/ ps[j].stdin = 0
      BY <1>6 DEF IInv, Ctl, Closing, Stopped
    <3>2. \A j \in DOMAIN ps : j < todo.next
      BY <1>1, <1>2, <3>1
    <3>3. \A j \in DOMAIN ps : ~InUse(j)
      BY <3>1, <3>2 DEF InUse
    <3>4. \A i \in Nat : ~Open("proc", i)
      BY <3>3, KindFacts
    <3> QED BY <1>4, <3>4 DEF Kept
  <2>6. /\ \A K \in Kinds, i \in Nat : ~Open(K, i)'
        /\ \A K \in Kinds : Size(K)' = Size(K)
    <3>1. Size("fd")' = Size("fd") /\ Size("child")' = Size("child") /\ Size("proc")' = Size("proc")
      BY <1>1, <2>2, KindFacts, KindFactsAfter
    <3> QED BY <2>4, <2>5, <3>1, KindFacts
  <2>7. Scope(1)' = {}
    <3>1. Tagged({})
      BY DEF Tagged
    <3> QED BY <2>1, <2>6, <3>1, Bottom, SameHandles
  <2>8. Scopes' = <<{}>> /\ Entry' = <<>> /\ Entry = <<>>
    <3>1. Entry' = Entry
      BY <1>1, Zenon DEF Entry
    <3> QED BY <2>1, <2>7, <3>1, Bottom
  <2>9. Spent' = Spent \cup LiveHandles
    <3>1. Tagged(Spent \cup LiveHandles)
      BY <2>3, LiveFacts DEF Members, Tagged
    <3>2. ASSUME NEW K \in Kinds, NEW i \in Nat
          PROVE  i \in 1..Size(K)' /\ ~Open(K, i)' <=> <<K, i>> \in Spent \cup LiveHandles
      <4>1. /\ <<K, i>> \in LiveHandles <=> Open(K, i)
            /\ <<K, i>> \in Spent <=> i \in 1..Size(K) /\ ~Open(K, i)
            /\ Open(K, i) => i \in 1..Size(K)
        BY <2>3, LiveFacts, Zenon DEF Members, Bounds
      <4>2. i \in 1..Size(K)' <=> i \in 1..Size(K)
        BY <2>6
      <4> QED BY <2>6, <4>1, <4>2, Zenon
    <3> QED BY <3>1, <3>2, SpentAfter
  <2> QED BY <1>1, <2>8, <2>9, PromiseEnd
<1> QED BY <1>5, <1>6

-----------------------------------------------------------------------------
\* The boundaries keep their promise: a trap contained by one takes exactly
\* the handles acquired inside it, of all three kinds, and gives the terminal
\* the mode of its entry, for every nesting and every history of outer calls.
THEOREM Contained == Spec => Contains
<1>1. Init => Promise!Init
  <2> SUFFICES ASSUME Init PROVE Promise!Init
    OBVIOUS
  <2>1. IInv /\ calls = <<>> /\ fds = <<>> /\ children = <<>> /\ ps = <<>> /\ mode \in Mode
    BY InitInv DEF Init, LinuxInit, ProcessInit, TermInit, Mode
  <2>2. Bounds /\ Members
    BY <2>1, BoundsHold, MembersHold DEF IInv, Res
  <2>3. Spent = {}
    BY <2>1 DEF Spent
  <2>4. Scope(1) = {}
    BY <2>1 DEF Scope
  <2>5. Scopes = <<{}>>
    <3>1. Len(calls) = 0
      BY <2>1
    <3>2. /\ Scopes = [k \in 1..1 |-> Scopes[k]]
          /\ \A k \in 1..1 : Scopes[k] = Scope(k)
      BY <2>1, <3>1, ScopesFacts
    <3>3. \A k \in 1..1 : Scopes[k] = <<{}>>[k]
      BY <2>4, <3>2
    <3>4. <<{}>> = [k \in 1..1 |-> <<{}>>[k]]
      OBVIOUS
    <3> QED BY <3>2, <3>3, <3>4, FunSame
  <2>6. Entry = <<>>
    BY <2>1 DEF Entry
  <2> QED BY <2>1, <2>3, <2>5, <2>6, PromiseInit
<1>2. IInv /\ IInv' /\ [Next]_vars => Promise!Next \/ Still
  <2> SUFFICES ASSUME IInv, IInv', [Next]_vars PROVE Promise!Next \/ Still
    OBVIOUS
  <2>1. CASE UNCHANGED vars
    <3>1. /\ fds' = fds /\ children' = children /\ ps' = ps /\ todo' = todo
          /\ calls' = calls /\ mode' = mode
      BY <2>1 DEF vars
    <3> QED BY <3>1, KeptKinds, KeptStep
  <2>2. CASE Next
    BY <2>2, LinuxCallStep, ProcCallStep, ProcCloseStep, TermCallStep, CallStep, CallOkStep,
       CallTrapStep, FinishStep, CloseOneStep, ClosedStep, KernelStep, Zenon DEF Next
  <2> QED BY <2>1, <2>2
<1>3. Still => UNCHANGED <<[k \in 1..(Len(calls) + 1) |-> Scope(k)], Spent,
                           [k \in DOMAIN calls |-> IF calls[k].saved = "none" THEN "cooked" ELSE "raw"],
                           mode>>
  BY Zenon DEF Still, Scopes, Entry
<1> QED BY <1>1, <1>2, <1>3, AlwaysInv, PTL DEF Spec, Contains, Promise!Spec
=============================================================================
