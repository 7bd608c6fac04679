---------------------------- MODULE HostBoundary ----------------------------
(***************************************************************************)
(* A Python application that runs L code over the hosts: directly, and in  *)
(* callbacks behind nested recoverable boundaries                          *)
(* (src/src/hosts/host_boundary.py).  L code is sequential; the processes  *)
(* it starts end on their own at any time.  A trap is possible at any      *)
(* point of a callback, so it is one action, whatever raised it.  Errors   *)
(* that are no trap go through every boundary to the application's own     *)
(* finally clause (cleanup of src/src/tools/_sdk_cli.py).                  *)
(***************************************************************************)
EXTENDS LinuxHost, ProcessHost, TermHost

CONSTANTS MaxCalls,    \* bound of the nesting of boundaries
          MaxHandles   \* bound of the handles ever made

ASSUME BoundaryAssumption == MaxCalls \in Nat /\ MaxHandles \in Nat

VARIABLES calls,       \* the snapshots of the boundaries under way, innermost last
          pc           \* "run", "closing", "cleanup" or "over"

linuxvars == <<table, proc, whose, fds, children>>
procvars == <<ps, todo, stage>>
vars == <<table, proc, whose, fds, children, ps, todo, stage, saved, ui_depth,
          mode, screen, calls, pc>>

Snapshot == [fds : Nat, children : Nat, procs : Nat,
             saved : {"none"} \cup Mode, ui_depth : 0..MaxUi]

Init == /\ KernelInit /\ LinuxInit /\ ProcessInit /\ TermInit
        /\ calls = <<>> /\ pc = "run"

Handles == Len(fds) + Len(children) + Len(ps)
Fits(n) == Handles + n <= MaxHandles

-----------------------------------------------------------------------------
\* The functions of linux.fd; read and write move bytes.
fd_module == \/ Fits(1) /\ dup
             \/ Fits(2) /\ pipe
             \/ Fits(1) /\ open_file
             \/ \E i \in DOMAIN fds : close(i)
             \/ UNCHANGED linuxvars

\* The functions of linux.process and of linux.process.wait.
process_module ==
  \/ Fits(1) /\ \E p \in Pid, g \in {0} \cup Pid : spawn(p, g)
  \/ \E p \in Pid : spawn_error(p)
  \/ \E i \in DOMAIN children : send(i) \/ wait_exit(i) \/ wait_child(i)
  \/ \E g \in Pid : send_group(g) \/ wait_group(g)

\* An L program calls one of them.
LinuxCall ==
  /\ pc = "run"
  /\ fd_module \/ process_module
  /\ UNCHANGED <<procvars, termvars, calls, pc>>

\* It calls a function of proc other than close ...
ProcCall == /\ pc = "run"
            /\ \/ Fits(1) /\ \E p \in Pid : GroupEmpty(p) /\ popen(p)
               \/ \E j \in DOMAIN ps : alive(j)
               \/ move_bytes
            /\ UNCHANGED <<fds, children, termvars, calls, pc>>

\* ... or proc.close, which returns to it when close_one has.
ProcClose == /\ pc = "run"
             /\ \E j \in DOMAIN ps : close_range(j, j)
             /\ pc' = "closing"
             /\ UNCHANGED <<linuxvars, ps, termvars, calls>>

\* It calls term.
TermCall == /\ pc = "run"
            /\ enter \/ leave \/ enter_ui \/ leave_ui \/ use_term
            /\ UNCHANGED <<linuxvars, procvars, calls, pc>>

-----------------------------------------------------------------------------
\* _snapshot.
snapshot == [fds |-> linux_checkpoint.fds, children |-> linux_checkpoint.children,
             procs |-> Len(ps), saved |-> term_checkpoint.saved,
             ui_depth |-> term_checkpoint.ui_depth]

\* HostBoundary.call, from its entry to the call of fn ...
Call == /\ pc = "run" /\ Len(calls) < MaxCalls
        /\ calls' = Append(calls, snapshot)
        /\ UNCHANGED <<linuxvars, procvars, termvars, pc>>

\* ... its normal return ...
CallOk == /\ pc = "run" /\ calls # <<>>
          /\ calls' = SubSeq(calls, 1, Len(calls) - 1)
          /\ UNCHANGED <<linuxvars, procvars, termvars, pc>>

\* ... and its handler of TrapSig, LangError and RecursionError: _rollback in
\* the order Linux handles, terminal, processes.
CallTrap == /\ pc = "run" /\ calls # <<>>
            /\ LET c == calls[Len(calls)] IN
                 /\ linux_rollback(c.fds, c.children)
                 /\ term_rollback(c)
                 /\ proc_rollback(c.procs)
            /\ calls' = SubSeq(calls, 1, Len(calls) - 1)
            /\ pc' = "closing"
            /\ UNCHANGED ps

\* OSError and ValueError are no traps: a full descriptor table (dup, pipe,
\* Popen), a program Popen does not find, a write to a process that has ended
\* or was closed; a spawn may have done a part of its work.
RaisesError == \/ UNCHANGED linuxvars
               \/ \E p \in Pid : spawn_raises(p)
               \/ fork_raises

\* cleanup, in the finally clause of the application, after main has
\* returned, after a trap no boundary contains, or after such an error in
\* any call: leave, then close_one of every process.
Finish == /\ pc = "run"
          /\ RaisesError
          /\ leave
          /\ proc_cleanup
          /\ calls' = <<>>
          /\ pc' = "cleanup"
          /\ UNCHANGED ps

CloseOne == /\ \E j \in DOMAIN ps : close_one_poll(j) \/ close_one_wait(j)
            /\ UNCHANGED <<fds, children, termvars, calls, pc>>

\* The processes are closed: back to the caller, or on to lh.cleanup().
Closed == /\ closed_all
          /\ IF pc = "cleanup"
             THEN linux_cleanup /\ pc' = "over"
             ELSE UNCHANGED linuxvars /\ pc' = "run"
          /\ UNCHANGED <<ps, termvars, calls>>

-----------------------------------------------------------------------------
\* What the processes do on their own.
Kernel == /\ \E p \in Pid : ProcessExits(p) \/ (GroupEmpty(p) /\ PidReused(p))
          /\ UNCHANGED <<fds, children, procvars, termvars, calls, pc>>

Next == \/ LinuxCall \/ ProcCall \/ ProcClose \/ TermCall
        \/ Call \/ CallOk \/ CallTrap \/ Finish \/ CloseOne \/ Closed \/ Kernel

\* Python goes on with what it has begun to close: each wait has a limit.
Spec == Init /\ [][Next]_vars /\ WF_vars(CloseOne \/ Closed)

-----------------------------------------------------------------------------
TypeOK == /\ KernelType /\ TermType
          /\ fds \in Seq(LinuxFd) /\ children \in Seq(LinuxChild) /\ ps \in Seq(Popen)
          /\ calls \in Seq(Snapshot)
          /\ todo \in [next : Nat, last : Nat] /\ stage \in Stage
          /\ pc \in {"run", "closing", "cleanup", "over"}

\* A descriptor number belongs to one live handle, and nobody's is left open:
\* an open handle, the pidfd of a child not waited for and the pipes of a
\* Popen refer to what was opened for them, though numbers are reused; and
\* the only other open numbers are the launch pipe of a fork that failed.
HandlesOwnTheirNumber ==
  /\ \A i \in DOMAIN fds : ~fds[i].closed => table[fds[i].num] = <<"fd", i>>
  /\ \A i \in DOMAIN children : ~children[i].waited =>
       children[i].pidfd \in Num /\ table[children[i].pidfd] = <<"pidfd", i>>
  /\ \A j \in DOMAIN ps : /\ table[ps[j].stdout] = <<"stdout", j>>
                          /\ ps[j].stdin # 0 => table[ps[j].stdin] = <<"stdin", j>>

NumbersOwned ==
  \A n \in Num : \/ table[n] \in {Free, <<"launch", 0>>}
                 \/ \E i \in DOMAIN fds : ~fds[i].closed /\ fds[i].num = n
                 \/ \E i \in DOMAIN children : ~children[i].waited /\ children[i].pidfd = n
                 \/ \E j \in DOMAIN ps : n \in {ps[j].stdin, ps[j].stdout}

DescriptorsOwned == HandlesOwnTheirNumber /\ NumbersOwned

\* A handle knows what became of its process: when waited or returncode is
\* set the process has been reaped, by whichever of wait_exit, a group wait, a
\* rollback, poll or close_one came first; and when it is reaped the handle
\* says so.  This fails in one case only: its number had been used before by
\* an older child of linux.process (for a child: one that comes before it in
\* the list), whose entry _find_child takes for it.
MissedChild(i) == ~children[i].waited /\ ~has_process(i)
MissedPopen(j) == ~ps[j].gone /\ whose[ps[j].pid] # <<"popen", j>>

HandlesTellTruth ==
  /\ \A i \in DOMAIN children :
       /\ children[i].waited => ~has_process(i)
       /\ MissedChild(i) => \E k \in 1..(i - 1) : children[k].pid = children[i].pid
  /\ \A j \in DOMAIN ps :
       /\ ps[j].gone => whose[ps[j].pid] # <<"popen", j>>
       /\ MissedPopen(j) => \E k \in DOMAIN children : children[k].pid = ps[j].pid

\* The terminal is raw exactly while a mode is saved, and the saved mode is
\* the one the user had, however enter, leave and the rollbacks of nested
\* boundaries follow each other; with no interface entered the main screen
\* is shown.
TerminalOurs == /\ saved # "none" => saved = "cooked" /\ mode = "raw"
                /\ saved = "none" => mode = "cooked"
                /\ ui_depth = 0 => screen = "main"

\* When the application has cleaned up, no handle is open, every process of
\* linux.process is reaped, none of proc runs and the terminal has the user's
\* mode.
NothingLeft ==
  pc = "over" => /\ \A i \in DOMAIN fds : fds[i].closed
                 /\ \A i \in DOMAIN children : children[i].waited /\ ~has_process(i)
                 /\ \A j \in DOMAIN ps : ~Running(ps[j].pid, <<"popen", j>>)
                 /\ mode = "cooked"

\* Containing and cleaning up touch nobody but the processes they are for:
\* a trap those of the children its boundary has to contain, close_one that
\* of its Popen, the end those of all children.  The exceptions are the
\* numbers of the handles that missed the end of their process
\* (HandlesTellTruth), which may be anybody's by now.
Missed(p) == \/ \E i \in DOMAIN children : MissedChild(i) /\ children[i].pid = p
             \/ \E j \in DOMAIN ps : MissedPopen(j) /\ ps[j].pid = p

Untouched(p) == proc'[p] = proc[p] /\ whose'[p] = whose[p]

Inside(p) == whose[p][1] = "child" /\ whose[p][2] > calls[Len(calls)].children

SparesOthers ==
  [][\A p \in Pid : ~Missed(p) =>
       /\ CallTrap /\ ~Inside(p) => Untouched(p)
       /\ CloseOne /\ whose[p] # <<"popen", todo.next>> => Untouched(p)
       /\ Closed /\ whose[p][1] # "child" => Untouched(p)]_vars

\* A process that close, a rollback or cleanup has begun to close stops
\* running, even if it ignores the end of its input and SIGTERM.
ClosedStops ==
  \A j \in 1..MaxHandles :
    closing(j) ~> (j \in DOMAIN ps /\ ~Running(ps[j].pid, <<"popen", j>>))

-----------------------------------------------------------------------------
(***************************************************************************)
(* The boundaries keep the promise of Containment.  A handle belongs to    *)
(* the call whose snapshot is the last one not to count it; the boundary   *)
(* itself stores nothing but lengths and the saved mode.                   *)
(***************************************************************************)
Handle == {"fd", "child", "proc"} \X (1..MaxHandles)

\* The processes of proc that are neither closed, nor about to be, nor known
\* to have ended.
InUse(j) == ~ps[j].gone /\ ps[j].stdin # 0 /\ j \notin todo.next..todo.last

From(k) == IF k = 1 THEN [fds |-> 0, children |-> 0, procs |-> 0] ELSE calls[k - 1]
To(k) == IF k > Len(calls) THEN snapshot ELSE calls[k]
Between(lo, i, hi) == lo < i /\ i <= hi

Scope(k) ==
  {<<"fd", i>> : i \in {i \in DOMAIN fds : ~fds[i].closed /\ Between(From(k).fds, i, To(k).fds)}}
    \cup {<<"child", i>> : i \in {i \in DOMAIN children :
             ~children[i].waited /\ Between(From(k).children, i, To(k).children)}}
    \cup {<<"proc", j>> : j \in {j \in DOMAIN ps :
             InUse(j) /\ Between(From(k).procs, j, To(k).procs)}}

Spent == {<<"fd", i>> : i \in {i \in DOMAIN fds : fds[i].closed}}
           \cup {<<"child", i>> : i \in {i \in DOMAIN children : children[i].waited}}
           \cup {<<"proc", j>> : j \in {j \in DOMAIN ps : ~InUse(j)}}

Promise == INSTANCE Containment WITH
  scopes <- [k \in 1..(Len(calls) + 1) |-> Scope(k)],
  spent <- Spent,
  entry <- [k \in DOMAIN calls |-> IF calls[k].saved = "none" THEN "cooked" ELSE "raw"],
  tty <- mode

\* A trap contained by a boundary takes exactly the handles acquired inside
\* it and gives the terminal its mode back; the handles of outer calls and
\* of calls that returned stay with the caller.
Contains == Promise!Spec
=============================================================================
