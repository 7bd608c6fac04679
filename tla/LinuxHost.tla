----------------------------- MODULE LinuxHost ------------------------------
(***************************************************************************)
(* The Python host profile linux.*: descriptors and processes owned by L   *)
(* values (src/src/hosts/linux_host.py), and the job-control waits layered *)
(* over the same children (src/src/hosts/linux_job_host.py).  Handles are  *)
(* entries of two lists that only grow; an L value is an index into one.   *)
(* An operation that traps changes nothing here: the trap itself is an     *)
(* action of HostBoundary.  Operators that end in _raises are the calls an *)
(* OSError of Python escapes from after they have changed something.       *)
(* close() of an open number is taken to succeed.                          *)
(***************************************************************************)
EXTENDS HostKernel

VARIABLES fds,         \* LinuxHost.fds
          children     \* LinuxHost.children

LinuxFd == [num : Num, closed : BOOLEAN]
LinuxChild == [pid : Pid, pidfd : 0..MaxNum, pgid : Pid, waited : BOOLEAN]

LinuxInit == fds = <<>> /\ children = <<>>

\* _fd: the handle is open, else TrapSig.
fd_open(i) == i \in DOMAIN fds /\ ~fds[i].closed

\* _own_fd: n becomes the descriptor of a new handle.
own_fd(n) == /\ fds' = Append(fds, [num |-> n, closed |-> FALSE])
             /\ table' = [table EXCEPT ![n] = <<"fd", Len(fds) + 1>>]

\* _dup_std and _dup.
dup == /\ \E n \in Num : Lowest(n, table) /\ own_fd(n)
       /\ UNCHANGED <<proc, whose, children>>

\* _pipe.
pipe == /\ \E n, m \in Num :
             /\ LowestTwo(n, m)
             /\ fds' = fds \o <<[num |-> n, closed |-> FALSE], [num |-> m, closed |-> FALSE]>>
             /\ table' = [table EXCEPT ![n] = <<"fd", Len(fds) + 1>>,
                                       ![m] = <<"fd", Len(fds) + 2>>]
        /\ UNCHANGED <<proc, whose, children>>

\* _open_file: every failure, a full table too, is an errno in the OpenResult.
open_file == \/ dup
             \/ UNCHANGED <<table, proc, whose, fds, children>>

\* (mutant: a closed handle is not marked)
close_unmarked(i) == /\ i \in DOMAIN fds
                     /\ IF fds[i].closed THEN UNCHANGED table ELSE table' = CloseAll({fds[i].num})
                     /\ UNCHANGED <<fds, proc, whose, children>>

\* _close: of an alias of a closed handle it does nothing.
close(i) == /\ i \in DOMAIN fds
            /\ IF fds[i].closed THEN UNCHANGED <<table, fds>>
               ELSE /\ table' = CloseAll({fds[i].num})
                    /\ fds' = [fds EXCEPT ![i].closed = TRUE]
            /\ UNCHANGED <<proc, whose, children>>

-----------------------------------------------------------------------------
\* The group of the process that has number p: the children are put into one,
\* everybody else leads a group of its own (Popen starts a session).
GroupOf(p) == IF whose[p][1] = "child" THEN children[whose[p][2]].pgid ELSE p

Member(q, g) == proc[q] # "free" /\ GroupOf(q) = g

\* A number is not given away while the group it names has a member.
GroupEmpty(g) == \A q \in Pid : ~Member(q, g)

\* The groups setpgid can put a child into: (0) one of its own, or one that
\* still has a member of the same session.
requested(g) == g = 0 \/ \E q \in Pid : Member(q, g) /\ whose[q][1] = "child"

\* _spawn_exact_impl: the program runs.  The write end of the launch pipe is
\* closed before pidfd_open, which takes its number; the read end is closed
\* before the call returns.
spawn(p, g) ==
  /\ GroupEmpty(p) /\ requested(g)
  /\ Starts(p, <<"child", Len(children) + 1>>)
  /\ \E n, m \in Num :
       /\ LowestTwo(n, m)
       /\ table' = [table EXCEPT ![m] = <<"pidfd", Len(children) + 1>>]
       /\ children' = Append(children, [pid |-> p, pidfd |-> m, waited |-> FALSE,
                                        pgid |-> IF g = 0 THEN p ELSE g])
  /\ UNCHANGED fds

\* _spawn_exact_impl: the child reports an errno before exec and is reaped.
spawn_error(p) == /\ proc[p] = "free" /\ GroupEmpty(p) /\ ~NoTwoFree
                  /\ UNCHANGED <<table, proc, whose, fds, children>>

\* _spawn_exact_impl: pidfd_open fails; the child is killed and reaped, and
\* the error is raised again.
spawn_raises(p) == spawn_error(p)

\* _spawn_exact_impl: fork fails after pipe2, and neither end is ever closed.
fork_raises == /\ \E n, m \in Num :
                    /\ LowestTwo(n, m)
                    /\ table' = [table EXCEPT ![n] = <<"launch", 0>>, ![m] = <<"launch", 0>>]
               /\ UNCHANGED <<proc, whose, fds, children>>

\* The process of handle i still has its number.
has_process(i) == whose[children[i].pid] = <<"child", i>>

\* _send with a deadly signal: to its own process while there is a pidfd
\* (ESRCH, an errno, when that is reaped), then to whoever has the number.
send(i) == /\ i \in DOMAIN children
           /\ LET c == children[i] IN
                Ended({}, IF c.pidfd = 0 \/ has_process(i) THEN {c.pid} ELSE {})
           /\ UNCHANGED <<table, fds, children>>

\* _send_group with a deadly signal: killpg of the group's number.
send_group(g) == /\ \E i \in DOMAIN children : children[i].pgid = g
                 /\ Ended({}, {q \in Pid : Member(q, g)})
                 /\ UNCHANGED <<table, fds, children>>

\* The assignment of waited and the close of the pidfd in _wait_exit, and
\* _finish_terminal, for which both may have happened before.
finish_terminal(i) ==
  /\ table' = CloseAll({children[i].pidfd})
  /\ children' = [children EXCEPT ![i].waited = TRUE, ![i].pidfd = 0]
  /\ UNCHANGED fds

\* _wait_exit: waitid of the pidfd.  When its process was reaped by another
\* call this is ECHILD, which traps.
wait_exit(i) == /\ i \in DOMAIN children /\ ~children[i].waited
                /\ has_process(i) /\ proc[children[i].pid] = "zombie"
                /\ Ended({children[i].pid}, {})
                /\ finish_terminal(i)

\* _find_child: the first entry with the number waitid returned.
find_child(p, i) == /\ children[i].pid = p
                    /\ \A j \in 1..(i - 1) : children[j].pid # p

\* _waitid and _from_waitid when what waitid reports is the end of p.
from_waitid(p) == /\ proc[p] = "zombie"
                  /\ Ended({p}, {})
                  /\ \E i \in DOMAIN children : find_child(p, i) /\ finish_terminal(i)

\* _wait_child: waitid of the pidfd, as above.
wait_child(i) == /\ i \in DOMAIN children /\ ~children[i].waited
                 /\ has_process(i)
                 /\ from_waitid(children[i].pid)

\* _wait_group, and _poll_group when there is an event: the end of any process
\* in the group that is a child of the host, one of Popen too.
wait_group(g) == /\ \E j \in DOMAIN children : children[j].pgid = g
                 /\ \E q \in Pid : Member(q, g) /\ from_waitid(q)

-----------------------------------------------------------------------------
\* checkpoint.
linux_checkpoint == [fds |-> Len(fds), children |-> Len(children)]

\* The handles after a length.
fds_after(nfd) == {i \in DOMAIN fds : i > nfd}
children_after(nchild) == {i \in DOMAIN children : i > nchild}

\* The numbers that containing the handles after nfd and nchild closes.
contained_nums(nfd, nchild) ==
  {fds[i].num : i \in {i \in fds_after(nfd) : ~fds[i].closed}}
    \cup {children[i].pidfd : i \in {i \in children_after(nchild) : ~children[i].waited}}

\* _contain_fd.
contain_fd(fd) == [fd EXCEPT !.closed = TRUE]

\* (mutant: a contained child is not marked)
contain_child_unmarked(c) == IF c.waited THEN c ELSE [c EXCEPT !.pidfd = 0]

\* _contain_child: an entry already waited for is left alone.
contain_child(c) == IF c.waited THEN c ELSE [c EXCEPT !.pidfd = 0, !.waited = TRUE]

\* What _contain_child does to the processes: SIGKILL through the pidfd, then
\* waitid ...
contained_pids(nchild) ==
  {children[i].pid : i \in {i \in children_after(nchild) : ~children[i].waited /\ has_process(i)}}

\* (mutant: an entry already waited for is killed by its number too)
killed_pids_all(nchild) ==
  {children[i].pid : i \in {i \in children_after(nchild) : ~has_process(i)}}

\* ... and when its process is gone, os.kill of whoever has the number.
killed_pids(nchild) ==
  {children[i].pid : i \in {i \in children_after(nchild) : ~children[i].waited /\ ~has_process(i)}}

\* rollback: the handles after the two lengths of the checkpoint.
linux_rollback(nfd, nchild) ==
  /\ table' = CloseAll(contained_nums(nfd, nchild))
  /\ Ended(contained_pids(nchild), killed_pids(nchild))
  /\ fds' = [i \in DOMAIN fds |-> IF i > nfd THEN contain_fd(fds[i]) ELSE fds[i]]
  /\ children' = [i \in DOMAIN children |->
                    IF i > nchild THEN contain_child(children[i]) ELSE children[i]]

\* (mutant: only the descriptors)
linux_cleanup_fds == linux_rollback(0, Len(children))

\* cleanup: every handle.
linux_cleanup == linux_rollback(0, 0)
=============================================================================
