---------------------------- MODULE ProcessHost -----------------------------
(***************************************************************************)
(* The module proc of the direct host runner (ProcessHost of              *)
(* src/src/hosts/run.py) over subprocess.Popen.  Closing a process takes   *)
(* several waits with a limit; stage says which one is under way and todo  *)
(* which processes of the list are still to be closed.                     *)
(***************************************************************************)
EXTENDS HostKernel

VARIABLES ps,          \* ProcessHost.ps
          todo,        \* the entries cleanup, rollback or close are about to close
          stage        \* where close_one stands for the first of them

Popen == [pid : Pid, stdin : 0..MaxNum, stdout : Num, gone : BOOLEAN]
Stage == {"idle", "poll", "grace", "terminated"}

nothing_to_do == [next |-> 1, last |-> 0]

ProcessInit == ps = <<>> /\ todo = nothing_to_do /\ stage = "idle"

closing(j) == stage # "idle" /\ j = todo.next /\ j <= todo.last

\* spawn: of the descriptors Popen opens two stay, the ends of the pipes to
\* the standard input and from the standard output.
popen(p) == /\ Starts(p, <<"popen", Len(ps) + 1>>)
            /\ \E n, m \in Num :
                 /\ LowestTwo(n, m)
                 /\ table' = [table EXCEPT ![n] = <<"stdin", Len(ps) + 1>>,
                                           ![m] = <<"stdout", Len(ps) + 1>>]
                 /\ ps' = Append(ps, [pid |-> p, stdin |-> n, stdout |-> m, gone |-> FALSE])
            /\ UNCHANGED <<todo, stage>>

\* Popen knows its process by the number alone: while a child of the host has
\* it, waitpid finds that one.
alive_by_number(j) == ~ps[j].gone /\ Ours(ps[j].pid) /\ proc[ps[j].pid] = "running"

\* Popen.poll and Popen.wait when the process has ended: waitpid reaps the
\* child that has the number, and without one ECHILD sets returncode too.
reap(j) == /\ ~ps[j].gone /\ ~alive_by_number(j)
           /\ Ended(IF Ours(ps[j].pid) THEN {ps[j].pid} ELSE {}, {})
           /\ ps' = [ps EXCEPT ![j].gone = TRUE]

\* write, read, read_timeout, write_try and shell move bytes, or wait for a
\* process of their own: what is kept here stays as it is.
move_bytes == UNCHANGED <<table, proc, whose, ps, todo, stage>>

\* alive: poll.
alive(j) == j \in DOMAIN ps /\ reap(j) /\ UNCHANGED <<table, todo, stage>>

-----------------------------------------------------------------------------
\* The entries close_one is called for.
close_range(first, last) == todo' = [next |-> first, last |-> last] /\ stage' = "poll"

\* (mutant: the last process of the caller too)
proc_rollback_early(nprocs) == close_range(nprocs, Len(ps))

\* rollback: the processes after the length of the checkpoint; cleanup: all.
proc_rollback(nprocs) == close_range(nprocs + 1, Len(ps))
proc_cleanup == close_range(1, Len(ps))

close_next == todo' = [todo EXCEPT !.next = @ + 1] /\ stage' = "poll"

\* close_one: a process that has ended is only reaped; the others lose their
\* standard input and have two seconds.
close_one_poll(j) ==
  /\ stage = "poll" /\ closing(j)
  /\ \/ ps[j].gone /\ close_next /\ UNCHANGED <<table, proc, whose, ps>>
     \/ reap(j) /\ close_next /\ UNCHANGED table
     \/ /\ alive_by_number(j)
        /\ table' = CloseAll({ps[j].stdin})
        /\ ps' = [ps EXCEPT ![j].stdin = 0]
        /\ stage' = "grace"
        /\ UNCHANGED <<proc, whose, todo>>

\* terminate sends SIGTERM, which may end the process or not.
terminate(j) == Ended({}, {ps[j].pid}) \/ UNCHANGED <<proc, whose>>

\* kill sends SIGKILL.
kill(j) == Ended({}, {ps[j].pid})

\* (mutant: nothing follows terminate)
close_one_patient(j) ==
  /\ stage \in {"grace", "terminated"} /\ closing(j)
  /\ \/ reap(j) /\ close_next /\ UNCHANGED table
     \/ /\ alive_by_number(j)
        /\ \/ stage = "grace" /\ stage' = "terminated" /\ terminate(j) /\ UNCHANGED todo
           \/ stage = "terminated" /\ close_next /\ UNCHANGED <<proc, whose>>
        /\ UNCHANGED <<table, ps>>

\* close_one: the process ends in time, or wait raises TimeoutExpired and
\* terminate follows; after another second kill does, and nobody waits.
close_one_wait(j) ==
  /\ stage \in {"grace", "terminated"} /\ closing(j)
  /\ \/ reap(j) /\ close_next /\ UNCHANGED table
     \/ /\ alive_by_number(j)
        /\ \/ stage = "grace" /\ stage' = "terminated" /\ terminate(j) /\ UNCHANGED todo
           \/ stage = "terminated" /\ close_next /\ kill(j)
        /\ UNCHANGED <<table, ps>>

\* The loop over the entries is over.
closed_all == /\ stage = "poll" /\ todo.next > todo.last
              /\ todo' = nothing_to_do /\ stage' = "idle"
=============================================================================
