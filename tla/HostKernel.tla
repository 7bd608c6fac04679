----------------------------- MODULE HostKernel -----------------------------
(***************************************************************************)
(* The operating system as the Python hosts use it: the descriptor table   *)
(* of the host process and the process numbers.  A descriptor number is    *)
(* used again as soon as it is free, the lowest first; a process number as *)
(* soon as its process is reaped, for another process of this program or   *)
(* for somebody else's.  table[n] says what was opened at n and whose[p]   *)
(* which process has number p, as <<kind, position in the host's list>>:   *)
(* two uses of one number are told apart by it.  Limitation: somebody      *)
(* else's process is one that the program may signal.                      *)
(***************************************************************************)
EXTENDS Naturals, Sequences

CONSTANTS MaxNum,      \* descriptors a process may hold beside the standard three
          MaxPid       \* process numbers

ASSUME KernelAssumption == MaxNum \in Nat /\ MaxPid \in Nat

VARIABLES table,       \* what each descriptor number refers to
          proc,        \* the state of each process number
          whose        \* the process that has it

Num == 1..MaxNum
Pid == 1..MaxPid
Free == <<"free", 0>>
Kind == {"fd", "pidfd", "stdin", "stdout", "launch"}
ProcState == {"free", "running", "zombie"}
Nobody == <<"nobody", 0>>
Stranger == <<"stranger", 0>>
Process == {"child", "popen"} \X Nat

KernelType == /\ table \in [Num -> {Free} \cup (Kind \X Nat)]
              /\ proc \in [Pid -> ProcState]
              /\ whose \in [Pid -> {Nobody, Stranger} \cup Process]

KernelInit == /\ table = [n \in Num |-> Free]
              /\ proc = [p \in Pid |-> "free"]
              /\ whose = [p \in Pid |-> Nobody]

\* What open, dup and pidfd_open return in a table t.
Lowest(n, t) == t[n] = Free /\ \A m \in Num : t[m] = Free => n <= m

\* The two numbers pipe2 returns.
LowestTwo(n, m) == Lowest(n, table) /\ Lowest(m, [table EXCEPT ![n] = <<"launch", 0>>])

NoTwoFree == \A n, m \in Num : table[n] = Free /\ table[m] = Free => n = m

\* close() of every number of S, whatever the number refers to.
CloseAll(S) == [n \in Num |-> IF n \in S THEN Free ELSE table[n]]

\* A process o starts, with any number that is free.
Starts(p, o) == /\ proc[p] = "free"
                /\ proc' = [proc EXCEPT ![p] = "running"]
                /\ whose' = [whose EXCEPT ![p] = o]

Running(p, o) == proc[p] = "running" /\ whose[p] = o
Ours(p) == whose[p] \in Process

\* The processes with a number of R are reaped, and those that have a number
\* of K get a deadly signal: one of ours waits to be reaped, a stranger goes.
Ended(R, K) ==
  LET gone == R \cup {p \in K : whose[p] = Stranger}
  IN  /\ proc' = [p \in Pid |-> CASE p \in gone -> "free"
                                  [] p \in K \ gone /\ proc[p] = "running" -> "zombie"
                                  [] OTHER -> proc[p]]
      /\ whose' = [p \in Pid |-> IF p \in gone THEN Nobody ELSE whose[p]]

-----------------------------------------------------------------------------
\* A process of ours ends by itself, or for a reason of its own; somebody
\* else's process takes a free number, or leaves it.
ProcessExits(p) == /\ proc[p] = "running"
                   /\ Ended({}, {p})
                   /\ UNCHANGED table

PidReused(p) == Starts(p, Stranger) /\ UNCHANGED table
=============================================================================
