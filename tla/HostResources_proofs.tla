------------------------ MODULE HostResources_proofs ------------------------
(***************************************************************************)
(* What the handles, the descriptor table and the processes of the hosts   *)
(* have to do with each other, for every bound: Res, and one lemma for     *)
(* each operation of LinuxHost and ProcessHost, which preserves it.        *)
(***************************************************************************)
EXTENDS HostBoundary, SequenceTheorems, TLAPS

\* A number is taken exactly while somebody has it.  A process has the number
\* of its handle, and of several children with one number over the time the
\* newest has it.
Owners ==
  /\ \A p \in Pid : proc[p] = "free" <=> whose[p] = Nobody
  /\ \A p \in Pid : whose[p] = Stranger => proc[p] = "running"
  /\ \A p \in Pid, i \in Nat : whose[p] = <<"child", i>> =>
       /\ i \in DOMAIN children /\ children[i].pid = p
       /\ \A k \in DOMAIN children : children[k].pid = p => k <= i
  /\ \A p \in Pid, j \in Nat : whose[p] = <<"popen", j>> => j \in DOMAIN ps /\ ps[j].pid = p

\* HandlesTellTruth, and the child whose entry was taken for that of a Popen
\* is not the one that has its number now.
Truth ==
  /\ \A i \in DOMAIN children :
       /\ children[i].waited => ~has_process(i)
       /\ MissedChild(i) => \E k \in 1..(i - 1) : children[k].pid = children[i].pid
  /\ \A j \in DOMAIN ps :
       /\ ps[j].gone => whose[ps[j].pid] # <<"popen", j>>
       /\ MissedPopen(j) => \E k \in DOMAIN children : /\ children[k].pid = ps[j].pid
                                                       /\ whose[ps[j].pid] # <<"child", k>>

\* A child that is waited for has no pidfd.
NoPidfd == \A i \in DOMAIN children : children[i].waited => children[i].pidfd = 0

ResType == /\ KernelType
           /\ fds \in Seq(LinuxFd) /\ children \in Seq(LinuxChild) /\ ps \in Seq(Popen)

Res == ResType /\ Owners /\ Truth /\ NoPidfd /\ HandlesOwnTheirNumber /\ NumbersOwned

resvars == <<table, proc, whose, fds, children, ps>>

-----------------------------------------------------------------------------
LEMMA MaxNumNat == MaxNum \in Nat /\ MaxPid \in Nat
  BY KernelAssumption

\* What Append, an update of one element and one of all do to a sequence.
LEMMA AppendFacts ==
  ASSUME NEW S, NEW s \in Seq(S), NEW e \in S
  PROVE  /\ Append(s, e) \in Seq(S)
         /\ Len(s) \in Nat
         /\ DOMAIN s = 1..Len(s)
         /\ Len(Append(s, e)) = Len(s) + 1
         /\ DOMAIN Append(s, e) = 1..(Len(s) + 1)
         /\ \A i \in 1..Len(s) : Append(s, e)[i] = s[i] /\ s[i] \in S
         /\ Append(s, e)[Len(s) + 1] = e
  BY SMTT(60)

LEMMA UpdateFacts ==
  ASSUME NEW S, NEW s \in Seq(S), NEW i \in DOMAIN s, NEW e \in S
  PROVE  /\ [s EXCEPT ![i] = e] \in Seq(S)
         /\ DOMAIN [s EXCEPT ![i] = e] = DOMAIN s
         /\ Len([s EXCEPT ![i] = e]) = Len(s)
  BY SMTT(60)

\* The fields of the handles.
LEMMA Elements ==
  ASSUME ResType
  PROVE  /\ DOMAIN fds = 1..Len(fds) /\ Len(fds) \in Nat
         /\ DOMAIN children = 1..Len(children) /\ Len(children) \in Nat
         /\ DOMAIN ps = 1..Len(ps) /\ Len(ps) \in Nat
         /\ \A i \in DOMAIN fds : fds[i] \in LinuxFd
         /\ \A i \in DOMAIN children : children[i] \in LinuxChild
         /\ \A j \in DOMAIN ps : ps[j] \in Popen
         /\ \A i \in DOMAIN fds : fds[i].num \in Num /\ fds[i].closed \in BOOLEAN
         /\ \A i \in DOMAIN children : /\ children[i].pid \in Pid
                                       /\ children[i].pidfd \in 0..MaxNum
                                       /\ children[i].pgid \in Pid
                                       /\ children[i].waited \in BOOLEAN
         /\ \A j \in DOMAIN ps : /\ ps[j].pid \in Pid
                                 /\ ps[j].stdin \in 0..MaxNum
                                 /\ ps[j].stdout \in Num
                                 /\ ps[j].gone \in BOOLEAN
<1>1. /\ DOMAIN fds = 1..Len(fds) /\ Len(fds) \in Nat
      /\ DOMAIN children = 1..Len(children) /\ Len(children) \in Nat
      /\ DOMAIN ps = 1..Len(ps) /\ Len(ps) \in Nat
  BY SMTT(60) DEF ResType
<1>2. /\ \A i \in DOMAIN fds : fds[i] \in LinuxFd
      /\ \A i \in DOMAIN children : children[i] \in LinuxChild
      /\ \A j \in DOMAIN ps : ps[j] \in Popen
  BY <1>1, SMTT(60) DEF ResType
<1> QED BY <1>1, <1>2, SMTT(60) DEF LinuxFd, LinuxChild, Popen

\* What is opened at two numbers is told apart.
LEMMA Tags ==
  ASSUME NEW i, NEW k
  PROVE  /\ <<"fd", i>> # Free /\ <<"pidfd", i>> # Free /\ <<"stdin", i>> # Free
         /\ <<"stdout", i>> # Free /\ <<"launch", 0>> # Free
         /\ <<"fd", i>> # <<"pidfd", k>> /\ <<"fd", i>> # <<"stdin", k>>
         /\ <<"fd", i>> # <<"stdout", k>> /\ <<"pidfd", i>> # <<"stdin", k>>
         /\ <<"pidfd", i>> # <<"stdout", k>> /\ <<"stdin", i>> # <<"stdout", k>>
         /\ <<"fd", i>> = <<"fd", k>> => i = k
         /\ <<"pidfd", i>> = <<"pidfd", k>> => i = k
         /\ <<"stdin", i>> = <<"stdin", k>> => i = k
         /\ <<"stdout", i>> = <<"stdout", k>> => i = k
  BY SMTT(60) DEF Free

\* One number, or two, entered into a table.
LEMMA Entered ==
  ASSUME NEW T, NEW t \in [Num -> T], NEW n \in Num, NEW x \in T, t[n] = Free
  PROVE  LET u == [t EXCEPT ![n] = x] IN
           /\ u \in [Num -> T] /\ u[n] = x
           /\ \A k \in Num : k # n => u[k] = t[k]
           /\ \A k \in Num : t[k] # Free => u[k] = t[k]
  BY Zenon

LEMMA EnteredTwo ==
  ASSUME NEW T, NEW t \in [Num -> T], NEW n \in Num, NEW m \in Num, n # m,
         NEW x \in T, NEW y \in T, t[n] = Free, t[m] = Free
  PROVE  LET u == [t EXCEPT ![n] = x, ![m] = y] IN
           /\ u \in [Num -> T] /\ u[n] = x /\ u[m] = y
           /\ \A k \in Num : k # n /\ k # m => u[k] = t[k]
           /\ \A k \in Num : t[k] # Free => u[k] = t[k]
  BY SMT

\* The numbers the live handles own.
LEMMA OwnFacts ==
  ASSUME Res
  PROVE  /\ \A i \in DOMAIN fds : ~fds[i].closed =>
              fds[i].num \in Num /\ table[fds[i].num] = <<"fd", i>>
         /\ \A i \in DOMAIN children : ~children[i].waited =>
              children[i].pidfd \in Num /\ table[children[i].pidfd] = <<"pidfd", i>>
         /\ \A j \in DOMAIN ps : ps[j].stdout \in Num /\ table[ps[j].stdout] = <<"stdout", j>>
         /\ \A j \in DOMAIN ps : ps[j].stdin # 0 =>
              ps[j].stdin \in Num /\ table[ps[j].stdin] = <<"stdin", j>>
<1>1. ResType /\ HandlesOwnTheirNumber
  BY DEF Res
<1>2. \A i \in DOMAIN fds : fds[i].num \in Num
  BY <1>1, Elements
<1>3. \A j \in DOMAIN ps : ps[j].stdout \in Num /\ (ps[j].stdin # 0 => ps[j].stdin \in Num)
  BY <1>1, Elements, MaxNumNat, SMTT(60) DEF Num
<1> QED BY <1>1, <1>2, <1>3, Zenon DEF HandlesOwnTheirNumber

LEMMA OwnedUsed ==
  ASSUME Res
  PROVE  /\ \A i \in DOMAIN fds : ~fds[i].closed => table[fds[i].num] # Free
         /\ \A i \in DOMAIN children : ~children[i].waited => table[children[i].pidfd] # Free
         /\ \A j \in DOMAIN ps : table[ps[j].stdout] # Free
         /\ \A j \in DOMAIN ps : ps[j].stdin # 0 => table[ps[j].stdin] # Free
<1>1. \A i : /\ <<"fd", i>> # Free /\ <<"pidfd", i>> # Free
             /\ <<"stdin", i>> # Free /\ <<"stdout", i>> # Free
  BY Tags, Zenon
<1> QED BY <1>1, OwnFacts, Zenon

\* A table that keeps the numbers in use keeps every handle's.
LEMMA UsedKeep ==
  ASSUME Res, \A k \in Num : table[k] # Free => table'[k] = table[k]
  PROVE  /\ \A i \in DOMAIN fds : ~fds[i].closed => table'[fds[i].num] = <<"fd", i>>
         /\ \A i \in DOMAIN children : ~children[i].waited =>
              children[i].pidfd \in Num /\ table'[children[i].pidfd] = <<"pidfd", i>>
         /\ \A j \in DOMAIN ps : /\ table'[ps[j].stdout] = <<"stdout", j>>
                                 /\ ps[j].stdin # 0 => table'[ps[j].stdin] = <<"stdin", j>>
  BY OwnFacts, OwnedUsed, Zenon

\* Handles that stay as they are and whose numbers are not touched go on
\* owning them.
LEMMA ChildrenKeep ==
  ASSUME Res, UNCHANGED children,
         \A i \in DOMAIN children : ~children[i].waited =>
           table'[children[i].pidfd] = table[children[i].pidfd]
  PROVE  \A i \in DOMAIN children' : ~children'[i].waited =>
           children'[i].pidfd \in Num /\ table'[children'[i].pidfd] = <<"pidfd", i>>
  BY OwnFacts, SMTT(60)

LEMMA PsKeep ==
  ASSUME Res, UNCHANGED ps,
         \A j \in DOMAIN ps : /\ table'[ps[j].stdout] = table[ps[j].stdout]
                              /\ ps[j].stdin # 0 => table'[ps[j].stdin] = table[ps[j].stdin]
  PROVE  \A j \in DOMAIN ps' : /\ table'[ps'[j].stdout] = <<"stdout", j>>
                               /\ ps'[j].stdin # 0 => table'[ps'[j].stdin] = <<"stdin", j>>
  BY OwnFacts, SMTT(60)

LEMMA FdsKeep ==
  ASSUME Res, UNCHANGED fds,
         \A i \in DOMAIN fds : ~fds[i].closed => table'[fds[i].num] = table[fds[i].num]
  PROVE  \A i \in DOMAIN fds' : ~fds'[i].closed => table'[fds'[i].num] = <<"fd", i>>
  BY OwnFacts, SMTT(60)

-----------------------------------------------------------------------------
(* The processes.                                                          *)

LEMMA WhoseTags ==
  ASSUME NEW i, NEW k
  PROVE  /\ <<"child", i>> # Nobody /\ <<"popen", i>> # Nobody
         /\ <<"child", i>> # Stranger /\ <<"popen", i>> # Stranger
         /\ Nobody # Stranger /\ <<"child", i>> # <<"popen", k>>
         /\ <<"child", i>> = <<"child", k>> => i = k
         /\ <<"popen", i>> = <<"popen", k>> => i = k
  BY SMTT(60) DEF Nobody, Stranger

\* Handles whose processes stay as they are go on telling the truth.
LEMMA SameProcesses ==
  ASSUME Res, UNCHANGED <<proc, whose>>,
         DOMAIN children' = DOMAIN children, DOMAIN ps' = DOMAIN ps,
         \A i \in DOMAIN children : /\ children'[i].pid = children[i].pid
                                    /\ children'[i].waited = children[i].waited,
         \A j \in DOMAIN ps : ps'[j].pid = ps[j].pid /\ ps'[j].gone = ps[j].gone
  PROVE  Owners' /\ Truth'
<1>0. /\ proc' = proc /\ whose' = whose
      /\ DOMAIN children = 1..Len(children) /\ Len(children) \in Nat
  BY Elements DEF Res
<1>1. Owners'
  BY <1>0, SMTT(60) DEF Res, Owners
<1>2. Truth'
  <2>1. ASSUME NEW i \in DOMAIN children'
        PROVE  /\ children'[i].waited => ~has_process(i)'
               /\ MissedChild(i)' => \E k \in 1..(i - 1) : children'[k].pid = children'[i].pid
    <3>1. /\ children[i].waited => ~has_process(i)
          /\ MissedChild(i) => \E k \in 1..(i - 1) : children[k].pid = children[i].pid
      BY <2>1 DEF Res, Truth
    <3>2. \A k \in 1..(i - 1) : k \in DOMAIN children
      BY <1>0, <2>1, SMTT(60)
    <3>3. children'[i].pid = children[i].pid /\ children'[i].waited = children[i].waited
      BY <2>1
    <3>4. (has_process(i)' <=> has_process(i)) /\ (MissedChild(i)' <=> MissedChild(i))
      BY <1>0, <3>3 DEF has_process, MissedChild
    <3>5. \A k \in 1..(i - 1) : children'[k].pid = children[k].pid
      BY <3>2
    <3> QED BY <3>1, <3>3, <3>4, <3>5, Zenon
  <2>2. ASSUME NEW j \in DOMAIN ps'
        PROVE  /\ ps'[j].gone => whose'[ps'[j].pid] # <<"popen", j>>
               /\ MissedPopen(j)' => \E k \in DOMAIN children' : /\ children'[k].pid = ps'[j].pid
                                                                 /\ whose'[ps'[j].pid] # <<"child", k>>
    <3>1. /\ ps[j].gone => whose[ps[j].pid] # <<"popen", j>>
          /\ MissedPopen(j) => \E k \in DOMAIN children : /\ children[k].pid = ps[j].pid
                                                           /\ whose[ps[j].pid] # <<"child", k>>
      BY <2>2 DEF Res, Truth
    <3>2. ps'[j].pid = ps[j].pid /\ ps'[j].gone = ps[j].gone
      BY <2>2
    <3>3. MissedPopen(j)' <=> MissedPopen(j)
      BY <1>0, <3>2 DEF MissedPopen
    <3>4. \A k \in DOMAIN children : k \in DOMAIN children' /\ children'[k].pid = children[k].pid
      OBVIOUS
    <3> QED BY <1>0, <3>1, <3>2, <3>3, <3>4, Zenon
  <2> QED BY <2>1, <2>2 DEF Truth
<1> QED BY <1>1, <1>2

LEMMA HandlesStay ==
  ASSUME Res, UNCHANGED <<proc, whose, children, ps>>
  PROVE  Owners' /\ Truth' /\ NoPidfd'
<1>1. Owners' /\ Truth'
  BY SameProcesses
<1>2. NoPidfd'
  BY DEF Res, NoPidfd
<1> QED BY <1>1, <1>2

\* What Ended does to one number.
LEMMA EndedFacts ==
  ASSUME KernelType, NEW R, NEW K, Ended(R, K)
  PROVE  /\ proc' \in [Pid -> ProcState] /\ whose' \in [Pid -> {Nobody, Stranger} \cup Process]
         /\ \A p \in Pid :
              /\ p \in R => whose'[p] = Nobody /\ proc'[p] = "free"
              /\ p \in K /\ whose[p] = Stranger => whose'[p] = Nobody /\ proc'[p] = "free"
              /\ p \notin R /\ whose[p] # Stranger => whose'[p] = whose[p]
              /\ p \notin R /\ p \notin K => whose'[p] = whose[p] /\ proc'[p] = proc[p]
              /\ p \notin R /\ p \in K /\ whose[p] # Stranger =>
                   proc'[p] = IF proc[p] = "running" THEN "zombie" ELSE proc[p]
<1> DEFINE gone == R \cup {p \in K : whose[p] = Stranger}
           P(p) == CASE p \in gone -> "free"
                     [] p \in K \ gone /\ proc[p] = "running" -> "zombie"
                     [] OTHER -> proc[p]
           W(p) == IF p \in gone THEN Nobody ELSE whose[p]
<1>1. /\ proc' = [p \in Pid |-> P(p)] /\ whose' = [p \in Pid |-> W(p)]
  BY Zenon DEF Ended
<1>2. ASSUME NEW p \in Pid
      PROVE  /\ P(p) \in ProcState /\ W(p) \in {Nobody, Stranger} \cup Process
             /\ p \in gone => P(p) = "free" /\ W(p) = Nobody
             /\ p \notin gone => W(p) = whose[p]
             /\ p \notin gone /\ p \notin K => P(p) = proc[p]
             /\ p \notin gone /\ p \in K =>
                  P(p) = IF proc[p] = "running" THEN "zombie" ELSE proc[p]
  <2>1. proc[p] \in ProcState /\ whose[p] \in {Nobody, Stranger} \cup Process
    BY DEF KernelType
  <2> QED BY <2>1, SMTT(60) DEF ProcState
<1>3. \A p \in Pid : p \in gone <=> p \in R \/ (p \in K /\ whose[p] = Stranger)
  OBVIOUS
<1> HIDE DEF P, W, gone
<1>4. proc' \in [Pid -> ProcState] /\ whose' \in [Pid -> {Nobody, Stranger} \cup Process]
  BY <1>1, <1>2
<1>5. \A p \in Pid : proc'[p] = P(p) /\ whose'[p] = W(p)
  BY <1>1
<1> QED BY <1>2, <1>3, <1>4, <1>5

\* The end of processes, and handles that are marked for it: nothing is marked
\* whose process goes on, and what is not marked has an older entry.
LEMMA EndedStep ==
  ASSUME Res, NEW R, NEW K, Ended(R, K),
         DOMAIN children' = DOMAIN children, DOMAIN ps' = DOMAIN ps,
         \A i \in DOMAIN children :
           /\ children'[i].pid = children[i].pid
           /\ children[i].waited => children'[i].waited
           /\ children'[i].waited /\ ~children[i].waited => ~has_process(i) \/ children[i].pid \in R
           /\ has_process(i) /\ children[i].pid \in R =>
                \/ children'[i].waited
                \/ \E k \in 1..(i - 1) : children[k].pid = children[i].pid,
         \A j \in DOMAIN ps :
           /\ ps'[j].pid = ps[j].pid
           /\ ps[j].gone => ps'[j].gone
           /\ ps'[j].gone /\ ~ps[j].gone => whose[ps[j].pid] # <<"popen", j>> \/ ps[j].pid \in R
           /\ whose[ps[j].pid] = <<"popen", j>> /\ ps[j].pid \in R =>
                ps'[j].gone \/ \E k \in DOMAIN children : children[k].pid = ps[j].pid
  PROVE  Owners' /\ Truth'
<1>1. /\ KernelType /\ Owners /\ Truth
      /\ DOMAIN children = 1..Len(children) /\ Len(children) \in Nat
      /\ DOMAIN ps = 1..Len(ps) /\ Len(ps) \in Nat
      /\ \A i \in DOMAIN children : children[i].pid \in Pid
      /\ \A j \in DOMAIN ps : ps[j].pid \in Pid
  BY Elements DEF Res, ResType
<1>2. \A p \in Pid : \/ whose'[p] = whose[p]
                     \/ whose'[p] = Nobody /\ (p \in R \/ whose[p] = Stranger)
  BY <1>1, EndedFacts
<1>3. \A p \in Pid : p \in R => whose'[p] = Nobody
  BY <1>1, EndedFacts
<1>4. Owners'
  <2>1. \A p \in Pid : proc'[p] = "free" <=> whose'[p] = Nobody
    <3>1. \A p \in Pid : proc[p] = "free" <=> whose[p] = Nobody
      BY <1>1 DEF Owners
    <3> QED BY <1>1, <3>1, EndedFacts, WhoseTags
  <2>2. \A p \in Pid : whose'[p] = Stranger => proc'[p] = "running"
    <3>1. \A p \in Pid : whose[p] = Stranger => proc[p] = "running"
      BY <1>1 DEF Owners
    <3> QED BY <1>1, <3>1, EndedFacts, WhoseTags
  <2>3. \A p \in Pid, i \in Nat : whose'[p] = <<"child", i>> =>
          /\ i \in DOMAIN children' /\ children'[i].pid = p
          /\ \A k \in DOMAIN children' : children'[k].pid = p => k <= i
    <3>1. \A p \in Pid, i \in Nat : whose'[p] = <<"child", i>> => whose[p] = <<"child", i>>
      BY <1>2, WhoseTags
    <3>2. ASSUME NEW p \in Pid, NEW i \in Nat, whose'[p] = <<"child", i>>
          PROVE  /\ i \in DOMAIN children' /\ children'[i].pid = p
                 /\ \A k \in DOMAIN children' : children'[k].pid = p => k <= i
      <4>0. \A q \in Pid, k \in Nat : whose[q] = <<"child", k>> =>
              /\ k \in DOMAIN children /\ children[k].pid = q
              /\ \A l \in DOMAIN children : children[l].pid = q => l <= k
        BY <1>1 DEF Owners
      <4>1. /\ i \in DOMAIN children /\ children[i].pid = p
            /\ \A k \in DOMAIN children : children[k].pid = p => k <= i
        BY <3>1, <3>2, <4>0, Zenon
      <4>2. \A k \in DOMAIN children : children'[k].pid = children[k].pid
        OBVIOUS
      <4> QED BY <4>1, <4>2
    <3> QED BY <3>2
  <2>4. \A p \in Pid, j \in Nat : whose'[p] = <<"popen", j>> => j \in DOMAIN ps' /\ ps'[j].pid = p
    <3>1. \A p \in Pid, j \in Nat : whose'[p] = <<"popen", j>> => whose[p] = <<"popen", j>>
      BY <1>2, WhoseTags
    <3>2. ASSUME NEW p \in Pid, NEW j \in Nat, whose'[p] = <<"popen", j>>
          PROVE  j \in DOMAIN ps' /\ ps'[j].pid = p
      <4>0. \A q \in Pid, k \in Nat : whose[q] = <<"popen", k>> =>
              k \in DOMAIN ps /\ ps[k].pid = q
        BY <1>1 DEF Owners
      <4>1. j \in DOMAIN ps /\ ps[j].pid = p
        BY <3>1, <3>2, <4>0, Zenon
      <4> QED BY <4>1
    <3> QED BY <3>2
  <2> QED BY <2>1, <2>2, <2>3, <2>4 DEF Owners
<1>5. ASSUME NEW i \in DOMAIN children
      PROVE  /\ children'[i].waited => ~has_process(i)'
             /\ MissedChild(i)' => \E k \in 1..(i - 1) : children'[k].pid = children'[i].pid
  <2>1. has_process(i) <=> whose[children[i].pid] = <<"child", i>>
    BY DEF has_process
  <2>2. has_process(i)' <=> whose'[children[i].pid] = <<"child", i>>
    BY DEF has_process
  <2>3. has_process(i)' => has_process(i) /\ children[i].pid \notin R
    BY <1>1, <1>2, <1>3, <2>1, <2>2, WhoseTags
  <2>4. has_process(i) /\ ~has_process(i)' => children[i].pid \in R
    BY <1>1, <1>2, <2>1, <2>2, WhoseTags
  <2>5. children'[i].waited => ~has_process(i)'
    BY <1>1, <2>3 DEF Truth
  <2>6. ASSUME MissedChild(i)'
        PROVE  \E k \in 1..(i - 1) : children[k].pid = children[i].pid
    <3>1. ~children'[i].waited /\ ~has_process(i)' /\ ~children[i].waited
      BY <2>6 DEF MissedChild
    <3>2. CASE has_process(i)
      BY <2>4, <3>1, <3>2
    <3>3. CASE ~has_process(i)
      BY <1>1, <3>1, <3>3 DEF Truth, MissedChild
    <3> QED BY <3>2, <3>3
  <2>7. \A k \in 1..(i - 1) : children'[k].pid = children[k].pid
    BY <1>1
  <2> QED BY <2>5, <2>6, <2>7
<1>6. ASSUME NEW j \in DOMAIN ps
      PROVE  /\ ps'[j].gone => whose'[ps'[j].pid] # <<"popen", j>>
             /\ MissedPopen(j)' => \E k \in DOMAIN children : /\ children[k].pid = ps[j].pid
                                                              /\ whose'[ps[j].pid] # <<"child", k>>
  <2>1. ps[j].pid \in Pid /\ ps'[j].pid = ps[j].pid
    BY <1>1
  <2>2. whose'[ps[j].pid] = <<"popen", j>> => whose[ps[j].pid] = <<"popen", j>> /\ ps[j].pid \notin R
    BY <1>2, <1>3, <2>1, WhoseTags
  <2>3. ps'[j].gone => whose'[ps[j].pid] # <<"popen", j>>
    BY <1>1, <2>2 DEF Truth
  <2>4. ASSUME MissedPopen(j)'
        PROVE  \E k \in DOMAIN children : /\ children[k].pid = ps[j].pid
                                          /\ whose'[ps[j].pid] # <<"child", k>>
    <3>1. ~ps'[j].gone /\ whose'[ps[j].pid] # <<"popen", j>> /\ ~ps[j].gone
      BY <2>1, <2>4 DEF MissedPopen
    <3>2. CASE whose[ps[j].pid] = <<"popen", j>>
      <4>1. ps[j].pid \in R
        BY <1>2, <2>1, <3>1, <3>2, WhoseTags
      <4>2. whose'[ps[j].pid] = Nobody
        BY <1>3, <2>1, <4>1
      <4>3. PICK k \in DOMAIN children : children[k].pid = ps[j].pid
        BY <3>1, <3>2, <4>1
      <4> QED BY <4>2, <4>3, WhoseTags
    <3>3. CASE whose[ps[j].pid] # <<"popen", j>>
      <4>1. PICK k \in DOMAIN children : children[k].pid = ps[j].pid /\ whose[ps[j].pid] # <<"child", k>>
        BY <1>1, <3>1, <3>3 DEF Truth, MissedPopen
      <4>2. whose'[ps[j].pid] # <<"child", k>>
        BY <1>2, <2>1, <4>1, WhoseTags
      <4> QED BY <4>1, <4>2
    <3> QED BY <3>2, <3>3
  <2> QED BY <2>1, <2>3, <2>4
<1>7. Truth'
  <2>1. \A k \in DOMAIN children : children'[k].pid = children[k].pid
    OBVIOUS
  <2>2. \A j \in DOMAIN ps : ps'[j].pid = ps[j].pid
    OBVIOUS
  <2>3. \A i \in DOMAIN children' :
          /\ children'[i].waited => ~has_process(i)'
          /\ MissedChild(i)' => \E k \in 1..(i - 1) : children'[k].pid = children'[i].pid
    BY <1>5, Zenon
  <2>4. ASSUME NEW j \in DOMAIN ps'
        PROVE  /\ ps'[j].gone => whose'[ps'[j].pid] # <<"popen", j>>
               /\ MissedPopen(j)' => \E k \in DOMAIN children' : /\ children'[k].pid = ps'[j].pid
                                                                 /\ whose'[ps'[j].pid] # <<"child", k>>
    <3>1. j \in DOMAIN ps /\ ps'[j].pid = ps[j].pid
      BY <2>2, <2>4
    <3>2. ASSUME NEW k \in DOMAIN children, children[k].pid = ps[j].pid
          PROVE  k \in DOMAIN children' /\ children'[k].pid = ps'[j].pid
      BY <2>1, <3>1, <3>2
    <3>3. ps'[j].gone => whose'[ps'[j].pid] # <<"popen", j>>
      BY <1>6, <3>1, Zenon
    <3>4. ASSUME MissedPopen(j)'
          PROVE  \E k \in DOMAIN children' : /\ children'[k].pid = ps'[j].pid
                                             /\ whose'[ps'[j].pid] # <<"child", k>>
      <4>1. PICK k \in DOMAIN children : children[k].pid = ps[j].pid /\ whose'[ps[j].pid] # <<"child", k>>
        BY <1>6, <3>1, <3>4, Zenon
      <4>2. k \in DOMAIN children' /\ children'[k].pid = ps'[j].pid /\ whose'[ps'[j].pid] # <<"child", k>>
        BY <3>1, <3>2, <4>1
      <4> QED BY <4>2
    <3> QED BY <3>3, <3>4
  <2> QED BY <2>3, <2>4, Zenon DEF Truth
<1> QED BY <1>4, <1>7

\* A process starts: one of a new handle, or a stranger.
LEMMA StartsStep ==
  ASSUME Res, NEW p \in Pid, NEW o \in {Stranger} \cup Process, Starts(p, o),
         \A k \in DOMAIN children :
           /\ k \in DOMAIN children' /\ children'[k].pid = children[k].pid
           /\ children'[k].waited = children[k].waited,
         \A k \in DOMAIN children' \ DOMAIN children :
           /\ o = <<"child", k>> /\ children'[k].pid = p /\ children'[k].waited = FALSE
           /\ \A l \in DOMAIN children : l < k,
         \A j \in DOMAIN ps :
           j \in DOMAIN ps' /\ ps'[j].pid = ps[j].pid /\ ps'[j].gone = ps[j].gone,
         \A j \in DOMAIN ps' \ DOMAIN ps : o = <<"popen", j>> /\ ps'[j].pid = p /\ ps'[j].gone = FALSE,
         \A i \in Nat : o = <<"child", i>> => i \in DOMAIN children' \ DOMAIN children,
         \A j \in Nat : o = <<"popen", j>> => j \in DOMAIN ps' \ DOMAIN ps
  PROVE  Owners' /\ Truth'
<1>1. /\ proc \in [Pid -> ProcState] /\ whose \in [Pid -> {Nobody, Stranger} \cup Process]
      /\ Owners /\ Truth
      /\ DOMAIN children = 1..Len(children) /\ Len(children) \in Nat
      /\ DOMAIN ps = 1..Len(ps) /\ Len(ps) \in Nat
      /\ \A i \in DOMAIN children : children[i].pid \in Pid
      /\ \A j \in DOMAIN ps : ps[j].pid \in Pid
  BY Elements DEF Res, ResType, KernelType
<1>2. /\ proc[p] = "free" /\ proc'[p] = "running" /\ whose'[p] = o
      /\ \A q \in Pid : q # p => proc'[q] = proc[q] /\ whose'[q] = whose[q]
  BY <1>1, Zenon DEF Starts
<1>3. whose[p] = Nobody /\ o # Nobody
  <2>1. whose[p] = Nobody
    BY <1>1, <1>2 DEF Owners
  <2>2. o # Nobody
    BY SMTT(60) DEF Process, Nobody, Stranger
  <2> QED BY <2>1, <2>2
<1>4. Owners'
  <2>1. \A q \in Pid : proc'[q] = "free" <=> whose'[q] = Nobody
    BY <1>1, <1>2, <1>3 DEF Owners
  <2>2. \A q \in Pid : whose'[q] = Stranger => proc'[q] = "running"
    BY <1>1, <1>2 DEF Owners
  <2>3. ASSUME NEW q \in Pid, NEW i \in Nat, whose'[q] = <<"child", i>>
        PROVE  /\ i \in DOMAIN children' /\ children'[i].pid = q
               /\ \A k \in DOMAIN children' : children'[k].pid = q => k <= i
    <3>1. CASE q = p
      <4>1. o = <<"child", i>>
        BY <1>2, <2>3, <3>1
      <4>2. i \in DOMAIN children' \ DOMAIN children
        BY <4>1
      <4>3. children'[i].pid = p /\ \A l \in DOMAIN children : l < i
        BY <4>2
      <4>4. ASSUME NEW k \in DOMAIN children'
            PROVE  k <= i
        <5>1. CASE k \in DOMAIN children
          BY <1>1, <4>3, <5>1, SMTT(60)
        <5>2. CASE k \notin DOMAIN children
          <6>1. o = <<"child", k>>
            BY <5>2
          <6> QED BY <4>1, <6>1, WhoseTags, SMTT(60)
        <5> QED BY <5>1, <5>2
      <4> QED BY <3>1, <4>2, <4>3, <4>4
    <3>2. CASE q # p
      <4>1. whose[q] = <<"child", i>>
        BY <1>2, <2>3, <3>2
      <4>2. /\ i \in DOMAIN children /\ children[i].pid = q
            /\ \A k \in DOMAIN children : children[k].pid = q => k <= i
        BY <1>1, <4>1, Zenon DEF Owners
      <4>3. \A k \in DOMAIN children' : children'[k].pid = q => k \in DOMAIN children /\ children[k].pid = q
        BY <3>2
      <4> QED BY <4>2, <4>3
    <3> QED BY <3>1, <3>2
  <2>4. ASSUME NEW q \in Pid, NEW j \in Nat, whose'[q] = <<"popen", j>>
        PROVE  j \in DOMAIN ps' /\ ps'[j].pid = q
    <3>1. CASE q = p
      <4>1. o = <<"popen", j>>
        BY <1>2, <2>4, <3>1
      <4> QED BY <3>1, <4>1
    <3>2. CASE q # p
      <4>1. whose[q] = <<"popen", j>>
        BY <1>2, <2>4, <3>2
      <4>2. j \in DOMAIN ps /\ ps[j].pid = q
        BY <1>1, <4>1, Zenon DEF Owners
      <4> QED BY <4>2
    <3> QED BY <3>1, <3>2
  <2> QED BY <2>1, <2>2, <2>3, <2>4 DEF Owners
<1>5. ASSUME NEW i \in DOMAIN children'
      PROVE  /\ children'[i].waited => ~has_process(i)'
             /\ MissedChild(i)' => \E k \in 1..(i - 1) : children'[k].pid = children'[i].pid
  <2>1. CASE i \notin DOMAIN children
    <3>1. o = <<"child", i>> /\ children'[i].pid = p /\ children'[i].waited = FALSE
      BY <1>5, <2>1
    <3>2. has_process(i)'
      BY <1>2, <3>1 DEF has_process
    <3> QED BY <3>1, <3>2 DEF MissedChild
  <2>2. CASE i \in DOMAIN children
    <3>1. children'[i].pid = children[i].pid /\ children'[i].waited = children[i].waited
      BY <2>2
    <3>2. o # <<"child", i>>
      BY <1>1, <2>2
    <3>3. has_process(i)' <=> has_process(i)
      <4>1. whose'[children[i].pid] = <<"child", i>> <=> whose[children[i].pid] = <<"child", i>>
        BY <1>1, <1>2, <1>3, <2>2, <3>2, WhoseTags
      <4> QED BY <3>1, <4>1 DEF has_process
    <3>4. /\ children[i].waited => ~has_process(i)
          /\ MissedChild(i) => \E k \in 1..(i - 1) : children[k].pid = children[i].pid
      BY <1>1, <2>2 DEF Truth
    <3>5. \A k \in 1..(i - 1) : children'[k].pid = children[k].pid
      BY <1>1, <2>2
    <3> QED BY <3>1, <3>3, <3>4, <3>5 DEF MissedChild
  <2> QED BY <2>1, <2>2
<1>6. ASSUME NEW j \in DOMAIN ps'
      PROVE  /\ ps'[j].gone => whose'[ps'[j].pid] # <<"popen", j>>
             /\ MissedPopen(j)' => \E k \in DOMAIN children' : /\ children'[k].pid = ps'[j].pid
                                                               /\ whose'[ps'[j].pid] # <<"child", k>>
  <2>1. CASE j \notin DOMAIN ps
    <3>1. o = <<"popen", j>> /\ ps'[j].pid = p /\ ps'[j].gone = FALSE
      BY <1>6, <2>1
    <3> QED BY <1>2, <3>1 DEF MissedPopen
  <2>2. CASE j \in DOMAIN ps
    <3>1. ps'[j].pid = ps[j].pid /\ ps'[j].gone = ps[j].gone /\ ps[j].pid \in Pid
      BY <1>1, <2>2
    <3>2. o # <<"popen", j>>
      BY <1>1, <2>2
    <3>3. whose'[ps[j].pid] = <<"popen", j>> <=> whose[ps[j].pid] = <<"popen", j>>
      BY <1>2, <1>3, <3>1, <3>2, WhoseTags
    <3>4. ps[j].gone => whose[ps[j].pid] # <<"popen", j>>
      BY <1>1, <2>2 DEF Truth
    <3>5. ASSUME MissedPopen(j)'
          PROVE  \E k \in DOMAIN children' : /\ children'[k].pid = ps'[j].pid
                                             /\ whose'[ps'[j].pid] # <<"child", k>>
      <4>1. MissedPopen(j)
        BY <3>1, <3>3, <3>5 DEF MissedPopen
      <4>2. PICK k \in DOMAIN children : children[k].pid = ps[j].pid /\ whose[ps[j].pid] # <<"child", k>>
        BY <1>1, <2>2, <4>1 DEF Truth
      <4>3. o # <<"child", k>>
        BY <1>1
      <4>4. k \in DOMAIN children' /\ children'[k].pid = ps[j].pid /\ whose'[ps[j].pid] # <<"child", k>>
        BY <1>2, <3>1, <4>2, <4>3
      <4> QED BY <3>1, <4>4
    <3> QED BY <3>1, <3>3, <3>4, <3>5
  <2> QED BY <2>1, <2>2
<1>7. Truth'
  BY <1>5, <1>6, Zenon DEF Truth
<1> QED BY <1>4, <1>7

\* What StartsStep asks of the lists of handles.
NewHandle(p, o) ==
  /\ \A k \in DOMAIN children :
       /\ k \in DOMAIN children' /\ children'[k].pid = children[k].pid
       /\ children'[k].waited = children[k].waited
  /\ \A k \in DOMAIN children' \ DOMAIN children :
       /\ o = <<"child", k>> /\ children'[k].pid = p /\ children'[k].waited = FALSE
       /\ \A l \in DOMAIN children : l < k
  /\ \A j \in DOMAIN ps :
       j \in DOMAIN ps' /\ ps'[j].pid = ps[j].pid /\ ps'[j].gone = ps[j].gone
  /\ \A j \in DOMAIN ps' \ DOMAIN ps : o = <<"popen", j>> /\ ps'[j].pid = p /\ ps'[j].gone = FALSE
  /\ \A i \in Nat : o = <<"child", i>> => i \in DOMAIN children' \ DOMAIN children
  /\ \A j \in Nat : o = <<"popen", j>> => j \in DOMAIN ps' \ DOMAIN ps

LEMMA StartsNew ==
  ASSUME Res, NEW p \in Pid, NEW o \in {Stranger} \cup Process, Starts(p, o), NewHandle(p, o)
  PROVE  Owners' /\ Truth'
BY StartsStep DEF NewHandle

LEMMA StartedType ==
  ASSUME KernelType, NEW p \in Pid, NEW o \in {Stranger} \cup Process, Starts(p, o)
  PROVE  proc' \in [Pid -> ProcState] /\ whose' \in [Pid -> {Nobody, Stranger} \cup Process]
<1>1. "running" \in ProcState
  BY DEF ProcState
<1> QED BY <1>1, Zenon DEF Starts, KernelType

\* Signals change no handle.
LEMMA SignalRes ==
  ASSUME Res, NEW K, Ended({}, K), UNCHANGED <<table, fds, children, ps>>
  PROVE  Res'
<1>1. Owners' /\ Truth'
  BY EndedStep
<1>2. KernelType'
  BY EndedFacts DEF Res, ResType, KernelType
<1> QED BY <1>1, <1>2 DEF Res, ResType, NoPidfd, HandlesOwnTheirNumber, NumbersOwned

-----------------------------------------------------------------------------
(* The operations, one lemma each.                                         *)

\* _own_fd of the lowest free number.
LEMMA OwnRes ==
  ASSUME Res, NEW n \in Num, table[n] = Free, own_fd(n), UNCHANGED <<proc, whose, children, ps>>
  PROVE  Res'
<1> DEFINE e == [num |-> n, closed |-> FALSE]
<1>1. e \in LinuxFd
  BY DEF LinuxFd
<1>2. fds' = Append(fds, e) /\ fds \in Seq(LinuxFd)
  BY DEF own_fd, Res, ResType
<1>3. /\ fds' \in Seq(LinuxFd) /\ DOMAIN fds = 1..Len(fds) /\ Len(fds) \in Nat
      /\ DOMAIN fds' = 1..(Len(fds) + 1)
      /\ \A i \in 1..Len(fds) : fds'[i] = fds[i]
      /\ fds'[Len(fds) + 1] = e
  <2> HIDE DEF e
  <2>1. /\ Append(fds, e) \in Seq(LinuxFd) /\ DOMAIN fds = 1..Len(fds) /\ Len(fds) \in Nat
        /\ DOMAIN Append(fds, e) = 1..(Len(fds) + 1)
        /\ \A i \in 1..Len(fds) : Append(fds, e)[i] = fds[i]
        /\ Append(fds, e)[Len(fds) + 1] = e
    BY <1>1, <1>2, AppendFacts
  <2> QED BY <1>2, <2>1
<1>4. /\ table'[n] = <<"fd", Len(fds) + 1>>
      /\ \A k \in Num : k # n => table'[k] = table[k]
      /\ \A k \in Num : table[k] # Free => table'[k] = table[k]
      /\ table' \in [Num -> {Free} \cup (Kind \X Nat)]
  <2>1. <<"fd", Len(fds) + 1>> \in Kind \X Nat
    BY <1>3 DEF Kind
  <2> QED BY <2>1, Entered DEF own_fd, Res, ResType, KernelType
<1>5. ResType'
  BY <1>3, <1>4 DEF Res, ResType, KernelType
<1>6. HandlesOwnTheirNumber'
  <2>1. \A i \in DOMAIN fds' : ~fds'[i].closed => table'[fds'[i].num] = <<"fd", i>>
    <3> SUFFICES ASSUME NEW i \in DOMAIN fds', ~fds'[i].closed
                 PROVE  table'[fds'[i].num] = <<"fd", i>>
      OBVIOUS
    <3>1. CASE i \in 1..Len(fds)
      BY <1>3, <1>4, <3>1, UsedKeep
    <3>2. CASE i = Len(fds) + 1
      BY <1>3, <1>4, <3>2
    <3> QED BY <1>3, <3>1, <3>2
  <2>2. /\ \A i \in DOMAIN children' : ~children'[i].waited =>
               children'[i].pidfd \in Num /\ table'[children'[i].pidfd] = <<"pidfd", i>>
        /\ \A j \in DOMAIN ps' : /\ table'[ps'[j].stdout] = <<"stdout", j>>
                                 /\ ps'[j].stdin # 0 => table'[ps'[j].stdin] = <<"stdin", j>>
    <3>1. children' = children /\ ps' = ps
      BY Zenon
    <3>2. /\ \A i \in DOMAIN children : ~children[i].waited =>
                 children[i].pidfd \in Num /\ table'[children[i].pidfd] = <<"pidfd", i>>
          /\ \A j \in DOMAIN ps : /\ table'[ps[j].stdout] = <<"stdout", j>>
                                  /\ ps[j].stdin # 0 => table'[ps[j].stdin] = <<"stdin", j>>
      BY <1>4, UsedKeep
    <3> QED BY <3>1, <3>2
  <2> QED BY <2>1, <2>2 DEF HandlesOwnTheirNumber
<1>7. NumbersOwned'
  <2> SUFFICES ASSUME NEW k \in Num
               PROVE  \/ table'[k] \in {Free, <<"launch", 0>>}
                      \/ \E i \in DOMAIN fds' : ~fds'[i].closed /\ fds'[i].num = k
                      \/ \E i \in DOMAIN children : ~children[i].waited /\ children[i].pidfd = k
                      \/ \E j \in DOMAIN ps : k \in {ps[j].stdin, ps[j].stdout}
    BY DEF NumbersOwned
  <2>1. CASE k = n
    BY <1>3, <2>1, SMTT(60)
  <2>2. CASE k # n
    <3>1. \A i \in DOMAIN fds : i \in DOMAIN fds' /\ fds'[i] = fds[i]
      BY <1>3, SMTT(60)
    <3> QED BY <1>4, <2>2, <3>1 DEF Res, NumbersOwned
  <2> QED BY <2>1, <2>2
<1> QED BY <1>5, <1>6, <1>7, HandlesStay DEF Res

LEMMA DupRes ==
  ASSUME Res, dup, UNCHANGED ps
  PROVE  Res'
BY OwnRes DEF dup, Lowest

\* _pipe makes two handles.
LEMMA PipeRes ==
  ASSUME Res, pipe, UNCHANGED ps
  PROVE  Res'
<1>1. PICK n \in Num, m \in Num :
        /\ LowestTwo(n, m)
        /\ fds' = fds \o <<[num |-> n, closed |-> FALSE], [num |-> m, closed |-> FALSE]>>
        /\ table' = [table EXCEPT ![n] = <<"fd", Len(fds) + 1>>, ![m] = <<"fd", Len(fds) + 2>>]
  BY DEF pipe
<1>2. n # m /\ table[n] = Free /\ table[m] = Free
  BY <1>1, SMTT(60) DEF LowestTwo, Lowest, Free, Res, ResType, KernelType
<1>3. fds \in Seq(LinuxFd) /\ DOMAIN fds = 1..Len(fds) /\ Len(fds) \in Nat
  BY Elements DEF Res, ResType
<1>4. /\ fds' \in Seq(LinuxFd)
      /\ DOMAIN fds' = 1..(Len(fds) + 2)
      /\ \A i \in 1..Len(fds) : fds'[i] = fds[i]
      /\ fds'[Len(fds) + 1] = [num |-> n, closed |-> FALSE]
      /\ fds'[Len(fds) + 2] = [num |-> m, closed |-> FALSE]
  BY <1>1, <1>3, SMTT(60) DEF LinuxFd
<1>5. /\ table'[n] = <<"fd", Len(fds) + 1>> /\ table'[m] = <<"fd", Len(fds) + 2>>
      /\ \A k \in Num : k # n /\ k # m => table'[k] = table[k]
      /\ \A k \in Num : table[k] # Free => table'[k] = table[k]
      /\ table' \in [Num -> {Free} \cup (Kind \X Nat)]
  <2>1. <<"fd", Len(fds) + 1>> \in Kind \X Nat /\ <<"fd", Len(fds) + 2>> \in Kind \X Nat
    BY <1>3 DEF Kind
  <2> QED BY <1>1, <1>2, <2>1, EnteredTwo DEF Res, ResType, KernelType
<1>6. UNCHANGED <<proc, whose, children, ps>>
  BY DEF pipe
<1>7. ResType'
  BY <1>4, <1>5, <1>6 DEF Res, ResType, KernelType
<1>8. HandlesOwnTheirNumber'
  <2>1. \A i \in DOMAIN fds' : ~fds'[i].closed => table'[fds'[i].num] = <<"fd", i>>
    <3> SUFFICES ASSUME NEW i \in DOMAIN fds', ~fds'[i].closed
                 PROVE  table'[fds'[i].num] = <<"fd", i>>
      OBVIOUS
    <3>1. CASE i \in 1..Len(fds)
      BY <1>3, <1>4, <1>5, <3>1, UsedKeep
    <3>2. CASE i \in {Len(fds) + 1, Len(fds) + 2}
      BY <1>3, <1>4, <1>5, <3>2
    <3> QED BY <1>3, <1>4, <3>1, <3>2
  <2>2. /\ \A i \in DOMAIN children' : ~children'[i].waited =>
               children'[i].pidfd \in Num /\ table'[children'[i].pidfd] = <<"pidfd", i>>
        /\ \A j \in DOMAIN ps' : /\ table'[ps'[j].stdout] = <<"stdout", j>>
                                 /\ ps'[j].stdin # 0 => table'[ps'[j].stdin] = <<"stdin", j>>
    <3>1. children' = children /\ ps' = ps
      BY <1>6
    <3>2. /\ \A i \in DOMAIN children : ~children[i].waited =>
                 children[i].pidfd \in Num /\ table'[children[i].pidfd] = <<"pidfd", i>>
          /\ \A j \in DOMAIN ps : /\ table'[ps[j].stdout] = <<"stdout", j>>
                                  /\ ps[j].stdin # 0 => table'[ps[j].stdin] = <<"stdin", j>>
      BY <1>5, <1>6, UsedKeep
    <3> QED BY <3>1, <3>2
  <2> QED BY <2>1, <2>2 DEF HandlesOwnTheirNumber
<1>9. NumbersOwned'
  <2> SUFFICES ASSUME NEW k \in Num
               PROVE  \/ table'[k] \in {Free, <<"launch", 0>>}
                      \/ \E i \in DOMAIN fds' : ~fds'[i].closed /\ fds'[i].num = k
                      \/ \E i \in DOMAIN children : ~children[i].waited /\ children[i].pidfd = k
                      \/ \E j \in DOMAIN ps : k \in {ps[j].stdin, ps[j].stdout}
    BY <1>6 DEF NumbersOwned
  <2>1. CASE k \in {n, m}
    BY <1>3, <1>4, <2>1, SMTT(60)
  <2>2. CASE k \notin {n, m}
    <3>1. \A i \in DOMAIN fds : i \in DOMAIN fds' /\ fds'[i] = fds[i]
      BY <1>3, <1>4, SMTT(60)
    <3> QED BY <1>5, <2>2, <3>1 DEF Res, NumbersOwned
  <2> QED BY <2>1, <2>2
<1> QED BY <1>6, <1>7, <1>8, <1>9, HandlesStay DEF Res

LEMMA ResStutter ==
  ASSUME Res, UNCHANGED resvars
  PROVE  Res'
<1>1. ResType'
  BY DEF resvars, Res, ResType, KernelType
<1>2. HandlesOwnTheirNumber'
  BY DEF resvars, Res, HandlesOwnTheirNumber
<1>3. NumbersOwned'
  BY DEF resvars, Res, NumbersOwned
<1> QED BY <1>1, <1>2, <1>3, HandlesStay DEF resvars, Res

\* _close.
LEMMA CloseRes ==
  ASSUME Res, NEW i \in DOMAIN fds, close(i), UNCHANGED ps
  PROVE  Res'
<1>1. CASE fds[i].closed
  BY <1>1, ResStutter DEF close, resvars
<1>2. CASE ~fds[i].closed
  <2>1. table' = CloseAll({fds[i].num}) /\ fds' = [fds EXCEPT ![i].closed = TRUE]
        /\ UNCHANGED <<proc, whose, children>>
    BY <1>2 DEF close
  <2>2. fds[i] \in LinuxFd /\ fds[i].num \in Num /\ fds \in Seq(LinuxFd)
    BY Elements DEF Res, ResType
  <2>3. [fds[i] EXCEPT !.closed = TRUE] \in LinuxFd
    BY <2>2 DEF LinuxFd
  <2>4. /\ fds' \in Seq(LinuxFd) /\ DOMAIN fds' = DOMAIN fds
        /\ \A k \in DOMAIN fds : k # i => fds'[k] = fds[k]
        /\ fds'[i].closed = TRUE /\ fds'[i].num = fds[i].num
    BY <2>1, <2>2, <2>3, UpdateFacts, SMTT(60) DEF LinuxFd
  <2>5. table'[fds[i].num] = Free /\ \A n \in Num : n # fds[i].num => table'[n] = table[n]
    BY <2>1, <2>2 DEF CloseAll
  <2>6. ResType'
    BY <2>1, <2>4, SMTT(60) DEF Res, ResType, KernelType, CloseAll
  <2>7. HandlesOwnTheirNumber'
    <3>0. table[fds[i].num] = <<"fd", i>>
      BY <1>2, OwnFacts
    <3>1. \A k \in DOMAIN fds : k # i /\ ~fds[k].closed => fds[k].num # fds[i].num
      BY <3>0, OwnFacts, Tags
    <3>2. \A k \in DOMAIN children : ~children[k].waited => children[k].pidfd # fds[i].num
      BY <3>0, OwnFacts, Tags
    <3>3. \A j \in DOMAIN ps : ps[j].stdout # fds[i].num /\ (ps[j].stdin # 0 => ps[j].stdin # fds[i].num)
      BY <3>0, OwnFacts, Tags
    <3>4. ASSUME NEW k \in DOMAIN fds', ~fds'[k].closed
          PROVE  table'[fds'[k].num] = <<"fd", k>>
      <4>1. k \in DOMAIN fds /\ k # i /\ fds'[k] = fds[k]
        BY <2>4, <3>4
      <4>2. fds[k].num \in Num /\ table[fds[k].num] = <<"fd", k>> /\ fds[k].num # fds[i].num
        BY <3>1, <3>4, <4>1, OwnFacts
      <4> QED BY <2>5, <4>1, <4>2
    <3> QED BY <2>1, <2>5, <3>2, <3>3, <3>4, OwnFacts, ChildrenKeep, PsKeep DEF HandlesOwnTheirNumber
  <2>8. NumbersOwned'
    <3> SUFFICES ASSUME NEW k \in Num, k # fds[i].num
                 PROVE  \/ table'[k] \in {Free, <<"launch", 0>>}
                        \/ \E l \in DOMAIN fds' : ~fds'[l].closed /\ fds'[l].num = k
                        \/ \E l \in DOMAIN children : ~children[l].waited /\ children[l].pidfd = k
                        \/ \E j \in DOMAIN ps : k \in {ps[j].stdin, ps[j].stdout}
      BY <2>1, <2>5 DEF NumbersOwned
    <3>1. table'[k] = table[k]
      BY <2>5
    <3>2. \A l \in DOMAIN fds : ~fds[l].closed /\ fds[l].num = k => l # i /\ fds'[l] = fds[l]
      BY <2>4
    <3> QED BY <2>4, <3>1, <3>2 DEF Res, NumbersOwned
  <2> QED BY <2>1, <2>6, <2>7, <2>8, HandlesStay DEF Res
<1> QED BY <1>1, <1>2

-----------------------------------------------------------------------------
\* _spawn_exact_impl up to the return of a handle.
LEMMA SpawnRes ==
  ASSUME Res, NEW p \in Pid, NEW g \in {0} \cup Pid, spawn(p, g), UNCHANGED ps
  PROVE  Res'
<1>1. PICK n \in Num, m \in Num :
        /\ LowestTwo(n, m)
        /\ table' = [table EXCEPT ![m] = <<"pidfd", Len(children) + 1>>]
        /\ children' = Append(children, [pid |-> p, pidfd |-> m, waited |-> FALSE,
                                         pgid |-> IF g = 0 THEN p ELSE g])
  BY DEF spawn
<1> DEFINE e == [pid |-> p, pidfd |-> m, waited |-> FALSE, pgid |-> IF g = 0 THEN p ELSE g]
<1>2. n # m /\ table[n] = Free /\ table[m] = Free
  BY <1>1, SMTT(60) DEF LowestTwo, Lowest, Free, Res, ResType, KernelType
<1>3. e \in LinuxChild /\ e.pid = p /\ e.pidfd = m /\ e.waited = FALSE
  BY MaxNumNat, SMTT(60) DEF LinuxChild, Num
<1>4. children \in Seq(LinuxChild) /\ DOMAIN children = 1..Len(children) /\ Len(children) \in Nat
  BY Elements DEF Res, ResType
<1>5. /\ children' \in Seq(LinuxChild)
      /\ DOMAIN children' = 1..(Len(children) + 1)
      /\ \A i \in 1..Len(children) : children'[i] = children[i]
      /\ children'[Len(children) + 1] = e
  <2>1. children' = Append(children, e)
    BY <1>1
  <2> HIDE DEF e
  <2> QED BY <1>3, <1>4, <2>1, AppendFacts
<1>6. /\ table'[m] = <<"pidfd", Len(children) + 1>>
      /\ \A k \in Num : k # m => table'[k] = table[k]
      /\ \A k \in Num : table[k] # Free => table'[k] = table[k]
      /\ table' \in [Num -> {Free} \cup (Kind \X Nat)]
  <2>1. <<"pidfd", Len(children) + 1>> \in Kind \X Nat
    BY <1>4 DEF Kind
  <2> QED BY <1>1, <1>2, <2>1, Entered DEF Res, ResType, KernelType
<1>7. /\ UNCHANGED <<fds, ps>> /\ Starts(p, <<"child", Len(children) + 1>>)
      /\ proc \in [Pid -> ProcState] /\ whose \in [Pid -> {Nobody, Stranger} \cup Process]
  BY DEF spawn, Res, ResType, KernelType
<1>7a. /\ proc' \in [Pid -> ProcState] /\ whose' \in [Pid -> {Nobody, Stranger} \cup Process]
       /\ <<"child", Len(children) + 1>> \in {Nobody, Stranger} \cup Process
  <2>1. <<"child", Len(children) + 1>> \in Process
    BY <1>4 DEF Process
  <2> QED BY <1>7, <2>1, StartedType DEF Res, ResType
<1>8. ResType'
  BY <1>5, <1>6, <1>7, <1>7a DEF Res, ResType, KernelType
<1>9. HandlesOwnTheirNumber'
  <2>1. \A i \in DOMAIN children' : ~children'[i].waited =>
          children'[i].pidfd \in Num /\ table'[children'[i].pidfd] = <<"pidfd", i>>
    <3> SUFFICES ASSUME NEW i \in DOMAIN children', ~children'[i].waited
                 PROVE  children'[i].pidfd \in Num /\ table'[children'[i].pidfd] = <<"pidfd", i>>
      OBVIOUS
    <3>1. CASE i \in 1..Len(children)
      BY <1>4, <1>5, <1>6, <3>1, UsedKeep
    <3>2. CASE i = Len(children) + 1
      BY <1>3, <1>5, <1>6, <3>2
    <3> QED BY <1>4, <1>5, <3>1, <3>2
  <2>2. /\ \A i \in DOMAIN fds' : ~fds'[i].closed => table'[fds'[i].num] = <<"fd", i>>
        /\ \A j \in DOMAIN ps' : /\ table'[ps'[j].stdout] = <<"stdout", j>>
                                 /\ ps'[j].stdin # 0 => table'[ps'[j].stdin] = <<"stdin", j>>
    <3>1. fds' = fds /\ ps' = ps
      BY <1>7
    <3>2. /\ \A i \in DOMAIN fds : ~fds[i].closed => table'[fds[i].num] = <<"fd", i>>
          /\ \A j \in DOMAIN ps : /\ table'[ps[j].stdout] = <<"stdout", j>>
                                  /\ ps[j].stdin # 0 => table'[ps[j].stdin] = <<"stdin", j>>
      BY <1>6, UsedKeep
    <3> QED BY <3>1, <3>2
  <2> QED BY <2>1, <2>2 DEF HandlesOwnTheirNumber
<1>10. NumbersOwned'
  <2> SUFFICES ASSUME NEW k \in Num
               PROVE  \/ table'[k] \in {Free, <<"launch", 0>>}
                      \/ \E i \in DOMAIN fds : ~fds[i].closed /\ fds[i].num = k
                      \/ \E i \in DOMAIN children' : ~children'[i].waited /\ children'[i].pidfd = k
                      \/ \E j \in DOMAIN ps : k \in {ps[j].stdin, ps[j].stdout}
    BY <1>7 DEF NumbersOwned
  <2>1. CASE k = m
    <3>1. Len(children) + 1 \in DOMAIN children'
      BY <1>4, <1>5, SMTT(60)
    <3> QED BY <1>3, <1>5, <2>1, <3>1
  <2>2. CASE k # m
    <3>1. \A i \in DOMAIN children : i \in DOMAIN children' /\ children'[i] = children[i]
      BY <1>4, <1>5, SMTT(60)
    <3> QED BY <1>6, <2>2, <3>1 DEF Res, NumbersOwned
  <2> QED BY <2>1, <2>2
<1>11. Owners' /\ Truth'
  <2> HIDE DEF e
  <2>0. PICK o \in {Stranger} \cup Process : o = <<"child", Len(children) + 1>>
    <3>1. <<"child", Len(children) + 1>> \in {Stranger} \cup Process
      BY <1>4 DEF Process
    <3> QED BY <3>1
  <2>1. \A i \in DOMAIN children : i \in DOMAIN children' /\ children'[i] = children[i]
    BY <1>4, <1>5, SMTT(60)
  <2>2. DOMAIN children' \ DOMAIN children = {Len(children) + 1}
    BY <1>4, <1>5, SMTT(60)
  <2>3. \A k \in DOMAIN children' \ DOMAIN children :
          /\ o = <<"child", k>> /\ children'[k].pid = p
          /\ children'[k].waited = FALSE /\ \A l \in DOMAIN children : l < k
    BY <1>3, <1>4, <1>5, <2>0, <2>2, SMTT(60)
  <2>4. \A i \in Nat : o = <<"child", i>> => i \in DOMAIN children' \ DOMAIN children
    BY <2>0, <2>2, WhoseTags
  <2>5. \A j : o # <<"popen", j>>
    BY <2>0, WhoseTags
  <2>6. /\ \A j \in DOMAIN ps : j \in DOMAIN ps' /\ ps'[j].pid = ps[j].pid /\ ps'[j].gone = ps[j].gone
        /\ DOMAIN ps' \ DOMAIN ps = {}
    BY <1>7
  <2>7. Starts(p, o)
    BY <1>7, <2>0
  <2>8. \A j \in DOMAIN ps' \ DOMAIN ps : o = <<"popen", j>> /\ ps'[j].pid = p /\ ps'[j].gone = FALSE
    BY <2>6
  <2>11. \A j \in Nat : o = <<"popen", j>> => j \in DOMAIN ps' \ DOMAIN ps
    BY <2>5
  <2>9. \A k \in DOMAIN children :
          /\ k \in DOMAIN children' /\ children'[k].pid = children[k].pid
          /\ children'[k].waited = children[k].waited
    BY <2>1
  <2>10. \A j \in DOMAIN ps :
           j \in DOMAIN ps' /\ ps'[j].pid = ps[j].pid /\ ps'[j].gone = ps[j].gone
    BY <2>6
  <2>12. NewHandle(p, o)
    BY <2>3, <2>4, <2>8, <2>9, <2>10, <2>11, Zenon DEF NewHandle
  <2> QED BY <2>7, <2>12, StartsNew
<1>12. NoPidfd'
  <2> HIDE DEF e
  <2>1. \A i \in DOMAIN children' : \/ i \in DOMAIN children /\ children'[i] = children[i]
                                    \/ children'[i] = e
    BY <1>4, <1>5, SMTT(60)
  <2> QED BY <1>3, <2>1 DEF Res, NoPidfd
<1> QED BY <1>8, <1>9, <1>10, <1>11, <1>12 DEF Res

\* The child that never runs a program is nobody's.
LEMMA SpawnErrorRes ==
  ASSUME Res, NEW p \in Pid, spawn_error(p), UNCHANGED ps
  PROVE  Res'
BY ResStutter DEF spawn_error, resvars

\* The launch pipe of a fork that failed is nobody's.
LEMMA ForkRaisesRes ==
  ASSUME Res, fork_raises, UNCHANGED ps
  PROVE  Res'
<1>1. PICK n \in Num, m \in Num :
        /\ LowestTwo(n, m)
        /\ table' = [table EXCEPT ![n] = <<"launch", 0>>, ![m] = <<"launch", 0>>]
  BY DEF fork_raises
<1>2. n # m /\ table[n] = Free /\ table[m] = Free
  BY <1>1, SMTT(60) DEF LowestTwo, Lowest, Free, Res, ResType, KernelType
<1>3. /\ table'[n] = <<"launch", 0>> /\ table'[m] = <<"launch", 0>>
      /\ \A k \in Num : k # n /\ k # m => table'[k] = table[k]
      /\ \A k \in Num : table[k] # Free => table'[k] = table[k]
      /\ table' \in [Num -> {Free} \cup (Kind \X Nat)]
  <2>1. <<"launch", 0>> \in Kind \X Nat
    BY DEF Kind
  <2> QED BY <1>1, <1>2, <2>1, EnteredTwo DEF Res, ResType, KernelType
<1>4. UNCHANGED <<proc, whose, fds, children, ps>>
  BY DEF fork_raises
<1>5. ResType'
  BY <1>3, <1>4 DEF Res, ResType, KernelType
<1>6. HandlesOwnTheirNumber'
  <2>1. fds' = fds /\ children' = children /\ ps' = ps
    BY <1>4
  <2> QED BY <1>3, <2>1, UsedKeep DEF HandlesOwnTheirNumber
<1>7. NumbersOwned'
  <2>1. \A k \in Num : table'[k] \in {Free, <<"launch", 0>>} \/ table'[k] = table[k]
    BY <1>3
  <2> QED BY <1>4, <2>1 DEF Res, NumbersOwned
<1> QED BY <1>4, <1>5, <1>6, <1>7, HandlesStay DEF Res

LEMMA SendRes ==
  ASSUME Res, NEW i \in DOMAIN children, send(i), UNCHANGED ps
  PROVE  Res'
BY SignalRes DEF send

LEMMA SendGroupRes ==
  ASSUME Res, NEW g \in Pid, send_group(g), UNCHANGED ps
  PROVE  Res'
BY SignalRes DEF send_group

\* What the processes do on their own.
LEMMA KernelRes ==
  ASSUME Res, NEW p \in Pid, ProcessExits(p) \/ PidReused(p), UNCHANGED <<fds, children, ps>>
  PROVE  Res'
<1>1. CASE ProcessExits(p)
  BY <1>1, SignalRes DEF ProcessExits
<1>2. CASE PidReused(p)
  <2>1. Starts(p, Stranger) /\ UNCHANGED <<table, fds, children, ps>>
    BY <1>2 DEF PidReused
  <2>2. /\ \A i : Stranger # <<"child", i>> /\ Stranger # <<"popen", i>>
        /\ DOMAIN children' \ DOMAIN children = {} /\ DOMAIN ps' \ DOMAIN ps = {}
    BY <2>1, WhoseTags
  <2>3. Owners' /\ Truth'
    BY <2>1, <2>2, StartsStep
  <2>4. KernelType'
    BY <2>1, StartedType DEF Res, ResType, KernelType
  <2>5. UNCHANGED <<table, fds, children, ps>>
    BY <2>1
  <2>6. ResType'
    BY <2>4, <2>5 DEF Res, ResType
  <2>7. HandlesOwnTheirNumber'
    BY <2>5 DEF Res, HandlesOwnTheirNumber
  <2>8. NumbersOwned'
    BY <2>5 DEF Res, NumbersOwned
  <2>9. NoPidfd'
    BY <2>5 DEF Res, NoPidfd
  <2> QED BY <2>3, <2>6, <2>7, <2>8, <2>9 DEF Res
<1> QED BY <1>1, <1>2

\* The handle of a child that is waited for.
LEMMA SpentChild ==
  ASSUME NEW c \in LinuxChild
  PROVE  LET d == [c EXCEPT !.waited = TRUE, !.pidfd = 0] IN
           d \in LinuxChild /\ d.waited = TRUE /\ d.pidfd = 0 /\ d.pid = c.pid
<1>1. 0 \in 0..MaxNum
  BY MaxNumNat
<1>2. [c EXCEPT !.waited = TRUE, !.pidfd = 0] \in LinuxChild
  BY <1>1, Zenon DEF LinuxChild
<1> QED BY <1>2, SMTT(60) DEF LinuxChild

\* A wait has seen the end of p, and the handle with that number that
\* _find_child returns, or the handle of p, is spent and its pidfd closed.
LEMMA FinishRes ==
  ASSUME Res, NEW p \in Pid, proc[p] = "zombie", Ended({p}, {}),
         NEW i \in DOMAIN children, children[i].pid = p,
         has_process(i) \/ find_child(p, i),
         finish_terminal(i), UNCHANGED ps
  PROVE  Res'
<1> DEFINE n == children[i].pidfd
           c == [children[i] EXCEPT !.waited = TRUE, !.pidfd = 0]
<1>1. /\ children[i] \in LinuxChild /\ children \in Seq(LinuxChild)
      /\ DOMAIN children = 1..Len(children) /\ Len(children) \in Nat
      /\ KernelType /\ table \in [Num -> {Free} \cup (Kind \X Nat)]
      /\ children[i].waited \in BOOLEAN
  BY Elements DEF Res, ResType, KernelType
<1>2. n \notin Num \/ (n \in Num /\ table[n] = <<"pidfd", i>>)
  <2>1. CASE children[i].waited
    <3>1. n = 0
      BY <2>1 DEF Res, NoPidfd
    <3> QED BY <3>1, MaxNumNat, SMTT(60) DEF Num
  <2>2. CASE ~children[i].waited
    BY <2>2, OwnFacts
  <2> QED BY <2>1, <2>2
<1>3. c \in LinuxChild /\ c.waited = TRUE /\ c.pidfd = 0 /\ c.pid = p
  BY <1>1, SpentChild
<1>4. /\ table' = CloseAll({n}) /\ children' = [children EXCEPT ![i] = c]
      /\ UNCHANGED fds /\ UNCHANGED ps
  <2>1. children' = [children EXCEPT ![i].waited = TRUE, ![i].pidfd = 0]
    BY Zenon DEF finish_terminal
  <2>2. [children EXCEPT ![i].waited = TRUE, ![i].pidfd = 0] = [children EXCEPT ![i] = c]
    BY Zenon
  <2>3. table' = CloseAll({n}) /\ UNCHANGED fds
    BY Zenon DEF finish_terminal
  <2> QED BY <2>1, <2>2, <2>3
<1> HIDE DEF c
<1>5. /\ children' \in Seq(LinuxChild) /\ DOMAIN children' = DOMAIN children
      /\ children'[i] = c
      /\ \A k \in DOMAIN children : k # i => children'[k] = children[k]
  <2>1. /\ [children EXCEPT ![i] = c] \in Seq(LinuxChild)
        /\ DOMAIN [children EXCEPT ![i] = c] = DOMAIN children
    BY <1>1, <1>3, UpdateFacts
  <2>2. [children EXCEPT ![i] = c][i] = c /\ \A k \in DOMAIN children : k # i => [children EXCEPT ![i] = c][k] = children[k]
    BY Zenon
  <2> QED BY <1>4, <2>1, <2>2
<1>6. /\ proc' \in [Pid -> ProcState] /\ whose' \in [Pid -> {Nobody, Stranger} \cup Process]
  BY <1>1, EndedFacts
<1>7. /\ table' \in [Num -> {Free} \cup (Kind \X Nat)]
      /\ \A k \in Num : k # n => table'[k] = table[k]
      /\ n \in Num => table'[n] = Free
  BY <1>1, <1>4, SMTT(60) DEF CloseAll
<1> HIDE DEF n
<1>8. ResType'
  BY <1>4, <1>5, <1>6, <1>7 DEF Res, ResType, KernelType
<1>9. HandlesOwnTheirNumber'
  <2>1. \A k \in DOMAIN children : k # i /\ ~children[k].waited => children[k].pidfd # n
    BY <1>2, OwnFacts, Tags
  <2>2. \A k \in DOMAIN fds : ~fds[k].closed => fds[k].num # n
    BY <1>2, OwnFacts, Tags
  <2>3. \A j \in DOMAIN ps : ps[j].stdout # n /\ (ps[j].stdin # 0 => ps[j].stdin # n)
    BY <1>2, OwnFacts, Tags
  <2>4. ASSUME NEW k \in DOMAIN children', ~children'[k].waited
        PROVE  children'[k].pidfd \in Num /\ table'[children'[k].pidfd] = <<"pidfd", k>>
    <3>1. k \in DOMAIN children /\ k # i /\ children'[k] = children[k]
      BY <1>3, <1>5, <2>4
    <3>2. children[k].pidfd \in Num /\ table[children[k].pidfd] = <<"pidfd", k>> /\ children[k].pidfd # n
      BY <2>1, <2>4, <3>1, OwnFacts
    <3> QED BY <1>7, <3>1, <3>2
  <2> QED BY <1>4, <1>7, <2>2, <2>3, <2>4, OwnFacts, FdsKeep, PsKeep DEF HandlesOwnTheirNumber
<1>10. NumbersOwned'
  <2> SUFFICES ASSUME NEW k \in Num, k # n
               PROVE  \/ table'[k] \in {Free, <<"launch", 0>>}
                      \/ \E l \in DOMAIN fds : ~fds[l].closed /\ fds[l].num = k
                      \/ \E l \in DOMAIN children' : ~children'[l].waited /\ children'[l].pidfd = k
                      \/ \E j \in DOMAIN ps : k \in {ps[j].stdin, ps[j].stdout}
    BY <1>4, <1>7 DEF NumbersOwned
  <2>1. \A l \in DOMAIN children : ~children[l].waited /\ children[l].pidfd = k =>
          l # i /\ children'[l] = children[l]
    BY <1>5 DEF n
  <2> QED BY <1>5, <1>7, <2>1 DEF Res, NumbersOwned
<1>11. NoPidfd'
  BY <1>3, <1>5 DEF Res, NoPidfd
<1>12. Owners' /\ Truth'
  <2>1. ASSUME NEW k \in DOMAIN children
        PROVE  /\ children'[k].pid = children[k].pid
               /\ children[k].waited => children'[k].waited
               /\ children'[k].waited /\ ~children[k].waited => ~has_process(k) \/ children[k].pid \in {p}
               /\ has_process(k) /\ children[k].pid \in {p} =>
                    children'[k].waited \/ \E l \in 1..(k - 1) : children[l].pid = children[k].pid
    <3>1. CASE k = i
      BY <1>3, <1>5, <3>1
    <3>2. CASE k # i
      <4>1. children'[k] = children[k]
        BY <1>5, <3>2
      <4>2. ASSUME has_process(k), children[k].pid = p
            PROVE  i \in 1..(k - 1)
        <5>1. whose[p] = <<"child", k>>
          BY <4>2 DEF has_process
        <5>2. ~has_process(i)
          BY <3>2, <5>1, WhoseTags DEF has_process
        <5>3. \A j \in 1..(i - 1) : children[j].pid # p
          BY <5>2 DEF find_child
        <5>4. k \notin 1..(i - 1)
          BY <4>2, <5>3
        <5> QED BY <1>1, <3>2, <5>4, SMTT(60)
      <4> QED BY <4>1, <4>2
    <3> QED BY <3>1, <3>2
  <2>2. ASSUME NEW j \in DOMAIN ps
        PROVE  /\ ps'[j].pid = ps[j].pid /\ ps'[j].gone = ps[j].gone
               /\ ps[j].pid \in {p} => \E k \in DOMAIN children : children[k].pid = ps[j].pid
    BY <1>4
  <2>3. DOMAIN children' = DOMAIN children /\ DOMAIN ps' = DOMAIN ps
    BY <1>4, <1>5
  <2> QED BY <2>1, <2>2, <2>3, EndedStep
<1> QED BY <1>8, <1>9, <1>10, <1>11, <1>12 DEF Res

LEMMA WaitExitRes ==
  ASSUME Res, NEW i \in DOMAIN children, wait_exit(i), UNCHANGED ps
  PROVE  Res'
<1>1. children[i].pid \in Pid
  BY Elements DEF Res
<1> QED BY <1>1, FinishRes DEF wait_exit

LEMMA FromWaitidRes ==
  ASSUME Res, NEW p \in Pid, from_waitid(p), UNCHANGED ps
  PROVE  Res'
<1>1. PICK i \in DOMAIN children : find_child(p, i) /\ finish_terminal(i)
  BY DEF from_waitid
<1>2. children[i].pid = p /\ proc[p] = "zombie" /\ Ended({p}, {})
  BY <1>1 DEF from_waitid, find_child
<1> QED BY <1>1, <1>2, FinishRes

LEMMA WaitChildRes ==
  ASSUME Res, NEW i \in DOMAIN children, wait_child(i), UNCHANGED ps
  PROVE  Res'
<1>1. children[i].pid \in Pid
  BY Elements DEF Res
<1> QED BY <1>1, FromWaitidRes DEF wait_child

LEMMA WaitGroupRes ==
  ASSUME Res, NEW g \in Pid, wait_group(g), UNCHANGED ps
  PROVE  Res'
BY FromWaitidRes DEF wait_group

-----------------------------------------------------------------------------
\* Popen of a new process.
LEMMA PopenRes ==
  ASSUME Res, NEW p \in Pid, popen(p), UNCHANGED <<fds, children>>
  PROVE  Res'
<1>1. PICK n \in Num, m \in Num :
        /\ LowestTwo(n, m)
        /\ table' = [table EXCEPT ![n] = <<"stdin", Len(ps) + 1>>, ![m] = <<"stdout", Len(ps) + 1>>]
        /\ ps' = Append(ps, [pid |-> p, stdin |-> n, stdout |-> m, gone |-> FALSE])
  BY DEF popen
<1> DEFINE e == [pid |-> p, stdin |-> n, stdout |-> m, gone |-> FALSE]
<1>2. n # m /\ table[n] = Free /\ table[m] = Free
  BY <1>1, SMTT(60) DEF LowestTwo, Lowest, Free, Res, ResType, KernelType
<1>3. e \in Popen /\ e.pid = p /\ e.stdin = n /\ e.stdout = m /\ e.gone = FALSE
  BY MaxNumNat, SMTT(60) DEF Popen, Num
<1>4. ps \in Seq(Popen) /\ DOMAIN ps = 1..Len(ps) /\ Len(ps) \in Nat
  BY Elements DEF Res, ResType
<1>5. /\ ps' \in Seq(Popen)
      /\ DOMAIN ps' = 1..(Len(ps) + 1)
      /\ \A i \in 1..Len(ps) : ps'[i] = ps[i]
      /\ ps'[Len(ps) + 1] = e
  <2>1. ps' = Append(ps, e)
    BY <1>1
  <2> HIDE DEF e
  <2> QED BY <1>3, <1>4, <2>1, AppendFacts
<1>6. /\ table'[n] = <<"stdin", Len(ps) + 1>> /\ table'[m] = <<"stdout", Len(ps) + 1>>
      /\ \A k \in Num : k # n /\ k # m => table'[k] = table[k]
      /\ \A k \in Num : table[k] # Free => table'[k] = table[k]
      /\ table' \in [Num -> {Free} \cup (Kind \X Nat)]
  <2>1. <<"stdin", Len(ps) + 1>> \in Kind \X Nat /\ <<"stdout", Len(ps) + 1>> \in Kind \X Nat
    BY <1>4 DEF Kind
  <2> QED BY <1>1, <1>2, <2>1, EnteredTwo DEF Res, ResType, KernelType
<1>7. /\ UNCHANGED <<fds, children>> /\ Starts(p, <<"popen", Len(ps) + 1>>)
      /\ <<"popen", Len(ps) + 1>> \in {Stranger} \cup Process
  BY <1>4 DEF popen, Process
<1>7a. /\ proc' \in [Pid -> ProcState] /\ whose' \in [Pid -> {Nobody, Stranger} \cup Process]
  BY <1>7, StartedType DEF Res, ResType
<1>8. ResType'
  BY <1>5, <1>6, <1>7, <1>7a DEF Res, ResType, KernelType
<1>9. HandlesOwnTheirNumber'
  <2>1. \A i \in DOMAIN ps' : /\ table'[ps'[i].stdout] = <<"stdout", i>>
                              /\ ps'[i].stdin # 0 => table'[ps'[i].stdin] = <<"stdin", i>>
    <3> SUFFICES ASSUME NEW i \in DOMAIN ps'
                 PROVE  /\ table'[ps'[i].stdout] = <<"stdout", i>>
                        /\ ps'[i].stdin # 0 => table'[ps'[i].stdin] = <<"stdin", i>>
      OBVIOUS
    <3>1. CASE i \in 1..Len(ps)
      BY <1>4, <1>5, <1>6, <3>1, UsedKeep
    <3>2. CASE i = Len(ps) + 1
      BY <1>3, <1>5, <1>6, <3>2
    <3> QED BY <1>4, <1>5, <3>1, <3>2
  <2>2. /\ \A i \in DOMAIN fds' : ~fds'[i].closed => table'[fds'[i].num] = <<"fd", i>>
        /\ \A i \in DOMAIN children' : ~children'[i].waited =>
               children'[i].pidfd \in Num /\ table'[children'[i].pidfd] = <<"pidfd", i>>
    <3>1. fds' = fds /\ children' = children
      BY <1>7
    <3>2. /\ \A i \in DOMAIN fds : ~fds[i].closed => table'[fds[i].num] = <<"fd", i>>
          /\ \A i \in DOMAIN children : ~children[i].waited =>
               children[i].pidfd \in Num /\ table'[children[i].pidfd] = <<"pidfd", i>>
      BY <1>6, UsedKeep
    <3> QED BY <3>1, <3>2
  <2> QED BY <2>1, <2>2 DEF HandlesOwnTheirNumber
<1>10. NumbersOwned'
  <2> SUFFICES ASSUME NEW k \in Num
               PROVE  \/ table'[k] \in {Free, <<"launch", 0>>}
                      \/ \E i \in DOMAIN fds : ~fds[i].closed /\ fds[i].num = k
                      \/ \E i \in DOMAIN children : ~children[i].waited /\ children[i].pidfd = k
                      \/ \E j \in DOMAIN ps' : k \in {ps'[j].stdin, ps'[j].stdout}
    BY <1>7 DEF NumbersOwned
  <2>1. CASE k \in {n, m}
    <3>1. Len(ps) + 1 \in DOMAIN ps'
      BY <1>4, <1>5, SMTT(60)
    <3> QED BY <1>3, <1>5, <2>1, <3>1
  <2>2. CASE k \notin {n, m}
    <3>1. \A i \in DOMAIN ps : i \in DOMAIN ps' /\ ps'[i] = ps[i]
      BY <1>4, <1>5, SMTT(60)
    <3> QED BY <1>6, <2>2, <3>1 DEF Res, NumbersOwned
  <2> QED BY <2>1, <2>2
<1>11. Owners' /\ Truth'
  <2> HIDE DEF e
  <2>1. \A i \in DOMAIN ps : i \in DOMAIN ps' /\ ps'[i] = ps[i]
    BY <1>4, <1>5, SMTT(60)
  <2>2. DOMAIN ps' \ DOMAIN ps = {Len(ps) + 1}
    BY <1>4, <1>5, SMTT(60)
  <2>3. \A k \in DOMAIN ps' \ DOMAIN ps :
          <<"popen", Len(ps) + 1>> = <<"popen", k>> /\ ps'[k].pid = p /\ ps'[k].gone = FALSE
    BY <1>3, <1>5, <2>2
  <2>4. \A i \in Nat : <<"popen", Len(ps) + 1>> = <<"popen", i>> => i \in DOMAIN ps' \ DOMAIN ps
    BY <2>2, WhoseTags
  <2>5. \A j : <<"popen", Len(ps) + 1>> # <<"child", j>>
    BY WhoseTags
  <2>6. /\ \A k \in DOMAIN children : /\ k \in DOMAIN children' /\ children'[k].pid = children[k].pid
                                      /\ children'[k].waited = children[k].waited
        /\ DOMAIN children' \ DOMAIN children = {}
    BY <1>7
  <2> QED BY <1>7, <2>1, <2>3, <2>4, <2>5, <2>6, StartsStep
<1>12. NoPidfd'
  BY <1>7 DEF Res, NoPidfd
<1> QED BY <1>8, <1>9, <1>10, <1>11, <1>12 DEF Res

\* poll or wait of a Popen whose process has ended.
LEMMA ReapRes ==
  ASSUME Res, NEW j \in DOMAIN ps, reap(j), UNCHANGED <<table, fds, children>>
  PROVE  Res'
<1> DEFINE p == ps[j].pid
           e == [ps[j] EXCEPT !.gone = TRUE]
<1>1. /\ ps[j] \in Popen /\ p \in Pid /\ ps \in Seq(Popen) /\ KernelType
      /\ ~ps[j].gone
  BY Elements DEF Res, ResType, reap
<1>2. e \in Popen
  BY <1>1, Zenon DEF Popen
<1>3. /\ e.gone = TRUE /\ e.pid = p /\ e.stdin = ps[j].stdin /\ e.stdout = ps[j].stdout
  BY <1>1, <1>2, SMTT(60) DEF Popen
<1>4. /\ ps' = [ps EXCEPT ![j] = e]
      /\ Ended(IF Ours(p) THEN {p} ELSE {}, {})
      /\ table' = table /\ fds' = fds /\ children' = children
  <2>1. ps' = [ps EXCEPT ![j].gone = TRUE] /\ Ended(IF Ours(p) THEN {p} ELSE {}, {})
    BY Zenon DEF reap
  <2> QED BY <2>1, Zenon
<1> HIDE DEF e
<1>5. /\ ps' \in Seq(Popen) /\ DOMAIN ps' = DOMAIN ps
      /\ ps'[j] = e
      /\ \A k \in DOMAIN ps : k # j => ps'[k] = ps[k]
  <2>1. [ps EXCEPT ![j] = e] \in Seq(Popen) /\ DOMAIN [ps EXCEPT ![j] = e] = DOMAIN ps
    BY <1>1, <1>2, UpdateFacts
  <2>2. [ps EXCEPT ![j] = e][j] = e /\ \A k \in DOMAIN ps : k # j => [ps EXCEPT ![j] = e][k] = ps[k]
    BY Zenon
  <2> QED BY <1>4, <2>1, <2>2
<1>6. /\ proc' \in [Pid -> ProcState] /\ whose' \in [Pid -> {Nobody, Stranger} \cup Process]
  BY <1>1, <1>4, EndedFacts
<1>7. \A k \in DOMAIN ps : /\ ps'[k].stdin = ps[k].stdin /\ ps'[k].stdout = ps[k].stdout
                           /\ ps'[k].pid = ps[k].pid
  BY <1>3, <1>5
<1> HIDE DEF p
<1>8. ResType'
  BY <1>4, <1>5, <1>6 DEF Res, ResType, KernelType
<1>9. HandlesOwnTheirNumber'
  <2>1. \A k \in DOMAIN ps' : k \in DOMAIN ps /\ ps'[k].stdin = ps[k].stdin /\ ps'[k].stdout = ps[k].stdout
    BY <1>5, <1>7
  <2>2. \A k \in DOMAIN ps' : /\ table[ps'[k].stdout] = <<"stdout", k>>
                              /\ ps'[k].stdin # 0 => table[ps'[k].stdin] = <<"stdin", k>>
    BY <2>1 DEF Res, HandlesOwnTheirNumber
  <2> QED BY <1>4, <2>2 DEF Res, HandlesOwnTheirNumber
<1>10. NumbersOwned'
  BY <1>4, <1>5, <1>7 DEF Res, NumbersOwned
<1>11. NoPidfd'
  BY <1>4 DEF Res, NoPidfd
<1>12. Owners' /\ Truth'
  <2> DEFINE R == IF Ours(p) THEN {p} ELSE {}
  <2>0. /\ R \subseteq {p} /\ Owners /\ Truth
        /\ DOMAIN children = 1..Len(children) /\ Len(children) \in Nat
    BY Elements DEF Res
  <2>1. ASSUME NEW k \in DOMAIN children, has_process(k), children[k].pid = p
        PROVE  \E l \in 1..(k - 1) : children[l].pid = children[k].pid
    <3>1. whose[p] = <<"child", k>>
      BY <2>1 DEF has_process
    <3>2. MissedPopen(j)
      BY <1>1, <3>1, WhoseTags DEF MissedPopen, p
    <3>3. PICK l \in DOMAIN children : children[l].pid = ps[j].pid /\ whose[ps[j].pid] # <<"child", l>>
      BY <2>0, <3>2 DEF Truth
    <3>4. children[l].pid = p /\ l # k
      BY <3>1, <3>3 DEF p
    <3>5. l <= k
      BY <1>1, <2>0, <3>1, <3>4 DEF Owners
    <3> QED BY <2>0, <2>1, <3>4, <3>5, SMTT(60)
  <2>2. ASSUME NEW k \in DOMAIN ps
        PROVE  /\ ps'[k].pid = ps[k].pid
               /\ ps[k].gone => ps'[k].gone
               /\ ps'[k].gone /\ ~ps[k].gone => whose[ps[k].pid] # <<"popen", k>> \/ ps[k].pid \in R
               /\ whose[ps[k].pid] = <<"popen", k>> /\ ps[k].pid \in R =>
                    ps'[k].gone \/ \E l \in DOMAIN children : children[l].pid = ps[k].pid
    <3>1. CASE k = j
      <4>1. whose[p] = <<"popen", j>> => p \in R
        <5>1. whose[p] = <<"popen", j>> => whose[p] \in Process
          BY <1>1, Elements DEF Res, Process
        <5> QED BY <5>1 DEF Ours
      <4> QED BY <1>3, <1>5, <3>1, <4>1 DEF p
    <3>2. CASE k # j
      <4>1. ps'[k] = ps[k]
        BY <1>5, <3>2
      <4>2. ASSUME whose[ps[k].pid] = <<"popen", k>>, ps[k].pid \in R
            PROVE  \E l \in DOMAIN children : children[l].pid = ps[k].pid
        <5>1. ps[k].pid = ps[j].pid
          BY <2>0, <4>2 DEF p
        <5>2. MissedPopen(j)
          BY <1>1, <3>2, <4>2, <5>1, WhoseTags DEF MissedPopen
        <5>3. PICK l \in DOMAIN children : children[l].pid = ps[j].pid
          BY <2>0, <5>2 DEF Truth
        <5> QED BY <5>1, <5>3
      <4> QED BY <4>1, <4>2
    <3> QED BY <3>1, <3>2
  <2> HIDE DEF R
  <2>3. Ended(R, {}) /\ DOMAIN children' = DOMAIN children /\ DOMAIN ps' = DOMAIN ps
    BY <1>4, <1>5 DEF R
  <2>4. \A k \in DOMAIN children :
          /\ children'[k].pid = children[k].pid
          /\ children[k].waited = children'[k].waited
          /\ has_process(k) /\ children[k].pid \in R =>
               \E l \in 1..(k - 1) : children[l].pid = children[k].pid
    BY <1>4, <2>0, <2>1
  <2> QED BY <2>2, <2>3, <2>4, EndedStep
<1> QED BY <1>8, <1>9, <1>10, <1>11, <1>12 DEF Res

\* close_one closes the standard input of a process, and maybe does so again.
LEMMA StdinRes ==
  ASSUME Res, NEW j \in DOMAIN ps, table' = CloseAll({ps[j].stdin}),
         ps' = [ps EXCEPT ![j].stdin = 0], UNCHANGED <<proc, whose, fds, children>>
  PROVE  Res'
<1> DEFINE n == ps[j].stdin
           e == [ps[j] EXCEPT !.stdin = 0]
<1>1. /\ ps[j] \in Popen /\ ps \in Seq(Popen) /\ n \in 0..MaxNum
      /\ table \in [Num -> {Free} \cup (Kind \X Nat)]
  BY Elements DEF Res, ResType, KernelType
<1>2. e \in Popen
  <2>1. 0 \in 0..MaxNum
    BY MaxNumNat
  <2> QED BY <1>1, <2>1, Zenon DEF Popen
<1>3. e.gone = ps[j].gone /\ e.pid = ps[j].pid /\ e.stdin = 0 /\ e.stdout = ps[j].stdout
  BY <1>1, <1>2, SMTT(60) DEF Popen
<1>4. ps' = [ps EXCEPT ![j] = e] /\ proc' = proc /\ whose' = whose /\ fds' = fds /\ children' = children
  BY Zenon
<1> HIDE DEF e
<1>5. /\ ps' \in Seq(Popen) /\ DOMAIN ps' = DOMAIN ps
      /\ ps'[j] = e
      /\ \A k \in DOMAIN ps : k # j => ps'[k] = ps[k]
  <2>1. [ps EXCEPT ![j] = e] \in Seq(Popen) /\ DOMAIN [ps EXCEPT ![j] = e] = DOMAIN ps
    BY <1>1, <1>2, UpdateFacts
  <2>2. [ps EXCEPT ![j] = e][j] = e /\ \A k \in DOMAIN ps : k # j => [ps EXCEPT ![j] = e][k] = ps[k]
    BY Zenon
  <2> QED BY <1>4, <2>1, <2>2
<1>6. \A k \in DOMAIN ps : /\ ps'[k].stdout = ps[k].stdout /\ ps'[k].pid = ps[k].pid
                           /\ ps'[k].gone = ps[k].gone
                           /\ ps'[k].stdin = IF k = j THEN 0 ELSE ps[k].stdin
  BY <1>3, <1>5
<1>7. /\ table' \in [Num -> {Free} \cup (Kind \X Nat)]
      /\ \A k \in Num : k # n => table'[k] = table[k]
      /\ n \in Num => table'[n] = Free
  BY <1>1, SMTT(60) DEF CloseAll
<1>8. n # 0 => n \in Num /\ table[n] = <<"stdin", j>>
  BY OwnFacts
<1> HIDE DEF n
<1>9. ResType'
  BY <1>4, <1>5, <1>7 DEF Res, ResType, KernelType
<1>10. HandlesOwnTheirNumber'
  <2>1. \A i \in DOMAIN fds : ~fds[i].closed => fds[i].num \in Num /\ fds[i].num # n
    BY <1>8, OwnFacts, Tags, MaxNumNat, SMTT(60) DEF Num
  <2>2. \A i \in DOMAIN children : ~children[i].waited => children[i].pidfd \in Num /\ children[i].pidfd # n
    BY <1>8, OwnFacts, Tags, MaxNumNat, SMTT(60) DEF Num
  <2>3. \A k \in DOMAIN ps : ps[k].stdout \in Num /\ ps[k].stdout # n
    BY <1>8, OwnFacts, Tags, MaxNumNat, SMTT(60) DEF Num
  <2>4. \A k \in DOMAIN ps : k # j /\ ps[k].stdin # 0 => ps[k].stdin \in Num /\ ps[k].stdin # n
    BY <1>8, OwnFacts, Tags, MaxNumNat, SMTT(60) DEF Num
  <2>5. \A i \in DOMAIN fds' : ~fds'[i].closed => table'[fds'[i].num] = <<"fd", i>>
    BY <1>4, <1>7, <2>1, OwnFacts, ZenonT(60)
  <2>6. \A i \in DOMAIN children' : ~children'[i].waited =>
          children'[i].pidfd \in Num /\ table'[children'[i].pidfd] = <<"pidfd", i>>
    <3>1. ASSUME NEW i \in DOMAIN children, ~children[i].waited
          PROVE  children[i].pidfd \in Num /\ table'[children[i].pidfd] = <<"pidfd", i>>
      <4>1. children[i].pidfd \in Num /\ children[i].pidfd # n
        BY <2>2, <3>1
      <4>2. table[children[i].pidfd] = <<"pidfd", i>>
        BY <3>1, OwnFacts
      <4> QED BY <1>7, <4>1, <4>2
    <3> QED BY <1>4, <3>1
  <2>7. \A k \in DOMAIN ps' : table'[ps'[k].stdout] = <<"stdout", k>>
    <3>1. \A k \in DOMAIN ps : table'[ps[k].stdout] = <<"stdout", k>>
      BY <1>7, <2>3, OwnFacts
    <3> QED BY <1>5, <1>6, <3>1
  <2>8. \A k \in DOMAIN ps' : ps'[k].stdin # 0 => table'[ps'[k].stdin] = <<"stdin", k>>
    <3>1. \A k \in DOMAIN ps : k # j /\ ps[k].stdin # 0 => table'[ps[k].stdin] = <<"stdin", k>>
      BY <1>7, <2>4, OwnFacts
    <3> QED BY <1>5, <1>6, <3>1
  <2> QED BY <2>5, <2>6, <2>7, <2>8 DEF HandlesOwnTheirNumber
<1>11. NumbersOwned'
  <2>0. fds' = fds /\ children' = children
    BY <1>4
  <2>1. ASSUME NEW k \in Num
        PROVE  \/ table'[k] \in {Free, <<"launch", 0>>}
               \/ \E l \in DOMAIN fds' : ~fds'[l].closed /\ fds'[l].num = k
               \/ \E l \in DOMAIN children' : ~children'[l].waited /\ children'[l].pidfd = k
               \/ \E l \in DOMAIN ps' : k \in {ps'[l].stdin, ps'[l].stdout}
    <3>1. CASE k = n
      BY <1>7, <2>1, <3>1
    <3>2. CASE k # n
      <4>1. table'[k] = table[k]
        BY <1>7, <2>1, <3>2
      <4>2. ASSUME NEW l \in DOMAIN ps, k \in {ps[l].stdin, ps[l].stdout}
            PROVE  k \in {ps'[l].stdin, ps'[l].stdout}
        <5>1. CASE l = j
          BY <1>6, <3>2, <4>2, <5>1 DEF n
        <5>2. CASE l # j
          BY <1>6, <4>2, <5>2
        <5> QED BY <5>1, <5>2
      <4>3. \/ table[k] \in {Free, <<"launch", 0>>}
            \/ \E l \in DOMAIN fds : ~fds[l].closed /\ fds[l].num = k
            \/ \E l \in DOMAIN children : ~children[l].waited /\ children[l].pidfd = k
            \/ \E l \in DOMAIN ps : k \in {ps[l].stdin, ps[l].stdout}
        BY <2>1 DEF Res, NumbersOwned
      <4>4. DOMAIN ps' = DOMAIN ps
        BY <1>5
      <4> HIDE DEF n
      <4> QED BY <2>0, <4>1, <4>2, <4>3, <4>4
    <3> QED BY <3>1, <3>2
  <2> QED BY <2>1, Zenon DEF NumbersOwned
<1>12. Owners' /\ Truth' /\ NoPidfd'
  <2>1. Owners' /\ Truth'
    BY <1>4, <1>5, <1>6, SameProcesses
  <2>2. NoPidfd'
    BY <1>4 DEF Res, NoPidfd
  <2> QED BY <2>1, <2>2
<1> QED BY <1>9, <1>10, <1>11, <1>12 DEF Res

\* A step of close_one.
LEMMA CloseOneRes ==
  ASSUME Res, NEW j \in DOMAIN ps, close_one_poll(j) \/ close_one_wait(j),
         UNCHANGED <<fds, children>>
  PROVE  Res'
<1>1. CASE UNCHANGED <<table, proc, whose, ps>>
  BY <1>1, ResStutter DEF resvars
<1>2. CASE reap(j) /\ UNCHANGED table
  BY <1>2, ReapRes
<1>3. CASE table' = CloseAll({ps[j].stdin}) /\ ps' = [ps EXCEPT ![j].stdin = 0] /\ UNCHANGED <<proc, whose>>
  BY <1>3, StdinRes
<1>4. CASE Ended({}, {ps[j].pid}) /\ UNCHANGED <<table, ps>>
  BY <1>4, SignalRes
<1>5. CASE close_one_poll(j)
  BY <1>1, <1>2, <1>3, <1>5, Zenon DEF close_one_poll
<1>6. CASE close_one_wait(j)
  <2>1. \/ reap(j) /\ UNCHANGED table
        \/ (terminate(j) \/ kill(j)) /\ UNCHANGED <<table, ps>>
    BY <1>6, Zenon DEF close_one_wait
  <2> QED BY <1>1, <1>2, <1>4, <2>1 DEF terminate, kill
<1> QED BY <1>5, <1>6

\* A sequence rewritten element by element.
LEMMA MapFacts ==
  ASSUME NEW S, NEW s \in Seq(S), NEW t, t = [i \in DOMAIN s |-> t[i]],
         \A i \in DOMAIN s : t[i] \in S
  PROVE  t \in Seq(S) /\ DOMAIN t = DOMAIN s /\ Len(t) = Len(s)
<1>1. Len(s) \in Nat /\ DOMAIN s = 1..Len(s)
  BY LenProperties
<1>2. t \in [1..Len(s) -> S]
  BY <1>1
<1>3. t \in Seq(S)
  BY <1>1, <1>2, SeqDef
<1>4. DOMAIN t = 1..Len(t) /\ Len(t) \in Nat
  BY <1>3, LenProperties
<1>5. Len(t) = Len(s)
  BY <1>1, <1>2, <1>4, SMTT(60)
<1> QED BY <1>3, <1>4, <1>5, <1>1

\* rollback and cleanup.
LEMMA RollbackRes ==
  ASSUME Res, NEW nfd \in Nat, NEW nchild \in Nat, linux_rollback(nfd, nchild), UNCHANGED ps
  PROVE  /\ Res'
         /\ DOMAIN fds' = DOMAIN fds /\ Len(fds') = Len(fds)
         /\ DOMAIN children' = DOMAIN children /\ Len(children') = Len(children)
         /\ \A i \in DOMAIN fds : /\ fds'[i].closed = (i > nfd \/ fds[i].closed)
                                  /\ fds'[i].num = fds[i].num
         /\ \A i \in DOMAIN children : children'[i].waited = (i > nchild \/ children[i].waited)
         /\ \A p \in Pid :
              ~Missed(p) /\ ~(whose[p][1] = "child" /\ whose[p][2] > nchild) => Untouched(p)
         /\ \A p \in Pid : \A o : Running(p, o)' => Running(p, o)
<1> DEFINE F(i) == IF i > nfd THEN contain_fd(fds[i]) ELSE fds[i]
           C(i) == IF i > nchild THEN contain_child(children[i]) ELSE children[i]
           nums == contained_nums(nfd, nchild)
           pids == contained_pids(nchild)
           kpids == killed_pids(nchild)
<1>1. /\ table' = CloseAll(nums)
      /\ Ended(pids, kpids)
      /\ fds' = [i \in DOMAIN fds |-> F(i)]
      /\ children' = [i \in DOMAIN children |-> C(i)]
      /\ ps' = ps
  BY Zenon DEF linux_rollback
<1>2. /\ fds \in Seq(LinuxFd) /\ children \in Seq(LinuxChild)
      /\ table \in [Num -> {Free} \cup (Kind \X Nat)] /\ KernelType
      /\ DOMAIN fds = 1..Len(fds) /\ Len(fds) \in Nat
      /\ DOMAIN children = 1..Len(children) /\ Len(children) \in Nat
  BY Elements DEF Res, ResType, KernelType
<1>3. ASSUME NEW i \in DOMAIN fds
      PROVE  F(i) \in LinuxFd /\ F(i).num = fds[i].num /\ F(i).closed = (i > nfd \/ fds[i].closed)
  <2>1. fds[i] \in LinuxFd /\ fds[i].closed \in BOOLEAN
    BY Elements DEF Res
  <2>2. /\ contain_fd(fds[i]) \in LinuxFd /\ contain_fd(fds[i]).num = fds[i].num
        /\ contain_fd(fds[i]).closed = TRUE
    <3>1. contain_fd(fds[i]) \in LinuxFd
      BY <2>1, Zenon DEF contain_fd, LinuxFd
    <3>2. contain_fd(fds[i]).num = fds[i].num /\ contain_fd(fds[i]).closed = TRUE
      BY <2>1, SMTT(60) DEF contain_fd, LinuxFd
    <3> QED BY <3>1, <3>2
  <2>3. CASE i > nfd
    BY <2>2, <2>3, Zenon
  <2>4. CASE ~(i > nfd)
    BY <2>1, <2>4, Zenon
  <2> QED BY <2>3, <2>4
<1>4. ASSUME NEW i \in DOMAIN children
      PROVE  /\ C(i) \in LinuxChild /\ C(i).pid = children[i].pid
             /\ C(i).waited = (i > nchild \/ children[i].waited)
             /\ ~C(i).waited => C(i).pidfd = children[i].pidfd
             /\ C(i).waited => C(i).pidfd = 0
  <2>1. children[i] \in LinuxChild /\ children[i].waited \in BOOLEAN
    BY Elements DEF Res
  <2>2. CASE i > nchild /\ ~children[i].waited
    <3>1. C(i) = [children[i] EXCEPT !.pidfd = 0, !.waited = TRUE]
      BY <2>2, Zenon DEF contain_child
    <3>2. [children[i] EXCEPT !.pidfd = 0, !.waited = TRUE] \in LinuxChild
      <4>1. 0 \in 0..MaxNum
        BY MaxNumNat
      <4> QED BY <2>1, <4>1, Zenon DEF LinuxChild
    <3>3. /\ [children[i] EXCEPT !.pidfd = 0, !.waited = TRUE].pid = children[i].pid
          /\ [children[i] EXCEPT !.pidfd = 0, !.waited = TRUE].waited = TRUE
          /\ [children[i] EXCEPT !.pidfd = 0, !.waited = TRUE].pidfd = 0
      BY <2>1, SMTT(60) DEF LinuxChild
    <3> HIDE DEF C
    <3> QED BY <2>2, <3>1, <3>2, <3>3
  <2>3. CASE ~(i > nchild /\ ~children[i].waited)
    <3>1. C(i) = children[i]
      BY <2>3, Zenon DEF contain_child
    <3>2. children[i].waited => children[i].pidfd = 0
      BY DEF Res, NoPidfd
    <3> HIDE DEF C
    <3> QED BY <2>1, <2>3, <3>1, <3>2, Zenon
  <2> QED BY <2>2, <2>3
<1> HIDE DEF F, C
<1>5. /\ fds' \in Seq(LinuxFd) /\ DOMAIN fds' = DOMAIN fds /\ Len(fds') = Len(fds)
      /\ \A i \in DOMAIN fds : fds'[i].num = fds[i].num /\ fds'[i].closed = (i > nfd \/ fds[i].closed)
  <2>1. \A i \in DOMAIN fds : fds'[i] = F(i)
    BY <1>1, Zenon
  <2>2. fds' = [i \in DOMAIN fds |-> fds'[i]] /\ \A i \in DOMAIN fds : fds'[i] \in LinuxFd
    BY <1>1, <1>3, <2>1, Zenon
  <2>3. fds' \in Seq(LinuxFd) /\ DOMAIN fds' = DOMAIN fds /\ Len(fds') = Len(fds)
    BY <1>2, <2>2, MapFacts
  <2> QED BY <1>3, <2>1, <2>3
<1>6. /\ children' \in Seq(LinuxChild) /\ DOMAIN children' = DOMAIN children /\ Len(children') = Len(children)
      /\ \A i \in DOMAIN children : /\ children'[i].pid = children[i].pid
                                    /\ children'[i].waited = (i > nchild \/ children[i].waited)
                                    /\ ~children'[i].waited => children'[i].pidfd = children[i].pidfd
                                    /\ children'[i].waited => children'[i].pidfd = 0
  <2>1. \A i \in DOMAIN children : children'[i] = C(i)
    BY <1>1, Zenon
  <2>2. children' = [i \in DOMAIN children |-> children'[i]] /\ \A i \in DOMAIN children : children'[i] \in LinuxChild
    BY <1>1, <1>4, <2>1, Zenon
  <2>3. children' \in Seq(LinuxChild) /\ DOMAIN children' = DOMAIN children /\ Len(children') = Len(children)
    BY <1>2, <2>2, MapFacts
  <2> QED BY <1>4, <2>1, <2>3
<1>7. /\ table' \in [Num -> {Free} \cup (Kind \X Nat)]
      /\ \A k \in Num : k \notin nums => table'[k] = table[k]
      /\ \A k \in nums : k \in Num => table'[k] = Free
  BY <1>1, <1>2, SMTT(60) DEF CloseAll
<1>8. /\ \A i \in DOMAIN fds : i > nfd /\ ~fds[i].closed => fds[i].num \in nums
      /\ \A i \in DOMAIN children : i > nchild /\ ~children[i].waited => children[i].pidfd \in nums
      /\ \A k \in nums : \/ \E i \in DOMAIN fds : i > nfd /\ ~fds[i].closed /\ k = fds[i].num
                         \/ \E i \in DOMAIN children : i > nchild /\ ~children[i].waited /\ k = children[i].pidfd
  BY Zenon DEF contained_nums, fds_after, children_after
<1>9. /\ \A i \in DOMAIN children : i > nchild /\ ~children[i].waited /\ has_process(i) =>
           children[i].pid \in pids
      /\ \A p \in pids : \E i \in DOMAIN children : /\ i > nchild /\ ~children[i].waited
                                                    /\ has_process(i) /\ p = children[i].pid
      /\ \A p \in kpids : \E i \in DOMAIN children : MissedChild(i) /\ p = children[i].pid
  BY Zenon DEF contained_pids, killed_pids, children_after, MissedChild
<1> HIDE DEF nums, pids, kpids
<1>10. /\ proc' \in [Pid -> ProcState] /\ whose' \in [Pid -> {Nobody, Stranger} \cup Process]
  BY <1>1, <1>2, EndedFacts
<1>11. ResType'
  BY <1>1, <1>5, <1>6, <1>7, <1>10 DEF Res, ResType, KernelType
<1>12. /\ \A i \in DOMAIN fds : ~fds[i].closed /\ ~(i > nfd) => fds[i].num \in Num /\ fds[i].num \notin nums
       /\ \A i \in DOMAIN children : ~children[i].waited /\ ~(i > nchild) =>
            children[i].pidfd \in Num /\ children[i].pidfd \notin nums
       /\ \A j \in DOMAIN ps : /\ ps[j].stdout \in Num /\ ps[j].stdout \notin nums
                               /\ ps[j].stdin # 0 => ps[j].stdin \in Num /\ ps[j].stdin \notin nums
  <2>0. \A k \in nums : \/ \E i \in DOMAIN fds : i > nfd /\ table[k] = <<"fd", i>>
                        \/ \E i \in DOMAIN children : i > nchild /\ table[k] = <<"pidfd", i>>
    <3> SUFFICES ASSUME NEW k \in nums
                 PROVE  \/ \E i \in DOMAIN fds : i > nfd /\ table[k] = <<"fd", i>>
                        \/ \E i \in DOMAIN children : i > nchild /\ table[k] = <<"pidfd", i>>
      OBVIOUS
    <3>1. ASSUME NEW i \in DOMAIN fds, i > nfd, ~fds[i].closed, k = fds[i].num
          PROVE  i > nfd /\ table[k] = <<"fd", i>>
      BY <3>1, OwnFacts, Zenon
    <3>2. ASSUME NEW i \in DOMAIN children, i > nchild, ~children[i].waited, k = children[i].pidfd
          PROVE  i > nchild /\ table[k] = <<"pidfd", i>>
      BY <3>2, OwnFacts, Zenon
    <3> QED BY <1>8, <3>1, <3>2, Zenon
  <2>1. ASSUME NEW i \in DOMAIN fds, ~fds[i].closed, ~(i > nfd)
        PROVE  fds[i].num \in Num /\ fds[i].num \notin nums
    BY <2>0, <2>1, OwnFacts, Tags
  <2>2. ASSUME NEW i \in DOMAIN children, ~children[i].waited, ~(i > nchild)
        PROVE  children[i].pidfd \in Num /\ children[i].pidfd \notin nums
    BY <2>0, <2>2, OwnFacts, Tags
  <2>3. ASSUME NEW j \in DOMAIN ps
        PROVE  /\ ps[j].stdout \in Num /\ ps[j].stdout \notin nums
               /\ ps[j].stdin # 0 => ps[j].stdin \in Num /\ ps[j].stdin \notin nums
    BY <2>0, OwnFacts, Tags
  <2> QED BY <2>1, <2>2, <2>3
<1>13. HandlesOwnTheirNumber'
  <2>1. \A i \in DOMAIN fds' : ~fds'[i].closed => table'[fds'[i].num] = <<"fd", i>>
    BY <1>5, <1>7, <1>12, OwnFacts, ZenonT(60)
  <2>2. \A i \in DOMAIN children' : ~children'[i].waited =>
          children'[i].pidfd \in Num /\ table'[children'[i].pidfd] = <<"pidfd", i>>
    BY <1>6, <1>7, <1>12, OwnFacts, ZenonT(60)
  <2>3. \A j \in DOMAIN ps' : /\ table'[ps'[j].stdout] = <<"stdout", j>>
                              /\ ps'[j].stdin # 0 => table'[ps'[j].stdin] = <<"stdin", j>>
    BY <1>1, <1>7, <1>12, OwnFacts, PsKeep
  <2> QED BY <2>1, <2>2, <2>3 DEF HandlesOwnTheirNumber
<1>14. NumbersOwned'
  <2>0. ps' = ps
    BY <1>1
  <2> SUFFICES ASSUME NEW k \in Num
               PROVE  \/ table'[k] \in {Free, <<"launch", 0>>}
                      \/ \E i \in DOMAIN fds' : ~fds'[i].closed /\ fds'[i].num = k
                      \/ \E i \in DOMAIN children' : ~children'[i].waited /\ children'[i].pidfd = k
                      \/ \E j \in DOMAIN ps : k \in {ps[j].stdin, ps[j].stdout}
    BY <2>0 DEF NumbersOwned
  <2>1. CASE k \in nums
    BY <1>7, <2>1
  <2>2. CASE k \notin nums
    <3>1. table'[k] = table[k]
      BY <1>7, <2>2
    <3>2. \A i \in DOMAIN fds : ~fds[i].closed /\ fds[i].num = k =>
            i \in DOMAIN fds' /\ ~fds'[i].closed /\ fds'[i].num = k
      BY <1>5, <1>8, <2>2
    <3>3. \A i \in DOMAIN children : ~children[i].waited /\ children[i].pidfd = k =>
            i \in DOMAIN children' /\ ~children'[i].waited /\ children'[i].pidfd = k
      BY <1>6, <1>8, <2>2
    <3> QED BY <3>1, <3>2, <3>3 DEF Res, NumbersOwned
  <2> QED BY <2>1, <2>2
<1>15. NoPidfd'
  <2>1. \A i \in DOMAIN children : children'[i].waited => children'[i].pidfd = 0
    BY <1>6 DEF Res, NoPidfd
  <2> QED BY <1>6, <2>1 DEF NoPidfd
<1>16. Owners' /\ Truth'
  <2>1. ASSUME NEW k \in DOMAIN children
        PROVE  /\ children'[k].pid = children[k].pid
               /\ children[k].waited => children'[k].waited
               /\ children'[k].waited /\ ~children[k].waited => ~has_process(k) \/ children[k].pid \in pids
               /\ has_process(k) /\ children[k].pid \in pids => children'[k].waited
    <3>1. children'[k].pid = children[k].pid /\ children'[k].waited = (k > nchild \/ children[k].waited)
      BY <1>6
    <3>2. children'[k].waited /\ ~children[k].waited /\ has_process(k) => children[k].pid \in pids
      BY <1>9, <3>1
    <3>3. ASSUME has_process(k), children[k].pid \in pids
          PROVE  k > nchild
      <4>1. PICK i \in DOMAIN children : i > nchild /\ has_process(i) /\ children[k].pid = children[i].pid
        BY <1>9, <3>3
      <4>2. <<"child", k>> = <<"child", i>>
        BY <3>3, <4>1 DEF has_process
      <4>3. k = i
        BY <4>2, WhoseTags
      <4> QED BY <4>1, <4>3
    <3> QED BY <3>1, <3>2, <3>3
  <2>2. ASSUME NEW j \in DOMAIN ps
        PROVE  /\ ps'[j].pid = ps[j].pid /\ ps'[j].gone = ps[j].gone
               /\ whose[ps[j].pid] = <<"popen", j>> /\ ps[j].pid \in pids =>
                    \E k \in DOMAIN children : children[k].pid = ps[j].pid
    BY <1>1, <1>9
  <2> QED BY <1>1, <1>6, <2>1, <2>2, EndedStep
<1>17. ASSUME NEW p \in Pid, ~Missed(p), ~(whose[p][1] = "child" /\ whose[p][2] > nchild)
       PROVE  Untouched(p)
  <2>1. p \notin pids
    <3> SUFFICES ASSUME p \in pids PROVE FALSE
      OBVIOUS
    <3>1. PICK i \in DOMAIN children : i > nchild /\ has_process(i) /\ p = children[i].pid
      BY <1>9
    <3>2. whose[p] = <<"child", i>>
      BY <3>1 DEF has_process
    <3> QED BY <1>17, <3>1, <3>2, SMTT(60)
  <2>2. p \notin kpids
    BY <1>9, <1>17 DEF Missed
  <2> QED BY <1>1, <1>2, <2>1, <2>2, EndedFacts DEF Untouched
<1>18. ASSUME NEW p \in Pid, NEW o, Running(p, o)'
       PROVE  Running(p, o)
  <2>1. proc'[p] = "running" /\ whose'[p] = o
    BY <1>18 DEF Running
  <2>2. p \notin pids /\ (p \notin kpids \/ whose[p] # Stranger)
    BY <1>1, <1>2, <2>1, EndedFacts
  <2>3. proc[p] = "running" /\ whose[p] = whose'[p]
    BY <1>1, <1>2, <2>1, <2>2, EndedFacts
  <2> QED BY <2>1, <2>3 DEF Running
<1> QED BY <1>5, <1>6, <1>11, <1>13, <1>14, <1>15, <1>16, <1>17, <1>18 DEF Res
=============================================================================
