----------------------------- MODULE BCVerifier -----------------------------
(***************************************************************************)
(* What compiled code promises, and a check of the code that runs nothing  *)
(* and implies it.                                                         *)
(*                                                                         *)
(* The check knows a frame by a view: the instruction it comes to, the     *)
(* names bound in each of its scopes, the number h of its operands, the    *)
(* names of the pending bindings, whether the topmost operand is the       *)
(* outcome of the match these bindings come from or the literal true, and  *)
(* the statement that began last.  Steps is what an instruction makes of a *)
(* view.  A run comes with the views of each of its functions; Verified    *)
(* says that they hold those every call starts with, that no instruction   *)
(* leads out of them, and that an instruction met with one of them finds   *)
(* what it needs.                                                          *)
(***************************************************************************)
EXTENDS BCVM, FiniteSets

View(ip, names, h, bind, top, last) ==
  [ip |-> ip, names |-> names, h |-> h, bind |-> bind, top |-> top, last |-> last]
\* No bindings, or those of a pattern without names.
Quiet == {<<>>, <<{}>>}
\* The mark behind the last statement of a body.
EndMark == <<<<>>>>
Calling == {"CALL_NAMED", "CALL_VALUE"}
Local == {"LOAD", "LOCAL_PLACE", "LOCAL_INC_U64"}

\* The operands that an instruction takes, and whether it leaves one.
Takes(ins) ==
  CASE ins.op \in {"MAKE_REPEAT", "BIN", "INDEX", "ARRAY_PUSH", "INDEX_PLACE",
                   "STORE_PLACE"} -> 2
    [] ins.op \in {"MAKE_SOME", "NEW", "UNARY", "CAST", "GET_FIELD", "DEREF", "LEN",
                   "ARRAY_POP", "FIELD_PLACE", "VALUE_FIELD_PLACE", "DEREF_PLACE",
                   "LOAD_PLACE", "TRY_PATTERN", "PATTERN_TO_BOOL", "POP", "DECL",
                   "JUMP_IF_FALSE", "JUMP_IF_NO_MATCH", "SAVE_MATCH_VALUE", "RET"} -> 1
    [] ins.op = "ARRAY_SPLICE" -> 4
    [] ins.op = "MAKE_ARRAY"   -> ins.arg
    [] ins.op = "MAKE_STRUCT"  -> Len(ins.arg)
    [] ins.op = "MAKE_ENUM"    -> ins.arg[3]
    [] ins.op = "CALL_NAMED"   -> ins.arg[2]
    [] ins.op = "CALL_VALUE"   -> ins.arg + 1
    [] OTHER                   -> 0
Silent ==
  {"POP", "DECL", "STORE_PLACE", "LOCAL_INC_U64", "SCOPE_ENTER", "SCOPE_ENTER_BINDINGS",
   "SCOPE_EXIT", "UNWIND", "NO_BINDINGS", "DROP_BINDINGS", "MERGE_BINDINGS", "JUMP",
   "JUMP_IF_FALSE", "JUMP_IF_FALSE_KEEP", "JUMP_IF_TRUE_KEEP", "JUMP_IF_NO_MATCH",
   "SAVE_MATCH_VALUE", "CLEAR_MATCH_VALUE", "RET"}
Leaves(ins) == IF ins.op \in Silent THEN 0 ELSE 1

\* The view after a jump by a distance, and after no jump.
To(ins, a, by, names, bind, top) ==
  View(a.ip + by, names, a.h - Takes(ins) + Leaves(ins), bind, top,
       IF ins.mark = <<>> THEN a.last ELSE ins.mark)
On(ins, a, names, bind) == To(ins, a, 1, names, bind, "any")

\* A branch on an outcome goes the way the bindings say, one on the literal
\* true the way of true, another one either way.
Branched(ins, a, taken) ==
  To(ins, a, IF taken THEN ins.arg ELSE 1, a.names, a.bind, "any")
Branches(ins, a) == {Branched(ins, a, TRUE), Branched(ins, a, FALSE)}
Ways(ins, a, outcome) ==
  IF a.top = outcome THEN {Branched(ins, a, a.bind = <<>>)} ELSE Branches(ins, a)
Tested(ins, a) ==
  IF a.top = "true" THEN {Branched(ins, a, FALSE)} ELSE Ways(ins, a, "found")
Tried(ins, a) ==
  {To(ins, a, 1, a.names, b, "match") : b \in {<<>>, <<Names(ins.arg)>>}}
Called(ins, a) == {On(ins, a, a.names, b) : b \in Quiet}

\* The names of the pending bindings, and the innermost scope with more names.
NamesIn(bind) == IF bind = <<>> THEN {} ELSE bind[1]
Bind(names, more) == [names EXCEPT ![Len(names)] = @ \cup more]
Without(names, n) == SubSeq(names, 1, Len(names) - n)

\* The views an instruction may lead to, in the same frame.
Steps(ins, a) ==
  CASE ins.op \in {"RET", "TRAP", "TRAP_MATCH"} -> {}
    [] ins.op = "DECL"           -> {On(ins, a, Bind(a.names, {ins.arg}), a.bind)}
    [] ins.op = "SCOPE_ENTER"    -> {On(ins, a, Append(a.names, {}), a.bind)}
    [] ins.op = "SCOPE_ENTER_BINDINGS" ->
         {On(ins, a, Append(a.names, NamesIn(a.bind)), <<>>)}
    [] ins.op = "MERGE_BINDINGS" -> {On(ins, a, Bind(a.names, NamesIn(a.bind)), <<>>)}
    [] ins.op = "SCOPE_EXIT"     -> {On(ins, a, Without(a.names, 1), a.bind)}
    [] ins.op = "UNWIND"         -> {On(ins, a, Without(a.names, ins.arg), a.bind)}
    [] ins.op = "NO_BINDINGS"    ->
         {To(ins, a, 1, a.names, <<{}>>, IF a.top = "true" THEN "true" ELSE "any")}
    [] ins.op = "DROP_BINDINGS"  -> {On(ins, a, a.names, <<>>)}
    [] ins.op = "PUSH"           ->
         {To(ins, a, 1, a.names, a.bind, IF ins.arg = Bool(TRUE) THEN "true" ELSE "any")}
    [] ins.op = "TRY_PATTERN"    -> Tried(ins, a)
    [] ins.op = "PATTERN_TO_BOOL" ->
         {To(ins, a, 1, a.names, a.bind, IF a.top = "match" THEN "found" ELSE "any")}
    [] ins.op = "CLEAR_MATCH_VALUE" -> {To(ins, a, 1, a.names, a.bind, a.top)}
    [] ins.op = "JUMP"             -> {Branched(ins, a, TRUE)}
    [] ins.op = "JUMP_IF_FALSE"    -> Tested(ins, a)
    [] ins.op = "JUMP_IF_NO_MATCH" -> Ways(ins, a, "match")
    [] ins.op \in {"JUMP_IF_FALSE_KEEP", "JUMP_IF_TRUE_KEEP"} -> Branches(ins, a)
    [] ins.op \in Calling          -> Called(ins, a)
    [] OTHER                       -> {On(ins, a, a.names, a.bind)}

\* An instruction of function f that is met with the view a: the operands and
\* scopes are those the compiler counted and enough, a local is bound, no name
\* is bound twice, calls and statements find no bindings, a statement is one
\* that the graph lets follow, and the end of the body is only come to in a
\* function without a result.
Sound(r, f, a) ==
  /\ a.ip \in DOMAIN r.code[f].code
  /\ LET ins == r.code[f].code[a.ip]
         n == Len(a.names)
     IN  /\ n = ins.d /\ a.h = ins.h /\ a.h \in Nat
         /\ Takes(ins) \in 0 .. a.h
         /\ ins.op \in {"DUP", "JUMP_IF_FALSE_KEEP", "JUMP_IF_TRUE_KEEP"} => a.h > 0
         /\ ins.op = "RET" => a.h = 1
         /\ ins.op \in {"DECL", "SCOPE_EXIT", "MERGE_BINDINGS"} => n > 0
         /\ ins.op = "UNWIND" => ins.arg \in 0 .. n
         /\ ins.op \in Local => \E i \in 1 .. n : ins.arg \in a.names[i]
         /\ \A i, j \in 1 .. n : i # j => a.names[i] \cap a.names[j] = {}
         /\ ins.op \in Calling \cup {"RET"} => a.bind \in Quiet
         /\ ins.op = "CALL_NAMED" => ins.arg[1] \in DOMAIN r.code
         /\ ins.mark # <<>> =>
              /\ a.bind \in Quiet
              /\ <<a.last, ins.mark>> \in r.graph[f].flow
              /\ ins.mark[1] \notin r.graph[f].dead
         /\ ins.mark = EndMark => r.code[f].ret = "unit"

\* A call starts with its parameters and whatever quiet bindings are pending.
Entries(r, f) ==
  {View(1, <<ToSet(r.code[f].params)>>, 0, b, "any", <<>>) : b \in Quiet}

Verified(r) ==
  /\ "main" \in DOMAIN r.code /\ r.code["main"].params = <<>>
  /\ \A f \in DOMAIN r.code :
       /\ Entries(r, f) \subseteq r.views[f]
       /\ \A a \in r.views[f] :
            Sound(r, f, a) /\ Steps(r.code[f].code[a.ip], a) \subseteq r.views[f]

-----------------------------------------------------------------------------
graph == run.graph
IsRunning == status.sig = "running"
At_(fr) == code[fr.f].code[fr.ip]

\* What the compiler emits for a program that the checker accepts passes the
\* check.  (The code of a run stays the same; it is checked at the start.)
CodeVerified == frames = <<NewFrame("main", NoBindings, 0)>> => Verified(run)

TypeOK ==
  /\ status.sig \in {"running", "ok", "trap", "error"}
  /\ IsRunning <=> frames # <<>>
  /\ \A i \in DOMAIN frames :
       /\ frames[i].f \in DOMAIN code
       /\ frames[i].ip \in DOMAIN code[frames[i].f].code
       /\ frames[i].base \in 0..Len(stack)
  /\ Len(pending_bind) <= 1
  /\ pos \in 0..Len(input) /\ Len(out) <= MaxOut

\* Whichever way control came to an instruction, every frame has the scopes
\* and the operands that the compiler counted when it emitted it: no jump out
\* of a loop, a match or a block leaves a scope or an operand behind.
DepthsAsCompiled ==
  \A i \in DOMAIN frames :
    LET ins == At_(frames[i])
        \* a caller waits for the value of its call
        height == IF i = Len(frames) THEN Len(stack) ELSE frames[i + 1].base + 1
    IN  Len(frames[i].scopes) = ins.d /\ height = frames[i].base + ins.h

\* Every name an instruction uses is bound in the frame that runs.
NamesBound ==
  IsRunning /\ Ins.op \in Local => Owner(Ins.arg, Top.scopes) # 0

\* No local hides another of the same call, however the scopes were entered.
NoShadow ==
  \A f \in DOMAIN frames :
    LET scopes == frames[f].scopes
    IN  \A i, j \in DOMAIN scopes : i # j => DOMAIN scopes[i] \cap DOMAIN scopes[j] = {}

\* Bindings found by a pattern never wait across the start of a statement,
\* where the scope of another construct would take them.
NoStrayBindings ==
  IsRunning /\ Ins.mark # <<>> /\ pending_bind # <<>> => pending_bind[1] = NoBindings

\* Control goes from statement to statement along the edges of the graph.
FollowsGraph ==
  IsRunning /\ Ins.mark # <<>> => <<Top.last, Ins.mark>> \in graph[Top.f].flow

\* A statement the analysis reports as unreachable never runs.
UnreachableNeverRuns ==
  IsRunning /\ Ins.mark # <<>> => Ins.mark[1] \notin graph[Top.f].dead

\* A function that gives a value returns one: no run comes to the end of its
\* body, where the compiler would give unit for it.
FunctionsReturn == IsRunning /\ Ins.mark = EndMark => code[Top.f].ret = "unit"

=============================================================================
