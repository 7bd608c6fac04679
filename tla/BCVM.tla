--------------------------------- MODULE BCVM ---------------------------------
(***************************************************************************)
(* The stack machine of src/lang/bytecode.py: one action per instruction.  *)
(*                                                                         *)
(* A run takes one of the compiled programs and one of its inputs.         *)
(* frames holds the calls that are running, each with its own scopes; the  *)
(* operand stack, the heap, the value being matched and the bindings       *)
(* waiting for their scope are shared by all of them, as in the code.      *)
(*                                                                         *)
(* base, the height of the stack below a frame, and last, the statement it *)
(* began last, are kept for the properties only.                           *)
(***************************************************************************)
EXTENDS LangValues, TLC

\* The runs of compiled programs: the code by function name and the values
\* the host has for its read.
CONSTANT Loaded
ASSUME LoadedAssumption ==
  \A runs \in {Loaded} : \A i \in DOMAIN runs :
    runs[i].input \in Seq(ToSet(runs[i].input))

VARIABLES
  run,                \* the run that this is
  frames, stack, heap, match_value, pending_bind,
  out, pos,           \* what the host was given and how much it gave
  status              \* "running", or how the run ended

vars == <<run, frames, stack, heap, match_value, pending_bind, out, pos, status>>

code == run.code
input == run.input
Top == frames[Len(frames)]
Ins == code[Top.f].code[Top.ip]
Operand(i) == stack[Len(stack) + 1 - i]
\* The n topmost operands, the deepest first.
Last_n(n) == SubSeq(stack, Len(stack) - n + 1, Len(stack))
Drop(n) == SubSeq(stack, 1, Len(stack) - n)
Memory == [heap |-> heap, scopes |-> Top.scopes, out |-> out, input |-> input, pos |-> pos]

NewFrame(f, scope, base) ==
  [f |-> f, ip |-> 1, scopes |-> <<scope>>, base |-> base, last |-> <<>>]
Running == [sig |-> "running", v |-> Unit]

Init ==
  /\ \E runs \in {Loaded} : \E i \in DOMAIN runs : run = runs[i]
  /\ frames = <<NewFrame("main", NoBindings, 0)>>
  /\ stack = <<>> /\ heap = <<>>
  /\ match_value = Unit /\ pending_bind = <<>>
  /\ out = <<>> /\ pos = 0
  /\ status = Running

-----------------------------------------------------------------------------
(* What instructions have in common *)

Fetch(op) == status = Running /\ Ins.op = op

Remember == IF Ins.mark = <<>> THEN Top.last ELSE Ins.mark
\* The frame after the instruction, which jumps by the given distance.
Moved(scopes, by) == [Top EXCEPT !.ip = @ + by, !.scopes = scopes, !.last = Remember]
Frame(scopes, by) == frames' = [frames EXCEPT ![Len(frames)] = Moved(scopes, by)]
SameSlots == UNCHANGED <<run, match_value, pending_bind>>

\* (mutant: the frames of the run that trapped are kept)
RaiseKeepsFrames(m, n) ==
  /\ status' = [sig |-> "trap", v |-> Unit]
  /\ frames' = frames
  /\ heap' = m.heap /\ out' = m.out /\ pos' = m.pos
  /\ stack' = Drop(n)
  /\ SameSlots
\* An exception leaves every frame; what the instruction left on the stack stays.
Abort(sig, m, n) ==
  /\ status' = [sig |-> sig, v |-> Unit]
  /\ frames' = <<>>
  /\ heap' = m.heap /\ out' = m.out /\ pos' = m.pos
  /\ stack' = Drop(n)
  /\ SameSlots
Raise(m, n) == Abort("trap", m, n)

\* The instruction takes n operands, and pushes operands made from the result.
Effect(r, n, Pushed(_)) ==
  IF r.sig = "trap" THEN Raise(r.m, n)
  ELSE /\ Frame(r.m.scopes, 1)
       /\ stack' = Drop(n) \o Pushed(r.v)
       /\ heap' = r.m.heap /\ out' = r.m.out /\ pos' = r.m.pos
       /\ UNCHANGED status /\ SameSlots
Value(r, n) == Effect(r, n, LAMBDA v : <<v>>)
NoValue(r, n) == Effect(r, n, LAMBDA v : <<>>)

\* The instruction takes n operands and jumps; scopes and bindings may change.
Control(n, by, scopes, bind) ==
  /\ Frame(scopes, by)
  /\ stack' = Drop(n)
  /\ pending_bind' = bind
  /\ UNCHANGED <<run, heap, match_value, out, pos, status>>
Jump(n, by) == Control(n, by, Top.scopes, pending_bind)
Branch(taken, n) == Jump(n, IF taken THEN Ins.arg ELSE 1)

-----------------------------------------------------------------------------
(* Values *)

PushUnit == Fetch("PUSH_UNIT") /\ Value(Ok(Unit, Memory), 0)
PushConst == Fetch("PUSH") /\ Value(Ok(Ins.arg, Memory), 0)
PushInt == Fetch("PUSH_INT") /\ Value(Ok(IntVal(wrap_int(Ins.arg[1], Ins.arg[2])), Memory), 0)
PushFunc == Fetch("PUSH_FUNC") /\ Value(Ok(FnVal(Ins.arg), Memory), 0)
HostMember == Fetch("HOST_MEMBER") /\ Value(Ok(HostFnVal(Ins.arg), Memory), 0)
MakeSome ==
  /\ Fetch("MAKE_SOME")
  /\ Value(Then(copy_value(Operand(1), Memory), LAMBDA c, m : Ok(SomeVal(c), m)), 1)
MakeArray == Fetch("MAKE_ARRAY") /\ Value(alloc_array(Last_n(Ins.arg), Memory), Ins.arg)
MakeRepeat ==
  /\ Fetch("MAKE_REPEAT")
  /\ Value(alloc_array([i \in 1..Operand(1).n |-> Operand(2)], Memory), 2)
MakeStruct ==
  /\ Fetch("MAKE_STRUCT")
  /\ LET n == Len(Ins.arg) IN Value(NewStruct(Ins.arg, Last_n(n), Memory), n)
MakeEnum ==
  /\ Fetch("MAKE_ENUM")
  /\ LET n == Ins.arg[3] IN Value(NewEnum(Ins.arg[1], Ins.arg[2], Last_n(n), Memory), n)
NewRef == Fetch("NEW") /\ Value(alloc_ref(Operand(1), Memory), 1)
Unary == Fetch("UNARY") /\ Value(Ok(unary_value(Ins.arg[1], Operand(1), Ins.arg[2]), Memory), 1)
Bin ==
  /\ Fetch("BIN")
  /\ Value(scalar_value(Ins.arg[1], Operand(2), Operand(1), Ins.arg[2], Memory), 2)
Cast == Fetch("CAST") /\ Value(Ok(IntVal(wrap_int(Operand(1).n, Ins.arg)), Memory), 1)
Dup == Fetch("DUP") /\ Value(Ok(Operand(1), Memory), 0)
Pop == Fetch("POP") /\ NoValue(Ok(Unit, Memory), 1)

-----------------------------------------------------------------------------
(* Locals, fields, arrays *)

Lookup(x, F(_)) ==
  LET at == Owner(x, Top.scopes) IN IF at = 0 THEN Trap(Memory) ELSE F(at)

Decl ==
  /\ Fetch("DECL")
  /\ NoValue(Then(copy_value(Operand(1), Memory), LAMBDA c, m :
       Ok(Unit, [m EXCEPT !.scopes[Len(m.scopes)] = Declare(@, Ins.arg, c)])), 1)
Load ==
  /\ Fetch("LOAD")
  /\ Value(Lookup(Ins.arg, LAMBDA at : copy_value(Top.scopes[at][Ins.arg], Memory)), 0)
LocalInc ==
  /\ Fetch("LOCAL_INC_U64")
  /\ NoValue(Lookup(Ins.arg, LAMBDA at :
       Ok(Unit, [Memory EXCEPT !.scopes[at][Ins.arg] = IntVal(wrap_int(@.n + 1, "u"))])), 0)
GetField == Fetch("GET_FIELD") /\ Value(copy_value(Field(Operand(1), Ins.arg, Memory), Memory), 1)
Deref == Fetch("DEREF") /\ Value(copy_value(heap[Operand(1).id].value, Memory), 1)
Index == Fetch("INDEX") /\ Value(array_index(Operand(2), Operand(1), Memory), 2)
Length == Fetch("LEN") /\ Value(Ok(IntVal(Len(Items(Operand(1), Memory))), Memory), 1)
ArrayPush == Fetch("ARRAY_PUSH") /\ Value(array_push(Operand(2), Operand(1), Memory), 2)
ArrayPop == Fetch("ARRAY_POP") /\ Value(array_pop(Operand(1), Memory), 1)
ArraySplice ==
  /\ Fetch("ARRAY_SPLICE")
  /\ Value(array_splice(Operand(4), Operand(3), Operand(2), Operand(1), Memory), 4)

-----------------------------------------------------------------------------
(* Places: made once, resolved at every use *)

LocalPlace ==
  /\ Fetch("LOCAL_PLACE")
  /\ Value(Lookup(Ins.arg, LAMBDA at : Ok(LocalAt(at, Ins.arg), Memory)), 0)
FieldPlace ==
  Fetch("FIELD_PLACE") /\ Value(Ok(FieldAt(Operand(1), Ins.arg), Memory), 1)
ValueFieldPlace ==
  /\ Fetch("VALUE_FIELD_PLACE")
  /\ Value(Ok(FieldIn(Target(Operand(1), Memory), Ins.arg), Memory), 1)
IndexPlace ==
  /\ Fetch("INDEX_PLACE")
  /\ Value(IF InBounds(Operand(2), Operand(1), Memory)
           THEN Ok(CellOf(Operand(2), Operand(1)), Memory)
           ELSE Trap(Memory), 2)
DerefPlace == Fetch("DEREF_PLACE") /\ Value(Ok(Referent(Operand(1)), Memory), 1)
LoadPlace == Fetch("LOAD_PLACE") /\ Value(Then(PlaceGet(Operand(1), Memory), copy_value), 1)
StorePlace ==
  /\ Fetch("STORE_PLACE")
  /\ NoValue(Then(copy_value(Operand(1), Memory), LAMBDA c, m : PlaceSet(Operand(2), c, m)), 2)

-----------------------------------------------------------------------------
(* Scopes, jumps and matches *)

Scopes_but(n) == SubSeq(Top.scopes, 1, Len(Top.scopes) - n)
Waiting == IF pending_bind = <<>> THEN NoBindings ELSE pending_bind[1]

ScopeEnter ==
  Fetch("SCOPE_ENTER") /\ Control(0, 1, Append(Top.scopes, NoBindings), pending_bind)
\* (mutant: the bindings are still pending in the scope that took them)
ScopeEnterKeeps ==
  Fetch("SCOPE_ENTER_BINDINGS") /\ Control(0, 1, Append(Top.scopes, Waiting), pending_bind)
ScopeEnterBindings ==
  Fetch("SCOPE_ENTER_BINDINGS") /\ Control(0, 1, Append(Top.scopes, Waiting), <<>>)
ScopeExit == Fetch("SCOPE_EXIT") /\ Control(0, 1, Scopes_but(1), pending_bind)
\* (mutant: only the innermost of the scopes is left)
Unwind_one == Fetch("UNWIND") /\ Control(0, 1, Scopes_but(1), pending_bind)
Unwind == Fetch("UNWIND") /\ Control(0, 1, Scopes_but(Ins.arg), pending_bind)
NoBindingsHere == Fetch("NO_BINDINGS") /\ Control(0, 1, Top.scopes, <<NoBindings>>)
DropBindings == Fetch("DROP_BINDINGS") /\ Control(0, 1, Top.scopes, <<>>)
\* (mutant: the bindings of a let-else are dropped)
MergeForgets == Fetch("MERGE_BINDINGS") /\ Control(0, 1, Top.scopes, <<>>)
MergeBindings ==
  /\ Fetch("MERGE_BINDINGS")
  /\ Control(0, 1, Append(Scopes_but(1), Merge(Last(Top.scopes), Waiting)), <<>>)
JumpTo == Fetch("JUMP") /\ Jump(0, Ins.arg)
JumpIfFalse == Fetch("JUMP_IF_FALSE") /\ Branch(~Operand(1).b, 1)
JumpIfFalseKeep == Fetch("JUMP_IF_FALSE_KEEP") /\ Branch(~Operand(1).b, 0)
JumpIfTrueKeep == Fetch("JUMP_IF_TRUE_KEEP") /\ Branch(Operand(1).b, 0)
JumpIfNoMatch == Fetch("JUMP_IF_NO_MATCH") /\ Branch(Operand(1).bind = <<>>, 1)

SetMatchValue(v, n) ==
  /\ Frame(Top.scopes, 1)
  /\ match_value' = v
  /\ stack' = Drop(n)
  /\ UNCHANGED <<run, heap, pending_bind, out, pos, status>>
SaveMatchValue == Fetch("SAVE_MATCH_VALUE") /\ SetMatchValue(Operand(1), 1)
ClearMatchValue == Fetch("CLEAR_MATCH_VALUE") /\ SetMatchValue(Unit, 0)
LoadMatchValue == Fetch("LOAD_MATCH_VALUE") /\ Value(copy_value(match_value, Memory), 0)

\* The outcome of the match is pushed and kept as the pending bindings.
TryPattern ==
  /\ Fetch("TRY_PATTERN")
  /\ LET r == match(Ins.arg, Operand(1), Memory)
     IN  /\ stack' = Append(Drop(1), [k |-> "match", bind |-> r.v])
         /\ pending_bind' = r.v
         /\ heap' = r.m.heap
  /\ Frame(Top.scopes, 1)
  /\ UNCHANGED <<run, match_value, out, pos, status>>
PatternToBool ==
  Fetch("PATTERN_TO_BOOL") /\ Value(Ok(Bool(Operand(1).bind # <<>>), Memory), 1)
TrapNow == (Fetch("TRAP") \/ Fetch("TRAP_MATCH")) /\ Raise(Memory, 0)

-----------------------------------------------------------------------------
(* Calls *)

\* The caller waits behind the call; n operands are taken off the stack.  A name
\* without a function is a KeyError.
Call(f, args, n) ==
  IF f \notin DOMAIN code THEN Abort("error", Memory, n)
  ELSE LET r == copy_values(args, Memory)
       IN  /\ frames' = Append([frames EXCEPT ![Len(frames)] = Moved(Top.scopes, 1)],
                               NewFrame(f, Dict(code[f].params, r.v), Len(stack) - n))
           /\ stack' = Drop(n)
           /\ heap' = r.m.heap
           /\ UNCHANGED <<out, pos, status>> /\ SameSlots

CallNamed ==
  Fetch("CALL_NAMED") /\ LET n == Ins.arg[2] IN Call(Ins.arg[1], Last_n(n), n)
CallValue ==
  /\ Fetch("CALL_VALUE")
  /\ LET n == Ins.arg
         f == Operand(n + 1)
     IN  CASE f.k = "fn"   -> Call(f.f, Last_n(n), n + 1)
           [] f.k = "host" -> Value(HostCall(f.h, Last_n(n), Memory), n + 1)
           [] OTHER        -> Raise(Memory, n + 1)

\* The value of a call goes on the stack of the caller, or ends the run.
Return ==
  /\ Fetch("RET")
  /\ LET r == copy_value(Operand(1), Memory)
         outermost == Len(frames) = 1
     IN  /\ frames' = Front(frames)
         /\ heap' = r.m.heap
         /\ stack' = IF outermost THEN Drop(1) ELSE Append(Drop(1), r.v)
         /\ status' = IF outermost THEN [sig |-> "ok", v |-> r.v] ELSE status
  /\ UNCHANGED <<out, pos>> /\ SameSlots

Next ==
  \/ PushUnit \/ PushConst \/ PushInt \/ PushFunc \/ HostMember
  \/ MakeSome \/ MakeArray \/ MakeRepeat \/ MakeStruct \/ MakeEnum \/ NewRef
  \/ Unary \/ Bin \/ Cast \/ Dup \/ Pop
  \/ Decl \/ Load \/ LocalInc \/ GetField \/ Deref
  \/ Index \/ Length \/ ArrayPush \/ ArrayPop \/ ArraySplice
  \/ LocalPlace \/ FieldPlace \/ ValueFieldPlace \/ IndexPlace \/ DerefPlace
  \/ LoadPlace \/ StorePlace
  \/ ScopeEnter \/ ScopeEnterBindings \/ ScopeExit \/ Unwind
  \/ NoBindingsHere \/ DropBindings \/ MergeBindings
  \/ JumpTo \/ JumpIfFalse \/ JumpIfFalseKeep \/ JumpIfTrueKeep \/ JumpIfNoMatch
  \/ SaveMatchValue \/ ClearMatchValue \/ LoadMatchValue \/ TryPattern \/ PatternToBool
  \/ TrapNow \/ CallNamed \/ CallValue \/ Return

\* The machine is one loop: it goes on as long as it has an instruction.
Spec == Init /\ [][Next]_vars /\ WF_vars(Next)

=============================================================================
