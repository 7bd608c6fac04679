------------------------------- MODULE VMHeap -------------------------------
(***************************************************************************)
(* The heap of the native VM (src/src/vm/vm.c): values, places, frames,    *)
(* scopes, pattern bindings, the mark/sweep collector, and the embedding   *)
(* boundary (src/src/vm/embed.c) every hosted call goes through.           *)
(*                                                                         *)
(* One action is one instruction of the loop of vm_call.  The program      *)
(* counter is abstracted: any sequence of instructions is explored that a  *)
(* compiled function could contain, i.e. one that never pops below the     *)
(* frame's operand base, uses a place only as the operand of a place       *)
(* instruction, and declares or leaves scopes only between statements.     *)
(* Scalars are opaque: Imm stands for every value that is not an object.   *)
(***************************************************************************)
EXTENDS Integers, Sequences, FiniteSets, Functions

CONSTANTS
  Obj,        \* addresses of heap objects (LObj)
  Imm,        \* values that hold no object: unit, bool, int, function, ...
  Unit,       \* the unit value
  NoObj,      \* the NULL object pointer
  NoMatch,    \* "has_match = 0"
  Kinds,      \* the kinds of object this instance's programs build
  Groups,     \* the groups of instructions this instance's programs use
  NSlots,     \* locals of a function; parameters take the first ones
  MaxStack,   \* bound on the operand stack
  MaxFrames,  \* LVM_MAX_DEPTH
  MaxScopes,  \* bound on the scopes open in a frame
  MaxLen,     \* bound on the items of an object
  GcSlack     \* the 4096 of gc_collect and of lvm_context_create

AllKinds == {"ARRAY", "REF", "STRUCT", "ENUM"}   \* "ENUM" stands for O_SOME too

ASSUME NamesAssumption ==
  /\ IsFiniteSet(Obj)
  /\ Obj \cap Imm = {}
  /\ NoObj \notin Obj \cup Imm
  /\ NoMatch \notin Obj \cup Imm
  /\ Unit \in Imm
  /\ Kinds \subseteq AllKinds
ASSUME BoundsAssumption ==
  /\ NSlots \in Nat \ {0}
  /\ {MaxStack, MaxFrames, MaxScopes, MaxLen, GcSlack} \subseteq Nat

VARIABLES
  mode,       \* "idle": control is with the host; "exec": in the loop of
              \* vm_call; "gc": gc_maybe is about to collect; "closed": exited
  armed,      \* vm->recovery # NULL: the running call is a protected one
  heap,       \* vm->objects: live address -> object
  threshold,  \* vm->gc_threshold
  stack,      \* vm->stack[0..sp): values and places
  frames,     \* the LFrame chain, innermost last
  pending,    \* vm->pending[0..pending_len): pattern bindings
  match       \* vm->match_value, NoMatch when has_match = 0

vars == <<mode, armed, heap, threshold, stack, frames, pending, match>>

Slot == 1 .. NSlots
Live == DOMAIN heap

-----------------------------------------------------------------------------
(* The shapes of the state over a set H of object addresses.               *)

Val(H) == Imm \cup H
ValEntry(H) == [tag : {"V"}, v : Val(H)]
\* LPlace. Its cell is local ix of frame fr, or item ix of own; arr/idx/root
\* are the snapshot of an array element. via is auxiliary: the reference the
\* field was reached through, which no instruction reads and nothing keeps.
PlaceEntry(H) == [tag : {"P"}, own : H \cup {NoObj}, fr : Nat, ix : Nat,
                  arr : H \cup {NoObj}, idx : Nat, root : H \cup {NoObj},
                  via : Obj \cup {NoObj}]
Entry(H) == ValEntry(H) \cup PlaceEntry(H)
Object(H) == [kind : AllKinds, items : Seq(Val(H))]
Frame(H) == [loc : [Slot -> Val(H)], active : SUBSET Slot, decl : Seq(Slot),
             scopes : Seq(Nat), base : Nat]
Binding(H) == [slot : Slot, val : Val(H)]

-----------------------------------------------------------------------------
(* Objects, the collector and value_copy.                                  *)

Items(o) == heap[o].items
Refs(o) == {Items(o)[i] : i \in DOMAIN Items(o)} \cap Live

EntryRefs(e) ==
  IF e.tag = "V" THEN {e.v} \cap Obj ELSE {e.own, e.arr, e.root} \cap Obj

\* What gc_collect marks from: stack, active locals, pending, match value.
StackRefs(st) == UNION {EntryRefs(st[i]) : i \in DOMAIN st}
LocalRefs(frs) == UNION {{frs[k].loc[s] : s \in frs[k].active} : k \in DOMAIN frs}
PendingRefs(pend) == {pend[i].val : i \in DOMAIN pend}
\* (mutant: the pending bindings are not marked)
RootSet_NoPending(st, frs, pend, m) == StackRefs(st) \cup LocalRefs(frs) \cup {m}
RootSet(st, frs, pend, m) ==
  StackRefs(st) \cup LocalRefs(frs) \cup PendingRefs(pend) \cup {m}
Roots == RootSet(stack, frames, pending, match)

\* The objects of K reachable from R inside K: those in every subset of K
\* that has R's and is closed. mark_obj and value_copy walk such sets.
Closure(K, R) ==
  {o \in K : \A S \in SUBSET K :
     (R \cap K \subseteq S /\ \A p \in S : Refs(p) \cap K \subseteq S) => o \in S}
Reach(R) == Closure(Live, R)

\* value_copy duplicates structs, enums and options in depth and shares the
\* handles of arrays and references. Tree(v) is what it duplicates of v.
OfKind(ks) == {o \in Live : heap[o].kind \in ks}
Tree(v) == Closure(OfKind({"STRUCT", "ENUM"}), {v})

\* Copying the values xs one after the other: f gives the fresh address of
\* the copy of object o made for xs[i].
CopyDom(xs) == UNION {{i} \X Tree(xs[i]) : i \in DOMAIN xs}
Copies(xs) == {f \in [CopyDom(xs) -> Obj \ Live] : IsInjective(f)}
CopyVal(f, i, v) == IF <<i, v>> \in DOMAIN f THEN f[<<i, v>>] ELSE v
CopyVals(f, xs) == [i \in DOMAIN xs |-> CopyVal(f, i, xs[i])]
CopyHeap(f) ==
  [n \in Range(f) |->
     LET d == CHOOSE d \in DOMAIN f : f[d] = n
     IN  [kind  |-> heap[d[2]].kind,
          items |-> [k \in DOMAIN Items(d[2]) |->
                       CopyVal(f, d[1], Items(d[2])[k])]]]
\* The heap once the copies exist, and with one more object o.
WithCopies(f) ==
  [o \in Live \cup Range(f) |-> IF o \in Live THEN heap[o] ELSE CopyHeap(f)[o]]
Add(h, o, obj) == [p \in DOMAIN h \cup {o} |-> IF p = o THEN obj ELSE h[p]]
Fresh(f) == Obj \ (Live \cup Range(f))

-----------------------------------------------------------------------------
(* The operand stack and frames.                                           *)

Top == Len(frames)
Cur == frames[Top]
V(v) == [tag |-> "V", v |-> v]
Has(group) == group \in Groups
\* The last n operands are values of the current frame.
Operands(n) ==
  /\ mode = "exec"
  /\ Len(stack) >= Cur.base + n
  /\ \A i \in 1 .. n : stack[Len(stack) - n + i].tag = "V"
Args(n) == [i \in 1 .. n |-> stack[Len(stack) - n + i].v]
Rest(n) == SubSeq(stack, 1, Len(stack) - n)
TopPlace ==
  /\ mode = "exec"
  /\ Len(stack) > Cur.base
  /\ stack[Len(stack)].tag = "P"
Arg == stack[Len(stack)].v
\* Between two statements nothing is on the frame's part of the stack but
\* the n operands of the instruction.
Statement(n) == Operands(n) /\ Len(stack) = Cur.base + n

IsObj(v, kind) == v \in Live /\ heap[v].kind = kind

\* gc_maybe, at the end of every turn of the loop.
Settle ==
  mode' = IF Cardinality(DOMAIN heap') > threshold THEN "gc" ELSE "exec"
Push(n, e) ==
  /\ Len(stack) - n < MaxStack
  /\ stack' = Append(Rest(n), e)
Replace(n, v) == Push(n, V(v))

NewFrame(args, base) ==
  [loc    |-> [s \in Slot |-> IF s <= Len(args) THEN args[s] ELSE Unit],
   active |-> 1 .. Len(args), decl |-> <<>>, scopes |-> <<0>>, base |-> base]

\* frame_decl, for the bindings bs = <<[slot, val], ...>> in order.
Declare(fr, bs) ==
  [fr EXCEPT
     !.loc    = [s \in Slot |->
                   IF \E i \in DOMAIN bs : bs[i].slot = s
                   THEN (CHOOSE b \in Range(bs) : b.slot = s).val
                   ELSE fr.loc[s]],
     !.active = @ \cup {bs[i].slot : i \in DOMAIN bs},
     !.decl   = @ \o [i \in DOMAIN bs |-> bs[i].slot]]

\* frame_scope_enter; frame_scope_exit done n times (UNWIND n).
Enter(fr) == [fr EXCEPT !.scopes = Append(@, Len(fr.decl))]
Leave(fr, n) ==
  LET b    == fr.scopes[Len(fr.scopes) - n + 1]
      gone == {fr.decl[i] : i \in (b + 1) .. Len(fr.decl)}
  IN  [fr EXCEPT !.loc    = [s \in Slot |-> IF s \in gone THEN Unit ELSE fr.loc[s]],
                 !.active = @ \ gone,
                 !.decl   = SubSeq(@, 1, b),
                 !.scopes = SubSeq(@, 1, Len(@) - n)]

-----------------------------------------------------------------------------
(* gc_collect and the instructions that make or move values.               *)

Collect(R) ==
  /\ heap' = [o \in Reach(R) |-> heap[o]]
  /\ threshold' = 2 * Cardinality(Reach(R)) + GcSlack

GcMaybe ==
  /\ mode = "gc"
  /\ Collect(Roots)
  /\ mode' = "exec"
  /\ UNCHANGED <<armed, stack, frames, pending, match>>

\* The variables an instruction on operands leaves alone.
Rigid == UNCHANGED <<armed, threshold, frames, pending, match>>

\* Scalar instructions: n operands give a result that holds no object.
\* PUSH_* and HOST_MEMBER (n = 0), LEN, UNARY, CAST, PATTERN_TO_BOOL (1), BIN (2).
Compute(n) ==
  /\ Operands(n)
  /\ \E u \in Imm : Replace(n, u)
  /\ UNCHANGED heap
  /\ Settle /\ Rigid

\* The branches: nothing moves but the program counter, though a turn of the
\* loop ends, and the collector may run on what a call left behind.
Jump ==
  /\ mode = "exec"
  /\ UNCHANGED <<heap, stack>>
  /\ Settle /\ Rigid

\* The result of a copy of the operand at the top becomes the new top of n.
PushCopy(n, v) ==
  \E f \in Copies(<<v>>) :
    /\ heap' = WithCopies(f)
    /\ Replace(n, CopyVal(f, 1, v))
    /\ Settle /\ Rigid

\* MAKE_ARRAY, MAKE_STRUCT, MAKE_ENUM and MAKE_ENUM_ZERO, MAKE_SOME, NEW.
Make(kind, n) ==
  /\ Operands(n) /\ n <= MaxLen
  /\ kind = "REF" => n = 1
  /\ \E f \in Copies(Args(n)) : \E o \in Fresh(f) :
       /\ heap' = Add(WithCopies(f), o, [kind |-> kind, items |-> CopyVals(f, Args(n))])
       /\ Replace(n, o)
  /\ Settle /\ Rigid

\* MAKE_REPEAT: a value and a count give an array of n copies of the value.
MakeRepeat(n) ==
  /\ Has("arrays") /\ Operands(2) /\ Args(2)[2] \in Imm /\ n <= MaxLen
  /\ LET xs == [i \in 1 .. n |-> Args(2)[1]]
     IN  \E f \in Copies(xs) : \E o \in Fresh(f) :
           /\ heap' = Add(WithCopies(f), o, [kind |-> "ARRAY", items |-> CopyVals(f, xs)])
           /\ Replace(2, o)
  /\ Settle /\ Rigid

\* MAKE_BYTES: an array of n scalars from the program's constants.
Bytes(n) == [kind |-> "ARRAY", items |-> [i \in 1 .. n |-> Unit]]
MakeBytes(n) ==
  /\ Has("arrays") /\ Operands(0) /\ n <= MaxLen
  /\ \E o \in Obj \ Live : heap' = Add(heap, o, Bytes(n)) /\ Replace(0, o)
  /\ Settle /\ Rigid

\* (mutant: LOAD pushes the local itself)
Load_Shared(s) ==
  /\ Operands(0) /\ s \in Cur.active
  /\ Replace(0, Cur.loc[s])
  /\ UNCHANGED heap /\ Settle /\ Rigid
Load(s) ==
  /\ Operands(0) /\ s \in Cur.active
  /\ PushCopy(0, Cur.loc[s])

\* LOCAL_INC_U64, on the hidden counter of a for loop.
LocalInc(s) ==
  /\ Operands(0) /\ s \in Cur.active /\ Cur.loc[s] \in Imm
  /\ \E u \in Imm : frames' = [frames EXCEPT ![Top].loc[s] = u]
  /\ UNCHANGED <<armed, heap, threshold, stack, pending, match>>
  /\ Settle

Pop ==
  /\ Operands(1)
  /\ stack' = Rest(1)
  /\ UNCHANGED heap /\ Settle /\ Rigid

\* INDEX: the array and the index under the top.
Index(i) ==
  /\ Has("arrays") /\ Operands(2) /\ Args(2)[2] \in Imm
  /\ IsObj(Args(2)[1], "ARRAY") /\ i \in DOMAIN Items(Args(2)[1])
  /\ PushCopy(2, Items(Args(2)[1])[i])

\* field_cell: the struct a field of v is in, v being it or a reference to it.
FieldOwner(v) == IF IsObj(v, "REF") THEN Items(v)[1] ELSE v
HasField(v, i) == IsObj(FieldOwner(v), "STRUCT") /\ i \in DOMAIN Items(FieldOwner(v))

GetField(i) ==
  /\ Operands(1) /\ HasField(Arg, i)
  /\ PushCopy(1, Items(FieldOwner(Arg))[i])

Deref ==
  /\ Operands(1) /\ IsObj(Arg, "REF")
  /\ PushCopy(1, Items(Arg)[1])

-----------------------------------------------------------------------------
(* Places.                                                                 *)

LocalPlace(s) ==
  /\ Has("places") /\ Operands(0) /\ s \in Cur.active
  /\ Push(0, [tag |-> "P", own |-> NoObj, fr |-> Top, ix |-> s,
              arr |-> NoObj, idx |-> 0, root |-> NoObj, via |-> NoObj])
  /\ UNCHANGED heap /\ Settle /\ Rigid

DerefPlace ==
  /\ Has("places") /\ Operands(1) /\ IsObj(Arg, "REF")
  /\ Push(1, [tag |-> "P", own |-> Arg, fr |-> 0, ix |-> 1,
              arr |-> NoObj, idx |-> 0, root |-> NoObj, via |-> NoObj])
  /\ UNCHANGED heap /\ Settle /\ Rigid

\* (mutant: the place is the raw cell of the element, resolved once)
IndexPlace_RawCell(i) ==
  /\ Has("places") /\ Operands(2) /\ Args(2)[2] \in Imm
  /\ IsObj(Args(2)[1], "ARRAY") /\ i \in DOMAIN Items(Args(2)[1])
  /\ Push(2, [tag |-> "P", own |-> Args(2)[1], fr |-> 0, ix |-> i,
              arr |-> NoObj, idx |-> 0, root |-> NoObj, via |-> NoObj])
  /\ UNCHANGED heap /\ Settle /\ Rigid
IndexPlace(i) ==
  /\ Has("places") /\ Operands(2) /\ Args(2)[2] \in Imm
  /\ IsObj(Args(2)[1], "ARRAY") /\ i \in DOMAIN Items(Args(2)[1])
  /\ Push(2, [tag |-> "P", own |-> NoObj, fr |-> 0, ix |-> 0,
              arr |-> Args(2)[1], idx |-> i, root |-> NoObj, via |-> NoObj])
  /\ UNCHANGED heap /\ Settle /\ Rigid

\* place_cell: an element place is good while its index is in bounds and, once
\* a field was taken of the element, while the element is the same object.
InBounds(p) == p.arr # NoObj => p.idx \in DOMAIN Items(p.arr)
Usable(p) ==
  /\ InBounds(p)
  /\ p.root # NoObj => Items(p.arr)[p.idx] = p.root
\* The cell a usable place denotes: an item of an object or a local.
CellOwner(p) == IF p.arr # NoObj /\ p.root = NoObj THEN p.arr ELSE p.own
CellIx(p) == IF p.arr # NoObj /\ p.root = NoObj THEN p.idx ELSE p.ix
Read(p) ==
  IF CellOwner(p) = NoObj THEN frames[p.fr].loc[p.ix]
  ELSE Items(CellOwner(p))[CellIx(p)]

FieldOf(p, b, i) ==
  [tag |-> "P", own |-> FieldOwner(b), fr |-> 0, ix |-> i,
   arr |-> p.arr, idx |-> p.idx,
   root |-> IF p.arr = NoObj \/ p.root # NoObj THEN p.root ELSE b,
   via |-> IF IsObj(b, "REF") THEN b ELSE NoObj]

FieldPlace(i) ==
  /\ Has("places") /\ TopPlace
  /\ LET p == stack[Len(stack)]
     IN  /\ Usable(p) /\ HasField(Read(p), i)
         /\ Push(1, FieldOf(p, Read(p), i))
  /\ UNCHANGED heap /\ Settle /\ Rigid

ValueFieldPlace(i) ==
  /\ Has("places") /\ Operands(1) /\ HasField(Arg, i)
  /\ Push(1, [tag |-> "P", own |-> FieldOwner(Arg), fr |-> 0, ix |-> i,
              arr |-> NoObj, idx |-> 0, root |-> NoObj,
              via |-> IF IsObj(Arg, "REF") THEN Arg ELSE NoObj])
  /\ UNCHANGED heap /\ Settle /\ Rigid

\* DUP; the compiler emits it for the place of a compound assignment only.
Dup ==
  /\ Has("places") /\ TopPlace
  /\ Push(0, stack[Len(stack)])
  /\ UNCHANGED heap /\ Settle /\ Rigid

LoadPlace ==
  /\ Has("places") /\ TopPlace /\ Usable(stack[Len(stack)])
  /\ PushCopy(1, Read(stack[Len(stack)]))

StorePlace ==
  /\ Has("places") /\ Operands(1) /\ Len(stack) > Cur.base + 1
  /\ LET p == stack[Len(stack) - 1]
     IN  /\ p.tag = "P" /\ Usable(p)
         /\ \E f \in Copies(<<Arg>>) :
              LET w == CopyVal(f, 1, Arg)
              IN  IF CellOwner(p) = NoObj
                  THEN /\ heap' = WithCopies(f)
                       /\ frames' = [frames EXCEPT ![p.fr].loc[p.ix] = w]
                  ELSE /\ heap' = [WithCopies(f) EXCEPT
                                     ![CellOwner(p)].items[CellIx(p)] = w]
                       /\ UNCHANGED frames
  /\ stack' = Rest(2)
  /\ Settle /\ UNCHANGED <<armed, threshold, pending, match>>

-----------------------------------------------------------------------------
(* Arrays.                                                                 *)

ArrayPush ==
  /\ Has("arrays") /\ Operands(2) /\ IsObj(Args(2)[1], "ARRAY")
  /\ Len(Items(Args(2)[1])) < MaxLen
  /\ \E f \in Copies(<<Arg>>) :
       heap' = [WithCopies(f) EXCEPT
                  ![Args(2)[1]].items = Append(@, CopyVal(f, 1, Arg))]
  /\ Replace(2, Unit)
  /\ Settle /\ Rigid

ArrayPop ==
  /\ Has("arrays") /\ Operands(1) /\ IsObj(Arg, "ARRAY") /\ Items(Arg) # <<>>
  /\ LET n == Len(Items(Arg))
     IN  \E f \in Copies(<<Items(Arg)[n]>>) :
           /\ heap' = [WithCopies(f) EXCEPT ![Arg].items = SubSeq(@, 1, n - 1)]
           /\ Replace(1, CopyVal(f, 1, Items(Arg)[n]))
  /\ Settle /\ Rigid

\* ARRAY_SPLICE: the items first+1 .. last of the array give way to copies of
\* the items of the replacement, which may be the array itself.
ArraySplice(first, last) ==
  /\ Has("arrays") /\ Operands(4) /\ {Args(4)[2], Args(4)[3]} \subseteq Imm
  /\ LET a == Args(4)[1]  r == Args(4)[4]
     IN  /\ IsObj(a, "ARRAY") /\ IsObj(r, "ARRAY")
         /\ first <= last /\ last <= Len(Items(a))
         /\ Len(Items(a)) - (last - first) + Len(Items(r)) <= MaxLen
         /\ \E f \in Copies(Items(r)) :
              heap' = [WithCopies(f) EXCEPT ![a].items =
                         SubSeq(@, 1, first) \o CopyVals(f, Items(r))
                           \o SubSeq(@, last + 1, Len(@))]
  /\ Replace(4, Unit)
  /\ Settle /\ Rigid

-----------------------------------------------------------------------------
(* Scopes, pattern bindings and the match value.                           *)

SetCur(fr) == frames' = [frames EXCEPT ![Top] = fr]

\* DECL. The language has no shadowing: a declared slot is not active.
Decl(s) ==
  /\ Statement(1) /\ s \notin Cur.active
  /\ \E f \in Copies(<<Arg>>) :
       /\ heap' = WithCopies(f)
       /\ SetCur(Declare(Cur, <<[slot |-> s, val |-> CopyVal(f, 1, Arg)]>>))
  /\ stack' = Rest(1)
  /\ Settle /\ UNCHANGED <<armed, threshold, pending, match>>

\* SCOPE_ENTER_BINDINGS opens a scope for the bindings, MERGE_BINDINGS
\* declares them in the current one; each copies them once more.
TakeBindings(fr) ==
  /\ \A b \in Range(pending) : b.slot \notin Cur.active
  /\ LET vs == [i \in DOMAIN pending |-> pending[i].val]
     IN  \E f \in Copies(vs) :
           /\ heap' = WithCopies(f)
           /\ SetCur(Declare(fr, [i \in DOMAIN pending |->
                      [slot |-> pending[i].slot, val |-> CopyVals(f, vs)[i]]]))
  /\ pending' = <<>>
  /\ Settle /\ UNCHANGED <<armed, threshold, stack, match>>

EnterBindings ==
  /\ Has("patterns") /\ Statement(0) /\ Len(Cur.scopes) < MaxScopes
  /\ TakeBindings(Enter(Cur))
MergeBindings ==
  /\ Has("patterns") /\ Statement(0)
  /\ TakeBindings(Cur)

\* NO_BINDINGS and DROP_BINDINGS.
DropBindings ==
  /\ Has("patterns") /\ mode = "exec" /\ pending' = <<>>
  /\ UNCHANGED <<armed, heap, threshold, stack, frames, match>>
  /\ Settle

ScopeEnter ==
  /\ Has("scopes") /\ Statement(0) /\ Len(Cur.scopes) < MaxScopes
  /\ SetCur(Enter(Cur))
  /\ UNCHANGED <<armed, heap, threshold, stack, pending, match>>
  /\ Settle

\* SCOPE_EXIT (n = 1) and UNWIND; a function's own scope is never left.
ScopeExit(n) ==
  /\ Has("scopes") /\ Statement(0) /\ Len(Cur.scopes) > n
  /\ SetCur(Leave(Cur, n))
  /\ UNCHANGED <<armed, heap, threshold, stack, pending, match>>
  /\ Settle

SaveMatch ==
  /\ Has("patterns") /\ Statement(1) /\ match' = Arg
  /\ stack' = Rest(1)
  /\ UNCHANGED <<armed, heap, threshold, frames, pending>>
  /\ Settle

\* LOAD_MATCH_VALUE does not ask for has_match: a cleared value is unit.
LoadMatch ==
  /\ Has("patterns") /\ Statement(0)
  /\ PushCopy(0, IF match = NoMatch THEN Unit ELSE match)

ClearMatch ==
  /\ Has("patterns") /\ mode = "exec" /\ match' = NoMatch
  /\ UNCHANGED <<armed, heap, threshold, stack, frames, pending>>
  /\ Settle

\* What a pattern on v can bind: v and the payloads of the enums it opens.
Parts(v) == {v} \cup UNION {Range(Items(o)) : o \in Closure(OfKind({"ENUM"}), {v})}

\* TRY_PATTERN: n variables bind copies of disjoint parts (n = 0 also when
\* the pattern fails, which leaves no binding behind).
TryPattern(n) ==
  /\ Has("patterns") /\ Operands(1)
  /\ \E ps \in [1 .. n -> Parts(Arg)], ss \in [1 .. n -> Slot \ Cur.active] :
       /\ IsInjective(ss)
       /\ \A i, j \in 1 .. n : i # j => Tree(ps[i]) \cap Tree(ps[j]) = {}
       /\ \E f \in Copies(ps) :
            /\ heap' = WithCopies(f)
            /\ pending' = [i \in 1 .. n |-> [slot |-> ss[i], val |-> CopyVals(f, ps)[i]]]
  /\ Replace(1, Unit)
  /\ Settle /\ UNCHANGED <<armed, threshold, frames, match>>

-----------------------------------------------------------------------------
(* Calls.                                                                  *)

\* The callee's operands start where the caller's, without the arguments, end.
\* (mutant: one too low)
CalleeBase_OneTooLow(n) == Len(stack) - n - 1
CalleeBase(n) == Len(stack) - n

\* CALL_NAMED (k = 0), CALL_VALUE (k = 1: the function is under the n
\* arguments). The callee's first instruction follows without a collection.
Call(n, k) ==
  /\ Has("calls") /\ Operands(n + k) /\ n <= NSlots
  /\ k = 1 => Args(n + 1)[1] \in Imm
  /\ Top < MaxFrames
  /\ \E f \in Copies(Args(n)) :
       /\ heap' = WithCopies(f)
       /\ frames' = Append(frames, NewFrame(CopyVals(f, Args(n)), CalleeBase(n + k)))
  /\ stack' = Rest(n + k)
  /\ UNCHANGED <<mode, armed, threshold, pending, match>>

\* host_call: a scalar, the bytes read, "some" of the bytes read, or the
\* array of the program's arguments.
HostCall(n) ==
  /\ Has("host") /\ Operands(n + 1) /\ Args(n + 1)[1] \in Imm
  /\ \/ UNCHANGED heap /\ Replace(n + 1, Unit)
     \/ \E b \in Obj \ Live : /\ heap' = Add(heap, b, Bytes(MaxLen))
                              /\ Replace(n + 1, b)
     \/ \E b \in Obj \ Live : \E o \in Obj \ (Live \cup {b}), kind \in {"ENUM", "ARRAY"} :
          /\ heap' = Add(Add(heap, b, Bytes(MaxLen)), o, [kind |-> kind, items |-> <<b>>])
          /\ Replace(n + 1, o)
  /\ Settle /\ Rigid

\* RET in a nested frame: the operands above the frame's base are dropped.
Return ==
  /\ Has("calls") /\ Operands(1) /\ Top > 1
  /\ \E f \in Copies(<<Arg>>) :
       /\ heap' = WithCopies(f)
       /\ stack' = Append(SubSeq(stack, 1, Cur.base), V(CopyVal(f, 1, Arg)))
  /\ frames' = SubSeq(frames, 1, Top - 1)
  /\ Settle /\ UNCHANGED <<armed, threshold, pending, match>>

-----------------------------------------------------------------------------
(* The embedding boundary.                                                 *)

Start == /\ frames' = <<NewFrame(<<>>, 0)>>
         /\ mode' = "exec"
         /\ UNCHANGED <<heap, threshold, stack, pending, match>>

\* lvm_context_invoke_entry: no recovery point, and a clean state demanded.
InvokeEntry ==
  /\ Has("entry") /\ mode = "idle"
  /\ frames = <<>> /\ stack = <<>> /\ pending = <<>> /\ match = NoMatch
  /\ armed' = FALSE /\ Start

\* lvm_context_call_function: the snapshot it takes is that of an idle VM.
CallFunction ==
  /\ mode = "idle"
  /\ armed' = TRUE /\ Start

\* The control state of an idle VM, which both ends of a call assign.
Quiet == frames' = <<>> /\ stack' = <<>> /\ pending' = <<>> /\ match' = NoMatch

\* RET in the outermost frame: the boundary reads an exit status from a copy
\* of the result and roots it nowhere. Both boundaries drop the bindings and the match
\* value a return from inside a match arm leaves; only the protected one collects.
\* (mutant: the boundary collects before it drops bindings and match value)
ReturnToHost_CollectsFirst ==
  /\ Operands(1) /\ Top = 1
  /\ Quiet /\ mode' = "idle" /\ armed' = FALSE
  /\ IF armed THEN Collect(Roots)
     ELSE /\ \E f \in Copies(<<Arg>>) : heap' = WithCopies(f)
          /\ UNCHANGED threshold
ReturnToHost ==
  /\ Operands(1) /\ Top = 1
  /\ Quiet /\ mode' = "idle" /\ armed' = FALSE
  /\ IF armed THEN Collect(RootSet(stack', frames', pending', match'))
     ELSE /\ \E f \in Copies(<<Arg>>) : heap' = WithCopies(f)
          /\ UNCHANGED threshold

\* die(): any instruction may trap. A protected call unwinds to its snapshot,
\* and its boundary collects; otherwise the process exits.
Trap ==
  /\ mode = "exec"
  /\ Quiet /\ armed' = FALSE
  /\ IF armed THEN mode' = "idle" /\ Collect(RootSet(stack', frames', pending', match'))
     ELSE mode' = "closed" /\ heap' = [o \in {} |-> heap[o]] /\ UNCHANGED threshold

\* lvm_context_destroy: vm_cleanup collects and then frees what is left.
Destroy ==
  /\ mode = "idle"
  /\ mode' = "closed"
  /\ heap' = [o \in {} |-> heap[o]]
  /\ UNCHANGED <<armed, threshold, stack, frames, pending, match>>

-----------------------------------------------------------------------------
Init ==
  /\ mode = "idle" /\ armed = FALSE
  /\ heap = [o \in {} |-> Unit] /\ threshold = GcSlack
  /\ stack = <<>> /\ frames = <<>> /\ pending = <<>> /\ match = NoMatch

Ns == 0 .. MaxLen
ValueInstruction ==
  \/ \E n \in 0 .. 2 : Compute(n)
  \/ \E kind \in Kinds, n \in Ns : Make(kind, n)
  \/ \E s \in Slot : Load(s)
  \/ \E s \in Slot : Decl(s)
  \/ \E s \in Slot : LocalInc(s)
  \/ \E i \in Ns : GetField(i)
  \/ Deref
  \/ Pop
  \/ Jump
PlaceInstruction ==
  \/ \E s \in Slot : LocalPlace(s)
  \/ \E i \in Ns : FieldPlace(i)
  \/ \E i \in Ns : ValueFieldPlace(i)
  \/ \E i \in Ns : IndexPlace(i)
  \/ DerefPlace
  \/ Dup
  \/ LoadPlace
  \/ StorePlace
ArrayInstruction ==
  \/ \E n \in Ns : MakeRepeat(n)
  \/ \E n \in Ns : MakeBytes(n)
  \/ \E i \in Ns : Index(i)
  \/ ArrayPush
  \/ ArrayPop
  \/ \E i, j \in Ns : ArraySplice(i, j)
ScopeInstruction ==
  \/ ScopeEnter
  \/ \E n \in 1 .. MaxScopes : ScopeExit(n)
PatternInstruction ==
  \/ \E n \in 0 .. NSlots : TryPattern(n)
  \/ EnterBindings
  \/ MergeBindings
  \/ DropBindings
  \/ SaveMatch
  \/ LoadMatch
  \/ ClearMatch
CallInstruction ==
  \/ \E n \in 0 .. NSlots : Call(n, 0)
  \/ \E n \in 0 .. NSlots : Call(n, 1)
  \/ Return
HostInstruction == \E n \in 0 .. 1 : HostCall(n)

Next ==
  \/ GcMaybe
  \/ ValueInstruction
  \/ PlaceInstruction
  \/ ArrayInstruction
  \/ ScopeInstruction
  \/ PatternInstruction
  \/ CallInstruction
  \/ HostInstruction
  \/ InvokeEntry
  \/ CallFunction
  \/ ReturnToHost
  \/ Trap
  \/ Destroy

Spec == Init /\ [][Next]_vars

-----------------------------------------------------------------------------
(* The properties.                                                         *)

\* Every pointer kept in heap, stack, frames, bindings and match is in H.
Over(H) ==
  /\ heap \in [Live -> Object(H)]
  /\ stack \in Seq(Entry(H))
  /\ frames \in Seq(Frame(H))
  /\ pending \in Seq(Binding(H))
  /\ match \in Val(H) \cup {NoMatch}

\* The type invariant of the VM's state.
TypeOK ==
  /\ mode \in {"idle", "exec", "gc", "closed"}
  /\ armed \in BOOLEAN
  /\ Live \subseteq Obj
  /\ threshold \in Nat
  /\ Over(Obj)

\* No dangling pointer: whatever the VM may still follow - operands, places
\* with their owner, array and element, locals, bindings, the match value and
\* the items of every object - is an object the collector has not freed
\* (gc_collect's roots are complete, and no instruction keeps a pointer to
\* something it left unrooted).
NoDangling == Over(Live)

\* A place that place_cell lets through denotes a cell that exists: an active
\* local of the frame that took the place, or an item of an object that has
\* such items (the raw cell and items pointers of LPlace are never stale, even
\* when the right-hand side shrinks, grows or replaces what they point into).
CellsValid ==
  \A i \in DOMAIN stack : stack[i].tag = "P" /\ Usable(stack[i]) =>
    LET o == CellOwner(stack[i])
        x == CellIx(stack[i])
    IN  IF o = NoObj
        THEN LET k == stack[i].fr
             IN  /\ k \in DOMAIN frames /\ x \in frames[k].active
                 /\ frames[k].base < i
                 /\ k < Top => i <= frames[k + 1].base
        ELSE /\ o \in Live /\ heap[o].kind # "ENUM"
             /\ x \in DOMAIN Items(o)

\* Value semantics: a struct, an enum or an option is held by one cell only -
\* an operand, a local, a binding, the match value or an item - so a store
\* through one variable is never seen through another (every instruction that
\* duplicates a value goes through value_copy).
Holders(o) ==
  Cardinality({i \in DOMAIN stack : stack[i].tag = "V" /\ stack[i].v = o})
  + Cardinality({c \in (DOMAIN frames) \X Slot :
                   c[2] \in frames[c[1]].active /\ frames[c[1]].loc[c[2]] = o})
  + Cardinality({i \in DOMAIN pending : pending[i].val = o})
  + (IF match = o THEN 1 ELSE 0)
  + Cardinality({c \in Live \X (1 .. MaxLen) :
                   c[2] \in DOMAIN Items(c[1]) /\ Items(c[1])[c[2]] = o})
ValueOwned == \A o \in OfKind({"STRUCT", "ENUM"}) : Holders(o) <= 1

\* However a protected call ends, the boundary's collection reclaims all it
\* allocated.
CallLeavesNoGarbage == [][armed /\ mode' = "idle" => DOMAIN heap' = {}]_vars

-----------------------------------------------------------------------------
(* What docs/language says of assignment, which the native VM does not do. *)

\* docs/language/01-core-language.md:318: assigning to a field reached through
\* a reference writes it back. So the struct a field place stores into must be
\* the one its reference holds when the store is made.
WritesBack ==
  \A i \in DOMAIN stack :
    stack[i].tag = "P" /\ IsObj(stack[i].via, "REF")
      => Items(stack[i].via)[1] = stack[i].own

=============================================================================
