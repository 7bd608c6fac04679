---------------------------- MODULE VMOwned_proofs ----------------------------
(***************************************************************************)
(* Value semantics of the native VM, proved of VMHeap: a struct, an enum   *)
(* or an option is held by one cell only, for any heap, any code and any   *)
(* bounds.  That alone is not inductive: GET_FIELD, LOAD and the place     *)
(* instructions copy a value that some item holds, and a copy gets one     *)
(* holder only if value_copy meets no object twice.  The strengthening is  *)
(* that owned objects nest without a cycle.                                *)
(***************************************************************************)
EXTENDS VMHeap_proofs

-----------------------------------------------------------------------------
(* Owned objects, what they hold, and the cells that hold them.            *)

\* The objects value_copy duplicates, and those the items of o hold.
Owned(h) == {o \in DOMAIN h : h[o].kind \in {"STRUCT", "ENUM"}}
Inner(h, o) == Range(h[o].items) \cap Owned(h)

\* S holds all the owned objects nested in o, and o is not one of them.
Beneath(h, o, S) ==
  /\ S \subseteq Owned(h) /\ o \notin S
  /\ \A p \in S \cup {o} : Inner(h, p) \subseteq S
Acyclic == \A o \in Owned(heap) : \E S : Beneath(heap, o, S)

\* Cell c of a part of the state holds the value v.
OnStack(st, c, v) ==
  \E i \in DOMAIN st : c = <<"stack", i, 0>> /\ st[i].tag = "V" /\ st[i].v = v
InFrame(fr, k, c, v) == \E s \in fr.active : c = <<"local", k, s>> /\ fr.loc[s] = v
InFrames(frs, c, v) == \E k \in DOMAIN frs : InFrame(frs[k], k, c, v)
Bound(pend, c, v) ==
  \E i \in DOMAIN pend : c = <<"pending", i, 0>> /\ pend[i].val = v
Matched(m, c, v) == c = <<"match", 0, 0>> /\ m = v
InItems(its, o, c, v) == \E k \in DOMAIN its : c = <<"item", o, k>> /\ its[k] = v
InHeap(h, c, v) == \E o \in DOMAIN h : InItems(h[o].items, o, c, v)
Holds(c, v) ==
  \/ OnStack(stack, c, v)
  \/ InFrames(frames, c, v)
  \/ Bound(pending, c, v)
  \/ Matched(match, c, v)
  \/ InHeap(heap, c, v)

\* No two cells hold one owned object.
Apart ==
  \A v \in Owned(heap) : \A c, d : Holds(c, v) /\ Holds(d, v) => c = d

Values == IInv /\ Apart /\ Acyclic

-----------------------------------------------------------------------------
(* Copies.                                                                 *)

\* What value_copy duplicates of an owned object x: x, everything nested in
\* it, and nothing beyond what is beneath x.
LEMMA TreeOf ==
  ASSUME NEW x
  PROVE  /\ Tree(x) \subseteq Owned(heap)
         /\ x \in Owned(heap) => x \in Tree(x)
         /\ \A p \in Tree(x) : Inner(heap, p) \subseteq Tree(x)
         /\ \A S : Beneath(heap, x, S) => Tree(x) \subseteq S \cup {x}
         /\ x \notin Owned(heap) => Tree(x) = {}
<1> DEFINE K == OfKind({"STRUCT", "ENUM"})
<1>1. K = Owned(heap)
  BY DEF OfKind, Owned, Live
<1>2. \A p \in K : Refs(p) \cap K = Inner(heap, p)
  BY <1>1 DEF Refs, Items, Inner, Range, Owned, Live
<1>3. Tree(x) = {o \in K : \A S \in SUBSET K :
                  ({x} \cap K \subseteq S /\ \A p \in S : Inner(heap, p) \subseteq S) => o \in S}
  BY <1>2 DEF Tree, Closure
<1> HIDE DEF K
<1>4. Tree(x) \subseteq Owned(heap)
  BY <1>1, <1>3
<1>5. x \in Owned(heap) => x \in Tree(x)
  BY <1>1, <1>3
<1>6. ASSUME NEW p \in Tree(x), NEW q \in Inner(heap, p)
      PROVE  q \in Tree(x)
  <2>1. q \in K
    BY <1>1 DEF Inner
  <2>2. ASSUME NEW S \in SUBSET K, {x} \cap K \subseteq S,
               \A r \in S : Inner(heap, r) \subseteq S
        PROVE  q \in S
    BY <1>3, <2>2
  <2> QED
    BY <1>3, <2>1, <2>2
<1>7. ASSUME NEW S, Beneath(heap, x, S)
      PROVE  Tree(x) \subseteq S \cup {x}
  <2> DEFINE B == (S \cup {x}) \cap K
  <2>1. B \in SUBSET K /\ {x} \cap K \subseteq B
    OBVIOUS
  <2>2. \A p \in B : Inner(heap, p) \subseteq B
    BY <1>1, <1>7 DEF Beneath, Inner
  <2> HIDE DEF B
  <2>3. Tree(x) \subseteq B
    BY <1>3, <2>1, <2>2
  <2> QED
    BY <2>3 DEF B
<1>8. ASSUME x \notin Owned(heap)
      PROVE  Tree(x) = {}
  <2>1. {x} \cap K \subseteq {} /\ \A p \in {} : Inner(heap, p) \subseteq {}
    BY <1>1, <1>8
  <2> QED
    BY <1>3, <2>1
<1> QED
  BY <1>4, <1>5, <1>6, <1>7, <1>8

\* Nothing nested in an owned object holds it.
LEMMA TreeAcyclic ==
  ASSUME Acyclic, NEW x \in Owned(heap), NEW p \in Tree(x)
  PROVE  x \notin Inner(heap, p)
<1>1. PICK S : Beneath(heap, x, S)
  BY DEF Acyclic
<1>2. p \in S \cup {x}
  BY <1>1, TreeOf
<1> QED
  BY <1>1, <1>2 DEF Beneath

\* f gives every object of every tree an address of its own.
LEMMA CopiesOf ==
  ASSUME NEW xs, NEW f \in Copies(xs)
  PROVE  /\ \A d \in DOMAIN f : /\ d = <<d[1], d[2]>> /\ d[1] \in DOMAIN xs
                                /\ d[2] \in Tree(xs[d[1]]) /\ d[2] \in Owned(heap)
                                /\ f[d] \in Obj \ Live /\ f[d] \in Range(f)
         /\ \A i \in DOMAIN xs : \A p \in Tree(xs[i]) : <<i, p>> \in DOMAIN f
         /\ \A d, e \in DOMAIN f : f[d] = f[e] => d = e
         /\ \A n \in Range(f) : \E d \in DOMAIN f : n = f[d]
         /\ Range(f) \subseteq Obj \ Live
<1>1. f \in [CopyDom(xs) -> Obj \ Live] /\ IsInjective(f)
  BY DEF Copies
<1>2. \A d \in DOMAIN f : \E i \in DOMAIN xs : d \in {i} \X Tree(xs[i])
  BY <1>1 DEF CopyDom
<1>3. ASSUME NEW d \in DOMAIN f
      PROVE  /\ d = <<d[1], d[2]>> /\ d[1] \in DOMAIN xs
             /\ d[2] \in Tree(xs[d[1]]) /\ d[2] \in Owned(heap)
             /\ f[d] \in Obj \ Live /\ f[d] \in Range(f)
  <2>1. PICK i \in DOMAIN xs : d \in {i} \X Tree(xs[i])
    BY <1>2
  <2>2. d = <<d[1], d[2]>> /\ d[1] = i /\ d[2] \in Tree(xs[i])
    BY <2>1
  <2> QED
    BY <1>1, <2>2, TreeOf DEF Range
<1>4. ASSUME NEW i \in DOMAIN xs, NEW p \in Tree(xs[i])
      PROVE  <<i, p>> \in DOMAIN f
  <2>1. <<i, p>> \in {i} \X Tree(xs[i])
    OBVIOUS
  <2> QED
    BY <1>1, <2>1 DEF CopyDom
<1>5. \A d, e \in DOMAIN f : f[d] = f[e] => d = e
  BY <1>1, Zenon DEF IsInjective
<1>6. \A n \in Range(f) : \E d \in DOMAIN f : n = f[d]
  BY DEF Range
<1>7. Range(f) \subseteq Obj \ Live
  BY <1>1 DEF Range
<1> QED
  BY <1>3, <1>4, <1>5, <1>6, <1>7

LEMMA CopiesDiffer ==
  ASSUME NEW xs, NEW f \in Copies(xs)
  PROVE  \A i, p, j, q :
           <<i, p>> \in DOMAIN f /\ <<j, q>> \in DOMAIN f /\ f[<<i, p>>] = f[<<j, q>>]
             => i = j /\ p = q
<1> SUFFICES ASSUME NEW i, NEW p, NEW j, NEW q,
                    <<i, p>> \in DOMAIN f, <<j, q>> \in DOMAIN f, f[<<i, p>>] = f[<<j, q>>]
             PROVE  i = j /\ p = q
  OBVIOUS
<1>1. \A d, e \in DOMAIN f : f[d] = f[e] => d = e
  BY CopiesOf
<1>2. <<i, p>> = <<j, q>>
  BY <1>1, Zenon
<1> QED
  BY <1>2

\* The cells of the copies: the one the instruction puts a copied value in,
\* and the items of the copies.
RootOf(R, xs, f, c, v) ==
  \E i \in DOMAIN xs : xs[i] \in Owned(heap) /\ c = R[i] /\ v = f[<<i, xs[i]>>]
FreshItem(f, c, v) ==
  \E d \in DOMAIN f : \E k \in DOMAIN Items(d[2]) :
    /\ Items(d[2])[k] \in Owned(heap)
    /\ c = <<"item", f[d], k>> /\ v = f[<<d[1], Items(d[2])[k]>>]

\* The items of a copy are the copies of the items.
ItemCopied(f, n, v) ==
  \E d \in DOMAIN f : \E q \in Inner(heap, d[2]) :
    n = f[d] /\ <<d[1], q>> \in DOMAIN f /\ v = f[<<d[1], q>>]
LEMMA FreshItemOf ==
  ASSUME NEW xs, NEW f \in Copies(xs)
  PROVE  \A c, v : FreshItem(f, c, v) => ItemCopied(f, c[2], v) /\ v \in Range(f)
<1> SUFFICES ASSUME NEW c, NEW v, FreshItem(f, c, v)
             PROVE  ItemCopied(f, c[2], v) /\ v \in Range(f)
  OBVIOUS
<1>1. PICK d \in DOMAIN f : \E x \in DOMAIN Items(d[2]) :
        /\ Items(d[2])[x] \in Owned(heap)
        /\ c = <<"item", f[d], x>>
        /\ v = f[<<d[1], Items(d[2])[x]>>]
  BY DEF FreshItem
<1>2. PICK x \in DOMAIN Items(d[2]) :
        /\ Items(d[2])[x] \in Owned(heap)
        /\ c = <<"item", f[d], x>>
        /\ v = f[<<d[1], Items(d[2])[x]>>]
  BY <1>1
<1>3. Items(d[2])[x] \in Inner(heap, d[2])
  BY <1>2 DEF Inner, Items, Range
<1>4. Items(d[2])[x] \in Tree(xs[d[1]])
  BY <1>3, CopiesOf, TreeOf
<1>5. <<d[1], Items(d[2])[x]>> \in DOMAIN f
  BY <1>4, CopiesOf
<1>6. v \in Range(f)
  BY <1>2, <1>5, CopiesOf
<1>7. ItemCopied(f, c[2], v)
  <2>1. c[2] = f[d]
    BY <1>2
  <2> QED
    BY <1>2, <1>3, <1>5, <2>1 DEF ItemCopied
<1> QED
  BY <1>6, <1>7, Zenon

\* A copy has one holder: the cell of its root, which nothing nested in the
\* copied value can be, or the item the copied object's one holder became.
LEMMA CopiesApart ==
  ASSUME Apart, Acyclic, NEW xs, NEW f \in Copies(xs), NEW R,
         NEW v \in Range(f), NEW c, NEW d,
         RootOf(R, xs, f, c, v) \/ FreshItem(f, c, v),
         RootOf(R, xs, f, d, v) \/ FreshItem(f, d, v)
  PROVE  c = d
<1>d. \A i, p, j, q :
        <<i, p>> \in DOMAIN f /\ <<j, q>> \in DOMAIN f /\ f[<<i, p>>] = f[<<j, q>>]
          => i = j /\ p = q
  BY CopiesDiffer
<1> DEFINE RootAt(b, i) ==
      /\ i \in DOMAIN xs /\ xs[i] \in Owned(heap)
      /\ <<i, xs[i]>> \in DOMAIN f /\ b = R[i] /\ v = f[<<i, xs[i]>>]
<1> DEFINE ItemAt(b, e, k) ==
      /\ e \in DOMAIN f /\ k \in DOMAIN Items(e[2])
      /\ Items(e[2])[k] \in Inner(heap, e[2])
      /\ <<e[1], Items(e[2])[k]>> \in DOMAIN f
      /\ b = <<"item", f[e], k>> /\ v = f[<<e[1], Items(e[2])[k]>>]
<1>1. ASSUME NEW b, RootOf(R, xs, f, b, v)
      PROVE  \E i : RootAt(b, i)
  BY <1>1, CopiesOf, TreeOf DEF RootOf
<1>2. ASSUME NEW b, FreshItem(f, b, v)
      PROVE  \E e, k : ItemAt(b, e, k)
  <2>0. PICK e \in DOMAIN f : \E k \in DOMAIN Items(e[2]) :
          /\ Items(e[2])[k] \in Owned(heap)
          /\ b = <<"item", f[e], k>> /\ v = f[<<e[1], Items(e[2])[k]>>]
    BY <1>2 DEF FreshItem
  <2>1. PICK k \in DOMAIN Items(e[2]) :
          /\ Items(e[2])[k] \in Owned(heap)
          /\ b = <<"item", f[e], k>> /\ v = f[<<e[1], Items(e[2])[k]>>]
    BY <2>0
  <2>2. Items(e[2])[k] \in Inner(heap, e[2])
    BY <2>1 DEF Inner, Items, Range
  <2>3. Items(e[2])[k] \in Tree(xs[e[1]])
    BY <2>2, CopiesOf, TreeOf
  <2>4. ItemAt(b, e, k)
    BY <2>1, <2>2, <2>3, CopiesOf
  <2> QED
    BY <2>4
<1>3. ASSUME NEW a, NEW b, NEW i, NEW j, RootAt(a, i), RootAt(b, j)
      PROVE  a = b
  <2>1. i = j
    BY <1>3, <1>d
  <2> QED
    BY <1>3, <2>1
<1>4. ASSUME NEW a, NEW b, NEW i, NEW e, NEW k, RootAt(a, i), ItemAt(b, e, k)
      PROVE  FALSE
  <2>1. i = e[1] /\ xs[i] = Items(e[2])[k]
    <3>1. /\ <<i, xs[i]>> \in DOMAIN f /\ <<e[1], Items(e[2])[k]>> \in DOMAIN f
          /\ f[<<i, xs[i]>>] = f[<<e[1], Items(e[2])[k]>>]
      BY <1>4
    <3> QED
      BY <3>1, <1>d
  <2>2. e[2] \in Tree(xs[i])
    BY <1>4, <2>1, CopiesOf
  <2> QED
    BY <1>4, <2>1, <2>2, TreeAcyclic
<1>5. ASSUME NEW a, NEW b, NEW e, NEW k, NEW g, NEW m, ItemAt(a, e, k), ItemAt(b, g, m)
      PROVE  a = b
  <2>1. e[1] = g[1] /\ Items(e[2])[k] = Items(g[2])[m]
    <3>1. /\ <<e[1], Items(e[2])[k]>> \in DOMAIN f /\ <<g[1], Items(g[2])[m]>> \in DOMAIN f
          /\ f[<<e[1], Items(e[2])[k]>>] = f[<<g[1], Items(g[2])[m]>>]
      BY <1>5
    <3> QED
      BY <3>1, <1>d
  <2>2. e[2] \in Owned(heap) /\ g[2] \in Owned(heap)
    BY <1>5, CopiesOf
  <2>3. /\ Holds(<<"item", e[2], k>>, Items(e[2])[k])
        /\ Holds(<<"item", g[2], m>>, Items(g[2])[m])
    BY <1>5, <2>2 DEF Holds, InHeap, InItems, Items, Owned
  <2>4. Items(e[2])[k] \in Owned(heap)
    BY <1>5 DEF Inner
  <2>5. <<"item", e[2], k>> = <<"item", g[2], m>>
    BY <2>1, <2>3, <2>4 DEF Apart
  <2>6. e = g
    BY <1>5, <2>1, <2>5, CopiesOf
  <2> QED
    BY <1>5, <2>5, <2>6
<1> HIDE DEF RootAt, ItemAt
<1> QED
  BY <1>1, <1>2, <1>3, <1>4, <1>5

\* A step that copies the values xs, puts copy i in cell R[i] and makes at
\* most one more object o0, put in cell T, keeps owned objects apart and
\* without a cycle, if the old ones keep one holder and gain no old item.
LEMMA CopyOwned ==
  ASSUME Apart, Acyclic, NEW xs, NEW f \in Copies(xs), NEW R, NEW T,
         NEW o0, o0 \notin Live, o0 \notin Range(f),
         Owned(heap') \subseteq Owned(heap) \cup Range(f) \cup {o0},
         \A v \in Owned(heap) : v \in Owned(heap') =>
           \A c, d : Holds(c, v)' /\ Holds(d, v)' => c = d,
         \A v \in Range(f) : v \in Owned(heap') =>
           \A c : Holds(c, v)' => RootOf(R, xs, f, c, v) \/ FreshItem(f, c, v),
         o0 \in Owned(heap') => \A c : Holds(c, o0)' => c = T,
         \A o \in Owned(heap) : o \in Owned(heap') =>
           \A v \in Inner(heap', o) : v \in Inner(heap, o) \cup Range(f),
         \A n \in Range(f) : n \in Owned(heap') =>
           \A v \in Inner(heap', n) : \E k : FreshItem(f, <<"item", n, k>>, v),
         o0 \in Owned(heap') => Inner(heap', o0) \subseteq Range(f)
  PROVE  Apart' /\ Acyclic'
<1>1. Apart'
  <2> SUFFICES ASSUME NEW v \in Owned(heap'), NEW c, NEW d, Holds(c, v)', Holds(d, v)'
               PROVE  c = d
    BY DEF Apart
  <2>1. CASE v \in Owned(heap)
    BY <2>1
  <2>2. CASE v \in Range(f)
    BY <2>2, CopiesApart
  <2>3. CASE v = o0
    BY <2>3
  <2> QED
    BY <2>1, <2>2, <2>3
<1>2. \A n \in Range(f) : n \in Owned(heap') => Inner(heap', n) \subseteq Range(f)
  <2> SUFFICES ASSUME NEW n \in Range(f), n \in Owned(heap'), NEW v \in Inner(heap', n)
               PROVE  v \in Range(f)
    OBVIOUS
  <2>1. PICK k : FreshItem(f, <<"item", n, k>>, v)
    OBVIOUS
  <2> QED
    BY <2>1, FreshItemOf
<1>3. ASSUME NEW o \in Owned(heap'), o \in Owned(heap)
      PROVE  \E S : Beneath(heap', o, S)
  <2>1. PICK S : Beneath(heap, o, S)
    BY <1>3 DEF Acyclic
  <2> DEFINE B == (S \cup Range(f)) \cap Owned(heap')
  <2>2. o \notin B /\ B \subseteq Owned(heap')
    BY <1>3, <2>1, CopiesOf DEF Beneath, Owned, Live
  <2>3. ASSUME NEW p \in B \cup {o}, NEW v \in Inner(heap', p)
        PROVE  v \in B
    <3>1. v \in Owned(heap')
      BY <2>3 DEF Inner
    <3>2. CASE p \in S \cup {o}
      <4>1. p \in Owned(heap)
        BY <1>3, <2>1, <3>2 DEF Beneath
      <4> QED
        BY <2>1, <2>3, <3>1, <3>2, <4>1 DEF Beneath
    <3>3. CASE p \in Range(f)
      BY <1>2, <2>3, <3>1, <3>3
    <3> QED
      BY <3>2, <3>3
  <2> HIDE DEF B
  <2>4. Beneath(heap', o, B)
    BY <2>2, <2>3 DEF Beneath
  <2> QED
    BY <2>4
<1>d. \A i, p, j, q :
        <<i, p>> \in DOMAIN f /\ <<j, q>> \in DOMAIN f /\ f[<<i, p>>] = f[<<j, q>>]
          => i = j /\ p = q
  BY CopiesDiffer
<1>4. ASSUME NEW o \in Owned(heap'), o \in Range(f)
      PROVE  \E S : Beneath(heap', o, S)
  <2>1. PICK d \in DOMAIN f : o = f[d]
    BY <1>4, CopiesOf
  <2>2. d = <<d[1], d[2]>> /\ d[2] \in Owned(heap)
    BY <2>1, CopiesOf
  <2>3. PICK S : Beneath(heap, d[2], S)
    BY <2>2 DEF Acyclic
  <2> DEFINE B == {n \in Owned(heap') :
                     \E q \in S : <<d[1], q>> \in DOMAIN f /\ n = f[<<d[1], q>>]}
  <2>4. o \notin B
    <3> SUFFICES ASSUME NEW q \in S, <<d[1], q>> \in DOMAIN f, o = f[<<d[1], q>>]
                 PROVE  FALSE
      OBVIOUS
    <3>1. q = d[2]
      <4>1. /\ <<d[1], d[2]>> \in DOMAIN f /\ f[<<d[1], q>>] = f[<<d[1], d[2]>>]
        BY <2>1, <2>2
      <4> QED
        BY <4>1, <1>d
    <3> QED
      BY <2>3, <3>1 DEF Beneath
  <2>5. ASSUME NEW p \in B \cup {o}, NEW v \in Inner(heap', p)
        PROVE  v \in B
    <3>1. PICK q \in S \cup {d[2]} : <<d[1], q>> \in DOMAIN f /\ p = f[<<d[1], q>>]
      BY <2>1, <2>2, <2>5
    <3>2. p \in Range(f)
      BY <3>1, CopiesOf
    <3>3. PICK k : FreshItem(f, <<"item", p, k>>, v)
      BY <2>5, <3>2
    <3>4. PICK e \in DOMAIN f : \E r \in Inner(heap, e[2]) :
            p = f[e] /\ <<e[1], r>> \in DOMAIN f /\ v = f[<<e[1], r>>]
      <4>1. ItemCopied(f, p, v)
        BY <3>3, FreshItemOf
      <4> QED
        BY <4>1 DEF ItemCopied
    <3>5. e = <<e[1], e[2]>>
      BY CopiesOf
    <3>6. e[1] = d[1] /\ e[2] = q
      <4>1. <<e[1], e[2]>> \in DOMAIN f /\ f[<<d[1], q>>] = f[<<e[1], e[2]>>]
        BY <3>1, <3>4, <3>5
      <4> QED
        BY <3>1, <4>1, <1>d
    <3>7. \E r \in S : <<d[1], r>> \in DOMAIN f /\ v = f[<<d[1], r>>]
      BY <2>3, <3>1, <3>4, <3>6 DEF Beneath
    <3>8. v \in Owned(heap')
      BY <2>5 DEF Inner
    <3> QED
      BY <3>7, <3>8
  <2>6. B \subseteq Owned(heap')
    OBVIOUS
  <2> HIDE DEF B
  <2>7. Beneath(heap', o, B)
    BY <2>4, <2>5, <2>6 DEF Beneath
  <2> QED
    BY <2>7
<1>5. ASSUME o0 \in Owned(heap')
      PROVE  \E S : Beneath(heap', o0, S)
  <2> DEFINE B == Range(f) \cap Owned(heap')
  <2>1. \A p \in B \cup {o0} : Inner(heap', p) \subseteq B
    BY <1>2 DEF Inner
  <2>2. Beneath(heap', o0, B)
    BY <2>1 DEF Beneath
  <2> QED
    BY <2>2
<1> QED
  BY <1>1, <1>3, <1>4, <1>5 DEF Acyclic

-----------------------------------------------------------------------------
(* Steps, told by which cells hold what afterwards.                        *)

\* What a cell holds is a value over the live objects.
LEMMA HeldLive ==
  ASSUME IInv, NEW c, NEW v, Holds(c, v)
  PROVE  v \in Val(Live) \cup {NoMatch}
<1>1. CASE OnStack(stack, c, v)
  <2>1. PICK i \in DOMAIN stack : stack[i].tag = "V" /\ stack[i].v = v
    BY <1>1 DEF OnStack
  <2>2. stack[i] \in Entry(Live)
    BY ElementOfSeq, LenProperties DEF IInv, StackOK, Live
  <2> QED
    BY <2>1, <2>2 DEF Entry, ValEntry, PlaceEntry
<1>2. CASE InFrames(frames, c, v)
  <2>1. PICK k \in DOMAIN frames : \E s \in frames[k].active : frames[k].loc[s] = v
    BY <1>2 DEF InFrames, InFrame
  <2>2. frames[k] \in Frame(Live)
    BY ElementOfSeq, LenProperties DEF IInv, FramesOK, Live
  <2> QED
    BY <2>1, <2>2 DEF Frame
<1>3. CASE Bound(pending, c, v)
  <2>1. PICK i \in DOMAIN pending : pending[i].val = v
    BY <1>3 DEF Bound
  <2>2. pending[i] \in Binding(Live)
    BY ElementOfSeq, LenProperties DEF IInv, RestOK, Live
  <2> QED
    BY <2>1, <2>2 DEF Binding
<1>4. CASE Matched(match, c, v)
  BY <1>4 DEF Matched, IInv, RestOK, Live
<1>5. CASE InHeap(heap, c, v)
  <2>1. PICK o \in Live : \E k \in DOMAIN Items(o) : Items(o)[k] = v
    BY <1>5 DEF InHeap, InItems, Live, Items
  <2> QED
    BY <2>1, ItemsOK
<1> QED
  BY <1>1, <1>2, <1>3, <1>4, <1>5 DEF Holds

\* Only an item of an object is held in a cell of that object.
LEMMA HeldInside ==
  ASSUME NEW o, NEW k, NEW v, Holds(<<"item", o, k>>, v)
  PROVE  o \in Live /\ v \in Range(heap[o].items)
<1>1. InHeap(heap, <<"item", o, k>>, v)
  BY DEF Holds, OnStack, InFrames, InFrame, Bound, Matched
<1>2. PICK p \in DOMAIN heap : \E x \in DOMAIN heap[p].items :
        <<"item", o, k>> = <<"item", p, x>> /\ heap[p].items[x] = v
  BY <1>1 DEF InHeap, InItems
<1> QED
  BY <1>2 DEF Live, Range
LEMMA InsideHeld ==
  ASSUME NEW h, NEW o \in DOMAIN h, NEW v \in Inner(h, o)
  PROVE  v \in Owned(h) /\ \E k : InHeap(h, <<"item", o, k>>, v)
BY DEF Inner, Range, InHeap, InItems

\* What may hold an owned object after an instruction: Kept is an old
\* holder, or a cell the instruction filled; Candidate leaves out the old objects that are not owned.
Kept(xs, f, R, T, o0, c, v) ==
  \/ Holds(c, v) \/ RootOf(R, xs, f, c, v) \/ FreshItem(f, c, v)
  \/ c = T /\ v = o0
Candidate(v) == v \in Obj /\ (v \in Live => v \in Owned(heap))

\* An instruction that copies the values xs, puts copy i in cell R[i], and
\* makes at most the object o0, put in cell T, told part by part of the state.
Keeping(xs, f, R, T, o0) ==
  /\ \A v \in Live : v \in DOMAIN heap' => heap'[v].kind = heap[v].kind
  /\ Owned(heap') \subseteq Live \cup Range(f) \cup {o0}
  /\ o0 \in (Obj \ Live) \cup {NoObj} /\ o0 \notin Range(f)
  /\ \A i \in DOMAIN xs : \A n \in Range(f) : \A k : R[i] # <<"item", n, k>>
  /\ \A n, k : T # <<"item", n, k>>
  /\ \A v, c : Candidate(v) /\ v \in Owned(heap') =>
       /\ OnStack(stack', c, v) => Kept(xs, f, R, T, o0, c, v)
       /\ InFrames(frames', c, v) => Kept(xs, f, R, T, o0, c, v)
       /\ Bound(pending', c, v) => Kept(xs, f, R, T, o0, c, v)
       /\ Matched(match', c, v) => Kept(xs, f, R, T, o0, c, v)
       /\ InHeap(heap', c, v) => Kept(xs, f, R, T, o0, c, v)

\* It keeps the values' invariant.
LEMMA KeptStep ==
  ASSUME Values, IInv', NEW xs, NEW f \in Copies(xs), NEW R, NEW T, NEW o0,
         Keeping(xs, f, R, T, o0)
  PROVE  Values'
<1>k1. /\ o0 \in (Obj \ Live) \cup {NoObj} /\ o0 \notin Range(f)
       /\ Owned(heap') \subseteq Live \cup Range(f) \cup {o0}
       /\ \A i \in DOMAIN xs : \A n \in Range(f) : \A k : R[i] # <<"item", n, k>>
       /\ \A n, k : T # <<"item", n, k>>
  BY DEF Keeping
<1>k2. DOMAIN heap \cap Owned(heap') \subseteq Owned(heap)
  BY DEF Keeping, Owned, Live
<1>k3. \A v \in Owned(heap') : Candidate(v)
  BY <1>k2 DEF Candidate, IInv, HeapOK, Owned, Live
<1>k4. \A v \in Owned(heap') : \A c : Holds(c, v)' => Kept(xs, f, R, T, o0, c, v)
  BY <1>k3 DEF Holds, Keeping
<1>k5. \A v \in Owned(heap') : \A c : Holds(c, v)' =>
         \/ Holds(c, v) \/ RootOf(R, xs, f, c, v) \/ FreshItem(f, c, v)
         \/ c = T /\ v = o0
  BY <1>k4 DEF Kept
<1> USE <1>k1, <1>k2, <1>k5
<1> DEFINE Root(c, v) == RootOf(R, xs, f, c, v)
<1> DEFINE Item(c, v) == FreshItem(f, c, v)
<1>1. ASSUME NEW c, NEW v \in Owned(heap'), Holds(c, v)
      PROVE  v \notin Range(f) /\ v # o0
  <2>1. v \in Val(Live) \cup {NoMatch}
    BY <1>1, HeldLive DEF Values
  <2>2. v \in Obj
    BY DEF IInv, HeapOK, Owned
  <2>3. v \in Live
    BY <2>1, <2>2, NamesAssumption DEF Val
  <2> QED
    BY <2>2, <2>3, CopiesOf, NamesAssumption
<1>2. ASSUME NEW c, NEW v, Root(c, v) \/ Item(c, v)
      PROVE  v \in Range(f)
  <2>1. CASE Root(c, v)
    BY <2>1, CopiesOf, TreeOf DEF RootOf
  <2>2. CASE Item(c, v)
    BY <2>2, FreshItemOf
  <2> QED
    BY <1>2, <2>1, <2>2
<1>3. ASSUME NEW n, NEW k, NEW v, Item(<<"item", n, k>>, v)
      PROVE  n \in Range(f)
  <2>1. PICK d \in DOMAIN f : \E x : <<"item", n, k>> = <<"item", f[d], x>>
    BY <1>3 DEF FreshItem
  <2> QED
    BY <2>1, CopiesOf
<1>4. /\ \A v \in Owned(heap) : v \in Live /\ v \notin Range(f) /\ v # o0
      /\ \A v \in Live : v \in Owned(heap') => v \in Owned(heap)
  BY CopiesOf, NamesAssumption DEF Values, IInv, HeapOK, Owned, Live
<1> HIDE DEF Root, Item
<1>5. ASSUME NEW v \in Owned(heap), v \in Owned(heap'), NEW c, Holds(c, v)'
      PROVE  Holds(c, v)
  BY <1>2, <1>4, <1>5 DEF Root, Item
<1>6. ASSUME NEW v \in Range(f), v \in Owned(heap'), NEW c, Holds(c, v)'
      PROVE  Root(c, v) \/ Item(c, v)
  BY <1>1, <1>6 DEF Root, Item
<1>7. ASSUME o0 \in Owned(heap'), NEW c, Holds(c, o0)'
      PROVE  c = T
  BY <1>1, <1>2, <1>7 DEF Root, Item
<1>8. ASSUME NEW n, NEW v \in Inner(heap', n), n \in DOMAIN heap'
      PROVE  \E k : /\ v \in Owned(heap')
                    /\ \/ Holds(<<"item", n, k>>, v) \/ Root(<<"item", n, k>>, v)
                       \/ Item(<<"item", n, k>>, v)
  <2>1. v \in Owned(heap')
    BY <1>8, InsideHeld
  <2>2. PICK k : InHeap(heap', <<"item", n, k>>, v)
    BY <1>8, InsideHeld
  <2>3. Holds(<<"item", n, k>>, v)'
    BY <2>2 DEF Holds
  <2> QED
    BY <2>1, <2>3 DEF Root, Item
<1>9. ASSUME NEW o \in Owned(heap), o \in Owned(heap'), NEW v \in Inner(heap', o)
      PROVE  v \in Inner(heap, o) \cup Range(f)
  <2>1. o \in DOMAIN heap' /\ o \in Live /\ o \notin Range(f)
    BY <1>4, <1>9 DEF Owned
  <2>2. PICK k : /\ v \in Owned(heap')
                 /\ \/ Holds(<<"item", o, k>>, v) \/ Root(<<"item", o, k>>, v)
                    \/ Item(<<"item", o, k>>, v)
    BY <1>8, <1>9, <2>1
  <2>3. CASE Holds(<<"item", o, k>>, v)
    <3>1. v \in Range(heap[o].items)
      BY <2>3, HeldInside
    <3>2. v \notin Range(f) /\ v # o0
      BY <1>1, <2>2, <2>3
    <3>3. v \in Owned(heap)
      BY <1>4, <2>2, <3>2
    <3> QED
      BY <3>1, <3>3 DEF Inner
  <2> QED
    BY <1>2, <2>2, <2>3
<1>10. ASSUME NEW n \in Range(f), n \in Owned(heap'), NEW v \in Inner(heap', n)
       PROVE  \E k : Item(<<"item", n, k>>, v)
  <2>1. n \in DOMAIN heap' /\ n \notin Live
    BY <1>10, CopiesOf DEF Owned
  <2>2. PICK k : /\ v \in Owned(heap')
                 /\ \/ Holds(<<"item", n, k>>, v) \/ Root(<<"item", n, k>>, v)
                    \/ Item(<<"item", n, k>>, v)
    BY <1>8, <1>10, <2>1
  <2>3. ~ Holds(<<"item", n, k>>, v)
    BY <2>1, HeldInside
  <2>4. ~ Root(<<"item", n, k>>, v)
    BY DEF Root, RootOf
  <2> QED
    BY <2>2, <2>3, <2>4
<1>11. ASSUME o0 \in Owned(heap'), NEW v \in Inner(heap', o0)
       PROVE  v \in Range(f)
  <2>1. o0 \in DOMAIN heap' /\ o0 \notin Live
    BY <1>11, NamesAssumption DEF Owned, Values, IInv, HeapOK, Live
  <2>2. PICK k : /\ v \in Owned(heap')
                 /\ \/ Holds(<<"item", o0, k>>, v) \/ Root(<<"item", o0, k>>, v)
                    \/ Item(<<"item", o0, k>>, v)
    BY <1>8, <1>11, <2>1
  <2>3. ~ Holds(<<"item", o0, k>>, v)
    BY <2>1, HeldInside
  <2> QED
    BY <1>2, <2>2, <2>3
<1>12. \A v \in Owned(heap) : v \in Owned(heap') =>
         \A c, d : Holds(c, v)' /\ Holds(d, v)' => c = d
  BY <1>5 DEF Values, Apart
<1>13. Owned(heap') \subseteq Owned(heap) \cup Range(f) \cup {o0}
  BY <1>4
<1>14. o0 \notin Live
  BY NamesAssumption DEF Values, IInv, HeapOK, Live
<1>15. \A v \in Range(f) : v \in Owned(heap') =>
         \A c : Holds(c, v)' => RootOf(R, xs, f, c, v) \/ FreshItem(f, c, v)
  BY <1>6 DEF Root, Item
<1>16. \A n \in Range(f) : n \in Owned(heap') =>
         \A v \in Inner(heap', n) : \E k : FreshItem(f, <<"item", n, k>>, v)
  BY <1>10 DEF Item
<1>17. \A o \in Owned(heap) : o \in Owned(heap') =>
         \A v \in Inner(heap', o) : v \in Inner(heap, o) \cup Range(f)
  BY <1>9
<1>18. o0 \in Owned(heap') => \A c : Holds(c, o0)' => c = T
  BY <1>7
<1>19. o0 \in Owned(heap') => Inner(heap', o0) \subseteq Range(f)
  BY <1>11
<1> QED
  BY <1>12, <1>13, <1>14, <1>15, <1>16, <1>17, <1>18, <1>19, CopyOwned DEF Values

\* An instruction that copies nothing copies no values.
NoCopy == [d \in {} |-> d]
LEMMA NoCopies ==
  /\ NoCopy \in Copies(<<>>) /\ Range(NoCopy) = {} /\ DOMAIN <<>> = {}
<1>1. DOMAIN <<>> = {}
  OBVIOUS
<1>2. CopyDom(<<>>) = {}
  BY <1>1 DEF CopyDom
<1>3. Range(NoCopy) = {} /\ DOMAIN NoCopy = {}
  BY DEF Range, NoCopy
<1>4. IsInjective(NoCopy)
  BY <1>3 DEF IsInjective
<1>5. NoCopy \in [CopyDom(<<>>) -> Obj \ Live]
  BY <1>2 DEF NoCopy
<1> QED
  BY <1>1, <1>3, <1>4, <1>5 DEF Copies

\* It may make one object, held by cell T, and drop or keep the rest.
LEMMA KeptPlain ==
  ASSUME Values, IInv', NEW T, NEW o0 \in (Obj \ Live) \cup {NoObj},
         \A v \in Live : v \in DOMAIN heap' => heap'[v].kind = heap[v].kind,
         Owned(heap') \subseteq Live \cup {o0},
         \A v, c : OnStack(stack', c, v) => v \in Imm \/ Holds(c, v) \/ (c = T /\ v = o0),
         \A v, c : InFrames(frames', c, v) => v \in Imm \/ Holds(c, v),
         \A v, c : Bound(pending', c, v) => Holds(c, v),
         \A v, c : Matched(match', c, v) => v = NoMatch \/ Holds(c, v),
         \A v \in Owned(heap') : \A c :
           Candidate(v) /\ InHeap(heap', c, v) => Holds(c, v),
         \A n, k : T # <<"item", n, k>>
  PROVE  Values'
<1> DEFINE K(c, v) == Kept(<<>>, NoCopy, <<>>, T, o0, c, v)
<1>1. \A v : Candidate(v) => v \notin Imm /\ v # NoMatch
  BY NamesAssumption DEF Candidate
<1>2. \A c, v : Holds(c, v) \/ (c = T /\ v = o0) => K(c, v)
  BY DEF Kept
<1> HIDE DEF K
<1>3. ASSUME NEW c, NEW v \in Owned(heap'), Candidate(v),
             \/ OnStack(stack', c, v) \/ InFrames(frames', c, v) \/ Bound(pending', c, v)
             \/ Matched(match', c, v) \/ InHeap(heap', c, v)
      PROVE  K(c, v)
  <2>1. v \notin Imm /\ v # NoMatch
    BY <1>1, <1>3
  <2>2. Holds(c, v) \/ (c = T /\ v = o0)
    <3>1. CASE OnStack(stack', c, v)
      BY <2>1, <3>1
    <3>2. CASE InFrames(frames', c, v)
      BY <2>1, <3>2
    <3>3. CASE Bound(pending', c, v)
      BY <3>3
    <3>4. CASE Matched(match', c, v)
      BY <2>1, <3>4
    <3>5. CASE InHeap(heap', c, v)
      BY <1>3, <3>5
    <3> QED
      BY <1>3, <3>1, <3>2, <3>3, <3>4, <3>5
  <2> QED
    BY <1>2, <2>2
<1> USE DEF K
<1>4. o0 \notin Range(NoCopy) /\ Owned(heap') \subseteq Live \cup Range(NoCopy) \cup {o0}
  BY NoCopies
<1>5. \A i \in DOMAIN <<>> : \A n \in Range(NoCopy) : \A k : <<>>[i] # <<"item", n, k>>
  BY NoCopies
<1>6. Keeping(<<>>, NoCopy, <<>>, T, o0)
  BY <1>3, <1>4, <1>5 DEF Keeping
<1> QED
  BY <1>6, NoCopies, KeptStep

-----------------------------------------------------------------------------
(* What the parts of the state hold after the usual updates.               *)

LEMMA StackAfter ==
  ASSUME IInv, NEW n \in 0 .. Len(stack)
  PROVE  /\ \A c, v : OnStack(Rest(n), c, v) => OnStack(stack, c, v)
         /\ \A e, c, v : OnStack(Append(Rest(n), e), c, v) =>
              \/ OnStack(stack, c, v)
              \/ e.tag = "V" /\ v = e.v /\ c = <<"stack", Len(stack) - n + 1, 0>>
<1>1. /\ stack \in Seq(Entry(Live)) /\ Len(stack) \in Nat
      /\ DOMAIN stack = 1 .. Len(stack)
  BY LenProperties DEF IInv, StackOK, Live
<1>2. /\ Rest(n) \in Seq(Entry(Live)) /\ Len(Rest(n)) = Len(stack) - n
      /\ \A i \in 1 .. Len(stack) - n : Rest(n)[i] = stack[i]
  <2> DEFINE m == Len(stack) - n
  <2>1. m \in Int /\ m = Len(stack) - n /\ m \in 0 .. Len(stack)
    BY <1>1
  <2> HIDE DEF m
  <2>2. \A i \in 1 .. m : stack[i] \in Entry(Live)
    BY <1>1, <2>1, ElementOfSeq
  <2>3. /\ SubSeq(stack, 1, m) \in Seq(Entry(Live)) /\ Len(SubSeq(stack, 1, m)) = m
        /\ \A i \in 1 .. m : SubSeq(stack, 1, m)[i] = stack[i]
    BY <2>1, <2>2, SubSeqProperties
  <2> QED
    BY <2>1, <2>3 DEF Rest
<1>3. DOMAIN Rest(n) = 1 .. Len(stack) - n
  BY <1>2, LenProperties
<1>4. \A i \in DOMAIN Rest(n) : i \in DOMAIN stack /\ Rest(n)[i] = stack[i]
  BY <1>1, <1>2, <1>3
<1>5. ASSUME NEW e, NEW c, NEW v, OnStack(Append(Rest(n), e), c, v)
      PROVE  \/ OnStack(stack, c, v)
             \/ e.tag = "V" /\ v = e.v /\ c = <<"stack", Len(stack) - n + 1, 0>>
  <2>1. PICK i \in DOMAIN Append(Rest(n), e) :
          /\ c = <<"stack", i, 0>> /\ Append(Rest(n), e)[i].tag = "V"
          /\ Append(Rest(n), e)[i].v = v
    BY <1>5 DEF OnStack
  <2>2. /\ DOMAIN Append(Rest(n), e) = 1 .. Len(stack) - n + 1
        /\ \A j \in 1 .. Len(stack) - n : Append(Rest(n), e)[j] = Rest(n)[j]
        /\ Append(Rest(n), e)[Len(stack) - n + 1] = e
    <3>1. PICK s, m : s = Rest(n) /\ m = Len(stack) - n
      OBVIOUS
    <3>2. s \in Seq(Entry(Live) \cup {e}) /\ Len(s) = m
      BY <1>2, <3>1, SeqMonotonic
    <3>3. /\ Append(s, e) \in Seq(Entry(Live) \cup {e}) /\ Len(Append(s, e)) = m + 1
          /\ \A j \in 1 .. m : Append(s, e)[j] = s[j]
          /\ Append(s, e)[m + 1] = e
      BY <3>2, AppendProperties
    <3>4. DOMAIN Append(s, e) = 1 .. m + 1
      BY <3>3, LenProperties
    <3> QED
      BY <3>1, <3>3, <3>4
  <2>3. i \in 1 .. Len(stack) - n + 1
    BY <2>1, <2>2
  <2>4. CASE i <= Len(stack) - n
    BY <1>1, <1>3, <1>4, <2>1, <2>2, <2>3, <2>4 DEF OnStack
  <2>5. CASE i = Len(stack) - n + 1
    BY <1>1, <2>1, <2>2, <2>3, <2>5
  <2> QED
    BY <1>1, <2>3, <2>4, <2>5
<1> QED
  BY <1>4, <1>5 DEF OnStack

\* The cells of the heap once the copies exist.
LEMMA HeapAfterCopies ==
  ASSUME IInv, NEW xs, NEW f \in Copies(xs), NEW v, Candidate(v)
  PROVE  \A c : InHeap(WithCopies(f), c, v) => InHeap(heap, c, v) \/ FreshItem(f, c, v)
<1> SUFFICES ASSUME NEW c, InHeap(WithCopies(f), c, v)
             PROVE  InHeap(heap, c, v) \/ FreshItem(f, c, v)
  OBVIOUS
<1>1. PICK n \in DOMAIN WithCopies(f) : \E k \in DOMAIN WithCopies(f)[n].items :
        c = <<"item", n, k>> /\ WithCopies(f)[n].items[k] = v
  BY DEF InHeap, InItems
<1>2. n \in Live \cup Range(f)
  BY DEF WithCopies
<1>3. CASE n \in Live
  <2>1. WithCopies(f)[n] = heap[n]
    BY <1>3 DEF WithCopies
  <2> QED
    BY <1>1, <1>3, <2>1 DEF InHeap, InItems, Live
<1>4. CASE n \in Range(f)
  <2> DEFINE d == CHOOSE d \in DOMAIN f : f[d] = n
  <2>1. d \in DOMAIN f /\ f[d] = n
    BY <1>4, CopiesOf
  <2>2. WithCopies(f)[n] = [kind  |-> heap[d[2]].kind,
                            items |-> [k \in DOMAIN Items(d[2]) |->
                                         CopyVal(f, d[1], Items(d[2])[k])]]
    BY <1>4, CopiesOf DEF WithCopies, CopyHeap
  <2> HIDE DEF d
  <2>3. PICK k \in DOMAIN Items(d[2]) :
          c = <<"item", f[d], k>> /\ CopyVal(f, d[1], Items(d[2])[k]) = v
    BY <1>1, <2>1, <2>2
  <2>4. d[2] \in Owned(heap) /\ d[2] \in Tree(xs[d[1]]) /\ d[1] \in DOMAIN xs
    BY <2>1, CopiesOf
  <2>5. d[2] \in Live
    BY <2>4 DEF Owned, Live
  <2>6. Items(d[2])[k] \in Owned(heap)
    <3>1. CASE <<d[1], Items(d[2])[k]>> \in DOMAIN f
      BY <3>1, CopiesOf
    <3>2. CASE <<d[1], Items(d[2])[k]>> \notin DOMAIN f
      <4>1. v = Items(d[2])[k]
        BY <2>3, <3>2 DEF CopyVal
      <4>2. v \in Live
        BY <2>5, <4>1, ItemsOK, NamesAssumption DEF Candidate, Val
      <4> QED
        BY <4>1, <4>2 DEF Candidate
    <3> QED
      BY <3>1, <3>2
  <2>7. Items(d[2])[k] \in Inner(heap, d[2])
    BY <2>6 DEF Inner, Items, Range
  <2>8. <<d[1], Items(d[2])[k]>> \in DOMAIN f
    BY <2>4, <2>7, TreeOf, CopiesOf
  <2> QED
    BY <2>1, <2>3, <2>6, <2>8 DEF FreshItem, CopyVal
<1> QED
  BY <1>2, <1>3, <1>4

\* The cell that gets the copy of xs[i].
LEMMA RootHolds ==
  ASSUME IInv, NEW xs, NEW f \in Copies(xs), NEW i \in DOMAIN xs, xs[i] \in Val(Live),
         NEW v, Candidate(v), v = CopyVal(f, i, xs[i]), NEW R
  PROVE  RootOf(R, xs, f, R[i], v)
<1>1. CASE xs[i] \in Owned(heap)
  <2>1. <<i, xs[i]>> \in DOMAIN f
    BY <1>1, TreeOf, CopiesOf
  <2> QED
    BY <1>1, <2>1 DEF RootOf, CopyVal
<1>2. CASE xs[i] \notin Owned(heap)
  <2>1. <<i, xs[i]>> \notin DOMAIN f
    BY <1>2, CopiesOf
  <2>2. v = xs[i]
    BY <2>1 DEF CopyVal
  <2> QED
    BY <1>2, <2>2, NamesAssumption DEF Candidate, Val
<1> QED
  BY <1>1, <1>2

\* What the heap gains from copies, and from one more object.
LEMMA CopiesKind ==
  ASSUME IInv, NEW xs, NEW f \in Copies(xs)
  PROVE  /\ DOMAIN WithCopies(f) = Live \cup Range(f)
         /\ \A o \in Live : WithCopies(f)[o] = heap[o]
BY CopiesOf DEF WithCopies, Live

\* Instructions that push a copy of a value.
LEMMA CopyKeeps ==
  ASSUME Values, IInv', NEW n \in Nat, n <= Len(stack),
         NEW w \in Val(Live), PushCopy(n, w)
  PROVE  Values'
<1>1. PICK f \in Copies(<<w>>) :
        heap' = WithCopies(f) /\ Replace(n, CopyVal(f, 1, w)) /\ Rigid
  BY DEF PushCopy
<1>i. IInv
  BY DEF Values
<1>x. PICK xs, c1, R : xs = <<w>> /\ c1 = <<"stack", Len(stack) - n + 1, 0>> /\ R = <<c1>>
  OBVIOUS
<1> DEFINE K(c, v) == Kept(xs, f, R, c1, NoObj, c, v)
<1>2. /\ DOMAIN xs = {1} /\ xs[1] = w /\ R[1] = c1
      /\ f \in Copies(xs) /\ NoObj \in (Obj \ Live) \cup {NoObj}
  BY <1>x
<1>3. n \in 0 .. Len(stack)
  BY <1>i, LenProperties DEF IInv, StackOK
<1>4. stack' = Append(Rest(n), V(CopyVal(f, 1, w)))
  BY <1>1 DEF Replace, Push
<1>5. ASSUME NEW v, NEW c, Candidate(v), OnStack(stack', c, v)
      PROVE  K(c, v)
  <2>1. OnStack(stack, c, v) \/ (v = CopyVal(f, 1, w) /\ c = c1)
    BY <1>i, <1>x, <1>3, <1>4, <1>5, StackAfter DEF V
  <2>2. ASSUME v = CopyVal(f, 1, w)
        PROVE  RootOf(R, xs, f, R[1], v)
    BY <1>i, <1>2, <1>5, <2>2, RootHolds
  <2> QED
    BY <1>2, <2>1, <2>2 DEF Kept, Holds
<1>6. ASSUME NEW v, NEW c, Candidate(v), InHeap(heap', c, v)
      PROVE  K(c, v)
  <2>1. InHeap(heap, c, v) \/ FreshItem(f, c, v)
    BY <1>i, <1>1, <1>2, <1>6, HeapAfterCopies
  <2> QED
    BY <2>1 DEF Kept, Holds
<1>7. /\ \A v, c : Candidate(v) /\ InFrames(frames', c, v) => K(c, v)
      /\ \A v, c : Candidate(v) /\ Bound(pending', c, v) => K(c, v)
      /\ \A v, c : Candidate(v) /\ Matched(match', c, v) => K(c, v)
  BY <1>1 DEF Rigid, Kept, Holds
<1>8. /\ \A v \in Live : v \in DOMAIN heap' => heap'[v].kind = heap[v].kind
      /\ Owned(heap') \subseteq Live \cup Range(f) \cup {NoObj}
  BY <1>i, <1>1, <1>2, CopiesKind DEF Owned
<1>9. NoObj \notin Range(f)
  BY <1>2, CopiesOf, NamesAssumption
<1>10. /\ \A i \in DOMAIN xs : \A o \in Range(f) : \A k : R[i] # <<"item", o, k>>
       /\ \A o, k : c1 # <<"item", o, k>>
  BY <1>x, <1>2
<1>12. /\ \A v, c : Candidate(v) /\ OnStack(stack', c, v) => K(c, v)
       /\ \A v, c : Candidate(v) /\ InHeap(heap', c, v) => K(c, v)
  BY <1>5, <1>6
<1>13. Keeping(xs, f, R, c1, NoObj)
  BY <1>2, <1>7, <1>8, <1>9, <1>10, <1>12 DEF Keeping
<1> QED
  BY <1>2, <1>13, KeptStep

-----------------------------------------------------------------------------
(* Instructions that copy nothing.                                         *)

\* A step after which the state holds no more than before.
LEMMA KeptLess ==
  ASSUME Values, IInv',
         DOMAIN heap' \subseteq Live, \A v \in DOMAIN heap' : heap'[v] = heap[v],
         \A v, c : OnStack(stack', c, v) => v \in Imm \/ OnStack(stack, c, v),
         \A v, c : InFrames(frames', c, v) => v \in Imm \/ InFrames(frames, c, v),
         \A v, c : Bound(pending', c, v) => Bound(pending, c, v),
         match' \in {match, NoMatch}
  PROVE  Values'
<1> DEFINE T == <<"stack", 0, 0>>
<1>1. /\ NoObj \in (Obj \ Live) \cup {NoObj}
      /\ \A v \in Live : v \in DOMAIN heap' => heap'[v].kind = heap[v].kind
      /\ Owned(heap') \subseteq Live \cup {NoObj}
      /\ \A n, k : T # <<"item", n, k>>
  BY DEF Owned
<1>2. \A v, c : OnStack(stack', c, v) => v \in Imm \/ Holds(c, v) \/ (c = T /\ v = NoObj)
  BY DEF Holds
<1>3. \A v, c : InFrames(frames', c, v) => v \in Imm \/ Holds(c, v)
  BY DEF Holds
<1>4. \A v, c : Bound(pending', c, v) => Holds(c, v)
  BY DEF Holds
<1>5. \A v, c : Matched(match', c, v) => v = NoMatch \/ Holds(c, v)
  BY DEF Holds, Matched
<1>6. \A v, c : Candidate(v) /\ InHeap(heap', c, v) => Holds(c, v)
  BY DEF Holds, InHeap, InItems, Live
<1> HIDE DEF T
<1> QED
  BY <1>1, <1>2, <1>3, <1>4, <1>5, <1>6, KeptPlain

\* One that pushes a place or a scalar for n operands.
LEMMA PushKeeps ==
  ASSUME Values, IInv', mode = "exec", NEW n \in Nat, n <= Len(stack) - Cur.base,
         NEW e, Push(n, e), e.tag = "V" => e.v \in Imm, UNCHANGED heap, Rigid
  PROVE  Values'
<1>1. n \in 0 .. Len(stack)
  BY Running DEF Values
<1>2. \A v, c : OnStack(stack', c, v) => v \in Imm \/ OnStack(stack, c, v)
  <2>1. stack' = Append(Rest(n), e)
    BY DEF Push
  <2> QED
    BY <1>1, <2>1, StackAfter DEF Values
<1> QED
  BY <1>2, KeptLess DEF Rigid, Live

LEMMA ComputeKeeps ==
  ASSUME Values, IInv', NEW n \in Nat, Compute(n)
  PROVE  Values'
<1>1. PICK u \in Imm : Push(n, V(u))
  BY DEF Compute, Replace
<1>2. V(u).tag = "V" => V(u).v \in Imm
  BY DEF V
<1> QED
  BY <1>1, <1>2, Arguments, PushKeeps DEF Compute, Values

LEMMA PopKeeps ==
  ASSUME Values, IInv', Pop
  PROVE  Values'
<1>1. 1 \in 0 .. Len(stack)
  BY Arguments, Running DEF Pop, Values
<1>2. \A v, c : OnStack(stack', c, v) => OnStack(stack, c, v)
  BY <1>1, StackAfter DEF Pop, Values
<1> QED
  BY <1>2, KeptLess DEF Pop, Rigid, Live

LEMMA JumpKeeps ==
  ASSUME Values, IInv', Jump
  PROVE  Values'
BY KeptLess DEF Jump, Rigid, Live

LEMMA LocalPlaceKeeps ==
  ASSUME Values, IInv', NEW s \in Slot, LocalPlace(s)
  PROVE  Values'
<1> DEFINE e == [tag |-> "P", own |-> NoObj, fr |-> Top, ix |-> s,
                 arr |-> NoObj, idx |-> 0, root |-> NoObj, via |-> NoObj]
<1>1. Push(0, e) /\ e.tag = "P" /\ mode = "exec" /\ UNCHANGED heap /\ Rigid
  BY DEF LocalPlace, Operands
<1>2. 0 <= Len(stack) - Cur.base
  BY Arguments DEF LocalPlace, Values
<1> HIDE DEF e
<1> QED
  BY <1>1, <1>2, PushKeeps

LEMMA DerefPlaceKeeps ==
  ASSUME Values, IInv', DerefPlace
  PROVE  Values'
<1> DEFINE e == [tag |-> "P", own |-> Arg, fr |-> 0, ix |-> 1,
                 arr |-> NoObj, idx |-> 0, root |-> NoObj, via |-> NoObj]
<1>1. Push(1, e) /\ e.tag = "P" /\ mode = "exec" /\ UNCHANGED heap /\ Rigid
  BY DEF DerefPlace, Operands
<1>2. 1 <= Len(stack) - Cur.base
  BY Arguments DEF DerefPlace, Values
<1> HIDE DEF e
<1> QED
  BY <1>1, <1>2, PushKeeps

LEMMA IndexPlaceKeeps ==
  ASSUME Values, IInv', NEW i \in Nat, IndexPlace(i)
  PROVE  Values'
<1> DEFINE e == [tag |-> "P", own |-> NoObj, fr |-> 0, ix |-> 0,
                 arr |-> Args(2)[1], idx |-> i, root |-> NoObj, via |-> NoObj]
<1>1. Push(2, e) /\ e.tag = "P" /\ mode = "exec" /\ UNCHANGED heap /\ Rigid
  BY DEF IndexPlace, Operands
<1>2. 2 <= Len(stack) - Cur.base
  BY Arguments DEF IndexPlace, Values
<1> HIDE DEF e
<1> QED
  BY <1>1, <1>2, PushKeeps

LEMMA ValueFieldPlaceKeeps ==
  ASSUME Values, IInv', NEW i \in Nat, ValueFieldPlace(i)
  PROVE  Values'
<1> DEFINE e == [tag |-> "P", own |-> FieldOwner(Arg), fr |-> 0, ix |-> i,
                 arr |-> NoObj, idx |-> 0, root |-> NoObj,
                 via |-> IF IsObj(Arg, "REF") THEN Arg ELSE NoObj]
<1>1. Push(1, e) /\ e.tag = "P" /\ mode = "exec" /\ UNCHANGED heap /\ Rigid
  BY DEF ValueFieldPlace, Operands
<1>2. 1 <= Len(stack) - Cur.base
  BY Arguments DEF ValueFieldPlace, Values
<1> HIDE DEF e
<1> QED
  BY <1>1, <1>2, PushKeeps

LEMMA FieldPlaceKeeps ==
  ASSUME Values, IInv', NEW i \in Nat, FieldPlace(i)
  PROVE  Values'
<1> DEFINE e == FieldOf(stack[Len(stack)], Read(stack[Len(stack)]), i)
<1>1. /\ Push(1, e) /\ mode = "exec" /\ UNCHANGED heap /\ Rigid
      /\ Len(stack) > Cur.base
  BY DEF FieldPlace, TopPlace
<1>2. e.tag = "P"
  BY DEF FieldOf
<1>3. 1 <= Len(stack) - Cur.base
  BY <1>1, Running DEF Values
<1> HIDE DEF e
<1> QED
  BY <1>1, <1>2, <1>3, PushKeeps

LEMMA DupKeeps ==
  ASSUME Values, IInv', Dup
  PROVE  Values'
<1>1. /\ Push(0, stack[Len(stack)]) /\ stack[Len(stack)].tag = "P"
      /\ mode = "exec" /\ UNCHANGED heap /\ Rigid
  BY DEF Dup, TopPlace
<1>2. 0 <= Len(stack) - Cur.base
  BY <1>1, Running DEF Values
<1> QED
  BY <1>1, <1>2, PushKeeps

\* When frame k becomes fr, only its active locals hold anything new.
LEMMA FramesAfter ==
  ASSUME IInv, mode = "exec", NEW k \in DOMAIN frames, NEW fr,
         frames' = [frames EXCEPT ![k] = fr]
  PROVE  \A c, v : InFrames(frames', c, v) =>
           InFrames(frames, c, v) \/ InFrame(fr, k, c, v)
<1>1. DOMAIN frames' = DOMAIN frames
  OBVIOUS
<1>2. /\ frames'[k] = fr
      /\ \A j \in DOMAIN frames : j # k => frames'[j] = frames[j]
  OBVIOUS
<1> SUFFICES ASSUME NEW c, NEW v, InFrames(frames', c, v)
             PROVE  InFrames(frames, c, v) \/ InFrame(fr, k, c, v)
  OBVIOUS
<1>3. PICK j \in DOMAIN frames : InFrame(frames'[j], j, c, v)
  BY <1>1 DEF InFrames
<1>4. CASE j = k
  BY <1>2, <1>3, <1>4
<1>5. CASE j # k
  BY <1>2, <1>3, <1>5 DEF InFrames
<1> QED
  BY <1>4, <1>5

\* When its active locals hold scalars or what they held, nothing.
LEMMA FramesLess ==
  ASSUME IInv, mode = "exec", NEW fr, frames' = [frames EXCEPT ![Top] = fr],
         \A s \in fr.active :
           fr.loc[s] \in Imm \/ (s \in Cur.active /\ fr.loc[s] = Cur.loc[s])
  PROVE  \A v, c : InFrames(frames', c, v) => v \in Imm \/ InFrames(frames, c, v)
<1>0. \A c, v : InFrames(frames', c, v) => InFrames(frames, c, v) \/ InFrame(fr, Top, c, v)
  <2>1. Top \in DOMAIN frames
    BY Running
  <2> QED
    BY <2>1, FramesAfter
<1> SUFFICES ASSUME NEW c, NEW v, InFrames(frames', c, v)
             PROVE  v \in Imm \/ InFrames(frames, c, v)
  OBVIOUS
<1>1. Top \in DOMAIN frames
  BY Running
<1>2. CASE InFrames(frames, c, v)
  BY <1>2
<1>3. CASE InFrame(fr, Top, c, v)
  <2>1. PICK s \in fr.active : c = <<"local", Top, s>> /\ fr.loc[s] = v
    BY <1>3 DEF InFrame
  <2>2. CASE s \in Cur.active /\ fr.loc[s] = Cur.loc[s]
    BY <1>1, <2>1, <2>2 DEF InFrames, InFrame, Cur
  <2> QED
    BY <2>1, <2>2
<1> QED
  BY <1>0, <1>2, <1>3

LEMMA LocalIncKeeps ==
  ASSUME Values, IInv', NEW s \in Slot, LocalInc(s)
  PROVE  Values'
<1>1. PICK u \in Imm : frames' = [frames EXCEPT ![Top].loc[s] = u]
  BY DEF LocalInc
<1>2. mode = "exec" /\ UNCHANGED <<armed, heap, threshold, stack, pending, match>>
  BY DEF LocalInc, Operands
<1> DEFINE fr == [frames[Top] EXCEPT !.loc[s] = u]
<1>3. Cur \in Frame(Live) /\ Cur = frames[Top]
  BY <1>2, Running DEF Values, Cur
<1>4. /\ fr.active = Cur.active
      /\ fr.loc = [Cur.loc EXCEPT ![s] = u]
  BY <1>3 DEF Frame
<1>5. \A t \in Slot : fr.loc[t] = IF t = s THEN u ELSE Cur.loc[t]
  BY <1>3, <1>4 DEF Frame
<1>6. \A t \in fr.active : t \in Slot
  BY <1>3, <1>4 DEF Frame
<1>7. frames' = [frames EXCEPT ![Top] = fr]
  BY <1>1
<1> HIDE DEF fr
<1>8. \A v, c : InFrames(frames', c, v) => v \in Imm \/ InFrames(frames, c, v)
  BY <1>2, <1>4, <1>5, <1>6, <1>7, FramesLess DEF Values
<1> QED
  BY <1>2, <1>8, KeptLess DEF Live

LEMMA DropBindingsKeeps ==
  ASSUME Values, IInv', DropBindings
  PROVE  Values'
<1>1. \A v, c : ~ Bound(pending', c, v)
  BY DEF DropBindings, Bound
<1> QED
  BY <1>1, KeptLess DEF DropBindings, Live

LEMMA ClearMatchKeeps ==
  ASSUME Values, IInv', ClearMatch
  PROVE  Values'
BY KeptLess DEF ClearMatch, Live

LEMMA ScopeEnterKeeps ==
  ASSUME Values, IInv', ScopeEnter
  PROVE  Values'
<1>1. /\ mode = "exec" /\ frames' = [frames EXCEPT ![Top] = Enter(Cur)]
      /\ UNCHANGED <<armed, heap, threshold, stack, pending, match>>
  BY DEF ScopeEnter, Statement, Operands, SetCur
<1>2. Cur \in Frame(Live)
  BY <1>1, Running DEF Values
<1>3. Enter(Cur).active = Cur.active /\ Enter(Cur).loc = Cur.loc
  BY <1>2 DEF Enter, Frame
<1>4. \A v, c : InFrames(frames', c, v) => v \in Imm \/ InFrames(frames, c, v)
  BY <1>1, <1>3, FramesLess DEF Values
<1> QED
  BY <1>1, <1>4, KeptLess DEF Live

LEMMA ScopeExitKeeps ==
  ASSUME Values, IInv', NEW n \in Nat \ {0}, ScopeExit(n)
  PROVE  Values'
<1>1. /\ mode = "exec" /\ frames' = [frames EXCEPT ![Top] = Leave(Cur, n)]
      /\ UNCHANGED <<armed, heap, threshold, stack, pending, match>>
  BY DEF ScopeExit, Statement, Operands, SetCur
<1>2. Cur \in Frame(Live)
  BY <1>1, Running DEF Values
<1> DEFINE b == Cur.scopes[Len(Cur.scopes) - n + 1]
           gone == {Cur.decl[i] : i \in (b + 1) .. Len(Cur.decl)}
           dc == SubSeq(Cur.decl, 1, b)
           sc == SubSeq(Cur.scopes, 1, Len(Cur.scopes) - n)
           loc == [s \in Slot |-> IF s \in gone THEN Unit ELSE Cur.loc[s]]
<1>3. Leave(Cur, n) = [Cur EXCEPT !.loc = loc, !.active = @ \ gone,
                                  !.decl = dc, !.scopes = sc]
  BY DEF Leave
<1>4. loc = [s \in Slot |-> IF s \in gone THEN Unit ELSE Cur.loc[s]]
  OBVIOUS
<1> HIDE DEF gone, dc, sc, loc
<1>5. Leave(Cur, n).active = Cur.active \ gone /\ Leave(Cur, n).loc = loc
  BY <1>2, <1>3 DEF Frame
<1>6. \A s \in Leave(Cur, n).active :
        s \in Cur.active /\ Leave(Cur, n).loc[s] = Cur.loc[s]
  BY <1>2, <1>4, <1>5 DEF Frame
<1>7. \A v, c : InFrames(frames', c, v) => v \in Imm \/ InFrames(frames, c, v)
  BY <1>1, <1>6, FramesLess DEF Values
<1> QED
  BY <1>1, <1>7, KeptLess DEF Live

LEMMA GcMaybeKeeps ==
  ASSUME Values, IInv', GcMaybe
  PROVE  Values'
<1>1. /\ heap' = [o \in Reach(Roots) |-> heap[o]]
      /\ UNCHANGED <<stack, frames, pending, match>>
  BY DEF GcMaybe, Collect
<1>2. Reach(Roots) \subseteq Live
  BY ReachClosed
<1>3. DOMAIN heap' \subseteq Live /\ \A v \in DOMAIN heap' : heap'[v] = heap[v]
  BY <1>1, <1>2
<1> QED
  BY <1>1, <1>3, KeptLess

\* Between calls, and when a call starts or ends, no cell holds anything.
LEMMA EmptyKeeps ==
  ASSUME Values, IInv', stack' = <<>>, frames' = <<>> \/ Start, pending' = <<>>,
         match' \in {match, NoMatch},
         DOMAIN heap' \subseteq Live, \A v \in DOMAIN heap' : heap'[v] = heap[v]
  PROVE  Values'
<1>1. \A v, c : ~ OnStack(stack', c, v) /\ ~ Bound(pending', c, v)
  BY DEF OnStack, Bound
<1>2. \A v, c : ~ InFrames(frames', c, v)
  <2>1. CASE frames' = <<>>
    BY <2>1 DEF InFrames, InFrame
  <2>2. CASE Start
    <3>1. NewFrame(<<>>, 0).active = {}
      BY DEF NewFrame
    <3>2. frames' = <<NewFrame(<<>>, 0)>>
      BY <2>2 DEF Start
    <3>3. \A k \in DOMAIN frames' : frames'[k].active = {}
      BY <3>1, <3>2
    <3> QED
      BY <3>3 DEF InFrames, InFrame
  <2> QED
    BY <2>1, <2>2
<1> QED
  BY <1>1, <1>2, KeptLess

LEMMA StartKeeps ==
  ASSUME Values, IInv', mode = "idle", Start
  PROVE  Values'
<1>1. Clean(frames, stack, pending, match)
  BY DEF Values, IInv, ModeOK
<1>2. /\ stack' = <<>> /\ pending' = <<>> /\ match' \in {match, NoMatch}
      /\ DOMAIN heap' \subseteq Live /\ \A v \in DOMAIN heap' : heap'[v] = heap[v]
  BY <1>1 DEF Start, Clean, Live
<1> QED
  BY <1>2, EmptyKeeps

LEMMA TrapKeeps ==
  ASSUME Values, IInv', Trap
  PROVE  Values'
<1>1. DOMAIN heap' = {}
  <2>1. CASE armed
    BY <2>1, QuietCollect DEF Trap, Values, IInv, HeapOK, Live
  <2>2. CASE ~armed
    BY <2>2 DEF Trap
  <2> QED
    BY <2>1, <2>2
<1> QED
  BY <1>1, EmptyKeeps DEF Trap, Quiet

LEMMA DestroyKeeps ==
  ASSUME Values, IInv', Destroy
  PROVE  Values'
<1>1. Clean(frames, stack, pending, match)
  BY DEF Values, IInv, ModeOK, Destroy
<1>2. DOMAIN heap' = {}
  BY DEF Destroy
<1> QED
  BY <1>1, <1>2, EmptyKeeps DEF Destroy, Clean

-----------------------------------------------------------------------------
(* Instructions that push a copy, or a new object.                         *)

LEMMA PushCopyKeeps ==
  ASSUME Values, IInv', mode = "exec", NEW n \in Nat, n <= Len(stack) - Cur.base,
         NEW w \in Val(Live), PushCopy(n, w)
  PROVE  Values'
<1>1. n <= Len(stack)
  BY Running DEF Values
<1> QED
  BY <1>1, CopyKeeps

LEMMA LoadKeeps ==
  ASSUME Values, IInv', NEW s \in Slot, Load(s)
  PROVE  Values'
<1>1. mode = "exec" /\ 0 <= Len(stack) - Cur.base
  BY Arguments DEF Load, Values
<1>2. Cur.loc[s] \in Val(Live)
  BY <1>1, Running DEF Frame, Values
<1> QED
  BY <1>1, <1>2, PushCopyKeeps DEF Load

LEMMA IndexKeeps ==
  ASSUME Values, IInv', NEW i \in Nat, Index(i)
  PROVE  Values'
<1>1. mode = "exec" /\ 2 <= Len(stack) - Cur.base
  BY Arguments DEF Index, Values
<1>2. Items(Args(2)[1])[i] \in Val(Live)
  BY ItemsOK DEF Index, IsObj, Values
<1> QED
  BY <1>1, <1>2, PushCopyKeeps DEF Index

LEMMA GetFieldKeeps ==
  ASSUME Values, IInv', NEW i \in Nat, GetField(i)
  PROVE  Values'
<1>1. mode = "exec" /\ 1 <= Len(stack) - Cur.base
  BY Arguments DEF GetField, Values
<1> QED
  BY <1>1, FieldOwnerOK, PushCopyKeeps DEF GetField, Values

LEMMA DerefKeeps ==
  ASSUME Values, IInv', Deref
  PROVE  Values'
<1>1. mode = "exec" /\ 1 <= Len(stack) - Cur.base
  BY Arguments DEF Deref, Values
<1>2. Items(Arg)[1] \in Val(Live)
  BY ItemsOK DEF Deref, IsObj, Values
<1> QED
  BY <1>1, <1>2, PushCopyKeeps DEF Deref

LEMMA LoadPlaceKeeps ==
  ASSUME Values, IInv', LoadPlace
  PROVE  Values'
<1>1. mode = "exec" /\ Len(stack) > Cur.base /\ stack[Len(stack)].tag = "P"
  BY DEF LoadPlace, TopPlace
<1>2. Len(stack) \in 1 .. Len(stack) /\ 1 <= Len(stack) - Cur.base
  BY <1>1, Running DEF Values
<1>3. Read(stack[Len(stack)]) \in Val(Live)
  BY <1>1, <1>2, ReadOK DEF LoadPlace, Values
<1> QED
  BY <1>1, <1>2, <1>3, PushCopyKeeps DEF LoadPlace

LEMMA LoadMatchKeeps ==
  ASSUME Values, IInv', LoadMatch
  PROVE  Values'
<1>1. mode = "exec" /\ 0 <= Len(stack) - Cur.base
  BY Arguments DEF LoadMatch, Statement, Values
<1>2. (IF match = NoMatch THEN Unit ELSE match) \in Val(Live)
  BY NamesAssumption DEF Values, IInv, RestOK, Val, Live
<1> QED
  BY <1>1, <1>2, PushCopyKeeps DEF LoadMatch

\* The cells of the heap once one more object holds the copies.
LEMMA HeapAfterNew ==
  ASSUME IInv, NEW xs \in Seq(Val(Live)), NEW f \in Copies(xs), NEW o \in Fresh(f),
         NEW kind, NEW R, \A i \in DOMAIN xs : R[i] = <<"item", o, i>>,
         NEW v, Candidate(v)
  PROVE  LET h == Add(WithCopies(f), o, [kind |-> kind, items |-> CopyVals(f, xs)])
         IN  \A c : InHeap(h, c, v) =>
               InHeap(heap, c, v) \/ FreshItem(f, c, v) \/ RootOf(R, xs, f, c, v)
<1> DEFINE h == Add(WithCopies(f), o, [kind |-> kind, items |-> CopyVals(f, xs)])
<1> SUFFICES ASSUME NEW c, InHeap(h, c, v)
             PROVE  InHeap(heap, c, v) \/ FreshItem(f, c, v) \/ RootOf(R, xs, f, c, v)
  OBVIOUS
<1>1. /\ h[o].items = CopyVals(f, xs)
      /\ \A p \in DOMAIN WithCopies(f) : p # o => h[p] = WithCopies(f)[p]
      /\ DOMAIN h = DOMAIN WithCopies(f) \cup {o}
  BY DEF Add
<1> HIDE DEF h
<1>2. PICK p \in DOMAIN h : \E k \in DOMAIN h[p].items :
        c = <<"item", p, k>> /\ h[p].items[k] = v
  BY DEF InHeap, InItems
<1>3. CASE p = o
  <2>1. PICK k \in DOMAIN xs : c = <<"item", o, k>> /\ CopyVal(f, k, xs[k]) = v
    BY <1>1, <1>2, <1>3 DEF CopyVals
  <2>2. xs[k] \in Val(Live)
    BY ElementOfSeq, LenProperties
  <2>3. RootOf(R, xs, f, R[k], v)
    BY <2>1, <2>2, RootHolds
  <2> QED
    BY <2>1, <2>3
<1>4. CASE p # o
  <2>1. InHeap(WithCopies(f), c, v)
    BY <1>1, <1>2, <1>4 DEF InHeap, InItems
  <2> QED
    BY <2>1, HeapAfterCopies
<1> QED
  BY <1>3, <1>4

LEMMA NewKeeps ==
  ASSUME Values, IInv', mode = "exec", NEW n \in Nat, n <= Len(stack) - Cur.base,
         NEW xs \in Seq(Val(Live)), NEW f \in Copies(xs), NEW o \in Fresh(f), NEW kind,
         heap' = Add(WithCopies(f), o, [kind |-> kind, items |-> CopyVals(f, xs)]),
         Replace(n, o), Rigid
  PROVE  Values'
<1>i. IInv /\ n \in 0 .. Len(stack)
  BY Running DEF Values
<1>x. PICK c1, R : /\ c1 = <<"stack", Len(stack) - n + 1, 0>>
                   /\ R = [i \in DOMAIN xs |-> <<"item", o, i>>]
  OBVIOUS
<1> DEFINE K(c, v) == Kept(xs, f, R, c1, o, c, v)
<1>1. stack' = Append(Rest(n), V(o))
  BY DEF Replace, Push
<1>2. \A v, c : Candidate(v) /\ OnStack(stack', c, v) => K(c, v)
  <2>1. \A c, v : OnStack(stack', c, v) => OnStack(stack, c, v) \/ (v = o /\ c = c1)
    BY <1>i, <1>x, <1>1, StackAfter DEF V
  <2> QED
    BY <2>1 DEF Kept, Holds
<1>3. \A v, c : Candidate(v) /\ InHeap(heap', c, v) => K(c, v)
  <2> SUFFICES ASSUME NEW v, NEW c, Candidate(v), InHeap(heap', c, v)
               PROVE  K(c, v)
    OBVIOUS
  <2>1. InHeap(heap, c, v) \/ FreshItem(f, c, v) \/ RootOf(R, xs, f, c, v)
    BY <1>i, <1>x, HeapAfterNew
  <2> QED
    BY <2>1 DEF Kept, Holds
<1>4. /\ \A v, c : Candidate(v) /\ InFrames(frames', c, v) => K(c, v)
      /\ \A v, c : Candidate(v) /\ Bound(pending', c, v) => K(c, v)
      /\ \A v, c : Candidate(v) /\ Matched(match', c, v) => K(c, v)
  BY DEF Rigid, Kept, Holds
<1>5. o \in Obj \ Live /\ o \notin Range(f)
  BY DEF Fresh
<1>6. /\ DOMAIN heap' = Live \cup Range(f) \cup {o}
      /\ \A p \in Live : heap'[p] = heap[p]
  BY <1>i, <1>5, CopiesKind DEF Add
<1>7. /\ \A v \in Live : v \in DOMAIN heap' => heap'[v].kind = heap[v].kind
      /\ Owned(heap') \subseteq Live \cup Range(f) \cup {o}
  BY <1>6 DEF Owned
<1>8. /\ \A i \in DOMAIN xs : \A p \in Range(f) : \A k : R[i] # <<"item", p, k>>
      /\ \A p, k : c1 # <<"item", p, k>>
  BY <1>x, <1>5
<1>9. Keeping(xs, f, R, c1, o)
  BY <1>2, <1>3, <1>4, <1>5, <1>7, <1>8 DEF Keeping
<1> QED
  BY <1>9, KeptStep

LEMMA MakeKeeps ==
  ASSUME Values, IInv', NEW kind \in Kinds, NEW n \in Nat, Make(kind, n)
  PROVE  Values'
<1>1. PICK f \in Copies(Args(n)) : \E o \in Fresh(f) :
        /\ heap' = Add(WithCopies(f), o, [kind |-> kind, items |-> CopyVals(f, Args(n))])
        /\ Replace(n, o)
  BY DEF Make
<1>2. PICK o \in Fresh(f) :
        /\ heap' = Add(WithCopies(f), o, [kind |-> kind, items |-> CopyVals(f, Args(n))])
        /\ Replace(n, o)
  BY <1>1
<1>3. /\ Operands(n) /\ Rigid
  BY DEF Make
<1> QED
  BY <1>2, <1>3, Arguments, NewKeeps DEF Values

LEMMA MakeRepeatKeeps ==
  ASSUME Values, IInv', NEW n \in Nat, MakeRepeat(n)
  PROVE  Values'
<1> DEFINE xs == [i \in 1 .. n |-> Args(2)[1]]
<1>1. PICK f \in Copies(xs) : \E o \in Fresh(f) :
        /\ heap' = Add(WithCopies(f), o, [kind |-> "ARRAY", items |-> CopyVals(f, xs)])
        /\ Replace(2, o)
  BY DEF MakeRepeat
<1>2. PICK o \in Fresh(f) :
        /\ heap' = Add(WithCopies(f), o, [kind |-> "ARRAY", items |-> CopyVals(f, xs)])
        /\ Replace(2, o)
  BY <1>1
<1>3. mode = "exec" /\ 2 <= Len(stack) - Cur.base /\ Args(2)[1] \in Val(Live)
  BY Arguments DEF MakeRepeat, Values
<1>4. xs \in Seq(Val(Live))
  BY <1>3, FunIsSeq
<1>5. Rigid
  BY DEF MakeRepeat
<1> HIDE DEF xs
<1> QED
  BY <1>2, <1>3, <1>4, <1>5, NewKeeps


\* New objects that hold no owned one, at most one of which, pushed, is owned.
LEMMA MadeKeeps ==
  ASSUME Values, IInv', mode = "exec", NEW n \in Nat, n <= Len(stack) - Cur.base,
         NEW o \in Obj \ Live, Replace(n, o), Rigid,
         \A p \in Live : heap'[p] = heap[p], Owned(heap') \subseteq Live \cup {o},
         \A p \in DOMAIN heap' \ Live : Inner(heap', p) = {}
  PROVE  Values'
<1> DEFINE T == <<"stack", Len(stack) - n + 1, 0>>
<1>1. n \in 0 .. Len(stack) /\ stack' = Append(Rest(n), V(o))
  BY Running DEF Values, Replace, Push
<1>2. \A v, c : OnStack(stack', c, v) => v \in Imm \/ Holds(c, v) \/ (c = T /\ v = o)
  BY <1>1, StackAfter DEF Values, Holds, V
<1>3. \A v \in Owned(heap') : \A c : Candidate(v) /\ InHeap(heap', c, v) => Holds(c, v)
  <2> SUFFICES ASSUME NEW v \in Owned(heap'), NEW c, InHeap(heap', c, v)
               PROVE  InHeap(heap, c, v)
    BY DEF Holds
  <2>1. PICK p \in DOMAIN heap' : \E k \in DOMAIN heap'[p].items :
          c = <<"item", p, k>> /\ heap'[p].items[k] = v
    BY DEF InHeap, InItems
  <2>2. p \in Live
    <3>1. v \in Inner(heap', p)
      BY <2>1 DEF Inner, Range
    <3> QED
      BY <2>1, <3>1
  <2> QED
    BY <2>1, <2>2 DEF InHeap, InItems, Live
<1>4. /\ \A v \in Live : v \in DOMAIN heap' => heap'[v].kind = heap[v].kind
      /\ \A m, k : T # <<"item", m, k>>
  OBVIOUS
<1> HIDE DEF T
<1>5. /\ \A v, c : InFrames(frames', c, v) => v \in Imm \/ Holds(c, v)
      /\ \A v, c : Bound(pending', c, v) => Holds(c, v)
      /\ \A v, c : Matched(match', c, v) => v = NoMatch \/ Holds(c, v)
  BY DEF Rigid, Holds
<1> QED
  BY <1>2, <1>3, <1>4, <1>5, KeptPlain

LEMMA MakeBytesKeeps ==
  ASSUME Values, IInv', NEW n \in Nat, MakeBytes(n)
  PROVE  Values'
<1>1. PICK o \in Obj \ Live : heap' = Add(heap, o, Bytes(n)) /\ Replace(0, o)
  BY DEF MakeBytes
<1>2. /\ DOMAIN heap' = Live \cup {o} /\ heap'[o] = Bytes(n)
      /\ \A p \in Live : heap'[p] = heap[p]
  BY <1>1 DEF Add, Live
<1>3. Inner(heap', o) = {}
  <2>1. Owned(heap') \cap Imm = {}
    BY NamesAssumption DEF IInv, HeapOK, Owned
  <2> QED
    BY <1>2, <2>1, NamesAssumption DEF Inner, Range, Bytes
<1>4. Owned(heap') \subseteq Live \cup {o} /\ \A p \in DOMAIN heap' \ Live : Inner(heap', p) = {}
  BY <1>2, <1>3 DEF Owned
<1>5. mode = "exec" /\ 0 <= Len(stack) - Cur.base /\ Rigid
  BY Arguments DEF MakeBytes, Values
<1> QED
  BY <1>1, <1>2, <1>4, <1>5, MadeKeeps

\* What the host makes holds scalars or shares the array of the bytes read.
LEMMA HostCallKeeps ==
  ASSUME Values, IInv', NEW n \in Nat, HostCall(n)
  PROVE  Values'
<1>1. mode = "exec" /\ n + 1 <= Len(stack) - Cur.base /\ n + 1 \in Nat /\ Rigid
  BY Arguments DEF HostCall, Values
<1>2. CASE UNCHANGED heap /\ Replace(n + 1, Unit)
  <2>1. Push(n + 1, V(Unit)) /\ (V(Unit).tag = "V" => V(Unit).v \in Imm)
    BY <1>2, NamesAssumption DEF Replace, V
  <2> QED
    BY <1>1, <1>2, <2>1, PushKeeps
<1>3. Owned(heap') \cap Imm = {}
  BY NamesAssumption DEF IInv, HeapOK, Owned
<1>4. CASE \E b \in Obj \ Live : /\ heap' = Add(heap, b, Bytes(MaxLen))
                                 /\ Replace(n + 1, b)
  <2>1. PICK b \in Obj \ Live : heap' = Add(heap, b, Bytes(MaxLen)) /\ Replace(n + 1, b)
    BY <1>4
  <2>2. /\ DOMAIN heap' = Live \cup {b} /\ heap'[b] = Bytes(MaxLen)
        /\ \A p \in Live : heap'[p] = heap[p]
    BY <2>1 DEF Add, Live
  <2>3. Inner(heap', b) = {}
    BY <1>3, <2>2, NamesAssumption DEF Inner, Range, Bytes
  <2>4. /\ Owned(heap') \subseteq Live \cup {b}
        /\ \A p \in DOMAIN heap' \ Live : Inner(heap', p) = {}
    BY <2>2, <2>3 DEF Owned
  <2> QED
    BY <1>1, <2>1, <2>2, <2>4, MadeKeeps
<1>5. ASSUME NEW b \in Obj \ Live, NEW o \in Obj \ (Live \cup {b}), NEW kind,
             heap' = Add(Add(heap, b, Bytes(MaxLen)), o, [kind |-> kind, items |-> <<b>>]),
             Replace(n + 1, o)
      PROVE  Values'
  <2>1. /\ DOMAIN heap' = Live \cup {b, o} /\ heap'[b] = Bytes(MaxLen)
        /\ heap'[o] = [kind |-> kind, items |-> <<b>>]
        /\ \A p \in Live : heap'[p] = heap[p]
    BY <1>5 DEF Add, Live
  <2>2. b \notin Owned(heap')
    BY <2>1 DEF Owned, Bytes
  <2>3. Inner(heap', b) = {}
    BY <1>3, <2>1, NamesAssumption DEF Inner, Range, Bytes
  <2>4. Inner(heap', o) = {}
    BY <2>1, <2>2 DEF Inner, Range
  <2>5. /\ Owned(heap') \subseteq Live \cup {o}
        /\ \A p \in DOMAIN heap' \ Live : Inner(heap', p) = {}
    BY <2>1, <2>2, <2>3, <2>4 DEF Owned
  <2> QED
    BY <1>1, <1>5, <2>1, <2>5, MadeKeeps
<1> QED
  BY <1>2, <1>4, <1>5 DEF HostCall

-----------------------------------------------------------------------------
(* Instructions that put copies in cells that were there.                  *)

\* The values xs are copied and copy i goes into cell R[i]; no other object
\* is made.
Filled(xs, f, R, c, v) ==
  Holds(c, v) \/ RootOf(R, xs, f, c, v) \/ FreshItem(f, c, v)
Filling(xs, f, R) ==
  /\ DOMAIN heap' \subseteq Live \cup Range(f)
  /\ \A v \in Live : v \in DOMAIN heap' => heap'[v].kind = heap[v].kind
  /\ \A i \in DOMAIN xs : \A n \in Range(f) : \A k : R[i] # <<"item", n, k>>
  /\ \A v, c : Candidate(v) =>
       /\ OnStack(stack', c, v) => Filled(xs, f, R, c, v)
       /\ InFrames(frames', c, v) => Filled(xs, f, R, c, v)
       /\ Bound(pending', c, v) => Filled(xs, f, R, c, v)
       /\ Matched(match', c, v) => Filled(xs, f, R, c, v)
       /\ InHeap(heap', c, v) => Filled(xs, f, R, c, v)
LEMMA FillingKeeps ==
  ASSUME Values, IInv', NEW xs, NEW f \in Copies(xs), NEW R, Filling(xs, f, R)
  PROVE  Values'
<1>x. PICK T : T = <<"match", 0, 0>>
  OBVIOUS
<1>1. \A c, v : Filled(xs, f, R, c, v) => Kept(xs, f, R, T, NoObj, c, v)
  BY DEF Filled, Kept
<1>2. NoObj \in (Obj \ Live) \cup {NoObj} /\ NoObj \notin Range(f)
  BY CopiesOf, NamesAssumption
<1>3. \A n, k : T # <<"item", n, k>>
  BY <1>x
<1>4. Owned(heap') \subseteq Live \cup Range(f) \cup {NoObj}
  BY DEF Filling, Owned
<1>5. Keeping(xs, f, R, T, NoObj)
  BY <1>1, <1>2, <1>3, <1>4 DEF Keeping, Filling
<1> QED
  BY <1>5, KeptStep

\* What the heap holds once the copies exist and o has the items its.
LEMMA HeapAfterItems ==
  ASSUME IInv, NEW xs, NEW f \in Copies(xs), NEW o \in Live, NEW its,
         heap' = [WithCopies(f) EXCEPT ![o].items = its]
  PROVE  /\ DOMAIN heap' = Live \cup Range(f)
         /\ \A p \in Live : heap'[p].kind = heap[p].kind
         /\ \A v, c : Candidate(v) /\ InHeap(heap', c, v) =>
              (InHeap(heap, c, v) /\ c[2] # o) \/ FreshItem(f, c, v) \/ InItems(its, o, c, v)
<1>1. /\ DOMAIN heap' = Live \cup Range(f) /\ o \in DOMAIN WithCopies(f)
      /\ DOMAIN heap' = DOMAIN WithCopies(f)
      /\ \A p \in Live : WithCopies(f)[p] = heap[p]
  BY CopiesKind
<1>2. /\ heap'[o].items = its /\ heap'[o].kind = heap[o].kind
      /\ \A p \in DOMAIN heap' : p # o => heap'[p] = WithCopies(f)[p]
  <2>1. heap[o] \in Object(Live)
    BY DEF IInv, HeapOK, Live
  <2> QED
    BY <1>1, <2>1 DEF Object
<1>3. ASSUME NEW v, NEW c, Candidate(v), InHeap(heap', c, v)
      PROVE  (InHeap(heap, c, v) /\ c[2] # o) \/ FreshItem(f, c, v) \/ InItems(its, o, c, v)
  <2>1. PICK p \in DOMAIN heap' : \E k \in DOMAIN heap'[p].items :
          c = <<"item", p, k>> /\ heap'[p].items[k] = v
    BY <1>3 DEF InHeap, InItems
  <2>2. CASE p = o
    BY <1>2, <2>1, <2>2 DEF InItems
  <2>3. CASE p # o
    <3>1. InHeap(WithCopies(f), c, v)
      BY <1>1, <1>2, <2>1, <2>3 DEF InHeap, InItems
    <3>2. c[2] # o
      BY <2>1, <2>3
    <3> QED
      BY <1>3, <3>1, <3>2, HeapAfterCopies
  <2> QED
    BY <2>2, <2>3
<1> QED
  BY <1>1, <1>2, <1>3

\* One copy of w goes into item k of o, whose other items were there; the
\* stack gets no object.
OneItem(its, o, k, u) ==
  \A j \in DOMAIN its : IF j = k THEN its[j] = u
                        ELSE j \in DOMAIN Items(o) /\ its[j] = Items(o)[j]
StackLess == \A c, v : OnStack(stack', c, v) => v \in Imm \/ OnStack(stack, c, v)
LEMMA ItemFilled ==
  ASSUME Values, IInv', NEW w \in Val(Live), NEW f \in Copies(<<w>>), NEW o \in Live,
         NEW its, NEW k, heap' = [WithCopies(f) EXCEPT ![o].items = its],
         OneItem(its, o, k, CopyVal(f, 1, w)), StackLess,
         UNCHANGED <<frames, pending, match>>
  PROVE  Values'
<1>x. PICK xs, R : xs = <<w>> /\ R = << <<"item", o, k>> >>
  OBVIOUS
<1>1. DOMAIN xs = {1} /\ xs[1] = w /\ R[1] = <<"item", o, k>> /\ f \in Copies(xs)
  BY <1>x
<1>i. IInv
  BY DEF Values
<1>2. /\ DOMAIN heap' = Live \cup Range(f)
      /\ \A p \in Live : heap'[p].kind = heap[p].kind
      /\ \A v, c : Candidate(v) /\ InHeap(heap', c, v) =>
           (InHeap(heap, c, v) /\ c[2] # o) \/ FreshItem(f, c, v) \/ InItems(its, o, c, v)
  BY <1>1, <1>i, HeapAfterItems
<1>3. ASSUME NEW v, NEW c, Candidate(v), InHeap(heap', c, v)
      PROVE  Filled(xs, f, R, c, v)
  <2>1. CASE InHeap(heap, c, v) \/ FreshItem(f, c, v)
    BY <2>1 DEF Filled, Holds
  <2>2. ASSUME NEW j \in DOMAIN its, c = <<"item", o, j>>, its[j] = v
        PROVE  Filled(xs, f, R, c, v)
    <3>1. CASE j = k
      <4>1. RootOf(R, xs, f, R[1], v)
        BY <1>1, <1>3, <1>i, <2>2, <3>1, RootHolds DEF OneItem
      <4> QED
        BY <1>1, <2>2, <3>1, <4>1 DEF Filled
    <3>2. CASE j # k
      <4>1. j \in DOMAIN heap[o].items /\ heap[o].items[j] = v
        BY <2>2, <3>2 DEF Items, OneItem
      <4>2. InHeap(heap, c, v)
        BY <2>2, <4>1 DEF InHeap, InItems, Live
      <4> QED
        BY <4>2 DEF Filled, Holds
    <3> QED
      BY <3>1, <3>2
  <2> QED
    BY <1>2, <1>3, <2>1, <2>2 DEF InItems
<1>4. \A v, c : Candidate(v) /\ OnStack(stack', c, v) => Filled(xs, f, R, c, v)
  <2>1. \A v : Candidate(v) => v \notin Imm
    BY NamesAssumption DEF Candidate
  <2> QED
    BY <2>1 DEF Filled, Holds, StackLess
<1>5. /\ \A v, c : InFrames(frames', c, v) => Filled(xs, f, R, c, v)
      /\ \A v, c : Bound(pending', c, v) => Filled(xs, f, R, c, v)
      /\ \A v, c : Matched(match', c, v) => Filled(xs, f, R, c, v)
  BY DEF Filled, Holds
<1>6. \A i \in DOMAIN xs : \A n \in Range(f) : \A j : R[i] # <<"item", n, j>>
  BY <1>1, CopiesOf
<1>7. Filling(xs, f, R)
  BY <1>2, <1>3, <1>4, <1>5, <1>6 DEF Filling
<1> QED
  BY <1>1, <1>7, FillingKeeps

LEMMA ArrayPushKeeps ==
  ASSUME Values, IInv', ArrayPush
  PROVE  Values'
<1> DEFINE a == Args(2)[1]
<1>i. IInv
  BY DEF Values
<1>1. /\ mode = "exec" /\ 2 <= Len(stack) - Cur.base /\ Arg \in Val(Live) /\ a \in Live
  BY <1>i, Arguments DEF ArrayPush, IsObj
<1>2. PICK f \in Copies(<<Arg>>) :
        heap' = [WithCopies(f) EXCEPT ![a].items = Append(@, CopyVal(f, 1, Arg))]
  BY DEF ArrayPush
<1> DEFINE its == Append(Items(a), CopyVal(f, 1, Arg))
<1>3. heap' = [WithCopies(f) EXCEPT ![a].items = its]
  <2>1. WithCopies(f)[a].items = Items(a) /\ a \in DOMAIN WithCopies(f)
    BY <1>1, <1>i, CopiesKind DEF Items
  <2> QED
    BY <1>2, <2>1
<1>4. Replace(2, Unit) /\ Rigid
  BY DEF ArrayPush
<1>5. 2 \in 0 .. Len(stack)
  BY <1>1, <1>i, Running
<1>6. StackLess
  BY <1>4, <1>5, <1>i, StackAfter, NamesAssumption DEF Replace, Push, V, StackLess
<1> DEFINE n == Len(Items(a)) + 1
<1>7. OneItem(its, a, n, CopyVal(f, 1, Arg))
  <2>1. /\ Items(a) \in Seq(Val(Live)) /\ Len(Items(a)) \in Nat
        /\ DOMAIN Items(a) = 1 .. Len(Items(a))
    BY <1>1, <1>i, ItemsOK
  <2>2. Items(a) \in Seq(Val(Live) \cup {CopyVal(f, 1, Arg)})
    BY <2>1, SeqMonotonic
  <2>3. /\ DOMAIN its = 1 .. n /\ its[n] = CopyVal(f, 1, Arg)
        /\ \A j \in 1 .. Len(Items(a)) : its[j] = Items(a)[j]
    BY <2>1, <2>2, AppendProperties, LenProperties
  <2> QED
    BY <2>1, <2>3 DEF OneItem
<1> HIDE DEF its, n, a
<1> QED
  BY <1>1, <1>3, <1>4, <1>6, <1>7, ItemFilled DEF Rigid

LEMMA ArrayPopKeeps ==
  ASSUME Values, IInv', ArrayPop
  PROVE  Values'
<1> DEFINE n == Len(Items(Arg))
<1>i. IInv
  BY DEF Values
<1>1. /\ mode = "exec" /\ 1 <= Len(stack) - Cur.base
      /\ Arg \in Live /\ Items(Arg) # <<>>
  BY <1>i, Arguments DEF ArrayPop, IsObj
<1>2. /\ Items(Arg) \in Seq(Val(Live)) /\ n \in Nat \ {0}
      /\ DOMAIN Items(Arg) = 1 .. n /\ Items(Arg)[n] \in Val(Live)
  BY <1>1, <1>i, ItemsOK, EmptySeq
<1>3. PICK f \in Copies(<<Items(Arg)[n]>>) :
        /\ heap' = [WithCopies(f) EXCEPT ![Arg].items = SubSeq(@, 1, n - 1)]
        /\ Replace(1, CopyVal(f, 1, Items(Arg)[n]))
  BY DEF ArrayPop
<1> DEFINE its == SubSeq(Items(Arg), 1, n - 1)
<1>4. heap' = [WithCopies(f) EXCEPT ![Arg].items = its]
  <2>1. WithCopies(f)[Arg].items = Items(Arg) /\ Arg \in DOMAIN WithCopies(f)
    BY <1>1, <1>i, CopiesKind DEF Items
  <2> QED
    BY <1>3, <2>1
<1>5. \A c, v : InItems(its, Arg, c, v) => InHeap(heap, c, v)
  <2>1. DOMAIN its = 1 .. n - 1 /\ \A j \in 1 .. n - 1 : its[j] = Items(Arg)[j]
    BY <1>2, SubSeqProperties, LenProperties
  <2> QED
    BY <1>1, <1>2, <2>1 DEF InItems, InHeap, Items, Live
<1>6. PICK w : w = Items(Arg)[n]
  OBVIOUS
<1>7. w \in Val(Live) /\ f \in Copies(<<w>>) /\ Replace(1, CopyVal(f, 1, w))
  BY <1>2, <1>3, <1>6
<1> HIDE DEF its, n
<1>x. PICK xs, c1, R : xs = <<w>> /\ c1 = <<"stack", Len(stack) - 1 + 1, 0>> /\ R = <<c1>>
  OBVIOUS
<1>8. DOMAIN xs = {1} /\ xs[1] = w /\ R[1] = c1 /\ f \in Copies(xs)
  BY <1>7, <1>x
<1>9. ASSUME NEW v, NEW c, Candidate(v), OnStack(stack', c, v)
      PROVE  Filled(xs, f, R, c, v)
  <2>1. 1 \in 0 .. Len(stack) /\ stack' = Append(Rest(1), V(CopyVal(f, 1, w)))
    BY <1>1, <1>7, <1>i, Running DEF Replace, Push
  <2>2. OnStack(stack, c, v) \/ (v = CopyVal(f, 1, w) /\ c = c1)
    BY <1>i, <1>x, <1>9, <2>1, StackAfter DEF V
  <2>3. ASSUME v = CopyVal(f, 1, w)
        PROVE  RootOf(R, xs, f, R[1], v)
    BY <1>i, <1>7, <1>8, <1>9, <2>3, RootHolds
  <2> QED
    BY <1>8, <2>2, <2>3 DEF Filled, Holds
<1>10. /\ DOMAIN heap' = Live \cup Range(f)
       /\ \A p \in Live : heap'[p].kind = heap[p].kind
       /\ \A v, c : Candidate(v) /\ InHeap(heap', c, v) =>
            InHeap(heap, c, v) \/ FreshItem(f, c, v) \/ InItems(its, Arg, c, v)
  BY <1>1, <1>4, <1>8, <1>i, HeapAfterItems
<1>11. \A v, c : Candidate(v) /\ InHeap(heap', c, v) => Filled(xs, f, R, c, v)
  BY <1>5, <1>10 DEF Filled, Holds
<1>12. /\ \A v, c : InFrames(frames', c, v) => Filled(xs, f, R, c, v)
       /\ \A v, c : Bound(pending', c, v) => Filled(xs, f, R, c, v)
       /\ \A v, c : Matched(match', c, v) => Filled(xs, f, R, c, v)
  BY DEF ArrayPop, Rigid, Filled, Holds
<1>13. \A i \in DOMAIN xs : \A o \in Range(f) : \A k : R[i] # <<"item", o, k>>
  BY <1>x, <1>8
<1>14. Filling(xs, f, R)
  BY <1>9, <1>10, <1>11, <1>12, <1>13 DEF Filling
<1> QED
  BY <1>8, <1>14, FillingKeeps

LEMMA StorePlaceKeeps ==
  ASSUME Values, IInv', StorePlace
  PROVE  Values'
<1> DEFINE p == stack[Len(stack) - 1]
<1>i. IInv
  BY DEF Values
<1>1. /\ mode = "exec" /\ 2 \in 0 .. Len(stack) /\ Arg \in Val(Live)
      /\ Len(stack) - 1 \in 1 .. Len(stack)
      /\ p.tag = "P" /\ Usable(p)
  <2>1. mode = "exec" /\ Arg \in Val(Live)
    BY <1>i, Arguments DEF StorePlace
  <2>2. p.tag = "P" /\ Usable(p) /\ Len(stack) > Cur.base + 1
    BY DEF StorePlace
  <2> QED
    BY <1>i, <2>1, <2>2, Running
<1>2. PICK f \in Copies(<<Arg>>) :
        LET w == CopyVal(f, 1, Arg)
        IN  IF CellOwner(p) = NoObj
            THEN /\ heap' = WithCopies(f)
                 /\ frames' = [frames EXCEPT ![p.fr].loc[p.ix] = w]
            ELSE /\ heap' = [WithCopies(f) EXCEPT
                               ![CellOwner(p)].items[CellIx(p)] = w]
                 /\ UNCHANGED frames
  BY DEF StorePlace
<1> DEFINE w == CopyVal(f, 1, Arg)
<1>3. /\ CellOwner(p) = NoObj =>
           /\ p.fr \in 1 .. Top /\ p.ix \in Slot /\ p.ix \in frames[p.fr].active
           /\ CellIx(p) = p.ix
      /\ CellOwner(p) # NoObj =>
           CellOwner(p) \in Live /\ CellIx(p) \in DOMAIN Items(CellOwner(p))
  BY <1>1, <1>i, ReadOK DEF LocalOK
<1>4. stack' = Rest(2) /\ UNCHANGED <<pending, match>>
  BY DEF StorePlace
<1>5. StackLess
  BY <1>1, <1>4, <1>i, StackAfter DEF StackLess
<1> HIDE DEF p, w
<1>6. CASE CellOwner(p) # NoObj
  <2>1. PICK o, k : o = CellOwner(p) /\ k = CellIx(p)
    OBVIOUS
  <2>2. o \in Live /\ k \in DOMAIN Items(o) /\ UNCHANGED frames
    BY <1>2, <1>3, <1>6, <2>1
  <2> DEFINE its == [Items(o) EXCEPT ![k] = w]
  <2>3. heap' = [WithCopies(f) EXCEPT ![o].items = its]
    <3>1. WithCopies(f)[o].items = Items(o) /\ o \in DOMAIN WithCopies(f)
      BY <1>1, <1>i, <2>2, CopiesKind DEF Items
    <3>2. heap' = [WithCopies(f) EXCEPT ![o].items[k] = w]
      BY <1>2, <1>6, <2>1 DEF w
    <3> QED
      BY <3>1, <3>2
  <2>4. OneItem(its, o, k, w)
    BY <2>2 DEF OneItem
  <2> HIDE DEF its
  <2> QED
    BY <1>1, <1>4, <1>5, <2>2, <2>3, <2>4, ItemFilled DEF w
<1>7. CASE CellOwner(p) = NoObj
  <2>1. PICK k, s : k = p.fr /\ s = p.ix
    OBVIOUS
  <2>2. /\ heap' = WithCopies(f) /\ frames' = [frames EXCEPT ![k].loc[s] = w]
        /\ k \in DOMAIN frames /\ s \in Slot /\ s \in frames[k].active
        /\ frames[k] \in Frame(Live)
    <3>1. heap' = WithCopies(f) /\ frames' = [frames EXCEPT ![k].loc[s] = w]
      BY <1>2, <1>7, <2>1 DEF w
    <3>2. k \in 1 .. Top /\ s \in Slot /\ s \in frames[k].active
      BY <1>3, <1>7, <2>1
    <3> QED
      BY <1>1, <1>i, <3>1, <3>2, Running
  <2>x. PICK xs, R : xs = <<Arg>> /\ R = << <<"local", k, s>> >>
    OBVIOUS
  <2>3. DOMAIN xs = {1} /\ xs[1] = Arg /\ R[1] = <<"local", k, s>> /\ f \in Copies(xs)
    BY <2>x
  <2> DEFINE fr == [frames[k] EXCEPT !.loc[s] = w]
  <2>4. /\ frames' = [frames EXCEPT ![k] = fr]
        /\ fr.active = frames[k].active
        /\ \A t \in fr.active : fr.loc[t] = IF t = s THEN w ELSE frames[k].loc[t]
    BY <2>2 DEF Frame
  <2> HIDE DEF fr
  <2>5. ASSUME NEW v, NEW c, Candidate(v), InFrames(frames', c, v)
        PROVE  Filled(xs, f, R, c, v)
    <3>1. CASE InFrames(frames, c, v)
      BY <3>1 DEF Filled, Holds
    <3>2. CASE InFrame(fr, k, c, v)
      <4>1. PICK t \in fr.active : c = <<"local", k, t>> /\ fr.loc[t] = v
        BY <3>2 DEF InFrame
      <4>2. CASE t = s
        <5>1. RootOf(R, xs, f, R[1], v)
          BY <1>1, <1>i, <2>3, <2>4, <2>5, <4>1, <4>2, RootHolds DEF w
        <5> QED
          BY <2>3, <4>1, <4>2, <5>1 DEF Filled
      <4>3. CASE t # s
        <5>1. InFrames(frames, c, v)
          BY <2>2, <2>4, <4>1, <4>3 DEF InFrames, InFrame
        <5> QED
          BY <5>1 DEF Filled, Holds
      <4> QED
        BY <4>2, <4>3
    <3> QED
      BY <1>1, <1>i, <2>2, <2>4, <2>5, <3>1, <3>2, FramesAfter
  <2>6. \A v, c : Candidate(v) /\ InHeap(heap', c, v) => Filled(xs, f, R, c, v)
    BY <1>i, <2>2, <2>3, HeapAfterCopies DEF Filled, Holds
  <2>7. \A v, c : Candidate(v) /\ OnStack(stack', c, v) => Filled(xs, f, R, c, v)
    <3>1. \A v : Candidate(v) => v \notin Imm
      BY NamesAssumption DEF Candidate
    <3> QED
      BY <1>5, <3>1 DEF Filled, Holds, StackLess
  <2>8. /\ \A v, c : Bound(pending', c, v) => Filled(xs, f, R, c, v)
        /\ \A v, c : Matched(match', c, v) => Filled(xs, f, R, c, v)
    BY <1>4 DEF Filled, Holds
  <2>9. /\ DOMAIN heap' = Live \cup Range(f)
        /\ \A v \in Live : heap'[v].kind = heap[v].kind
    BY <1>i, <2>2, <2>3, CopiesKind
  <2>10. \A i \in DOMAIN xs : \A n \in Range(f) : \A j : R[i] # <<"item", n, j>>
    BY <2>3
  <2>11. Filling(xs, f, R)
    BY <2>5, <2>6, <2>7, <2>8, <2>9, <2>10 DEF Filling
  <2> QED
    BY <2>3, <2>11, FillingKeeps
<1> QED
  BY <1>6, <1>7

\* The parts of a step that copies and does not touch an old object's items,
\* and of one whose stack gets no object.
LEMMA HeapFilled ==
  ASSUME IInv, NEW xs, NEW f \in Copies(xs), heap' = WithCopies(f), NEW R
  PROVE  /\ DOMAIN heap' = Live \cup Range(f)
         /\ \A v \in Live : heap'[v].kind = heap[v].kind
         /\ \A v, c : Candidate(v) /\ InHeap(heap', c, v) => Filled(xs, f, R, c, v)
BY CopiesKind, HeapAfterCopies DEF Filled, Holds

LEMMA StackFilled ==
  ASSUME StackLess, NEW xs, NEW f, NEW R
  PROVE  \A v, c : Candidate(v) /\ OnStack(stack', c, v) => Filled(xs, f, R, c, v)
<1>1. \A v : Candidate(v) => v \notin Imm
  BY NamesAssumption DEF Candidate
<1> QED
  BY <1>1 DEF Filled, Holds, StackLess

LEMMA RestLess ==
  ASSUME IInv, NEW n \in 0 .. Len(stack)
  PROVE  /\ stack' = Rest(n) => StackLess
         /\ Replace(n, Unit) => StackLess
<1>1. stack' = Rest(n) => StackLess
  BY StackAfter DEF StackLess
<1>2. ASSUME Replace(n, Unit)
      PROVE  StackLess
  <2>1. stack' = Append(Rest(n), V(Unit)) /\ V(Unit).v = Unit
    BY <1>2 DEF Replace, Push, V
  <2> QED
    BY <2>1, StackAfter, NamesAssumption DEF StackLess
<1> QED
  BY <1>1, <1>2

-----------------------------------------------------------------------------
(* Instructions that declare locals, and that bind.                        *)

\* Bindings of the copies, which the current frame declares.
BindingsOf(bs, xs, f) ==
  /\ DOMAIN bs = DOMAIN xs
  /\ \A i \in DOMAIN xs : bs[i].slot \in Slot /\ bs[i].val = CopyVal(f, i, xs[i])
LEMMA DeclareKeeps ==
  ASSUME Values, IInv', mode = "exec", NEW xs \in Seq(Val(Live)), NEW f \in Copies(xs),
         NEW old \in Frame(Live), old.active = Cur.active, old.loc = Cur.loc,
         NEW bs, BindingsOf(bs, xs, f), heap' = WithCopies(f),
         SetCur(Declare(old, bs)), StackLess, pending' \in {pending, <<>>},
         UNCHANGED match
  PROVE  Values'
<1>i. IInv /\ Top \in DOMAIN frames
  BY Running DEF Values
<1>x. PICK R, fr : /\ R = [i \in DOMAIN xs |-> <<"local", Top, bs[i].slot>>]
                   /\ fr = Declare(old, bs)
  OBVIOUS
<1>1. \A i \in DOMAIN xs : xs[i] \in Val(Live)
  BY ElementOfSeq, LenProperties
<1>2. /\ fr.active = old.active \cup {bs[i].slot : i \in DOMAIN bs}
      /\ \A s \in Slot : fr.loc[s] = IF \E i \in DOMAIN bs : bs[i].slot = s
                                     THEN (CHOOSE b \in Range(bs) : b.slot = s).val
                                     ELSE old.loc[s]
  <2> DEFINE loc == [s \in Slot |-> IF \E i \in DOMAIN bs : bs[i].slot = s
                                    THEN (CHOOSE b \in Range(bs) : b.slot = s).val
                                    ELSE old.loc[s]]
             decl == [i \in DOMAIN bs |-> bs[i].slot]
             slots == {bs[i].slot : i \in DOMAIN bs}
  <2>1. fr = [old EXCEPT !.loc = loc, !.active = @ \cup slots, !.decl = @ \o decl]
    BY <1>x DEF Declare
  <2>2. \A s \in Slot : loc[s] = IF \E i \in DOMAIN bs : bs[i].slot = s
                                 THEN (CHOOSE b \in Range(bs) : b.slot = s).val
                                 ELSE old.loc[s]
    OBVIOUS
  <2> HIDE DEF loc, decl
  <2>3. fr.active = old.active \cup slots /\ fr.loc = loc
    BY <2>1 DEF Frame
  <2> QED
    BY <2>2, <2>3
<1>3. frames' = [frames EXCEPT ![Top] = fr]
  BY <1>x DEF SetCur
<1>4. ASSUME NEW v, NEW c, Candidate(v), InFrame(fr, Top, c, v)
      PROVE  Filled(xs, f, R, c, v)
  <2>1. PICK s \in fr.active : c = <<"local", Top, s>> /\ fr.loc[s] = v
    BY <1>4 DEF InFrame
  <2>2. s \in Slot
    BY <1>2 DEF BindingsOf, Frame
  <2>3. CASE \E i \in DOMAIN bs : bs[i].slot = s
    <3>1. \E b \in Range(bs) : b.slot = s
      BY <2>3 DEF Range
    <3>2. PICK i \in DOMAIN bs : bs[i].slot = s /\ v = bs[i].val
      BY <1>2, <2>1, <2>2, <2>3, <3>1 DEF Range
    <3>3. i \in DOMAIN xs /\ v = CopyVal(f, i, xs[i]) /\ R[i] = c
      BY <1>x, <2>1, <3>2 DEF BindingsOf
    <3>4. RootOf(R, xs, f, R[i], v)
      BY <1>1, <1>4, <1>i, <3>3, RootHolds
    <3> QED
      BY <3>3, <3>4 DEF Filled
  <2>4. CASE ~ \E i \in DOMAIN bs : bs[i].slot = s
    <3>1. s \in Cur.active /\ Cur.loc[s] = v
      BY <1>2, <2>1, <2>2, <2>4
    <3>2. InFrames(frames, c, v)
      BY <1>i, <2>1, <3>1 DEF InFrames, InFrame, Cur
    <3> QED
      BY <3>2 DEF Filled, Holds
  <2> QED
    BY <2>3, <2>4
<1>5. \A v, c : InFrames(frames', c, v) => InFrames(frames, c, v) \/ InFrame(fr, Top, c, v)
  BY <1>3, <1>i, FramesAfter
<1>6. \A v, c : Candidate(v) /\ InFrames(frames', c, v) => Filled(xs, f, R, c, v)
  BY <1>4, <1>5 DEF Filled, Holds
<1>7. /\ \A v, c : Bound(pending', c, v) => Filled(xs, f, R, c, v)
      /\ \A v, c : Matched(match', c, v) => Filled(xs, f, R, c, v)
  BY DEF Filled, Holds, Bound
<1>8. \A i \in DOMAIN xs : \A n \in Range(f) : \A k : R[i] # <<"item", n, k>>
  BY <1>x
<1>9. Filling(xs, f, R)
  BY <1>6, <1>7, <1>8, <1>i, HeapFilled, StackFilled DEF Filling
<1> QED
  BY <1>9, FillingKeeps

LEMMA DeclKeeps ==
  ASSUME Values, IInv', NEW s \in Slot, Decl(s)
  PROVE  Values'
<1>i. IInv
  BY DEF Values
<1>1. /\ mode = "exec" /\ 1 \in 0 .. Len(stack) /\ Arg \in Val(Live)
      /\ Cur \in Frame(Live)
  BY <1>i, Arguments, Running DEF Decl, Statement
<1>2. PICK f \in Copies(<<Arg>>) :
        /\ heap' = WithCopies(f)
        /\ SetCur(Declare(Cur, <<[slot |-> s, val |-> CopyVal(f, 1, Arg)]>>))
  BY DEF Decl
<1>3. PICK xs, bs : /\ xs = <<Arg>>
                    /\ bs = <<[slot |-> s, val |-> CopyVal(f, 1, Arg)]>>
  OBVIOUS
<1>4. xs \in Seq(Val(Live)) /\ f \in Copies(xs) /\ BindingsOf(bs, xs, f)
  BY <1>1, <1>3 DEF BindingsOf
<1>5. StackLess
  BY <1>1, <1>i, RestLess DEF Decl
<1>6. UNCHANGED <<pending, match>>
  BY DEF Decl
<1> QED
  BY <1>1, <1>2, <1>3, <1>4, <1>5, <1>6, DeclareKeeps

LEMMA TakeBindingsKeeps ==
  ASSUME Values, IInv', mode = "exec", NEW old \in Frame(Live),
         old.active = Cur.active, old.loc = Cur.loc, TakeBindings(old)
  PROVE  Values'
<1> DEFINE vs == [i \in DOMAIN pending |-> pending[i].val]
<1>i. IInv
  BY DEF Values
<1>1. PICK f \in Copies(vs) :
        /\ heap' = WithCopies(f)
        /\ SetCur(Declare(old, [i \in DOMAIN pending |->
                   [slot |-> pending[i].slot, val |-> CopyVals(f, vs)[i]]]))
  BY DEF TakeBindings
<1> DEFINE bs == [i \in DOMAIN pending |->
                    [slot |-> pending[i].slot, val |-> CopyVals(f, vs)[i]]]
<1>2. /\ Len(pending) \in Nat /\ DOMAIN pending = 1 .. Len(pending)
      /\ \A i \in 1 .. Len(pending) : pending[i] \in Binding(Live)
  BY <1>i, LenProperties, ElementOfSeq DEF IInv, RestOK, Live
<1>3. vs \in Seq(Val(Live))
  <2>1. vs \in [1 .. Len(pending) -> Val(Live)]
    BY <1>2 DEF Binding
  <2> QED
    BY <1>2, <2>1, FunIsSeq
<1>4. BindingsOf(bs, vs, f)
  BY <1>2 DEF BindingsOf, Binding, CopyVals
<1>5. StackLess /\ pending' = <<>> /\ UNCHANGED match
  BY DEF TakeBindings, StackLess
<1>6. heap' = WithCopies(f) /\ SetCur(Declare(old, bs))
  BY <1>1
<1> HIDE DEF vs, bs
<1> QED
  BY <1>3, <1>4, <1>5, <1>6, DeclareKeeps

LEMMA EnterBindingsKeeps ==
  ASSUME Values, IInv', EnterBindings
  PROVE  Values'
<1>1. mode = "exec" /\ TakeBindings(Enter(Cur))
  BY DEF EnterBindings, Statement, Operands
<1>2. Cur \in Frame(Live) /\ ScopesOK(Cur)
  BY <1>1, Running DEF Values, Cur
<1>3. Enter(Cur).loc = Cur.loc
  BY <1>2 DEF Enter, Frame
<1> QED
  BY <1>1, <1>2, <1>3, EnterOK, TakeBindingsKeeps

LEMMA MergeBindingsKeeps ==
  ASSUME Values, IInv', MergeBindings
  PROVE  Values'
<1>1. mode = "exec" /\ TakeBindings(Cur)
  BY DEF MergeBindings, Statement, Operands
<1> QED
  BY <1>1, Running, TakeBindingsKeeps DEF Values

LEMMA TryPatternKeeps ==
  ASSUME Values, IInv', NEW n \in Nat, TryPattern(n)
  PROVE  Values'
<1>i. IInv
  BY DEF Values
<1>1. mode = "exec" /\ 1 \in 0 .. Len(stack) /\ Arg \in Val(Live)
  BY <1>i, Arguments, Running DEF TryPattern
<1>2. PICK xs \in [1 .. n -> Parts(Arg)], ss \in [1 .. n -> Slot \ Cur.active] :
        \E f \in Copies(xs) :
          /\ heap' = WithCopies(f)
          /\ pending' = [i \in 1 .. n |-> [slot |-> ss[i], val |-> CopyVals(f, xs)[i]]]
  BY DEF TryPattern
<1>3. PICK f \in Copies(xs) :
        /\ heap' = WithCopies(f)
        /\ pending' = [i \in 1 .. n |-> [slot |-> ss[i], val |-> CopyVals(f, xs)[i]]]
  BY <1>2
<1>4. DOMAIN xs = 1 .. n /\ \A i \in 1 .. n : xs[i] \in Val(Live)
  BY <1>1, <1>2, <1>i, PartsOK
<1>x. PICK R : R = [i \in 1 .. n |-> <<"pending", i, 0>>]
  OBVIOUS
<1>5. StackLess /\ UNCHANGED <<frames, match>>
  BY <1>1, <1>i, RestLess DEF TryPattern
<1>6. ASSUME NEW v, NEW c, Candidate(v), Bound(pending', c, v)
      PROVE  Filled(xs, f, R, c, v)
  <2>1. PICK i \in DOMAIN pending' : c = <<"pending", i, 0>> /\ pending'[i].val = v
    BY <1>6 DEF Bound
  <2>2. i \in DOMAIN xs /\ v = CopyVal(f, i, xs[i]) /\ R[i] = c
    BY <1>3, <1>4, <1>x, <2>1 DEF CopyVals
  <2>3. RootOf(R, xs, f, R[i], v)
    BY <1>4, <1>6, <1>i, <2>2, RootHolds
  <2> QED
    BY <2>2, <2>3 DEF Filled
<1>7. /\ \A v, c : InFrames(frames', c, v) => Filled(xs, f, R, c, v)
      /\ \A v, c : Matched(match', c, v) => Filled(xs, f, R, c, v)
  BY <1>5 DEF Filled, Holds
<1>8. \A i \in DOMAIN xs : \A o \in Range(f) : \A k : R[i] # <<"item", o, k>>
  BY <1>4, <1>x
<1>9. Filling(xs, f, R)
  BY <1>3, <1>5, <1>6, <1>7, <1>8, <1>i, HeapFilled, StackFilled DEF Filling
<1> QED
  BY <1>9, FillingKeeps

-----------------------------------------------------------------------------
(* Calls and returns.                                                      *)

LEMMA CallKeeps ==
  ASSUME Values, IInv', NEW n \in 0 .. NSlots, NEW k \in {0, 1}, Call(n, k)
  PROVE  Values'
<1>i. IInv
  BY DEF Values
<1>0. n \in Nat /\ n + k \in Nat
  BY BoundsAssumption
<1>1. mode = "exec" /\ n + k \in 0 .. Len(stack)
  BY <1>0, <1>i, Arguments, Running DEF Call
<1>2. Args(n) \in Seq(Val(Live)) /\ DOMAIN Args(n) = 1 .. n
  <2>1. Operands(n)
    <3>1. Operands(n + k) /\ Len(stack) >= Cur.base + n
      BY <1>0, <1>1, <1>i, Running DEF Call, Operands
    <3>2. ASSUME NEW i \in 1 .. n
          PROVE  stack[Len(stack) - n + i].tag = "V"
      <4>1. /\ k + i \in 1 .. n + k
            /\ Len(stack) - (n + k) + (k + i) = Len(stack) - n + i
        BY <1>0, <1>1, <1>i, Running
      <4>2. stack[Len(stack) - (n + k) + (k + i)].tag = "V"
        BY <3>1, <4>1 DEF Operands
      <4> QED
        BY <4>1, <4>2
    <3> QED
      BY <1>1, <3>1, <3>2 DEF Operands
  <2> QED
    BY <1>0, <1>i, <2>1, Arguments DEF Args
<1>3. PICK f \in Copies(Args(n)) :
        /\ heap' = WithCopies(f)
        /\ frames' = Append(frames, NewFrame(CopyVals(f, Args(n)), CalleeBase(n + k)))
  BY DEF Call
<1>x. PICK xs, fr, R : /\ xs = Args(n)
                       /\ fr = NewFrame(CopyVals(f, Args(n)), CalleeBase(n + k))
                       /\ R = [i \in 1 .. n |-> <<"local", Top + 1, i>>]
  OBVIOUS
<1>4. /\ DOMAIN xs = 1 .. n /\ f \in Copies(xs)
      /\ \A i \in 1 .. n : xs[i] \in Val(Live) /\ i \in Slot
  <2>1. \A i \in 1 .. n : xs[i] \in Val(Live)
    BY <1>2, <1>x, ElementOfSeq, LenProperties
  <2> QED
    BY <1>2, <1>3, <1>x, <2>1, BoundsAssumption DEF Slot
<1>5. fr.active = 1 .. n /\ \A i \in 1 .. n : fr.loc[i] = CopyVal(f, i, xs[i])
  <2> DEFINE args == CopyVals(f, xs)
  <2>1. /\ args \in [1 .. n -> {CopyVal(f, i, xs[i]) : i \in 1 .. n}]
        /\ \A i \in 1 .. n : args[i] = CopyVal(f, i, xs[i])
    BY <1>4 DEF CopyVals
  <2> HIDE DEF args
  <2>2. Len(args) = n
    BY <1>0, <2>1, FunIsSeq
  <2>3. fr = NewFrame(args, CalleeBase(n + k))
    BY <1>x DEF args
  <2> QED
    BY <1>0, <1>4, <2>1, <2>2, <2>3 DEF NewFrame
<1>6. ASSUME NEW v, NEW c, Candidate(v), InFrames(frames', c, v)
      PROVE  Filled(xs, f, R, c, v)
  <2>1. /\ DOMAIN frames' = 1 .. Top + 1 /\ frames'[Top + 1] = fr
        /\ \A j \in 1 .. Top : frames'[j] = frames[j] /\ j \in DOMAIN frames
    <3>1. frames \in Seq(Frame(Live)) /\ DOMAIN frames = 1 .. Top /\ Top \in Nat
      BY <1>1, <1>i, Running DEF IInv, FramesOK, Live
    <3>2. frames \in Seq(Frame(Live) \cup {fr})
      BY <3>1, SeqMonotonic
    <3> QED
      BY <1>3, <1>x, <3>1, <3>2, AppendProperties, LenProperties DEF Top
  <2>2. PICK j \in 1 .. Top + 1 : InFrame(frames'[j], j, c, v)
    BY <1>6, <2>1 DEF InFrames
  <2>3. CASE j = Top + 1
    <3>1. PICK s \in 1 .. n : c = <<"local", Top + 1, s>> /\ CopyVal(f, s, xs[s]) = v
      BY <1>5, <2>1, <2>2, <2>3 DEF InFrame
    <3>2. RootOf(R, xs, f, R[s], v)
      BY <1>4, <1>6, <1>i, <3>1, RootHolds
    <3> QED
      BY <1>x, <3>1, <3>2 DEF Filled
  <2>4. CASE j \in 1 .. Top
    BY <2>1, <2>2, <2>4 DEF InFrames, Filled, Holds
  <2> QED
    BY <1>1, <1>i, <2>3, <2>4, Running
<1>7. StackLess /\ UNCHANGED <<pending, match>>
  BY <1>1, <1>i, RestLess DEF Call
<1>8. /\ \A v, c : Bound(pending', c, v) => Filled(xs, f, R, c, v)
      /\ \A v, c : Matched(match', c, v) => Filled(xs, f, R, c, v)
  BY <1>7 DEF Filled, Holds
<1>9. \A i \in DOMAIN xs : \A o \in Range(f) : \A j : R[i] # <<"item", o, j>>
  BY <1>4, <1>x
<1>10. heap' = WithCopies(f)
  BY <1>3
<1>11. Filling(xs, f, R)
  BY <1>4, <1>6, <1>7, <1>8, <1>9, <1>10, <1>i, HeapFilled, StackFilled DEF Filling
<1> QED
  BY <1>4, <1>11, FillingKeeps

LEMMA ReturnKeeps ==
  ASSUME Values, IInv', Return
  PROVE  Values'
<1>i. IInv
  BY DEF Values
<1>1. /\ mode = "exec" /\ Arg \in Val(Live)
      /\ Cur.base \in Nat /\ Cur.base <= Len(stack) /\ Len(stack) \in Nat
  BY <1>i, Arguments, Running DEF Return
<1>2. PICK f \in Copies(<<Arg>>) :
        /\ heap' = WithCopies(f)
        /\ stack' = Append(SubSeq(stack, 1, Cur.base), V(CopyVal(f, 1, Arg)))
  BY DEF Return
<1>3. PICK n : n = Len(stack) - Cur.base
  OBVIOUS
<1>4. n \in 0 .. Len(stack) /\ stack' = Append(Rest(n), V(CopyVal(f, 1, Arg)))
  <2>1. n \in 0 .. Len(stack) /\ Len(stack) - n = Cur.base
    BY <1>1, <1>3
  <2> QED
    BY <1>2, <2>1 DEF Rest
<1>x. PICK xs, c1, R : /\ xs = <<Arg>> /\ c1 = <<"stack", Len(stack) - n + 1, 0>>
                       /\ R = <<c1>>
  OBVIOUS
<1>5. DOMAIN xs = {1} /\ xs[1] = Arg /\ R[1] = c1 /\ f \in Copies(xs)
  BY <1>x
<1>6. ASSUME NEW v, NEW c, Candidate(v), OnStack(stack', c, v)
      PROVE  Filled(xs, f, R, c, v)
  <2>1. OnStack(stack, c, v) \/ (v = CopyVal(f, 1, Arg) /\ c = c1)
    BY <1>i, <1>x, <1>4, <1>6, StackAfter DEF V
  <2>2. ASSUME v = CopyVal(f, 1, Arg)
        PROVE  RootOf(R, xs, f, R[1], v)
    BY <1>i, <1>1, <1>5, <1>6, <2>2, RootHolds
  <2> QED
    BY <1>5, <2>1, <2>2 DEF Filled, Holds
<1>7. \A v, c : InFrames(frames', c, v) => InFrames(frames, c, v)
  <2>1. \A j \in DOMAIN frames' : j \in DOMAIN frames /\ frames'[j] = frames[j]
    <3>1. frames \in Seq(Frame(Live)) /\ DOMAIN frames = 1 .. Top /\ Top \in Nat \ {0}
      BY <1>1, <1>i, Running DEF IInv, FramesOK, Live
    <3>2. frames' = SubSeq(frames, 1, Top - 1)
      BY DEF Return
    <3>3. \A j \in 1 .. Top - 1 : frames[j] \in Frame(Live)
      BY <3>1, ElementOfSeq DEF Top
    <3>4. DOMAIN frames' = 1 .. Top - 1 /\ \A j \in 1 .. Top - 1 : frames'[j] = frames[j]
      BY <3>1, <3>2, <3>3, SubSeqProperties, LenProperties
    <3> QED
      BY <3>1, <3>4
  <2> QED
    BY <2>1 DEF InFrames
<1>8. /\ \A v, c : InFrames(frames', c, v) => Filled(xs, f, R, c, v)
      /\ \A v, c : Bound(pending', c, v) => Filled(xs, f, R, c, v)
      /\ \A v, c : Matched(match', c, v) => Filled(xs, f, R, c, v)
  BY <1>7 DEF Return, Filled, Holds
<1>9. \A i \in DOMAIN xs : \A o \in Range(f) : \A j : R[i] # <<"item", o, j>>
  BY <1>x, <1>5
<1>10. Filling(xs, f, R)
  BY <1>2, <1>5, <1>6, <1>8, <1>9, <1>i, HeapFilled DEF Filling
<1> QED
  BY <1>5, <1>10, FillingKeeps

\* An unprotected call leaves its last copies unheld.
LEMMA ReturnToHostKeeps ==
  ASSUME Values, IInv', ReturnToHost
  PROVE  Values'
<1>i. IInv
  BY DEF Values
<1>1. Quiet
  BY DEF ReturnToHost
<1>2. CASE armed
  <2>1. DOMAIN heap' = {}
    BY <1>1, <1>2, <1>i, QuietCollect DEF ReturnToHost, IInv, HeapOK, Live
  <2> QED
    BY <1>1, <2>1, EmptyKeeps DEF Quiet
<1>3. CASE ~armed
  <2>1. PICK f \in Copies(<<Arg>>) : heap' = WithCopies(f)
    BY <1>3 DEF ReturnToHost
  <2>x. PICK xs, R : xs = <<Arg>> /\ R = << <<"match", 0, 0>> >>
    OBVIOUS
  <2>2. DOMAIN xs = {1} /\ R[1] = <<"match", 0, 0>> /\ f \in Copies(xs)
    BY <2>x
  <2>3. \A v, c : ~ OnStack(stack', c, v) /\ ~ InFrames(frames', c, v) /\ ~ Bound(pending', c, v)
    BY <1>1 DEF Quiet, OnStack, InFrames, Bound
  <2>4. \A v, c : Candidate(v) => ~ Matched(match', c, v)
    BY <1>1, NamesAssumption DEF Quiet, Matched, Candidate
  <2>5. \A i \in DOMAIN xs : \A o \in Range(f) : \A j : R[i] # <<"item", o, j>>
    BY <2>2
  <2>6. Filling(xs, f, R)
    BY <1>i, <2>1, <2>2, <2>3, <2>4, <2>5, HeapFilled DEF Filling
  <2> QED
    BY <2>2, <2>6, FillingKeeps
<1> QED
  BY <1>2, <1>3

-----------------------------------------------------------------------------
(* Instructions that move a value they do not copy.                        *)

\* SAVE_MATCH moves the operand at the top to the match value.
LEMMA SaveMatchKeeps ==
  ASSUME Values, IInv', SaveMatch
  PROVE  Values'
<1>i. IInv
  BY DEF Values
<1>1. /\ mode = "exec" /\ Len(stack) \in Nat \ {0} /\ DOMAIN stack = 1 .. Len(stack)
      /\ stack[Len(stack)].tag = "V"
  <2>1. Operands(1)
    BY DEF SaveMatch, Statement
  <2>2. mode = "exec" /\ 1 <= Len(stack) - Cur.base
    BY <1>i, <2>1, Arguments
  <2>3. stack[Len(stack) - 1 + 1].tag = "V"
    BY <2>1 DEF Operands
  <2> QED
    BY <1>i, <2>2, <2>3, Running
<1>2. /\ match' = Arg /\ stack' = Rest(1)
      /\ UNCHANGED <<heap, frames, pending>>
  BY DEF SaveMatch
<1>x. PICK c1, m : c1 = <<"stack", Len(stack), 0>> /\ m = <<"match", 0, 0>>
  OBVIOUS
<1>3. Holds(c1, Arg)
  BY <1>1, <1>x DEF Holds, OnStack, Arg
<1>4. \A c, v : OnStack(stack', c, v) => OnStack(stack, c, v) /\ c # c1
  <2>1. Rest(1) \in Seq(Entry(Live)) /\ Len(Rest(1)) = Len(stack) - 1
    <3>1. Len(stack) - 1 \in 0 .. Len(stack) /\ StackOK(heap, frames, stack)
      BY <1>1, <1>i DEF IInv
    <3> QED
      BY <3>1, Cutting DEF Rest, StackOK, Live
  <2>2. DOMAIN stack' = 1 .. Len(stack) - 1
    BY <1>2, <2>1, LenProperties
  <2>3. \A c, v : OnStack(stack', c, v) => c # c1
    BY <1>1, <1>x, <2>2 DEF OnStack
  <2>4. 1 \in 0 .. Len(stack)
    BY <1>1
  <2> QED
    BY <1>2, <1>i, <2>3, <2>4, StackAfter
<1>5. ASSUME NEW c, NEW v, Holds(c, v)'
      PROVE  (Holds(c, v) /\ c # c1) \/ (c = m /\ v = Arg)
  <2>1. CASE Matched(match', c, v)
    BY <1>2, <1>x, <2>1 DEF Matched
  <2>2. CASE OnStack(stack', c, v)
    BY <1>4, <2>2 DEF Holds
  <2>3. CASE InFrames(frames', c, v) \/ Bound(pending', c, v) \/ InHeap(heap', c, v)
    <3>1. c # c1
      BY <1>x, <2>3 DEF InFrames, InFrame, Bound, InHeap, InItems
    <3> QED
      BY <1>2, <2>3, <3>1 DEF Holds
  <2> QED
    BY <1>5, <2>1, <2>2, <2>3 DEF Holds
<1>6. Apart'
  <2> SUFFICES ASSUME NEW v \in Owned(heap'), NEW c, NEW d, Holds(c, v)', Holds(d, v)'
               PROVE  c = d
    BY DEF Apart
  <2>1. v \in Owned(heap)
    BY <1>2
  <2>2. \A b, e : Holds(b, v) /\ Holds(e, v) => b = e
    BY <2>1 DEF Values, Apart
  <2> QED
    BY <1>3, <1>5, <2>2
<1>7. Acyclic'
  BY <1>2 DEF Values, Acyclic
<1> QED
  BY <1>6, <1>7 DEF Values

\* The items of an array once its items first+1 .. last gave way to m copies.
Spliced(its, a, first, last, m, u) ==
  \A k \in DOMAIN its :
    \/ k <= first /\ k \in DOMAIN Items(a) /\ its[k] = Items(a)[k]
    \/ k - first \in 1 .. m /\ its[k] = u[k - first]
    \/ /\ k > first + m /\ k - first - m + last \in DOMAIN Items(a)
       /\ its[k] = Items(a)[k - first - m + last]
InThree(C, A, u, B, p, m, n) ==
  /\ DOMAIN C = 1 .. p + m + n
  /\ \A k \in 1 .. p + m + n :
       /\ k <= p => C[k] = A[k]
       /\ k > p /\ k <= p + m => C[k] = u[k - p]
       /\ k > p + m => C[k] = B[k - (p + m)]
LEMMA Joined ==
  ASSUME NEW S, NEW A \in Seq(S), NEW u \in Seq(S), NEW B \in Seq(S),
         NEW p \in Nat, NEW m \in Nat, NEW n \in Nat, Len(A) = p, Len(u) = m, Len(B) = n
  PROVE  InThree(A \o u \o B, A, u, B, p, m, n)
<1>1. PICK AU : AU = A \o u
  OBVIOUS
<1>2. /\ AU \in Seq(S) /\ Len(AU) = p + m
      /\ \A k \in 1 .. p + m : AU[k] = IF k <= p THEN A[k] ELSE u[k - p]
  BY <1>1, ConcatProperties
<1>3. PICK C : C = AU \o B
  OBVIOUS
<1>4. /\ C \in Seq(S) /\ Len(C) = p + m + n
      /\ \A k \in 1 .. p + m + n : C[k] = IF k <= p + m THEN AU[k] ELSE B[k - (p + m)]
  <2>1. /\ C \in Seq(S) /\ Len(C) = Len(AU) + Len(B)
        /\ \A k \in 1 .. Len(AU) + Len(B) :
             C[k] = IF k <= Len(AU) THEN AU[k] ELSE B[k - Len(AU)]
    <3>1. AU \in Seq(S) /\ B \in Seq(S)
      BY <1>2
    <3> QED
      BY <1>3, <3>1, ConcatProperties, ZenonT(60)
  <2>2. Len(AU) = p + m /\ Len(B) = n
    BY <1>2
  <2> QED
    BY <2>1, <2>2
<1>5. DOMAIN C = 1 .. p + m + n
  BY <1>4, LenProperties
<1>6. \A k \in 1 .. p + m + n :
        /\ k <= p => C[k] = A[k]
        /\ k > p /\ k <= p + m => C[k] = u[k - p]
        /\ k > p + m => C[k] = B[k - (p + m)]
  BY <1>2, <1>4
<1> QED
  BY <1>1, <1>3, <1>5, <1>6 DEF InThree

LEMMA Sides ==
  \A p, m, q, l, n, k \in Nat : p <= l /\ l <= n /\ q = n - l /\ k >= 1 /\ k <= p + m + q =>
    /\ k <= p \/ (k > p /\ k <= p + m) \/ k > p + m
    /\ k > p + m => /\ k - (p + m) \in 1 .. q /\ l + (k - (p + m)) = k - p - m + l
                   /\ l + (k - (p + m)) \in 1 .. n
OBVIOUS

LEMMA SpliceItems ==
  ASSUME IInv, NEW a \in Live, NEW S, NEW u \in Seq(S), NEW m, Len(u) = m,
         NEW first \in Nat, NEW last \in Nat, first <= last, last <= Len(Items(a)),
         NEW its, its = SubSeq(Items(a), 1, first) \o u
                          \o SubSeq(Items(a), last + 1, Len(Items(a)))
  PROVE  Spliced(its, a, first, last, m, u) /\ DOMAIN its \subseteq Nat
<1>1. PICK old, n, A, B :
        /\ old = Items(a) /\ n = Len(old)
        /\ A = SubSeq(old, 1, first) /\ B = SubSeq(old, last + 1, n)
  OBVIOUS
<1>2. /\ n \in Nat /\ DOMAIN old = 1 .. n /\ m \in Nat /\ last <= n
      /\ \A i \in 1 .. n : old[i] \in Val(Live)
  BY <1>1, ItemsOK, LenProperties
<1>3. /\ A \in Seq(Val(Live)) /\ Len(A) = first
      /\ \A i \in 1 .. first : A[i] = old[i]
  <2>1. \A i \in 1 .. first : old[i] \in Val(Live)
    BY <1>2
  <2>2. /\ A \in Seq(Val(Live)) /\ Len(A) = (IF 1 <= first THEN first - 1 + 1 ELSE 0)
        /\ \A i \in 1 .. first - 1 + 1 : A[i] = old[1 + i - 1]
    BY <1>1, <2>1, SubSeqProperties
  <2> QED
    BY <2>2
<1>4. PICK q : q = n - last
  OBVIOUS
<1>5. /\ B \in Seq(Val(Live)) /\ Len(B) = q /\ q \in Nat
      /\ \A i \in 1 .. q : B[i] = old[last + i]
  <2>1. \A i \in last + 1 .. n : old[i] \in Val(Live)
    BY <1>2
  <2>2. /\ B \in Seq(Val(Live))
        /\ Len(B) = (IF last + 1 <= n THEN n - (last + 1) + 1 ELSE 0)
        /\ \A i \in 1 .. n - (last + 1) + 1 : B[i] = old[last + 1 + i - 1]
    BY <1>1, <1>2, <2>1, SubSeqProperties
  <2> QED
    BY <1>2, <1>4, <2>2
<1>6. its = A \o u \o B
  BY <1>1
<1>7. PICK W : A \in Seq(W) /\ u \in Seq(W) /\ B \in Seq(W)
  <2>1. /\ A \in Seq(Val(Live) \cup S) /\ u \in Seq(Val(Live) \cup S)
        /\ B \in Seq(Val(Live) \cup S)
    BY <1>3, <1>5, SeqMonotonic
  <2> QED
    BY <2>1
<1>8. /\ DOMAIN its = 1 .. first + m + q
      /\ \A k \in 1 .. first + m + q :
           /\ k <= first => its[k] = A[k]
           /\ k > first /\ k <= first + m => its[k] = u[k - first]
           /\ k > first + m => its[k] = B[k - (first + m)]
  <2>1. /\ m \in Nat /\ q \in Nat /\ Len(A) = first /\ Len(u) = m /\ Len(B) = q
        /\ A \in Seq(W) /\ u \in Seq(W) /\ B \in Seq(W)
    BY <1>2, <1>3, <1>5, <1>7
  <2>2. InThree(A \o u \o B, A, u, B, first, m, q)
    BY <2>1, Joined
  <2> QED
    <3>1. InThree(its, A, u, B, first, m, q)
      BY <1>6, <2>2
    <3> QED
      BY <3>1, ZenonT(60) DEF InThree
<1>9. /\ \A k \in DOMAIN its :
           \/ k <= first /\ k \in DOMAIN old /\ its[k] = old[k]
           \/ k - first \in 1 .. m /\ its[k] = u[k - first]
           \/ /\ k > first + m /\ k - first - m + last \in DOMAIN old
              /\ its[k] = old[k - first - m + last]
  <2> SUFFICES ASSUME NEW k \in DOMAIN its
               PROVE  \/ k <= first /\ k \in DOMAIN old /\ its[k] = old[k]
                      \/ k - first \in 1 .. m /\ its[k] = u[k - first]
                      \/ /\ k > first + m /\ k - first - m + last \in DOMAIN old
                         /\ its[k] = old[k - first - m + last]
    OBVIOUS
  <2>1. k \in Nat /\ k >= 1 /\ k <= first + m + q
    <3>1. first \in Nat /\ m \in Nat /\ q \in Nat
      BY <1>2, <1>5
    <3>2. k \in 1 .. first + m + q
      BY <1>8
    <3> QED
      BY <3>1, <3>2
  <2>0. /\ k <= first \/ (k > first /\ k <= first + m) \/ k > first + m
        /\ k > first + m =>
             /\ k - (first + m) \in 1 .. q
             /\ last + (k - (first + m)) = k - first - m + last
             /\ last + (k - (first + m)) \in 1 .. n
    <3>1. first \in Nat /\ m \in Nat /\ q \in Nat /\ last \in Nat /\ n \in Nat
          /\ first <= last /\ last <= n /\ q = n - last
      BY <1>2, <1>4, <1>5
    <3> QED
      BY <2>1, <3>1, Sides
  <2>2. CASE k <= first
    <3>1. k \in 1 .. first /\ k \in 1 .. n /\ k \in 1 .. first + m + q
      BY <1>2, <1>5, <2>1, <2>2
    <3>2. its[k] = A[k] /\ A[k] = old[k]
      BY <1>3, <1>8, <2>2, <3>1
    <3> QED
      BY <1>2, <2>2, <3>1, <3>2
  <2>3. CASE k > first /\ k <= first + m
    <3>1. k - first \in 1 .. m /\ k \in 1 .. first + m + q
      BY <1>2, <1>5, <2>1, <2>3
    <3> QED
      BY <1>8, <2>3, <3>1
  <2>4. CASE k > first + m
    <3>1. PICK j : j = k - (first + m)
      OBVIOUS
    <3>2. /\ j \in 1 .. q /\ last + j = k - first - m + last /\ last + j \in 1 .. n
          /\ k \in 1 .. first + m + q
      BY <1>8, <2>0, <2>4, <3>1
    <3>3. its[k] = old[last + j]
      BY <1>5, <1>8, <2>4, <3>1, <3>2
    <3> QED
      BY <1>2, <2>4, <3>2, <3>3
  <2> QED
    BY <2>0, <2>2, <2>3, <2>4
<1>10. DOMAIN its \subseteq Nat
  BY <1>2, <1>5, <1>8
<1> QED
  BY <1>1, <1>9, <1>10 DEF Spliced

\* An item that stayed in a, and where it is now.
Moved(a, first, last, m, c, v) ==
  \E k, j \in Nat :
    /\ c = <<"item", a, k>> /\ Holds(<<"item", a, j>>, v)
    /\ \/ k <= first /\ j = k
       \/ k > first + m /\ j = k - first - m + last
ItemOf(a, c) == \E k : c = <<"item", a, k>>
LEMMA MovedApart ==
  ASSUME Apart, NEW v \in Owned(heap), NEW a, NEW first \in Nat, NEW last \in Nat,
         first <= last, NEW m \in Nat, NEW c, NEW d, Moved(a, first, last, m, c, v)
  PROVE  /\ Moved(a, first, last, m, d, v) => c = d
         /\ Holds(d, v) => ItemOf(a, d)
<1>1. PICK k, j \in Nat :
        /\ c = <<"item", a, k>> /\ Holds(<<"item", a, j>>, v)
        /\ (k <= first /\ j = k) \/ (k > first + m /\ j = k - first - m + last)
  BY DEF Moved
<1>2. ASSUME Moved(a, first, last, m, d, v)
      PROVE  c = d
  <2>1. PICK g, i \in Nat :
          /\ d = <<"item", a, g>> /\ Holds(<<"item", a, i>>, v)
          /\ (g <= first /\ i = g) \/ (g > first + m /\ i = g - first - m + last)
    BY <1>2 DEF Moved
  <2>2. <<"item", a, i>> = <<"item", a, j>>
    BY <1>1, <2>1 DEF Apart
  <2>3. i = j
    BY <2>2
  <2>4. k = g
    <3>1. /\ (k <= first /\ j = k) \/ (k > first + m /\ j = k - first - m + last)
          /\ (g <= first /\ i = g) \/ (g > first + m /\ i = g - first - m + last)
      BY <1>1, <2>1
    <3> QED
      BY <2>3, <3>1
  <2> QED
    BY <1>1, <2>1, <2>4
<1>3. ASSUME Holds(d, v)
      PROVE  ItemOf(a, d)
  <2>1. d = <<"item", a, j>>
    BY <1>1, <1>3 DEF Apart
  <2> QED
    BY <2>1 DEF ItemOf
<1> QED
  BY <1>2, <1>3

LEMMA ArraySpliceKeeps ==
  ASSUME Values, IInv', NEW first \in Nat, NEW last \in Nat, ArraySplice(first, last)
  PROVE  Values'
<1>i. IInv /\ Apart /\ Acyclic
  BY DEF Values
<1>x. PICK a, r, xs, m : a = Args(4)[1] /\ r = Args(4)[4] /\ xs = Items(r) /\ m = Len(xs)
  OBVIOUS
<1>1. /\ mode = "exec" /\ 4 <= Len(stack) - Cur.base
      /\ a \in Live /\ heap[a].kind = "ARRAY" /\ r \in Live
      /\ first <= last /\ last <= Len(Items(a))
  BY <1>i, <1>x, Arguments DEF ArraySplice, IsObj
<1>2. PICK f \in Copies(xs) :
        heap' = [WithCopies(f) EXCEPT ![a].items =
                   SubSeq(@, 1, first) \o CopyVals(f, xs) \o SubSeq(@, last + 1, Len(@))]
  BY <1>x DEF ArraySplice
<1>3. PICK its, u, R :
        /\ its = SubSeq(Items(a), 1, first) \o CopyVals(f, xs)
                   \o SubSeq(Items(a), last + 1, Len(Items(a)))
        /\ u = CopyVals(f, xs) /\ R = [i \in DOMAIN xs |-> <<"item", a, first + i>>]
  OBVIOUS
<1>4. heap' = [WithCopies(f) EXCEPT ![a].items = its]
  <2>1. WithCopies(f)[a].items = Items(a) /\ a \in DOMAIN WithCopies(f)
    BY <1>1, <1>i, CopiesKind DEF Items
  <2> QED
    BY <1>2, <1>3, <2>1
<1>5. /\ xs \in Seq(Val(Live)) /\ m \in Nat /\ DOMAIN xs = 1 .. m
      /\ \A i \in 1 .. m : xs[i] \in Val(Live) /\ u[i] = CopyVal(f, i, xs[i])
  BY <1>i, <1>x, <1>1, <1>3, ItemsOK DEF CopyVals
<1>6. Spliced(its, a, first, last, m, u) /\ DOMAIN its \subseteq Nat
  <2>1. PICK S : u \in Seq(S) /\ Len(u) = m
    <3>1. u = [i \in 1 .. m |-> CopyVal(f, i, xs[i])]
      BY <1>3, <1>5 DEF CopyVals
    <3>2. u \in Seq({u[i] : i \in 1 .. m}) /\ Len(u) = m
      BY <1>5, <3>1, IsASeq, LenProperties
    <3> QED
      BY <3>2
  <2> QED
    BY <1>i, <1>1, <1>3, <1>5, <2>1, SpliceItems
<1>7. StackLess /\ UNCHANGED <<frames, pending, match>>
  <2>1. 4 \in 0 .. Len(stack)
    BY <1>1, <1>i, Running
  <2> QED
    BY <1>i, <2>1, RestLess DEF ArraySplice, Rigid
<1>8. /\ DOMAIN heap' = Live \cup Range(f)
      /\ \A p \in Live : heap'[p].kind = heap[p].kind
      /\ \A v, c : Candidate(v) /\ InHeap(heap', c, v) =>
           (InHeap(heap, c, v) /\ c[2] # a) \/ FreshItem(f, c, v) \/ InItems(its, a, c, v)
  BY <1>1, <1>4, <1>i, HeapAfterItems
<1>9. \A v \in Owned(heap') : Candidate(v)
  BY <1>8 DEF Candidate, IInv, HeapOK, Owned, Live
<1>10. ASSUME NEW v, NEW c, Candidate(v), InItems(its, a, c, v)
       PROVE  RootOf(R, xs, f, c, v) \/ Moved(a, first, last, m, c, v)
  <2>1. PICK k \in DOMAIN its : c = <<"item", a, k>> /\ its[k] = v
    BY <1>10 DEF InItems
  <2>2. k \in Nat /\ DOMAIN Items(a) \subseteq Nat
    BY <1>1, <1>6, <1>i, ItemsOK
  <2>0. \A j \in DOMAIN Items(a) : Holds(<<"item", a, j>>, Items(a)[j])
    BY <1>1 DEF Holds, InHeap, InItems, Items, Live
  <2>3. CASE k <= first /\ k \in DOMAIN Items(a) /\ its[k] = Items(a)[k]
    BY <2>0, <2>1, <2>2, <2>3 DEF Moved
  <2>4. CASE k - first \in 1 .. m /\ its[k] = u[k - first]
    <3>1. PICK i \in 1 .. m : i = k - first
      BY <2>4
    <3>2. /\ R[i] = c /\ v = CopyVal(f, i, xs[i]) /\ i \in DOMAIN xs /\ xs[i] \in Val(Live)
      <4>1. first + i = k
        BY <2>2, <3>1
      <4> QED
        BY <1>3, <1>5, <2>1, <2>4, <3>1, <4>1
    <3>3. RootOf(R, xs, f, R[i], v)
      BY <1>i, <1>10, <3>2, RootHolds
    <3> QED
      BY <3>2, <3>3
  <2>5. CASE /\ k > first + m /\ k - first - m + last \in DOMAIN Items(a)
             /\ its[k] = Items(a)[k - first - m + last]
    <3>1. PICK j \in DOMAIN Items(a) : j = k - first - m + last
      BY <2>5
    <3>2. j \in Nat /\ Holds(<<"item", a, j>>, v)
      BY <2>0, <2>1, <2>2, <2>5, <3>1
    <3> QED
      BY <2>1, <2>2, <2>5, <3>1, <3>2 DEF Moved
  <2> QED
    BY <1>6, <2>3, <2>4, <2>5 DEF Spliced
<1>11. ASSUME NEW v, NEW c, Candidate(v), Holds(c, v)'
       PROVE  \/ Holds(c, v) /\ ~ ItemOf(a, c)
              \/ RootOf(R, xs, f, c, v) \/ FreshItem(f, c, v)
              \/ Moved(a, first, last, m, c, v)
  <2>1. CASE InHeap(heap', c, v)
    BY <1>8, <1>10, <1>11, <2>1 DEF Holds, ItemOf
  <2>2. CASE OnStack(stack', c, v)
    <3>1. OnStack(stack, c, v)
      BY <1>7, <1>11, <2>2, NamesAssumption DEF StackLess, Candidate
    <3> QED
      BY <3>1 DEF OnStack, Holds, ItemOf
  <2>3. CASE InFrames(frames', c, v)
    BY <1>7, <2>3 DEF InFrames, InFrame, Holds, ItemOf
  <2>4. CASE Bound(pending', c, v)
    BY <1>7, <2>4 DEF Bound, Holds, ItemOf
  <2>5. CASE Matched(match', c, v)
    BY <1>7, <2>5 DEF Matched, Holds, ItemOf
  <2> QED
    BY <1>11, <2>1, <2>2, <2>3, <2>4, <2>5 DEF Holds
<1>12. ASSUME NEW v \in Owned(heap'), NEW c, Holds(c, v) \/ Moved(a, first, last, m, c, v)
       PROVE  v \in Live /\ v \notin Range(f)
  <2>1. \E b : Holds(b, v)
    BY <1>12 DEF Moved
  <2>2. v \in Obj
    BY <1>9 DEF Candidate
  <2> QED
    BY <1>i, <2>1, <2>2, HeldLive, CopiesOf, NamesAssumption DEF Val
<1>13. ASSUME NEW v, NEW c, RootOf(R, xs, f, c, v) \/ FreshItem(f, c, v)
       PROVE  v \in Range(f)
  <2>1. CASE RootOf(R, xs, f, c, v)
    BY <2>1, CopiesOf, TreeOf DEF RootOf
  <2>2. CASE FreshItem(f, c, v)
    BY <2>2, FreshItemOf
  <2> QED
    BY <1>13, <2>1, <2>2
<1>14. \A v \in Owned(heap) : v \in Owned(heap') =>
         \A c, d : Holds(c, v)' /\ Holds(d, v)' => c = d
  <2> SUFFICES ASSUME NEW v \in Owned(heap), v \in Owned(heap'), NEW c, NEW d,
                      Holds(c, v)', Holds(d, v)'
               PROVE  c = d
    OBVIOUS
  <2>1. v \notin Range(f) /\ Candidate(v)
    BY <1>9, CopiesOf DEF Owned, Live
  <2>2. /\ (Holds(c, v) /\ ~ ItemOf(a, c)) \/ Moved(a, first, last, m, c, v)
        /\ (Holds(d, v) /\ ~ ItemOf(a, d)) \/ Moved(a, first, last, m, d, v)
    BY <1>11, <1>13, <2>1
  <2>3. CASE Moved(a, first, last, m, c, v)
    BY <1>i, <1>1, <1>5, <2>2, <2>3, MovedApart
  <2>4. CASE Moved(a, first, last, m, d, v)
    BY <1>i, <1>1, <1>5, <2>2, <2>4, MovedApart
  <2> QED
    BY <1>i, <2>2, <2>3, <2>4 DEF Apart
<1>15. \A v \in Range(f) : v \in Owned(heap') =>
         \A c : Holds(c, v)' => RootOf(R, xs, f, c, v) \/ FreshItem(f, c, v)
  BY <1>9, <1>11, <1>12
<1>16. Owned(heap') \subseteq Owned(heap) \cup Range(f) \cup {NoObj}
  BY <1>8 DEF Owned, Live
<1>17. NoObj \notin Owned(heap') /\ NoObj \notin Live /\ NoObj \notin Range(f)
  BY <1>i, CopiesOf, NamesAssumption DEF IInv, HeapOK, Owned, Live
<1>18. ASSUME NEW n \in Owned(heap'), n # a, NEW v \in Inner(heap', n)
       PROVE  \/ v \in Inner(heap, n) /\ n \in Live
              \/ \E k : FreshItem(f, <<"item", n, k>>, v)
  <2>1. v \in Owned(heap') /\ Candidate(v)
    BY <1>9, <1>18 DEF Inner
  <2>2. PICK k : InHeap(heap', <<"item", n, k>>, v)
    BY <1>18, InsideHeld DEF Owned
  <2>3. ~ InItems(its, a, <<"item", n, k>>, v)
    BY <1>18 DEF InItems
  <2>4. CASE FreshItem(f, <<"item", n, k>>, v)
    BY <2>4
  <2>5. CASE InHeap(heap, <<"item", n, k>>, v)
    <3>1. Holds(<<"item", n, k>>, v)
      BY <2>5 DEF Holds
    <3>2. v \in Owned(heap)
      BY <1>12, <2>1, <3>1 DEF Candidate
    <3> QED
      BY <3>1, <3>2, HeldInside DEF Inner
  <2> QED
    BY <1>8, <2>1, <2>2, <2>3, <2>4, <2>5
<1>19. \A o \in Owned(heap) : o \in Owned(heap') =>
         \A v \in Inner(heap', o) : v \in Inner(heap, o) \cup Range(f)
  <2>1. \A o \in Owned(heap) : o # a
    BY <1>1 DEF Owned
  <2> QED
    BY <1>13, <1>18, <2>1
<1>20. \A n \in Range(f) : n \in Owned(heap') =>
         \A v \in Inner(heap', n) : \E k : FreshItem(f, <<"item", n, k>>, v)
  <2>1. \A n \in Range(f) : n \notin Live /\ n # a
    BY <1>1, CopiesOf
  <2> QED
    BY <1>18, <2>1
<1>21. Apart' /\ Acyclic'
  BY <1>i, <1>14, <1>15, <1>16, <1>17, <1>19, <1>20, CopyOwned
<1> QED
  BY <1>21 DEF Values

-----------------------------------------------------------------------------
(* Every step keeps owned objects apart and without a cycle.               *)

LEMMA StutterKeeps ==
  ASSUME Values, UNCHANGED vars
  PROVE  Values'
<1>1. IInv'
  BY StutterStep DEF Values
<1>2. \A c, v : Holds(c, v)' <=> Holds(c, v)
  BY DEF vars, Holds
<1> QED
  BY <1>1, <1>2 DEF vars, Values, Apart, Acyclic

LEMMA InitValues == Init => Values
<1> SUFFICES ASSUME Init PROVE Values
  OBVIOUS
<1>1. IInv
  BY InitInvariant
<1>2. Owned(heap) = {}
  BY DEF Init, Owned
<1> QED
  BY <1>1, <1>2 DEF Values, Apart, Acyclic

LEMMA NextValues == Values /\ [Next]_vars => Values'
<1> SUFFICES ASSUME Values, [Next]_vars PROVE Values'
  OBVIOUS
<1>0. IInv'
  BY NextInvariant DEF Values
<1>1. CASE GcMaybe
  BY <1>0, <1>1, GcMaybeKeeps
<1>2. CASE ValueInstruction
  <2>1. ASSUME NEW n \in 0 .. 2, Compute(n) PROVE Values'
    BY <1>0, <2>1, ComputeKeeps
  <2>2. ASSUME NEW kind \in Kinds, NEW n \in Ns, Make(kind, n) PROVE Values'
    BY <1>0, <2>2, MakeKeeps, Bounds
  <2>3. ASSUME NEW s \in Slot, Load(s) PROVE Values'
    BY <1>0, <2>3, LoadKeeps
  <2>4. ASSUME NEW s \in Slot, Decl(s) PROVE Values'
    BY <1>0, <2>4, DeclKeeps
  <2>5. ASSUME NEW i \in Ns, GetField(i) PROVE Values'
    BY <1>0, <2>5, GetFieldKeeps, Bounds
  <2>6. ASSUME NEW s \in Slot, LocalInc(s) PROVE Values'
    BY <1>0, <2>6, LocalIncKeeps
  <2> QED
    BY <1>0, <1>2, <2>1, <2>2, <2>3, <2>4, <2>5, <2>6, DerefKeeps, PopKeeps, JumpKeeps
       DEF ValueInstruction
<1>3. CASE PlaceInstruction
  <2>1. ASSUME NEW s \in Slot, LocalPlace(s) PROVE Values'
    BY <1>0, <2>1, LocalPlaceKeeps
  <2>2. ASSUME NEW i \in Ns, FieldPlace(i) PROVE Values'
    BY <1>0, <2>2, FieldPlaceKeeps, Bounds
  <2>3. ASSUME NEW i \in Ns, ValueFieldPlace(i) PROVE Values'
    BY <1>0, <2>3, ValueFieldPlaceKeeps, Bounds
  <2>4. ASSUME NEW i \in Ns, IndexPlace(i) PROVE Values'
    BY <1>0, <2>4, IndexPlaceKeeps, Bounds
  <2> QED
    BY <1>0, <1>3, <2>1, <2>2, <2>3, <2>4,
       DerefPlaceKeeps, DupKeeps, LoadPlaceKeeps, StorePlaceKeeps DEF PlaceInstruction
<1>4. CASE ArrayInstruction
  <2>1. ASSUME NEW n \in Ns, MakeRepeat(n) PROVE Values'
    BY <1>0, <2>1, MakeRepeatKeeps, Bounds
  <2>2. ASSUME NEW n \in Ns, MakeBytes(n) PROVE Values'
    BY <1>0, <2>2, MakeBytesKeeps, Bounds
  <2>3. ASSUME NEW i \in Ns, Index(i) PROVE Values'
    BY <1>0, <2>3, IndexKeeps, Bounds
  <2>4. ASSUME NEW i \in Ns, NEW j \in Ns, ArraySplice(i, j) PROVE Values'
    BY <1>0, <2>4, ArraySpliceKeeps, Bounds
  <2> QED
    BY <1>0, <1>4, <2>1, <2>2, <2>3, <2>4, ArrayPushKeeps, ArrayPopKeeps
       DEF ArrayInstruction
<1>5. CASE ScopeInstruction
  <2>1. ASSUME NEW n \in 1 .. MaxScopes, ScopeExit(n) PROVE Values'
    <3>1. n \in Nat \ {0}
      BY BoundsAssumption
    <3> QED
      BY <1>0, <2>1, <3>1, ScopeExitKeeps
  <2> QED
    BY <1>0, <1>5, <2>1, ScopeEnterKeeps DEF ScopeInstruction
<1>6. CASE PatternInstruction
  <2>1. ASSUME NEW n \in 0 .. NSlots, TryPattern(n) PROVE Values'
    <3>1. n \in Nat
      BY BoundsAssumption
    <3> QED
      BY <1>0, <2>1, <3>1, TryPatternKeeps
  <2> QED
    BY <1>0, <1>6, <2>1, EnterBindingsKeeps, MergeBindingsKeeps, DropBindingsKeeps,
       SaveMatchKeeps, LoadMatchKeeps, ClearMatchKeeps DEF PatternInstruction
<1>7. CASE CallInstruction
  <2>1. ASSUME NEW n \in 0 .. NSlots, Call(n, 0) PROVE Values'
    BY <1>0, <2>1, CallKeeps
  <2>2. ASSUME NEW n \in 0 .. NSlots, Call(n, 1) PROVE Values'
    BY <1>0, <2>2, CallKeeps
  <2> QED
    BY <1>0, <1>7, <2>1, <2>2, ReturnKeeps DEF CallInstruction
<1>8. CASE HostInstruction
  BY <1>0, <1>8, HostCallKeeps DEF HostInstruction
<1>9. CASE InvokeEntry \/ CallFunction
  BY <1>0, <1>9, StartKeeps DEF InvokeEntry, CallFunction
<1>10. CASE ReturnToHost
  BY <1>0, <1>10, ReturnToHostKeeps
<1>11. CASE Trap
  BY <1>0, <1>11, TrapKeeps
<1>12. CASE Destroy
  BY <1>0, <1>12, DestroyKeeps
<1>13. CASE UNCHANGED vars
  BY <1>13, StutterKeeps
<1> QED
  BY <1>1, <1>2, <1>3, <1>4, <1>5, <1>6, <1>7, <1>8, <1>9, <1>10, <1>11, <1>12, <1>13
     DEF Next

\* No two cells hold one owned object, and owned objects nest without a cycle:
\* the invariant value semantics follows from.
THEOREM ValuesApart == Spec => []Values
BY InitValues, NextValues, PTL DEF Spec

LEMMA OneOrNone ==
  ASSUME NEW S, \A x, y \in S : x = y
  PROVE  Cardinality(S) = 0 \/ (Cardinality(S) = 1 /\ \E x : x \in S)
<1>1. CASE S = {}
  BY <1>1, FS_EmptySet
<1>2. CASE S # {}
  <2>1. PICK x : x \in S
    BY <1>2
  <2>2. S = {x}
    BY <2>1
  <2> QED
    BY <2>1, <2>2, FS_Singleton
<1> QED
  BY <1>1, <1>2

LEMMA OneHolder ==
  ASSUME Apart, NEW o \in Owned(heap)
  PROVE  Holders(o) <= 1
<1> DEFINE S1 == {i \in DOMAIN stack : stack[i].tag = "V" /\ stack[i].v = o}
           S2 == {c \in (DOMAIN frames) \X Slot :
                    c[2] \in frames[c[1]].active /\ frames[c[1]].loc[c[2]] = o}
           S3 == {i \in DOMAIN pending : pending[i].val = o}
           n4 == IF match = o THEN 1 ELSE 0
           S5 == {c \in Live \X (1 .. MaxLen) :
                    c[2] \in DOMAIN Items(c[1]) /\ Items(c[1])[c[2]] = o}
<1>a. \A c, d : Holds(c, o) /\ Holds(d, o) => c = d
  BY DEF Apart
<1>1. \A i \in S1 : Holds(<<"stack", i, 0>>, o)
  BY DEF Holds, OnStack
<1>2. \A c \in S2 : c = <<c[1], c[2]>> /\ Holds(<<"local", c[1], c[2]>>, o)
  BY DEF Holds, InFrames, InFrame
<1>3. \A i \in S3 : Holds(<<"pending", i, 0>>, o)
  BY DEF Holds, Bound
<1>4. n4 = 0 \/ (n4 = 1 /\ Holds(<<"match", 0, 0>>, o))
  BY DEF Holds, Matched
<1>5. \A c \in S5 : c = <<c[1], c[2]>> /\ Holds(<<"item", c[1], c[2]>>, o)
  BY DEF Holds, InHeap, InItems, Items, Live
<1> HIDE DEF S1, S2, S3, n4, S5
<1>6. \A x, y \in S1 : x = y
  BY <1>a, <1>1
<1>7. \A x, y \in S2 : x = y
  <2> SUFFICES ASSUME NEW x \in S2, NEW y \in S2 PROVE x = y
    OBVIOUS
  <2>1. <<"local", x[1], x[2]>> = <<"local", y[1], y[2]>>
    BY <1>a, <1>2
  <2> QED
    BY <1>2, <2>1
<1>8. \A x, y \in S3 : x = y
  BY <1>a, <1>3
<1>9. \A x, y \in S5 : x = y
  <2> SUFFICES ASSUME NEW x \in S5, NEW y \in S5 PROVE x = y
    OBVIOUS
  <2>1. <<"item", x[1], x[2]>> = <<"item", y[1], y[2]>>
    BY <1>a, <1>5
  <2> QED
    BY <1>5, <2>1
<1>10. PICK c1, c2, c3, c5 :
         /\ c1 = Cardinality(S1) /\ c2 = Cardinality(S2)
         /\ c3 = Cardinality(S3) /\ c5 = Cardinality(S5)
  OBVIOUS
<1>11. /\ c1 = 0 \/ (c1 = 1 /\ \E i : Holds(<<"stack", i, 0>>, o))
       /\ c2 = 0 \/ (c2 = 1 /\ \E k, s : Holds(<<"local", k, s>>, o))
       /\ c3 = 0 \/ (c3 = 1 /\ \E i : Holds(<<"pending", i, 0>>, o))
       /\ c5 = 0 \/ (c5 = 1 /\ \E p, k : Holds(<<"item", p, k>>, o))
  <2>1. c1 = 0 \/ (c1 = 1 /\ \E i : Holds(<<"stack", i, 0>>, o))
    BY <1>1, <1>6, <1>10, OneOrNone
  <2>2. c2 = 0 \/ (c2 = 1 /\ \E k, s : Holds(<<"local", k, s>>, o))
    BY <1>2, <1>7, <1>10, OneOrNone
  <2>3. c3 = 0 \/ (c3 = 1 /\ \E i : Holds(<<"pending", i, 0>>, o))
    BY <1>3, <1>8, <1>10, OneOrNone
  <2>4. c5 = 0 \/ (c5 = 1 /\ \E p, k : Holds(<<"item", p, k>>, o))
    BY <1>5, <1>9, <1>10, OneOrNone
  <2> QED
    BY <2>1, <2>2, <2>3, <2>4
<1>12. /\ ~ ((\E i : Holds(<<"stack", i, 0>>, o)) /\ \E j : Holds(<<"pending", j, 0>>, o))
       /\ ~ ((\E i : Holds(<<"stack", i, 0>>, o)) /\ \E k, s : Holds(<<"local", k, s>>, o))
       /\ ~ ((\E i : Holds(<<"stack", i, 0>>, o)) /\ \E p, k : Holds(<<"item", p, k>>, o))
       /\ ~ ((\E i : Holds(<<"pending", i, 0>>, o)) /\ \E k, s : Holds(<<"local", k, s>>, o))
       /\ ~ ((\E i : Holds(<<"pending", i, 0>>, o)) /\ \E p, k : Holds(<<"item", p, k>>, o))
       /\ ~ ((\E k, s : Holds(<<"local", k, s>>, o)) /\ \E p, k : Holds(<<"item", p, k>>, o))
       /\ Holds(<<"match", 0, 0>>, o) => /\ ~ \E i : Holds(<<"stack", i, 0>>, o)
                                         /\ ~ \E i : Holds(<<"pending", i, 0>>, o)
                                         /\ ~ \E k, s : Holds(<<"local", k, s>>, o)
                                         /\ ~ \E p, k : Holds(<<"item", p, k>>, o)
  BY <1>a
<1>13. c1 + c2 + c3 + n4 + c5 <= 1
  <2>1. /\ c1 \in {0, 1} /\ c2 \in {0, 1} /\ c3 \in {0, 1} /\ c5 \in {0, 1} /\ n4 \in {0, 1}
    BY <1>4, <1>11
  <2>2. /\ c1 = 0 \/ (c2 = 0 /\ c3 = 0 /\ c5 = 0 /\ n4 = 0)
        /\ c3 = 0 \/ (c2 = 0 /\ c5 = 0 /\ n4 = 0)
        /\ c2 = 0 \/ (c5 = 0 /\ n4 = 0)
        /\ c5 = 0 \/ n4 = 0
    BY <1>4, <1>11, <1>12
  <2> QED
    BY <2>1, <2>2
<1>14. Holders(o) = c1 + c2 + c3 + n4 + c5
  BY <1>10 DEF Holders, S1, S2, S3, n4, S5
<1> QED
  BY <1>13, <1>14

\* Value semantics: a struct, an enum or an option always has at most one holder,
\* so no store through one variable, field or element is seen through another.
THEOREM ValueOwnedHolds == Spec => []ValueOwned
<1>1. Values => ValueOwned
  <2>1. OfKind({"STRUCT", "ENUM"}) = Owned(heap)
    BY DEF OfKind, Owned, Live
  <2> QED
    BY <2>1, OneHolder DEF Values, ValueOwned
<1> QED
  BY <1>1, ValuesApart, PTL

=============================================================================
