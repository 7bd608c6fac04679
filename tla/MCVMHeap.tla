------------------------------ MODULE MCVMHeap ------------------------------
(***************************************************************************)
(* VMHeap on small heaps, for TLC.                                         *)
(***************************************************************************)
EXTENDS VMHeap, TLC

\* Addresses carry no order the code looks at.
Addresses == Permutations(Obj)

=============================================================================
