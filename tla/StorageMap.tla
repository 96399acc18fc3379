----------------------------- MODULE StorageMap -----------------------------
(***************************************************************************)
(* What a symbol table promises its users: a set of regions of the data    *)
(* segment, each belonging to one symbol.  A region, once placed, is never *)
(* moved, resized or given away; regions are disjoint; a region may carry  *)
(* a register, and no register is carried by two regions.                  *)
(***************************************************************************)
EXTENDS Integers

CONSTANT Registers

VARIABLE regions

Region == [lo : Nat, hi : Nat, reg : {-1} \cup Registers]

Apart(r, q) ==
  /\ r.hi <= q.lo \/ q.hi <= r.lo
  /\ r.reg = -1 \/ r.reg # q.reg

Init == regions = {}

Allot ==
  \E r \in regions' \ regions :
    /\ r \in Region
    /\ r.lo < r.hi
    /\ \A q \in regions : Apart(r, q)
    /\ regions' = regions \cup {r}

Forget == regions' = {}

Next == Allot \/ Forget

Spec == Init /\ [][Next]_regions

=============================================================================
