------------------------ MODULE TempRegistersProofs ------------------------
(***************************************************************************)
(* Proofs about TempRegisters for every range of temporaries and every     *)
(* bound on the size of a statement.                                       *)
(***************************************************************************)
EXTENDS TempRegisters, SequenceTheorems, TLAPS

(***************************************************************************)
(* Where a value stands that was put in register reg by allocation at, age *)
(* allocations ago, when reg now holds v and the counter is next.  While   *)
(* the value is young, reg still holds it and the counter is age + 1 steps *)
(* past reg; once the counter has gone round, reg holds a later value.     *)
(***************************************************************************)
Stands(v, next, age, reg, at) ==
  /\ age < NTemps =>
       /\ v = at
       /\ next = reg + 1 + age \/ next = reg + 1 + age - NTemps
  /\ age >= NTemps => v > at

Placed(o) == Stands(regs[o.reg], temp_next, count - o.at, o.reg, o.at)

(* The trees of the pending operands lie side by side: each one's last     *)
(* node is as far after the previous one's as the tree is large, and the   *)
(* last node of all is the last allocation.                                *)
SideBySide ==
  /\ \A i \in 1 .. Depth : operands[i].size <= operands[i].at
  /\ \A i \in 1 .. Depth :
       i < Depth => operands[i + 1].at = operands[i].at + operands[i + 1].size
  /\ Depth > 0 => operands[Depth].at = count

IInv ==
  /\ TypeOK
  /\ \A r \in Temps : regs[r] <= count
  /\ \A i \in 1 .. Depth : operands[i].at <= count /\ Placed(operands[i])
  /\ SideBySide

(* One turn of the counter, seen from a value put in a register earlier.   *)
LEMMA RoundRobin ==
  ASSUME NEW reg \in Temps, NEW next \in Temps, NEW at \in Nat, NEW age \in Nat,
         NEW v \in Nat, Stands(v, next, age, reg, at)
  PROVE  Stands(IF reg = next THEN at + age + 1 ELSE v,
                IF next + 1 > temp_max THEN temp_start ELSE next + 1,
                age + 1, reg, at)
  BY TempAssumption DEF Stands, Temps, NTemps

(* A new temporary is allocated for a node whose subtree ends where the    *)
(* remaining operands leave off.                                           *)
LEMMA PutInTempInv ==
  ASSUME IInv, NEW m \in 0 .. Depth, NEW size \in Nat \ {0},
         PutInTemp(SubSeq(operands, 1, m), size),
         m = 0 => size <= count + 1,
         m > 0 => operands[m].at + size = count + 1
  PROVE  IInv'
<1> DEFINE kept == SubSeq(operands, 1, m)
           new  == [reg |-> temp_next, at |-> count + 1, size |-> size]
<1>1. /\ temp_start \in Nat /\ temp_max \in Nat /\ temp_start <= temp_max
      /\ MaxAllocs \in Nat
      /\ NTemps = temp_max - temp_start + 1
      /\ NTemps \in Nat /\ NTemps >= 1
      /\ temp_next \in Temps /\ temp_next \in Nat
      /\ temp_start <= temp_next /\ temp_next <= temp_max
  BY TempAssumption, BoundAssumption DEF IInv, TypeOK, Temps, NTemps
<1>2. /\ count \in Nat
      /\ regs \in [Temps -> 0 .. MaxAllocs]
      /\ operands \in Seq(Operand)
      /\ Depth \in Nat
      /\ m \in Nat /\ m <= Depth
      /\ \A i \in 1 .. Depth : /\ operands[i] \in Operand
                               /\ operands[i].reg \in Temps
                               /\ operands[i].reg \in Nat
                               /\ operands[i].at \in Nat
                               /\ operands[i].size \in Nat
                               /\ operands[i].at <= count
  <2>1. /\ operands \in Seq(Operand) /\ count \in Nat
        /\ regs \in [Temps -> 0 .. MaxAllocs]
    BY <1>1 DEF IInv, TypeOK
  <2>2. Depth \in Nat /\ \A i \in 1 .. Depth : operands[i] \in Operand
    BY <2>1 DEF Depth
  <2>3. ASSUME NEW i \in 1 .. Depth
        PROVE  /\ operands[i].reg \in Temps
               /\ operands[i].reg \in Nat
               /\ operands[i].at \in Nat
               /\ operands[i].size \in Nat
    BY <1>1, <2>2 DEF Operand, Temps
  <2> QED
    BY <2>1, <2>2, <2>3 DEF IInv
<1>3. /\ kept \in Seq(Operand)
      /\ Len(kept) = m
      /\ \A i \in 1 .. m : kept[i] = operands[i]
  BY <1>2 DEF Depth
<1>4. /\ count' = count + 1
      /\ count + 1 <= MaxAllocs
      /\ regs' = [regs EXCEPT ![temp_next] = count + 1]
      /\ operands' = Append(kept, new)
      /\ temp_next' = IF temp_next + 1 > temp_max THEN temp_start ELSE temp_next + 1
  BY <1>1, <1>2, <1>3 DEF PutInTemp, Room, NewTempRegister
<1>5. size <= count + 1
  BY <1>2, <1>4
<1>6. /\ new \in Operand
      /\ new.at = count + 1 /\ new.reg = temp_next /\ new.size = size
  BY <1>1, <1>2, <1>4, <1>5 DEF Operand
<1> HIDE DEF new, kept
<1>7. /\ operands' \in Seq(Operand)
      /\ Depth' = m + 1
      /\ operands'[m + 1] = new
      /\ \A i \in 1 .. m : operands'[i] = operands[i]
  BY <1>2, <1>3, <1>4, <1>6 DEF Depth
<1>8. TypeOK'
  BY <1>1, <1>2, <1>4, <1>7 DEF TypeOK, Temps
<1>14. /\ count \in Nat /\ count' = count + 1
       /\ temp_next \in Temps
       /\ \A r \in Temps :
            regs'[r] = IF r = temp_next THEN count + 1 ELSE regs[r]
  BY <1>1, <1>2, <1>4
<1>9. \A r \in Temps : regs'[r] <= count'
  <2>1. \A r \in Temps : regs[r] \in Nat /\ regs[r] <= count
    BY <1>1, <1>2 DEF IInv
  <2> QED
    BY <2>1, <1>2, <1>4
<1>10. ASSUME NEW i \in 1 .. m
       PROVE  /\ operands'[i].at <= count'
              /\ Placed(operands[i])'
  <2> DEFINE o == operands[i]
  <2>1. i \in 1 .. Depth /\ operands'[i] = o
    BY <1>2, <1>7
  <2>2. /\ o.reg \in Temps /\ o.at \in Nat /\ o.at <= count
        /\ regs[o.reg] \in Nat
        /\ Stands(regs[o.reg], temp_next, count - o.at, o.reg, o.at)
    BY <2>1, <1>1, <1>2 DEF IInv, Placed
  <2> HIDE DEF o
  <2>3. Stands(IF o.reg = temp_next THEN count + 1 ELSE regs[o.reg],
               temp_next', (count - o.at) + 1, o.reg, o.at)
    <3>1. /\ count - o.at \in Nat
          /\ o.at + (count - o.at) + 1 = count + 1
      BY <2>2, <1>2
    <3> QED
      BY <2>2, <3>1, <1>1, <1>4, RoundRobin
  <2>4. /\ regs'[o.reg] = IF o.reg = temp_next THEN count + 1 ELSE regs[o.reg]
        /\ count' - o.at = (count - o.at) + 1
        /\ o.at <= count'
    BY <2>2, <1>14
  <2>5. Stands(regs'[o.reg], temp_next', count' - o.at, o.reg, o.at)
    BY <2>3, <2>4
  <2> QED
    BY <2>1, <2>4, <2>5 DEF Placed
<1>11. operands'[m + 1].at <= count' /\ Placed(operands[m + 1])'
  <2>1. /\ operands'[m + 1].at = count + 1
        /\ operands'[m + 1].reg = temp_next
        /\ count' - (count + 1) = 0
        /\ regs'[temp_next] = count + 1
    BY <1>6, <1>7, <1>14
  <2>2. Stands(count + 1, temp_next', 0, temp_next, count + 1)
    <3>1. /\ temp_next' = temp_next + 1 \/ temp_next' = temp_next + 1 - NTemps
          /\ NTemps >= 1
      BY <1>1, <1>4
    <3> QED
      BY <3>1, <1>1, <1>2 DEF Stands
  <2>3. Stands(regs'[operands'[m + 1].reg], temp_next',
               count' - operands'[m + 1].at, operands'[m + 1].reg,
               operands'[m + 1].at)
    BY <2>1, <2>2
  <2> QED
    BY <2>1, <2>3, <1>2, <1>4 DEF Placed
<1>12. SideBySide'
  <2>1. \A i \in 1 .. m : operands[i].size <= operands[i].at
    BY <1>2 DEF IInv, SideBySide
  <2>2. \A i \in 1 .. m : i < m => operands[i + 1].at = operands[i].at + operands[i + 1].size
    BY <1>2 DEF IInv, SideBySide
  <2>3. \A i \in 1 .. m + 1 : operands'[i].size <= operands'[i].at
    <3>1. operands'[m + 1].size <= operands'[m + 1].at
      BY <1>5, <1>6, <1>7
    <3> QED
      BY <2>1, <3>1, <1>2, <1>7
  <2>4. ASSUME NEW i \in 1 .. m + 1, i < m + 1
        PROVE  operands'[i + 1].at = operands'[i].at + operands'[i + 1].size
    <3>1. CASE i = m
      <4>1. m \in 1 .. m /\ m > 0
        BY <3>1, <1>2
      <4>2. operands'[i + 1] = new /\ operands'[i] = operands[m]
        BY <3>1, <4>1, <1>7
      <4> QED
        BY <4>1, <4>2, <1>6
    <3>2. CASE i < m
      <4>1. /\ i \in 1 .. m /\ i + 1 \in 1 .. m
            /\ operands'[i + 1] = operands[i + 1]
            /\ operands'[i] = operands[i]
        BY <3>2, <1>2, <1>7
      <4> QED
        BY <4>1, <3>2, <2>2
    <3> QED
      BY <2>4, <3>1, <3>2, <1>2
  <2>5. Depth' > 0 /\ operands'[m + 1].at = count'
    BY <1>2, <1>4, <1>6, <1>7
  <2> QED
    BY <2>3, <2>4, <2>5, <1>7 DEF SideBySide
<1>13. \A i \in 1 .. m + 1 : operands'[i].at <= count' /\ Placed(operands[i])'
  BY <1>2, <1>10, <1>11
<1> QED
  BY <1>7, <1>8, <1>9, <1>12, <1>13 DEF IInv

(* Every step keeps the invariant.                                         *)
LEMMA StepInv == IInv /\ [Next]_vars => IInv'
<1> SUFFICES ASSUME IInv, [Next]_vars  PROVE IInv'
  OBVIOUS
<1>1. /\ operands \in Seq(Operand)
      /\ Depth \in Nat
      /\ count \in Nat
      /\ \A i \in 1 .. Depth : /\ operands[i].at \in Nat
                               /\ operands[i].size \in Nat \ {0}
  <2>1. operands \in Seq(Operand) /\ count \in Nat
    BY BoundAssumption DEF IInv, TypeOK
  <2>2. Depth \in Nat /\ \A i \in 1 .. Depth : operands[i] \in Operand
    BY <2>1 DEF Depth
  <2> QED
    BY <2>1, <2>2, BoundAssumption DEF Operand
<1>2. CASE Leaf
  <2>1. SubSeq(operands, 1, Depth) = operands
    BY <1>1, SubSeqFull DEF Depth
  <2>2. Depth > 0 => operands[Depth].at = count
    BY DEF IInv, SideBySide
  <2>3. PutInTemp(SubSeq(operands, 1, Depth), 1)
    BY <1>2, <2>1 DEF Leaf
  <2> QED
    BY <1>1, <2>2, <2>3, PutInTempInv
<1>3. CASE Binop
  <2> DEFINE m == Depth - 2
             size == Left.size + Right.size + 1
  <2>1. Depth >= 2 /\ PutInTemp(SubSeq(operands, 1, m), size)
    BY <1>3 DEF Binop
  <2>2. /\ Left.at \in Nat /\ Left.size \in Nat \ {0} /\ Left.size <= Left.at
        /\ Right.size \in Nat \ {0}
        /\ Right.at = Left.at + Right.size
        /\ Right.at = count
    <3>1. Depth \in 1 .. Depth /\ Depth - 1 \in 1 .. Depth /\ Depth - 1 < Depth
          /\ (Depth - 1) + 1 = Depth
      BY <2>1, <1>1
    <3> DEFINE l == Depth - 1
    <3>2. l \in 1 .. Depth /\ l < Depth /\ l + 1 = Depth
      BY <3>1
    <3> HIDE DEF l
    <3>3. operands[l].size <= operands[l].at
      BY <3>2 DEF IInv, SideBySide
    <3>4. operands[Depth].at = operands[l].at + operands[Depth].size
      BY <3>2 DEF IInv, SideBySide
    <3>5. operands[Depth].at = count
      BY <3>1, <1>1, <2>1 DEF IInv, SideBySide
    <3>6. Left = operands[l] /\ Right = operands[Depth]
      BY DEF Left, Right, l
    <3> QED
      BY <3>1, <3>2, <3>3, <3>4, <3>5, <3>6, <1>1
  <2>3. m > 0 => operands[m].at + Left.size = Left.at /\ operands[m].at \in Nat
    <3>1. ASSUME m > 0
          PROVE  m \in 1 .. Depth /\ m < Depth /\ m + 1 = Depth - 1
      BY <3>1, <2>1, <1>1
    <3> QED
      BY <3>1, <1>1 DEF IInv, SideBySide, Left
  <2>4. /\ m \in 0 .. Depth
        /\ size \in Nat \ {0}
        /\ m = 0 => size <= count + 1
        /\ m > 0 => operands[m].at + size = count + 1
    <3> HIDE DEF m
    <3>1. size \in Nat \ {0} /\ size = Left.size + Right.size + 1
      BY <2>2
    <3>2. m \in 0 .. Depth
      BY <2>1, <1>1 DEF m
    <3>3. size <= count + 1
      BY <2>2
    <3>4. m > 0 => operands[m].at + size = count + 1
      <4>1. SUFFICES ASSUME m > 0  PROVE operands[m].at + size = count + 1
        OBVIOUS
      <4>2. /\ operands[m].at + Left.size = Left.at
            /\ operands[m].at \in Nat
        BY <2>3, <4>1
      <4> QED
        BY <4>2, <2>2
    <3> QED
      BY <3>1, <3>2, <3>3, <3>4
  <2> QED
    BY <2>1, <2>4, PutInTempInv
<1>4. CASE RootBinop
  <2>1. Depth' = 0 /\ operands' = << >>
    BY <1>4 DEF RootBinop, Depth
  <2> QED
    BY <1>4, <2>1 DEF RootBinop, IInv, TypeOK, SideBySide
<1>5. CASE NextStatement
  <2>1. /\ Depth' = 0 /\ operands' = << >>
        /\ count' = 0
        /\ temp_next' \in Temps
        /\ regs' = [r \in Temps |-> 0]
    BY <1>5, TempAssumption DEF NextStatement, Depth, Temps
  <2> QED
    BY <2>1, BoundAssumption DEF IInv, TypeOK, SideBySide
<1>6. CASE UNCHANGED vars
  BY <1>6 DEF vars, IInv, TypeOK, SideBySide, Placed, Depth
<1> QED
  BY <1>2, <1>3, <1>4, <1>5, <1>6 DEF Next

(* The invariant holds whatever statements are generated.                  *)
THEOREM Invariant == Spec => []IInv
<1>1. Init => IInv
  BY TempAssumption, BoundAssumption
     DEF Init, IInv, TypeOK, SideBySide, Depth, Temps
<1> QED
  BY <1>1, StepInv, PTL DEF Spec

(* The generator's registers and operands are well typed.                  *)
THEOREM TypeCorrect == Spec => []TypeOK
<1>1. IInv => TypeOK
  BY DEF IInv
<1> QED
  BY <1>1, Invariant, PTL

(* A temporary keeps its value for exactly NTemps - 1 further allocations. *)
THEOREM LifetimeIsExact == Spec => []LifetimeOfTemp
<1>1. IInv => LifetimeOfTemp
  <2> SUFFICES ASSUME IInv, NEW i \in DOMAIN operands
               PROVE  Intact(operands[i]) <=> count - operands[i].at < NTemps
    BY DEF LifetimeOfTemp
  <2>1. /\ i \in 1 .. Depth /\ operands[i] \in Operand
        /\ count \in Nat /\ regs \in [Temps -> 0 .. MaxAllocs]
    BY BoundAssumption DEF IInv, TypeOK, Depth
  <2>2. /\ operands[i].at \in Nat
        /\ regs[operands[i].reg] \in Nat
        /\ NTemps \in Nat
    BY <2>1, BoundAssumption, TempAssumption DEF Operand, NTemps
  <2>3. Placed(operands[i])
    BY <2>1 DEF IInv
  <2> QED
    BY <2>1, <2>2, <2>3 DEF Placed, Stands, Intact
<1> QED
  BY <1>1, Invariant, PTL

(* The class of expressions that are computed correctly.                   *)
THEOREM ReadsAreExact == Spec => []ReadsWhatItComputed
<1>1. IInv => ReadsWhatItComputed
  <2> SUFFICES ASSUME IInv, Depth >= 2
               PROVE  /\ Intact(Right)
                      /\ Intact(Left) <=> Right.size < NTemps
    BY DEF ReadsWhatItComputed
  <2>1. /\ operands \in Seq(Operand) /\ Depth \in Nat /\ count \in Nat
        /\ DOMAIN operands = 1 .. Depth
        /\ regs \in [Temps -> 0 .. MaxAllocs]
        /\ NTemps \in Nat /\ NTemps >= 1
    BY BoundAssumption, TempAssumption DEF IInv, TypeOK, Depth, NTemps
  <2>2. /\ Depth \in 1 .. Depth /\ Depth - 1 \in 1 .. Depth /\ Depth - 1 < Depth
        /\ (Depth - 1) + 1 = Depth
    BY <2>1
  <2>3. /\ Right \in Operand /\ Left \in Operand
        /\ Placed(Right) /\ Placed(Left)
        /\ Right.at = count
        /\ Right.at = Left.at + Right.size
    BY <2>1, <2>2 DEF IInv, SideBySide, Left, Right
  <2>4. /\ Left.at \in Nat /\ Right.at \in Nat /\ Right.size \in Nat
        /\ regs[Left.reg] \in Nat /\ regs[Right.reg] \in Nat
    BY <2>1, <2>3, BoundAssumption DEF Operand
  <2> QED
    BY <2>1, <2>3, <2>4 DEF Placed, Stands, Intact
<1> QED
  BY <1>1, Invariant, PTL

=============================================================================
