-------------------------- MODULE InterpreterProofs --------------------------
(***************************************************************************)
(* Proofs about the interpreter, and about the program that is interpreted *)
(* and executed, for all sets of names, literals and numbers, all widths   *)
(* and capacities and programs of any length.                              *)
(***************************************************************************)
EXTENDS Execution, SequenceTheorems, FiniteSetTheorems, TLAPS

(***************************************************************************)
(* The array by itself: no name is in it twice.                            *)
(***************************************************************************)
Array(s) ==
  /\ s \in [vars : Seq(Variables), var_capacity : Nat]
  /\ Len(s.vars) <= s.var_capacity
  /\ \A i, j \in DOMAIN s.vars : s.vars[i].name = s.vars[j].name => i = j

(* A variable that is no string holds an int; only a ch is a string.       *)
Numbers(s) ==
  \A i \in DOMAIN s.vars : ~s.vars[i].is_string => s.vars[i].value.val \in Signed(INT_HALF)

Typed(s, d) == \A i \in DOMAIN s.vars : s.vars[i].is_string => d[s.vars[i].name] = "ch"

(* The owners among the variables and the strings on the heap, one to one. *)
Owner(s, i) == i \in DOMAIN s.vars /\ OwnsString(s.vars[i])

OwnedAmong(s, h, I) ==
  /\ \A i \in I :
       Owner(s, i) => s.vars[i].value.as = "str" /\ s.vars[i].value.val \in DOMAIN h
  /\ \A a \in DOMAIN h : \E i \in I : Owner(s, i) /\ s.vars[i].value.val = a
  /\ \A i, j \in I :
       Owner(s, i) /\ Owner(s, j) /\ s.vars[i].value = s.vars[j].value => i = j

Owned(s, h) == OwnedAmong(s, h, DOMAIN s.vars)

(* The array, the types the program declared and the heap fit together.    *)
Sound(s, d, h) == Array(s) /\ Numbers(s) /\ Typed(s, d) /\ Owned(s, h)

(***************************************************************************)
(* Helpers.                                                                *)
(***************************************************************************)

(* With no name twice, the variable that is found is the only match.       *)
LEMMA Found ==
  ASSUME NEW s, Array(s), NEW n, NEW i \in DOMAIN s.vars, s.vars[i].name = n
  PROVE  /\ FindVariable(s, n) = i
         /\ Variable(s, n) = s.vars[i]
         /\ Matching(s, n) # {}
         /\ FindOrAdd(s, n) = s
<1>1. DOMAIN s.vars = 1 .. Len(s.vars) /\ Len(s.vars) \in Nat
  BY DEF Array
<1>2. Matching(s, n) = {i}
  BY DEF Array, Matching
<1>3. i <= i
  BY <1>1
<1>4. FindVariable(s, n) = i
  BY <1>2, <1>3 DEF FindVariable
<1> QED BY <1>2, <1>4 DEF Variable, FindOrAdd

(* Adding a variable for a name that is not there yet.                     *)
LEMMA Added ==
  ASSUME NEW s, Array(s), NEW n \in Ident, Matching(s, n) = {}
  PROVE  LET t == AddVariable(s, n)
             k == Len(s.vars) + 1
         IN /\ FindOrAdd(s, n) = t
            /\ Array(t)
            /\ DOMAIN t.vars = DOMAIN s.vars \cup {k}
            /\ k \notin DOMAIN s.vars
            /\ t.vars[k] = NewVariable(n)
            /\ \A i \in DOMAIN s.vars : t.vars[i] = s.vars[i]
<1> DEFINE t == AddVariable(s, n)
           k == Len(s.vars) + 1
<1>1. /\ s.vars \in Seq(Variables) /\ s.var_capacity \in Nat
      /\ Len(s.vars) \in Nat /\ DOMAIN s.vars = 1 .. Len(s.vars)
      /\ Len(s.vars) <= s.var_capacity
  BY DEF Array
<1>2. NewVariable(n) \in Variables
  BY DEF NewVariable, Variables, AsInt
<1>3. t.vars = Append(s.vars, NewVariable(n))
  BY DEF AddVariable
<1>4. /\ t.vars \in Seq(Variables) /\ Len(t.vars) = k
      /\ DOMAIN t.vars = 1 .. k
      /\ t.vars[k] = NewVariable(n)
      /\ \A i \in 1 .. Len(s.vars) : t.vars[i] = s.vars[i]
  BY <1>1, <1>2, <1>3
<1>5. /\ t \in [vars : Seq(Variables), var_capacity : Nat]
      /\ Len(t.vars) <= t.var_capacity
  <2>1. INITIAL_CAPACITY \in Nat \ {0}
    BY InterpreterAssumption
  <2>2. /\ t.var_capacity \in Nat
        /\ k <= t.var_capacity
    BY <1>1, <2>1 DEF AddVariable, Grown
  <2>3. t = [vars |-> t.vars, var_capacity |-> t.var_capacity]
    BY DEF AddVariable
  <2> HIDE DEF t
  <2> QED BY <1>4, <2>2, <2>3
<1>6. \A i \in DOMAIN s.vars : s.vars[i].name # n
  BY DEF Matching
<1>7. t.vars[k].name = n
  BY <1>4 DEF NewVariable
<1>8. \A i, j \in DOMAIN t.vars : t.vars[i].name = t.vars[j].name => i = j
  <2> SUFFICES ASSUME NEW i \in 1 .. k, NEW j \in 1 .. k, t.vars[i].name = t.vars[j].name
               PROVE  i = j
    BY <1>4
  <2> HIDE DEF t
  <2>1. \A a, b \in 1 .. Len(s.vars) : s.vars[a].name = s.vars[b].name => a = b
    BY <1>1 DEF Array
  <2>2. CASE i = k /\ j = k
    BY <2>2
  <2>3. CASE i # k /\ j = k
    <3>1. i \in 1 .. Len(s.vars)
      BY <1>1, <2>3
    <3> QED BY <3>1, <1>1, <1>4, <1>6, <1>7, <2>3
  <2>4. CASE i = k /\ j # k
    <3>1. j \in 1 .. Len(s.vars)
      BY <1>1, <2>4
    <3> QED BY <3>1, <1>1, <1>4, <1>6, <1>7, <2>4
  <2>5. CASE i # k /\ j # k
    <3>1. i \in 1 .. Len(s.vars) /\ j \in 1 .. Len(s.vars)
      BY <1>1, <2>5
    <3> QED BY <3>1, <1>4, <2>1
  <2> QED BY <2>2, <2>3, <2>4, <2>5
<1>9. /\ DOMAIN t.vars = DOMAIN s.vars \cup {k}
      /\ k \notin DOMAIN s.vars
  BY <1>1, <1>4
<1>10. Array(t)
  BY <1>5, <1>8 DEF Array
<1>11. FindOrAdd(s, n) = t
  BY DEF FindOrAdd
<1> QED BY <1>1, <1>4, <1>9, <1>10, <1>11

(* Looking a variable up, or adding it, changes nothing that was there.    *)
LEMMA FoundOrAdded ==
  ASSUME NEW s, NEW d, NEW h, Sound(s, d, h), NEW n \in Ident
  PROVE  LET t == FindOrAdd(s, n) IN
           /\ Sound(t, d, h)
           /\ FindVariable(t, n) \in DOMAIN t.vars
           /\ t.vars[FindVariable(t, n)].name = n
           /\ Variable(t, n) = t.vars[FindVariable(t, n)]
           /\ DOMAIN s.vars \subseteq DOMAIN t.vars
           /\ \A i \in DOMAIN s.vars : t.vars[i] = s.vars[i]
           /\ Len(s.vars) <= Len(t.vars)
<1> DEFINE t == FindOrAdd(s, n)
<1> USE DEF Sound
<1>1. CASE Matching(s, n) # {}
  <2>1. PICK i \in DOMAIN s.vars : s.vars[i].name = n
    BY <1>1 DEF Matching
  <2>2. t = s
    BY <2>1, Found
  <2>3. FindVariable(s, n) = i /\ Variable(s, n) = s.vars[i]
    BY <2>1, Found
  <2>4. Len(s.vars) \in Nat
    BY DEF Array
  <2> QED BY <2>1, <2>2, <2>3, <2>4
<1>2. CASE Matching(s, n) = {}
  <2> DEFINE k == Len(s.vars) + 1
  <2>1. /\ Array(t)
        /\ DOMAIN t.vars = DOMAIN s.vars \cup {k}
        /\ k \notin DOMAIN s.vars
        /\ t.vars[k] = NewVariable(n)
        /\ \A i \in DOMAIN s.vars : t.vars[i] = s.vars[i]
    BY <1>2, Added
  <2> HIDE DEF t, k
  <2>2. /\ t.vars[k].name = n
        /\ ~t.vars[k].is_string
        /\ t.vars[k].value.val = 0
    BY <2>1 DEF NewVariable, AsInt
  <2>3. FindVariable(t, n) = k /\ Variable(t, n) = t.vars[k]
    BY <2>1, <2>2, Found
  <2>4. Numbers(t)
    <3>1. 0 \in Signed(INT_HALF)
      BY InterpreterAssumption DEF Signed
    <3> QED BY <2>1, <2>2, <3>1 DEF Numbers
  <2>5. Typed(t, d)
    BY <2>1, <2>2 DEF Typed
  <2>6. \A i \in DOMAIN t.vars : Owner(t, i) => Owner(s, i)
    BY <2>1, <2>2 DEF Owner, OwnsString
  <2>7. \A i \in DOMAIN s.vars : Owner(t, i) <=> Owner(s, i)
    BY <2>1 DEF Owner
  <2>8. \A i \in DOMAIN t.vars : Owner(t, i) => i \in DOMAIN s.vars
    BY <2>6 DEF Owner
  <2>9. Owned(t, h)
    BY <2>1, <2>6, <2>7, <2>8 DEF Owned, OwnedAmong
  <2>10. Len(s.vars) <= Len(t.vars)
    <3>1. /\ Len(s.vars) \in Nat /\ DOMAIN t.vars = 1 .. Len(t.vars) /\ Len(t.vars) \in Nat
      BY <2>1 DEF Array
    <3>2. k \in 1 .. Len(t.vars)
      BY <2>1, <3>1
    <3> QED BY <3>1, <3>2 DEF k
  <2> QED BY <2>1, <2>2, <2>3, <2>4, <2>5, <2>9, <2>10 DEF t
<1> QED BY <1>1, <1>2

(* Writing one variable and leaving its name alone.                        *)
LEMMA Changed ==
  ASSUME NEW s, Array(s), NEW i \in DOMAIN s.vars,
         NEW v \in Variables, v.name = s.vars[i].name
  PROVE  LET t == With(s, i, v) IN
           /\ Array(t)
           /\ DOMAIN t.vars = DOMAIN s.vars
           /\ Len(t.vars) = Len(s.vars)
           /\ t.var_capacity = s.var_capacity
           /\ t.vars[i] = v
           /\ \A j \in DOMAIN s.vars \ {i} : t.vars[j] = s.vars[j]
           /\ \A j \in DOMAIN s.vars : t.vars[j].name = s.vars[j].name
<1> DEFINE t == With(s, i, v)
<1>1. s \in [vars : Seq(Variables), var_capacity : Nat]
  BY DEF Array
<1>2. /\ s.vars \in Seq(Variables) /\ s.var_capacity \in Nat
      /\ DOMAIN s.vars = 1 .. Len(s.vars) /\ Len(s.vars) \in Nat
  BY <1>1
<1>3. t = [vars |-> [s.vars EXCEPT ![i] = v], var_capacity |-> s.var_capacity]
  BY <1>1 DEF With
<1>4. t.vars = [s.vars EXCEPT ![i] = v] /\ t.var_capacity = s.var_capacity
  BY <1>3
<1>5. /\ t.vars \in Seq(Variables) /\ Len(t.vars) = Len(s.vars)
      /\ DOMAIN t.vars = DOMAIN s.vars
  BY <1>2, <1>4
<1>6. /\ t.vars[i] = v
      /\ \A j \in DOMAIN s.vars \ {i} : t.vars[j] = s.vars[j]
  BY <1>2, <1>4
<1>7. \A j \in DOMAIN s.vars : t.vars[j].name = s.vars[j].name
  BY <1>6
<1>8. t \in [vars : Seq(Variables), var_capacity : Nat]
  BY <1>2, <1>3, <1>4, <1>5
<1> HIDE DEF t
<1>9. Array(t)
  BY <1>4, <1>5, <1>7, <1>8 DEF Array
<1> QED BY <1>4, <1>5, <1>6, <1>7, <1>9 DEF t

(***************************************************************************)
(* The heap.                                                               *)
(***************************************************************************)

(* There is an address for the next string.                                *)
LEMMA FreeAddress ==
  ASSUME NEW h, NEW k \in Nat, DOMAIN h \subseteq 1 .. k
  PROVE  Address(h) \in 1 .. k + 1 /\ Address(h) \notin DOMAIN h
<1> DEFINE c == Cardinality(DOMAIN h)
<1>1. IsFiniteSet(1 .. k) /\ Cardinality(1 .. k) = k
  <2>1. /\ IsFiniteSet(1 .. k)
        /\ Cardinality(1 .. k) = IF 1 > k THEN 0 ELSE k - 1 + 1
    BY FS_Interval
  <2> QED BY <2>1
<1>2. IsFiniteSet(DOMAIN h) /\ c \in Nat /\ c <= k
  BY <1>1, FS_Subset, FS_CardinalityType
<1> HIDE DEF c
<1>3. IsFiniteSet(1 .. c + 1) /\ Cardinality(1 .. c + 1) = c + 1
  <2>1. /\ IsFiniteSet(1 .. c + 1)
        /\ Cardinality(1 .. c + 1) = IF 1 > c + 1 THEN 0 ELSE c + 1 - 1 + 1
    BY <1>2, FS_Interval
  <2> QED BY <1>2, <2>1
<1>4. ~(1 .. c + 1 \subseteq DOMAIN h)
  <2>1. SUFFICES ASSUME 1 .. c + 1 \subseteq DOMAIN h PROVE FALSE
    OBVIOUS
  <2>2. Cardinality(1 .. c + 1) <= c
    BY <1>2, <2>1, FS_Subset DEF c
  <2> QED BY <1>2, <1>3, <2>2
<1>5. \E a \in 1 .. c + 1 : a \notin DOMAIN h
  BY <1>4
<1>6. Address(h) \in 1 .. c + 1 /\ Address(h) \notin DOMAIN h
  BY <1>5 DEF Address, c
<1> QED BY <1>2, <1>6

(* A variable without a string is nobody's owner.                          *)
LEMMA OthersOwn ==
  ASSUME NEW s, NEW h, Owned(s, h), NEW i \in DOMAIN s.vars, ~Owner(s, i)
  PROVE  OwnedAmong(s, h, DOMAIN s.vars \ {i})
BY DEF Owned, OwnedAmong

(* Freeing a variable's string leaves the others theirs.                   *)
LEMMA OthersKeep ==
  ASSUME NEW s, NEW h, Owned(s, h), NEW i \in DOMAIN s.vars, Owner(s, i), Array(s)
  PROVE  OwnedAmong(s, Free(h, {s.vars[i].value.val}), DOMAIN s.vars \ {i})
<1> DEFINE g == Free(h, {s.vars[i].value.val})
           others == DOMAIN s.vars \ {i}
<1>1. DOMAIN g = DOMAIN h \ {s.vars[i].value.val}
  BY DEF Free
<1> HIDE DEF g
<1>2. \A j \in DOMAIN s.vars : Owner(s, j) =>
         s.vars[j].value.as = "str" /\ s.vars[j].value.val \in DOMAIN h
  BY DEF Owned, OwnedAmong
<1>3. \A j \in DOMAIN s.vars : s.vars[j].value \in [as : {"int", "str"}, val : Int]
  <2>1. \A j \in DOMAIN s.vars : s.vars[j] \in Variables
    BY DEF Array
  <2> QED BY <2>1 DEF Variables
<1>4. \A j \in others : Owner(s, j) => s.vars[j].value.val # s.vars[i].value.val
  <2>1. SUFFICES ASSUME NEW j \in others, Owner(s, j),
                        s.vars[j].value.val = s.vars[i].value.val
                 PROVE  FALSE
    OBVIOUS
  <2>2. s.vars[j].value = s.vars[i].value
    BY <1>2, <1>3, <2>1
  <2> QED BY <2>1, <2>2 DEF Owned, OwnedAmong
<1>5. \A j \in others : Owner(s, j) =>
         s.vars[j].value.as = "str" /\ s.vars[j].value.val \in DOMAIN g
  BY <1>1, <1>2, <1>4
<1>6. \A a \in DOMAIN g : \E j \in others : Owner(s, j) /\ s.vars[j].value.val = a
  BY <1>1 DEF Owned, OwnedAmong
<1>7. \A j, l \in others :
         Owner(s, j) /\ Owner(s, l) /\ s.vars[j].value = s.vars[l].value => j = l
  BY DEF Owned, OwnedAmong
<1> QED BY <1>5, <1>6, <1>7 DEF OwnedAmong, g

(* Writing an int, or nothing, to a variable that owns no string.          *)
LEMMA OthersSuffice ==
  ASSUME NEW s, NEW t, NEW h, NEW i \in DOMAIN s.vars,
         OwnedAmong(s, h, DOMAIN s.vars \ {i}),
         DOMAIN t.vars = DOMAIN s.vars, ~Owner(t, i),
         \A j \in DOMAIN s.vars \ {i} : t.vars[j] = s.vars[j]
  PROVE  Owned(t, h)
<1>1. \A j \in DOMAIN s.vars \ {i} : Owner(t, j) <=> Owner(s, j)
  BY DEF Owner
<1> QED BY <1>1 DEF Owned, OwnedAmong

(* Variable i can be given a string: the others own all there is on the    *)
(* heap, which holds literals at addresses up to k.                        *)
Texts(h, k) == DOMAIN h \subseteq 1 .. k /\ \A a \in DOMAIN h : h[a] \in Literal

Receptive(s, i, d, h, k) ==
  /\ Array(s) /\ Numbers(s) /\ i \in DOMAIN s.vars
  /\ OwnedAmong(s, h, DOMAIN s.vars \ {i}) /\ Texts(h, k)
  /\ d[s.vars[i].name] = "ch"
  /\ \A j \in DOMAIN s.vars \ {i} : s.vars[j].is_string => d[s.vars[j].name] = "ch"

LEMMA GivenString ==
  ASSUME NEW s, NEW i, NEW d, NEW h, NEW k \in Nat, Receptive(s, i, d, h, k),
         NEW n \in Ident, s.vars[i].name = n, NEW l \in Literal
  PROVE  LET t == Given(s, n, Address(h))
             g == Strdup(h, l)
         IN /\ Sound(t, d, g)
            /\ DOMAIN t.vars = DOMAIN s.vars
            /\ \A j \in DOMAIN s.vars : t.vars[j].name = s.vars[j].name
            /\ Texts(g, k + 1)
<1> DEFINE a0 == Address(h)
           v == [s.vars[i] EXCEPT !.value = AsStr(a0), !.initialized = TRUE,
                                  !.is_string = TRUE]
           t == With(s, i, v)
           g == Strdup(h, l)
           others == DOMAIN s.vars \ {i}
<1> USE DEF Receptive, Texts
<1>1. a0 \in 1 .. k + 1 /\ a0 \notin DOMAIN h
  BY FreeAddress
<1>2. FindVariable(s, n) = i /\ Variable(s, n) = s.vars[i]
  BY Found
<1>3. Given(s, n, a0) = t
  BY <1>2 DEF Given
<1>4. s.vars[i] \in Variables
  BY DEF Array
<1>5. /\ v \in Variables /\ v.name = s.vars[i].name
      /\ v.is_string /\ v.initialized
      /\ v.value.as = "str" /\ v.value.val = a0
  <2>1. a0 \in Int
    BY <1>1
  <2> HIDE DEF a0
  <2>2. AsStr(a0) \in [as : {"int", "str"}, val : Int]
    BY <2>1 DEF AsStr
  <2>3. AsStr(a0).as = "str" /\ AsStr(a0).val = a0
    BY DEF AsStr
  <2> QED BY <1>4, <2>2, <2>3 DEF Variables
<1>6. DOMAIN g = DOMAIN h \cup {a0} /\ \A a \in DOMAIN g : g[a] \in Literal
  BY <1>1 DEF Strdup
<1> HIDE DEF v, g, a0
<1>7. /\ Array(t)
      /\ DOMAIN t.vars = DOMAIN s.vars
      /\ t.vars[i] = v
      /\ \A j \in others : t.vars[j] = s.vars[j]
      /\ \A j \in DOMAIN s.vars : t.vars[j].name = s.vars[j].name
  BY <1>5, Changed
<1> HIDE DEF t
<1>8. Owner(t, i)
  BY <1>5, <1>7 DEF Owner, OwnsString
<1>9. \A j \in others : Owner(t, j) <=> Owner(s, j)
  BY <1>7 DEF Owner
<1>10. /\ \A j \in others : Owner(s, j) =>
            s.vars[j].value.as = "str" /\ s.vars[j].value.val \in DOMAIN h
       /\ \A a \in DOMAIN h : \E j \in others : Owner(s, j) /\ s.vars[j].value.val = a
       /\ \A j, m \in others :
            Owner(s, j) /\ Owner(s, m) /\ s.vars[j].value = s.vars[m].value => j = m
  BY DEF OwnedAmong
<1>11. Owned(t, g)
  <2>1. \A j \in DOMAIN t.vars :
           Owner(t, j) => t.vars[j].value.as = "str" /\ t.vars[j].value.val \in DOMAIN g
    BY <1>5, <1>6, <1>7, <1>9, <1>10
  <2>2. \A a \in DOMAIN g : \E j \in DOMAIN t.vars : Owner(t, j) /\ t.vars[j].value.val = a
    BY <1>5, <1>6, <1>7, <1>8, <1>9, <1>10
  <2>3. \A j \in others : Owner(t, j) => t.vars[j].value # t.vars[i].value
    BY <1>1, <1>5, <1>7, <1>9, <1>10
  <2>4. \A j, m \in DOMAIN t.vars :
           Owner(t, j) /\ Owner(t, m) /\ t.vars[j].value = t.vars[m].value => j = m
    BY <1>7, <1>9, <1>10, <2>3
  <2> QED BY <2>1, <2>2, <2>4 DEF Owned, OwnedAmong
<1>12. Numbers(t)
  BY <1>5, <1>7 DEF Numbers
<1>13. Typed(t, d)
  BY <1>5, <1>7 DEF Typed
<1>14. DOMAIN g \subseteq 1 .. k + 1
  BY <1>1, <1>6
<1> QED BY <1>3, <1>6, <1>7, <1>11, <1>12, <1>13, <1>14 DEF a0, g, Sound

AgreeBut(name, d, e) == \A n \in Ident : n # name => e[n] = d[n]

(* A number, or nothing, is written to a variable that has no string.      *)
LEMMA Rewritten ==
  ASSUME NEW s, NEW d, NEW h, Sound(s, d, h), NEW e,
         NEW i \in DOMAIN s.vars, d[s.vars[i].name] # "ch",
         NEW v \in Variables, v.name = s.vars[i].name, ~v.is_string,
         v.value.val \in Signed(INT_HALF),
         AgreeBut(s.vars[i].name, d, e)
  PROVE  LET t == With(s, i, v) IN
           /\ Sound(t, e, h)
           /\ DOMAIN t.vars = DOMAIN s.vars
           /\ t.var_capacity = s.var_capacity
           /\ \A j \in DOMAIN s.vars : t.vars[j].name = s.vars[j].name
<1> DEFINE t == With(s, i, v)
<1> USE DEF Sound
<1>1. /\ Array(t)
      /\ DOMAIN t.vars = DOMAIN s.vars
      /\ t.var_capacity = s.var_capacity
      /\ t.vars[i] = v
      /\ \A j \in DOMAIN s.vars \ {i} : t.vars[j] = s.vars[j]
      /\ \A j \in DOMAIN s.vars : t.vars[j].name = s.vars[j].name
  BY Changed
<1> HIDE DEF t
<1>2. ~s.vars[i].is_string
  BY DEF Typed
<1>3. ~Owner(s, i) /\ ~Owner(t, i)
  BY <1>1, <1>2 DEF Owner, OwnsString
<1>4. Owned(t, h)
  BY <1>1, <1>3, OthersOwn, OthersSuffice
<1>5. Numbers(t)
  BY <1>1 DEF Numbers
<1>6. \A j \in DOMAIN s.vars \ {i} :
         s.vars[j].name \in Ident /\ s.vars[j].name # s.vars[i].name
  <2>1. \A j \in DOMAIN s.vars : s.vars[j] \in Variables
    BY DEF Array
  <2>2. \A j \in DOMAIN s.vars : s.vars[j].name \in Ident
    BY <2>1 DEF Variables
  <2> QED BY <2>2 DEF Array
<1>7. Typed(t, e)
  BY <1>1, <1>6 DEF Typed, AgreeBut
<1> QED BY <1>1, <1>4, <1>5, <1>7 DEF t

(***************************************************************************)
(* Arithmetic.                                                             *)
(***************************************************************************)

LEMMA WrapRange ==
  ASSUME NEW half \in Nat \ {0}, NEW n \in Int
  PROVE  Wrap(half, n) \in Signed(half)
<1> DEFINE m == 2 * half
           r == (n + half) % m
<1>1. m \in Nat \ {0} /\ n + half \in Int
  OBVIOUS
<1> HIDE DEF m
<1>2. r \in 0 .. m - 1
  BY <1>1
<1> HIDE DEF r
<1>3. r - half \in (-half) .. (half - 1)
  BY <1>2 DEF m
<1> QED BY <1>3 DEF Wrap, Signed, r, m

LEMMA QuotientInt ==
  ASSUME NEW a \in Int, NEW b \in Int, b # 0
  PROVE  Quotient(a, b) \in Int
<1>1. Abs(a) \in Nat /\ Abs(b) \in Nat \ {0}
  BY DEF Abs
<1> HIDE DEF Abs
<1>2. Abs(a) \div Abs(b) \in Int
  BY <1>1
<1> QED BY <1>2 DEF Quotient

(* The values of operations are ints.                                      *)
LEMMA BinopRange ==
  ASSUME NEW op \in {"+", "-", "*", "/"}, NEW l \in Signed(INT_HALF), NEW r \in Signed(INT_HALF)
  PROVE  Binop(op, l, r) \in Signed(INT_HALF)
<1>1. l \in Int /\ r \in Int /\ INT_HALF \in Nat \ {0}
  BY InterpreterAssumption DEF Signed
<1>2. 0 \in Signed(INT_HALF)
  BY <1>1 DEF Signed
<1>3. CASE op = "/" /\ r = 0
  BY <1>2, <1>3 DEF Binop
<1>4. CASE ~(op = "/" /\ r = 0)
  <2>1. op = "/" => Quotient(l, r) \in Int
    BY <1>1, <1>4, QuotientInt
  <2>2. l + r \in Int /\ l - r \in Int /\ l * r \in Int
    BY <1>1
  <2>3. Operation(op, l, r) \in Int
    BY <2>1, <2>2 DEF Operation
  <2>4. Wrap(INT_HALF, Operation(op, l, r)) \in Signed(INT_HALF)
    BY <1>1, <2>3, WrapRange
  <2> QED BY <1>4, <2>4 DEF Binop
<1> QED BY <1>3, <1>4

(* The quotient that is no int would be the smallest int again.            *)
LEMMA TrapValue ==
  ASSUME NEW op, NEW l, NEW r, Traps(op, l, r)
  PROVE  Binop(op, l, r) = -INT_HALF
<1>1. op = "/" /\ l = -INT_HALF /\ r = -1
  BY DEF Traps
<1>2. INT_HALF \in Nat /\ INT_HALF > 0
  BY InterpreterAssumption
<1>3. Abs(l) = INT_HALF /\ Abs(r) = 1
  <2>1. \A x \in Nat : x > 0 => Abs(-x) = x
    BY DEF Abs
  <2>2. Abs(-INT_HALF) = INT_HALF
    BY <1>2, <2>1
  <2>3. Abs(-1) = 1
    BY <2>1
  <2> QED BY <1>1, <2>2, <2>3
<1>4. Quotient(l, r) = INT_HALF
  <2>1. INT_HALF \div 1 = INT_HALF
    BY <1>2
  <2>2. (l < 0) /\ (r < 0)
    BY <1>1, <1>2
  <2> QED BY <1>3, <2>1, <2>2 DEF Quotient
<1>5. (INT_HALF + INT_HALF) % (2 * INT_HALF) = 0
  <2> DEFINE m == 2 * INT_HALF
  <2>1. m \in Nat /\ m > 0 /\ INT_HALF + INT_HALF = m
    BY <1>2
  <2> HIDE DEF m
  <2>2. m % m = 0
    BY <2>1
  <2> QED BY <2>1, <2>2 DEF m
<1>6. Wrap(INT_HALF, INT_HALF) = -INT_HALF
  BY <1>2, <1>5 DEF Wrap
<1>7. Operation(op, l, r) = INT_HALF
  BY <1>1, <1>4 DEF Operation
<1> QED BY <1>1, <1>6, <1>7 DEF Binop

(***************************************************************************)
(* The inductive invariant.                                                *)
(***************************************************************************)
StatementSet ==
  [kind : Kinds, name : Ident \cup {"nothing"},
   last : {"nothing", "STR", "ID", "expression"}]

Nodes == [type : {"num", "id", "binop"}, val : Signed(INT_HALF)]

Control ==
  /\ mode \in {"run", "done", "crashed"} /\ items \in 0 .. MaxItems
  /\ declared \in [Ident -> {"none", "int", "ch"}]
  /\ stmt \in StatementSet

Operands == stack \in Seq(Nodes)

(* Each item puts at most one string on the heap, at the first free        *)
(* address, so that no address is beyond the number of items.              *)
Strings == Texts(heap, items)

Speech == said.count \in 0 .. items /\ PartOK(said.part)

Memory == Sound(state, declared, heap)

(* What was declared is in the array, so that an operand, which the front  *)
(* end has checked for its declaration, never makes the array grow.        *)
Population ==
  /\ mode = "run" =>
       \A n \in Ident : declared[n] # "none" =>
         \E i \in DOMAIN state.vars : state.vars[i].name = n
  /\ mode = "done" => DOMAIN state.vars = {}

Open(s) == s.kind \in {"decl", "assign"}

Holding ==
  IF Open(stmt)
  THEN /\ Live(held) /\ held.index \in DOMAIN state.vars
       /\ stmt.name \in Ident /\ state.vars[held.index].name = stmt.name
       /\ declared[stmt.name] # "ch" /\ stmt.last = "nothing"
  ELSE held = NULL

Buffer ==
  /\ output \in Captures /\ written \in [bytes : Nat, clipped : BOOLEAN]
  /\ CaptureIsWhole

IInv ==
  /\ Control /\ Operands /\ Strings /\ Speech
  /\ Memory /\ Population /\ Holding
  /\ Buffer /\ CrashesOnlyOnTrap

(***************************************************************************)
(* What it implies.                                                        *)
(***************************************************************************)
LEMMA Implied ==
  ASSUME IInv
  PROVE  /\ TypeOK /\ HeldIsLive /\ StringsOwned /\ CaptureIsWhole
         /\ CrashesOnlyOnTrap
<1>1. /\ state.vars \in Seq(Variables) /\ state.var_capacity \in Nat
      /\ Len(state.vars) <= state.var_capacity
      /\ DOMAIN state.vars = 1 .. Len(state.vars) /\ Len(state.vars) \in Nat
  BY DEF IInv, Memory, Sound, Array
<1>2. held.index \in 0 .. Len(state.vars)
  BY <1>1 DEF IInv, Holding, NULL
<1>3. items \in 0 .. MaxItems /\ MaxItems \in Nat
  BY InterpreterAssumption DEF IInv, Control
<1>4. DOMAIN heap \subseteq 1 .. MaxItems /\ said.count \in 0 .. MaxItems
  BY <1>3 DEF IInv, Strings, Texts, Speech
<1>5. TypeOK
  BY <1>1, <1>2, <1>3, <1>4
     DEF IInv, Control, StatementSet, Operands, Nodes, Strings, Texts, Speech, Buffer, TypeOK
<1>6. HeldIsLive
  BY DEF IInv, Holding, Open, HeldIsLive
<1>7. StringsOwned
  <2> DEFINE owners == {i \in DOMAIN state.vars : OwnsString(state.vars[i])}
  <2>1. Owned(state, heap)
    BY DEF IInv, Memory, Sound
  <2>2. \A i \in DOMAIN state.vars : Owner(state, i) <=> i \in owners
    BY DEF Owner
  <2>3. DOMAIN heap = {state.vars[i].value.val : i \in owners}
    <3> HIDE DEF owners
    <3>1. owners \subseteq DOMAIN state.vars
      BY DEF owners
    <3>2. \A i \in owners : state.vars[i].value.val \in DOMAIN heap
      BY <2>1, <2>2, <3>1 DEF Owned, OwnedAmong
    <3>3. \A b \in DOMAIN heap : \E i \in owners : state.vars[i].value.val = b
      BY <2>1, <2>2, <3>1 DEF Owned, OwnedAmong
    <3> QED BY <3>2, <3>3
  <2>4. \A i, j \in owners : state.vars[i].value = state.vars[j].value => i = j
    BY <2>1, <2>2 DEF Owned, OwnedAmong
  <2>5. mode = "done" => DOMAIN heap = {}
    BY <2>3 DEF IInv, Population
  <2> QED BY <2>3, <2>4, <2>5 DEF StringsOwned
<1> QED BY <1>5, <1>6, <1>7 DEF IInv, Buffer

(***************************************************************************)
(* It holds initially.                                                     *)
(***************************************************************************)
LEMMA InitInv ==
  ASSUME Init
  PROVE  IInv
<1>1. /\ INITIAL_CAPACITY \in Nat /\ MaxItems \in Nat
  BY InterpreterAssumption
<1>2. Control
  BY <1>1 DEF Init, Control, StatementSet, NoStatement, Kinds
<1>3. Operands /\ Strings
  BY DEF Init, Operands, Strings, Texts
<1>4. Speech
  BY DEF Init, Speech, PartOK, NewlinePart
<1>5. Memory
  <2>1. /\ state = [vars |-> << >>, var_capacity |-> INITIAL_CAPACITY]
        /\ heap = << >>
    BY DEF Init
  <2>2. /\ DOMAIN state.vars = {} /\ DOMAIN heap = {}
        /\ state.vars \in Seq(Variables) /\ Len(state.vars) = 0
    BY <2>1
  <2>3. Array(state)
    BY <1>1, <2>1, <2>2 DEF Array
  <2>4. Numbers(state) /\ Typed(state, declared) /\ Owned(state, heap)
    BY <2>2 DEF Numbers, Typed, Owned, OwnedAmong
  <2> QED BY <2>3, <2>4 DEF Memory, Sound
<1>6. Population /\ Holding
  BY DEF Init, Population, Holding, Open, NoStatement
<1>7. Buffer
  <2>1. CAPACITY \in Nat /\ CAPACITY > 0
    BY CaptureAssumption
  <2>2. /\ output = [capacity |-> CAPACITY, size |-> 0]
        /\ written = [bytes |-> 0, clipped |-> FALSE]
    BY DEF Init, CaptureInit
  <2> QED BY <2>1, <2>2 DEF Buffer, Captures, CaptureIsWhole
<1>8. CrashesOnlyOnTrap
  BY DEF Init, CrashesOnlyOnTrap
<1> QED BY <1>2, <1>3, <1>4, <1>5, <1>6, <1>7, <1>8 DEF IInv

(***************************************************************************)
(* Parts that many actions have in common.                                 *)
(***************************************************************************)

(* An item more.                                                           *)
LEMMA Advance ==
  ASSUME IInv, NEW next \in StatementSet, NEW below \in Seq(Nodes), Item(next, below)
  PROVE  /\ mode = "run" /\ stmt' = next
         /\ items \in Nat /\ items' = items + 1 /\ items' \in 0 .. MaxItems
         /\ UNCHANGED heap => Strings'
         /\ UNCHANGED said => Speech'
<1>1. Len(below) \in Nat
  OBVIOUS
<1>2. next.kind \in Kinds
  BY DEF StatementSet
<1>3. Rest(next.kind, below) \in Nat
  BY <1>1, <1>2 DEF Rest, Kinds
<1>4. items \in 0 .. MaxItems /\ MaxItems \in Nat
  BY InterpreterAssumption DEF IInv, Control
<1>5. /\ mode = "run" /\ stmt' = next /\ items' = items + 1
      /\ items + 1 + Rest(next.kind, below) <= MaxItems
  BY DEF Item
<1>6. items' \in 0 .. MaxItems
  BY <1>3, <1>4, <1>5
<1>7. UNCHANGED heap => Strings'
  BY <1>4, <1>5 DEF IInv, Strings, Texts
<1>8. UNCHANGED said => Speech'
  BY <1>4, <1>5 DEF IInv, Speech
<1> QED BY <1>4, <1>5, <1>6, <1>7, <1>8

(* Actions that leave the variables and the heap alone.                    *)
LEMMA MemoryKept ==
  ASSUME IInv, UNCHANGED <<declared, memory>>, mode = "run", mode' # "done",
         UNCHANGED stmt \/ (~Open(stmt) /\ ~Open(stmt'))
  PROVE  Memory' /\ Population' /\ Holding'
<1>1. state' = state /\ heap' = heap /\ held' = held /\ declared' = declared
  BY DEF memory
<1>2. Memory'
  BY <1>1 DEF IInv, Memory, Sound
<1>3. Population'
  BY <1>1 DEF IInv, Population
<1>4. Holding'
  BY <1>1 DEF IInv, Holding, Open, Live
<1> QED BY <1>2, <1>3, <1>4

(* Actions that print nothing.                                             *)
LEMMA BufferKept ==
  ASSUME IInv, UNCHANGED printing, mode = "run"
  PROVE  Buffer' /\ UNCHANGED said
BY DEF IInv, Buffer, CaptureIsWhole, printing

(* A part is printed: the buffer has room for it.                          *)
LEMMA Captured ==
  ASSUME IInv, mode = "run", NEW part, PartOK(part), CapturePart(part), items' = items + 1
  PROVE  Buffer' /\ Speech'
<1>1. Length(part) \in Nat
  BY InterpreterAssumption DEF PartOK, NewlinePart, Length
<1>2. PRINTF_MAX \in Nat /\ PRINTF_MAX > 0
  BY CaptureAssumption
<1>3. /\ output.size \in Nat /\ output.capacity \in Nat
      /\ output.size < output.capacity
      /\ output.size <= written.bytes
      /\ ~written.clipped => output.size = written.bytes
      /\ written.bytes \in Nat /\ written.clipped \in BOOLEAN
  BY DEF IInv, Buffer, Captures, CaptureIsWhole
<1> DEFINE len == IF Clips(Length(part)) THEN PRINTF_MAX - 1 ELSE Length(part)
<1>4. /\ len \in Nat /\ len <= Length(part)
      /\ ~Clips(Length(part)) => len = Length(part)
  BY <1>1, <1>2 DEF Clips
<1>5. output' = CaptureWrite(output, len)
  BY DEF CapturePart, CapturePrintf
<1>6. /\ written' \in [bytes : Nat, clipped : BOOLEAN]
      /\ written'.bytes = written.bytes + Length(part)
      /\ written'.clipped = (written.clipped \/ Clips(Length(part)))
  BY <1>1, <1>3 DEF CapturePart, Clips
<1> HIDE DEF len
<1>7. /\ output' \in Captures /\ output'.size = output.size + len
      /\ output'.size < output'.capacity
  BY <1>3, <1>4, <1>5 DEF CaptureWrite, Captures
<1>8. Buffer'
  BY <1>1, <1>3, <1>4, <1>6, <1>7 DEF Buffer, CaptureIsWhole
<1>9. Speech'
  <2>1. said' = [part |-> part, count |-> said.count + 1]
    BY DEF CapturePart
  <2>2. said.count \in 0 .. items /\ items \in Nat
    BY DEF IInv, Speech, Control
  <2> QED BY <2>1, <2>2 DEF Speech
<1> QED BY <1>8, <1>9

(***************************************************************************)
(* Declarations and assignments.                                           *)
(***************************************************************************)

LEMMA DeclareInv ==
  ASSUME IInv, NEW n \in Ident, NEW type \in {"int", "ch"}, Declare(n, type)
  PROVE  IInv'
<1> DEFINE t == FindOrAdd(state, n)
           i == FindVariable(t, n)
           v == [Variable(t, n) EXCEPT !.initialized = FALSE, !.value = AsInt(0)]
<1>1. NoStatement \in StatementSet /\ << >> \in Seq(Nodes) /\ ~Open(NoStatement)
  BY DEF NoStatement, StatementSet, Kinds, Open
<1>2. /\ Item(NoStatement, << >>) /\ stmt.kind = "none" /\ declared[n] = "none"
      /\ declared' = [declared EXCEPT ![n] = type]
      /\ state' = With(t, i, v)
      /\ mode' = mode /\ held' = held /\ heap' = heap /\ stack' = stack
      /\ UNCHANGED printing
  BY DEF Declare
<1>3. /\ mode = "run" /\ stmt' = NoStatement /\ items' \in 0 .. MaxItems
      /\ Strings' /\ Buffer' /\ Speech'
  <2>1. Buffer' /\ UNCHANGED said /\ mode = "run"
    BY <1>1, <1>2, Advance, BufferKept
  <2> QED BY <1>1, <1>2, <2>1, Advance
<1>4. Control' /\ Operands' /\ CrashesOnlyOnTrap'
  BY <1>1, <1>2, <1>3 DEF IInv, Control, Operands, CrashesOnlyOnTrap
<1>5. /\ Sound(state, declared, heap)
      /\ declared \in [Ident -> {"none", "int", "ch"}]
  BY DEF IInv, Memory, Control
<1>6. /\ Sound(t, declared, heap)
      /\ i \in DOMAIN t.vars /\ t.vars[i].name = n
      /\ Variable(t, n) = t.vars[i]
      /\ DOMAIN state.vars \subseteq DOMAIN t.vars
      /\ \A j \in DOMAIN state.vars : t.vars[j] = state.vars[j]
  BY <1>5, FoundOrAdded
<1> HIDE DEF t, i
<1>7. /\ v \in Variables /\ v.name = n /\ ~v.is_string
      /\ v.value.val \in Signed(INT_HALF)
  <2>1. t.vars[i] \in Variables
    BY <1>6 DEF Array, Sound
  <2>2. ~t.vars[i].is_string
    BY <1>2, <1>6 DEF Typed, Sound
  <2>3. 0 \in Signed(INT_HALF)
    BY InterpreterAssumption DEF Signed
  <2>4. AsInt(0) \in [as : {"int", "str"}, val : Int] /\ AsInt(0).val = 0
    BY DEF AsInt
  <2>5. v = [t.vars[i] EXCEPT !.initialized = FALSE, !.value = AsInt(0)]
    BY <1>6
  <2> HIDE DEF v
  <2> QED BY <1>6, <2>1, <2>2, <2>3, <2>4, <2>5 DEF Variables
<1> HIDE DEF v
<1>8. /\ Sound(state', declared', heap)
      /\ DOMAIN state'.vars = DOMAIN t.vars
      /\ \A j \in DOMAIN t.vars : state'.vars[j].name = t.vars[j].name
  <2>1. AgreeBut(t.vars[i].name, declared, declared')
    BY <1>2, <1>5, <1>6 DEF AgreeBut
  <2>2. declared[t.vars[i].name] # "ch" /\ v.name = t.vars[i].name
    BY <1>2, <1>6, <1>7
  <2> DEFINE u == With(t, i, v)
  <2>3. /\ Sound(u, declared', heap)
        /\ DOMAIN u.vars = DOMAIN t.vars
        /\ \A j \in DOMAIN t.vars : u.vars[j].name = t.vars[j].name
    BY <1>6, <1>7, <2>1, <2>2, Rewritten
  <2> QED BY <1>2, <2>3
<1>9. Memory'
  BY <1>2, <1>8 DEF Memory, Sound
<1>10. Population'
  <2>1. ASSUME NEW m \in Ident, declared'[m] # "none"
        PROVE  \E j \in DOMAIN state'.vars : state'.vars[j].name = m
    <3>1. CASE m = n
      BY <1>6, <1>8, <3>1
    <3>2. CASE m # n
      <4>1. declared[m] # "none"
        BY <1>2, <1>5, <2>1, <3>2
      <4>2. PICK j \in DOMAIN state.vars : state.vars[j].name = m
        BY <1>3, <4>1 DEF IInv, Population
      <4> QED BY <1>6, <1>8, <4>2
    <3> QED BY <3>1, <3>2
  <2> QED BY <1>2, <1>3, <2>1 DEF Population
<1>11. Holding'
  BY <1>1, <1>2, <1>3 DEF IInv, Holding, Open
<1> QED BY <1>3, <1>4, <1>9, <1>10, <1>11 DEF IInv

LEMMA TargetInv ==
  ASSUME IInv, NEW n \in Ident, NEW kind \in {"decl", "assign"}, Target(kind, n)
  PROVE  IInv'
<1> DEFINE t == FindOrAdd(state, n)
           i == FindVariable(t, n)
<1>1. /\ Opening(kind, n) \in StatementSet /\ << >> \in Seq(Nodes)
      /\ Open(Opening(kind, n)) /\ Opening(kind, n).name = n
      /\ Opening(kind, n).last = "nothing"
  BY DEF Opening, StatementSet, Kinds, Open
<1>2. /\ Item(Opening(kind, n), << >>) /\ declared[n] \in {"none", "int"}
      /\ declared' = declared /\ state' = t
      /\ held' = [index |-> i, block |-> t.var_capacity]
      /\ mode' = mode /\ heap' = heap /\ stack' = stack
      /\ UNCHANGED printing
  BY DEF Target, PointerTo
<1>3. /\ mode = "run" /\ stmt' = Opening(kind, n) /\ items' \in 0 .. MaxItems
      /\ Strings' /\ Buffer' /\ Speech'
  <2>1. Buffer' /\ UNCHANGED said /\ mode = "run"
    BY <1>1, <1>2, Advance, BufferKept
  <2> QED BY <1>1, <1>2, <2>1, Advance
<1>4. Control' /\ Operands' /\ CrashesOnlyOnTrap'
  BY <1>1, <1>2, <1>3 DEF IInv, Control, Operands, CrashesOnlyOnTrap
<1>5. /\ Sound(state, declared, heap)
  BY DEF IInv, Memory, Sound
<1>6. /\ Sound(t, declared, heap)
      /\ i \in DOMAIN t.vars /\ t.vars[i].name = n
      /\ DOMAIN state.vars \subseteq DOMAIN t.vars
      /\ \A j \in DOMAIN state.vars : t.vars[j] = state.vars[j]
  BY <1>5, FoundOrAdded
<1> HIDE DEF t, i
<1>7. Memory'
  BY <1>2, <1>6 DEF Memory, Sound
<1>8. Population'
  BY <1>2, <1>3, <1>6 DEF IInv, Population
<1>9. Holding'
  BY <1>1, <1>2, <1>3, <1>6 DEF Holding, Live
<1> QED BY <1>3, <1>4, <1>7, <1>8, <1>9 DEF IInv

LEMMA StoreInv ==
  ASSUME IInv, Store
  PROVE  IInv'
<1> DEFINE i == held.index
           v == [state.vars[i] EXCEPT !.value = AsInt(stack[1].val),
                   !.initialized = TRUE, !.is_string = FALSE]
<1>1. NoStatement \in StatementSet /\ << >> \in Seq(Nodes) /\ ~Open(NoStatement)
  BY DEF NoStatement, StatementSet, Kinds, Open
<1>2. /\ i \in DOMAIN state.vars /\ Live(held) /\ stmt.name \in Ident
      /\ state.vars[i].name = stmt.name /\ declared[stmt.name] # "ch"
  BY DEF Store, IInv, Holding, Open
<1>3. /\ Item(NoStatement, << >>) /\ Len(stack) = 1
      /\ declared' = [declared EXCEPT ![stmt.name] = "int"]
      /\ state' = With(state, i, v)
      /\ mode' = "run" /\ held' = NULL /\ heap' = heap /\ stack' = << >>
      /\ UNCHANGED printing
  BY <1>2 DEF Store, Risking
<1>4. /\ mode = "run" /\ stmt' = NoStatement /\ items' \in 0 .. MaxItems
      /\ Strings' /\ Buffer' /\ Speech'
  <2>1. Buffer' /\ UNCHANGED said /\ mode = "run"
    BY <1>1, <1>3, Advance, BufferKept
  <2> QED BY <1>1, <1>3, <2>1, Advance
<1>5. Control' /\ Operands' /\ CrashesOnlyOnTrap'
  BY <1>1, <1>3, <1>4 DEF IInv, Control, Operands, CrashesOnlyOnTrap
<1>6. /\ Sound(state, declared, heap)
      /\ declared \in [Ident -> {"none", "int", "ch"}]
  BY DEF IInv, Memory, Control
<1>7. stack[1].val \in Signed(INT_HALF) /\ stack[1].val \in Int
  <2>1. stack[1] \in Nodes
    BY <1>3 DEF IInv, Operands
  <2> QED BY <2>1 DEF Nodes, Signed
<1> HIDE DEF i
<1>8. /\ v \in Variables /\ v.name = stmt.name /\ ~v.is_string
      /\ v.value.val \in Signed(INT_HALF)
  <2>1. state.vars[i] \in Variables
    BY <1>2, <1>6 DEF Array, Sound
  <2> QED BY <1>2, <1>7, <2>1 DEF Variables, AsInt
<1> HIDE DEF v
<1>9. /\ Sound(state', declared', heap)
      /\ DOMAIN state'.vars = DOMAIN state.vars
      /\ \A j \in DOMAIN state.vars : state'.vars[j].name = state.vars[j].name
  <2>1. AgreeBut(state.vars[i].name, declared, declared')
    BY <1>2, <1>3, <1>6 DEF AgreeBut
  <2>2. /\ declared[state.vars[i].name] # "ch" /\ v.name = state.vars[i].name
        /\ i \in DOMAIN state.vars
    BY <1>2, <1>8 DEF i
  <2> DEFINE u == With(state, i, v)
  <2>3. /\ Sound(u, declared', heap)
        /\ DOMAIN u.vars = DOMAIN state.vars
        /\ \A j \in DOMAIN state.vars : u.vars[j].name = state.vars[j].name
    BY <1>6, <1>8, <2>1, <2>2, Rewritten
  <2> QED BY <1>3, <2>3
<1>10. Memory'
  BY <1>3, <1>9 DEF Memory, Sound
<1>11. Population'
  <2>1. ASSUME NEW m \in Ident, declared'[m] # "none"
        PROVE  \E j \in DOMAIN state'.vars : state'.vars[j].name = m
    <3>1. CASE m = stmt.name
      BY <1>2, <1>9, <3>1
    <3>2. CASE m # stmt.name
      <4>1. declared[m] # "none"
        BY <1>3, <1>6, <2>1, <3>2
      <4>2. PICK j \in DOMAIN state.vars : state.vars[j].name = m
        BY <1>4, <4>1 DEF IInv, Population
      <4> QED BY <1>9, <4>2
    <3> QED BY <3>1, <3>2
  <2> QED BY <1>3, <2>1 DEF Population
<1>12. Holding'
  BY <1>1, <1>3, <1>4 DEF Holding
<1> QED BY <1>4, <1>5, <1>10, <1>11, <1>12 DEF IInv

(* The text a variable is given is the only thing on the heap that is new. *)
LEMMA DeclareStringInv ==
  ASSUME IInv, NEW n \in Ident, NEW l \in Literal, DeclareString(n, l)
  PROVE  IInv'
<1> DEFINE t == FindOrAdd(state, n)
           i == FindVariable(t, n)
<1>1. NoStatement \in StatementSet /\ << >> \in Seq(Nodes) /\ ~Open(NoStatement)
  BY DEF NoStatement, StatementSet, Kinds, Open
<1>2. /\ Item(NoStatement, << >>) /\ stmt.kind = "none" /\ declared[n] = "none"
      /\ declared' = [declared EXCEPT ![n] = "ch"]
      /\ state' = Given(t, n, Address(heap)) /\ heap' = Strdup(heap, l)
      /\ mode' = mode /\ held' = held /\ stack' = stack
      /\ UNCHANGED printing
  BY DEF DeclareString
<1>3. /\ mode = "run" /\ stmt' = NoStatement /\ items' \in 0 .. MaxItems
      /\ items \in Nat /\ items' = items + 1
      /\ Buffer' /\ Speech'
  <2>1. Buffer' /\ UNCHANGED said /\ mode = "run"
    BY <1>1, <1>2, Advance, BufferKept
  <2> QED BY <1>1, <1>2, <2>1, Advance
<1>4. Control' /\ Operands' /\ CrashesOnlyOnTrap'
  BY <1>1, <1>2, <1>3 DEF IInv, Control, Operands, CrashesOnlyOnTrap
<1>5. /\ Sound(state, declared, heap)
      /\ declared \in [Ident -> {"none", "int", "ch"}]
      /\ Texts(heap, items)
  BY DEF IInv, Memory, Control, Strings, Texts
<1>6. /\ Sound(t, declared, heap)
      /\ i \in DOMAIN t.vars /\ t.vars[i].name = n
      /\ DOMAIN state.vars \subseteq DOMAIN t.vars
      /\ \A j \in DOMAIN state.vars : t.vars[j] = state.vars[j]
  BY <1>5, FoundOrAdded
<1> HIDE DEF t, i
<1>7. OwnedAmong(t, heap, DOMAIN t.vars \ {i})
  <2>1. ~t.vars[i].is_string
    BY <1>2, <1>6 DEF Sound, Typed
  <2>2. ~Owner(t, i)
    BY <2>1 DEF Owner, OwnsString
  <2> QED BY <1>6, <2>2, OthersOwn DEF Sound
<1>8. /\ Sound(state', declared', heap')
      /\ DOMAIN state'.vars = DOMAIN t.vars
      /\ \A j \in DOMAIN t.vars : state'.vars[j].name = t.vars[j].name
      /\ Texts(heap', items')
  <2>1. \A j \in DOMAIN t.vars : t.vars[j].name \in Ident
    <3>1. \A j \in DOMAIN t.vars : t.vars[j] \in Variables
      BY <1>6 DEF Sound, Array
    <3> QED BY <3>1 DEF Variables
  <2>2. \A j \in DOMAIN t.vars \ {i} :
           t.vars[j].is_string => declared'[t.vars[j].name] = "ch"
    BY <1>2, <1>5, <1>6, <2>1 DEF Sound, Typed
  <2>3. declared'[n] = "ch"
    BY <1>2, <1>5
  <2>4. Array(t) /\ Numbers(t)
    BY <1>6 DEF Sound
  <2>5. /\ Sound(Given(t, n, Address(heap)), declared', Strdup(heap, l))
        /\ DOMAIN Given(t, n, Address(heap)).vars = DOMAIN t.vars
        /\ \A j \in DOMAIN t.vars :
             Given(t, n, Address(heap)).vars[j].name = t.vars[j].name
        /\ Texts(Strdup(heap, l), items + 1)
    <3>1. Receptive(t, i, declared', heap, items)
      BY <1>5, <1>6, <1>7, <2>2, <2>3, <2>4 DEF Receptive
    <3> QED BY <1>3, <1>6, <3>1, GivenString
  <2> QED BY <1>2, <1>3, <2>5
<1>9. Memory' /\ Strings'
  BY <1>8 DEF Memory, Strings, Texts
<1>10. Population'
  <2>1. ASSUME NEW m \in Ident, declared'[m] # "none"
        PROVE  \E j \in DOMAIN state'.vars : state'.vars[j].name = m
    <3>1. CASE m = n
      BY <1>6, <1>8, <3>1
    <3>2. CASE m # n
      <4>1. declared[m] # "none"
        BY <1>2, <1>5, <2>1, <3>2
      <4>2. PICK j \in DOMAIN state.vars : state.vars[j].name = m
        BY <1>3, <4>1 DEF IInv, Population
      <4> QED BY <1>6, <1>8, <4>2
    <3> QED BY <3>1, <3>2
  <2> QED BY <1>2, <1>3, <2>1 DEF Population
<1>11. Holding'
  BY <1>1, <1>2, <1>3 DEF IInv, Holding, Open
<1> QED BY <1>3, <1>4, <1>9, <1>10, <1>11 DEF IInv

(* The old string is freed exactly when the variable owns one.             *)
LEMMA AssignStringInv ==
  ASSUME IInv, NEW n \in Ident, NEW l \in Literal, AssignString(n, l)
  PROVE  IInv'
<1> DEFINE t == FindOrAdd(state, n)
           i == FindVariable(t, n)
           old == Variable(t, n)
           kept == IF OwnsString(old) THEN Free(heap, {old.value.val}) ELSE heap
<1>1. NoStatement \in StatementSet /\ << >> \in Seq(Nodes) /\ ~Open(NoStatement)
  BY DEF NoStatement, StatementSet, Kinds, Open
<1>2. /\ Item(NoStatement, << >>) /\ stmt.kind = "none" /\ declared[n] = "ch"
      /\ declared' = declared
      /\ Risking(OwnsString(old) /\ Dangles(old))
      /\ state' = Given(t, n, Address(kept)) /\ heap' = Strdup(kept, l)
      /\ held' = held /\ stack' = stack
      /\ UNCHANGED printing
  BY DEF AssignString
<1>3. /\ mode = "run" /\ stmt' = NoStatement /\ items' \in 0 .. MaxItems
      /\ items \in Nat /\ items' = items + 1
      /\ Buffer' /\ Speech'
  <2>1. Buffer' /\ UNCHANGED said /\ mode = "run"
    BY <1>1, <1>2, Advance, BufferKept
  <2> QED BY <1>1, <1>2, <2>1, Advance
<1>4. /\ Sound(state, declared, heap)
      /\ Texts(heap, items)
  BY DEF IInv, Memory, Strings, Texts
<1>5. /\ Sound(t, declared, heap)
      /\ i \in DOMAIN t.vars /\ t.vars[i].name = n
      /\ old = t.vars[i]
      /\ DOMAIN state.vars \subseteq DOMAIN t.vars
      /\ \A j \in DOMAIN state.vars : t.vars[j] = state.vars[j]
  BY <1>4, FoundOrAdded
<1> HIDE DEF t, i, old
<1>6. OwnsString(old) <=> Owner(t, i)
  BY <1>5 DEF Owner
<1>7. mode' = "run"
  <2>1. ~(OwnsString(old) /\ Dangles(old))
    BY <1>5, <1>6 DEF Sound, Owned, OwnedAmong, Dangles
  <2> QED BY <1>2, <2>1 DEF Risking
<1>8. /\ OwnedAmong(t, kept, DOMAIN t.vars \ {i})
      /\ Texts(kept, items)
  <2>1. CASE Owner(t, i)
    <3>1. kept = Free(heap, {t.vars[i].value.val})
      BY <1>5, <1>6, <2>1
    <3>2. OwnedAmong(t, kept, DOMAIN t.vars \ {i})
      BY <1>5, <2>1, <3>1, OthersKeep DEF Sound
    <3> QED BY <1>4, <3>1, <3>2 DEF Free, Texts
  <2>2. CASE ~Owner(t, i)
    <3>1. kept = heap
      BY <1>6, <2>2
    <3> QED BY <1>4, <1>5, <2>2, <3>1, OthersOwn DEF Sound
  <2> QED BY <2>1, <2>2
<1> HIDE DEF kept
<1>9. /\ Sound(state', declared', heap')
      /\ DOMAIN state'.vars = DOMAIN t.vars
      /\ \A j \in DOMAIN t.vars : state'.vars[j].name = t.vars[j].name
      /\ Texts(heap', items')
  <2>1. \A j \in DOMAIN t.vars \ {i} :
           t.vars[j].is_string => declared[t.vars[j].name] = "ch"
    BY <1>5 DEF Sound, Typed
  <2>2. Array(t) /\ Numbers(t)
    BY <1>5 DEF Sound
  <2>3. /\ Sound(Given(t, n, Address(kept)), declared, Strdup(kept, l))
        /\ DOMAIN Given(t, n, Address(kept)).vars = DOMAIN t.vars
        /\ \A j \in DOMAIN t.vars :
             Given(t, n, Address(kept)).vars[j].name = t.vars[j].name
        /\ Texts(Strdup(kept, l), items + 1)
    <3>1. Receptive(t, i, declared, kept, items)
      BY <1>2, <1>5, <1>8, <2>1, <2>2 DEF Receptive
    <3> QED BY <1>3, <1>5, <3>1, GivenString
  <2> QED BY <1>2, <1>3, <2>3
<1>10. Control' /\ Operands' /\ CrashesOnlyOnTrap'
  BY <1>1, <1>2, <1>3, <1>7 DEF IInv, Control, Operands, CrashesOnlyOnTrap
<1>11. Memory' /\ Strings'
  BY <1>9 DEF Memory, Strings, Texts
<1>12. Population'
  BY <1>2, <1>3, <1>5, <1>7, <1>9 DEF IInv, Population
<1>13. Holding'
  BY <1>1, <1>2, <1>3 DEF IInv, Holding, Open
<1> QED BY <1>3, <1>10, <1>11, <1>12, <1>13 DEF IInv

(***************************************************************************)
(* Expressions.                                                            *)
(***************************************************************************)

(* A node is evaluated; the process dies of it only at the trap.           *)
LEMMA NodeInv ==
  ASSUME IInv, NEW below \in Seq(Nodes), NEW node \in Nodes, Push(below, node),
         UNCHANGED <<declared, memory, printing>>, mode' \in {"run", "crashed"},
         mode' = "crashed" => node = Evaluated("binop", -INT_HALF)
  PROVE  IInv'
<1>1. /\ Append(below, node) \in Seq(Nodes) /\ stmt \in StatementSet
      /\ Append(below, node) # << >>
      /\ Append(below, node)[Len(Append(below, node))] = node
  BY DEF IInv, Control
<1>2. Item(stmt, Append(below, node)) /\ stack' = Append(below, node)
  BY DEF Push
<1>3. mode = "run" /\ stmt' = stmt /\ items' \in 0 .. MaxItems
  BY <1>1, <1>2, Advance
<1>4. Buffer' /\ Speech' /\ Strings'
  <2>1. UNCHANGED printing /\ UNCHANGED heap
    BY DEF memory
  <2>2. Buffer' /\ UNCHANGED said
    BY <1>3, <2>1, BufferKept
  <2> QED BY <1>1, <1>2, <2>1, <2>2, Advance
<1>5. Memory' /\ Population' /\ Holding'
  BY <1>3, MemoryKept
<1>6. Control' /\ Operands'
  BY <1>1, <1>2, <1>3 DEF IInv, Control, Operands
<1>7. CrashesOnlyOnTrap'
  BY <1>1, <1>2 DEF CrashesOnlyOnTrap
<1> QED BY <1>4, <1>5, <1>6, <1>7 DEF IInv

LEMMA NumeralRange == Numeral \subseteq Signed(INT_HALF)
BY InterpreterAssumption DEF Numeral, Signed

LEMMA NumberNodeInv ==
  ASSUME IInv, NEW k \in Numeral, NumberNode(k)
  PROVE  IInv'
<1>1. stack \in Seq(Nodes) /\ mode = "run"
  BY DEF IInv, Operands, NumberNode, Push, Item
<1>2. Evaluated("num", k) \in Nodes
  BY NumeralRange DEF Evaluated, Nodes
<1> QED BY <1>1, <1>2, NodeInv DEF NumberNode

(* The identifier was declared, so it is in the array, which stays.        *)
LEMMA IdentifierInv ==
  ASSUME IInv, NEW n \in Ident, Identifier(n)
  PROVE  IInv'
<1>1. /\ stack \in Seq(Nodes) /\ mode = "run" /\ declared[n] # "none"
      /\ Sound(state, declared, heap)
  BY DEF IInv, Operands, Memory, Identifier, Push, Item
<1>2. PICK i \in DOMAIN state.vars : state.vars[i].name = n
  BY <1>1 DEF IInv, Population
<1>3. FindOrAdd(state, n) = state /\ Variable(state, n) = state.vars[i]
  BY <1>1, <1>2, Found DEF Sound
<1>4. GetIntValue(state.vars[i]) \in Signed(INT_HALF)
  <2>1. 0 \in Signed(INT_HALF)
    BY InterpreterAssumption DEF Signed
  <2>2. state.vars[i] \in Variables
    BY <1>1 DEF Sound, Array
  <2> QED BY <1>1, <2>1, <2>2 DEF Sound, Numbers, GetIntValue, Variables
<1>5. Evaluated("id", GetIntValue(state.vars[i])) \in Nodes
  BY <1>4 DEF Evaluated, Nodes
<1>6. /\ Push(stack, Evaluated("id", GetIntValue(state.vars[i])))
      /\ UNCHANGED <<declared, memory, printing>> /\ mode' = mode
  BY <1>3 DEF Identifier, memory
<1> QED BY <1>1, <1>5, <1>6, NodeInv

(* The operands below the ones that are taken.                             *)
LEMMA Below ==
  ASSUME NEW s \in Seq(Nodes), NEW k \in {1, 2}, Len(s) >= k
  PROVE  SubSeq(s, 1, Len(s) - k) \in Seq(Nodes)
<1>1. \A i \in 1 .. Len(s) - k : s[i] \in Nodes
  OBVIOUS
<1>2. Len(s) - k \in Int
  OBVIOUS
<1> QED BY <1>1, <1>2, SubSeqProperties

LEMMA OperateInv ==
  ASSUME IInv, NEW op \in {"+", "-", "*", "/"}, Operate(op)
  PROVE  IInv'
<1>1. stack \in Seq(Nodes) /\ Len(stack) >= 2
  BY DEF IInv, Operands, Operate
<1>2. LeftValue \in Signed(INT_HALF) /\ RightValue \in Signed(INT_HALF)
  <2>1. stack[Len(stack) - 1] \in Nodes /\ stack[Len(stack)] \in Nodes
    BY <1>1
  <2> QED BY <2>1 DEF LeftValue, RightValue, Nodes
<1> DEFINE v == Binop(op, LeftValue, RightValue)
<1>3. v \in Signed(INT_HALF)
  BY <1>2, BinopRange
<1>4. Traps(op, LeftValue, RightValue) => v = -INT_HALF
  BY TrapValue
<1>5. /\ Push(SubSeq(stack, 1, Len(stack) - 2), Evaluated("binop", v))
      /\ UNCHANGED <<declared, memory, printing>>
      /\ mode' = IF Traps(op, LeftValue, RightValue) THEN "crashed" ELSE "run"
  BY DEF Operate
<1> HIDE DEF v
<1>6. Evaluated("binop", v) \in Nodes
  BY <1>3 DEF Evaluated, Nodes
<1>7. SubSeq(stack, 1, Len(stack) - 2) \in Seq(Nodes)
  BY <1>1, Below
<1>8. mode' \in {"run", "crashed"}
  BY <1>5
<1>9. mode' = "crashed" => Evaluated("binop", v) = Evaluated("binop", -INT_HALF)
  BY <1>4, <1>5
<1> QED BY <1>5, <1>6, <1>7, <1>8, <1>9, NodeInv

(***************************************************************************)
(* Prints.                                                                 *)
(***************************************************************************)

(* A step of a print that says nothing, or one part.                       *)
LEMMA PrintStepInv ==
  ASSUME IInv, NEW next \in StatementSet, ~Open(next), ~Open(stmt), Item(next, << >>),
         UNCHANGED <<declared, memory>>, mode' = "run", stack' \in Seq(Nodes),
         UNCHANGED printing \/ \E part : PartOK(part) /\ CapturePart(part)
  PROVE  IInv'
<1>1. << >> \in Seq(Nodes)
  OBVIOUS
<1>2. mode = "run" /\ stmt' = next /\ items' = items + 1 /\ items' \in 0 .. MaxItems
  BY <1>1, Advance
<1>3. Buffer' /\ Speech'
  <2>1. CASE UNCHANGED printing
    <3>1. Buffer' /\ UNCHANGED said
      BY <1>2, <2>1, BufferKept
    <3> QED BY <1>1, <3>1, Advance
  <2>2. CASE \E part : PartOK(part) /\ CapturePart(part)
    BY <1>2, <2>2, Captured
  <2> QED BY <2>1, <2>2
<1>4. Strings'
  <2>1. UNCHANGED heap
    BY DEF memory
  <2> QED BY <1>1, <2>1, Advance
<1>5. Memory' /\ Population' /\ Holding'
  BY <1>2, MemoryKept
<1>6. Control' /\ Operands' /\ CrashesOnlyOnTrap'
  BY <1>2 DEF IInv, Control, Operands, CrashesOnlyOnTrap
<1> QED BY <1>3, <1>4, <1>5, <1>6 DEF IInv

LEMMA BeginPrintInv ==
  ASSUME IInv, BeginPrint
  PROVE  IInv'
<1>1. /\ Opening("print", "nothing") \in StatementSet /\ ~Open(Opening("print", "nothing"))
      /\ ~Open(stmt)
  BY DEF Opening, StatementSet, Kinds, Open, BeginPrint
<1>2. /\ Item(Opening("print", "nothing"), << >>) /\ mode = "run"
      /\ UNCHANGED <<mode, declared, memory, stack, printing>> /\ stack \in Seq(Nodes)
  BY DEF BeginPrint, Item, IInv, Operands
<1> QED BY <1>1, <1>2, PrintStepInv

(* The statement after a part.                                             *)
LEMMA PartStatement ==
  ASSUME NEW last \in {"STR", "ID", "expression"}, NEW n \in Ident \cup {"nothing"},
         Part(last, n)
  PROVE  \E next \in StatementSet : ~Open(next) /\ ~Open(stmt) /\ Item(next, << >>)
BY DEF Part, StatementSet, Kinds, Open

LEMMA PrintLiteralInv ==
  ASSUME IInv, NEW l \in Literal, PrintLiteral(l)
  PROVE  IInv'
<1>1. PICK next \in StatementSet : ~Open(next) /\ ~Open(stmt) /\ Item(next, << >>)
  BY PartStatement DEF PrintLiteral
<1>2. PartOK(StringPart(l))
  BY DEF PartOK, StringPart
<1>3. /\ CapturePart(StringPart(l)) /\ UNCHANGED <<declared, memory>>
      /\ mode' = "run" /\ stack' \in Seq(Nodes)
  BY <1>1 DEF PrintLiteral, Item, IInv, Operands
<1> QED BY <1>1, <1>2, <1>3, PrintStepInv

(* What a variable prints is never read through a dangling pointer.        *)
LEMMA PrintVariableInv ==
  ASSUME IInv, NEW n \in Ident, PrintVariable(n)
  PROVE  IInv'
<1> DEFINE var == Variable(state, n)
<1>1. PICK next \in StatementSet : ~Open(next) /\ ~Open(stmt) /\ Item(next, << >>)
  BY PartStatement DEF PrintVariable
<1>2. /\ mode = "run" /\ declared[n] # "none" /\ Sound(state, declared, heap)
      /\ Texts(heap, items)
  BY <1>1 DEF PrintVariable, Item, IInv, Memory, Strings
<1>3. PICK i \in DOMAIN state.vars : state.vars[i].name = n
  BY <1>2 DEF IInv, Population
<1>4. var = state.vars[i] /\ Matching(state, n) # {}
  BY <1>2, <1>3, Found DEF Sound
<1>5. var \in Variables /\ (~var.is_string => var.value.val \in Signed(INT_HALF))
  BY <1>2, <1>4 DEF Sound, Array, Numbers
<1>6. var.initialized /\ var.is_string => ~Dangles(var) /\ heap[var.value.val] \in Literal
  <2>1. Owner(state, i) =>
          state.vars[i].value.as = "str" /\ state.vars[i].value.val \in DOMAIN heap
    BY <1>2 DEF Sound, Owned, OwnedAmong
  <2>2. var.initialized /\ var.is_string => Owner(state, i)
    BY <1>4 DEF Owner, OwnsString
  <2> QED BY <1>2, <1>4, <2>1, <2>2 DEF Dangles, Texts
<1> HIDE DEF var
<1>7. /\ Risking((Matching(state, n) # {} /\ var.initialized) /\ var.is_string /\ Dangles(var))
      /\ CapturePart(CASE ~(Matching(state, n) # {} /\ var.initialized) -> IntPart(0)
           [] (Matching(state, n) # {} /\ var.initialized) /\ ~var.is_string -> IntPart(var.value.val)
           [] (Matching(state, n) # {} /\ var.initialized) /\ var.is_string /\ Dangles(var) -> StringPart(Garbage)
           [] OTHER -> StringPart(heap[var.value.val]))
      /\ UNCHANGED <<declared, memory, stack>>
  BY DEF PrintVariable, var
<1>8. var.initialized \in BOOLEAN /\ var.is_string \in BOOLEAN
  BY <1>5 DEF Variables
<1>9. \E part : PartOK(part) /\ CapturePart(part)
  <2>1. CASE ~var.initialized
    <3>1. CapturePart(IntPart(0))
      BY <1>4, <1>7, <1>8, <2>1
    <3>2. PartOK(IntPart(0))
      BY InterpreterAssumption DEF PartOK, IntPart, Signed
    <3> QED BY <3>1, <3>2
  <2>2. CASE var.initialized /\ ~var.is_string
    <3>1. CapturePart(IntPart(var.value.val))
      BY <1>4, <1>7, <1>8, <2>2
    <3>2. PartOK(IntPart(var.value.val))
      BY <1>5, <2>2 DEF PartOK, IntPart
    <3> QED BY <3>1, <3>2
  <2>3. CASE var.initialized /\ var.is_string
    <3>1. CapturePart(StringPart(heap[var.value.val]))
      BY <1>4, <1>6, <1>7, <1>8, <2>3
    <3>2. PartOK(StringPart(heap[var.value.val]))
      BY <1>6, <2>3 DEF PartOK, StringPart
    <3> QED BY <3>1, <3>2
  <2> QED BY <1>8, <2>1, <2>2, <2>3
<1>10. mode' = "run"
  BY <1>6, <1>7 DEF Risking
<1>11. stack' \in Seq(Nodes)
  BY <1>7 DEF IInv, Operands
<1> QED BY <1>1, <1>7, <1>9, <1>10, <1>11, PrintStepInv

LEMMA PrintExpressionInv ==
  ASSUME IInv, PrintExpression
  PROVE  IInv'
<1>1. PICK next \in StatementSet : ~Open(next) /\ ~Open(stmt) /\ Item(next, << >>)
  BY PartStatement DEF PrintExpression
<1>2. stack[1] \in Nodes
  BY DEF IInv, Operands, PrintExpression
<1>3. PartOK(IntPart(stack[1].val))
  BY <1>2 DEF PartOK, IntPart, Nodes
<1>4. /\ CapturePart(IntPart(stack[1].val)) /\ UNCHANGED <<declared, memory>>
      /\ mode' = "run" /\ stack' \in Seq(Nodes)
  BY <1>1 DEF PrintExpression, Item
<1> QED BY <1>1, <1>3, <1>4, PrintStepInv

LEMMA EndPrintInv ==
  ASSUME IInv, EndPrint
  PROVE  IInv'
<1>1. NoStatement \in StatementSet /\ ~Open(NoStatement)
  BY DEF NoStatement, StatementSet, Kinds, Open
<1>2. ~Open(stmt)
  BY DEF EndPrint, IInv, Holding
<1>3. /\ Item(NoStatement, << >>) /\ UNCHANGED <<declared, memory>>
      /\ mode' = "run" /\ stack' \in Seq(Nodes)
  BY DEF EndPrint, Item, IInv, Operands
<1>4. UNCHANGED printing \/ CapturePart(NewlinePart)
  BY DEF EndPrint
<1>5. PartOK(NewlinePart)
  BY DEF PartOK
<1> QED BY <1>1, <1>2, <1>3, <1>4, <1>5, PrintStepInv

(* Everything on the heap belongs to somebody and is freed.                *)
LEMMA ReturnInv ==
  ASSUME IInv, Return
  PROVE  IInv'
<1> DEFINE owners == {i \in DOMAIN state.vars : OwnsString(state.vars[i])}
           owned == {state.vars[i].value.val : i \in owners}
<1>1. Owned(state, heap) /\ mode = "run"
  BY DEF IInv, Memory, Sound, Return
<1>2. \A i \in owners : Owner(state, i) /\ i \in DOMAIN state.vars
  BY DEF Owner
<1>3. \A i \in owners : ~Dangles(state.vars[i])
  BY <1>1, <1>2 DEF Owned, OwnedAmong, Dangles
<1>4. DOMAIN heap \subseteq owned
  BY <1>1 DEF Owned, OwnedAmong, Owner
<1>5. /\ mode' = "done" /\ heap' = Free(heap, owned)
      /\ state' = [vars |-> << >>, var_capacity |-> 0] /\ output' = CaptureFree
      /\ UNCHANGED <<items, statement, held, stack, written, said>>
      /\ stmt.kind = "none"
  BY <1>3 DEF Return
<1> HIDE DEF owned, owners
<1>6. DOMAIN heap' = {}
  BY <1>4, <1>5 DEF Free
<1>7. /\ DOMAIN state'.vars = {} /\ state'.vars \in Seq(Variables) /\ Len(state'.vars) = 0
      /\ state'.var_capacity = 0 /\ state' \in [vars : Seq(Variables), var_capacity : Nat]
  BY <1>5
<1>8. Memory' /\ Population'
  <2>1. Array(state')
    BY <1>7 DEF Array
  <2>2. Numbers(state') /\ Typed(state', declared') /\ Owned(state', heap')
    BY <1>6, <1>7 DEF Numbers, Typed, Owned, OwnedAmong
  <2> QED BY <1>5, <1>7, <2>1, <2>2 DEF Memory, Sound, Population
<1>9. Strings'
  BY <1>6 DEF Strings, Texts
<1>10. Control' /\ Operands' /\ Speech' /\ CrashesOnlyOnTrap'
  BY <1>5 DEF IInv, Control, Operands, Speech, CrashesOnlyOnTrap, statement
<1>11. Holding'
  BY <1>5 DEF IInv, Holding, Open, statement
<1>12. Buffer'
  BY <1>5 DEF IInv, Buffer, CaptureFree, Captures, CaptureIsWhole
<1> QED BY <1>8, <1>9, <1>10, <1>11, <1>12 DEF IInv

LEMMA StutterInv ==
  ASSUME IInv, UNCHANGED vars
  PROVE  IInv'
<1> USE DEF vars, statement, memory, printing
<1>1. Control' /\ Operands' /\ Strings' /\ Speech'
  BY DEF IInv, Control, Operands, Strings, Texts, Speech
<1>2. Memory' /\ Population'
  BY DEF IInv, Memory, Population
<1>3. Holding'
  BY DEF IInv, Holding, Open, Live
<1>4. Buffer' /\ CrashesOnlyOnTrap'
  BY DEF IInv, Buffer, CaptureIsWhole, CrashesOnlyOnTrap
<1> QED BY <1>1, <1>2, <1>3, <1>4 DEF IInv

LEMMA StepInv ==
  ASSUME IInv, [Next]_vars
  PROVE  IInv'
<1>1. ASSUME NEW n \in Ident, NEW type \in {"int", "ch"}, Declare(n, type) PROVE IInv'
  BY <1>1, DeclareInv
<1>2. ASSUME NEW n \in Ident, NEW kind \in {"decl", "assign"}, Target(kind, n) PROVE IInv'
  BY <1>2, TargetInv
<1>3. ASSUME NEW n \in Ident, NEW l \in Literal, DeclareString(n, l) PROVE IInv'
  BY <1>3, DeclareStringInv
<1>4. ASSUME NEW n \in Ident, NEW l \in Literal, AssignString(n, l) PROVE IInv'
  BY <1>4, AssignStringInv
<1>5. ASSUME NEW n \in Ident, Identifier(n) PROVE IInv'
  BY <1>5, IdentifierInv
<1>6. ASSUME NEW n \in Ident, PrintVariable(n) PROVE IInv'
  BY <1>6, PrintVariableInv
<1>7. ASSUME NEW k \in Numeral, NumberNode(k) PROVE IInv'
  BY <1>7, NumberNodeInv
<1>8. ASSUME NEW op \in {"+", "-", "*", "/"}, Operate(op) PROVE IInv'
  BY <1>8, OperateInv
<1>9. ASSUME NEW l \in Literal, PrintLiteral(l) PROVE IInv'
  BY <1>9, PrintLiteralInv
<1>10. CASE Store \/ BeginPrint \/ PrintExpression \/ EndPrint \/ Return
  BY <1>10, StoreInv, BeginPrintInv, PrintExpressionInv, EndPrintInv, ReturnInv
<1>11. CASE Finished \/ UNCHANGED vars
  BY <1>11, StutterInv DEF Finished
<1> QED BY <1>1, <1>2, <1>3, <1>4, <1>5, <1>6, <1>7, <1>8, <1>9, <1>10, <1>11 DEF Next

LEMMA Invariance == Spec => []IInv
BY InitInv, StepInv, PTL DEF Spec

(***************************************************************************)
(* The theorems.                                                           *)
(***************************************************************************)

(* The interpreter's data keep their types: the array never holds more     *)
(* than its capacity, and all numbers are ints.                            *)
THEOREM TypeCorrect == Spec => []TypeOK
BY Invariance, Implied, PTL

(* The pointer that a declaration or an assignment keeps while it          *)
(* evaluates its expression stays a pointer to its variable: the array     *)
(* does not move, because an operand was declared and is therefore there.  *)
THEOREM HeldStaysLive == Spec => []HeldIsLive
BY Invariance, Implied, PTL

(* Strings have one owner, owners have their strings, and the interpreter  *)
(* returns with nothing left on the heap, for programs of any length.      *)
THEOREM StringsAreOwned == Spec => []StringsOwned
BY Invariance, Implied, PTL

(* The capture buffer never overflows, and it loses nothing except the end *)
(* of a part that alone fills the buffer of capture_printf.                *)
THEOREM CaptureStaysWhole == Spec => []CaptureIsWhole
BY Invariance, Implied, PTL

(* A program that the front end lets pass stops the interpreter only at    *)
(* the division whose quotient is no int.                                  *)
THEOREM DiesOnlyOfTheTrap == Spec => []CrashesOnlyOnTrap
BY Invariance, Implied, PTL

(***************************************************************************)
(* Execution: the interpreter beside the processor is the interpreter.     *)
(***************************************************************************)
LEMMA BothStep ==
  ASSUME [BothNext]_allVars
  PROVE  [Next]_vars
<1>1. CASE Statements
  BY <1>1 DEF Statements, Next
<1>2. CASE Expressions
  BY <1>2 DEF Expressions, Next
<1>3. CASE Prints
  BY <1>3 DEF Prints, Next
<1>4. CASE (Return \/ Finished) /\ UNCHANGED machine
  BY <1>4 DEF Next
<1>5. CASE UNCHANGED allVars
  BY <1>5 DEF allVars
<1> QED BY <1>1, <1>2, <1>3, <1>4, <1>5 DEF BothNext

(* Running the generated code beside the interpreter restricts and changes *)
(* nothing of it, so that all of the above holds of the two together.      *)
THEOREM BothInterpret == BothSpec => Spec
BY BothStep, PTL DEF BothSpec, BothInit, Spec

=============================================================================
