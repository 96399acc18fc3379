-------------------------- MODULE ExecutionProofs --------------------------
(***************************************************************************)
(* The interpreter implements the language: its array, unions, heap and    *)
(* pointers behave like a store, for all names, literals, widths and       *)
(* capacities and programs of any length.  And the processor computes what *)
(* the interpreter computes and prints the same texts, as far as the       *)
(* properties of Execution say, for all widths of int, of immediates and   *)
(* of registers, and however often the circle of temporaries turns.        *)
(***************************************************************************)
EXTENDS InterpreterProofs

(***************************************************************************)
(* What the language sees.                                                 *)
(***************************************************************************)
Contents == [n \in Ident |-> ValueOf(n)]

Numerals(s) == [i \in DOMAIN s |-> s[i].val]

Pending == Numerals(stack)

Saying == stmt.kind = "print"

Undeclared == [kind |-> "undeclared"]
Unset == [kind |-> "unset"]

Kept == UNCHANGED <<Contents, Pending, Saying, said>>

(***************************************************************************)
(* The steps of the language, in these terms.                              *)
(***************************************************************************)
LEMMA MayStutter ==
  ASSUME Kept
  PROVE  UNCHANGED Abstract!languageVars
BY DEF Kept, Contents, Pending, Numerals, Saying, Abstract!languageVars

LEMMA MayDeclare ==
  ASSUME NEW n \in Ident, Contents[n] = Undeclared,
         Contents' = [Contents EXCEPT ![n] = Unset],
         UNCHANGED <<Pending, Saying, said>>
  PROVE  Abstract!Next
<1>1. Abstract!Declare(n)
  BY DEF Abstract!Declare, Abstract!Undeclared, Abstract!Unset, Contents, Pending, Numerals, Saying,
         Undeclared, Unset
<1> QED BY <1>1 DEF Abstract!Next

LEMMA MaySetInt ==
  ASSUME NEW n \in Ident, Contents[n].kind \in {"unset", "int"}, Len(Pending) = 1,
         Contents' = [Contents EXCEPT ![n] = IntPart(Pending[1])], Pending' = << >>,
         UNCHANGED <<Saying, said>>
  PROVE  Abstract!Next
<1>1. Abstract!SetInt(n)
  BY DEF Abstract!SetInt, Abstract!IntVal, IntPart, Contents, Pending, Numerals, Saying
<1> QED BY <1>1 DEF Abstract!Next

LEMMA MaySetString ==
  ASSUME NEW n \in Ident, NEW l \in Literal, Contents[n].kind # "int",
         Contents' = [Contents EXCEPT ![n] = StringPart(l)],
         UNCHANGED <<Pending, Saying, said>>
  PROVE  Abstract!Next
<1>1. Abstract!SetString(n, l)
  BY DEF Abstract!SetString, Abstract!Str, StringPart, Contents, Pending, Numerals, Saying
<1> QED BY <1>1 DEF Abstract!Next

LEMMA MayPush ==
  ASSUME NEW v, v \in Number \cup {-1} \/ \E n \in Ident : v = Abstract!IntOf(Contents[n]),
         Pending' = Append(Pending, v),
         UNCHANGED <<Contents, Saying, said>>
  PROVE  Abstract!Next
<1>1. Abstract!Push(v)
  BY DEF Abstract!Push, Contents, Pending, Numerals, Saying
<1>2. CASE v \in Number \cup {-1}
  BY <1>1, <1>2 DEF Abstract!Next
<1>3. CASE \E n \in Ident : v = Abstract!IntOf(Contents[n])
  <2>1. PICK n \in Ident : v = Abstract!IntOf(Contents[n])
    BY <1>3
  <2>2. Contents[n] = ValueOf(n)
    BY DEF Contents
  <2>3. Abstract!Push(Abstract!IntOf(ValueOf(n)))
    BY <2>1, <2>2 DEF Abstract!Push, Contents, Pending, Numerals, Saying
  <2> QED BY <2>3 DEF Abstract!Next, Abstract!Push
<1> QED BY <1>2, <1>3

LEMMA MayOperate ==
  ASSUME NEW op \in {"+", "-", "*", "/"}, Len(Pending) >= 2,
         Pending' = Append(SubSeq(Pending, 1, Len(Pending) - 2),
                           Binop(op, Pending[Len(Pending) - 1], Pending[Len(Pending)])),
         UNCHANGED <<Contents, Saying, said>>
  PROVE  Abstract!Next
<1>1. Abstract!Operate(op)
  BY DEF Abstract!Operate, Abstract!Operation, Abstract!Wrap, Operation, Wrap, Binop,
         Abstract!Quotient, Quotient, Abstract!Abs, Abs, Contents, Pending, Numerals, Saying
<1> QED BY <1>1 DEF Abstract!Next

LEMMA MayBeginPrint ==
  ASSUME Saying' = TRUE, UNCHANGED <<Contents, Pending, said>>
  PROVE  Abstract!Next
<1>1. Abstract!BeginPrint
  BY DEF Abstract!BeginPrint, Contents, Pending, Numerals, Saying
<1> QED BY <1>1 DEF Abstract!Next

LEMMA MaySay ==
  ASSUME NEW part, said' = [part |-> part, count |-> said.count + 1],
         Saying, UNCHANGED <<Contents, Saying>>,
         \/ /\ UNCHANGED Pending
            /\ \/ \E l \in Literal : part = StringPart(l)
               \/ \E n \in Ident : part = Abstract!TextOf(Contents[n])
         \/ Len(Pending) = 1 /\ part = IntPart(Pending[1]) /\ Pending' = << >>
  PROVE  Abstract!Next
<1>1. Abstract!Say(part)
  BY DEF Abstract!Say, Abstract!Output, Contents, Saying
<1>2. CASE UNCHANGED Pending /\ \E l \in Literal : part = StringPart(l)
  <2>1. PICK l \in Literal : part = Abstract!Str(l)
    BY <1>2 DEF StringPart, Abstract!Str
  <2>2. Abstract!SayLiteral(l)
    BY <1>1, <1>2, <2>1 DEF Abstract!SayLiteral, Pending, Numerals
  <2> QED BY <2>2 DEF Abstract!Next
<1>3. CASE UNCHANGED Pending /\ \E n \in Ident : part = Abstract!TextOf(Contents[n])
  <2>1. PICK n \in Ident : part = Abstract!TextOf(Contents[n])
    BY <1>3
  <2>2. Abstract!SayVariable(n)
    BY <1>1, <1>3, <2>1 DEF Abstract!SayVariable, Pending, Numerals, Contents
  <2> QED BY <2>2 DEF Abstract!Next
<1>4. CASE Len(Pending) = 1 /\ part = IntPart(Pending[1]) /\ Pending' = << >>
  <2>1. Abstract!SayResult
    BY <1>1, <1>4 DEF Abstract!SayResult, Abstract!IntVal, IntPart, Pending, Numerals
  <2> QED BY <2>1 DEF Abstract!Next
<1> QED BY <1>2, <1>3, <1>4

LEMMA MayEndPrint ==
  ASSUME Saying, ~Saying', UNCHANGED <<Contents, Pending>>,
         IF said.part.kind = "str" THEN UNCHANGED said
         ELSE said' = [part |-> NewlinePart, count |-> said.count + 1]
  PROVE  Abstract!Next
<1>1. Abstract!EndPrint
  BY DEF Abstract!EndPrint, Abstract!Output, Abstract!Newline, NewlinePart, Contents,
         Pending, Numerals, Saying
<1> QED BY <1>1 DEF Abstract!Next

LEMMA MayExit ==
  ASSUME ~Saying, Pending = << >>, Contents' = [n \in Ident |-> Undeclared],
         UNCHANGED <<Pending, Saying, said>>
  PROVE  Abstract!Next
<1>1. Abstract!Exit
  BY DEF Abstract!Exit, Abstract!Undeclared, Undeclared, Contents, Pending, Numerals, Saying
<1> QED BY <1>1 DEF Abstract!Next

(***************************************************************************)
(* Values in an array s and a heap h.                                      *)
(***************************************************************************)
ValueIn(s, h, n) ==
  IF Matching(s, n) = {} THEN Undeclared
  ELSE LET var == Variable(s, n)
           dangles == var.value.as = "int" \/ var.value.val \notin DOMAIN h
       IN CASE ~var.initialized -> Unset
            [] OwnsString(var) /\ dangles -> [kind |-> "dangling"]
            [] OwnsString(var) /\ ~dangles -> StringPart(h[var.value.val])
            [] OTHER -> IntPart(var.value.val)

LEMMA ContentsAre ==
  /\ Contents = [n \in Ident |-> ValueIn(state, heap, n)]
  /\ Contents' = [n \in Ident |-> ValueIn(state', heap', n)]
<1>1. \A n : ValueOf(n) = ValueIn(state, heap, n)
  BY DEF ValueOf, ValueIn, Dangles, Undeclared, Unset
<1>2. \A n : ValueOf(n)' = ValueIn(state', heap', n)
  BY DEF ValueOf, ValueIn, Dangles, Undeclared, Unset
<1> QED BY <1>1, <1>2 DEF Contents

LEMMA ValueOfNobody ==
  ASSUME NEW s, NEW h, NEW n, \A i \in DOMAIN s.vars : s.vars[i].name # n
  PROVE  ValueIn(s, h, n) = Undeclared
BY DEF ValueIn, Matching

(* What a variable of a sound array is worth.                              *)
LEMMA ValueOfVariable ==
  ASSUME NEW s, NEW d, NEW h, Sound(s, d, h), NEW i \in DOMAIN s.vars
  PROVE  LET var == s.vars[i]
             value == ValueIn(s, h, var.name)
         IN /\ ~var.initialized => value = Unset
            /\ var.initialized /\ ~var.is_string => value = IntPart(var.value.val)
            /\ var.initialized /\ var.is_string =>
                 value = StringPart(h[var.value.val]) /\ var.value.val \in DOMAIN h
<1> DEFINE var == s.vars[i]
<1>1. Variable(s, var.name) = var /\ Matching(s, var.name) # {}
  BY Found DEF Sound
<1>2. OwnsString(var) => var.value.as = "str" /\ var.value.val \in DOMAIN h
  BY DEF Sound, Owned, OwnedAmong, Owner
<1> HIDE DEF var
<1>3. LET value == ValueIn(s, h, var.name)
      IN /\ ~var.initialized => value = Unset
         /\ var.initialized /\ ~var.is_string => value = IntPart(var.value.val)
         /\ var.initialized /\ var.is_string =>
              value = StringPart(h[var.value.val]) /\ var.value.val \in DOMAIN h
  BY <1>1, <1>2 DEF ValueIn, OwnsString
<1> QED BY <1>3 DEF var

(* From s and h to t and g only variable i changes, whose name is n.       *)
Touched(s, h, t, g, i, n) ==
  /\ DOMAIN t.vars = DOMAIN s.vars \cup {i} /\ t.vars[i].name = n
  /\ i \in DOMAIN s.vars => s.vars[i].name = n
  /\ \A j \in DOMAIN s.vars \ {i} :
       /\ t.vars[j] = s.vars[j]
       /\ Owner(s, j) => g[s.vars[j].value.val] = h[s.vars[j].value.val]

LEMMA OthersSame ==
  ASSUME NEW s, NEW d, NEW h, Sound(s, d, h), NEW t, NEW e, NEW g, Sound(t, e, g),
         NEW i, NEW n, Touched(s, h, t, g, i, n), NEW m, m # n
  PROVE  ValueIn(t, g, m) = ValueIn(s, h, m)
<1>1. CASE \E j \in DOMAIN s.vars : s.vars[j].name = m
  <2>1. PICK j \in DOMAIN s.vars : s.vars[j].name = m
    BY <1>1
  <2>2. j # i /\ j \in DOMAIN t.vars /\ t.vars[j] = s.vars[j]
    BY <2>1 DEF Touched
  <2>3. s.vars[j].initialized /\ s.vars[j].is_string =>
          g[s.vars[j].value.val] = h[s.vars[j].value.val]
    BY <2>1, <2>2 DEF Touched, Owner, OwnsString
  <2>4. s.vars[j].initialized \in BOOLEAN /\ s.vars[j].is_string \in BOOLEAN
    <3>1. s.vars[j] \in Variables
      BY <2>1 DEF Sound, Array
    <3> QED BY <3>1 DEF Variables
  <2> DEFINE var == s.vars[j]
             mine == ValueIn(s, h, m)
             yours == ValueIn(t, g, m)
  <2>5. /\ ~var.initialized => mine = Unset
        /\ var.initialized /\ ~var.is_string => mine = IntPart(var.value.val)
        /\ var.initialized /\ var.is_string => mine = StringPart(h[var.value.val])
    BY <2>1, ValueOfVariable
  <2>6. /\ ~var.initialized => yours = Unset
        /\ var.initialized /\ ~var.is_string => yours = IntPart(var.value.val)
        /\ var.initialized /\ var.is_string => yours = StringPart(g[var.value.val])
    BY <2>1, <2>2, ValueOfVariable
  <2> HIDE DEF mine, yours
  <2>7. mine = yours
    BY <2>3, <2>4, <2>5, <2>6
  <2> QED BY <2>7 DEF mine, yours
<1>2. CASE \A j \in DOMAIN s.vars : s.vars[j].name # m
  <2>1. \A j \in DOMAIN t.vars : t.vars[j].name # m
    BY <1>2 DEF Touched
  <2> QED BY <1>2, <2>1, ValueOfNobody
<1> QED BY <1>1, <1>2

(* Then the store changes at n.                                            *)
LEMMA ContentsBut ==
  ASSUME Sound(state, declared, heap), Sound(state', declared', heap'),
         NEW n \in Ident, NEW i, Touched(state, heap, state', heap', i, n)
  PROVE  Contents' = [Contents EXCEPT ![n] = ValueIn(state', heap', n)]
<1>1. \A m \in Ident \ {n} : ValueIn(state', heap', m) = ValueIn(state, heap, m)
  BY OthersSame
<1> QED BY <1>1, ContentsAre

(***************************************************************************)
(* What the interpreter keeps beyond IInv.                                 *)
(***************************************************************************)

(* A variable that was given a value has one of its type.                  *)
Settled(s, d) ==
  \A i \in DOMAIN s.vars :
    /\ s.vars[i].is_string => s.vars[i].initialized
    /\ s.vars[i].initialized =>
         d[s.vars[i].name] = IF s.vars[i].is_string THEN "ch" ELSE "int"

Idle == stmt.kind = "none" => stack = << >>

(* What EndPrint looks at, and what it stands for.                         *)
TextLast ==
  \/ stmt.last = "STR"
  \/ /\ stmt.last = "ID" /\ Matching(state, stmt.name) # {}
     /\ Variable(state, stmt.name).is_string

Told ==
  stmt.last # "nothing" =>
    stmt.kind = "print" /\ (TextLast <=> said.part.kind = "str")

JInv == IInv /\ Settled(state, declared) /\ Idle /\ Told

(* A step of the interpreter is one of the language, or none.              *)
Simulated == [Abstract!Next]_Abstract!languageVars

(* No variable is given a value, although one may become known.            *)
NothingGiven ==
  \A m \in Ident : \/ Contents'[m] = Contents[m]
                   \/ Contents[m] = Undeclared /\ Contents'[m] = Unset

(***************************************************************************)
(* Steps that write one variable.                                          *)
(***************************************************************************)
LEMMA FindOrAddTouches ==
  ASSUME NEW s, NEW d, NEW h, Sound(s, d, h), NEW n \in Ident
  PROVE  LET t == FindOrAdd(s, n)
             i == FindVariable(t, n)
         IN /\ Touched(s, h, t, h, i, n)
            /\ i \in DOMAIN s.vars => t = s
            /\ i \notin DOMAIN s.vars => t.vars[i] = NewVariable(n)
            /\ i \in DOMAIN s.vars <=> \E j \in DOMAIN s.vars : s.vars[j].name = n
<1> DEFINE t == FindOrAdd(s, n)
<1>1. Array(s)
  BY DEF Sound
<1>2. CASE \E j \in DOMAIN s.vars : s.vars[j].name = n
  <2>1. PICK j \in DOMAIN s.vars : s.vars[j].name = n
    BY <1>2
  <2>2. t = s /\ FindVariable(s, n) = j
    BY <1>1, <2>1, Found
  <2> QED BY <2>1, <2>2 DEF Touched
<1>3. CASE \A j \in DOMAIN s.vars : s.vars[j].name # n
  <2> DEFINE k == Len(s.vars) + 1
  <2>1. Matching(s, n) = {}
    BY <1>3 DEF Matching
  <2>2. /\ Array(t)
        /\ DOMAIN t.vars = DOMAIN s.vars \cup {k}
        /\ k \notin DOMAIN s.vars
        /\ t.vars[k] = NewVariable(n)
        /\ \A j \in DOMAIN s.vars : t.vars[j] = s.vars[j]
    BY <1>1, <2>1, Added
  <2> HIDE DEF t, k
  <2>3. t.vars[k].name = n
    BY <2>2 DEF NewVariable
  <2>4. FindVariable(t, n) = k
    BY <2>2, <2>3, Found
  <2>5. Touched(s, h, t, h, k, n)
    BY <2>2, <2>3 DEF Touched
  <2> QED BY <1>3, <2>2, <2>4, <2>5 DEF t
<1> QED BY <1>2, <1>3

LEMMA TouchedAgain ==
  ASSUME NEW s, NEW h, NEW t, NEW i, NEW n, Touched(s, h, t, h, i, n),
         NEW u, NEW g, DOMAIN u.vars = DOMAIN t.vars, u.vars[i].name = n,
         \A j \in DOMAIN t.vars \ {i} :
           /\ u.vars[j] = t.vars[j]
           /\ Owner(t, j) => g[t.vars[j].value.val] = h[t.vars[j].value.val]
  PROVE  Touched(s, h, u, g, i, n)
<1>1. \A j \in DOMAIN s.vars \ {i} : j \in DOMAIN t.vars \ {i} /\ t.vars[j] = s.vars[j]
  BY DEF Touched
<1>2. \A j \in DOMAIN s.vars \ {i} : Owner(s, j) => Owner(t, j)
  BY <1>1 DEF Owner
<1> QED BY <1>1, <1>2 DEF Touched

(* The variable that was written has a value of its type again.            *)
OfItsType(s, d, i) ==
  /\ s.vars[i].is_string => s.vars[i].initialized
  /\ s.vars[i].initialized =>
       d[s.vars[i].name] = IF s.vars[i].is_string THEN "ch" ELSE "int"

LEMMA Wrote ==
  ASSUME JInv, IInv', NEW n \in Ident, NEW i, Touched(state, heap, state', heap', i, n),
         AgreeBut(n, declared, declared'), OfItsType(state', declared', i)
  PROVE  /\ Settled(state, declared)'
         /\ Contents' = [Contents EXCEPT ![n] = ValueIn(state', heap', n)]
<1>1. Sound(state, declared, heap) /\ Sound(state', declared', heap')
  BY DEF JInv, IInv, Memory
<1>2. \A j \in DOMAIN state'.vars \ {i} :
         /\ j \in DOMAIN state.vars /\ state'.vars[j] = state.vars[j]
         /\ state'.vars[j].name \in Ident /\ state'.vars[j].name # n
  <2>1. \A j \in DOMAIN state'.vars : state'.vars[j] \in Variables
    BY <1>1 DEF Sound, Array
  <2>2. \A j \in DOMAIN state'.vars : state'.vars[j].name \in Ident
    BY <2>1 DEF Variables
  <2>3. i \in DOMAIN state'.vars /\ state'.vars[i].name = n
    BY DEF Touched
  <2>4. \A j \in DOMAIN state'.vars \ {i} : state'.vars[j].name # n
    BY <1>1, <2>3 DEF Sound, Array
  <2> QED BY <2>2, <2>4 DEF Touched
<1>3. Settled(state', declared')
  <2>1. ASSUME NEW j \in DOMAIN state'.vars, j # i PROVE OfItsType(state', declared', j)
    <3>1. /\ j \in DOMAIN state.vars /\ state'.vars[j] = state.vars[j]
          /\ state'.vars[j].name \in Ident /\ state'.vars[j].name # n
      BY <1>2, <2>1
    <3>2. declared'[state.vars[j].name] = declared[state.vars[j].name]
      BY <3>1 DEF AgreeBut
    <3> QED BY <3>1, <3>2 DEF OfItsType, JInv, Settled
  <2> QED BY <2>1 DEF Settled, OfItsType
<1> QED BY <1>1, <1>3, ContentsBut

(* What a name was worth before.                                           *)
LEMMA Worth ==
  ASSUME JInv, NEW n \in Ident
  PROVE  /\ (\A i \in DOMAIN state.vars : state.vars[i].name # n) <=> Contents[n] = Undeclared
         /\ declared[n] = "none" => Contents[n] \in {Undeclared, Unset}
         /\ declared[n] # "ch" => Contents[n] \in {Undeclared, Unset} \/ Contents[n].kind = "int"
         /\ declared[n] # "int" => Contents[n].kind # "int"
<1>1. Sound(state, declared, heap) /\ Contents[n] = ValueIn(state, heap, n)
  BY ContentsAre DEF JInv, IInv, Memory
<1>2. CASE \A i \in DOMAIN state.vars : state.vars[i].name # n
  <2>1. Contents[n] = Undeclared
    BY <1>1, <1>2, ValueOfNobody
  <2> QED BY <1>2, <2>1 DEF Undeclared
<1>3. CASE \E i \in DOMAIN state.vars : state.vars[i].name = n
  <2>1. PICK i \in DOMAIN state.vars : state.vars[i].name = n
    BY <1>3
  <2> DEFINE var == state.vars[i]
             value == ValueIn(state, heap, n)
  <2>2. /\ ~var.initialized => value = Unset
        /\ var.initialized /\ ~var.is_string => value = IntPart(var.value.val)
        /\ var.initialized /\ var.is_string => value = StringPart(heap[var.value.val])
    BY <1>1, <2>1, ValueOfVariable
  <2>3. var.initialized => declared[n] = IF var.is_string THEN "ch" ELSE "int"
    BY <2>1 DEF JInv, Settled
  <2>4. var.initialized \in BOOLEAN /\ var.is_string \in BOOLEAN
    <3>1. state.vars[i] \in Variables
      BY <1>1, <2>1 DEF Sound, Array
    <3> QED BY <3>1 DEF Variables
  <2> HIDE DEF value, var
  <2>5. CASE ~var.initialized
    <3>1. value = Unset
      BY <2>2, <2>5
    <3> QED BY <1>1, <1>3, <3>1 DEF value, Unset, Undeclared
  <2>6. CASE var.initialized /\ ~var.is_string
    <3>1. value.kind = "int" /\ declared[n] = "int"
      BY <2>2, <2>3, <2>6 DEF IntPart
    <3> QED BY <1>1, <1>3, <3>1 DEF value, Undeclared
  <2>7. CASE var.initialized /\ var.is_string
    <3>1. value.kind = "str" /\ declared[n] = "ch"
      BY <2>2, <2>3, <2>7 DEF StringPart
    <3> QED BY <1>1, <1>3, <3>1 DEF value, Undeclared
  <2> QED BY <2>4, <2>5, <2>6, <2>7
<1> QED BY <1>2, <1>3

(***************************************************************************)
(* Declarations and assignments.                                           *)
(***************************************************************************)

(* A statement that is complete leaves nothing pending or said.            *)
LEMMA Complete ==
  ASSUME IInv, Item(NoStatement, << >>), stack' = << >>, UNCHANGED printing
  PROVE  Idle' /\ Told' /\ ~Saying' /\ UNCHANGED said
BY DEF Item, NoStatement, Idle, Told, Saying, printing

(* In an empty expression nothing is pending.                              *)
LEMMA NothingPending ==
  ASSUME stmt.kind = "none", JInv
  PROVE  stack = << >> /\ Pending = << >> /\ ~Saying
BY DEF JInv, Idle, Pending, Numerals, Saying

LEMMA DeclareStep ==
  ASSUME JInv, NEW n \in Ident, NEW type \in {"int", "ch"}, Declare(n, type)
  PROVE  JInv' /\ Simulated /\ NothingGiven
<1> DEFINE t == FindOrAdd(state, n)
           i == FindVariable(t, n)
           v == [Variable(t, n) EXCEPT !.initialized = FALSE, !.value = AsInt(0)]
<1>1. IInv /\ IInv'
  BY DeclareInv DEF JInv
<1>2. /\ Item(NoStatement, << >>) /\ stmt.kind = "none" /\ declared[n] = "none"
      /\ declared' = [declared EXCEPT ![n] = type]
      /\ state' = With(t, i, v) /\ heap' = heap /\ stack' = stack
      /\ UNCHANGED printing
  BY DEF Declare
<1>3. stack = << >> /\ ~Saying
  BY <1>2, NothingPending
<1>4. Idle' /\ Told' /\ ~Saying' /\ UNCHANGED said
  BY <1>1, <1>2, <1>3, Complete
<1>5. /\ Sound(state, declared, heap)
      /\ declared \in [Ident -> {"none", "int", "ch"}]
  BY <1>1 DEF IInv, Memory, Control
<1>6. /\ Sound(t, declared, heap)
      /\ i \in DOMAIN t.vars /\ t.vars[i].name = n
      /\ Variable(t, n) = t.vars[i]
  BY <1>5, FoundOrAdded
<1>7. Touched(state, heap, t, heap, i, n)
  BY <1>5, FindOrAddTouches
<1> HIDE DEF t, i
<1>8. v \in Variables /\ v.name = n /\ ~v.is_string /\ ~v.initialized
  <2>1. t.vars[i] \in Variables
    BY <1>6 DEF Array, Sound
  <2>2. ~t.vars[i].is_string
    BY <1>2, <1>6 DEF Typed, Sound
  <2>3. AsInt(0) \in [as : {"int", "str"}, val : Int]
    BY DEF AsInt
  <2>4. v = [t.vars[i] EXCEPT !.initialized = FALSE, !.value = AsInt(0)]
    BY <1>6
  <2> HIDE DEF v
  <2> QED BY <1>6, <2>1, <2>2, <2>3, <2>4 DEF Variables
<1> HIDE DEF v
<1>9. /\ DOMAIN state'.vars = DOMAIN t.vars /\ state'.vars[i] = v
      /\ \A j \in DOMAIN t.vars \ {i} : state'.vars[j] = t.vars[j]
  <2> DEFINE u == With(t, i, v)
  <2>1. Array(t) /\ v.name = t.vars[i].name
    BY <1>6, <1>8 DEF Sound
  <2>2. /\ DOMAIN u.vars = DOMAIN t.vars /\ u.vars[i] = v
        /\ \A j \in DOMAIN t.vars \ {i} : u.vars[j] = t.vars[j]
    BY <1>6, <1>8, <2>1, Changed
  <2> QED BY <1>2, <2>2
<1>10. Touched(state, heap, state', heap', i, n)
  BY <1>2, <1>7, <1>8, <1>9, TouchedAgain
<1>11. AgreeBut(n, declared, declared') /\ OfItsType(state', declared', i)
  BY <1>2, <1>5, <1>8, <1>9 DEF AgreeBut, OfItsType
<1>12. Settled(state, declared)' /\ Contents' = [Contents EXCEPT ![n] = ValueIn(state', heap', n)]
  BY <1>1, <1>10, <1>11, Wrote
<1>13. ValueIn(state', heap', n) = Unset
  <2>1. Sound(state', declared', heap') /\ i \in DOMAIN state'.vars
    BY <1>1, <1>6, <1>9 DEF IInv, Memory
  <2> QED BY <1>8, <1>9, <2>1, ValueOfVariable
<1>14. Contents[n] \in {Undeclared, Unset}
  BY <1>2, Worth
<1>15. UNCHANGED <<Pending, Saying, said>>
  BY <1>2, <1>3, <1>4 DEF Pending, Saying
<1>16. Simulated
  <2>1. CASE Contents[n] = Undeclared
    BY <1>12, <1>13, <1>15, <2>1, MayDeclare DEF Simulated
  <2>2. CASE Contents[n] = Unset
    <3>1. Contents' = Contents
      BY <1>12, <1>13, <2>2 DEF Contents
    <3>2. Kept
      BY <1>15, <3>1 DEF Kept
    <3> QED BY <3>2, MayStutter DEF Simulated
  <2> QED BY <1>14, <2>1, <2>2
<1>17. NothingGiven
  <2>1. \A m \in Ident : m # n => Contents'[m] = Contents[m]
    BY <1>12 DEF Contents
  <2>2. Contents'[n] = Unset
    BY <1>12, <1>13 DEF Contents
  <2> QED BY <1>14, <2>1, <2>2 DEF NothingGiven
<1> QED BY <1>1, <1>4, <1>12, <1>16, <1>17 DEF JInv

LEMMA TargetStep ==
  ASSUME JInv, NEW n \in Ident, NEW kind \in {"decl", "assign"}, Target(kind, n)
  PROVE  JInv' /\ Simulated /\ NothingGiven
<1> DEFINE t == FindOrAdd(state, n)
           i == FindVariable(t, n)
<1>1. IInv /\ IInv'
  BY TargetInv DEF JInv
<1>2. /\ Item(Opening(kind, n), << >>) /\ stmt.kind = "none"
      /\ state' = t /\ heap' = heap /\ stack' = stack /\ declared' = declared
      /\ UNCHANGED printing
  BY DEF Target
<1>3. stack = << >> /\ ~Saying
  BY <1>2, NothingPending
<1>4. Idle' /\ Told' /\ ~Saying' /\ UNCHANGED said
  BY <1>2 DEF Item, Opening, Idle, Told, Saying, printing
<1>5. Sound(state, declared, heap)
  BY <1>1 DEF IInv, Memory
<1>6. /\ Touched(state, heap, t, heap, i, n)
      /\ i \in DOMAIN state.vars => t = state
      /\ i \notin DOMAIN state.vars => t.vars[i] = NewVariable(n)
      /\ i \in DOMAIN state.vars <=> \E j \in DOMAIN state.vars : state.vars[j].name = n
  BY <1>5, FindOrAddTouches
<1>7. i \in DOMAIN t.vars /\ t.vars[i].name = n
  BY <1>5, FoundOrAdded
<1> HIDE DEF t, i
<1>8. UNCHANGED <<Pending, Saying, said>>
  BY <1>2, <1>3, <1>4 DEF Pending, Saying
<1>9. CASE i \in DOMAIN state.vars
  <2>1. state' = state
    BY <1>2, <1>6, <1>9
  <2>2. Contents' = Contents /\ Settled(state, declared)'
    BY <1>2, <2>1, ContentsAre DEF JInv
  <2>3. Kept
    BY <1>8, <2>2 DEF Kept
  <2>4. NothingGiven
    BY <2>2 DEF NothingGiven
  <2> QED BY <1>1, <1>4, <2>2, <2>3, <2>4, MayStutter DEF JInv, Simulated
<1>10. CASE i \notin DOMAIN state.vars
  <2>1. state'.vars[i] = NewVariable(n)
    BY <1>2, <1>6, <1>10
  <2>2. ~state'.vars[i].initialized /\ ~state'.vars[i].is_string
    BY <2>1 DEF NewVariable
  <2>3. AgreeBut(n, declared, declared') /\ OfItsType(state', declared', i)
    BY <1>2, <2>2 DEF AgreeBut, OfItsType
  <2>4. /\ Settled(state, declared)'
        /\ Contents' = [Contents EXCEPT ![n] = ValueIn(state', heap', n)]
    BY <1>1, <1>2, <1>6, <2>3, Wrote
  <2>5. ValueIn(state', heap', n) = Unset
    <3>1. Sound(state', declared', heap') /\ i \in DOMAIN state'.vars /\ state'.vars[i].name = n
      BY <1>1, <1>2, <1>7 DEF IInv, Memory
    <3> QED BY <2>2, <3>1, ValueOfVariable
  <2>6. Contents[n] = Undeclared
    BY <1>6, <1>10, Worth
  <2>7. NothingGiven
    <3>1. \A m \in Ident : m # n => Contents'[m] = Contents[m]
      BY <2>4 DEF Contents
    <3>2. Contents'[n] = Unset
      BY <2>4, <2>5 DEF Contents
    <3> QED BY <2>6, <3>1, <3>2 DEF NothingGiven
  <2> QED BY <1>1, <1>4, <1>8, <2>4, <2>5, <2>6, <2>7, MayDeclare DEF JInv, Simulated
<1> QED BY <1>9, <1>10

LEMMA StoreStep ==
  ASSUME JInv, Store
  PROVE  /\ JInv' /\ Simulated
         /\ Contents' = [Contents EXCEPT ![stmt.name] = IntPart(stack[1].val)]
<1> DEFINE i == held.index
           n == stmt.name
           v == [state.vars[i] EXCEPT !.value = AsInt(stack[1].val),
                   !.initialized = TRUE, !.is_string = FALSE]
<1>1. IInv /\ IInv'
  BY StoreInv DEF JInv
<1>2. /\ i \in DOMAIN state.vars /\ Live(held) /\ n \in Ident
      /\ state.vars[i].name = n /\ declared[n] # "ch" /\ ~Saying
  BY <1>1 DEF Store, IInv, Holding, Open, Saying
<1>3. /\ Item(NoStatement, << >>) /\ Len(stack) = 1
      /\ declared' = [declared EXCEPT ![n] = "int"]
      /\ state' = With(state, i, v) /\ heap' = heap /\ stack' = << >>
      /\ UNCHANGED printing
  BY <1>2 DEF Store
<1>4. Idle' /\ Told' /\ ~Saying' /\ UNCHANGED said
  BY <1>1, <1>3, Complete
<1>5. /\ Sound(state, declared, heap)
      /\ declared \in [Ident -> {"none", "int", "ch"}]
      /\ stack \in Seq(Nodes)
  BY <1>1 DEF IInv, Memory, Control, Operands
<1>6. stack[1].val \in Int
  <2>1. stack[1] \in Nodes
    BY <1>3, <1>5
  <2> QED BY <2>1 DEF Nodes, Signed
<1>7. Pending' = << >> /\ Len(Pending) = 1 /\ Pending[1] = stack[1].val
  BY <1>3, <1>5 DEF Pending, Numerals
<1> HIDE DEF i, n
<1>8. /\ v \in Variables /\ v.name = n /\ ~v.is_string /\ v.initialized
      /\ v.value.val = stack[1].val
  <2>1. state.vars[i] \in Variables
    BY <1>2, <1>5 DEF Array, Sound
  <2> QED BY <1>2, <1>6, <2>1 DEF Variables, AsInt
<1> HIDE DEF v
<1>9. /\ DOMAIN state'.vars = DOMAIN state.vars /\ state'.vars[i] = v
      /\ \A j \in DOMAIN state.vars \ {i} : state'.vars[j] = state.vars[j]
  <2> DEFINE u == With(state, i, v)
  <2>1. Array(state) /\ v.name = state.vars[i].name
    BY <1>2, <1>5, <1>8 DEF Sound
  <2>2. /\ DOMAIN u.vars = DOMAIN state.vars /\ u.vars[i] = v
        /\ \A j \in DOMAIN state.vars \ {i} : u.vars[j] = state.vars[j]
    BY <1>2, <1>8, <2>1, Changed
  <2> QED BY <1>3, <2>2
<1>10. Touched(state, heap, state', heap', i, n)
  BY <1>2, <1>3, <1>8, <1>9 DEF Touched
<1>11. AgreeBut(n, declared, declared') /\ OfItsType(state', declared', i)
  BY <1>2, <1>3, <1>5, <1>8, <1>9 DEF AgreeBut, OfItsType
<1>12. Settled(state, declared)' /\ Contents' = [Contents EXCEPT ![n] = ValueIn(state', heap', n)]
  BY <1>1, <1>2, <1>10, <1>11, Wrote
<1>13. ValueIn(state', heap', n) = IntPart(Pending[1])
  <2>1. Sound(state', declared', heap') /\ i \in DOMAIN state'.vars
    BY <1>1, <1>2, <1>9 DEF IInv, Memory
  <2> QED BY <1>7, <1>8, <1>9, <2>1, ValueOfVariable
<1>14. Contents[n].kind \in {"unset", "int"}
  <2>1. Contents[n] = Unset \/ Contents[n].kind = "int"
    BY <1>2, Worth
  <2> QED BY <2>1 DEF Unset
<1>15. UNCHANGED <<Saying, said>>
  BY <1>2, <1>4 DEF Saying
<1>16. Contents' = [Contents EXCEPT ![stmt.name] = IntPart(stack[1].val)]
  BY <1>7, <1>12, <1>13 DEF n
<1> QED
  BY <1>1, <1>2, <1>4, <1>7, <1>12, <1>13, <1>14, <1>15, <1>16, MaySetInt
     DEF JInv, Simulated

(* The effect of giving a variable a copy of a literal.                    *)
LEMMA GivenTouches ==
  ASSUME NEW t, Array(t), NEW i \in DOMAIN t.vars, NEW n, t.vars[i].name = n,
         NEW h, NEW k \in Nat, DOMAIN h \subseteq 1 .. k, NEW l
  PROVE  LET u == Given(t, n, Address(h))
             g == Strdup(h, l)
         IN /\ DOMAIN u.vars = DOMAIN t.vars
            /\ u.vars[i].name = n /\ u.vars[i].is_string /\ u.vars[i].initialized
            /\ g[u.vars[i].value.val] = l
            /\ \A j \in DOMAIN t.vars \ {i} : u.vars[j] = t.vars[j]
            /\ \A a \in DOMAIN h : g[a] = h[a]
<1> DEFINE a0 == Address(h)
           v == [t.vars[i] EXCEPT !.value = AsStr(a0), !.initialized = TRUE,
                                  !.is_string = TRUE]
           u == With(t, i, v)
           g == Strdup(h, l)
<1>1. a0 \in 1 .. k + 1 /\ a0 \notin DOMAIN h
  BY FreeAddress
<1>2. FindVariable(t, n) = i /\ Variable(t, n) = t.vars[i]
  BY Found
<1>3. Given(t, n, a0) = u
  BY <1>2 DEF Given
<1>4. t.vars[i] \in Variables
  BY DEF Array
<1>5. /\ v \in Variables /\ v.name = n /\ v.is_string /\ v.initialized
      /\ v.value.val = a0
  <2>1. a0 \in Int
    BY <1>1
  <2> HIDE DEF a0
  <2>2. AsStr(a0) \in [as : {"int", "str"}, val : Int] /\ AsStr(a0).val = a0
    BY <2>1 DEF AsStr
  <2> QED BY <1>4, <2>2 DEF Variables
<1>6. g[a0] = l /\ \A a \in DOMAIN h : g[a] = h[a]
  BY <1>1 DEF Strdup
<1> HIDE DEF v, g, a0
<1>7. /\ DOMAIN u.vars = DOMAIN t.vars /\ u.vars[i] = v
      /\ \A j \in DOMAIN t.vars \ {i} : u.vars[j] = t.vars[j]
  BY <1>5, Changed
<1> HIDE DEF u
<1> QED BY <1>3, <1>5, <1>6, <1>7 DEF a0, g

LEMMA DeclareStringStep ==
  ASSUME JInv, NEW n \in Ident, NEW l \in Literal, DeclareString(n, l)
  PROVE  /\ JInv' /\ Simulated
         /\ Contents' = [Contents EXCEPT ![n] = StringPart(l)]
<1> DEFINE t == FindOrAdd(state, n)
           i == FindVariable(t, n)
<1>1. IInv /\ IInv'
  BY DeclareStringInv DEF JInv
<1>2. /\ Item(NoStatement, << >>) /\ stmt.kind = "none" /\ declared[n] = "none"
      /\ declared' = [declared EXCEPT ![n] = "ch"]
      /\ state' = Given(t, n, Address(heap)) /\ heap' = Strdup(heap, l)
      /\ stack' = stack /\ UNCHANGED printing
  BY DEF DeclareString
<1>3. stack = << >> /\ ~Saying
  BY <1>2, NothingPending
<1>4. Idle' /\ Told' /\ ~Saying' /\ UNCHANGED said
  BY <1>1, <1>2, <1>3, Complete
<1>5. /\ Sound(state, declared, heap) /\ Sound(state', declared', heap')
      /\ declared \in [Ident -> {"none", "int", "ch"}]
      /\ items \in Nat /\ DOMAIN heap \subseteq 1 .. items
  BY <1>1 DEF IInv, Memory, Control, Strings, Texts
<1>6. /\ Sound(t, declared, heap)
      /\ i \in DOMAIN t.vars /\ t.vars[i].name = n
  BY <1>5, FoundOrAdded
<1>7. Touched(state, heap, t, heap, i, n)
  BY <1>5, FindOrAddTouches
<1> HIDE DEF t, i
<1>8. /\ DOMAIN state'.vars = DOMAIN t.vars
      /\ state'.vars[i].name = n /\ state'.vars[i].is_string /\ state'.vars[i].initialized
      /\ heap'[state'.vars[i].value.val] = l
      /\ \A j \in DOMAIN t.vars \ {i} : state'.vars[j] = t.vars[j]
      /\ \A a \in DOMAIN heap : heap'[a] = heap[a]
  BY <1>2, <1>5, <1>6, GivenTouches DEF Sound
<1>9. \A j \in DOMAIN t.vars : Owner(t, j) => t.vars[j].value.val \in DOMAIN heap
  BY <1>6 DEF Sound, Owned, OwnedAmong
<1>10. Touched(state, heap, state', heap', i, n)
  BY <1>7, <1>8, <1>9, TouchedAgain
<1>11. AgreeBut(n, declared, declared') /\ OfItsType(state', declared', i)
  BY <1>2, <1>5, <1>8 DEF AgreeBut, OfItsType
<1>12. Settled(state, declared)' /\ Contents' = [Contents EXCEPT ![n] = ValueIn(state', heap', n)]
  BY <1>1, <1>10, <1>11, Wrote
<1>13. ValueIn(state', heap', n) = StringPart(l)
  BY <1>5, <1>6, <1>8, ValueOfVariable
<1>14. Contents[n].kind # "int"
  BY <1>2, Worth
<1>15. UNCHANGED <<Pending, Saying, said>>
  BY <1>2, <1>3, <1>4 DEF Pending, Saying
<1> QED BY <1>1, <1>4, <1>12, <1>13, <1>14, <1>15, MaySetString DEF JInv, Simulated

LEMMA AssignStringStep ==
  ASSUME JInv, NEW n \in Ident, NEW l \in Literal, AssignString(n, l)
  PROVE  /\ JInv' /\ Simulated
         /\ Contents' = [Contents EXCEPT ![n] = StringPart(l)]
<1> DEFINE t == FindOrAdd(state, n)
           i == FindVariable(t, n)
           old == Variable(t, n)
           kept == IF OwnsString(old) THEN Free(heap, {old.value.val}) ELSE heap
<1>1. IInv /\ IInv'
  BY AssignStringInv DEF JInv
<1>2. /\ Item(NoStatement, << >>) /\ stmt.kind = "none" /\ declared[n] = "ch"
      /\ declared' = declared
      /\ state' = Given(t, n, Address(kept)) /\ heap' = Strdup(kept, l)
      /\ stack' = stack /\ UNCHANGED printing
  BY DEF AssignString
<1>3. stack = << >> /\ ~Saying
  BY <1>2, NothingPending
<1>4. Idle' /\ Told' /\ ~Saying' /\ UNCHANGED said
  BY <1>1, <1>2, <1>3, Complete
<1>5. /\ Sound(state, declared, heap) /\ Sound(state', declared', heap')
      /\ items \in Nat /\ DOMAIN heap \subseteq 1 .. items
  BY <1>1 DEF IInv, Memory, Control, Strings, Texts
<1>6. /\ Sound(t, declared, heap)
      /\ i \in DOMAIN t.vars /\ t.vars[i].name = n /\ old = t.vars[i]
  BY <1>5, FoundOrAdded
<1>7. Touched(state, heap, t, heap, i, n)
  BY <1>5, FindOrAddTouches
<1> HIDE DEF t, i, old
<1>8. /\ DOMAIN kept \subseteq 1 .. items
      /\ \A a \in DOMAIN kept : kept[a] = heap[a]
      /\ \A j \in DOMAIN t.vars \ {i} : Owner(t, j) => t.vars[j].value.val \in DOMAIN kept
  <2>1. CASE Owner(t, i)
    <3>1. kept = Free(heap, {t.vars[i].value.val})
      BY <1>6, <2>1 DEF Owner
    <3>2. OwnedAmong(t, kept, DOMAIN t.vars \ {i})
      BY <1>6, <2>1, <3>1, OthersKeep DEF Sound
    <3> QED BY <1>5, <3>1, <3>2 DEF Free, OwnedAmong
  <2>2. CASE ~Owner(t, i)
    <3>1. kept = heap
      BY <1>6, <2>2 DEF Owner
    <3> QED BY <1>5, <1>6, <3>1 DEF Sound, Owned, OwnedAmong
  <2> QED BY <2>1, <2>2
<1> HIDE DEF kept
<1>9. /\ DOMAIN state'.vars = DOMAIN t.vars
      /\ state'.vars[i].name = n /\ state'.vars[i].is_string /\ state'.vars[i].initialized
      /\ heap'[state'.vars[i].value.val] = l
      /\ \A j \in DOMAIN t.vars \ {i} : state'.vars[j] = t.vars[j]
      /\ \A a \in DOMAIN kept : heap'[a] = kept[a]
  BY <1>2, <1>5, <1>6, <1>8, GivenTouches DEF Sound
<1>10. Touched(state, heap, state', heap', i, n)
  BY <1>7, <1>8, <1>9, TouchedAgain
<1>11. AgreeBut(n, declared, declared') /\ OfItsType(state', declared', i)
  BY <1>2, <1>9 DEF AgreeBut, OfItsType
<1>12. Settled(state, declared)' /\ Contents' = [Contents EXCEPT ![n] = ValueIn(state', heap', n)]
  BY <1>1, <1>10, <1>11, Wrote
<1>13. ValueIn(state', heap', n) = StringPart(l)
  BY <1>5, <1>6, <1>9, ValueOfVariable
<1>14. Contents[n].kind # "int"
  BY <1>2, Worth
<1>15. UNCHANGED <<Pending, Saying, said>>
  BY <1>2, <1>3, <1>4 DEF Pending, Saying
<1> QED BY <1>1, <1>4, <1>12, <1>13, <1>14, <1>15, MaySetString DEF JInv, Simulated

(***************************************************************************)
(* Expressions.                                                            *)
(***************************************************************************)

(* The numerals of a sequence of nodes.                                    *)
LEMMA NumeralsAre ==
  ASSUME NEW s \in Seq(Nodes)
  PROVE  /\ Numerals(s) \in Seq(Int) /\ Len(Numerals(s)) = Len(s)
         /\ \A i \in 1 .. Len(s) : Numerals(s)[i] = s[i].val
<1>1. \A i \in 1 .. Len(s) : s[i].val \in Int
  <2>1. \A i \in 1 .. Len(s) : s[i] \in Nodes
    OBVIOUS
  <2> QED BY <2>1 DEF Nodes, Signed
<1>2. Numerals(s) = [i \in 1 .. Len(s) |-> s[i].val]
  BY DEF Numerals
<1>3. Len(s) \in Nat
  OBVIOUS
<1>4. Numerals(s) \in Seq(Int)
  BY <1>1, <1>2, <1>3, SeqDef
<1>5. DOMAIN Numerals(s) = 1 .. Len(Numerals(s)) /\ Len(Numerals(s)) \in Nat
  BY <1>4
<1>6. Len(Numerals(s)) = Len(s)
  BY <1>2, <1>3, <1>4
<1> QED BY <1>2, <1>4, <1>6

(* A node more.                                                            *)
LEMMA NumeralsMore ==
  ASSUME NEW s \in Seq(Nodes), NEW node \in Nodes
  PROVE  Numerals(Append(s, node)) = Append(Numerals(s), node.val)
<1> DEFINE one == Numerals(Append(s, node))
           two == Append(Numerals(s), node.val)
<1>1. /\ Append(s, node) \in Seq(Nodes) /\ Len(Append(s, node)) = Len(s) + 1 /\ Len(s) \in Nat
      /\ \A i \in 1 .. Len(s) : Append(s, node)[i] = s[i]
      /\ Append(s, node)[Len(s) + 1] = node
  OBVIOUS
<1>2. /\ one \in Seq(Int) /\ Len(one) = Len(s) + 1
      /\ \A i \in 1 .. Len(s) + 1 : one[i] = Append(s, node)[i].val
  BY <1>1, NumeralsAre
<1>3. /\ Numerals(s) \in Seq(Int) /\ Len(Numerals(s)) = Len(s)
      /\ \A i \in 1 .. Len(s) : Numerals(s)[i] = s[i].val
  BY NumeralsAre
<1>4. node.val \in Int
  BY DEF Nodes, Signed
<1>5. /\ two \in Seq(Int) /\ Len(two) = Len(s) + 1
      /\ \A i \in 1 .. Len(s) : two[i] = Numerals(s)[i]
      /\ two[Len(s) + 1] = node.val
  BY <1>3, <1>4
<1> HIDE DEF one, two
<1>6. \A i \in 1 .. Len(one) : one[i] = two[i]
  <2>1. \A i \in 1 .. Len(s) + 1 : i \in 1 .. Len(s) \/ i = Len(s) + 1
    BY <1>1
  <2> QED BY <1>1, <1>2, <1>3, <1>5, <2>1
<1>7. one = two
  BY <1>2, <1>5, <1>6, SeqEqual
<1> QED BY <1>7 DEF one, two

(* The operands are taken away.                                            *)
LEMMA NumeralsBelow ==
  ASSUME NEW s \in Seq(Nodes), NEW k \in {1, 2}, Len(s) >= k
  PROVE  Numerals(SubSeq(s, 1, Len(s) - k)) = SubSeq(Numerals(s), 1, Len(Numerals(s)) - k)
<1> DEFINE below == SubSeq(s, 1, Len(s) - k)
           one == Numerals(below)
           two == SubSeq(Numerals(s), 1, Len(Numerals(s)) - k)
           m == Len(s) - k
<1>1. m \in Nat /\ Len(s) \in Nat /\ below \in Seq(Nodes)
  BY Below
<1>2. Len(below) = m /\ \A i \in 1 .. m : below[i] = s[i]
  BY <1>1
<1>3. one \in Seq(Int) /\ Len(one) = m /\ \A i \in 1 .. m : one[i] = below[i].val
  BY <1>1, <1>2, NumeralsAre
<1>4. /\ Numerals(s) \in Seq(Int) /\ Len(Numerals(s)) = Len(s)
      /\ \A i \in 1 .. Len(s) : Numerals(s)[i] = s[i].val
  BY NumeralsAre
<1>5. \A i \in 1 .. m : i \in 1 .. Len(s) /\ Numerals(s)[i] \in Int
  BY <1>1, <1>4
<1>6. /\ two \in Seq(Int) /\ Len(two) = m
      /\ \A i \in 1 .. m : two[i] = Numerals(s)[i]
  <2> DEFINE q == Numerals(s)
  <2>1. q \in Seq(Int) /\ Len(q) = Len(s)
    BY <1>4
  <2> HIDE DEF q
  <2>2. 1 \in 1 .. Len(q) + 1 /\ m \in 1 - 1 .. Len(q)
    BY <1>1, <2>1
  <2> HIDE DEF m
  <2>3. /\ SubSeq(q, 1, m) \in Seq(Int) /\ Len(SubSeq(q, 1, m)) = m - 1 + 1
        /\ \A i \in 1 .. m - 1 + 1 : SubSeq(q, 1, m)[i] = q[1 + i - 1]
    BY <2>1, <2>2, SubSeqProperties
  <2>4. /\ SubSeq(q, 1, m) \in Seq(Int) /\ Len(SubSeq(q, 1, m)) = m
        /\ \A i \in 1 .. m : SubSeq(q, 1, m)[i] = q[i]
    BY <1>1, <2>3
  <2>5. two = SubSeq(q, 1, m)
    BY <1>4 DEF q, m
  <2> QED BY <2>4, <2>5 DEF q
<1> HIDE DEF one, two, below, m
<1>7. \A i \in 1 .. Len(one) : one[i] = two[i]
  BY <1>2, <1>3, <1>4, <1>5, <1>6
<1>8. one = two
  BY <1>3, <1>6, <1>7, SeqEqual
<1> QED BY <1>8 DEF one, two, below

(***************************************************************************)
(* Steps that leave the variables alone.                                   *)
(***************************************************************************)
LEMMA ContentsStay ==
  ASSUME JInv, UNCHANGED <<declared, memory>>
  PROVE  Settled(state, declared)' /\ UNCHANGED Contents
<1>1. state' = state /\ heap' = heap /\ declared' = declared
  BY DEF memory
<1> QED BY <1>1, ContentsAre DEF JInv, Settled

LEMMA NodeStep ==
  ASSUME JInv, IInv', NEW below \in Seq(Nodes), NEW node \in Nodes, Push(below, node),
         UNCHANGED <<declared, memory, printing>>, stmt.kind # "none"
  PROVE  /\ JInv' /\ Pending' = Append(Numerals(below), node.val)
         /\ UNCHANGED <<Contents, Saying, said>>
<1>1. stmt' = stmt /\ stack' = Append(below, node) /\ state' = state /\ said' = said
  BY DEF Push, Item, memory, printing
<1>2. Settled(state, declared)' /\ UNCHANGED Contents
  BY ContentsStay
<1>3. Idle' /\ Told' /\ UNCHANGED Saying
  BY <1>1 DEF JInv, Idle, Told, TextLast, Saying
<1>4. Pending' = Append(Numerals(below), node.val)
  BY <1>1, NumeralsMore DEF Pending
<1> QED BY <1>1, <1>2, <1>3, <1>4 DEF JInv

LEMMA NumberNodeStep ==
  ASSUME JInv, NEW k \in Numeral, NumberNode(k)
  PROVE  JInv' /\ Simulated /\ UNCHANGED Contents
<1>1. IInv' /\ stack \in Seq(Nodes)
  BY NumberNodeInv DEF JInv, IInv, Operands
<1>2. Evaluated("num", k) \in Nodes /\ Evaluated("num", k).val = k
  BY NumeralRange DEF Evaluated, Nodes
<1>3. /\ Push(stack, Evaluated("num", k)) /\ stmt.kind # "none"
      /\ UNCHANGED <<declared, memory, printing>>
  BY DEF NumberNode
<1>4. JInv' /\ Pending' = Append(Pending, k) /\ UNCHANGED <<Contents, Saying, said>>
  BY <1>1, <1>2, <1>3, NodeStep DEF Pending
<1>5. k \in Number \cup {-1}
  BY DEF Numeral
<1> QED BY <1>4, <1>5, MayPush DEF Simulated

LEMMA IdentifierStep ==
  ASSUME JInv, NEW n \in Ident, Identifier(n)
  PROVE  /\ JInv' /\ Simulated /\ UNCHANGED Contents
         /\ stack' = Append(stack, Evaluated("id", Abstract!IntOf(Contents[n])))
<1>1. IInv /\ IInv' /\ stack \in Seq(Nodes) /\ mode = "run" /\ declared[n] # "none"
  BY IdentifierInv DEF JInv, IInv, Operands, Identifier, Push, Item
<1>2. Sound(state, declared, heap)
  BY <1>1 DEF IInv, Memory
<1>3. PICK i \in DOMAIN state.vars : state.vars[i].name = n
  BY <1>1 DEF IInv, Population
<1> DEFINE var == state.vars[i]
           value == GetIntValue(var)
<1>4. FindOrAdd(state, n) = state /\ Variable(state, n) = var
  BY <1>2, <1>3, Found DEF Sound
<1>5. var \in Variables /\ (~var.is_string => var.value.val \in Signed(INT_HALF))
  BY <1>2 DEF Sound, Array, Numbers
<1>6. value = Abstract!IntOf(Contents[n])
  <2>1. /\ ~var.initialized => Contents[n] = Unset
        /\ var.initialized /\ ~var.is_string => Contents[n] = IntPart(var.value.val)
        /\ var.initialized /\ var.is_string => Contents[n] = StringPart(heap[var.value.val])
    BY <1>2, <1>3, ValueOfVariable, ContentsAre
  <2>2. var.initialized \in BOOLEAN /\ var.is_string \in BOOLEAN
    BY <1>5 DEF Variables
  <2> HIDE DEF var
  <2>3. CASE ~var.initialized
    BY <2>1, <2>3 DEF GetIntValue, Abstract!IntOf, Unset
  <2>4. CASE var.initialized /\ ~var.is_string
    BY <2>1, <2>4 DEF GetIntValue, Abstract!IntOf, IntPart
  <2>5. CASE var.initialized /\ var.is_string
    BY <2>1, <2>5 DEF GetIntValue, Abstract!IntOf, StringPart
  <2> QED BY <2>2, <2>3, <2>4, <2>5
<1>7. Evaluated("id", value) \in Nodes /\ Evaluated("id", value).val = value
  <2>1. 0 \in Signed(INT_HALF)
    BY InterpreterAssumption DEF Signed
  <2>2. value \in Signed(INT_HALF)
    BY <1>5, <2>1 DEF GetIntValue, Variables
  <2> QED BY <2>2 DEF Evaluated, Nodes
<1>8. /\ Push(stack, Evaluated("id", value)) /\ stmt.kind # "none"
      /\ UNCHANGED <<declared, memory, printing>>
  BY <1>4 DEF Identifier, memory
<1> HIDE DEF value
<1>9. JInv' /\ Pending' = Append(Pending, value) /\ UNCHANGED <<Contents, Saying, said>>
  BY <1>1, <1>7, <1>8, NodeStep DEF Pending
<1>10. \E m \in Ident : value = Abstract!IntOf(Contents[m])
  BY <1>6
<1>11. stack' = Append(stack, Evaluated("id", Abstract!IntOf(Contents[n])))
  BY <1>6, <1>8 DEF Push
<1> QED BY <1>9, <1>10, <1>11, MayPush DEF Simulated

LEMMA OperateStep ==
  ASSUME JInv, NEW op \in {"+", "-", "*", "/"}, Operate(op)
  PROVE  JInv' /\ Simulated /\ UNCHANGED Contents
<1>1. /\ IInv' /\ stack \in Seq(Nodes) /\ Len(stack) >= 2 /\ Len(stack) \in Nat
      /\ stmt.kind # "none"
  BY OperateInv DEF JInv, IInv, Operands, Idle, Operate
<1> DEFINE below == SubSeq(stack, 1, Len(stack) - 2)
           v == Binop(op, LeftValue, RightValue)
<1>2. LeftValue \in Signed(INT_HALF) /\ RightValue \in Signed(INT_HALF)
  <2>1. stack[Len(stack) - 1] \in Nodes /\ stack[Len(stack)] \in Nodes
    BY <1>1
  <2> QED BY <2>1 DEF LeftValue, RightValue, Nodes
<1>3. v \in Signed(INT_HALF)
  BY <1>2, BinopRange
<1>4. Push(below, Evaluated("binop", v)) /\ UNCHANGED <<declared, memory, printing>>
  BY DEF Operate
<1>5. below \in Seq(Nodes) /\ Numerals(below) = SubSeq(Pending, 1, Len(Pending) - 2)
  BY <1>1, Below, NumeralsBelow DEF Pending
<1>6. /\ Len(Pending) = Len(stack)
      /\ Pending[Len(Pending) - 1] = LeftValue /\ Pending[Len(Pending)] = RightValue
  BY <1>1, NumeralsAre DEF Pending, LeftValue, RightValue
<1> HIDE DEF below, v
<1>7. Evaluated("binop", v) \in Nodes /\ Evaluated("binop", v).val = v
  BY <1>3 DEF Evaluated, Nodes
<1>8. JInv' /\ Pending' = Append(Numerals(below), v) /\ UNCHANGED <<Contents, Saying, said>>
  BY <1>1, <1>4, <1>5, <1>7, NodeStep
<1>9. Pending' = Append(SubSeq(Pending, 1, Len(Pending) - 2),
                        Binop(op, Pending[Len(Pending) - 1], Pending[Len(Pending)]))
  BY <1>5, <1>6, <1>8 DEF v
<1>10. Len(Pending) >= 2
  BY <1>1, <1>6
<1> QED BY <1>8, <1>9, <1>10, MayOperate DEF Simulated

(***************************************************************************)
(* Prints.                                                                 *)
(***************************************************************************)
LEMMA BeginPrintStep ==
  ASSUME JInv, BeginPrint
  PROVE  JInv' /\ Simulated /\ UNCHANGED Contents
<1>1. IInv' /\ stack = << >>
  BY BeginPrintInv, NothingPending DEF JInv, BeginPrint
<1>2. /\ stmt' = Opening("print", "nothing") /\ stack' = stack
      /\ UNCHANGED <<declared, memory>> /\ said' = said
  BY DEF BeginPrint, Item, printing
<1>3. Settled(state, declared)' /\ UNCHANGED Contents
  BY <1>2, ContentsStay
<1>4. Idle' /\ Told' /\ Saying'
  BY <1>2 DEF Opening, Idle, Told, Saying
<1>5. UNCHANGED <<Contents, Pending, said>>
  BY <1>2, <1>3 DEF Pending
<1> QED BY <1>1, <1>3, <1>4, <1>5, MayBeginPrint DEF JInv, Simulated

(* A part is printed: the language sees it, and the next item knows it.    *)
LEMMA PartStep ==
  ASSUME JInv, IInv', NEW last \in {"STR", "ID", "expression"}, NEW n, NEW part,
         Part(last, n), CapturePart(part), UNCHANGED <<declared, memory>>,
         part.kind = "str" <=>
           \/ last = "STR"
           \/ last = "ID" /\ Matching(state, n) # {} /\ Variable(state, n).is_string
  PROVE  /\ JInv' /\ said' = [part |-> part, count |-> said.count + 1]
         /\ Saying /\ UNCHANGED <<Contents, Saying>>
<1>1. /\ stmt.kind = "print" /\ stmt' = [kind |-> "print", name |-> n, last |-> last]
      /\ said' = [part |-> part, count |-> said.count + 1]
  BY DEF Part, Item, CapturePart
<1>2. Settled(state, declared)' /\ UNCHANGED Contents
  BY ContentsStay
<1>3. state' = state
  BY DEF memory
<1>4. Idle' /\ Saying /\ UNCHANGED Saying
  BY <1>1 DEF Idle, Saying
<1>5. Told'
  <2>1. stmt'.last = last /\ stmt'.name = n /\ stmt'.kind = "print" /\ said'.part = part
    BY <1>1
  <2> QED BY <1>3, <2>1 DEF Told, TextLast
<1> QED BY <1>1, <1>2, <1>4, <1>5 DEF JInv

LEMMA PrintLiteralStep ==
  ASSUME JInv, NEW l \in Literal, PrintLiteral(l)
  PROVE  JInv' /\ Simulated /\ UNCHANGED Contents
<1>1. IInv'
  BY PrintLiteralInv DEF JInv
<1> DEFINE part == StringPart(l)
<1>2. /\ Part("STR", "nothing") /\ CapturePart(part) /\ UNCHANGED <<declared, memory>>
      /\ UNCHANGED Pending
  BY DEF PrintLiteral, Pending
<1>3. part.kind = "str" /\ \E m \in Literal : part = StringPart(m)
  BY DEF StringPart
<1> HIDE DEF part
<1>4. /\ JInv' /\ said' = [part |-> part, count |-> said.count + 1]
      /\ Saying /\ UNCHANGED <<Contents, Saying>>
  BY <1>1, <1>2, <1>3, PartStep
<1> QED BY <1>2, <1>3, <1>4, MaySay DEF Simulated

LEMMA PrintVariableStep ==
  ASSUME JInv, NEW n \in Ident, PrintVariable(n)
  PROVE  /\ JInv' /\ Simulated /\ UNCHANGED Contents
         /\ said'.part = Abstract!TextOf(Contents[n])
<1>1. IInv /\ IInv'
  BY PrintVariableInv DEF JInv
<1> DEFINE var == Variable(state, n)
           known == Matching(state, n) # {} /\ var.initialized
           part == CASE ~known -> IntPart(0)
                     [] known /\ ~var.is_string -> IntPart(var.value.val)
                     [] known /\ var.is_string /\ Dangles(var) -> StringPart(Garbage)
                     [] OTHER -> StringPart(heap[var.value.val])
<1>2. /\ mode = "run" /\ declared[n] # "none" /\ Sound(state, declared, heap)
  BY <1>1 DEF PrintVariable, Part, Item, IInv, Memory
<1>3. PICK i \in DOMAIN state.vars : state.vars[i].name = n
  BY <1>1, <1>2 DEF IInv, Population
<1>4. var = state.vars[i] /\ Matching(state, n) # {}
  BY <1>2, <1>3, Found DEF Sound
<1>5. var.initialized \in BOOLEAN /\ var.is_string \in BOOLEAN
  <2>1. state.vars[i] \in Variables
    BY <1>2, <1>3 DEF Sound, Array
  <2> QED BY <1>4, <2>1 DEF Variables
<1>6. var.is_string => var.initialized
  BY <1>3, <1>4 DEF JInv, Settled
<1>7. /\ ~var.initialized => Contents[n] = Unset
      /\ var.initialized /\ ~var.is_string => Contents[n] = IntPart(var.value.val)
      /\ var.initialized /\ var.is_string =>
           Contents[n] = StringPart(heap[var.value.val])
  BY <1>2, <1>3, <1>4, ValueOfVariable, ContentsAre
<1>8. var.initialized /\ var.is_string => ~Dangles(var)
  <2>1. Owner(state, i) =>
          state.vars[i].value.as = "str" /\ state.vars[i].value.val \in DOMAIN heap
    BY <1>2, <1>3 DEF Sound, Owned, OwnedAmong
  <2>2. var.initialized /\ var.is_string => Owner(state, i)
    BY <1>4 DEF Owner, OwnsString
  <2> QED BY <1>4, <2>1, <2>2 DEF Dangles
<1>9. /\ Part("ID", n) /\ CapturePart(part) /\ UNCHANGED <<declared, memory, stack>>
  BY DEF PrintVariable
<1> HIDE DEF var
<1>10. part = Abstract!TextOf(Contents[n]) /\ (part.kind = "str" <=> var.is_string)
  <2>1. CASE ~var.initialized
    <3>1. part = IntPart(0) /\ ~var.is_string /\ Contents[n] = Unset
      BY <1>4, <1>5, <1>6, <1>7, <2>1
    <3> QED BY <3>1 DEF IntPart, Unset, Abstract!TextOf, Abstract!IntVal, Abstract!IntOf
  <2>2. CASE var.initialized /\ ~var.is_string
    <3>1. part = IntPart(var.value.val) /\ Contents[n] = IntPart(var.value.val)
      BY <1>4, <1>5, <1>7, <2>2
    <3> HIDE DEF part
    <3> QED BY <2>2, <3>1 DEF IntPart, Abstract!TextOf, Abstract!IntVal, Abstract!IntOf
  <2>3. CASE var.initialized /\ var.is_string
    <3>1. /\ part = StringPart(heap[var.value.val])
          /\ Contents[n] = StringPart(heap[var.value.val])
      BY <1>4, <1>5, <1>7, <1>8, <2>3
    <3> HIDE DEF part
    <3> QED BY <2>3, <3>1 DEF StringPart, Abstract!TextOf
  <2> QED BY <1>5, <2>1, <2>2, <2>3
<1> HIDE DEF part
<1>11. /\ JInv' /\ said' = [part |-> part, count |-> said.count + 1]
       /\ Saying /\ UNCHANGED <<Contents, Saying>>
  <2>1. /\ UNCHANGED <<declared, memory>> /\ "ID" \in {"STR", "ID", "expression"}
        /\ part.kind = "str" <=>
             \/ "ID" = "STR"
             \/ "ID" = "ID" /\ Matching(state, n) # {} /\ Variable(state, n).is_string
    BY <1>4, <1>9, <1>10 DEF var
  <2> QED BY <1>1, <1>9, <2>1, PartStep
<1>12. UNCHANGED Pending /\ \E m \in Ident : part = Abstract!TextOf(Contents[m])
  BY <1>9, <1>10 DEF Pending
<1>13. said'.part = Abstract!TextOf(Contents[n])
  BY <1>10, <1>11
<1> QED BY <1>11, <1>12, <1>13, MaySay DEF Simulated

LEMMA PrintExpressionStep ==
  ASSUME JInv, PrintExpression
  PROVE  JInv' /\ Simulated /\ UNCHANGED Contents
<1>1. IInv' /\ stack \in Seq(Nodes)
  BY PrintExpressionInv DEF JInv, IInv, Operands
<1> DEFINE part == IntPart(stack[1].val)
<1>2. /\ Len(stack) = 1 /\ Part("expression", "nothing") /\ CapturePart(part)
      /\ UNCHANGED <<declared, memory>> /\ stack' = << >>
  BY DEF PrintExpression
<1>3. part.kind # "str"
  BY DEF IntPart
<1>4. Len(Pending) = 1 /\ part = IntPart(Pending[1])
  BY <1>1, <1>2, NumeralsAre DEF Pending
<1>5. Pending' = << >>
  BY <1>2 DEF Pending, Numerals
<1> HIDE DEF part
<1>6. /\ JInv' /\ said' = [part |-> part, count |-> said.count + 1]
      /\ Saying /\ UNCHANGED <<Contents, Saying>>
  BY <1>1, <1>2, <1>3, PartStep
<1> QED BY <1>4, <1>5, <1>6, MaySay DEF Simulated

(* The newline is left out exactly when the language leaves it out.        *)
LEMMA EndPrintStep ==
  ASSUME JInv, EndPrint
  PROVE  JInv' /\ Simulated /\ UNCHANGED Contents
<1>1. IInv'
  BY EndPrintInv DEF JInv
<1>2. /\ stmt.last # "nothing" /\ stack = << >> /\ stmt' = NoStatement
      /\ UNCHANGED <<declared, memory>> /\ stack' = stack
      /\ IF TextLast THEN UNCHANGED printing ELSE CapturePart(NewlinePart)
  BY DEF EndPrint, Item, TextLast
<1>3. Saying /\ (TextLast <=> said.part.kind = "str")
  BY <1>2 DEF JInv, Told, Saying
<1>4. Settled(state, declared)' /\ UNCHANGED Contents
  BY <1>2, ContentsStay
<1>5. Idle' /\ Told' /\ ~Saying' /\ UNCHANGED Pending
  BY <1>2 DEF NoStatement, Idle, Told, Saying, Pending
<1>6. IF said.part.kind = "str" THEN UNCHANGED said
      ELSE said' = [part |-> NewlinePart, count |-> said.count + 1]
  BY <1>2, <1>3 DEF printing, CapturePart
<1> QED BY <1>1, <1>3, <1>4, <1>5, <1>6, MayEndPrint DEF JInv, Simulated

LEMMA ReturnStep ==
  ASSUME JInv, Return
  PROVE  JInv' /\ Simulated
<1>1. IInv' /\ stack = << >> /\ Pending = << >> /\ ~Saying
  BY ReturnInv, NothingPending DEF JInv, Return
<1>2. /\ stmt' = stmt /\ stack' = stack /\ said' = said /\ stmt.kind = "none"
      /\ state' = [vars |-> << >>, var_capacity |-> 0]
  BY DEF Return, statement
<1>3. DOMAIN state'.vars = {}
  BY <1>2
<1>4. Settled(state', declared')
  BY <1>3 DEF Settled
<1>5. Contents' = [n \in Ident |-> Undeclared]
  <2>1. \A n \in Ident : ValueIn(state', heap', n) = Undeclared
    BY <1>3, ValueOfNobody
  <2> QED BY <2>1, ContentsAre
<1>6. Idle' /\ Told' /\ UNCHANGED <<Pending, Saying, said>>
  BY <1>1, <1>2 DEF JInv, Idle, Told, Pending, Saying
<1> QED BY <1>1, <1>4, <1>5, <1>6, MayExit DEF JInv, Simulated

LEMMA StutterStep ==
  ASSUME JInv, UNCHANGED vars
  PROVE  JInv' /\ Simulated /\ UNCHANGED Contents
<1>1. IInv'
  BY StutterInv DEF JInv
<1>2. /\ stmt' = stmt /\ declared' = declared /\ state' = state /\ heap' = heap
      /\ stack' = stack /\ said' = said /\ UNCHANGED <<declared, memory>>
  BY DEF vars, statement, memory, printing
<1>3. Settled(state, declared)' /\ UNCHANGED Contents
  BY <1>2, ContentsStay
<1>4. Idle' /\ Told' /\ Kept
  BY <1>2, <1>3 DEF JInv, Idle, Told, TextLast, Pending, Saying, Kept
<1> QED BY <1>1, <1>3, <1>4, MayStutter DEF JInv, Simulated

(***************************************************************************)
(* The refinement.                                                         *)
(***************************************************************************)
LEMMA InitStep ==
  ASSUME Init
  PROVE  JInv /\ Abstract!Init
<1>1. IInv
  BY InitInv
<1>2. /\ state = [vars |-> << >>, var_capacity |-> INITIAL_CAPACITY] /\ stack = << >>
      /\ stmt = NoStatement /\ said = [part |-> [kind |-> "newline"], count |-> 0]
  BY DEF Init
<1>3. DOMAIN state.vars = {}
  BY <1>2
<1>4. Settled(state, declared) /\ Idle /\ Told
  BY <1>2, <1>3 DEF Settled, Idle, Told, NoStatement
<1>5. Contents = [n \in Ident |-> Undeclared]
  <2>1. \A n \in Ident : ValueIn(state, heap, n) = Undeclared
    BY <1>3, ValueOfNobody
  <2> QED BY <2>1, ContentsAre
<1>6. Pending = << >> /\ ~Saying
  BY <1>2 DEF Pending, Numerals, Saying, NoStatement
<1>7. Abstract!Init
  BY <1>2, <1>5, <1>6
     DEF Abstract!Init, Abstract!Undeclared, Abstract!Newline, Contents, Undeclared, Pending,
         Numerals, Saying
<1> QED BY <1>1, <1>4, <1>7 DEF JInv

LEMMA StepSimulated ==
  ASSUME JInv, [Next]_vars
  PROVE  JInv' /\ Simulated
<1>1. ASSUME NEW n \in Ident, NEW type \in {"int", "ch"}, Declare(n, type) PROVE JInv' /\ Simulated
  BY <1>1, DeclareStep
<1>2. ASSUME NEW n \in Ident, NEW kind \in {"decl", "assign"}, Target(kind, n)
      PROVE  JInv' /\ Simulated
  BY <1>2, TargetStep
<1>3. ASSUME NEW n \in Ident, NEW l \in Literal, DeclareString(n, l) PROVE JInv' /\ Simulated
  BY <1>3, DeclareStringStep
<1>4. ASSUME NEW n \in Ident, NEW l \in Literal, AssignString(n, l) PROVE JInv' /\ Simulated
  BY <1>4, AssignStringStep
<1>5. ASSUME NEW n \in Ident, Identifier(n) PROVE JInv' /\ Simulated
  BY <1>5, IdentifierStep
<1>6. ASSUME NEW n \in Ident, PrintVariable(n) PROVE JInv' /\ Simulated
  BY <1>6, PrintVariableStep
<1>7. ASSUME NEW k \in Numeral, NumberNode(k) PROVE JInv' /\ Simulated
  BY <1>7, NumberNodeStep
<1>8. ASSUME NEW op \in {"+", "-", "*", "/"}, Operate(op) PROVE JInv' /\ Simulated
  BY <1>8, OperateStep
<1>9. ASSUME NEW l \in Literal, PrintLiteral(l) PROVE JInv' /\ Simulated
  BY <1>9, PrintLiteralStep
<1>10. CASE Store \/ BeginPrint \/ PrintExpression \/ EndPrint \/ Return
  BY <1>10, StoreStep, BeginPrintStep, PrintExpressionStep, EndPrintStep,
     ReturnStep
<1>11. CASE Finished \/ UNCHANGED vars
  BY <1>11, StutterStep DEF Finished
<1> QED
  BY <1>1, <1>2, <1>3, <1>4, <1>5, <1>6, <1>7, <1>8, <1>9, <1>10, <1>11 DEF Next

(* Whatever a program does to the array of variables, the union in each,   *)
(* the heap and the pointer that is kept while an expression is evaluated, *)
(* the interpreter reads and prints the value last given to the name, and  *)
(* ends lines where the language does.                                     *)
THEOREM InterpreterImplementsLanguage == Spec => ImplementsLanguage
BY InitStep, StepSimulated, PTL DEF Spec, ImplementsLanguage, Abstract!Spec, Simulated

-----------------------------------------------------------------------------
(* Both back ends.                                                         *)

(***************************************************************************)
(* Wrapping.                                                               *)
(***************************************************************************)
LEMMA Division ==
  ASSUME NEW m \in Nat \ {0}, NEW x \in Int
  PROVE  /\ x % m \in 0 .. m - 1 /\ x \div m \in Int
         /\ x = m * (x \div m) + (x % m)
OBVIOUS

LEMMA Multiples ==
  ASSUME NEW m \in Nat \ {0}, NEW k \in Int, 0 < k * m + m, k * m < m
  PROVE  k = 0
<1>1. CASE k >= 1
  <2>1. k * m >= 1 * m
    BY <1>1
  <2> QED BY <2>1
<1>2. CASE k <= -1
  <2>1. k * m <= (-1) * m
    BY <1>2
  <2> QED BY <2>1
<1> QED BY <1>1, <1>2

LEMMA Remainder ==
  ASSUME NEW m \in Nat \ {0}, NEW q \in Int, NEW r \in 0 .. m - 1
  PROVE  (m * q + r) % m = r
<1> DEFINE x == m * q + r
<1>1. x \in Int
  OBVIOUS
<1> DEFINE p == x \div m
           s == x % m
<1>2. s \in 0 .. m - 1 /\ p \in Int /\ x = m * p + s
  BY <1>1, Division
<1> HIDE DEF p, s
<1>3. m * p - m * q = r - s
  BY <1>2
<1>4. m * p - m * q = (p - q) * m
  BY <1>2
<1>5. 0 < (p - q) * m + m /\ (p - q) * m < m
  BY <1>2, <1>3, <1>4
<1>6. p - q = 0
  <2> DEFINE k == p - q
  <2>1. k \in Int
    BY <1>2
  <2>2. 0 < k * m + m /\ k * m < m
    BY <1>5
  <2> HIDE DEF k
  <2>3. k = 0
    BY <2>1, <2>2, Multiples
  <2> QED BY <2>3 DEF k
<1>7. s = r
  BY <1>2, <1>3, <1>6
<1> QED BY <1>7 DEF s

(* Wrapping adds a multiple of the width, and forgets any.                 *)
LEMMA WrapAdds ==
  ASSUME NEW half \in Nat \ {0}, NEW n \in Int
  PROVE  /\ Wrap(half, n) \in Signed(half) /\ Wrap(half, n) \in Int
         /\ \E k \in Int : Wrap(half, n) = n + k * (2 * half)
<1> DEFINE m == 2 * half
           x == n + half
           q == x \div m
           r == x % m
<1>1. m \in Nat \ {0} /\ x \in Int
  OBVIOUS
<1> HIDE DEF m, x
<1>2. r \in 0 .. m - 1 /\ q \in Int /\ x = m * q + r
  BY <1>1, Division
<1>3. Wrap(half, n) = r - half
  BY DEF Wrap, x, m
<1> HIDE DEF q, r
<1>4. Wrap(half, n) \in Signed(half) /\ Wrap(half, n) \in Int
  BY <1>2, <1>3 DEF Signed, m
<1>5. r - half = n - m * q
  BY <1>1, <1>2 DEF x
<1>6. n - m * q = n + (-q) * m
  BY <1>1, <1>2
<1>7. Wrap(half, n) = n + (-q) * (2 * half) /\ -q \in Int
  BY <1>2, <1>3, <1>5, <1>6 DEF m
<1> QED BY <1>4, <1>7

LEMMA WrapOfSigned ==
  ASSUME NEW half \in Nat \ {0}, NEW n \in Signed(half)
  PROVE  Wrap(half, n) = n
<1> DEFINE m == 2 * half
           r == n + half
<1>1. m \in Nat \ {0} /\ r \in 0 .. m - 1 /\ n \in Int
  BY DEF Signed
<1> HIDE DEF m, r
<1>2. (m * 0 + r) % m = r
  BY <1>1, Remainder
<1>3. m * 0 + r = r
  BY <1>1
<1>4. r % m = r
  BY <1>2, <1>3
<1>5. r - half = n
  BY <1>1 DEF r
<1> QED BY <1>4, <1>5 DEF Wrap, m, r

LEMMA WrapForgets ==
  ASSUME NEW half \in Nat \ {0}, NEW n \in Int, NEW k \in Int
  PROVE  Wrap(half, n + k * (2 * half)) = Wrap(half, n)
<1> DEFINE m == 2 * half
           x == n + half
           q == x \div m
           r == x % m
           y == n + k * m + half
<1>1. m \in Nat \ {0} /\ x \in Int
  OBVIOUS
<1> HIDE DEF m, x
<1>2. r \in 0 .. m - 1 /\ q \in Int /\ x = m * q + r
  BY <1>1, Division
<1> HIDE DEF q, r
<1>3. y = m * (q + k) + r
  <2>1. y = x + k * m
    BY <1>1 DEF x
  <2>2. m * q + k * m = m * (q + k)
    BY <1>1, <1>2
  <2>3. k * m \in Int /\ m * q \in Int /\ m * (q + k) \in Int
    BY <1>1, <1>2
  <2> QED BY <1>1, <1>2, <2>1, <2>2, <2>3
<1> HIDE DEF y
<1>4. y % m = r
  <2>1. q + k \in Int
    BY <1>2
  <2> QED BY <1>1, <1>2, <1>3, <2>1, Remainder
<1>5. Wrap(half, n) = r - half
  BY DEF Wrap, r, m, x
<1>6. Wrap(half, n + k * m) = (y % m) - half
  BY DEF Wrap, m, y
<1> QED BY <1>4, <1>5, <1>6 DEF m

(* A wider register keeps the low bits.                                    *)
LEMMA WrapWider ==
  ASSUME NEW half \in Nat \ {0}, NEW wide \in Nat \ {0}, wide % half = 0, NEW n \in Int
  PROVE  Wrap(half, Wrap(wide, n)) = Wrap(half, n)
<1>1. PICK k \in Int : Wrap(wide, n) = n + k * (2 * wide)
  BY WrapAdds
<1> DEFINE q == wide \div half
<1>2. q \in Int /\ wide = half * q + 0
  BY Division
<1> HIDE DEF q
<1>3. k * (2 * wide) = (k * q) * (2 * half)
  BY <1>2
<1>4. k * q \in Int
  BY <1>2
<1>5. Wrap(half, n + (k * q) * (2 * half)) = Wrap(half, n)
  BY <1>4, WrapForgets
<1> QED BY <1>1, <1>3, <1>5

(* The low bits of a result depend on the low bits of the operands only.   *)
LEMMA WrapOperands ==
  ASSUME NEW half \in Nat \ {0}, NEW op \in {"+", "-", "*"}, NEW a \in Int, NEW b \in Int
  PROVE  Wrap(half, Operation(op, Wrap(half, a), Wrap(half, b))) =
         Wrap(half, Operation(op, a, b))
<1> DEFINE m == 2 * half
           l == Wrap(half, a)
           r == Wrap(half, b)
<1>1. PICK i \in Int : l = a + i * (2 * half)
  BY WrapAdds
<1>2. PICK j \in Int : r = b + j * (2 * half)
  BY WrapAdds
<1>3. l = a + i * m /\ r = b + j * m /\ m \in Int
  BY <1>1, <1>2
<1> HIDE DEF m, l, r
<1>4. l + r = (a + b) + (i + j) * m /\ a + b \in Int /\ i + j \in Int
  BY <1>3
<1>5. l - r = (a - b) + (i - j) * m /\ a - b \in Int /\ i - j \in Int
  BY <1>3
<1>6. /\ l * r = a * b + (a * j + i * b + i * j * m) * m
      /\ a * b \in Int /\ a * j + i * b + i * j * m \in Int
  <2>1. (a + i * m) * (b + j * m) = a * b + (a * j + i * b + i * j * m) * m
    BY <1>3
  <2> QED BY <1>3, <2>1
<1>7. CASE op = "+"
  BY <1>4, <1>7, WrapForgets DEF Operation, m, l, r
<1>8. CASE op = "-"
  BY <1>5, <1>8, WrapForgets DEF Operation, m, l, r
<1>9. CASE op = "*"
  BY <1>6, <1>9, WrapForgets DEF Operation, m, l, r
<1> QED BY <1>7, <1>8, <1>9

(***************************************************************************)
(* The temporaries go round.                                               *)
(***************************************************************************)
After(t) == IF t + 1 > temp_max THEN temp_start ELSE t + 1

(* k temporaries behind r.                                                 *)
Ahead(r, k) == IF r + k > temp_max THEN r + k - NTemps ELSE r + k

LEMMA Circle ==
  ASSUME NEW r \in Temps, NEW k \in 1 .. NTemps
  PROVE  /\ Ahead(r, k) \in Temps /\ After(r) = Ahead(r, 1)
         /\ k < NTemps => Ahead(r, k) # r /\ After(Ahead(r, k)) = Ahead(r, k + 1)
BY TemporariesAssumption DEF Ahead, After, Temps, NTemps

LEMMA AnyTemps == NTemps \in Nat \ {0} /\ temp_start \in Temps
BY TemporariesAssumption DEF Temps, NTemps

(***************************************************************************)
(* The inductive invariant.                                                *)
(***************************************************************************)
Readings == [known : BOOLEAN, val : Int]

Marks == [reg : Temps, at : Nat]

(* How many nodes were emitted after the i-th one that is pending.         *)
Age(i) == Emitted - nodes[i].at

(* A node that is not older than the circle is long has its temporary      *)
(* still, and the next one to be used is as far ahead as the node is old.  *)
Turning ==
  /\ nodes \in Seq(Marks) /\ regs \in [Temps -> Readings] /\ temp_next \in Temps
  /\ \A i \in 1 .. Len(nodes) :
       /\ nodes[i].at <= Emitted
       /\ Age(i) < NTemps => temp_next = Ahead(nodes[i].reg, Age(i) + 1)

(* The processor's value v is as close to the interpreter's w as e says.   *)
Follows(e, v, w) ==
  v.known => /\ e = "exact" => v.val = w
             /\ e \in {"exact", "wrapped"} => Wrap(INT_HALF, v.val) = w

Devices ==
  /\ Turning /\ Len(nodes) = Len(stack)
  /\ mem \in [Ident -> Readings]
  /\ exact \in {"exact", "wrapped", "lost"}

(* The cell of a string is never taken for a number.                       *)
Mirrors(e, cell, value) ==
  /\ Follows(e, cell, Abstract!IntOf(value))
  /\ value.kind = "str" => ~cell.known

RegistersFollow ==
  \A i \in 1 .. Len(stack) :
    Age(i) < NTemps => Follows(exact, regs[nodes[i].reg], stack[i].val)

MemoryMirrors == \A n \in Ident : Mirrors(exact, mem[n], Contents[n])

Abreast == mode = "run" => RegistersFollow /\ MemoryMirrors

StringParts == {StringPart(l) : l \in Literal}

(* The texts in .data, and what was printed of them.                       *)
Shelved ==
  /\ text \in [Ident -> StringParts \cup {NoText}]
  /\ told \in [Ident -> SUBSET StringParts]
  /\ \A n \in Ident : /\ text[n] = NoText => told[n] = {}
                      /\ n \notin late => told[n] \subseteq {text[n]}

TextsFollow == mode = "run" => \A n \in Ident : text[n] # NoText => text[n] = Contents[n]

Echoes ==
  PrintedNow =>
    /\ exact = "exact" /\ shown.kind = "int" => shown = said.part
    /\ shown.kind = "str" =>
         shown = said.part \/ \E l \in Literal : Unescape[l] # l /\ said.part = StringPart(l)

EInv == JInv /\ Devices /\ Abreast /\ Shelved /\ TextsFollow /\ Echoes

(***************************************************************************)
(* What the processor does to its temporaries.                             *)
(***************************************************************************)

(* The last node is the youngest, and the one below it has its temporary   *)
(* unless it was overwritten.                                              *)
LEMMA LastNodes ==
  ASSUME Turning, NEW d, d = Len(nodes), d >= 1
  PROVE  /\ d \in 1 .. d /\ LastNode = nodes[d] /\ Age(d) = 0 /\ Age(d) < NTemps
         /\ LastNode.reg \in Temps
         /\ d >= 2 => /\ d - 1 \in 1 .. d /\ LeftNode = nodes[d - 1]
                      /\ LeftNode.reg \in Temps
                      /\ ~Overwritten <=> Age(d - 1) < NTemps
<1>1. nodes \in Seq(Marks) /\ d \in Nat /\ NTemps \in Nat \ {0}
  BY AnyTemps DEF Turning
<1>2. \A i \in 1 .. d : nodes[i] \in Marks
  BY <1>1
<1>3. \A i \in 1 .. d : nodes[i].reg \in Temps /\ nodes[i].at \in Nat
  BY <1>2 DEF Marks
<1>4. LastNode = nodes[d] /\ LeftNode = nodes[d - 1] /\ d \in 1 .. d
  BY <1>1 DEF LastNode, LeftNode
<1>5. Emitted = LastNode.at
  BY <1>1 DEF Emitted
<1>6. d >= 2 => d - 1 \in 1 .. d
  BY <1>1
<1>7. Age(d) = 0 /\ Age(d) < NTemps
  BY <1>1, <1>3, <1>4, <1>5 DEF Age
<1>8. d >= 2 => (~Overwritten <=> Age(d - 1) < NTemps)
  BY <1>1, <1>3, <1>4, <1>5, <1>6 DEF Age, Overwritten
<1> QED BY <1>3, <1>4, <1>6, <1>7, <1>8

(* A value more, in the place of the k last ones: those that are not too   *)
(* old afterwards were not before, and keep their temporaries.             *)
LEMMA Turned ==
  ASSUME Turning, NEW k \in {0, 2}, k <= Len(nodes), NEW v \in Readings,
         PutInTemp(IF k = 0 THEN nodes ELSE SubSeq(nodes, 1, Len(nodes) - k), v)
  PROVE  LET m == Len(nodes) - k
         IN /\ Turning' /\ Len(nodes') = m + 1 /\ m \in Nat /\ m <= Len(nodes)
            /\ regs'[nodes'[m + 1].reg] = v
            /\ \A i \in 1 .. m :
                 (Age(i) < NTemps)' =>
                   Age(i) < NTemps /\ regs'[nodes'[i].reg] = regs[nodes[i].reg]
<1> DEFINE m == Len(nodes) - k
           rest == IF k = 0 THEN nodes ELSE SubSeq(nodes, 1, m)
           new == Node(temp_next, Emitted + 1)
<1>1. /\ nodes \in Seq(Marks) /\ Len(nodes) \in Nat /\ m \in Nat /\ m <= Len(nodes)
      /\ regs \in [Temps -> Readings] /\ temp_next \in Temps
      /\ NTemps \in Nat \ {0}
  BY AnyTemps DEF Turning
<1>2. rest \in Seq(Marks) /\ Len(rest) = m /\ \A i \in 1 .. m : rest[i] = nodes[i]
  BY <1>1
<1>3. /\ nodes' = Append(rest, new) /\ regs' = [regs EXCEPT ![temp_next] = v]
      /\ temp_next' = After(temp_next)
  BY DEF PutInTemp, After
<1>4. Emitted \in Nat
  <2>1. CASE nodes = << >>
    BY <2>1 DEF Emitted
  <2>2. CASE nodes # << >>
    <3>1. nodes[Len(nodes)] \in Marks
      BY <1>1, <2>2
    <3> QED BY <2>2, <3>1 DEF Emitted, LastNode, Marks
  <2> QED BY <2>1, <2>2
<1>5. new \in Marks /\ new.reg = temp_next /\ new.at = Emitted + 1
  BY <1>1, <1>4 DEF Node, Marks
<1> HIDE DEF rest, new, m
<1>6. /\ nodes' \in Seq(Marks) /\ Len(nodes') = m + 1 /\ nodes'[m + 1] = new
      /\ \A i \in 1 .. m : nodes'[i] = nodes[i]
  BY <1>1, <1>2, <1>3, <1>5
<1>7. Emitted' = Emitted + 1
  <2>1. nodes' # << >> /\ LastNode' = new
    BY <1>1, <1>6 DEF LastNode
  <2> QED BY <1>5, <2>1 DEF Emitted
<1>8. /\ regs' \in [Temps -> Readings] /\ regs'[temp_next] = v
      /\ \A r \in Temps \ {temp_next} : regs'[r] = regs[r]
  BY <1>1, <1>3
<1>9. temp_next' = Ahead(temp_next, 1) /\ temp_next' \in Temps
  BY <1>1, <1>3, Circle
<1>10. ASSUME NEW i \in 1 .. m
       PROVE  /\ nodes[i].reg \in Temps /\ nodes'[i].at <= Emitted'
              /\ (Age(i) < NTemps)' =>
                   /\ Age(i) < NTemps /\ regs'[nodes'[i].reg] = regs[nodes[i].reg]
                   /\ temp_next' = Ahead(nodes'[i].reg, Age(i)' + 1)
  <2> DEFINE r == nodes[i].reg
             a == Age(i)
  <2>1. i \in 1 .. Len(nodes)
    BY <1>1
  <2>2. nodes[i] \in Marks
    BY <1>1, <2>1
  <2>3. r \in Temps /\ nodes[i].at \in Nat /\ nodes[i].at <= Emitted
    BY <2>1, <2>2 DEF Marks, Turning
  <2>4. a \in Nat /\ Age(i)' = a + 1
    BY <1>4, <1>6, <1>7, <2>3 DEF Age
  <2>5. a < NTemps => temp_next = Ahead(r, a + 1)
    BY <2>1 DEF Turning
  <2> HIDE DEF a, r
  <2>6. ASSUME a + 1 < NTemps
        PROVE  r # temp_next /\ temp_next' = Ahead(r, a + 2)
    <3>1. a + 1 \in 1 .. NTemps /\ a < NTemps /\ a + 1 + 1 = a + 2
      BY <1>1, <2>4, <2>6
    <3>2. Ahead(r, a + 1) # r /\ After(Ahead(r, a + 1)) = Ahead(r, a + 2)
      BY <2>3, <2>6, <3>1, Circle
    <3> QED BY <1>3, <2>5, <3>1, <3>2
  <2>7. (Age(i) < NTemps)' => a + 1 < NTemps
    BY <2>4
  <2>8. a + 1 < NTemps => a < NTemps
    BY <1>1, <2>4
  <2>9. Age(i)' + 1 = a + 2
    BY <2>4
  <2>10. nodes'[i].reg = r /\ nodes'[i].at <= Emitted'
    BY <1>4, <1>6, <1>7, <2>3 DEF r
  <2>11. a + 1 < NTemps => regs'[r] = regs[r]
    BY <1>8, <2>3, <2>6
  <2> QED BY <2>3, <2>6, <2>7, <2>8, <2>9, <2>10, <2>11 DEF a, r
<1>11. ASSUME NEW i \in 1 .. m + 1
       PROVE  /\ nodes'[i].at <= Emitted'
              /\ (Age(i) < NTemps)' => temp_next' = Ahead(nodes'[i].reg, Age(i)' + 1)
  <2>1. CASE i \in 1 .. m
    BY <1>10, <2>1
  <2>2. CASE i = m + 1
    <3>1. nodes'[i].reg = temp_next /\ nodes'[i].at = Emitted + 1
      BY <1>5, <1>6, <2>2
    <3>2. nodes'[i].at <= Emitted' /\ Age(i)' + 1 = 1
      BY <1>4, <1>7, <3>1 DEF Age
    <3> QED BY <1>9, <3>1, <3>2
  <2> QED BY <1>1, <2>1, <2>2 DEF m
<1>12. Turning'
  BY <1>6, <1>8, <1>9, <1>11 DEF Turning
<1>13. regs'[nodes'[m + 1].reg] = v
  BY <1>5, <1>6, <1>8
<1> QED BY <1>1, <1>6, <1>10, <1>12, <1>13 DEF m

LEMMA SameIsImplied ==
  ASSUME EInv
  PROVE  SameNumbers /\ SameLowBits /\ SameTexts
<1>1. stack \in Seq(Nodes) /\ Turning /\ Len(nodes) = Len(stack)
  BY DEF EInv, JInv, IInv, Operands, Devices
<1>2. DOMAIN stack = 1 .. Len(stack) /\ Len(stack) \in Nat
  BY <1>1
<1>3. ASSUME mode = "run", NEW p \in Pairs PROVE Follows(exact, p[1], p[2])
  <2>1. CASE \E i \in DOMAIN stack \cap {Len(nodes)} : p = <<RightRegister, stack[i].val>>
    <3>1. PICK i \in DOMAIN stack \cap {Len(nodes)} : p = <<RightRegister, stack[i].val>>
      BY <2>1
    <3>2. i = Len(nodes) /\ i >= 1 /\ i \in 1 .. Len(stack)
      BY <1>1, <1>2, <3>1
    <3>3. RightRegister = regs[nodes[i].reg] /\ Age(i) < NTemps
      BY <1>1, <3>2, LastNodes DEF RightRegister
    <3> QED BY <1>3, <3>1, <3>2, <3>3 DEF EInv, Abreast, RegistersFollow
  <2>2. CASE \E n \in Ident : p = <<mem[n], Abstract!IntOf(ValueOf(n))>>
    <3>1. PICK n \in Ident : p = <<mem[n], Abstract!IntOf(ValueOf(n))>>
      BY <2>2
    <3>2. ValueOf(n) = Contents[n]
      BY DEF Contents
    <3> QED BY <1>3, <3>1, <3>2 DEF EInv, Abreast, MemoryMirrors, Mirrors
  <2> QED BY <2>1, <2>2 DEF Pairs
<1>4. SameNumbers
  BY <1>3 DEF SameNumbers, Follows, EInv, Echoes
<1>5. SameLowBits
  BY <1>3 DEF SameLowBits, Follows
<1>6. SameTexts
  <2>1. \A n \in Ident : ValueOf(n) = Contents[n]
    BY DEF Contents
  <2> QED BY <2>1 DEF SameTexts, EInv, TextsFollow, Shelved, Echoes
<1> QED BY <1>4, <1>5, <1>6

(***************************************************************************)
(* Operations.                                                             *)
(***************************************************************************)

(* From e to f the processor only falls behind.                            *)
Fades(e, f) ==
  /\ f = "exact" => e = "exact"
  /\ f \in {"exact", "wrapped"} => e \in {"exact", "wrapped"}

LEMMA Fading ==
  ASSUME NEW e, NEW f, Fades(e, f), NEW v, NEW w, Follows(e, v, w)
  PROVE  Follows(f, v, w)
BY DEF Fades, Follows

LEMMA Halves ==
  /\ INT_HALF \in Nat \ {0} /\ MACHINE_HALF \in Nat \ {0} /\ IMM_HALF \in Nat \ {0}
  /\ \A n \in Signed(INT_HALF) : n \in Int /\ n \in Signed(MACHINE_HALF)
  /\ 0 \in Signed(INT_HALF)
BY InterpreterAssumption, WidthAssumption DEF Signed

LEMMA OperationInt ==
  ASSUME NEW op \in {"+", "-", "*", "/"}, NEW a \in Int, NEW b \in Int,
         ~(op = "/" /\ b = 0)
  PROVE  Operation(op, a, b) \in Int
<1>1. a + b \in Int /\ a - b \in Int /\ a * b \in Int
  OBVIOUS
<1>2. op = "/" => Quotient(a, b) \in Int
  BY QuotientInt
<1> QED BY <1>1, <1>2 DEF Operation

(* A result follows the interpreter's if its operands did and were kept.   *)
LEMMA ResultFollows ==
  ASSUME NEW op \in {"+", "-", "*", "/"}, NEW l \in Signed(INT_HALF), NEW r \in Signed(INT_HALF),
         NEW v \in Readings, NEW w \in Readings, exact \in {"exact", "wrapped", "lost"},
         ~Overwritten => Follows(exact, v, l), Follows(exact, w, r)
  PROVE  LET e == Exactness(op, l, r)
         IN /\ e \in {"exact", "wrapped", "lost"} /\ Fades(exact, e)
            /\ Result(op, v, w) \in Readings
            /\ Follows(e, Result(op, v, w), Binop(op, l, r))
<1> DEFINE e == Exactness(op, l, r)
           x == Operation(op, v.val, w.val)
           y == Operation(op, l, r)
<1>1. l \in Int /\ r \in Int /\ v.val \in Int /\ w.val \in Int /\ v.known \in BOOLEAN
      /\ w.known \in BOOLEAN
  BY Halves DEF Readings
<1>2. /\ e \in {"exact", "wrapped", "lost"} /\ Fades(exact, e)
      /\ e \in {"exact", "wrapped"} => ~Overwritten
  BY DEF Exactness, Fades
<1>3. CASE ~v.known \/ ~w.known \/ (op = "/" /\ w.val = 0)
  <2>1. Result(op, v, w) = Unknown
    BY <1>3 DEF Result
  <2> QED BY <1>2, <2>1 DEF Unknown, Readings, Follows
<1>4. CASE v.known /\ w.known /\ ~(op = "/" /\ w.val = 0)
  <2>1. Result(op, v, w) = Known(Wrap(MACHINE_HALF, x))
    BY <1>4 DEF Result
  <2>2. x \in Int
    BY <1>1, <1>4, OperationInt
  <2>3. Wrap(MACHINE_HALF, x) \in Int
    BY <2>2, Halves, WrapAdds
  <2>4. e = "exact" => Wrap(MACHINE_HALF, x) = Binop(op, l, r)
    <3> SUFFICES ASSUME e = "exact" PROVE Wrap(MACHINE_HALF, x) = Binop(op, l, r)
      OBVIOUS
    <3>1. exact = "exact"
      BY <1>2 DEF Fades
    <3>2. v.val = l /\ w.val = r
      BY <1>2, <1>4, <3>1 DEF Follows
    <3>3. x = y /\ ~(op = "/" /\ r = 0)
      BY <1>4, <3>2
    <3>4. y \in Signed(INT_HALF)
      BY <3>1, <3>3 DEF Exactness
    <3>5. Wrap(MACHINE_HALF, y) = y /\ Wrap(INT_HALF, y) = y
      BY <3>4, Halves, WrapOfSigned
    <3> QED BY <3>3, <3>5 DEF Binop
  <2>5. e \in {"exact", "wrapped"} => Wrap(INT_HALF, Wrap(MACHINE_HALF, x)) = Binop(op, l, r)
    <3> SUFFICES ASSUME e \in {"exact", "wrapped"}
                 PROVE  Wrap(INT_HALF, Wrap(MACHINE_HALF, x)) = Binop(op, l, r)
      OBVIOUS
    <3>1. Wrap(INT_HALF, Wrap(MACHINE_HALF, x)) = Wrap(INT_HALF, x)
      BY <2>2, Halves, WidthAssumption, WrapWider
    <3>2. exact \in {"exact", "wrapped"}
      BY <1>2 DEF Fades
    <3>3. CASE op = "/"
      <4>1. exact = "exact"
        BY <3>2, <3>3 DEF Exactness
      <4>2. v.val = l /\ w.val = r
        BY <1>2, <1>4, <4>1 DEF Follows
      <4>3. x = y /\ r # 0
        BY <1>4, <3>3, <4>2
      <4> QED BY <3>1, <4>3 DEF Binop
    <3>4. CASE op \in {"+", "-", "*"}
      <4>1. Wrap(INT_HALF, v.val) = l /\ Wrap(INT_HALF, w.val) = r
        BY <1>2, <1>4, <3>2 DEF Follows
      <4>2. Wrap(INT_HALF, y) = Wrap(INT_HALF, x)
        BY <1>1, <3>4, <4>1, Halves, WrapOperands
      <4> QED BY <3>1, <3>4, <4>2 DEF Binop
    <3> QED BY <3>3, <3>4
  <2> HIDE DEF e, x
  <2>6. Known(Wrap(MACHINE_HALF, x)) \in Readings
    BY <2>3 DEF Known, Readings
  <2>7. Follows(e, Known(Wrap(MACHINE_HALF, x)), Binop(op, l, r))
    BY <2>4, <2>5 DEF Known, Follows
  <2> QED BY <1>2, <2>1, <2>6, <2>7 DEF e
<1> QED BY <1>1, <1>3, <1>4

(***************************************************************************)
(* Steps.                                                                  *)
(***************************************************************************)

(* The operands, and where the processor has them.                         *)
LEMMA Parallel ==
  ASSUME EInv
  PROVE  /\ stack \in Seq(Nodes) /\ Turning /\ Len(nodes) = Len(stack) /\ Len(stack) \in Nat
         /\ nodes \in Seq(Marks) /\ temp_next \in Temps
         /\ \A r \in Temps : regs[r] \in Readings
         /\ \A i \in 1 .. Len(stack) : stack[i].val \in Signed(INT_HALF)
<1>1. stack \in Seq(Nodes) /\ Turning /\ Len(nodes) = Len(stack) /\ Len(stack) \in Nat
  BY DEF EInv, JInv, IInv, Operands, Devices
<1>2. ASSUME NEW i \in 1 .. Len(stack) PROVE stack[i].val \in Signed(INT_HALF)
  <2>1. stack[i] \in Nodes
    BY <1>1
  <2> QED BY <2>1 DEF Nodes
<1> QED BY <1>1, <1>2 DEF Turning

(* The value of an expression that is complete.                            *)
LEMMA Whole ==
  ASSUME EInv, mode = "run", Len(stack) = 1
  PROVE  /\ RightRegister \in Readings /\ Follows(exact, RightRegister, stack[1].val)
         /\ LastNode.reg \in Temps
<1>1. Turning /\ Len(nodes) = 1
  BY Parallel
<1>2. LastNode = nodes[1] /\ Age(1) < NTemps /\ LastNode.reg \in Temps /\ 1 \in 1 .. Len(stack)
  BY <1>1, LastNodes
<1> QED BY <1>2, Parallel DEF RightRegister, EInv, Abreast, RegistersFollow

(* A step of a statement or a print, which may forget the expression.      *)
LEMMA Onward ==
  ASSUME EInv, JInv', mode' = "run" => mode = "run", exact' = exact,
         \/ UNCHANGED <<registers, stack>>
         \/ nodes' = << >> /\ stack' = << >> /\ UNCHANGED regs /\ temp_next' \in Temps,
         mem' \in [Ident -> Readings],
         mode' = "run" =>
           \A n \in Ident : \/ mem'[n] = mem[n] /\ Contents'[n] = Contents[n]
                            \/ Mirrors(exact, mem'[n], Contents'[n]),
         Shelved', TextsFollow', Echoes'
  PROVE  EInv'
<1>1. Devices' /\ (mode' = "run" => RegistersFollow')
  <2>1. exact' \in {"exact", "wrapped", "lost"}
    BY DEF EInv, Devices
  <2>2. CASE UNCHANGED <<registers, stack>>
    <3>1. nodes' = nodes /\ regs' = regs /\ temp_next' = temp_next /\ stack' = stack
      BY <2>2 DEF registers
    <3>2. \A i : Age(i)' = Age(i)
      BY <3>1 DEF Age, Emitted, LastNode
    <3>3. Emitted' = Emitted
      BY <3>1 DEF Emitted, LastNode
    <3>4. Turning' /\ Len(nodes') = Len(stack')
      BY <3>1, <3>2, <3>3 DEF EInv, Devices, Turning
    <3>5. mode' = "run" => RegistersFollow'
      BY <3>1, <3>2 DEF EInv, Abreast, RegistersFollow
    <3> QED BY <2>1, <3>4, <3>5 DEF Devices
  <2>3. CASE nodes' = << >> /\ stack' = << >> /\ UNCHANGED regs /\ temp_next' \in Temps
    <3>1. Turning' /\ Len(nodes') = Len(stack')
      BY <2>3 DEF EInv, Devices, Turning
    <3>2. RegistersFollow'
      BY <2>3 DEF RegistersFollow
    <3> QED BY <2>1, <3>1, <3>2 DEF Devices
  <2> QED BY <2>2, <2>3
<1>2. ASSUME mode' = "run" PROVE MemoryMirrors'
  BY <1>2 DEF EInv, Abreast, MemoryMirrors
<1> QED BY <1>1, <1>2 DEF EInv, Abreast

(* A string variable's text stays where nothing is given to a variable.    *)
LEMMA TextsStay ==
  ASSUME EInv, UNCHANGED texts, mode' = "run" => mode = "run" /\ NothingGiven
  PROVE  Shelved' /\ TextsFollow'
<1>1. text' = text /\ told' = told /\ late' = late
  BY DEF texts
<1>2. Shelved'
  BY <1>1 DEF EInv, Shelved
<1>3. ASSUME mode' = "run", NEW n \in Ident, text[n] # NoText PROVE text[n] = Contents'[n]
  <2>1. text[n] = Contents[n] /\ text[n] \in StringParts
    BY <1>3 DEF EInv, TextsFollow, Shelved
  <2>2. Contents[n] # Undeclared
    BY <2>1 DEF StringParts, StringPart, Undeclared
  <2> QED BY <1>3, <2>1, <2>2 DEF NothingGiven
<1> QED BY <1>1, <1>2, <1>3 DEF TextsFollow

LEMMA NoTextThere ==
  ASSUME EInv, mode = "run", NEW n \in Ident, Contents[n].kind # "str"
  PROVE  text[n] = NoText /\ told[n] = {}
<1>1. text[n] # NoText => text[n] = Contents[n] /\ text[n] \in StringParts
  BY DEF EInv, TextsFollow, Shelved
<1>2. \A part \in StringParts : part.kind = "str"
  BY DEF StringParts, StringPart
<1>3. text[n] = NoText
  BY <1>1, <1>2
<1> QED BY <1>3 DEF EInv, Shelved

(* A step of an expression: operands are replaced by a value.              *)
LEMMA Computed ==
  ASSUME EInv, JInv', mode = "run", UNCHANGED Contents,
         NEW k \in {0, 2}, k <= Len(stack), NEW v \in Readings, NEW node,
         k = 0 => stack' = Append(stack, node),
         k # 0 => stack' = Append(SubSeq(stack, 1, Len(stack) - k), node),
         PutInTemp(IF k = 0 THEN nodes ELSE SubSeq(nodes, 1, Len(nodes) - k), v),
         exact' \in {"exact", "wrapped", "lost"}, Fades(exact, exact'),
         Follows(exact', v, node.val)
  PROVE  EInv'
<1> DEFINE m == Len(stack) - k
<1>1. /\ stack \in Seq(Nodes) /\ Turning /\ Len(nodes) = Len(stack)
      /\ Len(stack) \in Nat /\ m \in Nat /\ m <= Len(stack)
  BY Parallel
<1> DEFINE below == IF k = 0 THEN stack ELSE SubSeq(stack, 1, m)
<1>2. /\ below \in Seq(Nodes) /\ Len(below) = m
      /\ \A i \in 1 .. m : below[i] = stack[i]
  BY <1>1
<1>3. stack' = Append(below, node)
  BY <1>1
<1>4. /\ Turning' /\ Len(nodes') = m + 1 /\ regs'[nodes'[m + 1].reg] = v
      /\ \A i \in 1 .. m :
           (Age(i) < NTemps)' =>
             Age(i) < NTemps /\ regs'[nodes'[i].reg] = regs[nodes[i].reg]
  BY <1>1, Turned
<1> HIDE DEF m, below
<1>5. Len(stack') = m + 1 /\ stack'[m + 1] = node /\ \A i \in 1 .. m : stack'[i] = stack[i]
  BY <1>1, <1>2, <1>3
<1>6. mem' = mem /\ UNCHANGED texts
  BY DEF PutInTemp
<1>7. Devices'
  BY <1>4, <1>5, <1>6 DEF EInv, Devices
<1>8. RegistersFollow'
  <2> SUFFICES ASSUME NEW i \in 1 .. m + 1, (Age(i) < NTemps)'
               PROVE  Follows(exact', regs'[nodes'[i].reg], stack'[i].val)
    BY <1>5 DEF RegistersFollow
  <2>1. CASE i = m + 1
    BY <1>4, <1>5, <2>1
  <2>2. CASE i \in 1 .. m
    <3>1. i \in 1 .. Len(stack) /\ Age(i) < NTemps
      BY <1>1, <1>4, <2>2
    <3>2. Follows(exact, regs[nodes[i].reg], stack[i].val)
      BY <3>1 DEF EInv, Abreast, RegistersFollow
    <3> QED BY <1>4, <1>5, <2>2, <3>2, Fading
  <2> QED BY <1>1, <2>1, <2>2
<1>9. MemoryMirrors'
  <2> SUFFICES ASSUME NEW n \in Ident PROVE Mirrors(exact', mem[n], Contents[n])
    BY <1>6 DEF MemoryMirrors
  <2>1. Mirrors(exact, mem[n], Contents[n])
    BY DEF EInv, Abreast, MemoryMirrors
  <2> QED BY <2>1, Fading DEF Mirrors
<1>10. Echoes'
  <2>1. stack' # << >>
    BY <1>1, <1>5
  <2> QED BY <2>1 DEF Echoes, PrintedNow
<1>11. Shelved' /\ TextsFollow'
  <2>1. NothingGiven
    BY DEF NothingGiven
  <2> QED BY <1>6, <2>1, TextsStay
<1> QED BY <1>7, <1>8, <1>9, <1>10, <1>11 DEF EInv, Abreast

LEMMA Quiet ==
  ASSUME stmt'.kind # "print" \/ stmt'.last = "nothing" \/ mode' # "run"
  PROVE  Echoes'
BY DEF Echoes, PrintedNow

(* A variable without a value counts as 0, as an unknown name does.        *)
LEMMA MirrorsNothing ==
  ASSUME EInv, mode = "run", NothingGiven, mem' = mem
  PROVE  /\ mem' \in [Ident -> Readings]
         /\ \A n \in Ident : \/ mem'[n] = mem[n] /\ Contents'[n] = Contents[n]
                             \/ Mirrors(exact, mem'[n], Contents'[n])
<1>1. mem' \in [Ident -> Readings]
  BY DEF EInv, Devices
<1>2. ASSUME NEW n \in Ident, Contents[n] = Undeclared, Contents'[n] = Unset
      PROVE  Mirrors(exact, mem[n], Contents'[n])
  <2>1. Mirrors(exact, mem[n], Undeclared)
    BY <1>2 DEF EInv, Abreast, MemoryMirrors
  <2>2. Abstract!IntOf(Undeclared) = Abstract!IntOf(Unset) /\ Unset.kind # "str"
    BY DEF Abstract!IntOf, Undeclared, Unset
  <2> QED BY <1>2, <2>1, <2>2 DEF Mirrors
<1> QED BY <1>1, <1>2 DEF NothingGiven

LEMMA DeclareBoth ==
  ASSUME EInv, NEW n \in Ident, NEW type \in {"int", "ch"}, Declare(n, type), UNCHANGED machine
  PROVE  EInv'
<1>1. JInv' /\ NothingGiven
  BY DeclareStep DEF EInv
<1>2. /\ mode = "run" /\ stmt' = NoStatement /\ stack' = stack
      /\ exact' = exact /\ UNCHANGED registers /\ mem' = mem /\ UNCHANGED texts
  BY DEF Declare, Item, machine
<1>3. Echoes'
  BY <1>2, Quiet DEF NoStatement
<1>4. Shelved' /\ TextsFollow'
  BY <1>1, <1>2, TextsStay
<1> QED BY <1>1, <1>2, <1>3, <1>4, MirrorsNothing, Onward

(* Between statements the temporaries are free.                            *)
LEMMA Restarted ==
  ASSUME EInv, stmt.kind = "none", stack' = stack, UNCHANGED <<regs, nodes>>,
         temp_next' \in {temp_start, temp_next}
  PROVE  nodes' = << >> /\ stack' = << >> /\ UNCHANGED regs /\ temp_next' \in Temps
<1>1. stack = << >>
  BY NothingPending DEF EInv
<1>2. nodes \in Seq(Marks) /\ Len(nodes) = 0
  BY <1>1, Parallel
<1>3. nodes = << >>
  BY <1>2
<1> QED BY <1>1, <1>3, Parallel, AnyTemps

LEMMA TargetBoth ==
  ASSUME EInv, NEW n \in Ident, NEW kind \in {"decl", "assign"}, Target(kind, n), EmitTarget
  PROVE  EInv'
<1>1. JInv' /\ NothingGiven
  BY TargetStep DEF EInv
<1>2. /\ mode = "run" /\ stmt.kind = "none" /\ stmt' = Opening(kind, n) /\ stack' = stack
  BY DEF Target, Item
<1>3. exact' = exact /\ mem' = mem /\ UNCHANGED texts
  BY DEF EmitTarget
<1>4. nodes' = << >> /\ stack' = << >> /\ UNCHANGED regs /\ temp_next' \in Temps
  BY <1>2, Restarted DEF EmitTarget
<1>5. Echoes'
  BY <1>2, Quiet DEF Opening
<1>6. Shelved' /\ TextsFollow'
  BY <1>1, <1>2, <1>3, TextsStay
<1> QED BY <1>1, <1>2, <1>3, <1>4, <1>5, <1>6, MirrorsNothing, Onward

(* What a string does to the memory, and to the texts if there was none.   *)
LEMMA Lettered ==
  ASSUME EInv, mode = "run", NEW n \in Ident, NEW l \in Literal,
         Contents' = [Contents EXCEPT ![n] = StringPart(l)],
         mem' = [mem EXCEPT ![n] = Unknown]
  PROVE  /\ mem' \in [Ident -> Readings]
         /\ \A m \in Ident : \/ mem'[m] = mem[m] /\ Contents'[m] = Contents[m]
                             \/ Mirrors(exact, mem'[m], Contents'[m])
         /\ Contents'[n] = StringPart(l) /\ \A m \in Ident \ {n} : Contents'[m] = Contents[m]
<1>1. mem \in [Ident -> Readings] /\ Unknown \in Readings
  BY DEF EInv, Devices, Unknown, Readings
<1>2. mem' \in [Ident -> Readings] /\ mem'[n] = Unknown
  BY <1>1
<1>3. Mirrors(exact, mem'[n], Contents'[n])
  BY <1>2 DEF Mirrors, Follows, Unknown
<1>4. \A m \in Ident : m # n => mem'[m] = mem[m] /\ Contents'[m] = Contents[m]
  BY <1>1 DEF Contents
<1>5. Contents'[n] = StringPart(l)
  BY DEF Contents
<1> QED BY <1>2, <1>3, <1>4, <1>5

LEMMA DeclareTextBoth ==
  ASSUME EInv, NEW n \in Ident, NEW l \in Literal, DeclareString(n, l), DeclareText(n, l)
  PROVE  EInv'
<1> DEFINE part == StringPart(l)
<1>1. JInv' /\ Contents' = [Contents EXCEPT ![n] = part]
  BY DeclareStringStep DEF EInv
<1>2. mode = "run" /\ declared[n] = "none" /\ stmt' = NoStatement /\ stack' = stack
  BY DEF DeclareString, Item
<1>3. /\ mem' = [mem EXCEPT ![n] = Unknown] /\ UNCHANGED registers /\ exact' = exact
      /\ text' = [text EXCEPT ![n] = part] /\ told' = told /\ late' = late
  BY DEF DeclareText
<1>4. Echoes'
  BY <1>2, Quiet DEF NoStatement
<1>5. told[n] = {}
  <2>1. Contents[n].kind # "str"
    BY <1>2, Worth DEF EInv, Undeclared, Unset
  <2> QED BY <1>2, <2>1, NoTextThere
<1>6. part \in StringParts /\ part # NoText
  BY DEF StringParts, StringPart, NoText
<1> HIDE DEF part
<1>7. Shelved'
  BY <1>3, <1>5, <1>6 DEF EInv, Shelved
<1>8. TextsFollow'
  <2>1. text \in [Ident -> StringParts \cup {NoText}]
    BY DEF EInv, Shelved
  <2>2. Contents'[n] = part /\ \A m \in Ident \ {n} : Contents'[m] = Contents[m]
    BY <1>1 DEF Contents
  <2> QED BY <1>2, <1>3, <2>1, <2>2 DEF EInv, TextsFollow
<1> QED BY <1>1, <1>2, <1>3, <1>4, <1>7, <1>8, Lettered, Onward DEF part

LEMMA AssignTextBoth ==
  ASSUME EInv, NEW n \in Ident, NEW l \in Literal, AssignString(n, l), AssignText(n, l)
  PROVE  EInv'
<1> DEFINE part == StringPart(l)
<1>1. JInv' /\ Contents' = [Contents EXCEPT ![n] = part]
  BY AssignStringStep DEF EInv
<1>2. mode = "run" /\ stmt' = NoStatement /\ stack' = stack
  BY DEF AssignString, Item
<1>3. /\ mem' = [mem EXCEPT ![n] = Unknown] /\ UNCHANGED registers /\ exact' = exact
      /\ text' = IF text[n] = NoText THEN text ELSE [text EXCEPT ![n] = part]
      /\ told' = told
      /\ late' = IF told[n] \subseteq {part} THEN late ELSE late \cup {n}
  BY DEF AssignText
<1>4. Echoes'
  BY <1>2, Quiet DEF NoStatement
<1>5. part \in StringParts /\ part # NoText
  BY DEF StringParts, StringPart, NoText
<1> HIDE DEF part
<1>6. /\ text \in [Ident -> StringParts \cup {NoText}]
      /\ text' \in [Ident -> StringParts \cup {NoText}]
      /\ text'[n] = IF text[n] = NoText THEN NoText ELSE part
      /\ \A m \in Ident \ {n} : text'[m] = text[m]
  BY <1>3, <1>5 DEF EInv, Shelved
<1>7. Shelved'
  <2>1. ASSUME NEW m \in Ident, text'[m] = NoText PROVE told[m] = {}
    BY <1>5, <1>6, <2>1 DEF EInv, Shelved
  <2>2. ASSUME NEW m \in Ident, m \notin late' PROVE told[m] \subseteq {text'[m]}
    <3>1. CASE m = n
      <4>1. told[n] \subseteq {part}
        BY <1>3, <2>2, <3>1
      <4>2. text[n] = NoText => told[n] = {}
        BY DEF EInv, Shelved
      <4> QED BY <1>6, <3>1, <4>1, <4>2
    <3>2. CASE m # n
      <4>1. m \notin late
        BY <1>3, <2>2
      <4> QED BY <1>6, <3>2, <4>1 DEF EInv, Shelved
    <3> QED BY <3>1, <3>2
  <2> QED BY <1>3, <1>6, <2>1, <2>2 DEF EInv, Shelved
<1>8. TextsFollow'
  <2>1. Contents'[n] = part /\ \A m \in Ident \ {n} : Contents'[m] = Contents[m]
    BY <1>1 DEF Contents
  <2> QED BY <1>2, <1>6, <2>1 DEF EInv, TextsFollow
<1> QED BY <1>1, <1>2, <1>3, <1>4, <1>7, <1>8, Lettered, Onward DEF part

LEMMA StoreBoth ==
  ASSUME EInv, Store, EmitStore
  PROVE  EInv'
<1> DEFINE n == stmt.name
           v == RightRegister
<1>1. JInv' /\ Contents' = [Contents EXCEPT ![n] = IntPart(stack[1].val)]
  BY StoreStep DEF EInv
<1>2. mode = "run" /\ stmt' = NoStatement /\ stack' = << >> /\ Len(stack) = 1
  BY DEF Store, Item
<1>3. v \in Readings /\ Follows(exact, v, stack[1].val) /\ LastNode.reg \in Temps
  BY <1>2, Whole
<1>4. /\ mem' = [mem EXCEPT ![n] = v] /\ exact' = exact /\ mem \in [Ident -> Readings]
      /\ nodes' = << >> /\ UNCHANGED regs /\ temp_next' \in Temps
      /\ text' = text /\ told' = told /\ late' = late
  BY <1>3 DEF EmitStore, GiveBack, texts, EInv, Devices
<1>5. n \in Ident /\ declared[n] # "ch"
  BY DEF EInv, JInv, IInv, Holding, Open, Store
<1>6. text[n] = NoText
  <2>1. Contents[n].kind # "str"
    BY <1>5, Worth DEF EInv, Undeclared, Unset
  <2> QED BY <1>2, <1>5, <2>1, NoTextThere
<1> HIDE DEF n, v
<1>7. mem' \in [Ident -> Readings] /\ mem'[n] = v
  BY <1>3, <1>4, <1>5
<1>8. Contents'[n] = IntPart(stack[1].val)
  BY <1>1, <1>5 DEF Contents
<1>9. Mirrors(exact, mem'[n], Contents'[n])
  <2>1. /\ Abstract!IntOf(IntPart(stack[1].val)) = stack[1].val
        /\ IntPart(stack[1].val).kind # "str"
    BY DEF Abstract!IntOf, IntPart
  <2> QED BY <1>3, <1>7, <1>8, <2>1 DEF Mirrors
<1>10. \A m \in Ident : m # n => mem'[m] = mem[m] /\ Contents'[m] = Contents[m]
  BY <1>1, <1>4 DEF Contents
<1>11. Echoes'
  BY <1>2, Quiet DEF NoStatement
<1>12. Shelved' /\ TextsFollow'
  BY <1>2, <1>4, <1>6, <1>10 DEF EInv, Shelved, TextsFollow
<1> QED BY <1>1, <1>2, <1>4, <1>7, <1>9, <1>10, <1>11, <1>12, Onward

LEMMA NumberBoth ==
  ASSUME EInv, NEW k \in Numeral, NumberNode(k), EmitNumber(k)
  PROVE  EInv'
<1> DEFINE v == Immediate(k)
           node == Evaluated("num", k)
           e == IF v = Known(k) THEN exact ELSE "lost"
<1>1. JInv' /\ UNCHANGED Contents
  BY NumberNodeStep DEF EInv
<1>2. mode = "run" /\ stack' = Append(stack, node)
  BY DEF NumberNode, Push, Item
<1>3. PutInTemp(nodes, v) /\ exact' = e
  BY DEF EmitNumber
<1>4. k \in Signed(INT_HALF) /\ k \in Int /\ node.val = k
  BY NumeralRange, Halves DEF Evaluated
<1>5. Wrap(IMM_HALF, k) \in Int
  BY <1>4, Halves, WrapAdds
<1>6. v \in Readings
  BY <1>5 DEF Immediate, Known, Readings
<1>7. e \in {"exact", "wrapped", "lost"} /\ Fades(exact, e)
  BY DEF EInv, Devices, Fades
<1>8. Wrap(INT_HALF, k) = k
  BY <1>4, Halves, WrapOfSigned
<1>9. Follows(e, v, k)
  <2>1. CASE v = Known(k)
    BY <1>8, <2>1 DEF Follows, Known
  <2>2. CASE v # Known(k)
    BY <2>2 DEF Follows
  <2> QED BY <2>1, <2>2
<1> HIDE DEF v, node, e
<1>10. Follows(e, v, node.val)
  BY <1>4, <1>9
<1>11. 0 \in {0, 2} /\ 0 <= Len(stack)
  BY Parallel
<1> QED BY <1>1, <1>2, <1>3, <1>6, <1>7, <1>10, <1>11, Computed

LEMMA IdentifierBoth ==
  ASSUME EInv, NEW n \in Ident, Identifier(n), EmitIdentifier(n)
  PROVE  EInv'
<1> DEFINE v == mem[n]
           node == Evaluated("id", Abstract!IntOf(Contents[n]))
<1>1. JInv' /\ UNCHANGED Contents /\ stack' = Append(stack, node)
  BY IdentifierStep DEF EInv
<1>2. mode = "run"
  BY DEF Identifier, Push, Item
<1>3. PutInTemp(nodes, v) /\ exact' = exact
  BY DEF EmitIdentifier
<1>4. v \in Readings /\ exact' \in {"exact", "wrapped", "lost"} /\ Fades(exact, exact')
  BY <1>3 DEF EInv, Devices, Fades
<1>5. Follows(exact', v, node.val)
  <2>1. Mirrors(exact, mem[n], Contents[n])
    BY <1>2 DEF EInv, Abreast, MemoryMirrors
  <2> QED BY <1>3, <2>1 DEF Mirrors, Evaluated
<1> HIDE DEF v, node
<1>6. 0 \in {0, 2} /\ 0 <= Len(stack)
  BY Parallel
<1> QED BY <1>1, <1>2, <1>3, <1>4, <1>5, <1>6, Computed

LEMMA OperateBoth ==
  ASSUME EInv, NEW op \in {"+", "-", "*", "/"}, Operate(op), EmitOperate(op)
  PROVE  EInv'
<1> DEFINE v == Result(op, LeftRegister, RightRegister)
           node == Evaluated("binop", Binop(op, LeftValue, RightValue))
           e == Exactness(op, LeftValue, RightValue)
           d == Len(stack)
<1>1. JInv' /\ UNCHANGED Contents
  BY OperateStep DEF EInv
<1>2. /\ mode = "run" /\ d >= 2
      /\ stack' = Append(SubSeq(stack, 1, Len(stack) - 2), node)
  BY DEF Operate, Push, Item
<1>3. PutInTemp(SubSeq(nodes, 1, Len(nodes) - 2), v) /\ exact' = e
  BY DEF EmitOperate
<1>4. /\ d \in 1 .. d /\ LastNode = nodes[d] /\ Age(d) < NTemps /\ LastNode.reg \in Temps
      /\ d - 1 \in 1 .. d /\ LeftNode = nodes[d - 1] /\ LeftNode.reg \in Temps
      /\ ~Overwritten => Age(d - 1) < NTemps
  <2>1. Turning /\ d = Len(nodes) /\ d \in Nat
    BY Parallel
  <2>2. d >= 1
    BY <1>2, <2>1
  <2> QED BY <1>2, <2>1, <2>2, LastNodes
<1>5. /\ LeftValue \in Signed(INT_HALF) /\ RightValue \in Signed(INT_HALF)
      /\ LeftRegister \in Readings /\ RightRegister \in Readings
  BY <1>4, Parallel DEF LeftValue, RightValue, LeftRegister, RightRegister
<1>6. /\ ~Overwritten => Follows(exact, LeftRegister, LeftValue)
      /\ Follows(exact, RightRegister, RightValue)
  BY <1>2, <1>4
     DEF EInv, Abreast, RegistersFollow, LeftValue, RightValue, LeftRegister, RightRegister
<1>7. exact \in {"exact", "wrapped", "lost"}
  BY DEF EInv, Devices
<1>8. /\ e \in {"exact", "wrapped", "lost"} /\ Fades(exact, e)
      /\ v \in Readings /\ Follows(e, v, Binop(op, LeftValue, RightValue))
  BY <1>5, <1>6, <1>7, ResultFollows
<1>9. node.val = Binop(op, LeftValue, RightValue)
  BY DEF Evaluated
<1>10. 2 \in {0, 2} /\ 2 <= Len(stack) /\ 2 # 0
  BY <1>2, Parallel
<1> HIDE DEF v, node, e
<1>11. Follows(exact', v, node.val)
  BY <1>3, <1>8, <1>9
<1> QED BY <1>1, <1>2, <1>3, <1>8, <1>10, <1>11, Computed

(* Nothing but the print changes.                                          *)
LEMMA MirrorsStay ==
  ASSUME EInv, UNCHANGED <<mem, Contents>>, mode' = "run" => mode = "run"
  PROVE  /\ mem' \in [Ident -> Readings]
         /\ \A n \in Ident : mem'[n] = mem[n] /\ Contents'[n] = Contents[n]
         /\ UNCHANGED texts => Shelved' /\ TextsFollow'
<1>1. mem' \in [Ident -> Readings]
  BY DEF EInv, Devices
<1>2. \A n \in Ident : Contents'[n] = Contents[n]
  OBVIOUS
<1>3. NothingGiven
  BY <1>2 DEF NothingGiven
<1> QED BY <1>1, <1>2, <1>3, TextsStay

LEMMA BeginPrintBoth ==
  ASSUME EInv, BeginPrint, EmitBeginPrint
  PROVE  EInv'
<1>1. JInv' /\ UNCHANGED Contents
  BY BeginPrintStep DEF EInv
<1>2. /\ mode = "run" /\ stmt.kind = "none" /\ stmt' = Opening("print", "nothing")
      /\ stack' = stack
  BY DEF BeginPrint, Item
<1>3. exact' = exact /\ mem' = mem /\ UNCHANGED texts
  BY DEF EmitBeginPrint
<1>4. nodes' = << >> /\ stack' = << >> /\ UNCHANGED regs /\ temp_next' \in Temps
  BY <1>2, Restarted DEF EmitBeginPrint
<1>5. Echoes'
  BY <1>2, Quiet DEF Opening
<1> QED BY <1>1, <1>2, <1>3, <1>4, <1>5, MirrorsStay, Onward

LEMMA PrintLiteralBoth ==
  ASSUME EInv, NEW l \in Literal, PrintLiteral(l), EmitPrintLiteral(l)
  PROVE  EInv'
<1>1. JInv' /\ UNCHANGED Contents
  BY PrintLiteralStep DEF EInv
<1>2. mode = "run" /\ stack' = stack /\ said'.part = StringPart(l)
  BY DEF PrintLiteral, Part, Item, CapturePart
<1>3. /\ exact' = exact /\ mem' = mem /\ UNCHANGED <<registers, texts>>
      /\ shown' = StringPart(Unescape[l])
  BY DEF EmitPrintLiteral
<1>4. Echoes'
  <2>1. shown'.kind # "int"
    BY <1>3 DEF StringPart
  <2>2. Unescape[l] = l => shown' = said'.part
    BY <1>2, <1>3
  <2> QED BY <1>2, <2>1, <2>2 DEF Echoes
<1> QED BY <1>1, <1>2, <1>3, <1>4, MirrorsStay, Onward

LEMMA ShownKnown ==
  ASSUME NEW v \in Readings
  PROVE  /\ Shown(v).kind # "str"
         /\ Shown(v).kind = "int" => v.known /\ Shown(v) = IntPart(v.val)
BY DEF Shown, Readings, IntPart

LEMMA PrintVariableBoth ==
  ASSUME EInv, NEW n \in Ident, PrintVariable(n), EmitPrintVariable(n)
  PROVE  EInv'
<1>1. JInv' /\ UNCHANGED Contents /\ said'.part = Abstract!TextOf(Contents[n])
  BY PrintVariableStep DEF EInv
<1>2. mode = "run" /\ stack' = stack
  BY DEF PrintVariable, Part, Item
<1>3. exact' = exact /\ mem' = mem /\ UNCHANGED registers /\ text' = text /\ late' = late
  BY DEF EmitPrintVariable
<1>4. mem[n] \in Readings /\ Mirrors(exact, mem[n], Contents[n])
  BY <1>2 DEF EInv, Devices, Abreast, MemoryMirrors
<1>5. CASE text[n] = NoText
  <2>1. shown' = Shown(mem[n]) /\ told' = told
    BY <1>5 DEF EmitPrintVariable
  <2>2. ASSUME exact = "exact", shown'.kind = "int" PROVE shown' = said'.part
    <3>1. mem[n].known /\ shown' = IntPart(mem[n].val)
      BY <1>4, <2>1, <2>2, ShownKnown
    <3>2. mem[n].val = Abstract!IntOf(Contents[n]) /\ Contents[n].kind # "str"
      BY <1>4, <2>2, <3>1 DEF Mirrors, Follows
    <3>3. Abstract!TextOf(Contents[n]) = IntPart(Abstract!IntOf(Contents[n]))
      BY <3>2 DEF Abstract!TextOf, Abstract!IntVal, IntPart
    <3> QED BY <1>1, <3>1, <3>2, <3>3
  <2>3. Echoes'
    BY <1>3, <1>4, <2>1, <2>2, ShownKnown DEF Echoes
  <2>4. UNCHANGED texts
    BY <1>3, <2>1 DEF texts
  <2> QED BY <1>1, <1>2, <1>3, <2>3, <2>4, MirrorsStay, Onward
<1>6. CASE text[n] # NoText
  <2>1. shown' = text[n] /\ told' = [told EXCEPT ![n] = @ \cup {said'.part}]
    BY <1>6 DEF EmitPrintVariable
  <2>2. text[n] = Contents[n] /\ text[n] \in StringParts
    BY <1>2, <1>6 DEF EInv, TextsFollow, Shelved
  <2>3. text[n].kind = "str"
    BY <2>2 DEF StringParts, StringPart
  <2>4. said'.part = text[n]
    BY <1>1, <2>2, <2>3 DEF Abstract!TextOf
  <2>5. Echoes'
    BY <2>1, <2>3, <2>4 DEF Echoes
  <2>6. Shelved'
    BY <1>3, <1>6, <2>1, <2>2, <2>4 DEF EInv, Shelved
  <2>7. TextsFollow'
    BY <1>1, <1>2, <1>3 DEF EInv, TextsFollow
  <2> QED BY <1>1, <1>2, <1>3, <2>5, <2>6, <2>7, MirrorsStay, Onward
<1> QED BY <1>5, <1>6

LEMMA PrintExpressionBoth ==
  ASSUME EInv, PrintExpression, EmitPrintExpression
  PROVE  EInv'
<1>1. JInv' /\ UNCHANGED Contents
  BY PrintExpressionStep DEF EInv
<1>2. /\ mode = "run" /\ Len(stack) = 1 /\ stack' = << >>
      /\ said'.part = IntPart(stack[1].val)
  BY DEF PrintExpression, Part, Item, CapturePart
<1>3. /\ RightRegister \in Readings /\ Follows(exact, RightRegister, stack[1].val)
      /\ LastNode.reg \in Temps
  BY <1>2, Whole
<1>4. /\ exact' = exact /\ mem' = mem /\ UNCHANGED texts /\ shown' = Shown(RightRegister)
      /\ nodes' = << >> /\ UNCHANGED regs /\ temp_next' \in Temps
  BY <1>3 DEF EmitPrintExpression, GiveBack
<1>5. ASSUME exact = "exact", shown'.kind = "int" PROVE shown' = said'.part
  <2>1. RightRegister.known /\ shown' = IntPart(RightRegister.val)
    BY <1>3, <1>4, <1>5, ShownKnown
  <2> QED BY <1>2, <1>3, <1>5, <2>1 DEF Follows
<1>6. Echoes'
  BY <1>3, <1>4, <1>5, ShownKnown DEF Echoes
<1> QED BY <1>1, <1>2, <1>4, <1>6, MirrorsStay, Onward

LEMMA EndPrintBoth ==
  ASSUME EInv, EndPrint, EmitNewline
  PROVE  EInv'
<1>1. JInv' /\ UNCHANGED Contents
  BY EndPrintStep DEF EInv
<1>2. mode = "run" /\ stmt' = NoStatement /\ stack' = stack
  BY DEF EndPrint, Item
<1>3. exact' = exact /\ mem' = mem /\ UNCHANGED <<registers, texts>>
  BY DEF EmitNewline
<1>4. Echoes'
  BY <1>2, Quiet DEF NoStatement
<1> QED BY <1>1, <1>2, <1>3, <1>4, MirrorsStay, Onward

LEMMA ReturnBoth ==
  ASSUME EInv, Return, UNCHANGED machine
  PROVE  EInv'
<1>1. JInv'
  BY ReturnStep DEF EInv
<1>2. /\ mode' # "run" /\ stack' = stack /\ exact' = exact /\ mem' = mem
      /\ UNCHANGED <<registers, texts>>
  BY DEF Return, machine
<1>3. Echoes' /\ mem' \in [Ident -> Readings]
  BY <1>2, Quiet DEF EInv, Devices
<1>4. Shelved' /\ TextsFollow'
  BY <1>2, TextsStay
<1> QED BY <1>1, <1>2, <1>3, <1>4, Onward

LEMMA StutterBoth ==
  ASSUME EInv, UNCHANGED vars, UNCHANGED machine
  PROVE  EInv'
<1>1. JInv' /\ UNCHANGED Contents
  BY StutterStep DEF EInv
<1>2. /\ mode' = mode /\ stack' = stack /\ stmt' = stmt /\ said' = said
      /\ exact' = exact /\ UNCHANGED <<registers, texts>> /\ mem' = mem /\ shown' = shown
  BY DEF vars, statement, printing, machine
<1>3. Echoes'
  BY <1>2 DEF EInv, Echoes, PrintedNow
<1> QED BY <1>1, <1>2, <1>3, MirrorsStay, Onward

(***************************************************************************)
(* The theorems.                                                           *)
(***************************************************************************)
LEMMA BothBegin ==
  ASSUME BothInit
  PROVE  EInv
<1>1. JInv
  BY InitStep DEF BothInit
<1>2. /\ mem = [n \in Ident |-> Known(0)] /\ stack = << >> /\ nodes = << >>
      /\ regs = [r \in Temps |-> Unknown] /\ temp_next = temp_start
      /\ text = [n \in Ident |-> NoText] /\ told = [n \in Ident |-> {}]
      /\ exact = "exact" /\ stmt = NoStatement
  BY DEF BothInit, MachineInit, Init
<1>3. Known(0) \in Readings /\ Unknown \in Readings
  BY DEF Known, Unknown, Readings
<1>4. Devices
  <2>1. Turning
    BY <1>2, <1>3, AnyTemps DEF Turning
  <2> QED BY <1>2, <1>3, <2>1 DEF Devices
<1>5. RegistersFollow /\ Echoes
  BY <1>2 DEF RegistersFollow, Echoes, PrintedNow, NoStatement
<1>6. Contents = [n \in Ident |-> Undeclared]
  BY InitStep DEF BothInit, Abstract!Init, Abstract!Undeclared, Contents, Undeclared
<1>7. Wrap(INT_HALF, 0) = 0
  BY Halves, WrapOfSigned
<1>8. Mirrors(exact, Known(0), Undeclared)
  BY <1>7 DEF Mirrors, Follows, Known, Undeclared, Abstract!IntOf
<1>9. MemoryMirrors
  BY <1>2, <1>6, <1>8 DEF MemoryMirrors
<1>10. Shelved /\ TextsFollow
  BY <1>2 DEF Shelved, TextsFollow
<1> QED BY <1>1, <1>4, <1>5, <1>9, <1>10 DEF EInv, Abreast

LEMMA BothGoOn ==
  ASSUME EInv, [BothNext]_allVars
  PROVE  EInv'
<1>1. CASE Statements
  <2>1. ASSUME NEW n \in Ident, NEW type \in {"int", "ch"}, Declare(n, type), UNCHANGED machine
        PROVE  EInv'
    BY <2>1, DeclareBoth
  <2>2. ASSUME NEW n \in Ident, NEW kind \in {"decl", "assign"}, Target(kind, n), EmitTarget
        PROVE  EInv'
    BY <2>2, TargetBoth
  <2>3. ASSUME NEW n \in Ident, NEW l \in Literal, DeclareString(n, l), DeclareText(n, l)
        PROVE  EInv'
    BY <2>3, DeclareTextBoth
  <2>4. ASSUME NEW n \in Ident, NEW l \in Literal, AssignString(n, l), AssignText(n, l)
        PROVE  EInv'
    BY <2>4, AssignTextBoth
  <2> QED BY <1>1, <2>1, <2>2, <2>3, <2>4, StoreBoth DEF Statements
<1>2. CASE Expressions
  <2>1. ASSUME NEW k \in Numeral, NumberNode(k), EmitNumber(k) PROVE EInv'
    BY <2>1, NumberBoth
  <2>2. ASSUME NEW n \in Ident, Identifier(n), EmitIdentifier(n) PROVE EInv'
    BY <2>2, IdentifierBoth
  <2>3. ASSUME NEW op \in {"+", "-", "*", "/"}, Operate(op), EmitOperate(op) PROVE EInv'
    BY <2>3, OperateBoth
  <2> QED BY <1>2, <2>1, <2>2, <2>3 DEF Expressions
<1>3. CASE Prints
  <2>1. ASSUME NEW l \in Literal, PrintLiteral(l), EmitPrintLiteral(l) PROVE EInv'
    BY <2>1, PrintLiteralBoth
  <2>2. ASSUME NEW n \in Ident, PrintVariable(n), EmitPrintVariable(n) PROVE EInv'
    BY <2>2, PrintVariableBoth
  <2> QED BY <1>3, <2>1, <2>2, BeginPrintBoth, PrintExpressionBoth, EndPrintBoth DEF Prints
<1>4. CASE (Return \/ Finished) /\ UNCHANGED machine
  BY <1>4, ReturnBoth, StutterBoth DEF Finished
<1>5. CASE UNCHANGED allVars
  BY <1>5, StutterBoth DEF allVars
<1> QED BY <1>1, <1>2, <1>3, <1>4, <1>5 DEF BothNext

LEMMA BothInvariance == BothSpec => []EInv
BY BothBegin, BothGoOn, PTL DEF BothSpec

(* The generated code computes, stores and prints the interpreter's        *)
(* numbers, through however many turns of the circle of temporaries, as    *)
(* long as no int overflowed, no constant was cut and no right operand had *)
(* as many nodes as there are temporaries: for every width of int,         *)
(* immediate and register and every number of temporaries.                 *)
THEOREM NumbersAgree == BothSpec => []SameNumbers
BY BothInvariance, SameIsImplied, PTL

(* When ints overflowed, the wider registers still have the interpreter's  *)
(* numbers in their low bits, until something is divided.                  *)
THEOREM LowBitsAgree == BothSpec => []SameLowBits
BY BothInvariance, SameIsImplied, PTL

(* The text at a string variable's label is what the interpreter has on    *)
(* its heap; every text that the code printed from there is the one the    *)
(* interpreter printed, unless the variable was given another one since,   *)
(* and a literal is printed as it is unless unescaping it again changes it.*)
THEOREM TextsAgree == BothSpec => []SameTexts
BY BothInvariance, SameIsImplied, PTL

=============================================================================
