----------------------------- MODULE Expression -----------------------------
(***************************************************************************)
(* Expressions of scalars: the types that parse.c gives to the nodes, the  *)
(* instructions that codegen.c makes for them, and what these compute,     *)
(* beside what C says.  An expression is read in the order in which        *)
(* codegen() makes its code, operands first, so a node takes its operands  *)
(* from the end of a list.                                                 *)
(*                                                                         *)
(* The program is the environment: every action chooses a node.  It is one *)
(* that C gives a value to, as far as its operands have their C values.    *)
(***************************************************************************)
EXTENDS Integers, Sequences

CONSTANTS
  Bits,          \* how wide LLVM's integer types are
  ValuesOf,      \* the values of the variables of each of their types
  Literals,      \* the numbers in the text
  Elements,      \* the size of the array that pointers point into
  MaxNodes       \* bound: nodes of an expression, besides `?:'

Narrow == {"BOOL", "CHAR", "SHORT"}
Wide == {"INT", "LONG"}
Reals == {"FLOAT", "DOUBLE"}
LLVMInts == {"i8", "i16", "i32", "i64"}
LLVMReals == {"float", "double"}

CTypes ==
  [base : Narrow \cup Wide \cup Reals \cup {"PTR"}, unsigned : {FALSE}]
    \cup [base : {"CHAR", "SHORT"} \cup Wide, unsigned : {TRUE}]

ASSUME WidthsAssumption ==
  /\ Bits \in [LLVMInts -> Nat]
  /\ 1 < Bits["i8"] /\ Bits["i8"] < Bits["i16"]
  /\ Bits["i16"] < Bits["i32"] /\ Bits["i32"] < Bits["i64"]

Variables == DOMAIN ValuesOf

VARIABLES
  operands,  \* the values that codegen() has returned and nothing has taken
  tests,     \* the conditions of the `?:' whose branches are generated
  stored,    \* what the last step stored or passed on
  nodes,     \* variables, literals and operators so far
  status     \* "generating", or how the compiler ended

exprVars == <<operands, tests, stored, nodes, status>>

Signed(base) == [base |-> base, unsigned |-> FALSE]
IntType == Signed("INT")
Pointer == Signed("PTR")

\* node->type == NULL
NoType == Signed("NULL")

Last == operands[Len(operands)]
Before == operands[Len(operands) - 1]

-----------------------------------------------------------------------------
(* What C says: the value of an expression is an integer of a type.  Reals *)
(* are kept to integers, and pointers are places 1 .. Elements + 1.        *)

ToLLVM(ty) ==
  CASE ty.base \in {"BOOL", "CHAR"} -> "i8"
    [] ty.base = "SHORT" -> "i16"
    [] ty.base \in {"INT", "NULL"} -> "i32"
    [] ty.base = "LONG" -> "i64"
    [] ty.base = "FLOAT" -> "float"
    [] ty.base = "DOUBLE" -> "double"
    [] ty.base = "PTR" -> "ptr"

IsInt(ty) == ty.base \in Narrow \cup Wide
IsReal(ty) == ty.base \in Reals

Power ==
  LET double[n \in 0 .. Bits["i64"]] == IF n = 0 THEN 1 ELSE 2 * double[n - 1]
  IN  [n \in 0 .. Bits["i64"] |-> double[n]]

Wrap(n, unsigned, bits) ==
  LET m == n % Power[bits]
  IN  IF unsigned \/ m < Power[bits - 1] THEN m ELSE m - Power[bits]

InC(n, ty) ==
  IF ty.base = "BOOL" THEN IF n = 0 THEN 0 ELSE 1
  ELSE IF IsInt(ty) THEN Wrap(n, ty.unsigned, Bits[ToLLVM(ty)]) ELSE n

(* Variables have values of their types.  A place is a number of int, as    *)
(* the size of an array is.                                                *)
ASSUME ValuesAssumption ==
  /\ Variables \subseteq CTypes
  /\ \A ty \in Variables : \A n \in ValuesOf[ty] :
       n \in Int /\ InC(n, ty) = n /\ (ty.base = "PTR" => n \in 1 .. Elements + 1)
  /\ Literals \subseteq Nat
  /\ Elements \in Nat /\ Elements < Power[Bits["i32"] - 1]
  /\ MaxNodes \in Nat

Promoted(ty) == IF ty.base \in Narrow THEN IntType ELSE ty

Usual(s, t) ==
  LET p == Promoted(s)
      q == Promoted(t)
  IN  IF IsReal(p) \/ IsReal(q)
      THEN Signed(IF "DOUBLE" \in {p.base, q.base} THEN "DOUBLE" ELSE "FLOAT")
      ELSE IF p.base = q.base
      THEN [p EXCEPT !.unsigned = p.unsigned \/ q.unsigned]
      ELSE IF p.base = "LONG" THEN p ELSE q

Truncated(a, b) ==
  LET q == (IF a < 0 THEN -a ELSE a) \div (IF b < 0 THEN -b ELSE b)
  IN  IF (a < 0) = (b < 0) THEN q ELSE -q

Arithmetic == {"+", "-", "*", "/", "%", "&"}
Shifts == {"<<", ">>"}
Comparisons == {"==", "!=", "<", "<="}
Operators == Arithmetic \cup Shifts \cup Comparisons

Compared(op, a, b) ==
  LET holds == CASE op = "==" -> a = b
                 [] op = "!=" -> a # b
                 [] op = "<" -> a < b
                 [] op = "<=" -> a <= b
  IN  IF holds THEN 1 ELSE 0

Bit(a, n) == (a \div Power[n]) % 2

\* The bits that a and b both have, of the lowest.
BitAnd(a, b, bits) ==
  LET upTo[n \in 0 .. bits] ==
        IF n = 0 THEN 0 ELSE upTo[n - 1] + Bit(a, n - 1) * Bit(b, n - 1) * Power[n - 1]
  IN  upTo[bits]

Computed(op, a, b, bits) ==
  CASE op = "+" -> a + b
    [] op = "-" -> a - b
    [] op = "*" -> a * b
    [] op = "/" -> Truncated(a, b)
    [] op = "%" -> a - b * Truncated(a, b)
    [] op = "&" -> BitAnd(a % Power[bits], b % Power[bits], bits)
    [] op = "<<" -> a * Power[b]
    [] op = ">>" -> a \div Power[b]

CType(op, s, t) ==
  IF op \in Comparisons THEN IntType
  ELSE IF op \in Shifts THEN Promoted(s)
  ELSE IF "PTR" \notin {s.base, t.base} THEN Usual(s, t)
  ELSE IF s.base = t.base THEN Signed("LONG")
  ELSE Pointer

(* The value that C gives to the operator, before it is brought into the   *)
(* range of an unsigned type.                                              *)
CExact(op, l, r) ==
  LET t == IF op \in Shifts THEN Promoted(l.cty)
           ELSE IF "PTR" \in {l.cty.base, r.cty.base} THEN Signed("LONG")
           ELSE Usual(l.cty, r.cty)
      a == InC(l.cv, t)
      b == IF op \in Shifts THEN r.cv ELSE InC(r.cv, t)
  IN  IF op \in Comparisons THEN Compared(op, a, b)
      ELSE Computed(op, a, b, IF IsInt(t) THEN Bits[ToLLVM(t)] ELSE 0)

CValue(op, l, r) == InC(CExact(op, l, r), CType(op, l.cty, r.cty))

\* The operand types that the operator has in C.
Fits(op, s, t) ==
  \/ {s.base, t.base} = {"PTR"} /\ op \in {"-"} \cup Comparisons
  \/ s.base = "PTR" /\ IsInt(t) /\ op \in {"+", "-"}
  \/ IsInt(s) /\ t.base = "PTR" /\ op = "+"
  \/ IsInt(s) /\ IsInt(t)
  \/ /\ "PTR" \notin {s.base, t.base}
     /\ IsReal(s) \/ IsReal(t)
     /\ op \in {"+", "-", "*", "/"} \cup Comparisons

(* The behaviour of the operator is defined; quotients of reals that are   *)
(* no integers are left out.                                               *)
Defined(op, l, r) ==
  LET t == CType(op, l.cty, r.cty) IN
  /\ Fits(op, l.cty, r.cty)
  /\ op \in {"/", "%"} => r.cv # 0 /\ InC(r.cv, t) # 0
  /\ op = "/" /\ IsReal(t) => l.cv % (IF r.cv < 0 THEN -r.cv ELSE r.cv) = 0
  /\ op \in Shifts => r.cv \in 0 .. Bits[ToLLVM(t)] - 1
  /\ op = "<<" /\ ~t.unsigned => l.cv >= 0
  /\ t.base = "PTR" => CExact(op, l, r) \in 1 .. Elements + 1
  /\ IsInt(t) /\ ~t.unsigned /\ op # "&" => CExact(op, l, r) = CValue(op, l, r)

-----------------------------------------------------------------------------
(* codegen.c: a value has an LLVM type, and an integer is a bit pattern.   *)

Value(lt, n) ==
  [ty |-> lt, v |-> IF lt \in LLVMInts THEN n % Power[Bits[lt]] ELSE n]

Read(x, unsigned) ==
  IF x.ty \in LLVMInts THEN Wrap(x.v, unsigned, Bits[x.ty]) ELSE x.v

GetTypeRank(ty) ==
  CASE ty.base = "DOUBLE" -> 100
    [] ty.base = "FLOAT" -> 90
    [] ty.base = "LONG" -> 80
    [] ty.base = "INT" -> 70
    [] ty.base = "SHORT" -> 65
    [] ty.base = "CHAR" -> 60
    [] ty.base = "BOOL" -> 50

GetCommonType(s, t) ==
  CASE s.base = "PTR" -> s
    [] s.base # "PTR" /\ t.base = "PTR" -> t
    [] s.base # "PTR" /\ t.base # "PTR" ->
         IF GetTypeRank(s) > GetTypeRank(t) THEN s
         ELSE IF GetTypeRank(t) > GetTypeRank(s) THEN t
         ELSE [s EXCEPT !.unsigned = s.unsigned \/ t.unsigned]

(* Slip: an operand is widened with its sign, whatever its type. *)
MatchTypes_Sign(x, ty, lt) ==
  IF \/ lt \in LLVMReals /\ x.ty \in LLVMInts \cup {"float"}
     \/ lt = "ptr" /\ x.ty \in LLVMInts
     \/ {x.ty, lt} \subseteq LLVMInts /\ Bits[x.ty] < Bits[lt]
  THEN Value(lt, Read(x, FALSE))
  ELSE x

(* match_types: the operand x of type ty beside one of the LLVM type lt.   *)
(* An integer beside a real is always read with its sign.                  *)
MatchTypes(x, ty, lt) ==
  CASE lt = "double" /\ x.ty \in LLVMInts \cup {"float"} ->
         Value(lt, Read(x, FALSE))
    [] lt = "float" /\ x.ty \in LLVMInts -> Value(lt, Read(x, FALSE))
    [] lt = "ptr" /\ x.ty \in LLVMInts -> Value(lt, Read(x, FALSE))
    [] {x.ty, lt} \subseteq LLVMInts /\ Bits[x.ty] < Bits[lt] ->
         Value(lt, Read(x, ty.unsigned))
    [] OTHER -> x

ConvertToBool(x) == IF x.v = 0 THEN 0 ELSE 1

CastValue(x, ty, lt, toBool) ==
  IF toBool THEN Value("i8", ConvertToBool(x))
  ELSE IF x.ty = lt THEN x
  ELSE Value(lt, Read(x, ty.unsigned))

(* What LLVM makes of a real that an integer type does not hold is left    *)
(* out, and so are casts between numbers and pointers.                     *)
CanCast(e, ty) ==
  /\ e.cty.base = "PTR" => ty.base \in {"PTR", "BOOL"}
  /\ e.val.ty = "ptr" => ~IsReal(ty)
  /\ ty.base = "PTR" => e.cty.base = "PTR"
  /\ IsReal(e.cty) /\ IsInt(ty) /\ ty.base # "BOOL" =>
       LET half == Power[Bits[ToLLVM(ty)] - 1]
       IN  {e.cv, e.val.v} \subseteq
             (IF ty.unsigned THEN 0 ELSE -half) .. half - 1

\* Loads of a char are widened, but not those of a short or a bool.
Load(place, ty, n) ==
  LET x == Value(ToLLVM(ty), n)
  IN  IF ty.base = "CHAR"
      THEN Value("i32", Read(x, ty.unsigned /\ ~place)) ELSE x

Gep(p, i) == Value("ptr", p.v + Read(i, FALSE))
Negated(x) == Value(x.ty, -x.v)

-----------------------------------------------------------------------------
(* The operand that a node makes of its operands *)

(* ty is node->type and val what codegen returns; cty and cv are C's type  *)
(* and value; kept says that nothing below the node is of the kinds where  *)
(* the code departs from C (README.md); folded is what eval_const_int      *)
(* finds, and plain that it was found without casts and unsigned operands. *)
Operand(ty, val, cty, cv, kept) ==
  [ty |-> ty, val |-> val, cty |-> cty, cv |-> cv, kept |-> kept,
   folded |-> <<>>, plain |-> FALSE]

Push(e) == operands' = Append(operands, e)
Take(k) == SubSeq(operands, 1, Len(operands) - k)
Replace(k, e) == operands' = Append(Take(k), e)

IsWide(ty) == ty.base \in Wide \cup Reals \cup {"PTR"}

NodeType(op, s, t) ==
  CASE op \in Comparisons -> IntType
    [] op \in Shifts -> s
    [] OTHER -> GetCommonType(s, t)

\* The index of a pointer is added with its sign.
PointerOp(op, l, r) ==
  op \in {"+", "-"} /\ (l.ty.base = "PTR" \/ (op = "+" /\ r.ty.base = "PTR"))

Address(l, r) == IF l.ty.base = "PTR" THEN l ELSE r
Index(l, r) == IF l.ty.base = "PTR" THEN r ELSE l

PointerValue(op, l, r) ==
  IF op = "-" /\ r.ty.base = "PTR" THEN Value("i64", l.val.v - r.val.v)
  ELSE IF op = "-" THEN Gep(l.val, Negated(r.val))
  ELSE Gep(Address(l, r).val, Index(l, r).val)

\* Division and shifts ask the node, comparisons their operands.
IsUnsignedOp(op, ty, l, r) ==
  IF op \in Comparisons THEN GetCommonType(l.ty, r.ty).unsigned ELSE ty.unsigned

NumberValue(op, ty, l, r) ==
  LET x == MatchTypes(l.val, l.ty, r.val.ty)
      y == MatchTypes(r.val, r.ty, l.val.ty)
      u == IsUnsignedOp(op, ty, l, r)
  IN  IF op \in Comparisons
      THEN Value("i32", Compared(op, Read(x, u), Read(y, u)))
      ELSE Value(x.ty, Computed(op, Read(x, u),
                                Read(y, u \/ op \in Shifts),
                                IF x.ty \in LLVMInts THEN Bits[x.ty] ELSE 0))

BinaryValue(op, ty, l, r) ==
  IF PointerOp(op, l, r) THEN PointerValue(op, l, r)
  ELSE NumberValue(op, ty, l, r)

\* LLVM divides by nothing but zero is zero, and shifts by less than the width.
HasValue(op, l, r) ==
  LET y == MatchTypes(r.val, r.ty, l.val.ty) IN
  /\ op \in {"/", "%"} => y.v # 0
  /\ op = "/" /\ y.ty \in LLVMReals => l.val.v % (IF y.v < 0 THEN -y.v ELSE y.v) = 0
  /\ op \in Shifts => y.v < Bits[y.ty]

(* LLVM's address instructions want a pointer and an integer, arithmetic   *)
(* wants numbers, and shifts, remainders and `&' want integers.            *)
IsRefused(op, l, r) ==
  IF PointerOp(op, l, r)
  THEN \/ Address(l, r).val.ty # "ptr"
       \/ op = "-" /\ r.ty.base = "PTR" /\ r.val.ty # "ptr"
       \/ Index(l, r).ty.base # "PTR" /\ Index(l, r).val.ty \notin LLVMInts
  ELSE LET kinds == {l.val.ty, r.val.ty} IN
       \/ "ptr" \in kinds /\ (op \notin Comparisons \/ kinds \cap LLVMReals # {})
       \/ op \in Shifts \cup {"%", "&"} /\ kinds \cap LLVMReals # {}

(* Where the code does what C says: at least one operand needs no          *)
(* promotion, no unsigned operand is beside a real, an index is signed, a  *)
(* shift is not wider than what it shifts.  (A difference of pointers is a *)
(* pointer for the parser, and so is never unsigned.)                      *)
Keeps(op, l, r) ==
  /\ l.kept /\ r.kept
  /\ CASE PointerOp(op, l, r) ->
            Index(l, r).ty.base # "PTR" =>
              IsWide(Index(l, r).ty) /\ ~Index(l, r).ty.unsigned
       [] op \in Shifts ->
            IsWide(l.ty) /\ Bits[r.val.ty] <= Bits[l.val.ty]
       [] OTHER ->
            /\ IsWide(l.ty) \/ IsWide(r.ty)
            /\ l.ty.base \in Reals \cup {"PTR"} => ~r.ty.unsigned
            /\ r.ty.base \in Reals \cup {"PTR"} => ~l.ty.unsigned

BinaryOperand(op, ty, l, r) ==
  Operand(ty, BinaryValue(op, ty, l, r), CType(op, l.cty, r.cty),
          CValue(op, l, r), Keeps(op, l, r))

-----------------------------------------------------------------------------
(* eval_const_int *)

Foldable == Operators \ ({"&"} \cup Shifts)

LongLong(n) == Wrap(n, FALSE, Bits["i64"])

\* Slip: a remainder is taken as floor division leaves it.
FoldedOp_Floor(op, a, b) ==
  IF op = "%" THEN <<a % (IF b < 0 THEN -b ELSE b)>>
  ELSE IF op \in Comparisons THEN <<Compared(op, a, b)>>
  ELSE <<LongLong(Computed(op, a, b, 0))>>

FoldedOp(op, a, b) ==
  IF op \in Comparisons THEN <<Compared(op, a, b)>>
  ELSE <<LongLong(Computed(op, a, b, 0))>>

Folded(op, l, r) ==
  IF /\ op \in Foldable /\ l.folded # <<>> /\ r.folded # <<>>
     /\ op \in {"/", "%"} => r.folded[1] # 0
  THEN FoldedOp(op, l.folded[1], r.folded[1]) ELSE <<>>

WithFolded(e, folded, plain) ==
  [e EXCEPT !.folded = folded, !.plain = plain /\ folded # <<>>]

ArePlain(l, r) == l.plain /\ r.plain /\ ~l.ty.unsigned /\ ~r.ty.unsigned

-----------------------------------------------------------------------------
(* The steps of parse_expr and codegen *)

Generates == status = "generating"
Generating == Generates /\ UNCHANGED status

\* The last k operands are there, and none of them is from before the condition.
Has(k) ==
  Len(operands) >= k + (IF tests = <<>> THEN 0 ELSE tests[1].before)

Fails(k) == Generates /\ nodes < MaxNodes /\ Has(k)

Stores(slot, x, ty, cv, kept) ==
  stored' = [slot |-> slot, val |-> x, ty |-> ty, cv |-> cv, kept |-> kept]

Nothing ==
  [slot |-> "i32", val |-> Value("i32", 0), ty |-> IntType, cv |-> 0, kept |-> TRUE]

Quiet == stored' = Nothing

EndAs(end) ==
  /\ status' = end
  /\ operands' = <<>>
  /\ tests' = <<>>
  /\ stored' = Nothing
  /\ UNCHANGED nodes

ExprInit ==
  /\ operands = <<>>
  /\ tests = <<>>
  /\ stored = Nothing
  /\ nodes = 0
  /\ status = "generating"

(* The next node is one of k operands; made is how many nodes the parser   *)
(* makes for it.  The expression can still be ended.                       *)
Node(k, made) ==
  /\ Generating
  /\ nodes + made <= MaxNodes
  /\ Has(k)
  /\ nodes' = nodes + made
  /\ nodes' + Len(operands) - k - Len(tests) <= MaxNodes
  /\ UNCHANGED tests

\* What an element or a member holds is loaded by other code than a variable.
Places(ty) == IF ty.base = "CHAR" THEN BOOLEAN ELSE {FALSE}

\* An unsigned char that is no variable is widened with its sign.
VariableOperand(place, ty, n) ==
  Operand(ty, Load(place, ty, n), ty, n,
          ~(place /\ ty = [base |-> "CHAR", unsigned |-> TRUE]))

Variable(place, ty, n) ==
  /\ Node(0, 1)
  /\ Push(VariableOperand(place, ty, n))
  /\ Quiet

(* A literal is an int or an unsigned int, whatever its value is. *)
Number(n, unsigned) ==
  LET most == Power[Bits["i32"] - 1] - 1
      val  == IF ~unsigned /\ n > most THEN most ELSE n
      ty   == [IntType EXCEPT !.unsigned = unsigned]
      cty  == IF n > most /\ ~unsigned THEN Signed("LONG") ELSE ty
  IN  /\ Node(0, 1)
      /\ n < Power[Bits["i32"]]
      /\ Push(WithFolded(Operand(ty, Value("i32", val), cty, n, val = n),
                         <<val>>, TRUE))
      /\ Quiet

Binary(op) ==
  LET l == Before
      r == Last
      ty == NodeType(op, l.ty, r.ty)
  IN  /\ Node(2, 1)
      /\ Defined(op, l, r) /\ ~IsRefused(op, l, r) /\ HasValue(op, l, r)
      /\ Replace(2, WithFolded(BinaryOperand(op, ty, l, r),
                               Folded(op, l, r), ArePlain(l, r)))
      /\ Quiet

\* 0 - e, which is an int for the parser.
Minus ==
  LET zero == Operand(IntType, Value("i32", 0), IntType, 0, TRUE)
      e == Last
      t == CType("-", IntType, e.cty)
  IN  /\ Node(1, 2)
      /\ e.cty.base # "PTR"
      /\ Defined("-", zero, e) /\ ~IsRefused("-", zero, e)
      /\ Replace(1, WithFolded(
            Operand(IntType, BinaryValue("-", IntType, zero, e), t,
                    CValue("-", zero, e), Keeps("-", zero, e) /\ t = IntType),
            Folded("-", [zero EXCEPT !.folded = <<0>>], e),
            e.plain /\ ~e.ty.unsigned))
      /\ Quiet

BitNot ==
  LET e == Last
      t == Promoted(e.cty)
  IN  /\ Node(1, 1)
      /\ IsInt(e.cty) /\ e.val.ty \in LLVMInts
      /\ Replace(1, Operand(e.ty, Value(e.val.ty, -1 - e.val.v), t,
                            InC(-1 - e.cv, t), e.kept /\ IsWide(e.ty)))
      /\ Quiet

LogicalNot ==
  LET e == Last IN
  /\ Node(1, 1)
  /\ Replace(1, WithFolded(
        Operand(IntType, Value("i32", 1 - ConvertToBool(e.val)), IntType,
                1 - InC(e.cv, Signed("BOOL")), e.kept),
        IF e.folded = <<>> THEN <<>> ELSE <<1 - InC(e.folded[1], Signed("BOOL"))>>,
        e.plain))
  /\ Quiet

Joined(op, a, b) == IF op = "&&" THEN a * b ELSE IF a + b = 0 THEN 0 ELSE 1

\* && and ||: which operand is evaluated does not change the value.
Logical(op) ==
  LET l == Before
      r == Last
  IN  /\ Node(2, 1)
      /\ Replace(2, WithFolded(
            Operand(IntType,
                    Value("i32", Joined(op, ConvertToBool(l.val),
                                        ConvertToBool(r.val))),
                    IntType,
                    Joined(op, InC(l.cv, Signed("BOOL")), InC(r.cv, Signed("BOOL"))),
                    l.kept /\ r.kept),
            IF l.folded = <<>> \/ r.folded = <<>> THEN <<>>
            ELSE <<Joined(op, InC(l.folded[1], Signed("BOOL")),
                          InC(r.folded[1], Signed("BOOL")))>>,
            l.plain /\ r.plain))
      /\ Quiet

\* Slip: the branches are joined as they are.
Branch_NoCast(e, ty) == e.val

Branch(e, ty) == CastValue(e.val, e.ty, ToLLVM(ty), ty.base = "BOOL")

(* e ? l : r: the condition is tested before the branches are generated.   *)
Test ==
  /\ Generating
  /\ tests = <<>> /\ operands # <<>>
  /\ tests' = <<[taken |-> ConvertToBool(Last.val) = 1,
                 meant |-> Last.cv # 0,
                 kept |-> Last.kept, plain |-> Last.plain,
                 folded |-> IF Last.folded = <<>> THEN <<>>
                            ELSE <<InC(Last.folded[1], Signed("BOOL"))>>,
                 before |-> Len(operands) - 1]>>
  /\ operands' = Take(1)
  /\ Quiet /\ UNCHANGED nodes

(* Both branches are cast to their common type. *)
Conditional ==
  LET e == tests[1]
      l == Before
      r == Last
      ty == GetCommonType(l.ty, r.ty)
      cty == IF l.cty.base = "PTR" THEN Pointer ELSE Usual(l.cty, r.cty)
      taken == IF e.taken THEN l ELSE r
      meant == IF e.meant THEN l ELSE r
  IN  /\ Generating
      /\ tests # <<>> /\ Len(operands) = e.before + 2
      /\ tests' = <<>>
      /\ (l.cty.base = "PTR") = (r.cty.base = "PTR")
      /\ \A b \in {l, r} :
            CanCast(b, ty) /\ (b.ty.base = "PTR" => b.cty.base = "PTR")
      /\ Replace(2, WithFolded(
            Operand(ty, Branch(taken, ty), cty, InC(meant.cv, cty),
                    /\ e.kept /\ l.kept /\ r.kept
                    /\ IsWide(l.ty) \/ IsWide(r.ty) \/ l.ty = r.ty),
            IF e.folded = <<>> THEN <<>>
            ELSE IF e.folded[1] # 0 THEN l.folded ELSE r.folded,
            e.plain /\ ArePlain(l, r)))
      /\ Quiet /\ UNCHANGED nodes

\* `(short) e' is not read as a cast.
Cast(ty) ==
  LET e == Last IN
  /\ Node(1, 1)
  /\ ty.base # "SHORT"
  /\ CanCast(e, ty)
  /\ Replace(1, WithFolded(
        Operand(ty, CastValue(e.val, e.ty, ToLLVM(ty), ty.base = "BOOL"),
                ty, InC(e.cv, ty), e.kept),
        e.folded, FALSE))
  /\ Quiet

(* The value of an assignment is what was assigned, before the cast. *)
Assigned(ty, val, cv, kept) ==
  Operand(ty, val, ty, InC(cv, ty),
          kept /\ val.ty = ToLLVM(ty) /\ InC(cv, ty) = cv)

Assign(ty) ==
  LET e == Last IN
  /\ Node(1, 2)
  /\ CanCast(e, ty)
  /\ Stores(ToLLVM(ty), CastValue(e.val, e.ty, ToLLVM(ty), ty.base = "BOOL"),
            ty, InC(e.cv, ty), e.kept)
  /\ Replace(1, Assigned(ty, e.val, e.cv, e.kept))

CompoundOps == {"+", "-", "*", "/", "&", "<<", ">>"}

(* The operator of a compound assignment has no type. *)
Compound(op, place, ty, n) ==
  LET e == Last
      l == VariableOperand(place, ty, n)
      r == BinaryOperand(op, NoType, l, e)
  IN  /\ Node(1, 3)
      /\ Defined(op, l, e) /\ ~IsRefused(op, l, e) /\ HasValue(op, l, e)
      /\ r.cty.base = "PTR" => ty.base = "PTR"
      /\ op \in {"/", ">>"} => r.val.ty \in LLVMReals
      /\ CanCast(r, ty)
      /\ Stores(ToLLVM(ty), CastValue(r.val, NoType, ToLLVM(ty), ty.base = "BOOL"),
                ty, InC(r.cv, ty), r.kept)
      /\ Replace(1, Assigned(ty, r.val, r.cv, r.kept))

(* Division and right shift ask the type that is not there, unless the     *)
(* operands are divided as reals.                                          *)
CompoundFails(op, place, ty, n) ==
  LET e == Last
      l == VariableOperand(place, ty, n)
      crashes == \/ op = ">>"
                 \/ op = "/" /\ MatchTypes(l.val, ty, e.val.ty).ty \notin LLVMReals
  IN  /\ Fails(1)
      /\ crashes \/ IsRefused(op, l, e)
      /\ Defined(op, l, e)
      /\ EndAs(IF crashes THEN "crashed" ELSE "refused")

(* ++ and --: 1 is an i32, and what the sum is, is stored. *)
IncDec(ty, n, op, pre) ==
  LET old == Operand(ty, Value(ToLLVM(ty), n), ty, n, IsWide(ty))
      one == Operand(IntType, Value("i32", 1), IntType, 1, TRUE)
      x   == IF ty.base = "PTR" THEN old.val ELSE MatchTypes(old.val, ty, "i32")
      new == BinaryValue(op, NoType, old, one)
      cv  == CExact(op, old, one)
  IN  /\ Node(0, 2)
      /\ ~IsReal(ty)
      /\ Defined(op, old, one)
      /\ Stores(ToLLVM(ty), new, ty, InC(cv, ty), old.kept)
      /\ Push(Operand(ty, IF pre THEN new ELSE x, ty,
                      IF pre THEN InC(cv, ty) ELSE n, old.kept))

(* The value of an initializer, of a return, or of an argument, whose      *)
(* parameter is known by its LLVM type only.                               *)
Convert(ty, argument) ==
  LET e == Last IN
  /\ Generating
  /\ Len(operands) = 1 /\ tests = <<>>
  /\ CanCast(e, ty)
  /\ Stores(ToLLVM(ty),
            CastValue(e.val, e.ty, ToLLVM(ty), ty.base = "BOOL" /\ ~argument),
            ty, InC(e.cv, ty), e.kept /\ (argument => ty.base # "BOOL"))
  /\ operands' = <<>>
  /\ UNCHANGED <<tests, nodes>>

(* A global's initializer is a constant of its own type, widened by that   *)
(* type or cut.                                                            *)
Constant(e, ty) ==
  Value(ToLLVM(ty), Read(Value(ToLLVM(e.ty), e.folded[1]), e.ty.unsigned))

InitializeGlobal(ty) ==
  LET e == Last IN
  /\ Generating
  /\ Len(operands) = 1 /\ tests = <<>>
  /\ e.folded # <<>>
  /\ IsInt(e.ty) /\ IsInt(ty)
  /\ Stores(ToLLVM(ty), Constant(e, ty), ty, InC(e.cv, ty),
            e.kept /\ e.plain /\ ty.base # "BOOL")
  /\ operands' = <<>>
  /\ UNCHANGED <<tests, nodes>>

\* A difference of pointers is a pointer for the parser, but not for LLVM.
BinaryRefused(op) ==
  /\ Fails(2)
  /\ IsRefused(op, Before, Last) /\ Defined(op, Before, Last)
  /\ EndAs("refused")

(* ++ of a real and ~ of an assigned one are made as for integers. *)
UnaryRefused ==
  /\ \/ Fails(0) /\ \E ty \in Variables : IsReal(ty)
     \/ Fails(1) /\ IsInt(Last.cty) /\ Last.val.ty \notin LLVMInts
  /\ EndAs("refused")

Ended ==
  /\ status # "generating" \/ (nodes = MaxNodes /\ operands \o tests = <<>>)
  /\ UNCHANGED exprVars

\* An expression whose value is not used, or the bound is reached.
Discard ==
  /\ Generating
  /\ \/ Len(operands) = 1 /\ tests = <<>>
     \/ nodes = MaxNodes /\ (operands # <<>> \/ tests # <<>>)
  /\ operands' = <<>>
  /\ tests' = <<>>
  /\ Quiet /\ UNCHANGED nodes

ExprNext ==
  \/ \E ty \in Variables : \E place \in Places(ty), n \in ValuesOf[ty] :
       Variable(place, ty, n)
  \/ \E n \in Literals, unsigned \in BOOLEAN : Number(n, unsigned)
  \/ \E op \in Operators : Binary(op) \/ BinaryRefused(op)
  \/ UnaryRefused
  \/ Minus
  \/ BitNot
  \/ LogicalNot
  \/ \E op \in {"&&", "||"} : Logical(op)
  \/ Test
  \/ Conditional
  \/ \E ty \in Variables : Cast(ty) \/ Assign(ty) \/ InitializeGlobal(ty)
  \/ \E ty \in Variables, argument \in BOOLEAN : Convert(ty, argument)
  \/ \E op \in CompoundOps, ty \in Variables :
       \E place \in Places(ty), n \in ValuesOf[ty] :
         Compound(op, place, ty, n) \/ CompoundFails(op, place, ty, n)
  \/ \E ty \in Variables, op \in {"+", "-"}, pre \in BOOLEAN :
       \E n \in ValuesOf[ty] : IncDec(ty, n, op, pre)
  \/ Discard
  \/ Ended

ExprSpec == ExprInit /\ [][ExprNext]_exprVars

-----------------------------------------------------------------------------
(* Properties *)

\* The LLVM types that a value of C's type cty has.
HeldAs(ty, cty) ==
  IF ty.base = "CHAR" THEN {"i8", "i32"}
  ELSE {ToLLVM(IF ty.base = "PTR" THEN cty ELSE ty)}

(* Operands have types that C has, and one that the code keeps has the     *)
(* LLVM type of its node: its users choose instructions by the one, LLVM   *)
(* checks them by the other.                                               *)
ExprTypeOK ==
  /\ \A i \in DOMAIN operands :
       /\ {operands[i].ty, operands[i].cty} \subseteq CTypes
       /\ InC(operands[i].cv, operands[i].cty) = operands[i].cv
       /\ operands[i].kept =>
            operands[i].val.ty \in HeldAs(operands[i].ty, operands[i].cty)
  /\ stored.kept => stored.val.ty = stored.slot
  /\ nodes \in 0 .. MaxNodes
  /\ status \in {"generating", "crashed", "refused"}

(* The code computes and stores the value that C gives to the expression:  *)
(* the promotions and conversions that match_types, get_common_type and    *)
(* cast_value make, one operand at a time and by the type of its node, are *)
(* those of C.                                                             *)
ValuesAreC ==
  /\ \A i \in DOMAIN operands :
       operands[i].kept =>
         Read(operands[i].val, operands[i].ty.unsigned) = operands[i].cv
  /\ stored.kept => Read(stored.val, stored.ty.unsigned) = stored.cv

(* A constant is folded to the value of the expression: a global has the   *)
(* value that a local with the same initializer gets.                      *)
ConstantsAreC ==
  \A i \in DOMAIN operands :
    operands[i].kept /\ operands[i].plain =>
      operands[i].folded[1] = operands[i].cv

=============================================================================
