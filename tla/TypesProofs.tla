---------------------------- MODULE TypesProofs ----------------------------
(***************************************************************************)
(* Proofs about Types and the sizes of TypeLayout, for any text and all    *)
(* bounds.  First what every step leaves of the heap, the calls and the    *)
(* names; then the sizes, over any heap on which types are made of others; *)
(* then that the steps make such heaps.                                    *)
(***************************************************************************)
EXTENDS Types, WellFoundedInduction, TLAPS

Numbered(members, kind) ==
  \A k \in 1 .. Len(members) :
    members[k].index = IF kind = "UNION" THEN 0 ELSE k - 1

MemberRefs(members, h) ==
  \A k \in 1 .. Len(members) : members[k].type \in 1 .. Len(h)

(* Types refer to types, to older ones where they are made of one, and number
   their members. *)
TypeFits(h, i) ==
  /\ h[i].to < i
  /\ MemberRefs(h[i].members, h)
  /\ Numbered(h[i].members, h[i].ty)

HeapFits(h) == h \in Seq(TypeRecords) /\ \A i \in 1 .. Len(h) : TypeFits(h, i)

(* What every step does to the heap: types stay what they are, but for their
   qualifiers and the members of those in S. *)
KeepsBut(h, t, S) ==
  /\ Len(h) \in Nat /\ Len(t) \in Nat /\ Len(h) <= Len(t)
  /\ \A i \in 1 .. Len(h) :
       /\ t[i].ty = h[i].ty /\ t[i].to = h[i].to /\ t[i].n = h[i].n
       /\ i \notin S => t[i].members = h[i].members

(* A type without members is added. *)
LEMMA AppendType ==
  ASSUME NEW h, HeapFits(h), NEW x \in TypeRecords, x.to \in 0 .. Len(h),
         x.members = <<>>
  PROVE  /\ HeapFits(Append(h, x)) /\ KeepsBut(h, Append(h, x), {})
         /\ Len(Append(h, x)) = Len(h) + 1
         /\ Append(h, x)[Len(h) + 1] = x
<1> DEFINE t == Append(h, x)
<1>1. /\ Len(h) \in Nat /\ t \in Seq(TypeRecords) /\ Len(t) = Len(h) + 1
      /\ t[Len(h) + 1] = x /\ \A i \in 1 .. Len(h) : t[i] = h[i]
  BY DEF HeapFits
<1> HIDE DEF t
<1>2. KeepsBut(h, t, {})
  BY <1>1 DEF KeepsBut
<1>3. ASSUME NEW i \in 1 .. Len(t) PROVE TypeFits(t, i)
  <2>1. CASE i \in 1 .. Len(h)
    <3>1. TypeFits(h, i) /\ t[i] = h[i]
      BY <1>1, <2>1 DEF HeapFits
    <3>2. 1 .. Len(h) \subseteq 1 .. Len(t)
      BY <1>1
    <3> QED
      BY <3>1, <3>2 DEF TypeFits, MemberRefs
  <2>2. CASE i = Len(h) + 1
    <3>1. t[i].to < i /\ Len(t[i].members) = 0
      BY <1>1, <2>2
    <3> QED
      BY <3>1 DEF TypeFits, MemberRefs, Numbered
  <2> QED
    BY <1>1, <2>1, <2>2
<1> QED
  BY <1>1, <1>2, <1>3 DEF HeapFits, t

(* Only the qualifiers of a type change. *)
LEMMA QualifyType ==
  ASSUME NEW h, HeapFits(h), NEW i \in 1 .. Len(h), NEW e \in TypeRecords,
         e.ty = h[i].ty, e.to = h[i].to, e.n = h[i].n, e.members = h[i].members
  PROVE  /\ HeapFits([h EXCEPT ![i] = e]) /\ KeepsBut(h, [h EXCEPT ![i] = e], {})
         /\ Len([h EXCEPT ![i] = e]) = Len(h)
<1> DEFINE t == [h EXCEPT ![i] = e]
<1>1. /\ Len(h) \in Nat /\ t \in Seq(TypeRecords) /\ Len(t) = Len(h)
      /\ \A j \in 1 .. Len(h) : t[j] = IF j = i THEN e ELSE h[j]
  BY DEF HeapFits
<1> HIDE DEF t
<1>2. \A j \in 1 .. Len(h) : /\ t[j].ty = h[j].ty /\ t[j].to = h[j].to
                             /\ t[j].n = h[j].n /\ t[j].members = h[j].members
  BY <1>1
<1> QED
  BY <1>1, <1>2 DEF HeapFits, TypeFits, MemberRefs, KeepsBut, t

(* A body gives its struct the members that were read. *)
LEMMA GiveMembers ==
  ASSUME NEW h, HeapFits(h), NEW i \in 1 .. Len(h), NEW ms \in Seq(Members),
         MemberRefs(ms, h), Numbered(ms, h[i].ty)
  PROVE  LET t == [h EXCEPT ![i].members = ms]
         IN  HeapFits(t) /\ KeepsBut(h, t, {i}) /\ Len(t) = Len(h)
<1> DEFINE e == [h[i] EXCEPT !.members = ms]
           t == [h EXCEPT ![i].members = ms]
<1>1. h[i] \in TypeRecords /\ h \in Seq(TypeRecords) /\ Len(h) \in Nat
  BY DEF HeapFits
<1>2. /\ e \in TypeRecords /\ e.ty = h[i].ty /\ e.to = h[i].to
      /\ e.n = h[i].n /\ e.members = ms
  BY <1>1 DEF TypeRecords
<1> HIDE DEF e
<1>3. /\ t \in Seq(TypeRecords) /\ Len(t) = Len(h)
      /\ \A j \in 1 .. Len(h) : t[j] = IF j = i THEN e ELSE h[j]
  <2>1. t = [h EXCEPT ![i] = e]
    BY DEF e
  <2> QED
    BY <1>1, <1>2, <2>1
<1> HIDE DEF t
<1>4. KeepsBut(h, t, {i})
  BY <1>1, <1>2, <1>3 DEF KeepsBut
<1>5. \A j \in 1 .. Len(h) : TypeFits(t, j)
  BY <1>2, <1>3 DEF HeapFits, TypeFits, MemberRefs, Numbered
<1> QED
  BY <1>3, <1>4, <1>5 DEF HeapFits, t

(* A list gives the pointer i its length, and else nothing changes. *)
SizedAt(h, t, i) ==
  /\ Len(h) \in Nat /\ Len(t) = Len(h) /\ i \in 1 .. Len(h) /\ h[i].ty = "PTR"
  /\ \A j \in 1 .. Len(h) :
       /\ t[j].ty = h[j].ty /\ t[j].to = h[j].to
       /\ t[j].members = h[j].members
       /\ j # i => t[j].n = h[j].n

LEMMA SizedFits ==
  ASSUME NEW h, HeapFits(h), NEW i \in 1 .. Len(h), h[i].ty = "PTR",
         NEW c \in Nat
  PROVE  LET t == [h EXCEPT ![i].n = c]
         IN  HeapFits(t) /\ SizedAt(h, t, i)
<1> DEFINE e == [h[i] EXCEPT !.n = c]
           t == [h EXCEPT ![i].n = c]
<1>1. h[i] \in TypeRecords /\ h \in Seq(TypeRecords) /\ Len(h) \in Nat
  BY DEF HeapFits
<1>2. /\ e \in TypeRecords /\ e.ty = h[i].ty /\ e.to = h[i].to
      /\ e.members = h[i].members
  BY <1>1 DEF TypeRecords
<1> HIDE DEF e
<1>3. /\ t \in Seq(TypeRecords) /\ Len(t) = Len(h)
      /\ \A j \in 1 .. Len(h) : t[j] = IF j = i THEN e ELSE h[j]
  <2>1. t = [h EXCEPT ![i] = e]
    BY DEF e
  <2> QED
    BY <1>1, <1>2, <2>1
<1> HIDE DEF t
<1>4. SizedAt(h, t, i)
  BY <1>1, <1>2, <1>3 DEF SizedAt
<1>5. \A j \in 1 .. Len(h) : TypeFits(t, j)
  BY <1>2, <1>3 DEF HeapFits, TypeFits, MemberRefs, Numbered
<1> QED
  BY <1>3, <1>4, <1>5 DEF HeapFits, t

LEMMA KeepsTwice ==
  ASSUME NEW h, NEW t, NEW u, KeepsBut(h, t, {}), KeepsBut(t, u, {})
  PROVE  KeepsBut(h, u, {})
  BY DEF KeepsBut

LEMMA NewTypeFits ==
  ASSUME NEW ty \in Kinds, NEW to \in Nat, NEW n \in Nat
  PROVE  /\ NewType(ty, to, n) \in TypeRecords
         /\ NewType(ty, to, n).ty = ty /\ NewType(ty, to, n).to = to
         /\ NewType(ty, to, n).n = n /\ NewType(ty, to, n).members = <<>>
  BY DEF NewType, TypeRecords

LEMMA BaseTypeFits ==
  ASSUME NEW b \in BaseTypes
  PROVE  /\ BaseType(b) \in TypeRecords /\ BaseType(b).to = 0
         /\ BaseType(b).n = 0 /\ BaseType(b).members = <<>>
<1> DEFINE x == BaseType(b)
<1>0. NULL \in Nat /\ NULL = 0
  BY DEF NULL
<1>1. CASE b = "size_t"
  <2> DEFINE y == NewType("LONG", NULL, 0)
  <2>1. "LONG" \in Kinds
    BY DEF Kinds, Arithmetic
  <2>2. y \in TypeRecords /\ y.to = 0 /\ y.members = <<>> /\ y.n = 0
    BY <1>0, <2>1, NewTypeFits
  <2>3. x = [y EXCEPT !.unsigned = TRUE]
    BY <1>1 DEF BaseType
  <2> HIDE DEF x, y
  <2>4. x \in TypeRecords /\ x.to = 0 /\ x.members = <<>> /\ x.n = 0
    BY <2>2, <2>3 DEF TypeRecords
  <2> QED
    BY <2>4 DEF x
<1>2. CASE b # "size_t"
  <2> DEFINE y == NewType(b, NULL, 0)
  <2>1. b \in Kinds
    BY <1>2, TextAssumption DEF Kinds
  <2>2. y \in TypeRecords /\ y.to = 0 /\ y.members = <<>> /\ y.n = 0
    BY <1>0, <2>1, NewTypeFits
  <2>3. x = y
    BY <1>2 DEF BaseType
  <2> HIDE DEF x, y
  <2> QED
    BY <2>2, <2>3 DEF x
<1> QED
  BY <1>1, <1>2

(* Qualified and Returned. *)
LEMMA QualifiedFits ==
  ASSUME NEW h, HeapFits(h), NEW i \in 1 .. Len(h)
  PROVE  /\ HeapFits(Qualified(h, i)) /\ KeepsBut(h, Qualified(h, i), {})
         /\ Len(Qualified(h, i)) = Len(h)
<1> DEFINE p == h[i].unsigned \/ "unsigned" \in Top.has
           v == h[i].volatile \/ "volatile" \in Top.has
           e == [[h[i] EXCEPT !.unsigned = p] EXCEPT !.volatile = v]
<1>1. h[i] \in TypeRecords /\ h \in Seq(TypeRecords)
  BY DEF HeapFits
<1>2. Qualified(h, i) = [h EXCEPT ![i] = e]
  BY <1>1 DEF Qualified
<1>3. p \in BOOLEAN /\ v \in BOOLEAN
  BY <1>1 DEF TypeRecords
<1> HIDE DEF p, v
<1>4. /\ e \in TypeRecords /\ e.ty = h[i].ty /\ e.to = h[i].to
      /\ e.n = h[i].n /\ e.members = h[i].members
  BY <1>1, <1>3 DEF TypeRecords
<1> HIDE DEF e
<1>5. LET t == [h EXCEPT ![i] = e]
      IN  HeapFits(t) /\ KeepsBut(h, t, {}) /\ Len(t) = Len(h)
  BY <1>4, QualifyType, Zenon
<1> QED
  BY <1>2, <1>5, Zenon

LEMMA ReturnedFits ==
  ASSUME HeapFits(heap), Top.base \in 1 .. Len(heap)
  PROVE  /\ HeapFits(Returned) /\ KeepsBut(heap, Returned, {})
         /\ Len(Returned) = Len(heap)
<1> DEFINE i == Top.base
           p == heap[i].restrict
                \/ ("restrict" \in Top.has /\ heap[i].ty = "PTR")
           v == heap[i].volatile \/ "volatile" \in Top.has
           e == [[heap[i] EXCEPT !.restrict = p] EXCEPT !.volatile = v]
<1>1. heap[i] \in TypeRecords /\ heap \in Seq(TypeRecords)
  BY DEF HeapFits
<1>2. Returned = [heap EXCEPT ![i] = e]
  BY <1>1 DEF Returned
<1>3. p \in BOOLEAN /\ v \in BOOLEAN
  BY <1>1 DEF TypeRecords
<1> HIDE DEF p, v
<1>4. /\ e \in TypeRecords /\ e.ty = heap[i].ty /\ e.to = heap[i].to
      /\ e.n = heap[i].n /\ e.members = heap[i].members
  <2> HIDE DEF i
  <2> QED
    BY <1>1, <1>3 DEF TypeRecords
<1> HIDE DEF e
<1> QED
  BY <1>2, <1>4, QualifyType DEF i

-----------------------------------------------------------------------------
(* The calls of try_parse_type *)

BodyFits(h, c) ==
  /\ h[c.base].ty \in {"STRUCT", "UNION"} /\ h[c.base].members = <<>>
  /\ MemberRefs(c.members, h)
  /\ Numbered(c.members, h[c.base].ty)

(* A call has a base once it has read one, and has members while it reads a
   body, of a struct that has none yet. *)
CallFits(h, c) ==
  /\ IF c.step = "qualifiers" THEN c.base = NULL ELSE c.base \in 1 .. Len(h)
  /\ IF c.step = "body" THEN BodyFits(h, c) ELSE c.members = <<>>

(* All calls but the last read a body, and no two of them the same. *)
StackFits(h, s) ==
  /\ s \in Seq(Calls)
  /\ \A d \in 1 .. Len(s) : CallFits(h, s[d])
  /\ \A d \in 1 .. Len(s) - 1 : s[d].step = "body"
  /\ \A d, e \in 1 .. Len(s) :
        s[d].step = "body" /\ s[e].step = "body" /\ s[d].base = s[e].base => d = e

LEMMA CallStays ==
  ASSUME NEW h, NEW t, NEW S, KeepsBut(h, t, S),
         NEW c, CallFits(h, c), c.step = "body" => c.base \notin S
  PROVE  CallFits(t, c)
<1>1. /\ 1 .. Len(h) \subseteq 1 .. Len(t)
      /\ \A i \in 1 .. Len(h) : t[i].ty = h[i].ty
      /\ \A i \in 1 .. Len(h) : i \notin S => t[i].members = h[i].members
  BY DEF KeepsBut
<1>2. CASE c.step = "body"
  <2>1. c.base \in 1 .. Len(h) /\ BodyFits(h, c)
    BY <1>2 DEF CallFits
  <2>2. BodyFits(t, c)
    BY <1>1, <1>2, <2>1 DEF BodyFits, MemberRefs
  <2> QED
    BY <1>1, <1>2, <2>1, <2>2 DEF CallFits
<1>3. CASE c.step # "body"
  BY <1>1, <1>3 DEF CallFits
<1> QED
  BY <1>2, <1>3

LEMMA StackStays ==
  ASSUME NEW h, NEW t, KeepsBut(h, t, {}), NEW s, StackFits(h, s)
  PROVE  StackFits(t, s)
<1>1. \A d \in 1 .. Len(s) : CallFits(t, s[d])
  BY CallStays DEF StackFits
<1> QED
  BY <1>1 DEF StackFits

(* The last call goes on. *)
LEMMA TopChanges ==
  ASSUME NEW h, NEW t, NEW s, StackFits(h, s), s # <<>>,
         NEW S, KeepsBut(h, t, S), \A d \in 1 .. Len(s) - 1 : s[d].base \notin S,
         NEW c \in Calls, CallFits(t, c),
         c.step = "body" => \A d \in 1 .. Len(s) - 1 : s[d].base # c.base
  PROVE  StackFits(t, [s EXCEPT ![Len(s)] = c])
<1> DEFINE u == [s EXCEPT ![Len(s)] = c]
<1>1. s \in Seq(Calls) /\ Len(s) \in Nat /\ Len(s) > 0
  BY DEF StackFits
<1>2. /\ u \in Seq(Calls) /\ Len(u) = Len(s) /\ u[Len(s)] = c
      /\ \A d \in 1 .. Len(s) - 1 : u[d] = s[d]
  BY <1>1
<1>3. \A d \in 1 .. Len(s) : d = Len(s) \/ d \in 1 .. Len(s) - 1
  BY <1>1
<1> HIDE DEF u
<1>4. \A d \in 1 .. Len(s) - 1 : CallFits(t, s[d])
  <2>1. \A d \in 1 .. Len(s) - 1 : CallFits(h, s[d])
    BY <1>1 DEF StackFits
  <2> QED
    BY <2>1, CallStays
<1>5. \A d \in 1 .. Len(u) : CallFits(t, u[d])
  BY <1>2, <1>3, <1>4
<1>6. \A d \in 1 .. Len(u) - 1 : u[d].step = "body"
  BY <1>1, <1>2 DEF StackFits
<1>7. \A d, e \in 1 .. Len(u) :
        u[d].step = "body" /\ u[e].step = "body" /\ u[d].base = u[e].base => d = e
  BY <1>1, <1>2, <1>3 DEF StackFits
<1> QED
  BY <1>2, <1>5, <1>6, <1>7 DEF StackFits, u

LEMMA NewCallFits ==
  /\ NewCall \in Calls /\ NewCall.step = "qualifiers"
  /\ \A h : CallFits(h, NewCall)
  BY DEF NewCall, Calls, CallFits, NULL

(* What a step leaves to show for the last call: it has what Top had but for
   the step, the base and qualifiers. *)
LEMMA TopFacts ==
  ASSUME HeapFits(heap), StackFits(heap, stack), stack # <<>>
  PROVE  /\ Depth \in Nat /\ Depth > 0 /\ stack \in Seq(Calls)
         /\ Top \in Calls /\ CallFits(heap, Top)
         /\ Top.step # "qualifiers" => Top.base \in 1 .. Len(heap)
         /\ \A d \in 1 .. Depth - 1 :
               /\ stack[d].step = "body" /\ stack[d].base \in Open
               /\ Top.step = "body" => stack[d].base # Top.base
<1>1. Depth \in Nat /\ Depth > 0 /\ stack \in Seq(Calls)
  BY DEF StackFits, Depth
<1>2. Depth \in 1 .. Depth /\ \A d \in 1 .. Depth - 1 : d \in 1 .. Depth /\ d # Depth
  BY <1>1
<1>3. Top \in Calls /\ CallFits(heap, Top)
  BY <1>1, <1>2 DEF StackFits, Depth, Top
<1>4. \A d \in 1 .. Depth - 1 : stack[d].step = "body"
  BY DEF StackFits, Depth
<1> QED
  BY <1>1, <1>2, <1>3, <1>4 DEF StackFits, CallFits, Open, Depth, Top

-----------------------------------------------------------------------------
(* The actions *)

RefsFit ==
  /\ typedefs \in [Names -> Refs(heap)]
  /\ tags \in [Names -> Refs(heap)]
  /\ objects \in Seq(1 .. Len(heap))
  /\ list \in Lists
  /\ list # NoList => list.type \in 1 .. Len(heap) /\ heap[list.type].ty = "PTR"
  /\ decls \in Nat
  /\ status \in {"running", "exit", "done"}
  /\ shared \subseteq 1 .. Len(heap) /\ sized \subseteq 1 .. Len(heap)

IInv == HeapFits(heap) /\ StackFits(heap, stack) /\ RefsFit

(* What an action has to show of heap and stack.  A struct gets its members
   once. *)
Holds ==
  /\ HeapFits(heap') /\ StackFits(heap', stack')
  /\ \E S \in SUBSET (1 .. Len(heap)) :
       KeepsBut(heap, heap', S) /\ \A i \in S : heap[i].members = <<>>

(* Or it gives a size to a type without one, or to one that was without one in
   front of its list. *)
Gives(i) ==
  /\ HeapFits(heap') /\ stack' = <<>>
  /\ SizedAt(heap, heap', i) /\ sized' = sized \cup {i}
  /\ IF stack = <<>>
     THEN /\ list # NoList /\ list' = NoList /\ i = list.type
          /\ heap[i].n = 0 \/ (list.scope = "global" /\ list.before = 0)
     ELSE i = Top.base /\ heap[i].n = 0

Moves == (Holds /\ sized' = sized) \/ \E i \in 1 .. Len(heap) : Gives(i)

LEMMA HoldsPlain ==
  ASSUME HeapFits(heap'), StackFits(heap', stack'), KeepsBut(heap, heap', {})
  PROVE  Holds
  BY DEF Holds

LEMMA SameHeap ==
  ASSUME HeapFits(heap)
  PROVE  KeepsBut(heap, heap, {})
  BY DEF KeepsBut, HeapFits

LEMMA HasBaseHolds ==
  ASSUME IInv, stack # <<>>,
         NEW h, HeapFits(h),
         NEW S \in SUBSET (1 .. Len(heap)), KeepsBut(heap, h, S),
         \A i \in S : heap[i].members = <<>>,
         \A d \in 1 .. Depth - 1 : stack[d].base \notin S,
         NEW i \in 1 .. Len(h), HasBase(h, i)
  PROVE  Holds
<1> DEFINE c == [Top EXCEPT !.step = "pointers", !.base = i, !.members = <<>>]
<1>1. heap' = Qualified(h, i) /\ stack' = [stack EXCEPT ![Depth] = c]
  BY DEF HasBase, SetTop
<1>2. /\ HeapFits(heap') /\ KeepsBut(h, heap', {}) /\ Len(heap') = Len(h)
  BY <1>1, QualifiedFits
<1>3. KeepsBut(heap, heap', S)
  BY <1>2 DEF KeepsBut
<1>4. Top \in Calls /\ i \in Nat
  BY <1>2, TopFacts DEF IInv, KeepsBut
<1>5. /\ c \in Calls /\ c.step = "pointers" /\ c.base = i /\ c.members = <<>>
  <2> DEFINE none == <<>>
             b == [[Top EXCEPT !.step = "pointers"] EXCEPT !.base = i]
  <2>1. none \in Seq(Members) /\ none = <<>>
    OBVIOUS
  <2>2. b \in Calls /\ b.step = "pointers" /\ b.base = i
    BY <1>4 DEF Calls
  <2>3. c = [b EXCEPT !.members = none]
    BY <1>4 DEF Calls
  <2> HIDE DEF none, b, c
  <2> QED
    BY <2>1, <2>2, <2>3 DEF Calls
<1> HIDE DEF c
<1>6. CallFits(heap', c)
  BY <1>2, <1>5 DEF CallFits
<1>7. StackFits(heap', stack')
  BY <1>1, <1>3, <1>5, <1>6, TopChanges DEF IInv, Depth
<1> QED
  BY <1>2, <1>3, <1>7 DEF Holds

LEMMA OpenBodyHolds ==
  ASSUME IInv, stack # <<>>, Top.step = "qualifiers",
         HeapFits(heap'), KeepsBut(heap, heap', {}),
         NEW i \in 1 .. Len(heap'), heap'[i].ty \in {"STRUCT", "UNION"},
         heap'[i].members = <<>>, i \notin Open, OpenBody(i)
  PROVE  Holds
<1> DEFINE c == [Top EXCEPT !.step = "body", !.base = i]
<1>1. stack' = [stack EXCEPT ![Depth] = c]
  BY DEF OpenBody, SetTop
<1>2. /\ Top \in Calls /\ Top.members = <<>> /\ i \in Nat
      /\ \A d \in 1 .. Depth - 1 : stack[d].base \in Open
  BY TopFacts DEF IInv, CallFits, KeepsBut
<1>3. c \in Calls /\ c.step = "body" /\ c.base = i /\ c.members = <<>>
  BY <1>2 DEF Calls
<1> HIDE DEF c
<1>4. CallFits(heap', c)
  BY <1>3 DEF CallFits, BodyFits, MemberRefs, Numbered
<1>5. StackFits(heap', stack')
  BY <1>1, <1>2, <1>3, <1>4, TopChanges DEF IInv, Depth
<1> QED
  BY <1>5, HoldsPlain

(* Only the last call changes, and keeps its members. *)
LEMMA SetTopHolds ==
  ASSUME IInv, stack # <<>>, HeapFits(heap'), KeepsBut(heap, heap', {}),
         NEW c \in Calls, SetTop(c), c.step # "body", c.members = <<>>,
         IF c.step = "qualifiers" THEN c.base = NULL
         ELSE c.base \in 1 .. Len(heap')
  PROVE  Holds
<1>1. stack' = [stack EXCEPT ![Depth] = c] /\ CallFits(heap', c)
  BY DEF SetTop, CallFits
<1>2. StackFits(heap', stack')
  BY <1>1, TopChanges DEF IInv, Depth
<1> QED
  BY <1>2, HoldsPlain

LEMMA BeginDeclarationHolds ==
  ASSUME IInv, BeginDeclaration
  PROVE  Holds
<1>1. heap' = heap /\ stack' = <<NewCall>>
  BY DEF BeginDeclaration
<1>2. StackFits(heap, <<NewCall>>)
  BY NewCallFits DEF StackFits
<1> QED
  BY <1>1, <1>2, SameHeap, HoldsPlain DEF IInv

LEMMA QualifyHolds ==
  ASSUME IInv, NEW q \in Qualifiers, Qualify(q)
  PROVE  Holds
<1> DEFINE c == [Top EXCEPT !.has = @ \cup {q}]
<1>1. /\ stack # <<>> /\ Top.step = "qualifiers" /\ SetTop(c) /\ heap' = heap
  BY DEF Qualify, AtStep
<1>2. Top \in Calls /\ Top.base = NULL /\ Top.members = <<>>
  BY <1>1, TopFacts DEF IInv, CallFits
<1>3. /\ c \in Calls /\ c.step = "qualifiers" /\ c.base = NULL
      /\ c.members = <<>>
  BY <1>1, <1>2, TextAssumption DEF Calls
<1> HIDE DEF c
<1> QED
  BY <1>1, <1>3, SameHeap, SetTopHolds DEF IInv

LEMMA QualifyPointerHolds ==
  ASSUME IInv, NEW q \in Qualifiers, QualifyPointer(q)
  PROVE  Holds
<1> DEFINE w == IF q = "restrict" THEN "restricted" ELSE "done"
           c == [Top EXCEPT !.step = w, !.has = @ \cup {q}]
<1>1. /\ stack # <<>> /\ Top.step \in {"pointers", "restricted"}
      /\ SetTop(c) /\ heap' = heap /\ q \in {"restrict", "volatile"}
  BY DEF QualifyPointer, AtStep
<1>2. Top \in Calls /\ Top.base \in 1 .. Len(heap) /\ Top.members = <<>>
  BY <1>1, TopFacts DEF IInv, CallFits
<1>3. w \in {"restricted", "done"}
  OBVIOUS
<1> HIDE DEF w
<1>4. /\ c \in Calls /\ c.step = w /\ c.base = Top.base
      /\ c.members = <<>>
  BY <1>1, <1>2, <1>3 DEF Calls
<1> HIDE DEF c
<1> QED
  BY <1>1, <1>2, <1>3, <1>4, SameHeap, SetTopHolds DEF IInv

LEMMA ArithmeticBaseHolds ==
  ASSUME IInv, NEW b \in BaseTypes, ArithmeticBase(b)
  PROVE  Holds
<1> DEFINE x == BaseType(b)
           h == Append(heap, x)
<1>1. x \in TypeRecords /\ x.to = 0 /\ x.members = <<>>
  BY BaseTypeFits
<1> HIDE DEF x
<1>2. HeapFits(h) /\ KeepsBut(heap, h, {}) /\ Len(h) = Len(heap) + 1
  <2>1. Len(heap) \in Nat
    BY DEF IInv, HeapFits
  <2> QED
    BY <1>1, <2>1, AppendType DEF IInv
<1>3. stack # <<>> /\ HasBase(h, Here)
  BY DEF ArithmeticBase, AtStep, x
<1>4. Here \in 1 .. Len(h)
  BY <1>2 DEF Here, KeepsBut
<1> HIDE DEF h
<1> QED
  BY <1>2, <1>3, <1>4, HasBaseHolds

LEMMA TypedefNameHolds ==
  ASSUME IInv, NEW n \in Names, TypedefName(n)
  PROVE  Holds
<1>1. /\ stack # <<>> /\ HasBase(heap, typedefs[n])
      /\ typedefs[n] \in 1 .. Len(heap)
  BY DEF TypedefName, AtStep, IInv, RefsFit, Refs, NULL
<1>2. HeapFits(heap) /\ KeepsBut(heap, heap, {})
  BY SameHeap DEF IInv
<1> QED
  BY <1>1, <1>2, HasBaseHolds

(* The object of a tag: the one it has, or a new one. *)
LEMMA TaggedFits ==
  ASSUME IInv, NEW n \in Names, NEW kind \in {"STRUCT", "UNION"},
         Tagged(n, kind)
  PROVE  LET h == TaggedHeap(n, kind)
         IN  /\ HeapFits(h) /\ KeepsBut(heap, h, {})
             /\ tags'[n] \in 1 .. Len(h) /\ h[tags'[n]].ty = kind
             /\ tags' \in [Names -> 0 .. Len(h)]
             /\ IF tags[n] # NULL THEN h = heap /\ tags'[n] = tags[n]
                ELSE tags'[n] = Here /\ h[Here].members = <<>>
<1> DEFINE h == TaggedHeap(n, kind)
<1>1. /\ HeapFits(heap) /\ Len(heap) \in Nat
      /\ tags \in [Names -> 0 .. Len(heap)]
  BY DEF IInv, HeapFits, RefsFit, Refs
<1>2. CASE tags[n] # NULL
  <2>1. h = heap /\ tags' = tags /\ heap[tags[n]].ty = kind
    BY <1>2 DEF TaggedHeap, Tagged
  <2>2. tags[n] \in 1 .. Len(heap)
    BY <1>1, <1>2 DEF NULL
  <2> HIDE DEF h
  <2> QED
    BY <1>1, <1>2, <2>1, <2>2, SameHeap DEF h
<1>3. CASE tags[n] = NULL
  <2> DEFINE x == NewType(kind, NULL, 0)
  <2>1. kind \in Kinds /\ NULL \in Nat /\ NULL = 0
    BY DEF Kinds, NULL
  <2>2. x \in TypeRecords /\ x.ty = kind /\ x.to = 0 /\ x.members = <<>>
    BY <2>1, NewTypeFits
  <2>3. h = Append(heap, x) /\ tags' = [tags EXCEPT ![n] = Here]
    BY <1>3 DEF TaggedHeap, Tagged
  <2> HIDE DEF x, h
  <2>4. /\ HeapFits(h) /\ KeepsBut(heap, h, {}) /\ Len(h) = Len(heap) + 1
        /\ h[Len(heap) + 1] = x
    <3>1. x.to \in 0 .. Len(heap)
      BY <1>1, <2>2
    <3> QED
      BY <1>1, <2>2, <2>3, <3>1, AppendType
  <2>5. /\ Here = Len(heap) + 1 /\ Here \in 1 .. Len(h)
        /\ 0 .. Len(heap) \subseteq 0 .. Len(h)
    BY <1>1, <2>4 DEF Here
  <2>6. tags'[n] = Here /\ tags' \in [Names -> 0 .. Len(h)]
    BY <1>1, <2>3, <2>5
  <2> QED
    BY <1>3, <2>2, <2>4, <2>5, <2>6 DEF h
<1> QED
  BY <1>2, <1>3

LEMMA TagReferenceHolds ==
  ASSUME IInv, NEW n \in Names, NEW kind \in {"STRUCT", "UNION"},
         TagReference(n, kind)
  PROVE  Holds
<1> DEFINE h == TaggedHeap(n, kind)
           i == tags'[n]
<1>1. stack # <<>> /\ Tagged(n, kind) /\ HasBase(h, i)
  BY DEF TagReference, AtStep
<1>2. HeapFits(h) /\ KeepsBut(heap, h, {}) /\ i \in 1 .. Len(h)
  BY <1>1, TaggedFits
<1> HIDE DEF h, i
<1> QED
  BY <1>1, <1>2, HasBaseHolds

LEMMA OpenOnHeap ==
  ASSUME IInv
  PROVE  Open \subseteq 1 .. Len(heap)
<1>1. \A d \in 1 .. Len(stack) : CallFits(heap, stack[d])
  BY DEF IInv, StackFits
<1> QED
  BY <1>1 DEF Open, Depth, CallFits

LEMMA TagBodyHolds ==
  ASSUME IInv, NEW n \in Names, NEW kind \in {"STRUCT", "UNION"},
         TagBody(n, kind)
  PROVE  Holds
<1> DEFINE i == tags'[n]
<1>1. /\ stack # <<>> /\ Top.step = "qualifiers" /\ Tagged(n, kind)
      /\ tags[n] # NULL => heap[tags[n]].members = <<>> /\ tags[n] \notin Open
      /\ heap' = TaggedHeap(n, kind) /\ OpenBody(i)
  BY DEF TagBody, AtStep
<1>2. /\ HeapFits(heap') /\ KeepsBut(heap, heap', {})
      /\ i \in 1 .. Len(heap') /\ heap'[i].ty = kind
      /\ IF tags[n] # NULL THEN heap' = heap /\ i = tags[n]
         ELSE i = Here /\ heap'[Here].members = <<>>
  BY <1>1, TaggedFits
<1> HIDE DEF i
<1>3. Here \notin Open
  BY <1>2, OpenOnHeap DEF Here, KeepsBut
<1>4. heap'[i].members = <<>> /\ i \notin Open
  BY <1>1, <1>2, <1>3
<1> QED
  BY <1>1, <1>2, <1>4, OpenBodyHolds

LEMMA AnonymousBodyHolds ==
  ASSUME IInv, NEW kind \in {"STRUCT", "UNION"}, AnonymousBody(kind)
  PROVE  Holds
<1> DEFINE x == NewType(kind, NULL, 0)
<1>1. /\ stack # <<>> /\ Top.step = "qualifiers" /\ OpenBody(Here)
      /\ heap' = Append(heap, x)
  BY DEF AnonymousBody, AtStep
<1>2. kind \in Kinds /\ NULL \in Nat /\ NULL = 0
  BY DEF Kinds, NULL
<1>3. x \in TypeRecords /\ x.ty = kind /\ x.to = 0 /\ x.members = <<>>
  BY <1>2, NewTypeFits
<1> HIDE DEF x
<1>4. HeapFits(heap) /\ Len(heap) \in Nat /\ Here = Len(heap) + 1
  BY DEF IInv, HeapFits, Here
<1>5. /\ HeapFits(heap') /\ KeepsBut(heap, heap', {})
      /\ Len(heap') = Len(heap) + 1 /\ heap'[Here] = x
  <2>1. x.to \in 0 .. Len(heap)
    BY <1>3, <1>4
  <2> QED
    BY <1>1, <1>3, <1>4, <2>1, AppendType
<1>6. Here \in 1 .. Len(heap') /\ Here \notin Open
  BY <1>4, <1>5, OpenOnHeap
<1> QED
  BY <1>1, <1>3, <1>5, <1>6, OpenBodyHolds

LEMMA BeginMemberHolds ==
  ASSUME IInv, BeginMember
  PROVE  Holds
<1>1. /\ heap' = heap /\ stack' = Append(stack, NewCall)
      /\ stack # <<>> /\ Top.step = "body"
  BY DEF BeginMember, AtStep
<1>2. /\ stack \in Seq(Calls) /\ Depth = Len(stack) /\ Top = stack[Len(stack)]
      /\ Len(stack) \in Nat /\ StackFits(heap, stack)
  BY DEF IInv, StackFits, Depth, Top
<1>3. NewCall \in Calls /\ NewCall.step = "qualifiers" /\ CallFits(heap, NewCall)
  BY NewCallFits
<1>4. /\ stack' \in Seq(Calls) /\ Len(stack') = Len(stack) + 1
      /\ stack'[Len(stack) + 1] = NewCall
      /\ \A d \in 1 .. Len(stack) : stack'[d] = stack[d]
  BY <1>1, <1>2, <1>3
<1>5. \A d \in 1 .. Len(stack') : d \in 1 .. Len(stack) \/ d = Len(stack) + 1
  BY <1>2, <1>4
<1>6. \A d \in 1 .. Len(stack') - 1 : d \in 1 .. Len(stack) - 1 \/ d = Len(stack)
  BY <1>2, <1>4
<1>7. \A d \in 1 .. Len(stack') : CallFits(heap, stack'[d])
  BY <1>2, <1>3, <1>4, <1>5 DEF StackFits
<1>8. \A d \in 1 .. Len(stack') - 1 : stack'[d].step = "body"
  BY <1>1, <1>2, <1>4, <1>6 DEF StackFits
<1>9. \A d, e \in 1 .. Len(stack') :
        stack'[d].step = "body" /\ stack'[e].step = "body"
        /\ stack'[d].base = stack'[e].base => d = e
  BY <1>2, <1>3, <1>4, <1>5 DEF StackFits
<1>10. StackFits(heap', stack')
  BY <1>1, <1>4, <1>7, <1>8, <1>9 DEF StackFits
<1> QED
  BY <1>1, <1>10, SameHeap, HoldsPlain DEF IInv

LEMMA CloseBodyHolds ==
  ASSUME IInv, CloseBody
  PROVE  Holds
<1> DEFINE i == Top.base
           ms == Top.members
           h == [heap EXCEPT ![i].members = ms]
<1>1. stack # <<>> /\ Top.step = "body" /\ HasBase(h, i)
  BY DEF CloseBody, AtStep
<1>2. /\ i \in 1 .. Len(heap) /\ BodyFits(heap, Top) /\ Top \in Calls
      /\ \A d \in 1 .. Depth - 1 : stack[d].base # i
  BY <1>1, TopFacts DEF IInv, CallFits
<1>3. ms \in Seq(Members) /\ MemberRefs(ms, heap) /\ Numbered(ms, heap[i].ty)
  BY <1>2 DEF BodyFits, Calls
<1>4. heap[i].members = <<>>
  BY <1>2 DEF BodyFits
<1> HIDE DEF i, ms
<1>5. HeapFits(h) /\ KeepsBut(heap, h, {i}) /\ Len(h) = Len(heap)
  BY <1>2, <1>3, GiveMembers DEF IInv
<1> HIDE DEF h
<1> QED
  BY <1>1, <1>2, <1>4, <1>5, HasBaseHolds

LEMMA PointerHolds ==
  ASSUME IInv, Pointer
  PROVE  Holds
<1> DEFINE x == NewType("PTR", Top.base, 0)
           c == [Top EXCEPT !.base = Here]
<1>1. /\ stack # <<>> /\ Top.step = "pointers"
      /\ heap' = Append(heap, x) /\ SetTop(c)
  BY DEF Pointer, AtStep
<1>2. /\ HeapFits(heap) /\ Len(heap) \in Nat /\ Here = Len(heap) + 1
      /\ Top \in Calls /\ Top.members = <<>> /\ Top.base \in 1 .. Len(heap)
  BY <1>1, TopFacts DEF IInv, HeapFits, CallFits, Here
<1>3. x \in TypeRecords /\ x.to = Top.base /\ x.members = <<>>
  <2>1. "PTR" \in Kinds /\ Top.base \in Nat /\ 0 \in Nat
    BY <1>2 DEF Kinds
  <2> QED
    BY <2>1, NewTypeFits
<1>4. c \in Calls /\ c.step = "pointers" /\ c.base = Here /\ c.members = <<>>
  BY <1>1, <1>2 DEF Calls
<1> HIDE DEF x, c
<1>5. HeapFits(heap') /\ KeepsBut(heap, heap', {}) /\ Len(heap') = Len(heap) + 1
  <2>1. x.to \in 0 .. Len(heap)
    BY <1>2, <1>3
  <2> QED
    BY <1>1, <1>2, <1>3, <2>1, AppendType
<1>6. Here \in 1 .. Len(heap')
  BY <1>2, <1>5
<1> QED
  BY <1>1, <1>4, <1>5, <1>6, SetTopHolds

(* A type was read: what its call returns, and what the declarator makes. *)
LEMMA ReturnFacts ==
  ASSUME IInv, NEW d, Returns(d)
  PROVE  /\ stack # <<>> /\ Top.base \in 1 .. Len(heap)
         /\ HeapFits(Returned) /\ KeepsBut(heap, Returned, {})
         /\ Len(Returned) = Len(heap)
<1>1. stack # <<>>
  BY DEF Returns, IInv, StackFits, Depth
<1>2. Top.base \in 1 .. Len(heap)
  BY <1>1, TopFacts DEF IInv, Returns
<1> QED
  BY <1>1, <1>2, ReturnedFits DEF IInv

LEMMA ArraySize ==
  ASSUME NEW n \in Declarators, n # NoSuffix
  PROVE  n \in Nat
<1>1. n \in {NoSuffix, 0} \/ n \in ArraySizes
  BY Zenon DEF Declarators
<1>2. ArraySizes \subseteq Nat
  BY TextAssumption, Zenon
<1>3. ASSUME n \in ArraySizes PROVE n \in Nat
  BY <1>2, <1>3, Zenon
<1>4. ASSUME n = 0 PROVE n \in Nat
  BY <1>4
<1> QED
  BY <1>1, <1>3, <1>4, Zenon

LEMMA DeclaredFits ==
  ASSUME IInv, NEW d, Returns(d), NEW n \in Declarators
  PROVE  LET h == Declared(Returned, Top.base, n)
         IN  /\ HeapFits(h) /\ KeepsBut(heap, h, {})
             /\ DeclaredAs(Top.base, n) \in 1 .. Len(h)
<1> DEFINE h == Declared(Returned, Top.base, n)
           i == DeclaredAs(Top.base, n)
           u == Returned
<1>1. /\ Top.base \in 1 .. Len(heap) /\ HeapFits(u) /\ KeepsBut(heap, u, {})
      /\ Len(u) = Len(heap)
  BY ReturnFacts
<1>2. Len(heap) \in Nat /\ Here = Len(heap) + 1
  BY DEF IInv, HeapFits, Here
<1>3. CASE n = NoSuffix
  <2>1. h = u /\ i = Top.base
    BY <1>3 DEF Declared, DeclaredAs
  <2> HIDE DEF h, i, u
  <2> QED
    BY <1>1, <2>1 DEF h, i
<1>4. CASE n # NoSuffix
  <2> DEFINE x == NewType("PTR", Top.base, n)
  <2>1. /\ "PTR" \in Kinds
        /\ Top.base \in Nat
        /\ n \in Nat
    <3>1. Top.base \in Nat
      BY <1>1, <1>2
    <3>2. n \in Nat
      BY <1>4, ArraySize
    <3> QED
      BY <3>1, <3>2 DEF Kinds
  <2>2. x \in TypeRecords /\ x.to = Top.base /\ x.members = <<>>
    BY <2>1, NewTypeFits
  <2>3. h = Append(u, x) /\ i = Here
    BY <1>4 DEF Declared, DeclaredAs
  <2> HIDE DEF h, i, u, x
  <2>4. x.to \in 0 .. Len(u)
    BY <1>1, <1>2, <2>2
  <2>5. HeapFits(h) /\ KeepsBut(u, h, {}) /\ Len(h) = Len(u) + 1
    BY <1>1, <2>2, <2>3, <2>4, AppendType
  <2>6. KeepsBut(heap, h, {}) /\ i \in 1 .. Len(h)
    BY <1>1, <1>2, <2>3, <2>5, KeepsTwice
  <2> QED
    BY <2>5, <2>6 DEF h, i
<1> QED
  BY <1>3, <1>4

(* The call of a member is over. *)
LEMMA PopFits ==
  ASSUME NEW h, NEW s, StackFits(h, s), Len(s) > 1
  PROVE  LET t == SubSeq(s, 1, Len(s) - 1)
         IN  /\ StackFits(h, t) /\ Len(t) = Len(s) - 1 /\ t # <<>>
             /\ \A d \in 1 .. Len(s) - 1 : t[d] = s[d]
<1> DEFINE t == SubSeq(s, 1, Len(s) - 1)
<1>1. s \in Seq(Calls) /\ Len(s) \in Nat
  BY DEF StackFits
<1>2. /\ t \in Seq(Calls) /\ Len(t) = Len(s) - 1
      /\ \A d \in 1 .. Len(s) - 1 : t[d] = s[d]
  BY <1>1
<1> HIDE DEF t
<1>3. /\ 1 .. Len(t) \subseteq 1 .. Len(s) /\ 1 .. Len(t) = 1 .. Len(s) - 1
      /\ 1 .. Len(t) - 1 \subseteq 1 .. Len(s) - 1
  BY <1>1, <1>2
<1>4. StackFits(h, t)
  BY <1>2, <1>3 DEF StackFits
<1>5. t # <<>>
  BY <1>1, <1>2
<1> QED
  BY <1>2, <1>4, <1>5 DEF t

(* A member comes behind the others, with their next number. *)
LEMMA AppendMember ==
  ASSUME NEW h, NEW c \in Calls, CallFits(h, c), c.step = "body",
         NEW m \in Members, m.type \in 1 .. Len(h),
         m.index = IF h[c.base].ty = "UNION" THEN 0 ELSE Len(c.members)
  PROVE  LET e == [c EXCEPT !.members = Append(@, m)]
         IN  /\ e \in Calls /\ CallFits(h, e)
             /\ e.step = "body" /\ e.base = c.base
<1> DEFINE ms == c.members
           ns == Append(ms, m)
           e == [c EXCEPT !.members = ns]
<1>1. ms \in Seq(Members)
  BY DEF Calls
<1> HIDE DEF ms
<1>2. /\ ns \in Seq(Members) /\ Len(ns) = Len(ms) + 1 /\ ns[Len(ms) + 1] = m
      /\ Len(ms) \in Nat /\ \A k \in 1 .. Len(ms) : ns[k] = ms[k]
  BY <1>1
<1> HIDE DEF ns
<1>3. /\ e \in Calls /\ e.step = "body" /\ e.base = c.base /\ e.members = ns
  BY <1>2 DEF Calls
<1> HIDE DEF e
<1>4. BodyFits(h, c) /\ c.base \in 1 .. Len(h)
  BY DEF CallFits
<1>5. \A k \in 1 .. Len(ns) : k \in 1 .. Len(ms) \/ k = Len(ms) + 1
  BY <1>2
<1>6. MemberRefs(ns, h)
  BY <1>2, <1>4, <1>5 DEF BodyFits, MemberRefs, ms
<1>7. Numbered(ns, h[c.base].ty)
  <2> SUFFICES ASSUME NEW k \in 1 .. Len(ns)
               PROVE  ns[k].index = IF h[c.base].ty = "UNION" THEN 0 ELSE k - 1
    BY DEF Numbered
  <2>1. CASE k \in 1 .. Len(ms)
    BY <1>2, <1>4, <2>1 DEF BodyFits, Numbered, ms
  <2>2. CASE k = Len(ms) + 1
    BY <1>2, <2>2 DEF ms
  <2> QED
    BY <1>5, <2>1, <2>2
<1>8. CallFits(h, e)
  BY <1>3, <1>4, <1>6, <1>7 DEF CallFits, BodyFits
<1> QED
  BY <1>3, <1>8 DEF e, ns, ms

LEMMA MemberHolds ==
  ASSUME IInv, NEW n \in Declarators, Member(n)
  PROVE  Holds
<1> DEFINE below == stack[Depth - 1]
           i == DeclaredAs(Top.base, n)
           x == MemberIndex(below)
           m == [type |-> i, index |-> x]
           c == [below EXCEPT !.members = Append(@, m)]
           s == SubSeq(stack, 1, Depth - 1)
<1>1. /\ Depth > 1 /\ Returns(Depth) /\ heap' = Declared(Returned, Top.base, n)
      /\ stack' = [s EXCEPT ![Depth - 1].members = Append(@, m)]
  BY DEF Member
<1>2. /\ HeapFits(heap') /\ KeepsBut(heap, heap', {}) /\ i \in 1 .. Len(heap')
  BY <1>1, DeclaredFits
<1>3. StackFits(heap', stack) /\ stack \in Seq(Calls)
  BY <1>2, StackStays DEF IInv, StackFits
<1>4. /\ StackFits(heap', s) /\ Len(s) = Depth - 1 /\ s # <<>>
      /\ \A d \in 1 .. Depth - 1 : s[d] = stack[d]
  BY <1>1, <1>3, PopFits DEF Depth
<1>5. /\ Depth \in Nat /\ Depth - 1 \in 1 .. Depth - 1
  BY <1>1, <1>3 DEF Depth
<1>6. /\ below \in Calls /\ CallFits(heap, below) /\ CallFits(heap', below)
      /\ below.step = "body"
  BY <1>3, <1>5 DEF StackFits, Depth, IInv
<1>7. /\ m \in Members /\ m.type \in 1 .. Len(heap')
      /\ m.index = IF heap'[below.base].ty = "UNION" THEN 0 ELSE Len(below.members)
  <2>1. heap'[below.base].ty = heap[below.base].ty
    BY <1>2, <1>6 DEF KeepsBut, CallFits
  <2>2. x = IF heap'[below.base].ty = "UNION" THEN 0 ELSE Len(below.members)
    BY <2>1 DEF MemberIndex
  <2>3. Len(below.members) \in Nat /\ i \in Nat
    BY <1>2, <1>6 DEF Calls, KeepsBut
  <2> HIDE DEF below, i, x
  <2> QED
    BY <1>2, <2>2, <2>3 DEF Members
<1> HIDE DEF below, m
<1>8. c \in Calls /\ CallFits(heap', c) /\ c.step = "body" /\ c.base = below.base
  BY <1>6, <1>7, AppendMember
<1>9. stack' = [s EXCEPT ![Len(s)] = c]
  BY <1>1, <1>4, <1>5 DEF below, StackFits
<1> HIDE DEF c, s
<1>10. \A d \in 1 .. Len(s) - 1 : s[d].base # c.base
  <2> SUFFICES ASSUME NEW d \in 1 .. Len(s) - 1, s[d].base = c.base
               PROVE  FALSE
    OBVIOUS
  <2>1. /\ d \in 1 .. Len(s) /\ Len(s) \in 1 .. Len(s) /\ d # Len(s)
    BY <1>4, <1>5
  <2>2. s[Len(s)] = below
    BY <1>4, <1>5 DEF below
  <2>3. s[d].step = "body"
    BY <1>4 DEF StackFits
  <2> QED
    BY <1>4, <1>6, <1>8, <2>1, <2>2, <2>3 DEF StackFits
<1>11. KeepsBut(heap', heap', {})
  BY <1>2 DEF KeepsBut
<1>12. StackFits(heap', stack')
  BY <1>4, <1>8, <1>9, <1>10, <1>11, TopChanges
<1> QED
  BY <1>2, <1>12, HoldsPlain

LEMMA EmptyStackFits == \A h : StackFits(h, <<>>)
  BY DEF StackFits

LEMMA DeclareTypedefHolds ==
  ASSUME IInv, NEW n \in Names, DeclareTypedef(n)
  PROVE  Holds
  BY ReturnFacts, EmptyStackFits, HoldsPlain DEF DeclareTypedef

LEMMA DeclareObjectHolds ==
  ASSUME IInv, NEW n \in Declarators, NEW scope \in Scopes,
         DeclareObject(n, scope)
  PROVE  Holds
  BY DeclaredFits, EmptyStackFits, HoldsPlain DEF DeclareObject

(* A type name was read, with its array sizes or without. *)
LEMMA NamedFacts ==
  ASSUME IInv, Returns(1) \/ AtStep("literal")
  PROVE  /\ stack # <<>> /\ Top.base \in 1 .. Len(heap)
         /\ HeapFits(Returned) /\ KeepsBut(heap, Returned, {})
         /\ Len(Returned) = Len(heap)
<1>1. stack # <<>>
  <2>1. Returns(1) => stack # <<>>
    BY ReturnFacts
  <2> QED
    BY <2>1 DEF AtStep
<1>2. Top.base \in 1 .. Len(heap)
  BY <1>1, TopFacts DEF IInv, Returns, AtStep
<1> QED
  BY <1>1, <1>2, ReturnedFits DEF IInv

LEMMA StandaloneTypeHolds ==
  ASSUME IInv, StandaloneType
  PROVE  Holds
  BY NamedFacts, EmptyStackFits, HoldsPlain DEF StandaloneType

LEMMA DimensionSize ==
  ASSUME NEW n \in {0} \cup ArraySizes
  PROVE  n \in Nat
  BY TextAssumption

LEMMA DimensionHolds ==
  ASSUME IInv, NEW n \in {0} \cup ArraySizes, Dimension(n)
  PROVE  Holds
<1> DEFINE u == Returned
           x == NewType("PTR", Top.base, n)
           c == [Top EXCEPT !.step = "literal", !.base = Here, !.has = {}]
<1>1. /\ heap' = Append(u, x) /\ SetTop(c) /\ stack # <<>>
      /\ HeapFits(u) /\ KeepsBut(heap, u, {}) /\ Len(u) = Len(heap)
      /\ Top.base \in 1 .. Len(heap) /\ Len(heap) \in Nat
  BY NamedFacts DEF Dimension, KeepsBut
<1>2. Top \in Calls /\ Top.members = <<>> /\ Here = Len(heap) + 1
  <2>1. Top.step # "body"
    BY DEF Dimension, Returns, AtStep
  <2> QED
    BY <1>1, <2>1, TopFacts DEF IInv, CallFits, Here
<1>3. x \in TypeRecords /\ x.to = Top.base /\ x.members = <<>>
  <2>1. "PTR" \in Kinds /\ Top.base \in Nat /\ n \in Nat
    BY <1>1, DimensionSize DEF Kinds
  <2> QED
    BY <2>1, NewTypeFits
<1>4. c \in Calls /\ c.step = "literal" /\ c.base = Here /\ c.members = <<>>
  <2> DEFINE none == {}
             b == [[Top EXCEPT !.step = "literal"] EXCEPT !.base = Here]
  <2>1. /\ b \in Calls /\ b.step = "literal" /\ b.base = Here
        /\ b.members = <<>>
    <3>1. Here \in Nat
      BY <1>1, <1>2
    <3> QED
      BY <1>2, <3>1 DEF Calls
  <2>2. none \in SUBSET {"unsigned", "volatile", "restrict", "other"}
    OBVIOUS
  <2>3. c = [b EXCEPT !.has = none]
    BY <1>2 DEF Calls
  <2> HIDE DEF none, b, c
  <2> QED
    BY <2>1, <2>2, <2>3 DEF Calls
<1> HIDE DEF x, c, u
<1>5. HeapFits(heap') /\ KeepsBut(u, heap', {}) /\ Len(heap') = Len(u) + 1
  <2>1. x.to \in 0 .. Len(u)
    BY <1>1, <1>3
  <2> QED
    BY <1>1, <1>3, <2>1, AppendType
<1>6. KeepsBut(heap, heap', {}) /\ Here \in 1 .. Len(heap')
  BY <1>1, <1>2, <1>5, KeepsTwice
<1> QED
  BY <1>1, <1>4, <1>5, <1>6, SetTopHolds

LEMMA Count ==
  ASSUME NEW count \in {0} \cup ListLengths
  PROVE  count \in Nat
  BY TextAssumption

(* A list that gives no size leaves the heap alone but for qualifiers. *)
Leaves ==
  /\ HeapFits(heap') /\ KeepsBut(heap, heap', {}) /\ Len(heap') = Len(heap)
  /\ stack' = <<>> /\ sized' = sized

LEMMA LeavesHolds ==
  ASSUME Leaves
  PROVE  Holds /\ sized' = sized
  BY EmptyStackFits, HoldsPlain DEF Leaves

LEMMA EndListMoves ==
  ASSUME IInv, NEW count \in {0} \cup ListLengths, EndList(count)
  PROVE  Leaves \/ \E i \in 1 .. Len(heap) : Gives(i)
<1> DEFINE i == list.type
           u == IF list.scope = "global" THEN list.before = 0 /\ count > 0
                ELSE heap[i].n = 0
           t == [heap EXCEPT ![i].n = count]
<1>1. /\ stack = <<>> /\ stack' = <<>> /\ list # NoList /\ list' = NoList
      /\ heap' = IF u THEN t ELSE heap
      /\ sized' = IF u THEN sized \cup {i} ELSE sized
  BY DEF EndList, GiveSize, Sized
<1>2. HeapFits(heap) /\ i \in 1 .. Len(heap) /\ heap[i].ty = "PTR"
  BY <1>1 DEF IInv, RefsFit
<1>3. HeapFits(t) /\ SizedAt(heap, t, i)
  BY <1>2, Count, SizedFits
<1>4. CASE u
  <2>1. heap[i].n = 0 \/ (list.scope = "global" /\ list.before = 0)
    BY <1>4
  <2>2. heap' = t /\ sized' = sized \cup {i}
    BY <1>1, <1>4
  <2> HIDE DEF t, u
  <2>3. Gives(i)
    BY <1>1, <1>3, <2>1, <2>2 DEF Gives
  <2> QED
    BY <1>2, <2>3
<1>5. CASE ~u
  <2>1. heap' = heap /\ sized' = sized
    BY <1>1, <1>5
  <2> QED
    BY <1>1, <1>2, <2>1, SameHeap DEF Leaves
<1> QED
  BY <1>4, <1>5

LEMMA CompoundLiteralMoves ==
  ASSUME IInv, NEW count \in {0} \cup ListLengths, CompoundLiteral(count)
  PROVE  Leaves \/ \E i \in 1 .. Len(heap) : Gives(i)
<1> DEFINE i == Top.base
           u == heap[i].n = 0
           h == Returned
           t == [h EXCEPT ![i].n = count]
<1>1. /\ stack # <<>> /\ stack' = <<>> /\ heap[i].ty = "PTR"
      /\ heap' = IF u THEN t ELSE h
      /\ sized' = IF u THEN sized \cup {i} ELSE sized
      /\ HeapFits(h) /\ KeepsBut(heap, h, {}) /\ Len(h) = Len(heap)
      /\ i \in 1 .. Len(heap)
  BY NamedFacts DEF CompoundLiteral, GiveSize, Sized
<1>2. i \in 1 .. Len(h) /\ h[i].ty = "PTR"
  BY <1>1 DEF KeepsBut
<1>3. HeapFits(t) /\ SizedAt(h, t, i)
  <2> HIDE DEF h, i
  <2> QED
    BY <1>1, <1>2, Count, SizedFits
<1>4. CASE u
  <2>1. heap[i].n = 0 /\ heap' = t /\ sized' = sized \cup {i}
    BY <1>1, <1>4
  <2> HIDE DEF t, u, h
  <2>2. SizedAt(heap, t, i)
    BY <1>1, <1>3 DEF SizedAt, KeepsBut
  <2>3. Gives(i)
    BY <1>1, <1>3, <2>1, <2>2 DEF Gives
  <2> QED
    BY <1>1, <2>3
<1>5. CASE ~u
  <2>1. heap' = h /\ sized' = sized
    BY <1>1, <1>5
  <2> HIDE DEF t, u, h, i
  <2> QED
    BY <1>1, <2>1 DEF Leaves
<1> QED
  BY <1>4, <1>5

LEMMA StepMoves ==
  ASSUME IInv, [Next]_vars
  PROVE  Moves
<1>1. CASE heap' = heap /\ stack' = stack /\ sized' = sized
  BY <1>1, SameHeap, HoldsPlain DEF IInv, Moves
<1>2. ASSUME NEW q \in Qualifiers, Qualify(q) \/ QualifyPointer(q) PROVE Moves
  BY <1>2, QualifyHolds, QualifyPointerHolds
     DEF Moves, Qualify, QualifyPointer, history
<1>3. ASSUME NEW n \in Names, TypedefName(n) \/ DeclareTypedef(n) PROVE Moves
  BY <1>3, TypedefNameHolds, DeclareTypedefHolds
     DEF Moves, TypedefName, DeclareTypedef, history
<1>4. ASSUME NEW n \in Names, NEW kind \in {"STRUCT", "UNION"},
             TagReference(n, kind) \/ TagBody(n, kind)
      PROVE  Moves
  BY <1>4, TagReferenceHolds, TagBodyHolds
     DEF Moves, TagReference, TagBody, history
<1>5. ASSUME NEW n \in Declarators, Member(n) PROVE Moves
  BY <1>5, MemberHolds DEF Moves, Member, history
<1>6. ASSUME NEW n \in Declarators, NEW scope \in Scopes, DeclareObject(n, scope)
      PROVE  Moves
  BY <1>6, DeclareObjectHolds DEF Moves, DeclareObject, history
<1>7. ASSUME NEW n \in {0} \cup ArraySizes, Dimension(n) PROVE Moves
  BY <1>7, DimensionHolds DEF Moves, Dimension, history
<1>8. ASSUME NEW b \in BaseTypes, ArithmeticBase(b) PROVE Moves
  BY <1>8, ArithmeticBaseHolds DEF Moves, ArithmeticBase, history
<1>9. ASSUME NEW kind \in {"STRUCT", "UNION"}, AnonymousBody(kind) PROVE Moves
  BY <1>9, AnonymousBodyHolds DEF Moves, AnonymousBody, history
<1>10. CASE BeginDeclaration \/ BeginMember \/ CloseBody \/ Pointer \/ StandaloneType
  BY <1>10, BeginDeclarationHolds, BeginMemberHolds, CloseBodyHolds, PointerHolds,
     StandaloneTypeHolds
     DEF Moves, BeginDeclaration, BeginMember, CloseBody, Pointer, StandaloneType,
         history
<1>11. ASSUME NEW count \in {0} \cup ListLengths, EndList(count) \/ CompoundLiteral(count)
       PROVE  Moves
  BY <1>11, EndListMoves, CompoundLiteralMoves, LeavesHolds DEF Moves
<1> QED
  BY <1>1, <1>2, <1>3, <1>4, <1>5, <1>6, <1>7, <1>8, <1>9, <1>10, <1>11
     DEF Next, vars, history, Exit, EndOfText, Stopped

-----------------------------------------------------------------------------
(* The invariant *)

LEMMA MovesFacts ==
  ASSUME Moves
  PROVE  /\ HeapFits(heap') /\ StackFits(heap', stack')
         /\ Len(heap) \in Nat /\ Len(heap') \in Nat /\ Len(heap) <= Len(heap')
         /\ \A i \in 1 .. Len(heap) :
              i \in 1 .. Len(heap') /\ heap'[i].ty = heap[i].ty
         /\ sized' = sized \/ \E i \in 1 .. Len(heap) : sized' = sized \cup {i}
<1>1. CASE Holds /\ sized' = sized
  BY <1>1 DEF Holds, KeepsBut
<1>2. ASSUME NEW i \in 1 .. Len(heap), Gives(i)
      PROVE  /\ HeapFits(heap') /\ StackFits(heap', stack')
             /\ Len(heap) \in Nat /\ Len(heap') = Len(heap)
             /\ \A j \in 1 .. Len(heap) : heap'[j].ty = heap[j].ty
             /\ sized' = sized \cup {i}
  BY <1>2, EmptyStackFits DEF Gives, SizedAt
<1> QED
  BY <1>1, <1>2 DEF Moves

(* Names, tags, objects and the pending list change as the declarations say. *)
LEMMA TypedefsStep ==
  ASSUME [Next]_vars
  PROVE  \/ typedefs' = typedefs /\ shared' = shared
         \/ \E n \in Names : DeclareTypedef(n)
  BY DEF Next, vars, history, BeginDeclaration, Qualify, QualifyPointer,
         ArithmeticBase, TypedefName, TagReference, TagBody, AnonymousBody,
         BeginMember, CloseBody, Pointer, Member, DeclareObject, EndList,
         Dimension, CompoundLiteral, StandaloneType, Exit, EndOfText, Stopped

LEMMA TagsStep ==
  ASSUME [Next]_vars
  PROVE  \/ tags' = tags
         \/ \E n \in Names, kind \in {"STRUCT", "UNION"} :
              TagReference(n, kind) \/ TagBody(n, kind)
  BY DEF Next, vars, history, BeginDeclaration, Qualify, QualifyPointer,
         ArithmeticBase, TypedefName, AnonymousBody, BeginMember, CloseBody,
         Pointer, Member, DeclareTypedef, DeclareObject, EndList, Dimension,
         CompoundLiteral, StandaloneType, Exit, EndOfText, Stopped

LEMMA ObjectsStep ==
  ASSUME [Next]_vars
  PROVE  \/ objects' = objects /\ (list' = list \/ list' = NoList)
         \/ \E n \in Declarators, scope \in Scopes : DeclareObject(n, scope)
  BY DEF Next, vars, history, BeginDeclaration, Qualify, QualifyPointer,
         ArithmeticBase, TypedefName, TagReference, TagBody, AnonymousBody,
         BeginMember, CloseBody, Pointer, Member, DeclareTypedef, EndList,
         Dimension, CompoundLiteral, StandaloneType, Exit, EndOfText, Stopped

LEMMA DeclsStep ==
  ASSUME [Next]_vars
  PROVE  decls' \in {decls, decls + 1} /\ status' \in {status, "exit", "done"}
  BY DEF Next, vars, history, BeginDeclaration, Qualify, QualifyPointer,
         ArithmeticBase, TypedefName, TagReference, TagBody, AnonymousBody,
         BeginMember, CloseBody, Pointer, Member, DeclareTypedef, DeclareObject,
         EndList, Dimension, CompoundLiteral, StandaloneType, Exit, EndOfText,
         Stopped

LEMMA NoListFits == NoList \in Lists
  BY DEF NoList, Lists, NULL, Scopes

LEMMA RefsStep ==
  ASSUME IInv, [Next]_vars, Moves
  PROVE  RefsFit'
<1>1. /\ Len(heap) \in Nat /\ Len(heap') \in Nat /\ Len(heap) <= Len(heap')
      /\ HeapFits(heap')
      /\ \A i \in 1 .. Len(heap) : heap'[i].ty = heap[i].ty
  BY MovesFacts
<1>2. Refs(heap) \subseteq Refs(heap') /\ 1 .. Len(heap) \subseteq 1 .. Len(heap')
  BY <1>1 DEF Refs
<1>3. /\ typedefs \in [Names -> Refs(heap)] /\ tags \in [Names -> Refs(heap)]
      /\ objects \in Seq(1 .. Len(heap)) /\ list \in Lists
      /\ list # NoList => list.type \in 1 .. Len(heap) /\ heap[list.type].ty = "PTR"
      /\ shared \subseteq 1 .. Len(heap) /\ sized \subseteq 1 .. Len(heap)
  BY DEF IInv, RefsFit
<1>4. typedefs' \in [Names -> Refs(heap')] /\ shared' \subseteq 1 .. Len(heap')
  <2>1. CASE typedefs' = typedefs /\ shared' = shared
    BY <1>2, <1>3, <2>1
  <2>2. ASSUME NEW n \in Names, DeclareTypedef(n)
        PROVE  typedefs' \in [Names -> Refs(heap')] /\ shared' \subseteq 1 .. Len(heap')
    <3>1. /\ typedefs' = [typedefs EXCEPT ![n] = Top.base] /\ Returns(1)
          /\ shared' = shared \cup {Top.base}
      BY <2>2 DEF DeclareTypedef
    <3>2. Top.base \in Refs(heap') /\ Top.base \in 1 .. Len(heap')
      BY <1>1, <3>1, ReturnFacts DEF Refs
    <3> QED
      BY <1>2, <1>3, <3>1, <3>2
  <2> QED
    BY <2>1, <2>2, TypedefsStep
<1>5. tags' \in [Names -> Refs(heap')]
  <2>1. CASE tags' = tags
    BY <1>2, <1>3, <2>1
  <2>2. ASSUME NEW n \in Names, NEW kind \in {"STRUCT", "UNION"},
               TagReference(n, kind)
        PROVE  tags' \in [Names -> Refs(heap')]
    <3> DEFINE h == TaggedHeap(n, kind)
               i == tags'[n]
    <3>1. Tagged(n, kind) /\ HasBase(h, i)
      BY <2>2 DEF TagReference
    <3>2. /\ HeapFits(h) /\ i \in 1 .. Len(h) /\ tags' \in [Names -> 0 .. Len(h)]
      BY <3>1, TaggedFits
    <3> HIDE DEF h, i
    <3>3. Len(heap') = Len(h)
      BY <3>1, <3>2, QualifiedFits DEF HasBase
    <3> QED
      BY <3>2, <3>3 DEF Refs
  <2>3. ASSUME NEW n \in Names, NEW kind \in {"STRUCT", "UNION"},
               TagBody(n, kind)
        PROVE  tags' \in [Names -> Refs(heap')]
    BY <2>3, TaggedFits DEF TagBody, Refs
  <2> QED
    BY <2>1, <2>2, <2>3, TagsStep
<1>6. /\ objects' \in Seq(1 .. Len(heap')) /\ list' \in Lists
      /\ list' # NoList =>
           list'.type \in 1 .. Len(heap') /\ heap'[list'.type].ty = "PTR"
  <2>1. objects \in Seq(1 .. Len(heap'))
    <3> DEFINE A == 1 .. Len(heap)
               B == 1 .. Len(heap')
    <3>1. objects \in Seq(A) /\ A \subseteq B
      BY <1>2, <1>3
    <3> HIDE DEF A, B
    <3>2. objects \in Seq(B)
      BY <3>1
    <3> QED
      BY <3>2 DEF B
  <2>2. CASE objects' = objects /\ (list' = list \/ list' = NoList)
    <3>1. CASE list' = list
      BY <1>1, <1>2, <1>3, <2>1, <2>2, <3>1
    <3>2. CASE list' = NoList
      BY <2>1, <2>2, <3>2, NoListFits
    <3> QED
      BY <2>2, <3>1, <3>2
  <2>3. ASSUME NEW n \in Declarators, NEW scope \in Scopes, DeclareObject(n, scope)
        PROVE  /\ objects' \in Seq(1 .. Len(heap')) /\ list' \in Lists
               /\ list' # NoList =>
                    list'.type \in 1 .. Len(heap') /\ heap'[list'.type].ty = "PTR"
    <3> DEFINE i == DeclaredAs(Top.base, n)
    <3>1. /\ i \in 1 .. Len(heap') /\ objects' = Append(objects, i)
          /\ list' = NoList
             \/ (/\ heap'[i].ty = "PTR"
                 /\ list' = [type |-> i, scope |-> scope, before |-> heap'[i].n])
      BY <2>3, DeclaredFits DEF DeclareObject
    <3> HIDE DEF i
    <3>2. objects' \in Seq(1 .. Len(heap'))
      BY <2>1, <3>1
    <3>3. i \in Nat /\ heap'[i].n \in Nat
      <4>1. heap'[i] \in TypeRecords
        BY <1>1, <3>1 DEF HeapFits
      <4> QED
        BY <1>1, <3>1, <4>1 DEF TypeRecords
    <3>4. CASE list' = NoList
      BY <3>2, <3>4, NoListFits
    <3>5. CASE heap'[i].ty = "PTR"
               /\ list' = [type |-> i, scope |-> scope, before |-> heap'[i].n]
      BY <3>1, <3>2, <3>3, <3>5 DEF Lists
    <3> QED
      BY <3>1, <3>4, <3>5
  <2> QED
    BY <2>2, <2>3, ObjectsStep
<1>7. decls' \in Nat /\ status' \in {"running", "exit", "done"}
  <2>1. decls \in Nat /\ status \in {"running", "exit", "done"}
    BY DEF IInv, RefsFit
  <2> QED
    BY <2>1, DeclsStep
<1>8. sized' \subseteq 1 .. Len(heap')
  BY <1>2, <1>3, MovesFacts
<1> QED
  BY <1>4, <1>5, <1>6, <1>7, <1>8 DEF RefsFit

LEMMA InvariantHolds == Spec => []IInv
<1>1. Init => IInv
  <2> SUFFICES ASSUME Init PROVE IInv
    OBVIOUS
  <2>1. HeapFits(heap) /\ StackFits(heap, stack)
    BY EmptyStackFits DEF Init, HeapFits
  <2>2. RefsFit
    BY NoListFits DEF Init, RefsFit, Refs, NULL
  <2> QED
    BY <2>1, <2>2 DEF IInv
<1>2. IInv /\ [Next]_vars => IInv'
  <2> SUFFICES ASSUME IInv, [Next]_vars PROVE IInv'
    OBVIOUS
  <2>1. Moves
    BY StepMoves
  <2> QED
    BY <2>1, RefsStep, MovesFacts DEF IInv
<1> QED
  BY <1>1, <1>2, PTL DEF Spec

LEMMA MembersTyped ==
  ASSUME IInv, NEW i \in 1 .. Len(heap)
  PROVE  heap[i].members \in Seq(Members)
<1>1. heap[i] \in TypeRecords
  BY DEF IInv, HeapFits
<1> QED
  BY <1>1 DEF TypeRecords

LEMMA TypesFollow ==
  ASSUME IInv
  PROVE  TypeOK
<1>1. /\ heap \in Seq(TypeRecords) /\ stack \in Seq(Calls) /\ RefsFit
      /\ DOMAIN heap = 1 .. Len(heap) /\ DOMAIN stack = 1 .. Len(stack)
  BY DEF IInv, HeapFits, StackFits
<1>2. \A d \in DOMAIN stack :
        stack[d].base \in IF stack[d].step = "qualifiers" THEN {NULL}
                          ELSE DOMAIN heap
  BY <1>1 DEF IInv, StackFits, CallFits
<1>3. ASSUME NEW i \in 1 .. Len(heap)
      PROVE  heap[i].to < i /\ MemberTypes(heap[i]) \subseteq 1 .. Len(heap)
  <2>1. heap[i].to < i /\ MemberRefs(heap[i].members, heap)
    BY DEF IInv, HeapFits, TypeFits
  <2>2. heap[i].members \in Seq(Members)
    BY MembersTyped
  <2> QED
    BY <2>1, <2>2 DEF MemberTypes, MemberRefs
<1> QED
  BY <1>1, <1>2, <1>3 DEF TypeOK, RefsFit

(* The variables have their types: no type is made of one that comes later,
   and no member, typedef, tag or object refers to anything but a type. *)
THEOREM TypesHold == Spec => []TypeOK
<1>1. IInv => TypeOK
  BY TypesFollow
<1> QED
  BY <1>1, InvariantHolds, PTL

(* Members are numbered as LLVM numbers them, with structs in structs and any
   order of declarations that share a tag. *)
THEOREM MembersAreNumbered == Spec => []MembersNumbered
<1>1. ASSUME IInv PROVE MembersNumbered
  <2>1. /\ DOMAIN heap = 1 .. Len(heap)
        /\ \A i \in 1 .. Len(heap) : /\ heap[i].members \in Seq(Members)
                                     /\ TypeFits(heap, i)
    BY <1>1, MembersTyped DEF IInv, HeapFits
  <2>2. \A i \in DOMAIN heap : \A k \in DOMAIN heap[i].members :
          k \in 1 .. Len(heap[i].members)
    BY <2>1
  <2> QED
    BY <2>1, <2>2 DEF MembersNumbered, TypeFits, Numbered
<1> QED
  BY <1>1, InvariantHolds, PTL

-----------------------------------------------------------------------------
(* Which types a list may give a size *)

NamesShared == \A n \in Names : typedefs[n] # NULL => typedefs[n] \in shared

(* A list that found no size in front of it finds none behind it, unless the
   type has a name; and no type name in the list means its type, unless it is
   that name. *)
ListInv ==
  /\ NamesShared
  /\ list # NoList /\ list.scope = "global" /\ list.before = 0 =>
       \/ heap[list.type].n = 0
       \/ list.type \in sized /\ list.type \in shared
  /\ list # NoList /\ stack # <<>> =>
       Top.base # list.type \/ list.type \in shared

(* Where the type of a call can be from. *)
Known(b) ==
  \/ b = NULL
  \/ b \notin 1 .. Len(heap)
  \/ stack # <<>> /\ b = Top.base
  \/ b \in shared
  \/ heap[b].ty \in {"STRUCT", "UNION"}

LEMMA SetTopBase ==
  ASSUME IInv, stack # <<>>, NEW c, SetTop(c)
  PROVE  Top'.base = c.base
<1>1. /\ stack \in Seq(Calls) /\ Depth = Len(stack) /\ Len(stack) \in Nat
      /\ Depth > 0 /\ stack' = [stack EXCEPT ![Depth] = c]
  BY TopFacts DEF IInv, Depth, SetTop
<1>2. Len(stack') = Len(stack) /\ stack'[Depth] = c
  BY <1>1
<1> QED
  BY <1>1, <1>2 DEF Top, Depth

LEMMA HasBaseTop ==
  ASSUME IInv, stack # <<>>, NEW h, NEW i, HasBase(h, i)
  PROVE  Top'.base = i
<1> DEFINE c == [Top EXCEPT !.step = "pointers", !.base = i, !.members = <<>>]
<1>1. SetTop(c) /\ Top \in Calls
  BY TopFacts DEF HasBase, IInv
<1>2. c.base = i
  BY <1>1 DEF Calls
<1> HIDE DEF c
<1> QED
  BY <1>1, <1>2, SetTopBase

LEMMA HereIsNew ==
  ASSUME IInv
  PROVE  Here \notin 1 .. Len(heap)
  BY DEF IInv, HeapFits, Here

LEMMA TaggedKnown ==
  ASSUME IInv, NEW n \in Names, NEW kind \in {"STRUCT", "UNION"},
         Tagged(n, kind)
  PROVE  Known(tags'[n])
<1>1. CASE tags[n] # NULL
  BY <1>1 DEF Tagged, Known
<1>2. CASE tags[n] = NULL
  BY <1>2, HereIsNew DEF Tagged, Known, IInv, RefsFit
<1> QED
  BY <1>1, <1>2

LEMMA TopStep ==
  ASSUME IInv, NamesShared, [Next]_vars, stack' # <<>>
  PROVE  Known(Top'.base)
<1>1. CASE stack' = stack
  <2>1. Top' = Top
    BY <1>1 DEF Top, Depth
  <2> QED
    BY <1>1, <2>1 DEF Known
<1>2. CASE BeginDeclaration
  BY <1>2 DEF BeginDeclaration, Top, Depth, NewCall, Known
<1>3. ASSUME NEW q \in Qualifiers, Qualify(q) \/ QualifyPointer(q)
      PROVE  Known(Top'.base)
  <2>1. stack # <<>>
    BY <1>3 DEF Qualify, QualifyPointer, AtStep
  <2>2. Top \in Calls
    BY <2>1, TopFacts DEF IInv
  <2>3. CASE Qualify(q)
    <3> DEFINE c == [Top EXCEPT !.has = @ \cup {q}]
    <3>1. SetTop(c) /\ c.base = Top.base
      BY <2>2, <2>3 DEF Qualify, Calls
    <3> HIDE DEF c
    <3> QED
      BY <2>1, <3>1, SetTopBase DEF Known
  <2>4. CASE QualifyPointer(q)
    <3> DEFINE w == IF q = "restrict" THEN "restricted" ELSE "done"
               c == [Top EXCEPT !.step = w, !.has = @ \cup {q}]
    <3>1. SetTop(c) /\ c.base = Top.base
      BY <2>2, <2>4 DEF QualifyPointer, Calls
    <3> HIDE DEF c
    <3> QED
      BY <2>1, <3>1, SetTopBase DEF Known
  <2> QED
    BY <1>3, <2>3, <2>4
<1>4. ASSUME NEW b \in BaseTypes, ArithmeticBase(b) PROVE Known(Top'.base)
  BY <1>4, HasBaseTop, HereIsNew DEF ArithmeticBase, AtStep, Known
<1>5. ASSUME NEW n \in Names, TypedefName(n) PROVE Known(Top'.base)
  BY <1>5, HasBaseTop DEF TypedefName, AtStep, Known, NamesShared
<1>6. ASSUME NEW n \in Names, NEW kind \in {"STRUCT", "UNION"},
             TagReference(n, kind)
      PROVE  Known(Top'.base)
  <2>1. /\ stack # <<>> /\ Tagged(n, kind)
        /\ HasBase(TaggedHeap(n, kind), tags'[n])
    BY <1>6 DEF TagReference, AtStep
  <2>2. Top'.base = tags'[n]
    BY <2>1, HasBaseTop, Zenon
  <2> QED
    BY <2>1, <2>2, TaggedKnown
<1>7. ASSUME IInv, stack # <<>>, NEW i, OpenBody(i) PROVE Top'.base = i
  <2> DEFINE c == [Top EXCEPT !.step = "body", !.base = i]
  <2>1. SetTop(c) /\ Top \in Calls
    BY <1>7, TopFacts DEF OpenBody, IInv
  <2>2. c.base = i
    BY <2>1 DEF Calls
  <2> HIDE DEF c
  <2> QED
    BY <1>7, <2>1, <2>2, SetTopBase
<1>8. ASSUME NEW n \in Names, NEW kind \in {"STRUCT", "UNION"}, TagBody(n, kind)
      PROVE  Known(Top'.base)
  <2>1. stack # <<>> /\ Tagged(n, kind) /\ OpenBody(tags'[n])
    BY <1>8 DEF TagBody, AtStep
  <2>2. Top'.base = tags'[n]
    BY <1>7, <2>1, Zenon
  <2> QED
    BY <2>1, <2>2, TaggedKnown
<1>9. ASSUME NEW kind \in {"STRUCT", "UNION"}, AnonymousBody(kind)
      PROVE  Known(Top'.base)
  BY <1>7, <1>9, HereIsNew DEF AnonymousBody, AtStep, Known
<1>10. CASE BeginMember
  <2>1. stack \in Seq(Calls) /\ stack' = Append(stack, NewCall)
    BY <1>10 DEF BeginMember, IInv, StackFits
  <2>2. Len(stack') = Len(stack) + 1 /\ stack'[Len(stack) + 1] = NewCall
    BY <2>1
  <2>3. Top' = NewCall
    BY <2>2 DEF Top, Depth
  <2> QED
    BY <2>3 DEF Known, NewCall
<1>11. CASE CloseBody
  <2>1. stack # <<>> /\ HasBase([heap EXCEPT ![Top.base].members = Top.members], Top.base)
    BY <1>11 DEF CloseBody, AtStep
  <2> QED
    BY <2>1, HasBaseTop DEF Known
<1>12. CASE Pointer
  <2> DEFINE c == [Top EXCEPT !.base = Here]
  <2>1. stack # <<>> /\ SetTop(c) /\ Top \in Calls
    BY <1>12, TopFacts DEF Pointer, AtStep, IInv
  <2>2. c.base = Here
    BY <2>1 DEF Calls
  <2> HIDE DEF c
  <2> QED
    BY <2>1, <2>2, SetTopBase, HereIsNew DEF Known
<1>13. ASSUME NEW n \in {0} \cup ArraySizes, Dimension(n) PROVE Known(Top'.base)
  <2> DEFINE c == [Top EXCEPT !.step = "literal", !.base = Here, !.has = {}]
  <2>1. stack # <<>> /\ SetTop(c) /\ Top \in Calls
    BY <1>13, NamedFacts, TopFacts DEF Dimension, IInv
  <2>2. c.base = Here
    BY <2>1 DEF Calls
  <2> HIDE DEF c
  <2> QED
    BY <2>1, <2>2, SetTopBase, HereIsNew DEF Known
<1>14. ASSUME NEW n \in Declarators, Member(n) PROVE Known(Top'.base)
  <2> DEFINE below == stack[Depth - 1]
             m == [type |-> DeclaredAs(Top.base, n), index |-> MemberIndex(below)]
             s == SubSeq(stack, 1, Depth - 1)
             c == [below EXCEPT !.members = Append(@, m)]
  <2>1. /\ Depth > 1 /\ stack \in Seq(Calls) /\ Depth = Len(stack) /\ Depth \in Nat
        /\ stack' = [s EXCEPT ![Depth - 1].members = Append(@, m)]
    BY <1>14 DEF Member, IInv, StackFits, Depth
  <2>2. s \in Seq(Calls) /\ Len(s) = Depth - 1 /\ s[Depth - 1] = below
    BY <2>1
  <2>3. below \in Calls /\ below.step = "body" /\ CallFits(heap, below)
    <3>1. Depth - 1 \in 1 .. Len(stack) - 1 /\ Depth - 1 \in 1 .. Len(stack)
      BY <2>1
    <3> QED
      BY <2>1, <3>1 DEF IInv, StackFits
  <2>4. stack' = [s EXCEPT ![Depth - 1] = c]
    BY <2>1, <2>2
  <2>5. c.base = below.base
    BY <2>3 DEF Calls
  <2> HIDE DEF c, s, below, m
  <2>6. Len(stack') = Depth - 1 /\ stack'[Depth - 1] = c
    BY <2>1, <2>2, <2>4
  <2>7. Top'.base = below.base
    BY <2>5, <2>6 DEF Top, Depth
  <2> QED
    BY <2>3, <2>7 DEF Known, CallFits, BodyFits
<1>15. CASE stack' = <<>>
  BY <1>15
<1> QED
  BY <1>1, <1>2, <1>3, <1>4, <1>5, <1>6, <1>8, <1>9, <1>10, <1>11, <1>12, <1>13,
     <1>14, <1>15
     DEF Next, vars, DeclareTypedef, DeclareObject, EndList, CompoundLiteral,
         StandaloneType, Exit, EndOfText, Stopped

LEMMA SharedGrows ==
  ASSUME [Next]_vars
  PROVE  shared \subseteq shared'
  BY TypedefsStep DEF DeclareTypedef

(* What a step does to the size of a type that exists. *)
LEMMA SizeKept ==
  ASSUME Moves, NEW i \in 1 .. Len(heap)
  PROVE  heap'[i].n = heap[i].n \/ Gives(i)
  BY DEF Moves, Holds, KeepsBut, Gives, SizedAt

LEMMA SizedGrows ==
  ASSUME Moves
  PROVE  sized \subseteq sized'
  BY DEF Moves, Gives

LEMMA ListStep ==
  ASSUME IInv, ListInv, [Next]_vars
  PROVE  ListInv'
<1>1. Moves
  BY StepMoves
<1>2. NamesShared'
  <2>1. CASE typedefs' = typedefs /\ shared' = shared
    BY <2>1 DEF ListInv, NamesShared
  <2>2. ASSUME NEW n \in Names, DeclareTypedef(n) PROVE NamesShared'
    BY <2>2 DEF DeclareTypedef, ListInv, NamesShared, IInv, RefsFit
  <2> QED
    BY <2>1, <2>2, TypedefsStep
<1>3. ASSUME list' # NoList
      PROVE  \/ list' = list
             \/ list'.before = heap'[list'.type].n /\ stack' = <<>>
  <2>1. ASSUME NEW n \in Declarators, NEW scope \in Scopes, DeclareObject(n, scope)
        PROVE  list'.before = heap'[list'.type].n /\ stack' = <<>>
    BY <1>3, <2>1 DEF DeclareObject
  <2> QED
    BY <1>3, <2>1, ObjectsStep
<1>4. ASSUME list' # NoList, list'.scope = "global", list'.before = 0
      PROVE  \/ heap'[list'.type].n = 0
             \/ list'.type \in sized' /\ list'.type \in shared'
  <2>1. CASE list' = list
    <3> DEFINE i == list.type
    <3>1. i \in 1 .. Len(heap)
      BY <1>4, <2>1 DEF IInv, RefsFit
    <3>2. heap[i].n = 0 \/ (i \in sized /\ i \in shared)
      BY <1>4, <2>1 DEF ListInv
    <3>3. CASE heap'[i].n = heap[i].n
      BY <1>1, <2>1, <3>2, <3>3, SharedGrows, SizedGrows
    <3>4. CASE Gives(i)
      BY <1>4, <2>1, <3>4, SharedGrows DEF Gives, ListInv
    <3> QED
      BY <1>1, <3>1, <3>3, <3>4, SizeKept
  <2>2. CASE list'.before = heap'[list'.type].n
    BY <1>4, <2>2
  <2> QED
    BY <1>3, <1>4, <2>1, <2>2
<1>5. ASSUME list' # NoList, stack' # <<>>
      PROVE  Top'.base # list'.type \/ list'.type \in shared'
  <2>1. list' = list
    BY <1>3, <1>5
  <2>2. list.type \in 1 .. Len(heap) /\ heap[list.type].ty = "PTR" /\ list.type # NULL
    BY <1>5, <2>1 DEF IInv, RefsFit, NULL
  <2>3. Known(Top'.base)
    BY <1>5, TopStep DEF ListInv
  <2> QED
    BY <1>5, <2>1, <2>2, <2>3, SharedGrows DEF ListInv, Known
<1> QED
  BY <1>2, <1>4, <1>5 DEF ListInv

LEMMA ListHolds == Spec => []ListInv
<1>1. Init => ListInv
  BY DEF Init, ListInv, NamesShared
<1>2. IInv /\ ListInv /\ [Next]_vars => ListInv'
  BY ListStep
<1> QED
  BY <1>1, <1>2, InvariantHolds, PTL DEF Spec

(* Whichever type a list gives a size had none, or it is shared and got one
   from a literal in the list. *)
LEMMA GivenSize ==
  ASSUME IInv, ListInv, NEW i \in 1 .. Len(heap), Gives(i)
  PROVE  heap[i].n = 0 \/ (i \in sized /\ i \in shared)
  BY DEF Gives, ListInv

(* However many names share a type, no declaration and no list changes its kind
   and what it is made of, or the members of a struct that has them; and a
   pointer that has no name gets a size at most once.  One with a name may get
   another: the list of a global was asked for its size too early. *)
THEOREM TypesAreKept == Spec => TypesKept
<1> DEFINE Keeps == \A i \in DOMAIN heap :
                      /\ heap'[i].ty = heap[i].ty
                      /\ heap'[i].to = heap[i].to
                      /\ heap[i].members # <<>> =>
                           heap'[i].members = heap[i].members
                      /\ heap'[i].n # heap[i].n =>
                           heap[i].ty = "PTR" /\ (heap[i].n = 0 \/ i \in shared)
<1>1. IInv /\ ListInv /\ [Next]_vars => [Keeps]_vars
  <2> SUFFICES ASSUME IInv, ListInv, [Next]_vars PROVE Keeps
    OBVIOUS
  <2>1. DOMAIN heap = 1 .. Len(heap)
    BY DEF IInv, HeapFits
  <2>2. CASE Holds
    BY <2>1, <2>2 DEF Holds, KeepsBut
  <2>3. ASSUME NEW i \in 1 .. Len(heap), Gives(i) PROVE Keeps
    <3>1. heap[i].n = 0 \/ i \in shared
      BY <2>3, GivenSize
    <3>2. SizedAt(heap, heap', i)
      BY <2>3 DEF Gives
    <3> QED
      BY <2>1, <3>1, <3>2 DEF SizedAt
  <2> QED
    BY <2>2, <2>3, StepMoves DEF Moves
<1> QED
  BY <1>1, InvariantHolds, ListHolds, PTL DEF Spec, TypesKept

-----------------------------------------------------------------------------
(* Recursion over what a type is made of *)

(* A set of numbers has a least one. *)
LEMMA Least ==
  ASSUME NEW T, T \subseteq Nat, T # {}
  PROVE  \E x \in T : \A y \in T : x <= y
<1> DEFINE R == OpToRel(<, Nat)
<1>1. IsWellFoundedOn(R, Nat)
  BY NatLessThanWellFounded
<1>2. \A x \in Nat, y \in Nat : x < y => <<x, y>> \in R
  BY DEF OpToRel
<1> HIDE DEF R
<1>3. PICK x \in T : \A y \in T : ~ (<<y, x>> \in R)
  BY <1>1, WFMin
<1>4. \A y \in T : ~ (y < x)
  BY <1>2, <1>3
<1>5. \A y \in T : x <= y
  BY <1>4
<1> QED
  BY <1>5

(* The parts of everything in R are in R, and no chain of parts is endless. *)
Founded(R, parts) ==
  \E rank \in [R -> Nat], top \in Nat :
    \A i \in R : /\ rank[i] < top
                 /\ \A j \in parts[i] : j \in R /\ rank[j] < rank[i]

(* What passes from the parts to the whole holds of all. *)
LEMMA Descent ==
  ASSUME NEW R, NEW parts, Founded(R, parts),
         NEW S, \A i \in R : (\A j \in parts[i] : j \in S) => i \in S
  PROVE  \A i \in R : i \in S
<1>1. PICK rank \in [R -> Nat] : \A i \in R : \A j \in parts[i] :
                                   j \in R /\ rank[j] < rank[i]
  BY DEF Founded
<1> DEFINE T == {rank[i] : i \in R \ S}
<1> SUFFICES ASSUME T # {} PROVE FALSE
  OBVIOUS
<1>2. T \subseteq Nat
  BY <1>1
<1>3. PICK x \in T : \A y \in T : x <= y
  <2> HIDE DEF T
  <2> QED
    BY <1>2, Least
<1>4. PICK i \in R \ S : x = rank[i]
  BY <1>3
<1>5. \A j \in R : rank[j] < rank[i] => j \in S
  <2> SUFFICES ASSUME NEW j \in R, rank[j] < rank[i], j \notin S PROVE FALSE
    OBVIOUS
  <2>1. rank[j] \in T
    OBVIOUS
  <2>2. rank[i] <= rank[j]
    BY <1>3, <1>4, <2>1
  <2>3. rank[i] \in Nat /\ rank[j] \in Nat
    BY <1>1, <1>4
  <2> QED
    BY <2>2, <2>3
<1> QED
  BY <1>1, <1>4, <1>5

(* F computes each value from those of the parts. *)
Computes(F, R, parts, V) ==
  /\ F \in [[R -> V] -> [R -> V]]
  /\ \A s, t \in [R -> V] : \A i \in R :
       (\A j \in parts[i] : s[j] = t[j]) => F[s][i] = F[t][i]

(* So there is a function that has the values that it computes. *)
LEMMA Solution ==
  ASSUME NEW R, NEW parts, Founded(R, parts), NEW V, V # {},
         NEW F, Computes(F, R, parts, V)
  PROVE  \E s \in [R -> V] : s = F[s]
<1>0. PICK v : v \in V
  OBVIOUS
<1> USE DEF Computes
<1>1. PICK rank \in [R -> Nat], top \in Nat :
        \A i \in R : /\ rank[i] < top
                     /\ \A j \in parts[i] : j \in R /\ rank[j] < rank[i]
  BY DEF Founded
<1> DEFINE Below(n) == \E s \in [R -> V] : \A i \in R : rank[i] < n => s[i] = F[s][i]
           T == {n \in Nat : ~Below(n)}
<1>2. Below(top) => \E s \in [R -> V] : s = F[s]
  <2> SUFFICES ASSUME NEW s \in [R -> V], \A i \in R : rank[i] < top => s[i] = F[s][i]
               PROVE  s = F[s]
    OBVIOUS
  <2>1. F[s] \in [R -> V] /\ \A i \in R : s[i] = F[s][i]
    BY <1>1
  <2> QED
    BY <2>1
<1> SUFFICES ASSUME T # {} PROVE FALSE
  BY <1>2
<1>3. PICK n \in T : \A y \in T : n <= y
  <2>1. T \subseteq Nat
    OBVIOUS
  <2> HIDE DEF T
  <2> QED
    BY <2>1, Least
<1>4. n \in Nat /\ ~Below(n)
  BY <1>3
<1>5. Below(0)
  <2>1. [i \in R |-> v] \in [R -> V]
    BY <1>0
  <2>2. \A i \in R : ~(rank[i] < 0)
    BY <1>1
  <2> QED
    BY <1>0, <2>1, <2>2
<1> HIDE DEF Below
<1>6. n - 1 \in Nat /\ n - 1 \notin T
  <2>1. n # 0
    BY <1>4, <1>5
  <2>2. n - 1 \in Nat /\ ~(n <= n - 1)
    BY <1>4, <2>1
  <2> QED
    BY <1>3, <2>2
<1>7. Below(n - 1)
  BY <1>6
<1>8. PICK s \in [R -> V] : \A i \in R : rank[i] < n - 1 => s[i] = F[s][i]
  BY <1>7 DEF Below
<1> DEFINE t == F[s]
<1>9. t \in [R -> V]
  OBVIOUS
<1>10. ASSUME NEW i \in R, rank[i] < n PROVE t[i] = F[t][i]
  <2>1. \A j \in parts[i] : j \in R /\ rank[j] < n - 1
    <3> SUFFICES ASSUME NEW j \in parts[i] PROVE j \in R /\ rank[j] < n - 1
      OBVIOUS
    <3>1. j \in R /\ rank[j] < rank[i] /\ rank[j] \in Nat /\ rank[i] \in Nat
      BY <1>1
    <3> QED
      BY <1>4, <1>10, <3>1
  <2>2. \A j \in parts[i] : s[j] = t[j]
    BY <1>8, <2>1
  <2> HIDE DEF t
  <2>3. F[s][i] = F[t][i]
    BY <1>9, <2>2
  <2> QED
    BY <2>3 DEF t
<1> QED
  <2> HIDE DEF t
  <2> QED
    BY <1>4, <1>9, <1>10 DEF Below

-----------------------------------------------------------------------------
(* The greatest of some numbers, and the end and the sum of members *)

LEMMA MaxIs ==
  ASSUME NEW U, U \subseteq Nat, U # {}, NEW b \in Nat, \A x \in U : x <= b
  PROVE  Max(U) \in U /\ \A x \in U : x <= Max(U)
<1> DEFINE T == {n \in Nat : \A x \in U : x <= n}
<1>1. PICK n \in T : \A y \in T : n <= y
  <2>1. T \subseteq Nat /\ T # {}
    OBVIOUS
  <2> HIDE DEF T
  <2> QED
    BY <2>1, Least
<1>2. n \in Nat /\ \A x \in U : x <= n
  BY <1>1
<1>3. n \in U
  <2> SUFFICES ASSUME n \notin U PROVE FALSE
    OBVIOUS
  <2>1. \A x \in U : x \in Nat /\ x <= n /\ x # n
    BY <1>2
  <2>2. n - 1 \in Nat
    <3>1. PICK w \in U : w \in Nat /\ w <= n /\ w # n
      BY <2>1
    <3> QED
      BY <1>2, <3>1
  <2>3. \A x \in U : x <= n - 1
    BY <1>2, <2>1
  <2>4. n <= n - 1
    BY <1>1, <2>2, <2>3
  <2> QED
    BY <1>2, <2>4
<1>4. \E x \in U : \A y \in U : x >= y
  BY <1>2, <1>3
<1>5. Max(U) \in U /\ \A y \in U : Max(U) >= y
  BY <1>4 DEF Max
<1> QED
  BY <1>5

(* The members of a struct or union. *)
HasMembers(t) == t.members \in Seq(Members)

LEMMA PlacesOfMembers ==
  ASSUME NEW t, HasMembers(t)
  PROVE  /\ Len(t.members) \in Nat /\ DOMAIN t.members = 1 .. Len(t.members)
         /\ \A k \in 1 .. Len(t.members) : t.members[k].type \in MemberTypes(t)
         /\ \A m \in MemberTypes(t) : \E k \in 1 .. Len(t.members) :
              m = t.members[k].type
         /\ t.members = <<>> <=> Len(t.members) = 0
<1>1. /\ Len(t.members) \in Nat /\ DOMAIN t.members = 1 .. Len(t.members)
      /\ t.members = <<>> <=> Len(t.members) = 0
  BY DEF HasMembers
<1> QED
  BY <1>1 DEF MemberTypes

LEMMA MembersBounded ==
  ASSUME NEW t, HasMembers(t), NEW s, \A m \in MemberTypes(t) : s[m] \in Nat
  PROVE  \E b \in Nat : \A m \in MemberTypes(t) : s[m] <= b
<1> DEFINE n == Len(t.members)
           g(k) == s[t.members[k].type]
           Bounded(k) == \E b \in Nat : \A j \in 1 .. k : g(j) <= b
           T == {k \in 0 .. n : ~Bounded(k)}
<1>1. n \in Nat /\ \A k \in 1 .. n : g(k) \in Nat
  BY PlacesOfMembers
<1>2. ASSUME T # {} PROVE FALSE
  <2>1. PICK k \in T : \A y \in T : k <= y
    <3>1. T \subseteq Nat
      BY <1>1
    <3> HIDE DEF T
    <3> QED
      BY <1>2, <3>1, Least
  <2>2. k \in 0 .. n /\ ~Bounded(k)
    BY <2>1
  <2>3. k # 0
    <3>1. Bounded(0)
      <4>1. 0 \in Nat /\ 1 .. 0 = {}
        OBVIOUS
      <4> QED
        BY <4>1
    <3> HIDE DEF Bounded
    <3> QED
      BY <2>2, <3>1
  <2>4. k - 1 \in 0 .. n /\ k - 1 \notin T
    <3>1. k - 1 \in 0 .. n /\ ~(k <= k - 1)
      BY <1>1, <2>2, <2>3
    <3> HIDE DEF T
    <3> QED
      BY <2>1, <3>1
  <2>5. Bounded(k - 1)
    <3> HIDE DEF Bounded
    <3> QED
      BY <2>4
  <2>6. PICK b \in Nat : \A j \in 1 .. k - 1 : g(j) <= b
    BY <2>5
  <2>7. k \in 1 .. n /\ g(k) \in Nat
    BY <1>1, <2>2, <2>3
  <2> HIDE DEF n, g
  <2>8. ASSUME NEW j \in 1 .. k PROVE g(j) <= b + g(k)
    <3>1. CASE j = k
      BY <2>7, <3>1
    <3>2. CASE j # k
      <4>1. j \in 1 .. k - 1 /\ j \in 1 .. n
        BY <1>1, <2>7, <3>2
      <4>2. g(j) <= b /\ g(j) \in Nat
        BY <1>1, <2>6, <4>1
      <4> QED
        BY <2>7, <4>2
    <3> QED
      BY <3>1, <3>2
  <2>9. b + g(k) \in Nat
    BY <2>7
  <2> QED
    BY <2>2, <2>8, <2>9
<1>3. Bounded(n)
  <2> HIDE DEF Bounded
  <2> QED
    BY <1>1, <1>2
<1>4. PICK b \in Nat : \A k \in 1 .. n : g(k) <= b
  BY <1>3
<1> QED
  BY <1>4, PlacesOfMembers

LEMMA GreatestIs ==
  ASSUME NEW t, HasMembers(t), NEW s, \A m \in MemberTypes(t) : s[m] \in Nat,
         NEW least \in Nat
  PROVE  /\ Greatest(t, s, least) \in Nat /\ least <= Greatest(t, s, least)
         /\ \/ Greatest(t, s, least) = least
            \/ \E m \in MemberTypes(t) : Greatest(t, s, least) = s[m]
         /\ \A m \in MemberTypes(t) : s[m] <= Greatest(t, s, least)
<1> DEFINE U == {s[m] : m \in MemberTypes(t)} \cup {least}
<1>1. PICK b \in Nat : \A m \in MemberTypes(t) : s[m] <= b
  BY MembersBounded
<1>2. U \subseteq Nat /\ U # {} /\ b + least \in Nat /\ \A x \in U : x <= b + least
  BY <1>1
<1>3. /\ least \in U /\ \A m \in MemberTypes(t) : s[m] \in U
      /\ \A x \in U : x = least \/ \E m \in MemberTypes(t) : x = s[m]
  OBVIOUS
<1>4. Greatest(t, s, least) = Max(U)
  BY DEF Greatest
<1> HIDE DEF U
<1>5. Max(U) \in U /\ \A x \in U : x <= Max(U)
  BY <1>2, MaxIs
<1> QED
  BY <1>2, <1>3, <1>4, <1>5

LEMMA GreatestSame ==
  ASSUME NEW t, NEW s, NEW u, \A m \in MemberTypes(t) : s[m] = u[m], NEW least
  PROVE  Greatest(t, s, least) = Greatest(t, u, least)
<1>1. {s[m] : m \in MemberTypes(t)} = {u[m] : m \in MemberTypes(t)}
  OBVIOUS
<1> QED
  BY <1>1 DEF Greatest

Aligns == {1, 2, 4, 8}

LEMMA RoundUpIs ==
  ASSUME NEW n \in Nat, NEW a \in Aligns
  PROVE  /\ RoundUp(n, a) \in Nat
         /\ \E q \in Nat : RoundUp(n, a) = q * a
         /\ \A q \in Nat : n = q * a => RoundUp(n, a) = n
<1>1. CASE a = 1
  BY <1>1 DEF RoundUp
<1>2. CASE a = 2
  BY <1>2 DEF RoundUp
<1>3. CASE a = 4
  BY <1>3 DEF RoundUp
<1>4. CASE a = 8
  BY <1>4 DEF RoundUp
<1> QED
  BY <1>1, <1>2, <1>3, <1>4 DEF Aligns

Before(n) == [k \in 0 .. n |-> IF k = 0 THEN {} ELSE {k - 1}]

LEMMA BeforeFounded ==
  ASSUME NEW n \in Nat
  PROVE  Founded(0 .. n, Before(n))
<1> DEFINE rank == [k \in 0 .. n |-> k]
<1>1. rank \in [0 .. n -> Nat] /\ n + 1 \in Nat
  OBVIOUS
<1>2. ASSUME NEW k \in 0 .. n
      PROVE  /\ rank[k] < n + 1
             /\ \A j \in Before(n)[k] : j \in 0 .. n /\ rank[j] < rank[k]
  <2>1. CASE k = 0
    BY <2>1 DEF Before
  <2>2. CASE k # 0
    BY <2>2 DEF Before
  <2> QED
    BY <2>1, <2>2
<1> HIDE DEF rank
<1> QED
  BY <1>1, <1>2 DEF Founded

(* One turn of the loops over the members. *)
SumTurn(t, s, f, k) == IF k = 0 THEN 0 ELSE f[k - 1] + s[t.members[k].type]

EndTurn(t, s, a, f, k) ==
  IF k = 0 THEN 0
  ELSE LET m == t.members[k].type IN RoundUp(f[k - 1], a[m]) + s[m]

LEMMA SumIs ==
  ASSUME NEW t, HasMembers(t), NEW s, \A m \in MemberTypes(t) : s[m] \in Nat
  PROVE  \E f \in [0 .. Len(t.members) -> Nat] :
           /\ \A k \in 0 .. Len(t.members) : f[k] = SumTurn(t, s, f, k)
           /\ Sum(t, s) = f[Len(t.members)]
<1> DEFINE n == Len(t.members)
           R == 0 .. n
           F == [f \in [R -> Nat] |-> [k \in R |-> SumTurn(t, s, f, k)]]
           sum[k \in 0 .. Len(t.members)] ==
             IF k = 0 THEN 0 ELSE sum[k - 1] + s[t.members[k].type]
<1>1. n \in Nat /\ \A k \in 1 .. n : s[t.members[k].type] \in Nat
  BY PlacesOfMembers
<1>2. ASSUME NEW k \in R, NEW f, k # 0 => f[k - 1] \in Nat
      PROVE  SumTurn(t, s, f, k) \in Nat
  <2>1. CASE k = 0
    BY <2>1 DEF SumTurn
  <2>2. CASE k # 0
    <3>1. s[t.members[k].type] \in Nat
      BY <1>1, <2>2
    <3> QED
      BY <1>2, <2>2, <3>1 DEF SumTurn
  <2> QED
    BY <2>1, <2>2
<1>3. F \in [[R -> Nat] -> [R -> Nat]]
  <2>1. \A k \in R : k # 0 => k - 1 \in R
    BY <1>1
  <2>2. \A f \in [R -> Nat] : \A k \in R : SumTurn(t, s, f, k) \in Nat
    BY <1>2, <2>1
  <2> HIDE DEF R
  <2> QED
    BY <2>2
<1>4. \A f, g \in [R -> Nat] : \A k \in R :
        (\A j \in Before(n)[k] : f[j] = g[j]) => F[f][k] = F[g][k]
  <2>1. \A k \in R : k # 0 => k - 1 \in Before(n)[k]
    BY DEF Before
  <2> HIDE DEF R
  <2> QED
    BY <2>1 DEF SumTurn
<1>5. \E f : f = [k \in R |-> SumTurn(t, s, f, k)]
  <2>1. \E f \in [R -> Nat] : f = F[f]
    <3>1. Founded(R, Before(n))
      BY <1>1, BeforeFounded
    <3>2. Nat # {}
      OBVIOUS
    <3>3. Computes(F, R, Before(n), Nat)
      BY <1>3, <1>4 DEF Computes
    <3> HIDE DEF F, R
    <3> QED
      BY <3>1, <3>2, <3>3, Solution
  <2> QED
    BY <2>1
<1>6. sum = CHOOSE f : f = [k \in R |-> SumTurn(t, s, f, k)]
  BY Zenon DEF SumTurn
<1> HIDE DEF sum
<1>7. sum = [k \in R |-> SumTurn(t, s, sum, k)]
  BY <1>5, <1>6, Zenon
<1>8. \A k \in R : sum[k] = SumTurn(t, s, sum, k)
  BY <1>7, Zenon
<1>9. \A k \in R : k \in {j \in R : sum[j] \in Nat}
  <2> DEFINE S == {j \in R : sum[j] \in Nat}
  <2>1. Founded(R, Before(n))
    BY <1>1, BeforeFounded
  <2>2. ASSUME NEW k \in R, \A j \in Before(n)[k] : j \in S PROVE k \in S
    <3>1. k # 0 => k - 1 \in Before(n)[k]
      BY DEF Before
    <3>2. k # 0 => sum[k - 1] \in Nat
      BY <2>2, <3>1
    <3>3. sum[k] \in Nat
      BY <1>2, <1>8, <3>2
    <3> QED
      BY <3>3
  <2>3. \A k \in R : k \in S
    <3> HIDE DEF S, R
    <3> QED
      BY <2>1, <2>2, Descent
  <2> QED
    BY <2>3
<1>10. sum \in [R -> Nat] /\ n \in R
  <2>1. n \in R
    BY <1>1
  <2>2. DOMAIN sum = R /\ sum = [k \in R |-> sum[k]]
    BY <1>7, <1>8
  <2> HIDE DEF R
  <2> QED
    BY <1>9, <2>1, <2>2
<1>11. Sum(t, s) = sum[n]
  BY Zenon DEF Sum, sum
<1> QED
  BY <1>8, <1>10, <1>11

LEMMA EndIs ==
  ASSUME NEW t, HasMembers(t), NEW s, \A m \in MemberTypes(t) : s[m] \in Nat,
         NEW a, \A m \in MemberTypes(t) : a[m] \in Aligns
  PROVE  \E f \in [0 .. Len(t.members) -> Nat] :
           /\ \A k \in 0 .. Len(t.members) : f[k] = EndTurn(t, s, a, f, k)
           /\ End(t, s, a) = f[Len(t.members)]
<1> DEFINE n == Len(t.members)
           R == 0 .. n
           F == [f \in [R -> Nat] |-> [k \in R |-> EndTurn(t, s, a, f, k)]]
           end[k \in 0 .. Len(t.members)] ==
             IF k = 0 THEN 0
             ELSE LET m == t.members[k].type
                  IN RoundUp(end[k - 1], a[m]) + s[m]
<1>1. /\ n \in Nat
      /\ \A k \in 1 .. n : s[t.members[k].type] \in Nat /\ a[t.members[k].type] \in Aligns
  BY PlacesOfMembers
<1>2. ASSUME NEW k \in R, NEW f, k # 0 => f[k - 1] \in Nat
      PROVE  EndTurn(t, s, a, f, k) \in Nat
  <2>1. CASE k = 0
    BY <2>1 DEF EndTurn
  <2>2. CASE k # 0
    <3> DEFINE m == t.members[k].type
    <3>1. s[m] \in Nat /\ a[m] \in Aligns /\ f[k - 1] \in Nat
      BY <1>1, <1>2, <2>2
    <3>2. RoundUp(f[k - 1], a[m]) \in Nat
      BY <3>1, RoundUpIs
    <3>3. EndTurn(t, s, a, f, k) = RoundUp(f[k - 1], a[m]) + s[m]
      BY <2>2 DEF EndTurn
    <3> HIDE DEF m
    <3> QED
      BY <3>1, <3>2, <3>3
  <2> QED
    BY <2>1, <2>2
<1>3. F \in [[R -> Nat] -> [R -> Nat]]
  <2>1. \A k \in R : k # 0 => k - 1 \in R
    BY <1>1
  <2>2. \A f \in [R -> Nat] : \A k \in R : EndTurn(t, s, a, f, k) \in Nat
    BY <1>2, <2>1
  <2> HIDE DEF R
  <2> QED
    BY <2>2
<1>4. \A f, g \in [R -> Nat] : \A k \in R :
        (\A j \in Before(n)[k] : f[j] = g[j]) => F[f][k] = F[g][k]
  <2>1. \A k \in R : k # 0 => k - 1 \in Before(n)[k]
    BY DEF Before
  <2> HIDE DEF R
  <2> QED
    BY <2>1 DEF EndTurn
<1>5. \E f : f = [k \in R |-> EndTurn(t, s, a, f, k)]
  <2>1. \E f \in [R -> Nat] : f = F[f]
    <3>1. Founded(R, Before(n))
      BY <1>1, BeforeFounded
    <3>2. Nat # {}
      OBVIOUS
    <3>3. Computes(F, R, Before(n), Nat)
      BY <1>3, <1>4 DEF Computes
    <3> HIDE DEF F, R
    <3> QED
      BY <3>1, <3>2, <3>3, Solution
  <2> QED
    BY <2>1
<1>6. end = CHOOSE f : f = [k \in R |-> EndTurn(t, s, a, f, k)]
  BY Zenon DEF EndTurn
<1> HIDE DEF end
<1>7. end = [k \in R |-> EndTurn(t, s, a, end, k)]
  BY <1>5, <1>6, Zenon
<1>8. \A k \in R : end[k] = EndTurn(t, s, a, end, k)
  BY <1>7, Zenon
<1>9. \A k \in R : k \in {j \in R : end[j] \in Nat}
  <2> DEFINE S == {j \in R : end[j] \in Nat}
  <2>1. Founded(R, Before(n))
    BY <1>1, BeforeFounded
  <2>2. ASSUME NEW k \in R, \A j \in Before(n)[k] : j \in S PROVE k \in S
    <3>1. k # 0 => k - 1 \in Before(n)[k]
      BY DEF Before
    <3>2. k # 0 => end[k - 1] \in Nat
      BY <2>2, <3>1
    <3>3. end[k] \in Nat
      BY <1>2, <1>8, <3>2
    <3> QED
      BY <3>3
  <2>3. \A k \in R : k \in S
    <3> HIDE DEF S, R
    <3> QED
      BY <2>1, <2>2, Descent
  <2> QED
    BY <2>3
<1>10. end \in [R -> Nat] /\ n \in R
  <2>1. n \in R
    BY <1>1
  <2>2. DOMAIN end = R /\ end = [k \in R |-> end[k]]
    BY <1>7, <1>8
  <2> HIDE DEF R
  <2> QED
    BY <1>9, <2>1, <2>2
<1>11. End(t, s, a) = end[n]
  BY Zenon DEF End, end
<1> QED
  BY <1>8, <1>10, <1>11

(* They depend on the sizes and alignments of members only. *)
LEMMA SumSame ==
  ASSUME NEW t, HasMembers(t), NEW s, NEW u,
         \A m \in MemberTypes(t) : s[m] \in Nat /\ u[m] = s[m]
  PROVE  Sum(t, u) = Sum(t, s)
<1> DEFINE n == Len(t.members)
           R == 0 .. n
<1>1. n \in Nat /\ \A k \in 1 .. n : t.members[k].type \in MemberTypes(t)
  BY PlacesOfMembers
<1>2. PICK f \in [R -> Nat] : /\ \A k \in R : f[k] = SumTurn(t, s, f, k)
                              /\ Sum(t, s) = f[n]
  BY SumIs
<1>3. PICK g \in [R -> Nat] : /\ \A k \in R : g[k] = SumTurn(t, u, g, k)
                              /\ Sum(t, u) = g[n]
  BY SumIs
<1> DEFINE S == {k \in R : f[k] = g[k]}
<1>4. ASSUME NEW k \in R, \A j \in Before(n)[k] : j \in S PROVE k \in S
  <2>1. k # 0 => k - 1 \in Before(n)[k] /\ k \in 1 .. n
    BY <1>1 DEF Before
  <2>2. k # 0 => f[k - 1] = g[k - 1] /\ u[t.members[k].type] = s[t.members[k].type]
    BY <1>1, <1>4, <2>1
  <2>3. SumTurn(t, s, f, k) = SumTurn(t, u, g, k)
    BY <2>2 DEF SumTurn
  <2> QED
    BY <1>2, <1>3, <2>3
<1>5. \A k \in R : k \in S
  <2>1. Founded(R, Before(n))
    BY <1>1, BeforeFounded
  <2> HIDE DEF S, R
  <2> QED
    BY <1>4, <2>1, Descent
<1>6. n \in R
  BY <1>1
<1> QED
  BY <1>2, <1>3, <1>5, <1>6

LEMMA EndSame ==
  ASSUME NEW t, HasMembers(t), NEW s, NEW u, NEW a, NEW b,
         \A m \in MemberTypes(t) : /\ s[m] \in Nat /\ u[m] = s[m]
                                   /\ a[m] \in Aligns /\ b[m] = a[m]
  PROVE  End(t, u, b) = End(t, s, a)
<1> DEFINE n == Len(t.members)
           R == 0 .. n
<1>1. n \in Nat /\ \A k \in 1 .. n : t.members[k].type \in MemberTypes(t)
  BY PlacesOfMembers
<1>2. PICK f \in [R -> Nat] : /\ \A k \in R : f[k] = EndTurn(t, s, a, f, k)
                              /\ End(t, s, a) = f[n]
  BY EndIs
<1>3. PICK g \in [R -> Nat] : /\ \A k \in R : g[k] = EndTurn(t, u, b, g, k)
                              /\ End(t, u, b) = g[n]
  BY EndIs
<1> DEFINE S == {k \in R : f[k] = g[k]}
<1>4. ASSUME NEW k \in R, \A j \in Before(n)[k] : j \in S PROVE k \in S
  <2>1. k # 0 => k - 1 \in Before(n)[k] /\ k \in 1 .. n
    BY <1>1 DEF Before
  <2>2. k # 0 => /\ f[k - 1] = g[k - 1] /\ u[t.members[k].type] = s[t.members[k].type]
                 /\ b[t.members[k].type] = a[t.members[k].type]
    BY <1>1, <1>4, <2>1
  <2>3. EndTurn(t, s, a, f, k) = EndTurn(t, u, b, g, k)
    BY <2>2 DEF EndTurn
  <2> QED
    BY <1>2, <1>3, <2>3
<1>5. \A k \in R : k \in S
  <2>1. Founded(R, Before(n))
    BY <1>1, BeforeFounded
  <2> HIDE DEF S, R
  <2> QED
    BY <1>4, <2>1, Descent
<1>6. n \in R
  BY <1>1
<1> QED
  BY <1>2, <1>3, <1>5, <1>6

LEMMA SumPositive ==
  ASSUME NEW t, HasMembers(t), t.members # <<>>, NEW s,
         \A m \in MemberTypes(t) : s[m] \in Nat /\ s[m] > 0
  PROVE  Sum(t, s) > 0
<1> DEFINE n == Len(t.members)
<1>1. /\ n \in Nat /\ n # 0 /\ n \in 1 .. n
      /\ s[t.members[n].type] \in Nat /\ s[t.members[n].type] > 0
  BY PlacesOfMembers
<1>2. PICK f \in [0 .. n -> Nat] : /\ \A k \in 0 .. n : f[k] = SumTurn(t, s, f, k)
                                   /\ Sum(t, s) = f[n]
  BY SumIs
<1>3. f[n] = f[n - 1] + s[t.members[n].type] /\ f[n - 1] \in Nat
  BY <1>1, <1>2 DEF SumTurn
<1> HIDE DEF n
<1> QED
  BY <1>1, <1>2, <1>3

-----------------------------------------------------------------------------
(* What a type is made of.  A union without members has the size of NULL, and
   others that of a member. *)

(* What the size of a type is computed from. *)
PartsOf(h) ==
  [i \in Refs(h) |->
     IF i = NULL THEN {}
     ELSE IF h[i].n > 0 THEN {h[i].to}
     ELSE IF h[i].ty \in {"STRUCT", "UNION"} THEN MemberTypes(h[i]) \cup {NULL}
     ELSE {}]

(* What a member, an element or an object may be. *)
Whole(h, i) ==
  /\ i \in 1 .. Len(h)
  /\ h[i].ty \in {"STRUCT", "UNION"} => h[i].members # <<>>
  /\ h[i].ty # "VOID"

(* Types are made of whole types, and no type, through others, of itself. *)
WellMade(h) ==
  /\ h \in Seq(TypeRecords)
  /\ \A i \in 1 .. Len(h) :
       /\ h[i].n > 0 => h[i].ty = "PTR"
       /\ \A j \in PartsOf(h)[i] : j = NULL \/ Whole(h, j)
  /\ Founded(Refs(h), PartsOf(h))

LEMMA PartsAre ==
  ASSUME NEW h, WellMade(h), NEW i \in Refs(h), i # NULL
  PROVE  /\ i \in 1 .. Len(h) /\ HasMembers(h[i])
         /\ h[i].n \in Nat /\ h[i].to \in Nat /\ h[i].ty \in Kinds
         /\ h[i].n > 0 => h[i].ty = "PTR" /\ h[i].to \in PartsOf(h)[i]
         /\ h[i].ty \in {"STRUCT", "UNION"} =>
              /\ ~(h[i].n > 0) /\ NULL \in PartsOf(h)[i]
              /\ \A m \in MemberTypes(h[i]) : m \in PartsOf(h)[i]
         /\ \A j \in PartsOf(h)[i] : j \in Refs(h)
<1>1. Len(h) \in Nat /\ i \in 1 .. Len(h)
  BY DEF WellMade, Refs, NULL
<1>2. h[i] \in TypeRecords
  BY <1>1 DEF WellMade
<1>3. /\ HasMembers(h[i]) /\ h[i].n \in Nat /\ h[i].to \in Nat /\ h[i].ty \in Kinds
  BY <1>2 DEF TypeRecords, HasMembers
<1>4. /\ h[i].n > 0 => h[i].ty = "PTR"
      /\ \A j \in PartsOf(h)[i] : j = NULL \/ j \in 1 .. Len(h)
  BY <1>1 DEF WellMade, Whole
<1>5. PartsOf(h)[i] = IF h[i].n > 0 THEN {h[i].to}
                      ELSE IF h[i].ty \in {"STRUCT", "UNION"}
                      THEN MemberTypes(h[i]) \cup {NULL} ELSE {}
  BY DEF PartsOf
<1>6. \A j \in PartsOf(h)[i] : j \in Refs(h)
  BY <1>1, <1>4 DEF Refs, NULL
<1> QED
  BY <1>1, <1>3, <1>4, <1>5, <1>6

LEMMA RefsFounded ==
  ASSUME NEW h, WellMade(h)
  PROVE  Founded(Refs(h), PartsOf(h))
  BY DEF WellMade

-----------------------------------------------------------------------------
(* What the recursive functions return: XOf reads the parts only, so that there
   is a function whose values are its. *)

LEMMA GreatestAlign ==
  ASSUME NEW t, HasMembers(t), NEW a, \A m \in MemberTypes(t) : a[m] \in Aligns
  PROVE  Greatest(t, a, 1) \in Aligns
<1>1. \A m \in MemberTypes(t) : a[m] \in Nat
  BY DEF Aligns
<1>2. Greatest(t, a, 1) = 1 \/ \E m \in MemberTypes(t) : Greatest(t, a, 1) = a[m]
  BY <1>1, GreatestIs
<1> QED
  BY <1>2 DEF Aligns

LEMMA AlignTyped ==
  ASSUME NEW h, WellMade(h), NEW i \in Refs(h),
         NEW a, \A j \in PartsOf(h)[i] : a[j] \in Aligns
  PROVE  TypeAlignOf(h, a, i) \in Aligns
<1>1. CASE i = NULL
  BY <1>1, 4 \in Aligns DEF TypeAlignOf, Aligns
<1>2. CASE i # NULL /\ h[i].ty \in {"STRUCT", "UNION"}
  <2> DEFINE g == Greatest(h[i], a, 1)
  <2>1. g \in Aligns
    BY <1>2, PartsAre, GreatestAlign
  <2>2. TypeAlignOf(h, a, i) = g
    BY <1>2 DEF TypeAlignOf
  <2> QED
    BY <2>1, <2>2
<1>3. CASE i # NULL /\ h[i].ty \notin {"STRUCT", "UNION"}
  <2>1. TypeAlignOf(h, a, i) \in {1, 4, 8}
    BY <1>3 DEF TypeAlignOf
  <2> QED
    BY <2>1 DEF Aligns
<1> QED
  BY <1>1, <1>2, <1>3

LEMMA AlignLocal ==
  ASSUME NEW h, WellMade(h), NEW i \in Refs(h),
         NEW a, NEW b, \A j \in PartsOf(h)[i] : a[j] = b[j]
  PROVE  TypeAlignOf(h, a, i) = TypeAlignOf(h, b, i)
<1>1. CASE i = NULL
  BY <1>1 DEF TypeAlignOf
<1>2. CASE i # NULL /\ h[i].ty \in {"STRUCT", "UNION"}
  <2>1. Greatest(h[i], a, 1) = Greatest(h[i], b, 1)
    BY <1>2, PartsAre, GreatestSame
  <2> QED
    BY <1>2, <2>1 DEF TypeAlignOf
<1>3. CASE i # NULL /\ h[i].ty \notin {"STRUCT", "UNION"}
  BY <1>3 DEF TypeAlignOf
<1> QED
  BY <1>1, <1>2, <1>3

LEMMA AlignIs ==
  ASSUME NEW h, WellMade(h)
  PROVE  /\ TypeAlign(h) \in [Refs(h) -> Aligns]
         /\ \A i \in Refs(h) : TypeAlign(h)[i] = TypeAlignOf(h, TypeAlign(h), i)
<1> DEFINE R == Refs(h)
           P == PartsOf(h)
           V == Aligns
           F == [g \in [R -> V] |-> [i \in R |-> TypeAlignOf(h, g, i)]]
           f == TypeAlign(h)
           S == {i \in R : f[i] \in V}
<1>1. Founded(R, P) /\ V # {} /\ \A i \in R : \A j \in P[i] : j \in R
  <2>1. Founded(R, P) /\ \A i \in R : \A j \in P[i] : j \in R
    BY RefsFounded DEF Founded
  <2>2. V # {}
    BY DEF Aligns
  <2> QED
    BY <2>1, <2>2
<1>2. Computes(F, R, P, V)
  <2>1. \A g \in [R -> V] : \A i \in R : \A j \in P[i] : g[j] \in V
    BY <1>1
  <2>2. \A g \in [R -> V] : \A i \in R : TypeAlignOf(h, g, i) \in V
    BY <2>1, AlignTyped
  <2>3. \A g, k \in [R -> V] : \A i \in R :
          (\A j \in P[i] : g[j] = k[j]) => TypeAlignOf(h, g, i) = TypeAlignOf(h, k, i)
    BY <2>1, AlignLocal
  <2> HIDE DEF R, P, V
  <2> QED
    BY <2>2, <2>3 DEF Computes
<1>3. \E g : g = [i \in R |-> TypeAlignOf(h, g, i)]
  <2>1. \E g \in [R -> V] : g = F[g]
    <3> HIDE DEF R, P, V, F
    <3> QED
      BY <1>1, <1>2, Solution
  <2> QED
    BY <2>1
<1>4. f = [i \in R |-> TypeAlignOf(h, f, i)]
  <2>1. f = CHOOSE g : g = [i \in R |-> TypeAlignOf(h, g, i)]
    BY DEF TypeAlign
  <2> HIDE DEF f
  <2> QED
    BY <1>3, <2>1, Zenon
<1> HIDE DEF f
<1>5. DOMAIN f = R /\ f = [i \in R |-> f[i]]
      /\ \A i \in R : f[i] = TypeAlignOf(h, f, i)
  BY <1>4
<1>6. \A i \in R : i \in S
  <2>1. ASSUME NEW i \in R, \A j \in P[i] : j \in S PROVE i \in S
    <3>1. TypeAlignOf(h, f, i) \in V
      BY <2>1, AlignTyped
    <3> QED
      BY <1>5, <3>1
  <2>2. \A i \in R : i \in S
    <3> HIDE DEF S, R, P
    <3> QED
      BY <1>1, <2>1, Descent
  <2> QED
    BY <2>2
<1>7. f \in [R -> V]
  BY <1>5, <1>6
<1> QED
  BY <1>5, <1>7 DEF f

Positive == Nat \ {0}

LEMMA Products ==
  ASSUME NEW x \in Nat, NEW n \in Nat
  PROVE  x * n \in Nat /\ (x > 0 /\ n > 0 => x * n > 0)
  OBVIOUS

LEMMA CodegenTyped ==
  ASSUME NEW h, WellMade(h), NEW i \in Refs(h),
         NEW s, \A j \in PartsOf(h)[i] : s[j] \in Positive
  PROVE  CodegenTypeSizeOf(h, s, i) \in Positive
<1>1. CASE i = NULL
  BY <1>1, 4 \in Positive DEF CodegenTypeSizeOf, Positive
<1>2. CASE i # NULL /\ h[i].n > 0
  <2>1. s[h[i].to] \in Positive /\ h[i].n \in Nat
    BY <1>2, PartsAre
  <2>2. s[h[i].to] \in Nat /\ s[h[i].to] > 0
    BY <2>1 DEF Positive
  <2>3. s[h[i].to] * h[i].n \in Nat /\ s[h[i].to] * h[i].n > 0
    BY <1>2, <2>1, <2>2, Products
  <2>4. CodegenTypeSizeOf(h, s, i) = s[h[i].to] * h[i].n
    BY <1>2 DEF CodegenTypeSizeOf
  <2> QED
    BY <2>3, <2>4 DEF Positive
<1>3. CASE i # NULL /\ ~(h[i].n > 0) /\ h[i].ty \in {"STRUCT", "UNION"}
  <2>1. HasMembers(h[i]) /\ \A m \in MemberTypes(h[i]) : s[m] \in Nat
    BY <1>3, PartsAre DEF Positive
  <2>2. Sum(h[i], s) \in Nat
    <3>1. Len(h[i].members) \in 0 .. Len(h[i].members)
      BY <2>1, PlacesOfMembers
    <3> QED
      BY <2>1, <3>1, SumIs
  <2>3. Greatest(h[i], s, 1) \in Nat /\ 1 <= Greatest(h[i], s, 1)
    BY <2>1, 1 \in Nat, GreatestIs
  <2>4. \/ CodegenTypeSizeOf(h, s, i) = IF Sum(h[i], s) > 0 THEN Sum(h[i], s) ELSE 1
        \/ CodegenTypeSizeOf(h, s, i) = Greatest(h[i], s, 1)
    BY <1>3 DEF CodegenTypeSizeOf
  <2> QED
    BY <2>2, <2>3, <2>4 DEF Positive
<1>4. CASE i # NULL /\ ~(h[i].n > 0) /\ h[i].ty \notin {"STRUCT", "UNION"}
  <2>1. CodegenTypeSizeOf(h, s, i) \in {1, 2, 4, 8}
    BY <1>4 DEF CodegenTypeSizeOf
  <2> QED
    BY <2>1 DEF Positive
<1> QED
  BY <1>1, <1>2, <1>3, <1>4

LEMMA CodegenLocal ==
  ASSUME NEW h, WellMade(h), NEW i \in Refs(h),
         NEW s, NEW u, \A j \in PartsOf(h)[i] : s[j] = u[j],
         \A j \in PartsOf(h)[i] : s[j] \in Positive
  PROVE  CodegenTypeSizeOf(h, s, i) = CodegenTypeSizeOf(h, u, i)
<1>1. CASE i = NULL
  BY <1>1 DEF CodegenTypeSizeOf
<1>2. CASE i # NULL /\ h[i].n > 0
  <2>1. s[h[i].to] = u[h[i].to]
    BY <1>2, PartsAre
  <2> QED
    BY <1>2, <2>1 DEF CodegenTypeSizeOf
<1>3. CASE i # NULL /\ ~(h[i].n > 0) /\ h[i].ty \in {"STRUCT", "UNION"}
  <2>1. /\ HasMembers(h[i])
        /\ \A m \in MemberTypes(h[i]) : s[m] \in Nat /\ u[m] = s[m]
    BY <1>3, PartsAre DEF Positive
  <2>2. Sum(h[i], s) = Sum(h[i], u) /\ Greatest(h[i], s, 1) = Greatest(h[i], u, 1)
    BY <2>1, SumSame, GreatestSame
  <2> QED
    BY <1>3, <2>2 DEF CodegenTypeSizeOf
<1>4. CASE i # NULL /\ ~(h[i].n > 0) /\ h[i].ty \notin {"STRUCT", "UNION"}
  BY <1>4 DEF CodegenTypeSizeOf
<1> QED
  BY <1>1, <1>2, <1>3, <1>4

LEMMA CodegenIs ==
  ASSUME NEW h, WellMade(h)
  PROVE  /\ CodegenTypeSize(h) \in [Refs(h) -> Positive]
         /\ \A i \in Refs(h) : CodegenTypeSize(h)[i] = CodegenTypeSizeOf(h, CodegenTypeSize(h), i)
<1> DEFINE R == Refs(h)
           P == PartsOf(h)
           V == Positive
           F == [g \in [R -> V] |-> [i \in R |-> CodegenTypeSizeOf(h, g, i)]]
           f == CodegenTypeSize(h)
           S == {i \in R : f[i] \in V}
<1>1. Founded(R, P) /\ V # {} /\ \A i \in R : \A j \in P[i] : j \in R
  <2>1. Founded(R, P) /\ \A i \in R : \A j \in P[i] : j \in R
    BY RefsFounded DEF Founded
  <2>2. V # {}
    BY 1 \in Positive DEF Positive
  <2> QED
    BY <2>1, <2>2
<1>2. Computes(F, R, P, V)
  <2>1. \A g \in [R -> V] : \A i \in R : \A j \in P[i] : g[j] \in V
    BY <1>1
  <2>2. \A g \in [R -> V] : \A i \in R : CodegenTypeSizeOf(h, g, i) \in V
    BY <2>1, CodegenTyped
  <2>3. \A g, k \in [R -> V] : \A i \in R :
          (\A j \in P[i] : g[j] = k[j]) => CodegenTypeSizeOf(h, g, i) = CodegenTypeSizeOf(h, k, i)
    BY <2>1, CodegenLocal
  <2> HIDE DEF R, P, V
  <2> QED
    BY <2>2, <2>3 DEF Computes
<1>3. \E g : g = [i \in R |-> CodegenTypeSizeOf(h, g, i)]
  <2>1. \E g \in [R -> V] : g = F[g]
    <3> HIDE DEF R, P, V, F
    <3> QED
      BY <1>1, <1>2, Solution
  <2> QED
    BY <2>1
<1>4. f = [i \in R |-> CodegenTypeSizeOf(h, f, i)]
  <2>1. f = CHOOSE g : g = [i \in R |-> CodegenTypeSizeOf(h, g, i)]
    BY DEF CodegenTypeSize
  <2> HIDE DEF f
  <2> QED
    BY <1>3, <2>1, Zenon
<1> HIDE DEF f
<1>5. DOMAIN f = R /\ f = [i \in R |-> f[i]]
      /\ \A i \in R : f[i] = CodegenTypeSizeOf(h, f, i)
  BY <1>4
<1>6. \A i \in R : i \in S
  <2>1. ASSUME NEW i \in R, \A j \in P[i] : j \in S PROVE i \in S
    <3>1. CodegenTypeSizeOf(h, f, i) \in V
      BY <2>1, CodegenTyped
    <3> QED
      BY <1>5, <3>1
  <2>2. \A i \in R : i \in S
    <3> HIDE DEF S, R, P
    <3> QED
      BY <1>1, <2>1, Descent
  <2> QED
    BY <2>2
<1>7. f \in [R -> V]
  BY <1>5, <1>6
<1> QED
  BY <1>5, <1>7 DEF f

(* The first of the greatest members is one of them and no smaller than any. *)
LEMMA LargestIs ==
  ASSUME NEW h, WellMade(h), NEW i \in Refs(h), i # NULL,
         h[i].ty \in {"STRUCT", "UNION"}
  PROVE  /\ Largest(h, h[i]) \in PartsOf(h)[i]
         /\ h[i].members # <<>> =>
              /\ Largest(h, h[i]) \in MemberTypes(h[i])
              /\ \A m \in MemberTypes(h[i]) :
                    CodegenTypeSize(h)[m] <= CodegenTypeSize(h)[Largest(h, h[i])]
<1> DEFINE t == h[i]
           s == CodegenTypeSize(h)
           K == DOMAIN t.members
           Z(k) == s[t.members[k].type]
           Right(k) == /\ \A j \in K : ~(Z(j) > Z(k))
                       /\ \A j \in 1 .. k - 1 : Z(k) > Z(j)
<1>1. /\ HasMembers(t) /\ NULL \in PartsOf(h)[i]
      /\ \A m \in MemberTypes(t) : m \in PartsOf(h)[i] /\ m \in Refs(h)
  BY PartsAre
<1>2. \A m \in MemberTypes(t) : s[m] \in Nat
  BY <1>1, CodegenIs DEF Positive
<1>3. CASE t.members = <<>>
  <2>1. Largest(h, t) = NULL
    BY <1>3 DEF Largest
  <2> QED
    BY <1>1, <1>3, <2>1
<1>4. CASE t.members # <<>>
  <2>1. /\ Len(t.members) \in Nat /\ K = 1 .. Len(t.members) /\ Len(t.members) # 0
        /\ \A k \in K : t.members[k].type \in MemberTypes(t)
        /\ \A m \in MemberTypes(t) : \E k \in K : m = t.members[k].type
    BY <1>1, <1>4, PlacesOfMembers
  <2>2. \A k \in K : Z(k) \in Nat
    BY <1>2, <2>1
  <2>3. PICK b \in K : \A j \in K : Z(j) <= Z(b)
    <3> DEFINE g == Greatest(t, s, 0)
    <3>1. /\ g \in Nat /\ (g = 0 \/ \E m \in MemberTypes(t) : g = s[m])
          /\ \A m \in MemberTypes(t) : s[m] <= g
      BY <1>1, <1>2, 0 \in Nat, GreatestIs
    <3> HIDE DEF g
    <3>2. \A k \in K : Z(k) <= g
      BY <2>1, <3>1
    <3>3. \E k \in K : Z(k) = g
      <4>1. CASE g = 0
        <5>1. 1 \in K
          BY <2>1
        <5> QED
          BY <2>2, <3>2, <4>1, <5>1
      <4>2. CASE \E m \in MemberTypes(t) : g = s[m]
        BY <2>1, <4>2
      <4> QED
        BY <3>1, <4>1, <4>2
    <3> QED
      BY <3>2, <3>3
  <2> DEFINE T == {k \in K : Z(k) = Z(b)}
  <2>4. PICK k \in T : \A y \in T : k <= y
    <3>1. T \subseteq Nat /\ T # {}
      BY <2>1
    <3> HIDE DEF T
    <3> QED
      BY <3>1, Least
  <2>5. k \in K /\ Z(k) = Z(b)
    BY <2>4
  <2>6. ASSUME NEW j \in 1 .. k - 1 PROVE Z(k) > Z(j)
    <3>1. j \in K /\ ~(k <= j)
      BY <2>1, <2>5
    <3>2. j \notin T
      <4> HIDE DEF T
      <4> QED
        BY <2>4, <3>1
    <3>3. Z(j) # Z(b) /\ Z(j) <= Z(b) /\ Z(j) \in Nat /\ Z(b) \in Nat
      BY <2>2, <2>3, <3>1, <3>2
    <3> HIDE DEF Z
    <3> QED
      BY <2>5, <3>3
  <2>7. \A j \in K : ~(Z(j) > Z(k))
    <3> HIDE DEF Z, K, T
    <3> QED
      BY <2>2, <2>3, <2>5
  <2>8. \E c \in K : Right(c)
    <3>1. Right(k)
      BY <2>6, <2>7
    <3> HIDE DEF Right
    <3> QED
      BY <2>5, <3>1
  <2> DEFINE c == CHOOSE c \in K : Right(c)
  <2>9. c \in K /\ Right(c)
    <3> HIDE DEF Right, K
    <3> QED
      BY <2>8
  <2>10. Largest(h, t) = t.members[c].type
    BY <1>4 DEF Largest
  <2> HIDE DEF c
  <2>11. Largest(h, t) \in MemberTypes(t)
    BY <2>1, <2>9, <2>10
  <2>12. \A m \in MemberTypes(t) : s[m] <= s[Largest(h, t)]
    <3> SUFFICES ASSUME NEW m \in MemberTypes(t) PROVE s[m] <= s[Largest(h, t)]
      OBVIOUS
    <3>1. PICK j \in K : m = t.members[j].type
      BY <2>1
    <3>2. ~(Z(j) > Z(c)) /\ Z(j) \in Nat /\ Z(c) \in Nat
      BY <2>2, <2>9
    <3>3. Z(j) = s[m] /\ Z(c) = s[Largest(h, t)]
      BY <2>10, <3>1
    <3> HIDE DEF Z
    <3> QED
      BY <3>2, <3>3
  <2> QED
    BY <1>1, <2>11, <2>12
<1> QED
  BY <1>3, <1>4

LEMMA LLVMAlignTyped ==
  ASSUME NEW h, WellMade(h), NEW i \in Refs(h),
         NEW a, \A j \in PartsOf(h)[i] : a[j] \in Aligns
  PROVE  LLVMAlignOf(h, a, i) \in Aligns
<1>1. CASE i = NULL
  BY <1>1, 4 \in Aligns DEF LLVMAlignOf, Aligns
<1>2. CASE i # NULL /\ h[i].n > 0
  <2>1. a[h[i].to] \in Aligns
    BY <1>2, PartsAre
  <2> QED
    BY <1>2, <2>1 DEF LLVMAlignOf
<1>3. CASE i # NULL /\ ~(h[i].n > 0) /\ h[i].ty \in {"STRUCT", "UNION"}
  <2>1. Greatest(h[i], a, 1) \in Aligns /\ a[Largest(h, h[i])] \in Aligns
    BY <1>3, PartsAre, GreatestAlign, LargestIs
  <2>2. \/ LLVMAlignOf(h, a, i) = Greatest(h[i], a, 1)
        \/ LLVMAlignOf(h, a, i) = a[Largest(h, h[i])]
    BY <1>3 DEF LLVMAlignOf
  <2> QED
    BY <2>1, <2>2
<1>4. CASE i # NULL /\ ~(h[i].n > 0) /\ h[i].ty \notin {"STRUCT", "UNION"}
  <2>1. LLVMAlignOf(h, a, i) \in {1, 2, 4, 8}
    BY <1>4 DEF LLVMAlignOf
  <2> QED
    BY <2>1 DEF Aligns
<1> QED
  BY <1>1, <1>2, <1>3, <1>4

LEMMA LLVMAlignLocal ==
  ASSUME NEW h, WellMade(h), NEW i \in Refs(h),
         NEW a, NEW b, \A j \in PartsOf(h)[i] : a[j] = b[j]
  PROVE  LLVMAlignOf(h, a, i) = LLVMAlignOf(h, b, i)
<1>1. CASE i = NULL
  BY <1>1 DEF LLVMAlignOf
<1>2. CASE i # NULL /\ h[i].n > 0
  <2>1. a[h[i].to] = b[h[i].to]
    BY <1>2, PartsAre
  <2> QED
    BY <1>2, <2>1 DEF LLVMAlignOf
<1>3. CASE i # NULL /\ ~(h[i].n > 0) /\ h[i].ty \in {"STRUCT", "UNION"}
  <2>1. /\ Greatest(h[i], a, 1) = Greatest(h[i], b, 1)
        /\ a[Largest(h, h[i])] = b[Largest(h, h[i])]
    BY <1>3, PartsAre, GreatestSame, LargestIs
  <2> QED
    BY <1>3, <2>1 DEF LLVMAlignOf
<1>4. CASE i # NULL /\ ~(h[i].n > 0) /\ h[i].ty \notin {"STRUCT", "UNION"}
  BY <1>4 DEF LLVMAlignOf
<1> QED
  BY <1>1, <1>2, <1>3, <1>4

LEMMA LLVMAlignIs ==
  ASSUME NEW h, WellMade(h)
  PROVE  /\ LLVMAlign(h) \in [Refs(h) -> Aligns]
         /\ \A i \in Refs(h) : LLVMAlign(h)[i] = LLVMAlignOf(h, LLVMAlign(h), i)
<1> DEFINE R == Refs(h)
           P == PartsOf(h)
           V == Aligns
           F == [g \in [R -> V] |-> [i \in R |-> LLVMAlignOf(h, g, i)]]
           f == LLVMAlign(h)
           S == {i \in R : f[i] \in V}
<1>1. Founded(R, P) /\ V # {} /\ \A i \in R : \A j \in P[i] : j \in R
  <2>1. Founded(R, P) /\ \A i \in R : \A j \in P[i] : j \in R
    BY RefsFounded DEF Founded
  <2>2. V # {}
    BY DEF Aligns
  <2> QED
    BY <2>1, <2>2
<1>2. Computes(F, R, P, V)
  <2>1. \A g \in [R -> V] : \A i \in R : \A j \in P[i] : g[j] \in V
    BY <1>1
  <2>2. \A g \in [R -> V] : \A i \in R : LLVMAlignOf(h, g, i) \in V
    BY <2>1, LLVMAlignTyped
  <2>3. \A g, k \in [R -> V] : \A i \in R :
          (\A j \in P[i] : g[j] = k[j]) => LLVMAlignOf(h, g, i) = LLVMAlignOf(h, k, i)
    BY <2>1, LLVMAlignLocal
  <2> HIDE DEF R, P, V
  <2> QED
    BY <2>2, <2>3 DEF Computes
<1>3. \E g : g = [i \in R |-> LLVMAlignOf(h, g, i)]
  <2>1. \E g \in [R -> V] : g = F[g]
    <3> HIDE DEF R, P, V, F
    <3> QED
      BY <1>1, <1>2, Solution
  <2> QED
    BY <2>1
<1>4. f = [i \in R |-> LLVMAlignOf(h, f, i)]
  <2>1. f = CHOOSE g : g = [i \in R |-> LLVMAlignOf(h, g, i)]
    BY DEF LLVMAlign
  <2> HIDE DEF f
  <2> QED
    BY <1>3, <2>1, Zenon
<1> HIDE DEF f
<1>5. DOMAIN f = R /\ f = [i \in R |-> f[i]]
      /\ \A i \in R : f[i] = LLVMAlignOf(h, f, i)
  BY <1>4
<1>6. \A i \in R : i \in S
  <2>1. ASSUME NEW i \in R, \A j \in P[i] : j \in S PROVE i \in S
    <3>1. LLVMAlignOf(h, f, i) \in V
      BY <2>1, LLVMAlignTyped
    <3> QED
      BY <1>5, <3>1
  <2>2. \A i \in R : i \in S
    <3> HIDE DEF S, R, P
    <3> QED
      BY <1>1, <2>1, Descent
  <2> QED
    BY <2>2
<1>7. f \in [R -> V]
  BY <1>5, <1>6
<1> QED
  BY <1>5, <1>7 DEF f

LEMMA SizeTyped ==
  ASSUME NEW h, WellMade(h), NEW i \in Refs(h),
         NEW s, \A j \in PartsOf(h)[i] : s[j] \in Nat
  PROVE  TypeSizeOf(h, s, i) \in Nat
<1>1. CASE i = NULL
  BY <1>1 DEF TypeSizeOf
<1>2. CASE i # NULL /\ h[i].n > 0
  <2>1. s[h[i].to] \in Nat /\ h[i].n \in Nat
    BY <1>2, PartsAre
  <2>2. s[h[i].to] * h[i].n \in Nat
    BY <2>1, Products
  <2>3. TypeSizeOf(h, s, i) = s[h[i].to] * h[i].n
    BY <1>2 DEF TypeSizeOf
  <2> QED
    BY <2>2, <2>3
<1>3. CASE i # NULL /\ ~(h[i].n > 0) /\ h[i].ty \in {"STRUCT", "UNION"}
  <2>1. /\ HasMembers(h[i])
        /\ \A m \in MemberTypes(h[i]) : s[m] \in Nat /\ TypeAlign(h)[m] \in Aligns
    BY <1>3, PartsAre, AlignIs
  <2>2. Greatest(h[i], TypeAlign(h), 1) \in Aligns
    BY <2>1, GreatestAlign
  <2>3. StructSize(h[i], s, TypeAlign(h)) \in Nat
    <3>1. Len(h[i].members) \in 0 .. Len(h[i].members)
      BY <2>1, PlacesOfMembers
    <3>2. End(h[i], s, TypeAlign(h)) \in Nat
      BY <2>1, <3>1, EndIs
    <3> QED
      BY <2>2, <3>2, RoundUpIs DEF StructSize
  <2>4. UnionSize(h[i], s, TypeAlign(h)) \in Nat
    <3>1. Greatest(h[i], s, 0) \in Nat
      BY <2>1, 0 \in Nat, GreatestIs
    <3> QED
      BY <2>2, <3>1, RoundUpIs DEF UnionSize
  <2>5. \/ TypeSizeOf(h, s, i) = StructSize(h[i], s, TypeAlign(h))
        \/ TypeSizeOf(h, s, i) = UnionSize(h[i], s, TypeAlign(h))
    BY <1>3 DEF TypeSizeOf
  <2> QED
    BY <2>3, <2>4, <2>5
<1>4. CASE i # NULL /\ ~(h[i].n > 0) /\ h[i].ty \notin {"STRUCT", "UNION"}
  <2>1. TypeSizeOf(h, s, i) \in {1, 2, 4, 8}
    BY <1>4 DEF TypeSizeOf
  <2> QED
    BY <2>1
<1> QED
  BY <1>1, <1>2, <1>3, <1>4

LEMMA SizeLocal ==
  ASSUME NEW h, WellMade(h), NEW i \in Refs(h),
         NEW s, NEW u, \A j \in PartsOf(h)[i] : s[j] = u[j],
         \A j \in PartsOf(h)[i] : s[j] \in Nat
  PROVE  TypeSizeOf(h, s, i) = TypeSizeOf(h, u, i)
<1>1. CASE i = NULL
  BY <1>1 DEF TypeSizeOf
<1>2. CASE i # NULL /\ h[i].n > 0
  <2>1. s[h[i].to] = u[h[i].to]
    BY <1>2, PartsAre
  <2> QED
    BY <1>2, <2>1 DEF TypeSizeOf
<1>3. CASE i # NULL /\ ~(h[i].n > 0) /\ h[i].ty \in {"STRUCT", "UNION"}
  <2>1. /\ HasMembers(h[i])
        /\ \A m \in MemberTypes(h[i]) :
             s[m] \in Nat /\ u[m] = s[m] /\ TypeAlign(h)[m] \in Aligns
    BY <1>3, PartsAre, AlignIs
  <2>2. StructSize(h[i], s, TypeAlign(h)) = StructSize(h[i], u, TypeAlign(h))
    BY <2>1, EndSame DEF StructSize
  <2>3. UnionSize(h[i], s, TypeAlign(h)) = UnionSize(h[i], u, TypeAlign(h))
    BY <2>1, GreatestSame DEF UnionSize
  <2> QED
    BY <1>3, <2>2, <2>3 DEF TypeSizeOf
<1>4. CASE i # NULL /\ ~(h[i].n > 0) /\ h[i].ty \notin {"STRUCT", "UNION"}
  BY <1>4 DEF TypeSizeOf
<1> QED
  BY <1>1, <1>2, <1>3, <1>4

LEMMA SizeIs ==
  ASSUME NEW h, WellMade(h)
  PROVE  /\ TypeSize(h) \in [Refs(h) -> Nat]
         /\ \A i \in Refs(h) : TypeSize(h)[i] = TypeSizeOf(h, TypeSize(h), i)
<1> DEFINE R == Refs(h)
           P == PartsOf(h)
           V == Nat
           F == [g \in [R -> V] |-> [i \in R |-> TypeSizeOf(h, g, i)]]
           f == TypeSize(h)
           S == {i \in R : f[i] \in V}
<1>1. Founded(R, P) /\ V # {} /\ \A i \in R : \A j \in P[i] : j \in R
  <2>1. Founded(R, P) /\ \A i \in R : \A j \in P[i] : j \in R
    BY RefsFounded DEF Founded
  <2>2. V # {}
    OBVIOUS
  <2> QED
    BY <2>1, <2>2
<1>2. Computes(F, R, P, V)
  <2>1. \A g \in [R -> V] : \A i \in R : \A j \in P[i] : g[j] \in V
    BY <1>1
  <2>2. \A g \in [R -> V] : \A i \in R : TypeSizeOf(h, g, i) \in V
    BY <2>1, SizeTyped
  <2>3. \A g, k \in [R -> V] : \A i \in R :
          (\A j \in P[i] : g[j] = k[j]) => TypeSizeOf(h, g, i) = TypeSizeOf(h, k, i)
    BY <2>1, SizeLocal
  <2> HIDE DEF R, P, V
  <2> QED
    BY <2>2, <2>3 DEF Computes
<1>3. \E g : g = [i \in R |-> TypeSizeOf(h, g, i)]
  <2>1. \E g \in [R -> V] : g = F[g]
    <3> HIDE DEF R, P, V, F
    <3> QED
      BY <1>1, <1>2, Solution
  <2> QED
    BY <2>1
<1>4. f = [i \in R |-> TypeSizeOf(h, f, i)]
  <2>1. f = CHOOSE g : g = [i \in R |-> TypeSizeOf(h, g, i)]
    BY DEF TypeSize
  <2> HIDE DEF f
  <2> QED
    BY <1>3, <2>1, Zenon
<1> HIDE DEF f
<1>5. DOMAIN f = R /\ f = [i \in R |-> f[i]]
      /\ \A i \in R : f[i] = TypeSizeOf(h, f, i)
  BY <1>4
<1>6. \A i \in R : i \in S
  <2>1. ASSUME NEW i \in R, \A j \in P[i] : j \in S PROVE i \in S
    <3>1. TypeSizeOf(h, f, i) \in V
      BY <2>1, SizeTyped
    <3> QED
      BY <1>5, <3>1
  <2>2. \A i \in R : i \in S
    <3> HIDE DEF S, R, P
    <3> QED
      BY <1>1, <2>1, Descent
  <2> QED
    BY <2>2
<1>7. f \in [R -> V]
  BY <1>5, <1>6
<1> QED
  BY <1>5, <1>7 DEF f

LEMMA LLVMSizeTyped ==
  ASSUME NEW h, WellMade(h), NEW i \in Refs(h),
         NEW s, \A j \in PartsOf(h)[i] : s[j] \in Nat
  PROVE  LLVMSizeOf(h, s, i) \in Nat
<1>1. CASE i = NULL
  BY <1>1 DEF LLVMSizeOf
<1>2. CASE i # NULL /\ h[i].n > 0
  <2>1. s[h[i].to] \in Nat /\ h[i].n \in Nat
    BY <1>2, PartsAre
  <2>2. s[h[i].to] * h[i].n \in Nat
    BY <2>1, Products
  <2>3. LLVMSizeOf(h, s, i) = s[h[i].to] * h[i].n
    BY <1>2 DEF LLVMSizeOf
  <2> QED
    BY <2>2, <2>3
<1>3. CASE i # NULL /\ ~(h[i].n > 0) /\ h[i].ty \in {"STRUCT", "UNION"}
  <2>1. /\ HasMembers(h[i])
        /\ \A m \in MemberTypes(h[i]) : s[m] \in Nat /\ LLVMAlign(h)[m] \in Aligns
    BY <1>3, PartsAre, LLVMAlignIs
  <2>2. Greatest(h[i], LLVMAlign(h), 1) \in Aligns
    BY <2>1, GreatestAlign
  <2>3. LLVMStructSize(h[i], s, LLVMAlign(h)) \in Nat
    <3>1. Len(h[i].members) \in 0 .. Len(h[i].members)
      BY <2>1, PlacesOfMembers
    <3>2. End(h[i], s, LLVMAlign(h)) \in Nat
      BY <2>1, <3>1, EndIs
    <3> QED
      BY <2>2, <3>2, RoundUpIs DEF LLVMStructSize
  <2>4. s[Largest(h, h[i])] \in Nat
    BY <1>3, LargestIs
  <2>5. \/ LLVMSizeOf(h, s, i) = LLVMStructSize(h[i], s, LLVMAlign(h))
        \/ LLVMSizeOf(h, s, i) = s[Largest(h, h[i])]
    BY <1>3 DEF LLVMSizeOf
  <2> QED
    BY <2>3, <2>4, <2>5
<1>4. CASE i # NULL /\ ~(h[i].n > 0) /\ h[i].ty \notin {"STRUCT", "UNION"}
  <2>1. LLVMSizeOf(h, s, i) \in {1, 2, 4, 8}
    BY <1>4 DEF LLVMSizeOf
  <2> QED
    BY <2>1
<1> QED
  BY <1>1, <1>2, <1>3, <1>4

LEMMA LLVMSizeLocal ==
  ASSUME NEW h, WellMade(h), NEW i \in Refs(h),
         NEW s, NEW u, \A j \in PartsOf(h)[i] : s[j] = u[j],
         \A j \in PartsOf(h)[i] : s[j] \in Nat
  PROVE  LLVMSizeOf(h, s, i) = LLVMSizeOf(h, u, i)
<1>1. CASE i = NULL
  BY <1>1 DEF LLVMSizeOf
<1>2. CASE i # NULL /\ h[i].n > 0
  <2>1. s[h[i].to] = u[h[i].to]
    BY <1>2, PartsAre
  <2> QED
    BY <1>2, <2>1 DEF LLVMSizeOf
<1>3. CASE i # NULL /\ ~(h[i].n > 0) /\ h[i].ty \in {"STRUCT", "UNION"}
  <2>1. /\ HasMembers(h[i])
        /\ \A m \in MemberTypes(h[i]) :
             s[m] \in Nat /\ u[m] = s[m] /\ LLVMAlign(h)[m] \in Aligns
    BY <1>3, PartsAre, LLVMAlignIs
  <2>2. LLVMStructSize(h[i], s, LLVMAlign(h)) = LLVMStructSize(h[i], u, LLVMAlign(h))
    BY <2>1, EndSame DEF LLVMStructSize
  <2>3. s[Largest(h, h[i])] = u[Largest(h, h[i])]
    BY <1>3, LargestIs
  <2> QED
    BY <1>3, <2>2, <2>3 DEF LLVMSizeOf
<1>4. CASE i # NULL /\ ~(h[i].n > 0) /\ h[i].ty \notin {"STRUCT", "UNION"}
  BY <1>4 DEF LLVMSizeOf
<1> QED
  BY <1>1, <1>2, <1>3, <1>4

LEMMA LLVMSizeIs ==
  ASSUME NEW h, WellMade(h)
  PROVE  /\ LLVMSize(h) \in [Refs(h) -> Nat]
         /\ \A i \in Refs(h) : LLVMSize(h)[i] = LLVMSizeOf(h, LLVMSize(h), i)
<1> DEFINE R == Refs(h)
           P == PartsOf(h)
           V == Nat
           F == [g \in [R -> V] |-> [i \in R |-> LLVMSizeOf(h, g, i)]]
           f == LLVMSize(h)
           S == {i \in R : f[i] \in V}
<1>1. Founded(R, P) /\ V # {} /\ \A i \in R : \A j \in P[i] : j \in R
  <2>1. Founded(R, P) /\ \A i \in R : \A j \in P[i] : j \in R
    BY RefsFounded DEF Founded
  <2>2. V # {}
    OBVIOUS
  <2> QED
    BY <2>1, <2>2
<1>2. Computes(F, R, P, V)
  <2>1. \A g \in [R -> V] : \A i \in R : \A j \in P[i] : g[j] \in V
    BY <1>1
  <2>2. \A g \in [R -> V] : \A i \in R : LLVMSizeOf(h, g, i) \in V
    BY <2>1, LLVMSizeTyped
  <2>3. \A g, k \in [R -> V] : \A i \in R :
          (\A j \in P[i] : g[j] = k[j]) => LLVMSizeOf(h, g, i) = LLVMSizeOf(h, k, i)
    BY <2>1, LLVMSizeLocal
  <2> HIDE DEF R, P, V
  <2> QED
    BY <2>2, <2>3 DEF Computes
<1>3. \E g : g = [i \in R |-> LLVMSizeOf(h, g, i)]
  <2>1. \E g \in [R -> V] : g = F[g]
    <3> HIDE DEF R, P, V, F
    <3> QED
      BY <1>1, <1>2, Solution
  <2> QED
    BY <2>1
<1>4. f = [i \in R |-> LLVMSizeOf(h, f, i)]
  <2>1. f = CHOOSE g : g = [i \in R |-> LLVMSizeOf(h, g, i)]
    BY DEF LLVMSize
  <2> HIDE DEF f
  <2> QED
    BY <1>3, <2>1, Zenon
<1> HIDE DEF f
<1>5. DOMAIN f = R /\ f = [i \in R |-> f[i]]
      /\ \A i \in R : f[i] = LLVMSizeOf(h, f, i)
  BY <1>4
<1>6. \A i \in R : i \in S
  <2>1. ASSUME NEW i \in R, \A j \in P[i] : j \in S PROVE i \in S
    <3>1. LLVMSizeOf(h, f, i) \in V
      BY <2>1, LLVMSizeTyped
    <3> QED
      BY <1>5, <3>1
  <2>2. \A i \in R : i \in S
    <3> HIDE DEF S, R, P
    <3> QED
      BY <1>1, <2>1, Descent
  <2> QED
    BY <2>2
<1>7. f \in [R -> V]
  BY <1>5, <1>6
<1> QED
  BY <1>5, <1>7 DEF f

LEMMA PackedTyped ==
  ASSUME NEW h, WellMade(h), NEW i \in Refs(h),
         NEW p, \A j \in PartsOf(h)[i] : p[j] \in BOOLEAN
  PROVE  PackedOf(h, p, i) \in BOOLEAN
<1>1. CASE i # NULL /\ h[i].n > 0
  <2>1. p[h[i].to] \in BOOLEAN
    BY <1>1, PartsAre
  <2> QED
    BY <1>1, <2>1 DEF PackedOf
<1>2. CASE i = NULL \/ ~(h[i].n > 0)
  BY <1>2 DEF PackedOf
<1> QED
  BY <1>1, <1>2

LEMMA PackedLocal ==
  ASSUME NEW h, WellMade(h), NEW i \in Refs(h),
         NEW p, NEW q, \A j \in PartsOf(h)[i] : p[j] = q[j]
  PROVE  PackedOf(h, p, i) = PackedOf(h, q, i)
<1>1. CASE i = NULL
  BY <1>1 DEF PackedOf
<1>2. CASE i # NULL /\ h[i].n > 0
  <2>1. p[h[i].to] = q[h[i].to]
    BY <1>2, PartsAre
  <2> QED
    BY <1>2, <2>1 DEF PackedOf
<1>3. CASE i # NULL /\ ~(h[i].n > 0)
  <2>1. h[i].ty \in {"STRUCT", "UNION"} => \A m \in MemberTypes(h[i]) : p[m] = q[m]
    BY <1>3, PartsAre
  <2>2. (h[i].ty \in {"STRUCT", "UNION"} => \A m \in MemberTypes(h[i]) : p[m])
        <=> (h[i].ty \in {"STRUCT", "UNION"} => \A m \in MemberTypes(h[i]) : q[m])
    BY <2>1
  <2> QED
    BY <1>3, <2>2 DEF PackedOf
<1> QED
  BY <1>1, <1>2, <1>3

LEMMA PackedIs ==
  ASSUME NEW h, WellMade(h)
  PROVE  /\ Packed(h) \in [Refs(h) -> BOOLEAN]
         /\ \A i \in Refs(h) : Packed(h)[i] = PackedOf(h, Packed(h), i)
<1> DEFINE R == Refs(h)
           P == PartsOf(h)
           V == BOOLEAN
           F == [g \in [R -> V] |-> [i \in R |-> PackedOf(h, g, i)]]
           f == Packed(h)
           S == {i \in R : f[i] \in V}
<1>1. Founded(R, P) /\ V # {} /\ \A i \in R : \A j \in P[i] : j \in R
  <2>1. Founded(R, P) /\ \A i \in R : \A j \in P[i] : j \in R
    BY RefsFounded DEF Founded
  <2>2. V # {}
    OBVIOUS
  <2> QED
    BY <2>1, <2>2
<1>2. Computes(F, R, P, V)
  <2>1. \A g \in [R -> V] : \A i \in R : \A j \in P[i] : g[j] \in V
    BY <1>1
  <2>2. \A g \in [R -> V] : \A i \in R : PackedOf(h, g, i) \in V
    BY <2>1, PackedTyped
  <2>3. \A g, k \in [R -> V] : \A i \in R :
          (\A j \in P[i] : g[j] = k[j]) => PackedOf(h, g, i) = PackedOf(h, k, i)
    BY <2>1, PackedLocal
  <2> HIDE DEF R, P, V
  <2> QED
    BY <2>2, <2>3 DEF Computes
<1>3. \E g : g = [i \in R |-> PackedOf(h, g, i)]
  <2>1. \E g \in [R -> V] : g = F[g]
    <3> HIDE DEF R, P, V, F
    <3> QED
      BY <1>1, <1>2, Solution
  <2> QED
    BY <2>1
<1>4. f = [i \in R |-> PackedOf(h, f, i)]
  <2>1. f = CHOOSE g : g = [i \in R |-> PackedOf(h, g, i)]
    BY DEF Packed
  <2> HIDE DEF f
  <2> QED
    BY <1>3, <2>1, Zenon
<1> HIDE DEF f
<1>5. DOMAIN f = R /\ f = [i \in R |-> f[i]]
      /\ \A i \in R : f[i] = PackedOf(h, f, i)
  BY <1>4
<1>6. \A i \in R : i \in S
  <2>1. ASSUME NEW i \in R, \A j \in P[i] : j \in S PROVE i \in S
    <3>1. PackedOf(h, f, i) \in V
      BY <2>1, PackedTyped
    <3> QED
      BY <1>5, <3>1
  <2>2. \A i \in R : i \in S
    <3> HIDE DEF S, R, P
    <3> QED
      BY <1>1, <2>1, Descent
  <2> QED
    BY <2>2
<1>7. f \in [R -> V]
  BY <1>5, <1>6
<1> QED
  BY <1>5, <1>7 DEF f

LEMMA RegularTyped ==
  ASSUME NEW h, WellMade(h), NEW i \in Refs(h),
         NEW r, \A j \in PartsOf(h)[i] : r[j] \in BOOLEAN
  PROVE  RegularOf(h, r, i) \in BOOLEAN
  BY DEF RegularOf

LEMMA RegularLocal ==
  ASSUME NEW h, WellMade(h), NEW i \in Refs(h),
         NEW r, NEW q, \A j \in PartsOf(h)[i] : r[j] = q[j]
  PROVE  RegularOf(h, r, i) = RegularOf(h, q, i)
<1>1. CASE i = NULL
  BY <1>1 DEF RegularOf
<1>2. CASE i # NULL /\ h[i].n > 0
  <2>1. r[h[i].to] = q[h[i].to]
    BY <1>2, PartsAre
  <2> QED
    BY <1>2, <2>1 DEF RegularOf
<1>3. CASE i # NULL /\ ~(h[i].n > 0)
  <2>1. h[i].ty \in {"STRUCT", "UNION"} => \A m \in MemberTypes(h[i]) : r[m] = q[m]
    BY <1>3, PartsAre
  <2>2. (h[i].ty \in {"STRUCT", "UNION"} =>
           h[i].members # <<>> /\ \A m \in MemberTypes(h[i]) : r[m])
        <=> (h[i].ty \in {"STRUCT", "UNION"} =>
              h[i].members # <<>> /\ \A m \in MemberTypes(h[i]) : q[m])
    BY <2>1
  <2> QED
    BY <1>3, <2>2 DEF RegularOf
<1> QED
  BY <1>1, <1>2, <1>3

LEMMA RegularIs ==
  ASSUME NEW h, WellMade(h)
  PROVE  /\ Regular(h) \in [Refs(h) -> BOOLEAN]
         /\ \A i \in Refs(h) : Regular(h)[i] = RegularOf(h, Regular(h), i)
<1> DEFINE R == Refs(h)
           P == PartsOf(h)
           V == BOOLEAN
           F == [g \in [R -> V] |-> [i \in R |-> RegularOf(h, g, i)]]
           f == Regular(h)
           S == {i \in R : f[i] \in V}
<1>1. Founded(R, P) /\ V # {} /\ \A i \in R : \A j \in P[i] : j \in R
  <2>1. Founded(R, P) /\ \A i \in R : \A j \in P[i] : j \in R
    BY RefsFounded DEF Founded
  <2>2. V # {}
    OBVIOUS
  <2> QED
    BY <2>1, <2>2
<1>2. Computes(F, R, P, V)
  <2>1. \A g \in [R -> V] : \A i \in R : \A j \in P[i] : g[j] \in V
    BY <1>1
  <2>2. \A g \in [R -> V] : \A i \in R : RegularOf(h, g, i) \in V
    BY <2>1, RegularTyped
  <2>3. \A g, k \in [R -> V] : \A i \in R :
          (\A j \in P[i] : g[j] = k[j]) => RegularOf(h, g, i) = RegularOf(h, k, i)
    BY <2>1, RegularLocal
  <2> HIDE DEF R, P, V
  <2> QED
    BY <2>2, <2>3 DEF Computes
<1>3. \E g : g = [i \in R |-> RegularOf(h, g, i)]
  <2>1. \E g \in [R -> V] : g = F[g]
    <3> HIDE DEF R, P, V, F
    <3> QED
      BY <1>1, <1>2, Solution
  <2> QED
    BY <2>1
<1>4. f = [i \in R |-> RegularOf(h, f, i)]
  <2>1. f = CHOOSE g : g = [i \in R |-> RegularOf(h, g, i)]
    BY DEF Regular
  <2> HIDE DEF f
  <2> QED
    BY <1>3, <2>1, Zenon
<1> HIDE DEF f
<1>5. DOMAIN f = R /\ f = [i \in R |-> f[i]]
      /\ \A i \in R : f[i] = RegularOf(h, f, i)
  BY <1>4
<1>6. \A i \in R : i \in S
  <2>1. ASSUME NEW i \in R, \A j \in P[i] : j \in S PROVE i \in S
    <3>1. RegularOf(h, f, i) \in V
      BY <2>1, RegularTyped
    <3> QED
      BY <1>5, <3>1
  <2>2. \A i \in R : i \in S
    <3> HIDE DEF S, R, P
    <3> QED
      BY <1>1, <2>1, Descent
  <2> QED
    BY <2>2
<1>7. f \in [R -> V]
  BY <1>5, <1>6
<1> QED
  BY <1>5, <1>7 DEF f

LEMMA WithoutTyped ==
  ASSUME NEW h, WellMade(h), NEW U, NEW i \in Refs(h),
         NEW w, \A j \in PartsOf(h)[i] : w[j] \in BOOLEAN
  PROVE  WithoutOf(h, U, w, i) \in BOOLEAN
  BY DEF WithoutOf

LEMMA WithoutLocal ==
  ASSUME NEW h, WellMade(h), NEW U, NEW i \in Refs(h),
         NEW w, NEW v, \A j \in PartsOf(h)[i] : w[j] = v[j]
  PROVE  WithoutOf(h, U, w, i) = WithoutOf(h, U, v, i)
<1>1. CASE i = NULL
  BY <1>1 DEF WithoutOf
<1>2. CASE i # NULL
  <2>1. h[i].n > 0 => w[h[i].to] = v[h[i].to]
    BY <1>2, PartsAre
  <2>2. h[i].ty \in {"STRUCT", "UNION"} => \A m \in MemberTypes(h[i]) : w[m] = v[m]
    BY <1>2, PartsAre
  <2>3. (h[i].ty \in {"STRUCT", "UNION"} => \A m \in MemberTypes(h[i]) : w[m])
        <=> (h[i].ty \in {"STRUCT", "UNION"} => \A m \in MemberTypes(h[i]) : v[m])
    BY <2>2
  <2> QED
    BY <1>2, <2>1, <2>3 DEF WithoutOf
<1> QED
  BY <1>1, <1>2

LEMMA WithoutIs ==
  ASSUME NEW h, WellMade(h), NEW U
  PROVE  /\ Without(h, U) \in [Refs(h) -> BOOLEAN]
         /\ \A i \in Refs(h) : Without(h, U)[i] = WithoutOf(h, U, Without(h, U), i)
<1> DEFINE R == Refs(h)
           P == PartsOf(h)
           V == BOOLEAN
           F == [g \in [R -> V] |-> [i \in R |-> WithoutOf(h, U, g, i)]]
           f == Without(h, U)
           S == {i \in R : f[i] \in V}
<1>1. Founded(R, P) /\ V # {} /\ \A i \in R : \A j \in P[i] : j \in R
  <2>1. Founded(R, P) /\ \A i \in R : \A j \in P[i] : j \in R
    BY RefsFounded DEF Founded
  <2>2. V # {}
    OBVIOUS
  <2> QED
    BY <2>1, <2>2
<1>2. Computes(F, R, P, V)
  <2>1. \A g \in [R -> V] : \A i \in R : \A j \in P[i] : g[j] \in V
    BY <1>1
  <2>2. \A g \in [R -> V] : \A i \in R : WithoutOf(h, U, g, i) \in V
    BY <2>1, WithoutTyped
  <2>3. \A g, k \in [R -> V] : \A i \in R :
          (\A j \in P[i] : g[j] = k[j]) => WithoutOf(h, U, g, i) = WithoutOf(h, U, k, i)
    BY <2>1, WithoutLocal
  <2> HIDE DEF R, P, V
  <2> QED
    BY <2>2, <2>3 DEF Computes
<1>3. \E g : g = [i \in R |-> WithoutOf(h, U, g, i)]
  <2>1. \E g \in [R -> V] : g = F[g]
    <3> HIDE DEF R, P, V, F
    <3> QED
      BY <1>1, <1>2, Solution
  <2> QED
    BY <2>1
<1>4. f = [i \in R |-> WithoutOf(h, U, f, i)]
  <2>1. f = CHOOSE g : g = [i \in R |-> WithoutOf(h, U, g, i)]
    BY DEF Without
  <2> HIDE DEF f
  <2> QED
    BY <1>3, <2>1, Zenon
<1> HIDE DEF f
<1>5. DOMAIN f = R /\ f = [i \in R |-> f[i]]
      /\ \A i \in R : f[i] = WithoutOf(h, U, f, i)
  BY <1>4
<1>6. \A i \in R : i \in S
  <2>1. ASSUME NEW i \in R, \A j \in P[i] : j \in S PROVE i \in S
    <3>1. WithoutOf(h, U, f, i) \in V
      BY <2>1, WithoutTyped
    <3> QED
      BY <1>5, <3>1
  <2>2. \A i \in R : i \in S
    <3> HIDE DEF S, R, P
    <3> QED
      BY <1>1, <2>1, Descent
  <2> QED
    BY <2>2
<1>7. f \in [R -> V]
  BY <1>5, <1>6
<1> QED
  BY <1>5, <1>7 DEF f

-----------------------------------------------------------------------------
(* How the sizes compare *)

LEMMA PartsAreWhole ==
  ASSUME NEW h, WellMade(h), NEW i \in Refs(h), i # NULL, NEW j \in PartsOf(h)[i]
  PROVE  j \in Refs(h) /\ (j = NULL \/ Whole(h, j))
  BY PartsAre DEF WellMade

(* Without padding, what codegen_type_size adds up is the size. *)
LEMMA PackedSizes ==
  ASSUME NEW h, WellMade(h)
  PROVE  \A i \in Refs(h) : Packed(h)[i] /\ (i = NULL \/ Whole(h, i)) =>
           LLVMSize(h)[i] = CodegenTypeSize(h)[i]
<1> DEFINE s == LLVMSize(h)
           c == CodegenTypeSize(h)
           p == Packed(h)
           Fits(i) == p[i] /\ (i = NULL \/ Whole(h, i))
           S == {i \in Refs(h) : Fits(i) => s[i] = c[i]}
<1>1. /\ \A i \in Refs(h) : s[i] \in Nat /\ c[i] \in Nat /\ c[i] > 0
      /\ \A i \in Refs(h) : s[i] = LLVMSizeOf(h, s, i)
      /\ \A i \in Refs(h) : c[i] = CodegenTypeSizeOf(h, c, i)
      /\ \A i \in Refs(h) : p[i] = PackedOf(h, p, i)
  BY LLVMSizeIs, CodegenIs, PackedIs DEF Positive
<1> HIDE DEF s, c, p
<1>2. ASSUME NEW i \in Refs(h), \A j \in PartsOf(h)[i] : j \in S PROVE i \in S
  <2> SUFFICES ASSUME p[i], i = NULL \/ Whole(h, i) PROVE s[i] = c[i]
    OBVIOUS
  <2>1. ASSUME i # NULL, NEW j \in PartsOf(h)[i], p[j]
        PROVE  s[j] = c[j] /\ s[j] \in Nat /\ c[j] \in Nat /\ c[j] > 0
    BY <1>1, <1>2, <2>1, PartsAreWhole
  <2> HIDE DEF S
  <2>2. CASE i = NULL
    BY <1>1, <2>2 DEF LLVMSizeOf, CodegenTypeSizeOf
  <2>3. CASE i # NULL /\ h[i].n > 0
    <3>1. p[h[i].to] /\ h[i].to \in PartsOf(h)[i]
      BY <1>1, <2>3, PartsAre DEF PackedOf
    <3>2. s[h[i].to] = c[h[i].to]
      BY <2>1, <2>3, <3>1
    <3>3. s[i] = s[h[i].to] * h[i].n /\ c[i] = c[h[i].to] * h[i].n
      BY <1>1, <2>3 DEF LLVMSizeOf, CodegenTypeSizeOf
    <3> QED
      BY <3>2, <3>3
  <2>4. CASE i # NULL /\ ~(h[i].n > 0) /\ h[i].ty \in {"STRUCT", "UNION"}
    <3>1. \A m \in MemberTypes(h[i]) : p[m]
      BY <1>1, <2>4 DEF PackedOf
    <3>2. \A m \in MemberTypes(h[i]) :
            s[m] = c[m] /\ s[m] \in Nat /\ c[m] \in Nat /\ c[m] > 0
      BY <2>1, <2>4, <3>1, PartsAre
    <3>3. HasMembers(h[i]) /\ h[i].members # <<>>
      BY <2>4, PartsAre DEF Whole
    <3>4. CASE h[i].ty = "STRUCT"
      <4>1. s[i] = Sum(h[i], s)
        BY <1>1, <2>4, <3>4 DEF PackedOf, s
      <4>2. Sum(h[i], s) = Sum(h[i], c) /\ Sum(h[i], c) > 0
        BY <3>2, <3>3, SumSame, SumPositive
      <4>3. c[i] = IF Sum(h[i], c) > 0 THEN Sum(h[i], c) ELSE 1
        BY <1>1, <2>4, <3>4 DEF CodegenTypeSizeOf
      <4> QED
        BY <4>1, <4>2, <4>3
    <3>5. CASE h[i].ty = "UNION"
      <4> DEFINE L == Largest(h, h[i])
                 g == Greatest(h[i], c, 1)
      <4>1. s[i] = s[L] /\ c[i] = g
        BY <1>1, <2>4, <3>5 DEF LLVMSizeOf, CodegenTypeSizeOf
      <4>2. L \in MemberTypes(h[i]) /\ \A m \in MemberTypes(h[i]) : c[m] <= c[L]
        BY <2>4, <3>3, LargestIs DEF c
      <4>3. /\ g \in Nat /\ (g = 1 \/ \E m \in MemberTypes(h[i]) : g = c[m])
            /\ \A m \in MemberTypes(h[i]) : c[m] <= g
        BY <3>2, <3>3, 1 \in Nat, GreatestIs
      <4> HIDE DEF L, g
      <4>4. g <= c[L]
        BY <3>2, <4>2, <4>3
      <4>5. c[L] <= g /\ s[L] = c[L] /\ c[L] \in Nat
        BY <3>2, <4>2, <4>3
      <4>6. g \in Nat
        BY <4>3
      <4>7. c[L] = g
        BY <4>4, <4>5, <4>6
      <4> QED
        BY <4>1, <4>5, <4>7
    <3> QED
      BY <2>4, <3>4, <3>5
  <2>5. CASE i # NULL /\ ~(h[i].n > 0) /\ h[i].ty \notin {"STRUCT", "UNION"}
    BY <1>1, <2>5 DEF LLVMSizeOf, CodegenTypeSizeOf
  <2> QED
    BY <2>2, <2>3, <2>4, <2>5
<1>3. \A i \in Refs(h) : i \in S
  <2> HIDE DEF S
  <2> QED
    BY <1>2, RefsFounded, Descent
<1> QED
  BY <1>3 DEF s, c, p

(* A size is a multiple of the alignment. *)
LEMMA Multiples ==
  ASSUME NEW h, WellMade(h)
  PROVE  \A i \in Refs(h) : \E q \in Nat : LLVMSize(h)[i] = q * LLVMAlign(h)[i]
<1> DEFINE s == LLVMSize(h)
           a == LLVMAlign(h)
           S == {i \in Refs(h) : \E q \in Nat : s[i] = q * a[i]}
<1>1. /\ \A i \in Refs(h) : s[i] \in Nat /\ a[i] \in Aligns
      /\ \A i \in Refs(h) : s[i] = LLVMSizeOf(h, s, i)
      /\ \A i \in Refs(h) : a[i] = LLVMAlignOf(h, a, i)
  BY LLVMSizeIs, LLVMAlignIs
<1> HIDE DEF s, a
<1>2. ASSUME NEW i \in Refs(h), \A j \in PartsOf(h)[i] : j \in S PROVE i \in S
  <2> SUFFICES \E q \in Nat : s[i] = q * a[i]
    OBVIOUS
  <2>1. \A j \in PartsOf(h)[i] : \E q \in Nat : s[j] = q * a[j]
    BY <1>2
  <2> HIDE DEF S
  <2>2. CASE i = NULL
    <3>1. s[i] = 4 /\ a[i] = 4
      BY <1>1, <2>2 DEF LLVMSizeOf, LLVMAlignOf
    <3>2. s[i] = 1 * a[i]
      BY <3>1
    <3> QED
      BY <3>2
  <2>3. CASE i # NULL /\ h[i].n > 0
    <3> DEFINE j == h[i].to
               n == h[i].n
    <3>1. j \in PartsOf(h)[i] /\ n \in Nat /\ j \in Refs(h)
      BY <2>3, PartsAre
    <3>2. PICK q \in Nat : s[j] = q * a[j]
      BY <2>1, <3>1
    <3>3. s[i] = s[j] * n /\ a[i] = a[j] /\ a[j] \in Aligns
      BY <1>1, <2>3, <3>1 DEF LLVMSizeOf, LLVMAlignOf
    <3> HIDE DEF j, n
    <3>4. q * n \in Nat
      BY <3>1, Products
    <3>5. a[j] = 1 \/ a[j] = 2 \/ a[j] = 4 \/ a[j] = 8
      BY <3>3 DEF Aligns
    <3>6. s[i] = (q * n) * a[i]
      BY <3>1, <3>2, <3>3, <3>5
    <3> QED
      BY <3>4, <3>6
  <2>4. CASE i # NULL /\ ~(h[i].n > 0) /\ h[i].ty = "STRUCT"
    <3> DEFINE e == End(h[i], s, a)
               g == Greatest(h[i], a, 1)
    <3>1. /\ HasMembers(h[i])
          /\ \A m \in MemberTypes(h[i]) : s[m] \in Nat /\ a[m] \in Aligns
      BY <1>1, <2>4, PartsAre
    <3>2. e \in Nat
      <4>1. Len(h[i].members) \in 0 .. Len(h[i].members)
        BY <3>1, PlacesOfMembers
      <4> QED
        BY <3>1, <4>1, EndIs
    <3>3. g \in Aligns
      BY <3>1, GreatestAlign
    <3>4. s[i] = RoundUp(e, g)
      BY <1>1, <2>4 DEF LLVMSizeOf, LLVMStructSize, a
    <3>5. a[i] = g
      BY <1>1, <2>4 DEF LLVMAlignOf
    <3> QED
      BY <3>2, <3>3, <3>4, <3>5, RoundUpIs
  <2>5. CASE i # NULL /\ ~(h[i].n > 0) /\ h[i].ty = "UNION"
    <3>1. Largest(h, h[i]) \in PartsOf(h)[i]
      BY <2>5, LargestIs
    <3>2. s[i] = s[Largest(h, h[i])] /\ a[i] = a[Largest(h, h[i])]
      BY <1>1, <2>5 DEF LLVMSizeOf, LLVMAlignOf
    <3> QED
      BY <2>1, <3>1, <3>2
  <2>6. CASE i # NULL /\ ~(h[i].n > 0) /\ h[i].ty \notin {"STRUCT", "UNION"}
    <3>1. s[i] = a[i] /\ a[i] \in Nat
      BY <1>1, <2>6 DEF LLVMSizeOf, LLVMAlignOf, Aligns
    <3>2. s[i] = 1 * a[i]
      BY <3>1
    <3> QED
      BY <3>2
  <2> QED
    BY <2>2, <2>3, <2>4, <2>5, <2>6
<1>3. \A i \in Refs(h) : i \in S
  <2> HIDE DEF S
  <2> QED
    BY <1>2, RefsFounded, Descent
<1> QED
  BY <1>3 DEF s, a

(* What type_size and type_align say of a type they were written for. *)
LEMMA RegularSizes ==
  ASSUME NEW h, WellMade(h)
  PROVE  \A i \in Refs(h) : Regular(h)[i] =>
           TypeSize(h)[i] = LLVMSize(h)[i] /\ TypeAlign(h)[i] = LLVMAlign(h)[i]
<1> DEFINE s == TypeSize(h)
           a == TypeAlign(h)
           u == LLVMSize(h)
           b == LLVMAlign(h)
           r == Regular(h)
           S == {i \in Refs(h) : r[i] => s[i] = u[i] /\ a[i] = b[i]}
<1>1. /\ \A i \in Refs(h) : s[i] \in Nat /\ a[i] \in Aligns
      /\ \A i \in Refs(h) : u[i] \in Nat /\ b[i] \in Aligns
      /\ \A i \in Refs(h) : s[i] = TypeSizeOf(h, s, i)
      /\ \A i \in Refs(h) : a[i] = TypeAlignOf(h, a, i)
      /\ \A i \in Refs(h) : u[i] = LLVMSizeOf(h, u, i)
      /\ \A i \in Refs(h) : b[i] = LLVMAlignOf(h, b, i)
      /\ \A i \in Refs(h) : r[i] = RegularOf(h, r, i)
  BY SizeIs, AlignIs, LLVMSizeIs, LLVMAlignIs, RegularIs
<1> HIDE DEF s, a, u, b, r
<1>2. ASSUME NEW i \in Refs(h), \A j \in PartsOf(h)[i] : j \in S PROVE i \in S
  <2> SUFFICES ASSUME r[i] PROVE s[i] = u[i] /\ a[i] = b[i]
    OBVIOUS
  <2>1. \A j \in PartsOf(h)[i] : r[j] => s[j] = u[j] /\ a[j] = b[j]
    BY <1>2
  <2> HIDE DEF S
  <2>2. CASE i = NULL
    BY <1>1, <2>2 DEF TypeSizeOf, TypeAlignOf, LLVMSizeOf, LLVMAlignOf
  <2>3. CASE i # NULL /\ h[i].n > 0
    <3>1. h[i].to \in PartsOf(h)[i] /\ h[i].ty = "PTR"
      BY <2>3, PartsAre
    <3>2. r[h[i].to] /\ b[h[i].to] = 8
      BY <1>1, <2>3 DEF RegularOf, b
    <3>3. s[i] = s[h[i].to] * h[i].n /\ u[i] = u[h[i].to] * h[i].n
      BY <1>1, <2>3 DEF TypeSizeOf, LLVMSizeOf
    <3>4. a[i] = 8 /\ b[i] = b[h[i].to]
      BY <1>1, <2>3, <3>1 DEF TypeAlignOf, LLVMAlignOf
    <3>5. s[h[i].to] = u[h[i].to]
      BY <2>1, <3>1, <3>2
    <3> QED
      BY <3>2, <3>3, <3>4, <3>5
  <2>4. CASE i # NULL /\ ~(h[i].n > 0) /\ h[i].ty \in {"STRUCT", "UNION"}
    <3> DEFINE t == h[i]
    <3>1. t.members # <<>> /\ \A m \in MemberTypes(t) : r[m]
      BY <1>1, <2>4 DEF RegularOf
    <3>2. /\ HasMembers(t)
          /\ \A m \in MemberTypes(t) : m \in PartsOf(h)[i] /\ m \in Refs(h)
      BY <2>4, PartsAre
    <3>3. \A m \in MemberTypes(t) :
            /\ s[m] = u[m] /\ a[m] = b[m]
            /\ s[m] \in Nat /\ u[m] \in Nat /\ a[m] \in Aligns /\ b[m] \in Aligns
      BY <1>1, <2>1, <3>1, <3>2
    <3>4. Greatest(t, a, 1) = Greatest(t, b, 1) /\ a[i] = Greatest(t, a, 1)
      BY <1>1, <2>4, <3>3, GreatestSame DEF TypeAlignOf
    <3>5. CASE t.ty = "STRUCT"
      <4>1. s[i] = StructSize(t, s, a) /\ u[i] = LLVMStructSize(t, u, b)
        BY <1>1, <2>4, <3>5 DEF TypeSizeOf, LLVMSizeOf, a, b
      <4>2. End(t, s, a) = End(t, u, b)
        BY <3>2, <3>3, EndSame
      <4>3. b[i] = Greatest(t, b, 1)
        BY <1>1, <2>4, <3>5 DEF LLVMAlignOf
      <4> QED
        BY <3>4, <4>1, <4>2, <4>3 DEF StructSize, LLVMStructSize
    <3>6. CASE t.ty = "UNION"
      <4> DEFINE L == Largest(h, t)
                 c == CodegenTypeSize(h)
                 g == Greatest(t, s, 0)
                 w == Greatest(t, a, 1)
      <4>1. \A m \in MemberTypes(t) : Packed(h)[m] /\ b[m] = b[i]
        BY <1>1, <2>4, <3>6 DEF RegularOf, b
      <4>2. \A m \in MemberTypes(t) : u[m] = c[m]
        BY <2>4, <3>2, <4>1, PackedSizes, PartsAreWhole DEF u
      <4>3. L \in MemberTypes(t) /\ \A m \in MemberTypes(t) : c[m] <= c[L]
        BY <2>4, <3>1, LargestIs
      <4>4. s[i] = UnionSize(t, s, a) /\ u[i] = u[L] /\ b[i] = b[L]
        BY <1>1, <2>4, <3>6 DEF TypeSizeOf, LLVMSizeOf, LLVMAlignOf, a
      <4>5. /\ g \in Nat /\ (g = 0 \/ \E m \in MemberTypes(t) : g = s[m])
            /\ \A m \in MemberTypes(t) : s[m] <= g
        BY <3>2, <3>3, 0 \in Nat, GreatestIs
      <4>6. PICK q \in Nat : u[L] = q * b[L]
        BY <3>2, <4>3, Multiples DEF u, b
      <4> HIDE DEF L, c, g
      <4>7. g = u[L]
        <5>1. \A m \in MemberTypes(t) : s[m] <= u[L]
          BY <3>3, <4>2, <4>3
        <5>2. g <= u[L]
          <6>1. u[L] \in Nat
            BY <3>3, <4>3
          <6> QED
            BY <4>5, <5>1, <6>1
        <5>3. u[L] <= g /\ u[L] \in Nat /\ g \in Nat
          BY <3>3, <4>3, <4>5
        <5> QED
          BY <5>2, <5>3
      <4>8. w = b[L]
        <5>1. /\ w \in Nat /\ 1 <= w
              /\ w = 1 \/ \E m \in MemberTypes(t) : w = a[m]
              /\ \A m \in MemberTypes(t) : a[m] <= w
          <6>1. \A m \in MemberTypes(t) : a[m] \in Nat
            BY <3>3 DEF Aligns
          <6> QED
            BY <3>2, <6>1, 1 \in Nat, GreatestIs
        <5> HIDE DEF w
        <5>2. \A m \in MemberTypes(t) : a[m] = b[L]
          BY <3>3, <4>1, <4>3
        <5>3. b[L] <= w /\ b[L] \in Aligns
          BY <3>3, <4>3, <5>1, <5>2
        <5>4. w = 1 => w = b[L]
          BY <5>3 DEF Aligns
        <5> QED
          BY <5>1, <5>2, <5>4
      <4>9. s[i] = RoundUp(g, w)
        BY <4>4 DEF UnionSize, g
      <4> HIDE DEF w
      <4>10. RoundUp(g, w) = g
        BY <3>3, <4>3, <4>5, <4>6, <4>7, <4>8, RoundUpIs
      <4>11. a[i] = b[i]
        BY <3>4, <4>4, <4>8 DEF w
      <4> QED
        BY <4>4, <4>7, <4>9, <4>10, <4>11
    <3> QED
      BY <2>4, <3>5, <3>6
  <2>5. CASE i # NULL /\ ~(h[i].n > 0) /\ h[i].ty \notin {"STRUCT", "UNION"}
    <3>1. h[i].ty \notin {"SHORT", "VOID"}
      BY <1>1, <2>5 DEF RegularOf
    <3> QED
      BY <1>1, <2>5, <3>1 DEF TypeSizeOf, TypeAlignOf, LLVMSizeOf, LLVMAlignOf
  <2> QED
    BY <2>2, <2>3, <2>4, <2>5
<1>3. \A i \in Refs(h) : i \in S
  <2> HIDE DEF S
  <2> QED
    BY <1>2, RefsFounded, Descent
<1> QED
  BY <1>3 DEF s, a, u, b, r

(* A union of packed members is as large as each. *)
LEMMA UnionsHold ==
  ASSUME NEW h, WellMade(h), NEW i \in Refs(h), i # NULL, h[i].ty = "UNION",
         h[i].members # <<>>, \A m \in MemberTypes(h[i]) : Packed(h)[m]
  PROVE  \A m \in MemberTypes(h[i]) : LLVMSize(h)[m] <= LLVMSize(h)[i]
<1> DEFINE s == LLVMSize(h)
           c == CodegenTypeSize(h)
           L == Largest(h, h[i])
<1>1. /\ \A m \in MemberTypes(h[i]) : m \in PartsOf(h)[i] /\ m \in Refs(h)
      /\ ~(h[i].n > 0)
  BY PartsAre
<1>2. \A m \in MemberTypes(h[i]) : s[m] = c[m]
  BY <1>1, PackedSizes, PartsAreWhole
<1>3. L \in MemberTypes(h[i]) /\ \A m \in MemberTypes(h[i]) : c[m] <= c[L]
  BY LargestIs
<1>4. s[i] = s[L]
  BY <1>1, LLVMSizeIs DEF LLVMSizeOf
<1> HIDE DEF s, c, L
<1> QED
  BY <1>2, <1>3, <1>4 DEF s

-----------------------------------------------------------------------------
(* How the steps keep the heap well made *)

LEMMA WholeStays ==
  ASSUME NEW h, NEW t, NEW S, KeepsBut(h, t, S), \A i \in S : h[i].members = <<>>,
         NEW j, Whole(h, j)
  PROVE  Whole(t, j)
<1>1. j \in 1 .. Len(h) /\ j \in 1 .. Len(t) /\ t[j].ty = h[j].ty
  BY DEF KeepsBut, Whole
<1>2. j \notin S => t[j].members = h[j].members
  BY <1>1 DEF KeepsBut
<1> QED
  BY <1>1, <1>2 DEF Whole

LEMMA SameParts ==
  ASSUME NEW h, NEW t, NEW i \in Refs(h), i \in Refs(t),
         i # NULL => /\ t[i].ty = h[i].ty /\ t[i].to = h[i].to /\ t[i].n = h[i].n
                     /\ t[i].members = h[i].members
  PROVE  PartsOf(t)[i] = PartsOf(h)[i]
  BY Zenon DEF PartsOf, MemberTypes

(* Only the qualifiers of types change. *)
LEMMA MadeSame ==
  ASSUME NEW h, WellMade(h), NEW t \in Seq(TypeRecords), KeepsBut(h, t, {}),
         Len(t) = Len(h)
  PROVE  WellMade(t)
<1>1. \A i \in 1 .. Len(h) :
        /\ t[i].ty = h[i].ty /\ t[i].to = h[i].to /\ t[i].n = h[i].n
        /\ t[i].members = h[i].members
  BY DEF KeepsBut
<1>2. Refs(t) = Refs(h) /\ \A i \in Refs(h) : i = NULL \/ i \in 1 .. Len(h)
  BY DEF Refs, NULL, KeepsBut
<1>3. \A i \in Refs(h) : PartsOf(t)[i] = PartsOf(h)[i]
  BY <1>1, <1>2, SameParts
<1>4. \A i \in 1 .. Len(h) : i \in Refs(h)
  BY DEF Refs
<1>5. PartsOf(t) = PartsOf(h)
  <2>1. /\ PartsOf(t) = [i \in Refs(h) |-> PartsOf(t)[i]]
        /\ PartsOf(h) = [i \in Refs(h) |-> PartsOf(h)[i]]
    BY <1>2 DEF PartsOf
  <2> QED
    BY <1>3, <2>1
<1>6. \A j : Whole(h, j) => Whole(t, j)
  BY WholeStays
<1> QED
  BY <1>1, <1>2, <1>5, <1>6 DEF WellMade

(* One type is made anew, of others, and nothing was made of it. *)
LEMMA OneMade ==
  ASSUME NEW h, WellMade(h), NEW t \in Seq(TypeRecords),
         NEW S, KeepsBut(h, t, S), \A i \in S : h[i].members = <<>>,
         NEW b \in 1 .. Len(t), t[b].n > 0 => t[b].ty = "PTR",
         \A i \in 1 .. Len(t) : i = b \/ (i \in 1 .. Len(h) /\ i \notin S),
         ~Whole(h, b),
         \A j \in PartsOf(t)[b] : j = NULL \/ Whole(h, j)
  PROVE  WellMade(t)
<1>1. /\ Len(h) \in Nat /\ Len(t) \in Nat /\ b # NULL
      /\ \A i \in Refs(t) : i = NULL \/ i \in 1 .. Len(t)
      /\ \A i \in 1 .. Len(h) : i \in Refs(h) /\ i # NULL
      /\ NULL \in Refs(h) /\ NULL \in Refs(t)
      /\ \A i \in 1 .. Len(t) : i \in Refs(t)
  BY DEF Refs, NULL, KeepsBut
<1>2. \A i \in Refs(t) : i = b \/ (i \in Refs(h) /\ PartsOf(t)[i] = PartsOf(h)[i])
  <2> SUFFICES ASSUME NEW i \in Refs(t), i # b
               PROVE  i \in Refs(h) /\ PartsOf(t)[i] = PartsOf(h)[i]
    OBVIOUS
  <2>1. i # NULL => i \in 1 .. Len(h) /\ i \notin S
    BY <1>1
  <2>2. i \in Refs(h)
    BY <1>1, <2>1
  <2>3. i # NULL => /\ t[i].ty = h[i].ty /\ t[i].to = h[i].to
                    /\ t[i].n = h[i].n /\ t[i].members = h[i].members
    BY <2>1 DEF KeepsBut
  <2> QED
    BY <2>2, <2>3, SameParts
<1>3. \A i \in Refs(t) : \A j \in PartsOf(t)[i] : j = NULL \/ Whole(h, j)
  <2> SUFFICES ASSUME NEW i \in Refs(t), NEW j \in PartsOf(t)[i]
               PROVE  j = NULL \/ Whole(h, j)
    OBVIOUS
  <2>1. CASE i = b
    BY <2>1
  <2>2. CASE i # b
    <3>1. i \in Refs(h) /\ j \in PartsOf(h)[i]
      BY <1>2, <2>2
    <3>2. i # NULL
      <4>1. i = NULL => PartsOf(h)[i] = {}
        BY <3>1 DEF PartsOf
      <4> QED
        BY <3>1, <4>1
    <3> QED
      BY <3>1, <3>2, PartsAreWhole
  <2> QED
    BY <2>1, <2>2
<1>4. \A i \in Refs(t) : \A j \in PartsOf(t)[i] : j \in Refs(h) /\ j # b /\ j \in Refs(t)
  <2>1. \A j : Whole(h, j) => j \in Refs(h) /\ j # b /\ Whole(t, j)
    BY <1>1, WholeStays DEF Whole
  <2>2. \A j : Whole(t, j) => j \in Refs(t)
    BY <1>1 DEF Whole
  <2> QED
    BY <1>1, <1>3, <2>1, <2>2
<1>5. Founded(Refs(t), PartsOf(t))
  <2>1. PICK rank \in [Refs(h) -> Nat], top \in Nat :
          \A i \in Refs(h) : /\ rank[i] < top
                             /\ \A j \in PartsOf(h)[i] : j \in Refs(h) /\ rank[j] < rank[i]
    BY DEF WellMade, Founded
  <2> DEFINE new == [i \in Refs(t) |-> IF i = b THEN top ELSE rank[i]]
  <2>2. \A i \in Refs(h) : rank[i] \in Nat
    BY <2>1
  <2>3. /\ new \in [Refs(t) -> Nat] /\ top + 1 \in Nat
        /\ \A i \in Refs(t) : new[i] = IF i = b THEN top ELSE rank[i]
    BY <1>2, <2>1, <2>2
  <2> HIDE DEF new
  <2>4. ASSUME NEW i \in Refs(t)
        PROVE  /\ new[i] < top + 1
               /\ \A j \in PartsOf(t)[i] : j \in Refs(t) /\ new[j] < new[i]
    <3>1. CASE i = b
      <4>1. new[i] = top /\ top < top + 1
        BY <2>3, <3>1
      <4>2. \A j \in PartsOf(t)[i] : j \in Refs(t) /\ new[j] = rank[j] /\ rank[j] < top
        BY <1>4, <2>1, <2>3
      <4> QED
        BY <4>1, <4>2
    <3>2. CASE i # b
      <4>1. i \in Refs(h) /\ PartsOf(t)[i] = PartsOf(h)[i] /\ new[i] = rank[i]
        BY <1>2, <2>3, <3>2
      <4>2. new[i] < top + 1
        BY <2>1, <2>2, <4>1
      <4>3. \A j \in PartsOf(t)[i] : new[j] = rank[j] /\ rank[j] < rank[i]
        BY <1>4, <2>1, <2>3, <4>1
      <4> QED
        BY <1>4, <4>1, <4>2, <4>3
    <3> QED
      BY <3>1, <3>2
  <2> QED
    BY <2>3, <2>4 DEF Founded
<1>6. \A i \in 1 .. Len(t) : t[i].n > 0 => t[i].ty = "PTR"
  BY DEF WellMade, KeepsBut
<1>7. \A j : Whole(h, j) => Whole(t, j)
  BY WholeStays
<1> QED
  BY <1>1, <1>3, <1>5, <1>6, <1>7 DEF WellMade

LEMMA MadeAppend ==
  ASSUME NEW h, WellMade(h), NEW x \in TypeRecords, x.members = <<>>,
         x.n > 0 => x.ty = "PTR" /\ Whole(h, x.to)
  PROVE  WellMade(Append(h, x))
<1> DEFINE t == Append(h, x)
           b == Len(h) + 1
<1>1. /\ h \in Seq(TypeRecords) /\ Len(h) \in Nat
      /\ t \in Seq(TypeRecords) /\ Len(t) = Len(h) + 1 /\ t[b] = x
      /\ \A i \in 1 .. Len(h) : t[i] = h[i]
  BY DEF WellMade
<1> HIDE DEF t
<1>2. KeepsBut(h, t, {})
  BY <1>1 DEF KeepsBut
<1>3. /\ b \in 1 .. Len(t) /\ b \in Refs(t) /\ b # NULL
      /\ \A i \in 1 .. Len(t) : i = b \/ i \in 1 .. Len(h)
  BY <1>1 DEF Refs, NULL
<1>4. ~Whole(h, b)
  BY <1>1 DEF Whole
<1>5. \A j \in PartsOf(t)[b] : j = NULL \/ Whole(h, j)
  <2>1. MemberTypes(x) = {}
    BY DEF MemberTypes
  <2>2. PartsOf(t)[b] = IF x.n > 0 THEN {x.to}
                        ELSE IF x.ty \in {"STRUCT", "UNION"}
                        THEN MemberTypes(x) \cup {NULL} ELSE {}
    BY <1>1, <1>3 DEF PartsOf
  <2> QED
    BY <2>1, <2>2
<1> HIDE DEF b
<1>6. WellMade(t)
  BY <1>1, <1>2, <1>3, <1>4, <1>5, OneMade
<1> QED
  BY <1>6 DEF t

MembersWhole(h, ms) == \A k \in 1 .. Len(ms) : Whole(h, ms[k].type)

(* The type that was without members becomes the highest. *)
LEMMA MadeCloses ==
  ASSUME NEW h, WellMade(h), NEW b \in 1 .. Len(h),
         h[b].ty \in {"STRUCT", "UNION"}, h[b].members = <<>>,
         NEW ms \in Seq(Members), MembersWhole(h, ms),
         NEW t \in Seq(TypeRecords), KeepsBut(h, t, {b}), Len(t) = Len(h),
         t[b].members = ms
  PROVE  WellMade(t)
<1>1. /\ Len(h) \in Nat /\ b \in 1 .. Len(t) /\ b \in Refs(t) /\ b # NULL
      /\ t[b].ty = h[b].ty /\ t[b].n = h[b].n
      /\ h[b].n > 0 => h[b].ty = "PTR"
  BY DEF KeepsBut, Refs, NULL, WellMade
<1>2. ~Whole(h, b)
  BY DEF Whole
<1>3. \A j \in PartsOf(t)[b] : j = NULL \/ Whole(h, j)
  <2>1. PartsOf(t)[b] = MemberTypes(t[b]) \cup {NULL}
    BY <1>1 DEF PartsOf
  <2>2. MemberTypes(t[b]) = {ms[k].type : k \in 1 .. Len(ms)}
    BY DEF MemberTypes
  <2> QED
    BY <2>1, <2>2 DEF MembersWhole
<1> QED
  BY <1>1, <1>2, <1>3, OneMade

LEMMA WithoutSize ==
  ASSUME NEW x \in TypeRecords
  PROVE  /\ [x EXCEPT !.n = 0] \in TypeRecords
         /\ [x EXCEPT !.n = 0].ty = x.ty /\ [x EXCEPT !.n = 0].to = x.to
         /\ [x EXCEPT !.n = 0].members = x.members /\ [x EXCEPT !.n = 0].n = 0
  BY DEF TypeRecords

(* The heap without the sizes of lists keeps all else. *)
LEMMA UnsizedIs ==
  ASSUME NEW h \in Seq(TypeRecords), NEW U
  PROVE  LET o == Unsized(h, U)
         IN  /\ o \in Seq(TypeRecords) /\ Len(o) = Len(h) /\ Len(h) \in Nat
             /\ DOMAIN h = 1 .. Len(h) /\ DOMAIN o = 1 .. Len(h)
             /\ \A i \in 1 .. Len(h) :
                  /\ o[i].ty = h[i].ty /\ o[i].to = h[i].to
                  /\ o[i].members = h[i].members
                  /\ o[i].n = IF i \in U THEN 0 ELSE h[i].n
                  /\ i \notin U => o[i] = h[i]
<1> DEFINE o == Unsized(h, U)
           e(i) == IF i \in U THEN [h[i] EXCEPT !.n = 0] ELSE h[i]
<1>1. Len(h) \in Nat /\ DOMAIN h = 1 .. Len(h)
  OBVIOUS
<1>2. ASSUME NEW i \in 1 .. Len(h)
      PROVE  /\ e(i) \in TypeRecords
             /\ e(i).ty = h[i].ty /\ e(i).to = h[i].to
             /\ e(i).members = h[i].members
             /\ e(i).n = IF i \in U THEN 0 ELSE h[i].n
  <2>1. h[i] \in TypeRecords
    OBVIOUS
  <2>2. CASE i \in U
    <3>1. e(i) = [h[i] EXCEPT !.n = 0]
      BY <2>2
    <3> HIDE DEF e
    <3> QED
      BY <2>1, <2>2, <3>1, WithoutSize
  <2>3. CASE i \notin U
    BY <2>1, <2>3
  <2> QED
    BY <2>2, <2>3
<1>3. o = [i \in 1 .. Len(h) |-> e(i)]
  BY <1>1 DEF Unsized
<1>4. \A i \in 1 .. Len(h) : i \notin U => e(i) = h[i]
  OBVIOUS
<1> HIDE DEF e, o
<1>5. /\ o \in Seq(TypeRecords) /\ Len(o) = Len(h) /\ DOMAIN o = 1 .. Len(h)
      /\ \A i \in 1 .. Len(h) : o[i] = e(i)
  BY <1>1, <1>2, <1>3
<1> QED
  BY <1>1, <1>2, <1>4, <1>5 DEF o

LEMMA UnsizedKeeps ==
  ASSUME NEW h \in Seq(TypeRecords), NEW t \in Seq(TypeRecords), NEW S,
         KeepsBut(h, t, S), NEW U
  PROVE  KeepsBut(Unsized(h, U), Unsized(t, U), S)
<1> DEFINE o == Unsized(h, U)
           v == Unsized(t, U)
<1>1. /\ Len(h) \in Nat /\ Len(t) \in Nat /\ Len(h) <= Len(t)
      /\ Len(o) = Len(h) /\ Len(v) = Len(t)
      /\ \A i \in 1 .. Len(h) : i \in 1 .. Len(t)
  BY UnsizedIs DEF KeepsBut
<1>2. ASSUME NEW i \in 1 .. Len(h)
      PROVE  /\ v[i].ty = o[i].ty /\ v[i].to = o[i].to /\ v[i].n = o[i].n
             /\ i \notin S => v[i].members = o[i].members
  <2>1. /\ o[i].ty = h[i].ty /\ o[i].to = h[i].to /\ o[i].members = h[i].members
        /\ o[i].n = IF i \in U THEN 0 ELSE h[i].n
    BY UnsizedIs
  <2>2. /\ v[i].ty = t[i].ty /\ v[i].to = t[i].to /\ v[i].members = t[i].members
        /\ v[i].n = IF i \in U THEN 0 ELSE t[i].n
    BY <1>1, UnsizedIs
  <2> HIDE DEF o, v
  <2> QED
    BY <2>1, <2>2 DEF KeepsBut
<1> HIDE DEF o, v
<1>3. KeepsBut(o, v, S)
  BY <1>1, <1>2 DEF KeepsBut
<1> QED
  BY <1>3 DEF o, v

LEMMA UnsizedWhole ==
  ASSUME NEW h \in Seq(TypeRecords), NEW U, NEW j
  PROVE  Whole(Unsized(h, U), j) <=> Whole(h, j)
  BY UnsizedIs DEF Whole

LEMMA UnsizedAppend ==
  ASSUME NEW h \in Seq(TypeRecords), NEW x \in TypeRecords, NEW U,
         Len(h) + 1 \notin U
  PROVE  Unsized(Append(h, x), U) = Append(Unsized(h, U), x)
<1> DEFINE t == Append(h, x)
           o == Unsized(h, U)
           v == Unsized(t, U)
<1>1. /\ t \in Seq(TypeRecords) /\ Len(t) = Len(h) + 1 /\ Len(h) \in Nat
      /\ t[Len(h) + 1] = x /\ \A i \in 1 .. Len(h) : t[i] = h[i]
  OBVIOUS
<1>2. o \in Seq(TypeRecords) /\ Len(o) = Len(h) /\ DOMAIN h = 1 .. Len(h)
  BY UnsizedIs
<1>3. /\ v \in Seq(TypeRecords) /\ Len(v) = Len(t) /\ DOMAIN t = 1 .. Len(t)
      /\ \A i \in 1 .. Len(t) : i \notin U => v[i] = t[i]
  <2> HIDE DEF t
  <2> QED
    BY <1>1, UnsizedIs
<1>4. \A i \in 1 .. Len(h) : i \in DOMAIN t /\ v[i] = o[i]
  BY <1>1, <1>2, <1>3 DEF Unsized
<1>5. v[Len(h) + 1] = x
  BY <1>1, <1>3
<1> HIDE DEF t, o, v
<1>6. v = Append(o, x)
  BY <1>1, <1>2, <1>3, <1>4, <1>5
<1> QED
  BY <1>6 DEF t, o, v

Made(h) == WellMade(Unsized(h, sized))

LEMMA OwnSame ==
  ASSUME NEW h \in Seq(TypeRecords), Made(h), NEW t \in Seq(TypeRecords),
         KeepsBut(h, t, {}), Len(t) = Len(h)
  PROVE  Made(t)
<1> DEFINE o == Unsized(h, sized)
           v == Unsized(t, sized)
<1>1. WellMade(o) /\ v \in Seq(TypeRecords) /\ Len(v) = Len(o) /\ KeepsBut(o, v, {})
  BY UnsizedIs, UnsizedKeeps DEF Made
<1> HIDE DEF o, v
<1>2. WellMade(v)
  BY <1>1, MadeSame
<1> QED
  BY <1>2 DEF v, Made

LEMMA OwnAppend ==
  ASSUME NEW h \in Seq(TypeRecords), Made(h), Len(h) + 1 \notin sized,
         NEW x \in TypeRecords, x.members = <<>>,
         x.n > 0 => x.ty = "PTR" /\ Whole(h, x.to)
  PROVE  Made(Append(h, x))
<1> DEFINE o == Unsized(h, sized)
<1>1. WellMade(o) /\ (x.n > 0 => x.ty = "PTR" /\ Whole(o, x.to))
  BY UnsizedWhole DEF Made
<1>2. Unsized(Append(h, x), sized) = Append(o, x)
  BY UnsizedAppend
<1> HIDE DEF o
<1>3. WellMade(Append(o, x))
  BY <1>1, MadeAppend
<1> QED
  BY <1>2, <1>3 DEF Made

LEMMA OwnCloses ==
  ASSUME NEW h \in Seq(TypeRecords), Made(h), NEW b \in 1 .. Len(h),
         h[b].ty \in {"STRUCT", "UNION"}, h[b].members = <<>>,
         NEW ms \in Seq(Members), MembersWhole(h, ms),
         NEW t \in Seq(TypeRecords), KeepsBut(h, t, {b}), Len(t) = Len(h),
         t[b].members = ms
  PROVE  Made(t)
<1> DEFINE o == Unsized(h, sized)
           v == Unsized(t, sized)
<1>1. /\ WellMade(o) /\ v \in Seq(TypeRecords) /\ Len(v) = Len(o) /\ Len(o) = Len(h)
      /\ KeepsBut(o, v, {b})
  BY UnsizedIs, UnsizedKeeps DEF Made
<1>2. o[b].ty = h[b].ty /\ o[b].members = h[b].members /\ v[b].members = ms
  BY UnsizedIs
<1>3. MembersWhole(o, ms)
  BY UnsizedWhole DEF MembersWhole
<1> HIDE DEF o, v
<1>4. WellMade(v)
  BY <1>1, <1>2, <1>3, MadeCloses
<1> QED
  BY <1>4 DEF v, Made

(* A list gives no size that counts here to a type that others are made of. *)
LEMMA GivesKeeps ==
  ASSUME IInv, ListInv, NEW i \in 1 .. Len(heap), Gives(i)
  PROVE  KeepsBut(Own, Own', {}) /\ Len(Own') = Len(Own)
<1>1. heap[i].n = 0 \/ i \in sized
  BY GivenSize
<1>2. /\ heap \in Seq(TypeRecords) /\ heap' \in Seq(TypeRecords)
      /\ SizedAt(heap, heap', i) /\ sized' = sized \cup {i}
  BY DEF IInv, HeapFits, Gives
<1> DEFINE t == heap'
           U == sized \cup {i}
           o == Unsized(heap, sized)
           v == Unsized(t, U)
<1>3. Own = o /\ Own' = v
  BY <1>2 DEF Own
<1>4. /\ Len(o) = Len(heap) /\ Len(heap) \in Nat
      /\ \A j \in 1 .. Len(heap) :
           /\ o[j].ty = heap[j].ty /\ o[j].to = heap[j].to
           /\ o[j].members = heap[j].members
           /\ o[j].n = IF j \in sized THEN 0 ELSE heap[j].n
  BY <1>2, UnsizedIs
<1>5. /\ Len(t) = Len(heap) /\ t \in Seq(TypeRecords)
      /\ \A j \in 1 .. Len(heap) :
           /\ t[j].ty = heap[j].ty /\ t[j].to = heap[j].to
           /\ t[j].members = heap[j].members
           /\ j # i => t[j].n = heap[j].n
  BY <1>2 DEF SizedAt
<1>6. /\ Len(v) = Len(t)
      /\ \A j \in 1 .. Len(t) :
           /\ v[j].ty = t[j].ty /\ v[j].to = t[j].to
           /\ v[j].members = t[j].members
           /\ v[j].n = IF j \in U THEN 0 ELSE t[j].n
  <2> HIDE DEF U, t
  <2> QED
    BY <1>5, UnsizedIs
<1> HIDE DEF o, v, t
<1>7. \A j \in 1 .. Len(heap) : v[j].n = o[j].n
  BY <1>1, <1>4, <1>5, <1>6
<1>8. KeepsBut(o, v, {}) /\ Len(v) = Len(o)
  BY <1>4, <1>5, <1>6, <1>7 DEF KeepsBut
<1> QED
  BY <1>3, <1>8

(* What a step leaves of the heap that the sizes are computed on. *)
LEMMA OwnKept ==
  ASSUME IInv, ListInv, Moves
  PROVE  /\ Own \in Seq(TypeRecords) /\ Own' \in Seq(TypeRecords)
         /\ \E S \in SUBSET (1 .. Len(heap)) :
              KeepsBut(Own, Own', S) /\ \A i \in S : Own[i].members = <<>>
<1>1. heap \in Seq(TypeRecords) /\ heap' \in Seq(TypeRecords)
  BY MovesFacts DEF IInv, HeapFits
<1>2. Own \in Seq(TypeRecords) /\ Own' \in Seq(TypeRecords)
  BY <1>1, UnsizedIs DEF Own
<1>3. CASE Holds /\ sized' = sized
  <2>1. PICK S \in SUBSET (1 .. Len(heap)) :
          KeepsBut(heap, heap', S) /\ \A i \in S : heap[i].members = <<>>
    BY <1>3 DEF Holds
  <2>2. KeepsBut(Own, Own', S)
    BY <1>1, <1>3, <2>1, UnsizedKeeps DEF Own
  <2>3. \A i \in S : Own[i].members = <<>>
    BY <1>1, <2>1, UnsizedIs DEF Own
  <2> QED
    BY <1>2, <2>2, <2>3
<1>4. ASSUME NEW i \in 1 .. Len(heap), Gives(i) PROVE KeepsBut(Own, Own', {})
  BY <1>4, GivesKeeps
<1> QED
  BY <1>2, <1>3, <1>4 DEF Moves

(* All that was read of a body is whole, too. *)
StackWhole(h, s) == \A d \in 1 .. Len(s) : MembersWhole(h, s[d].members)

MadeInv == Made(heap) /\ StackWhole(heap, stack)

MembersKept ==
  \A d \in 1 .. Len(stack') :
    stack'[d].members = <<>>
    \/ \E e \in 1 .. Len(stack) : stack'[d].members = stack[e].members

LEMMA SizedOnHeap ==
  ASSUME IInv
  PROVE  /\ heap \in Seq(TypeRecords) /\ Len(heap) \in Nat
         /\ Len(heap) + 1 \notin sized
  BY DEF IInv, HeapFits, RefsFit

LEMMA StackWholeStays ==
  ASSUME MadeInv, Holds, MembersKept
  PROVE  StackWhole(heap', stack')
<1>1. PICK S \in SUBSET (1 .. Len(heap)) :
        KeepsBut(heap, heap', S) /\ \A i \in S : heap[i].members = <<>>
  BY DEF Holds
<1>2. \A j : Whole(heap, j) => Whole(heap', j)
  BY <1>1, WholeStays
<1>3. ASSUME NEW d \in 1 .. Len(stack') PROVE MembersWhole(heap', stack'[d].members)
  <2>1. CASE stack'[d].members = <<>>
    BY <2>1 DEF MembersWhole
  <2>2. CASE \E e \in 1 .. Len(stack) : stack'[d].members = stack[e].members
    BY <1>2, <2>2 DEF MadeInv, StackWhole, MembersWhole
  <2> QED
    BY <2>1, <2>2 DEF MembersKept
<1> QED
  BY <1>3 DEF StackWhole

LEMMA SetTopKeeps ==
  ASSUME IInv, stack # <<>>, NEW c, SetTop(c),
         c.members = <<>> \/ c.members = Top.members
  PROVE  MembersKept
<1>1. /\ Depth \in Nat /\ Depth > 0 /\ Depth = Len(stack) /\ Top = stack[Depth]
  BY TopFacts DEF IInv, Depth, Top
<1>2. stack' = [stack EXCEPT ![Depth] = c]
  BY DEF SetTop
<1>3. /\ Len(stack') = Len(stack) /\ stack'[Depth] = c
      /\ \A d \in 1 .. Len(stack) : d # Depth => stack'[d] = stack[d]
  BY <1>1, <1>2 DEF IInv, StackFits
<1>4. Depth \in 1 .. Len(stack)
  BY <1>1
<1> QED
  BY <1>1, <1>3, <1>4 DEF MembersKept

LEMMA SameKeeps ==
  ASSUME stack' = stack
  PROVE  MembersKept
  BY DEF MembersKept

LEMMA EmptyKeeps ==
  ASSUME stack' = <<>>
  PROVE  MembersKept
  BY DEF MembersKept

LEMMA HasBaseMade ==
  ASSUME IInv, stack # <<>>, NEW h, Made(h), HeapFits(h),
         NEW i \in 1 .. Len(h), HasBase(h, i)
  PROVE  Made(heap') /\ MembersKept
<1> DEFINE c == [Top EXCEPT !.step = "pointers", !.base = i, !.members = <<>>]
<1>1. heap' = Qualified(h, i) /\ SetTop(c)
  BY DEF HasBase
<1>2. Made(heap')
  <2>1. /\ HeapFits(heap') /\ KeepsBut(h, heap', {}) /\ Len(heap') = Len(h)
    BY <1>1, QualifiedFits
  <2> QED
    BY <2>1, OwnSame DEF HeapFits
<1>3. c.members = <<>>
  BY TopFacts DEF IInv, Calls
<1> HIDE DEF c
<1> QED
  BY <1>1, <1>2, <1>3, SetTopKeeps

LEMMA OpenBodyKeeps ==
  ASSUME IInv, stack # <<>>, NEW i, OpenBody(i)
  PROVE  MembersKept
<1> DEFINE c == [Top EXCEPT !.step = "body", !.base = i]
<1>1. SetTop(c)
  BY DEF OpenBody
<1>2. c.members = Top.members
  BY TopFacts DEF IInv, Calls
<1> HIDE DEF c
<1> QED
  BY <1>1, <1>2, SetTopKeeps

LEMMA ArithmeticBaseMade ==
  ASSUME IInv, MadeInv, NEW b \in BaseTypes, ArithmeticBase(b)
  PROVE  Made(heap') /\ MembersKept
<1> DEFINE x == BaseType(b)
           h == Append(heap, x)
<1>1. x \in TypeRecords /\ x.to = 0 /\ x.n = 0 /\ x.members = <<>>
  BY BaseTypeFits
<1>2. stack # <<>> /\ HasBase(h, Here)
  BY DEF ArithmeticBase, AtStep
<1> HIDE DEF x
<1>3. Made(h)
  BY <1>1, SizedOnHeap, OwnAppend DEF MadeInv
<1>4. HeapFits(h) /\ Len(h) = Len(heap) + 1 /\ Len(heap) \in Nat
  <2>1. Len(heap) \in Nat /\ x.to \in 0 .. Len(heap)
    BY <1>1 DEF IInv, HeapFits
  <2> QED
    BY <1>1, <2>1, AppendType DEF IInv
<1>5. Here \in 1 .. Len(h)
  BY <1>4 DEF Here
<1> HIDE DEF h
<1> QED
  BY <1>2, <1>3, <1>4, <1>5, HasBaseMade

LEMMA TypedefNameMade ==
  ASSUME IInv, MadeInv, NEW n \in Names, TypedefName(n)
  PROVE  Made(heap') /\ MembersKept
<1>1. /\ stack # <<>> /\ HasBase(heap, typedefs[n])
      /\ typedefs[n] \in 1 .. Len(heap)
  BY DEF TypedefName, AtStep, IInv, RefsFit, Refs, NULL
<1> QED
  BY <1>1, HasBaseMade DEF IInv, MadeInv

LEMMA TaggedMade ==
  ASSUME IInv, MadeInv, NEW n \in Names, NEW kind \in {"STRUCT", "UNION"}
  PROVE  Made(TaggedHeap(n, kind))
<1> DEFINE x == NewType(kind, NULL, 0)
<1>1. x \in TypeRecords /\ x.members = <<>> /\ x.n = 0
  <2>1. kind \in Kinds /\ NULL \in Nat
    BY DEF Kinds, NULL
  <2> QED
    BY <2>1, NewTypeFits
<1> HIDE DEF x
<1>2. Made(Append(heap, x))
  BY <1>1, SizedOnHeap, OwnAppend DEF MadeInv
<1> QED
  BY <1>2 DEF TaggedHeap, MadeInv, x

LEMMA TagReferenceMade ==
  ASSUME IInv, MadeInv, NEW n \in Names, NEW kind \in {"STRUCT", "UNION"},
         TagReference(n, kind)
  PROVE  Made(heap') /\ MembersKept
<1> DEFINE h == TaggedHeap(n, kind)
           i == tags'[n]
<1>1. stack # <<>> /\ Tagged(n, kind) /\ HasBase(h, i)
  BY DEF TagReference, AtStep
<1>2. HeapFits(h) /\ i \in 1 .. Len(h) /\ Made(h)
  BY <1>1, TaggedFits, TaggedMade
<1> HIDE DEF h, i
<1> QED
  BY <1>1, <1>2, HasBaseMade

LEMMA TagBodyMade ==
  ASSUME IInv, MadeInv, NEW n \in Names, NEW kind \in {"STRUCT", "UNION"},
         TagBody(n, kind)
  PROVE  Made(heap') /\ MembersKept
<1>1. stack # <<>> /\ heap' = TaggedHeap(n, kind) /\ OpenBody(tags'[n])
  BY DEF TagBody, AtStep
<1> QED
  BY <1>1, TaggedMade, OpenBodyKeeps

LEMMA AnonymousBodyMade ==
  ASSUME IInv, MadeInv, NEW kind \in {"STRUCT", "UNION"}, AnonymousBody(kind)
  PROVE  Made(heap') /\ MembersKept
<1> DEFINE x == NewType(kind, NULL, 0)
<1>1. stack # <<>> /\ OpenBody(Here) /\ heap' = Append(heap, x)
  BY DEF AnonymousBody, AtStep
<1>2. x \in TypeRecords /\ x.members = <<>> /\ x.n = 0
  <2>1. kind \in Kinds /\ NULL \in Nat
    BY DEF Kinds, NULL
  <2> QED
    BY <2>1, NewTypeFits
<1> HIDE DEF x
<1>3. Made(heap')
  BY <1>1, <1>2, SizedOnHeap, OwnAppend DEF MadeInv
<1> QED
  BY <1>1, <1>3, OpenBodyKeeps

LEMMA BeginMemberMade ==
  ASSUME IInv, MadeInv, BeginMember
  PROVE  Made(heap') /\ MembersKept
<1>1. heap' = heap /\ stack' = Append(stack, NewCall)
  BY DEF BeginMember
<1>2. stack \in Seq(Calls) /\ NewCall.members = <<>>
  BY DEF IInv, StackFits, NewCall
<1>3. /\ Len(stack) \in Nat /\ Len(stack') = Len(stack) + 1
      /\ stack'[Len(stack) + 1] = NewCall
      /\ \A d \in 1 .. Len(stack) : stack'[d] = stack[d]
  BY <1>1, <1>2
<1>4. \A d \in 1 .. Len(stack') : d \in 1 .. Len(stack) \/ d = Len(stack) + 1
  BY <1>3
<1> QED
  BY <1>1, <1>2, <1>3, <1>4 DEF MembersKept, MadeInv

LEMMA CloseBodyMade ==
  ASSUME IInv, MadeInv, CloseBody
  PROVE  Made(heap') /\ MembersKept
<1> DEFINE i == Top.base
           ms == Top.members
           h == [heap EXCEPT ![i].members = ms]
<1>1. stack # <<>> /\ Top.step = "body" /\ HasBase(h, i)
  BY DEF CloseBody, AtStep
<1>2. i \in 1 .. Len(heap) /\ BodyFits(heap, Top) /\ Top \in Calls
  BY <1>1, TopFacts DEF IInv, CallFits
<1>3. /\ ms \in Seq(Members) /\ MemberRefs(ms, heap) /\ Numbered(ms, heap[i].ty)
      /\ heap[i].ty \in {"STRUCT", "UNION"} /\ heap[i].members = <<>>
  BY <1>2 DEF BodyFits, Calls
<1>4. MembersWhole(heap, ms)
  <2>1. Depth \in 1 .. Len(stack) /\ Top = stack[Depth]
    BY <1>1, TopFacts DEF IInv, Depth, Top
  <2> QED
    BY <2>1 DEF MadeInv, StackWhole
<1> HIDE DEF i, ms
<1>5. HeapFits(h) /\ KeepsBut(heap, h, {i}) /\ Len(h) = Len(heap)
  BY <1>2, <1>3, GiveMembers DEF IInv
<1>6. h[i].members = ms /\ h \in Seq(TypeRecords)
  <2>1. heap \in Seq(TypeRecords)
    BY DEF IInv, HeapFits
  <2>2. h[i] = [heap[i] EXCEPT !.members = ms] /\ heap[i] \in TypeRecords
    BY <1>2, <2>1
  <2> QED
    BY <1>5, <2>2 DEF TypeRecords, HeapFits
<1> HIDE DEF h
<1>7. Made(h)
  BY <1>2, <1>3, <1>4, <1>5, <1>6, SizedOnHeap, OwnCloses DEF MadeInv
<1> QED
  BY <1>1, <1>2, <1>5, <1>7, HasBaseMade

LEMMA PointerMade ==
  ASSUME IInv, MadeInv, Pointer
  PROVE  Made(heap') /\ MembersKept
<1> DEFINE x == NewType("PTR", Top.base, 0)
           c == [Top EXCEPT !.base = Here]
<1>1. /\ stack # <<>> /\ Top.step = "pointers"
      /\ heap' = Append(heap, x) /\ SetTop(c)
  BY DEF Pointer, AtStep
<1>2. /\ Len(heap) \in Nat /\ Top \in Calls /\ Top.base \in 1 .. Len(heap)
  BY <1>1, TopFacts DEF IInv, HeapFits
<1>3. x \in TypeRecords /\ x.members = <<>> /\ x.n = 0
  <2>1. "PTR" \in Kinds /\ Top.base \in Nat /\ 0 \in Nat
    BY <1>2 DEF Kinds
  <2> QED
    BY <2>1, NewTypeFits
<1>4. c.members = Top.members
  BY <1>2 DEF Calls
<1> HIDE DEF x, c
<1>5. Made(heap')
  BY <1>1, <1>3, SizedOnHeap, OwnAppend DEF MadeInv
<1> QED
  BY <1>1, <1>4, <1>5, SetTopKeeps

LEMMA ReturnedMade ==
  ASSUME IInv, MadeInv, stack # <<>>, Top.base \in 1 .. Len(heap)
  PROVE  Made(Returned)
<1>1. /\ HeapFits(Returned) /\ KeepsBut(heap, Returned, {})
      /\ Len(Returned) = Len(heap)
  BY ReturnedFits DEF IInv
<1> QED
  BY <1>1, SizedOnHeap, OwnSame DEF MadeInv, HeapFits

(* What is declared is whole, as the base is. *)
LEMMA DeclaredMade ==
  ASSUME IInv, MadeInv, NEW d, Returns(d), NEW n \in Declarators,
         Complete(Top.base)
  PROVE  LET h == Declared(Returned, Top.base, n)
         IN  Made(h) /\ Whole(h, DeclaredAs(Top.base, n))
<1> DEFINE h == Declared(Returned, Top.base, n)
           i == DeclaredAs(Top.base, n)
           u == Returned
           b == Top.base
<1>1. /\ b \in 1 .. Len(heap) /\ KeepsBut(heap, u, {}) /\ Len(u) = Len(heap)
      /\ u \in Seq(TypeRecords) /\ Made(u)
  BY ReturnFacts, ReturnedMade DEF HeapFits
<1>2. Whole(heap, b)
  BY <1>1 DEF Complete, Whole
<1>3. Whole(u, b)
  BY <1>1, <1>2, WholeStays
<1>4. CASE n = NoSuffix
  BY <1>1, <1>3, <1>4 DEF Declared, DeclaredAs
<1>5. CASE n # NoSuffix
  <2> DEFINE x == NewType("PTR", b, n)
  <2>1. Len(heap) \in Nat /\ Here = Len(heap) + 1
    BY DEF IInv, HeapFits, Here
  <2>2. /\ x \in TypeRecords /\ x.to = b /\ x.n = n /\ x.ty = "PTR"
        /\ x.members = <<>>
    <3>1. "PTR" \in Kinds /\ b \in Nat /\ n \in Nat
      <4>1. b \in Nat
        BY <1>1, <2>1
      <4> QED
        BY <1>5, <4>1, ArraySize DEF Kinds
    <3> QED
      BY <3>1, NewTypeFits
  <2>3. h = Append(u, x) /\ i = Here
    BY <1>5 DEF Declared, DeclaredAs
  <2> HIDE DEF h, i, u, b, x
  <2>4. Made(h)
    BY <1>1, <1>3, <2>2, <2>3, SizedOnHeap, OwnAppend
  <2>5. i \in 1 .. Len(h) /\ h[i] = x
    BY <1>1, <2>1, <2>2, <2>3
  <2>6. Whole(h, i)
    BY <2>2, <2>5 DEF Whole
  <2> QED
    BY <2>4, <2>6 DEF h, i, b
<1> QED
  BY <1>4, <1>5

LEMMA MemberMade ==
  ASSUME IInv, MadeInv, NEW n \in Declarators, Member(n)
  PROVE  Made(heap') /\ StackWhole(heap', stack')
<1> DEFINE below == stack[Depth - 1]
           i == DeclaredAs(Top.base, n)
           x == MemberIndex(below)
           m == [type |-> i, index |-> x]
           c == [below EXCEPT !.members = Append(@, m)]
           s == SubSeq(stack, 1, Depth - 1)
<1>1. /\ Depth > 1 /\ Returns(Depth) /\ heap' = Declared(Returned, Top.base, n)
      /\ stack' = [s EXCEPT ![Depth - 1].members = Append(@, m)]
      /\ Complete(Top.base)
  BY DEF Member
<1>2. Made(heap') /\ Whole(heap', i) /\ KeepsBut(heap, heap', {})
  BY <1>1, DeclaredMade, DeclaredFits
<1>3. /\ stack \in Seq(Calls) /\ Depth = Len(stack) /\ Depth \in Nat
  BY DEF IInv, StackFits, Depth
<1>4. /\ s \in Seq(Calls) /\ Len(s) = Depth - 1 /\ Depth - 1 \in 1 .. Depth - 1
      /\ \A d \in 1 .. Depth - 1 : s[d] = stack[d] /\ d \in 1 .. Len(stack)
  BY <1>1, <1>3
<1>5. below \in Calls /\ below.members \in Seq(Members)
  BY <1>3, <1>4 DEF Calls
<1>6. /\ Len(stack') = Depth - 1 /\ stack'[Depth - 1] = c
      /\ \A d \in 1 .. Depth - 1 : d # Depth - 1 => stack'[d] = stack[d]
  <2>1. s[Depth - 1] = below
    BY <1>4
  <2>2. stack' = [s EXCEPT ![Depth - 1] = c]
    BY <1>1, <1>4, <2>1
  <2> HIDE DEF c, s, below
  <2> QED
    BY <1>4, <2>2
<1>7. \A j : Whole(heap, j) => Whole(heap', j)
  BY <1>2, WholeStays
<1>8. \A d \in 1 .. Depth - 1 : MembersWhole(heap', stack[d].members)
  BY <1>4, <1>7 DEF MadeInv, StackWhole, MembersWhole
<1>9. MembersWhole(heap', c.members)
  <2> DEFINE ms == below.members
  <2>1. c.members = Append(ms, m)
    BY <1>5 DEF Calls
  <2>2. MembersWhole(heap', ms)
    BY <1>4, <1>8
  <2>3. m.type = i
    OBVIOUS
  <2>4. ms \in Seq(Members)
    BY <1>5
  <2> HIDE DEF ms, m, c, i
  <2>5. /\ Len(c.members) = Len(ms) + 1 /\ c.members[Len(ms) + 1] = m
        /\ Len(ms) \in Nat /\ \A k \in 1 .. Len(ms) : c.members[k] = ms[k]
    BY <2>1, <2>4
  <2>6. \A k \in 1 .. Len(c.members) : k \in 1 .. Len(ms) \/ k = Len(ms) + 1
    BY <2>5
  <2> QED
    BY <1>2, <2>2, <2>3, <2>5, <2>6 DEF MembersWhole
<1> HIDE DEF c
<1> QED
  BY <1>2, <1>6, <1>8, <1>9 DEF StackWhole

LEMMA DimensionMade ==
  ASSUME IInv, MadeInv, NEW n \in {0} \cup ArraySizes, Dimension(n)
  PROVE  Made(heap') /\ MembersKept
<1> DEFINE b == Top.base
           u == Returned
           x == NewType("PTR", b, n)
           c == [Top EXCEPT !.step = "literal", !.base = Here, !.has = {}]
<1>1. /\ heap' = Append(u, x) /\ SetTop(c) /\ stack # <<>> /\ Complete(b)
      /\ KeepsBut(heap, u, {}) /\ Len(u) = Len(heap) /\ u \in Seq(TypeRecords)
      /\ b \in 1 .. Len(heap) /\ Len(heap) \in Nat
  BY NamedFacts DEF Dimension, HeapFits, KeepsBut
<1>2. Made(u)
  BY <1>1, ReturnedMade
<1>3. Whole(u, b)
  <2>1. Whole(heap, b)
    BY <1>1 DEF Complete, Whole
  <2> QED
    BY <1>1, <2>1, WholeStays
<1>4. /\ x \in TypeRecords /\ x.to = b /\ x.n = n /\ x.ty = "PTR"
      /\ x.members = <<>>
  <2>1. "PTR" \in Kinds /\ b \in Nat /\ n \in Nat
    <3>1. b \in Nat
      BY <1>1
    <3> QED
      BY <3>1, DimensionSize DEF Kinds
  <2> QED
    BY <2>1, NewTypeFits
<1>5. Top \in Calls
  BY <1>1, TopFacts DEF IInv
<1>6. c.members = Top.members
  BY <1>5 DEF Calls
<1> HIDE DEF x, u, b, c
<1>7. Made(heap')
  BY <1>1, <1>2, <1>3, <1>4, SizedOnHeap, OwnAppend
<1> QED
  BY <1>1, <1>6, <1>7, SetTopKeeps

LEMMA StepMade ==
  ASSUME IInv, ListInv, MadeInv, [Next]_vars
  PROVE  MadeInv'
<1>1. Moves
  BY StepMoves
<1>2. ASSUME NEW i \in 1 .. Len(heap), Gives(i) PROVE MadeInv'
  <2>1. KeepsBut(Own, Own', {}) /\ Len(Own') = Len(Own) /\ WellMade(Own)
    BY <1>2, GivesKeeps DEF MadeInv, Made, Own
  <2>2. Own' \in Seq(TypeRecords)
    BY <1>1, OwnKept
  <2>3. WellMade(Own')
    BY <2>1, <2>2, MadeSame
  <2>4. stack' = <<>>
    BY <1>2 DEF Gives
  <2> QED
    BY <2>3, <2>4 DEF MadeInv, Made, Own, StackWhole
<1>3. SUFFICES ASSUME Holds, sized' = sized PROVE MadeInv'
  BY <1>1, <1>2 DEF Moves
<1>4. SUFFICES Made(heap') /\ (MembersKept \/ StackWhole(heap', stack'))
  BY <1>3, StackWholeStays DEF MadeInv, Made
<1>5. CASE BeginDeclaration
  <2>1. heap' = heap /\ stack' = <<NewCall>> /\ NewCall.members = <<>>
    BY <1>5 DEF BeginDeclaration, NewCall
  <2> QED
    BY <2>1 DEF MembersKept, MadeInv
<1>6. ASSUME NEW q \in Qualifiers, Qualify(q) \/ QualifyPointer(q)
      PROVE  Made(heap') /\ MembersKept
  <2>1. stack # <<>> /\ heap' = heap
    BY <1>6 DEF Qualify, QualifyPointer, AtStep
  <2>2. Top \in Calls
    BY <2>1, TopFacts DEF IInv
  <2>3. CASE Qualify(q)
    <3> DEFINE c == [Top EXCEPT !.has = @ \cup {q}]
    <3>1. SetTop(c) /\ c.members = Top.members
      BY <2>2, <2>3 DEF Qualify, Calls
    <3> HIDE DEF c
    <3> QED
      BY <2>1, <3>1, SetTopKeeps DEF MadeInv
  <2>4. CASE QualifyPointer(q)
    <3> DEFINE w == IF q = "restrict" THEN "restricted" ELSE "done"
               c == [Top EXCEPT !.step = w, !.has = @ \cup {q}]
    <3>1. SetTop(c) /\ c.members = Top.members
      BY <2>2, <2>4 DEF QualifyPointer, Calls
    <3> HIDE DEF c
    <3> QED
      BY <2>1, <3>1, SetTopKeeps DEF MadeInv
  <2> QED
    BY <1>6, <2>3, <2>4
<1>7. ASSUME stack # <<>>, Top.base \in 1 .. Len(heap), heap' = Returned,
             stack' = <<>>
      PROVE  Made(heap') /\ MembersKept
  BY <1>7, ReturnedMade, EmptyKeeps
<1>8. ASSUME NEW n \in Names, DeclareTypedef(n)
      PROVE  Made(heap') /\ MembersKept
  BY <1>7, <1>8, ReturnFacts DEF DeclareTypedef
<1>9. CASE StandaloneType
  BY <1>7, <1>9, NamedFacts DEF StandaloneType
<1>10. ASSUME NEW n \in Declarators, NEW scope \in Scopes, DeclareObject(n, scope)
       PROVE  Made(heap') /\ MembersKept
  BY <1>10, DeclaredMade, EmptyKeeps DEF DeclareObject
<1>11. ASSUME NEW count \in {0} \cup ListLengths, EndList(count) \/ CompoundLiteral(count)
       PROVE  Made(heap') /\ MembersKept
  <2>1. CASE Leaves
    BY <2>1, SizedOnHeap, OwnSame, EmptyKeeps DEF Leaves, MadeInv, HeapFits
  <2>2. ASSUME NEW i \in 1 .. Len(heap), Gives(i) PROVE Made(heap') /\ MembersKept
    BY <1>2, <1>3, <2>2, EmptyKeeps DEF MadeInv, Made, Gives
  <2> QED
    BY <1>11, <2>1, <2>2, EndListMoves, CompoundLiteralMoves
<1>12. CASE heap' = heap /\ stack' = stack
  BY <1>12, SameKeeps DEF MadeInv
<1> QED
  BY <1>5, <1>6, <1>8, <1>9, <1>10, <1>11, <1>12, ArithmeticBaseMade,
     TypedefNameMade, TagReferenceMade, TagBodyMade, AnonymousBodyMade,
     BeginMemberMade, CloseBodyMade, PointerMade, MemberMade, DimensionMade
     DEF Next, vars, Exit, EndOfText, Stopped

LEMMA InitMade ==
  ASSUME Init
  PROVE  MadeInv
<1>1. heap = <<>> /\ stack = <<>>
  BY DEF Init
<1>2. Refs(<<>>) = {NULL} /\ PartsOf(<<>>)[NULL] = {}
  BY DEF Refs, NULL, PartsOf
<1>3. Founded(Refs(<<>>), PartsOf(<<>>))
  <2> DEFINE rank == [i \in Refs(<<>>) |-> 0]
  <2>1. /\ rank \in [Refs(<<>>) -> Nat] /\ 1 \in Nat
        /\ \A i \in Refs(<<>>) : rank[i] < 1 /\ PartsOf(<<>>)[i] = {}
    BY <1>2
  <2> HIDE DEF rank
  <2> QED
    BY <2>1 DEF Founded
<1>4. WellMade(<<>>)
  BY <1>3 DEF WellMade
<1>5. Unsized(<<>>, sized) = <<>>
  <2>1. <<>> \in Seq(TypeRecords)
    OBVIOUS
  <2>2. Unsized(<<>>, sized) \in Seq(TypeRecords) /\ Len(Unsized(<<>>, sized)) = 0
    BY <2>1, UnsizedIs
  <2> QED
    BY <2>2
<1> QED
  BY <1>1, <1>4, <1>5 DEF MadeInv, Made, StackWhole

LEMMA MadeHolds == Spec => []MadeInv
<1>1. Init => MadeInv
  BY InitMade
<1>2. IInv /\ ListInv /\ MadeInv /\ [Next]_vars => MadeInv'
  BY StepMade
<1> QED
  BY <1>1, <1>2, InvariantHolds, ListHolds, PTL DEF Spec

-----------------------------------------------------------------------------
(* The sizes do not change: what types are made of stays, and a list gives no
   size to what a settled type is made of. *)

(* G has the parts of what it has, and they are the same on both heaps. *)
Alike(h, t, G) ==
  /\ WellMade(h) /\ WellMade(t)
  /\ \A i \in G :
       /\ i \in Refs(h) /\ i \in Refs(t)
       /\ \A j \in PartsOf(h)[i] : j \in G
       /\ i # NULL =>
            /\ t[i].ty = h[i].ty /\ t[i].to = h[i].to /\ t[i].n = h[i].n
            /\ h[i].ty \in {"STRUCT", "UNION"} => t[i].members = h[i].members

LEMMA AlikeSum ==
  ASSUME NEW t, NEW u, u.members = t.members, NEW s
  PROVE  Sum(u, s) = Sum(t, s)
  BY Zenon DEF Sum

LEMMA AlikeEnd ==
  ASSUME NEW t, NEW u, u.members = t.members, NEW s, NEW a
  PROVE  End(u, s, a) = End(t, s, a)
  BY Zenon DEF End

LEMMA AlikeGreatest ==
  ASSUME NEW t, NEW u, u.members = t.members, NEW s, NEW least
  PROVE  /\ MemberTypes(u) = MemberTypes(t)
         /\ Greatest(u, s, least) = Greatest(t, s, least)
<1>1. MemberTypes(u) = MemberTypes(t)
  BY Zenon DEF MemberTypes
<1> QED
  BY <1>1, Zenon DEF Greatest

LEMMA AlikeParts ==
  ASSUME NEW h, NEW t, NEW G, Alike(h, t, G), NEW i \in G
  PROVE  /\ i \in Refs(h) /\ i \in Refs(t) /\ PartsOf(t)[i] = PartsOf(h)[i]
         /\ \A j \in PartsOf(h)[i] : j \in G
<1>1. /\ i \in Refs(h) /\ i \in Refs(t)
      /\ i # NULL =>
            /\ t[i].ty = h[i].ty /\ t[i].to = h[i].to /\ t[i].n = h[i].n
            /\ h[i].ty \in {"STRUCT", "UNION"} => t[i].members = h[i].members
  BY DEF Alike
<1>2. i # NULL /\ h[i].ty \in {"STRUCT", "UNION"} =>
        MemberTypes(t[i]) = MemberTypes(h[i])
  BY <1>1, AlikeGreatest
<1>3. PartsOf(t)[i] = PartsOf(h)[i]
  BY <1>1, <1>2 DEF PartsOf
<1> QED
  BY <1>1, <1>3 DEF Alike

LEMMA AlikeCodegen ==
  ASSUME NEW h, NEW t, NEW G, Alike(h, t, G)
  PROVE  \A i \in G : CodegenTypeSize(t)[i] = CodegenTypeSize(h)[i]
<1> DEFINE s == CodegenTypeSize(h)
           u == CodegenTypeSize(t)
           S == {i \in Refs(h) : i \in G => u[i] = s[i]}
<1>0. WellMade(h) /\ WellMade(t)
  BY DEF Alike
<1>1. /\ \A i \in Refs(h) : s[i] \in Positive /\ s[i] = CodegenTypeSizeOf(h, s, i)
      /\ \A i \in Refs(t) : u[i] = CodegenTypeSizeOf(t, u, i)
  BY <1>0, CodegenIs
<1> HIDE DEF s, u
<1>2. ASSUME NEW i \in Refs(h), \A j \in PartsOf(h)[i] : j \in S PROVE i \in S
  <2> SUFFICES ASSUME i \in G PROVE u[i] = s[i]
    OBVIOUS
  <2>1. /\ i \in Refs(t)
        /\ \A j \in PartsOf(h)[i] : j \in Refs(h) /\ s[j] = u[j] /\ s[j] \in Positive
    BY <1>1, <1>2, AlikeParts
  <2>2. CodegenTypeSizeOf(h, s, i) = CodegenTypeSizeOf(h, u, i)
    BY <1>0, <2>1, CodegenLocal
  <2>3. CodegenTypeSizeOf(t, u, i) = CodegenTypeSizeOf(h, u, i)
    <3>1. CASE i = NULL
      BY <3>1 DEF CodegenTypeSizeOf
    <3>2. CASE i # NULL
      <4>1. /\ t[i].ty = h[i].ty /\ t[i].to = h[i].to /\ t[i].n = h[i].n
            /\ h[i].ty \in {"STRUCT", "UNION"} =>
                 Sum(t[i], u) = Sum(h[i], u) /\ Greatest(t[i], u, 1) = Greatest(h[i], u, 1)
        BY <3>2, AlikeSum, AlikeGreatest DEF Alike
      <4> QED
        BY <3>2, <4>1 DEF CodegenTypeSizeOf
    <3> QED
      BY <3>1, <3>2
  <2> QED
    BY <1>1, <2>1, <2>2, <2>3
<1>3. \A i \in Refs(h) : i \in S
  <2> HIDE DEF S
  <2> QED
    BY <1>0, <1>2, RefsFounded, Descent
<1> QED
  BY <1>3 DEF s, u, Alike

(* The same member stands for the union. *)
LEMMA AlikeLargest ==
  ASSUME NEW h, NEW t, NEW G, Alike(h, t, G), NEW i \in G, i # NULL,
         h[i].ty \in {"STRUCT", "UNION"}
  PROVE  Largest(t, t[i]) = Largest(h, h[i])
<1> DEFINE s == CodegenTypeSize(h)
           u == CodegenTypeSize(t)
           ms == h[i].members
           Z(k) == s[ms[k].type]
           W(k) == u[ms[k].type]
<1>1. t[i].members = ms /\ WellMade(h) /\ i \in Refs(h)
  BY DEF Alike
<1>2. \A k \in DOMAIN ms : ms[k].type \in MemberTypes(h[i])
  BY DEF MemberTypes
<1>3. \A m \in MemberTypes(h[i]) : m \in G
  BY <1>1, PartsAre, AlikeParts
<1>4. \A k \in DOMAIN ms : W(k) = Z(k)
  BY <1>2, <1>3, AlikeCodegen
<1>5. DOMAIN ms = 1 .. Len(ms) /\ Len(ms) \in Nat
  BY <1>1, PartsAre, PlacesOfMembers
<1> HIDE DEF ms
<1>6. \A k \in DOMAIN ms :
        (/\ \A j \in DOMAIN ms : ~(W(j) > W(k))
         /\ \A j \in 1 .. k - 1 : W(k) > W(j))
        <=> (/\ \A j \in DOMAIN ms : ~(Z(j) > Z(k))
             /\ \A j \in 1 .. k - 1 : Z(k) > Z(j))
  <2> HIDE DEF Z, W
  <2> QED
    BY <1>4, <1>5
<1>7. (CHOOSE k \in DOMAIN ms :
         /\ \A j \in DOMAIN ms : ~(W(j) > W(k))
         /\ \A j \in 1 .. k - 1 : W(k) > W(j))
      = (CHOOSE k \in DOMAIN ms :
           /\ \A j \in DOMAIN ms : ~(Z(j) > Z(k))
           /\ \A j \in 1 .. k - 1 : Z(k) > Z(j))
  BY <1>6
<1> DEFINE c == CHOOSE k \in DOMAIN ms :
                  /\ \A j \in DOMAIN ms : ~(Z(j) > Z(k))
                  /\ \A j \in 1 .. k - 1 : Z(k) > Z(j)
           d == CHOOSE k \in DOMAIN ms :
                  /\ \A j \in DOMAIN ms : ~(W(j) > W(k))
                  /\ \A j \in 1 .. k - 1 : W(k) > W(j)
<1>8. Largest(h, h[i]) = IF ms = <<>> THEN NULL ELSE ms[c].type
  BY DEF Largest, ms
<1>9. Largest(t, t[i]) = IF ms = <<>> THEN NULL ELSE ms[d].type
  <2> DEFINE x == t[i]
  <2>1. x.members = ms
    BY <1>1 DEF ms
  <2> HIDE DEF ms, x
  <2>2. Largest(t, x) = IF ms = <<>> THEN NULL ELSE ms[d].type
    BY <2>1 DEF Largest
  <2> QED
    BY <2>2 DEF x
<1>10. c = d
  BY <1>7
<1> HIDE DEF c, d
<1> QED
  BY <1>8, <1>9, <1>10

LEMMA AlikeAlign ==
  ASSUME NEW h, NEW t, NEW G, Alike(h, t, G)
  PROVE  \A i \in G : LLVMAlign(t)[i] = LLVMAlign(h)[i]
<1> DEFINE s == LLVMAlign(h)
           u == LLVMAlign(t)
           S == {i \in Refs(h) : i \in G => u[i] = s[i]}
<1>0. WellMade(h) /\ WellMade(t)
  BY DEF Alike
<1>1. /\ \A i \in Refs(h) : s[i] \in Aligns /\ s[i] = LLVMAlignOf(h, s, i)
      /\ \A i \in Refs(t) : u[i] = LLVMAlignOf(t, u, i)
  BY <1>0, LLVMAlignIs
<1> HIDE DEF s, u
<1>2. ASSUME NEW i \in Refs(h), \A j \in PartsOf(h)[i] : j \in S PROVE i \in S
  <2> SUFFICES ASSUME i \in G PROVE u[i] = s[i]
    OBVIOUS
  <2>1. /\ i \in Refs(t)
        /\ \A j \in PartsOf(h)[i] :
             j \in G /\ j \in Refs(h) /\ s[j] = u[j] /\ s[j] \in Aligns
    BY <1>1, <1>2, AlikeParts
  <2>2. LLVMAlignOf(h, s, i) = LLVMAlignOf(h, u, i)
    BY <1>0, <2>1, LLVMAlignLocal
  <2>3. LLVMAlignOf(t, u, i) = LLVMAlignOf(h, u, i)
    <3>1. CASE i = NULL
      BY <3>1 DEF LLVMAlignOf
    <3>2. CASE i # NULL
      <4>1. /\ t[i].ty = h[i].ty /\ t[i].to = h[i].to /\ t[i].n = h[i].n
            /\ h[i].ty \in {"STRUCT", "UNION"} => t[i].members = h[i].members
        BY <3>2 DEF Alike
      <4>2. h[i].ty \in {"STRUCT", "UNION"} =>
              /\ Greatest(t[i], u, 1) = Greatest(h[i], u, 1)
              /\ Largest(t, t[i]) = Largest(h, h[i])
        BY <3>2, <4>1, AlikeGreatest, AlikeLargest
      <4> QED
        BY <3>2, <4>1, <4>2 DEF LLVMAlignOf
    <3> QED
      BY <3>1, <3>2
  <2> QED
    BY <1>1, <2>1, <2>2, <2>3
<1>3. \A i \in Refs(h) : i \in S
  <2> HIDE DEF S
  <2> QED
    BY <1>0, <1>2, RefsFounded, Descent
<1> QED
  BY <1>3 DEF s, u, Alike

LEMMA AlikeSize ==
  ASSUME NEW h, NEW t, NEW G, Alike(h, t, G)
  PROVE  \A i \in G : LLVMSize(t)[i] = LLVMSize(h)[i]
<1> DEFINE s == LLVMSize(h)
           u == LLVMSize(t)
           S == {i \in Refs(h) : i \in G => u[i] = s[i]}
<1>0. WellMade(h) /\ WellMade(t)
  BY DEF Alike
<1>1. /\ \A i \in Refs(h) : s[i] \in Nat /\ s[i] = LLVMSizeOf(h, s, i)
      /\ \A i \in Refs(t) : u[i] = LLVMSizeOf(t, u, i)
  BY <1>0, LLVMSizeIs
<1> HIDE DEF s, u
<1>2. ASSUME NEW i \in Refs(h), \A j \in PartsOf(h)[i] : j \in S PROVE i \in S
  <2> SUFFICES ASSUME i \in G PROVE u[i] = s[i]
    OBVIOUS
  <2>1. /\ i \in Refs(t)
        /\ \A j \in PartsOf(h)[i] :
             j \in G /\ j \in Refs(h) /\ s[j] = u[j] /\ s[j] \in Nat
    BY <1>1, <1>2, AlikeParts
  <2>2. LLVMSizeOf(h, s, i) = LLVMSizeOf(h, u, i)
    BY <1>0, <2>1, LLVMSizeLocal
  <2>3. LLVMSizeOf(t, u, i) = LLVMSizeOf(h, u, i)
    <3>1. CASE i = NULL
      BY <3>1 DEF LLVMSizeOf
    <3>2. CASE i # NULL
      <4>1. /\ t[i].ty = h[i].ty /\ t[i].to = h[i].to /\ t[i].n = h[i].n
            /\ h[i].ty \in {"STRUCT", "UNION"} => t[i].members = h[i].members
        BY <3>2 DEF Alike
      <4>2. /\ h[i].ty = "STRUCT" =>
                 LLVMStructSize(t[i], u, LLVMAlign(t)) = LLVMStructSize(h[i], u, LLVMAlign(h))
            /\ h[i].ty = "UNION" => Largest(t, t[i]) = Largest(h, h[i])
        <5> DEFINE a == LLVMAlign(h)
                   b == LLVMAlign(t)
        <5>1. ASSUME h[i].ty = "STRUCT"
              PROVE  LLVMStructSize(t[i], u, b) = LLVMStructSize(h[i], u, a)
          <6>1. /\ HasMembers(h[i])
                /\ \A m \in MemberTypes(h[i]) : m \in PartsOf(h)[i]
            BY <1>0, <3>2, <5>1, PartsAre
          <6>2. \A m \in MemberTypes(h[i]) :
                  b[m] = a[m] /\ a[m] \in Aligns /\ u[m] \in Nat
            BY <1>0, <2>1, <6>1, AlikeAlign, LLVMAlignIs
          <6> HIDE DEF a, b
          <6>3. End(h[i], u, b) = End(h[i], u, a)
            BY <6>1, <6>2, EndSame
          <6>4. Greatest(h[i], b, 1) = Greatest(h[i], a, 1)
            BY <6>2, GreatestSame
          <6>5. /\ End(t[i], u, b) = End(h[i], u, b)
                /\ Greatest(t[i], b, 1) = Greatest(h[i], b, 1)
            BY <4>1, <5>1, AlikeEnd, AlikeGreatest
          <6> QED
            BY <6>3, <6>4, <6>5 DEF LLVMStructSize
        <5>2. h[i].ty = "UNION" => Largest(t, t[i]) = Largest(h, h[i])
          BY <3>2, AlikeLargest
        <5> QED
          BY <5>1, <5>2
      <4> QED
        BY <3>2, <4>1, <4>2 DEF LLVMSizeOf
    <3> QED
      BY <3>1, <3>2
  <2> QED
    BY <1>1, <2>1, <2>2, <2>3
<1>3. \A i \in Refs(h) : i \in S
  <2> HIDE DEF S
  <2> QED
    BY <1>0, <1>2, RefsFounded, Descent
<1> QED
  BY <1>3 DEF s, u, Alike

LEMMA AlikePacked ==
  ASSUME NEW h, NEW t, NEW G, Alike(h, t, G)
  PROVE  \A i \in G : Packed(t)[i] = Packed(h)[i]
<1> DEFINE s == Packed(h)
           u == Packed(t)
           S == {i \in Refs(h) : i \in G => u[i] = s[i]}
<1>0. WellMade(h) /\ WellMade(t)
  BY DEF Alike
<1>1. /\ \A i \in Refs(h) : s[i] \in BOOLEAN /\ s[i] = PackedOf(h, s, i)
      /\ \A i \in Refs(t) : u[i] = PackedOf(t, u, i)
  BY <1>0, PackedIs
<1> HIDE DEF s, u
<1>2. ASSUME NEW i \in Refs(h), \A j \in PartsOf(h)[i] : j \in S PROVE i \in S
  <2> SUFFICES ASSUME i \in G PROVE u[i] = s[i]
    OBVIOUS
  <2>1. /\ i \in Refs(t)
        /\ \A j \in PartsOf(h)[i] :
             j \in G /\ j \in Refs(h) /\ s[j] = u[j] /\ s[j] \in BOOLEAN
    BY <1>1, <1>2, AlikeParts
  <2>2. PackedOf(h, s, i) = PackedOf(h, u, i)
    BY <1>0, <2>1, PackedLocal
  <2>3. PackedOf(t, u, i) = PackedOf(h, u, i)
    <3>1. CASE i = NULL
      BY <3>1 DEF PackedOf
    <3>2. CASE i # NULL
      <4>1. /\ t[i].ty = h[i].ty /\ t[i].to = h[i].to /\ t[i].n = h[i].n
            /\ h[i].ty \in {"STRUCT", "UNION"} => t[i].members = h[i].members
        BY <3>2 DEF Alike
      <4>2. h[i].ty \in {"STRUCT", "UNION"} => MemberTypes(t[i]) = MemberTypes(h[i])
        BY <4>1, AlikeGreatest
      <4>3. LLVMSize(t)[i] = LLVMSize(h)[i]
        BY AlikeSize
      <4>4. h[i].ty = "STRUCT" => Sum(t[i], LLVMSize(t)) = Sum(h[i], LLVMSize(h))
        <5> SUFFICES ASSUME h[i].ty = "STRUCT"
                     PROVE  Sum(t[i], LLVMSize(t)) = Sum(h[i], LLVMSize(h))
          OBVIOUS
        <5> DEFINE a == LLVMSize(h)
                   b == LLVMSize(t)
        <5>1. /\ HasMembers(h[i])
              /\ \A m \in MemberTypes(h[i]) : m \in PartsOf(h)[i]
          BY <1>0, <3>2, PartsAre
        <5>2. \A m \in MemberTypes(h[i]) : b[m] = a[m] /\ a[m] \in Nat
          BY <1>0, <2>1, <5>1, AlikeSize, LLVMSizeIs
        <5> HIDE DEF a, b
        <5>3. Sum(h[i], b) = Sum(h[i], a)
          BY <5>1, <5>2, SumSame
        <5>4. Sum(t[i], b) = Sum(h[i], b)
          BY <4>1, AlikeSum
        <5> QED
          BY <5>3, <5>4 DEF a, b
      <4> QED
        BY <3>2, <4>1, <4>2, <4>3, <4>4 DEF PackedOf
    <3> QED
      BY <3>1, <3>2
  <2> QED
    BY <1>1, <2>1, <2>2, <2>3
<1>3. \A i \in Refs(h) : i \in S
  <2> HIDE DEF S
  <2> QED
    BY <1>0, <1>2, RefsFounded, Descent
<1> QED
  BY <1>3 DEF s, u, Alike

LEMMA AlikeRegular ==
  ASSUME NEW h, NEW t, NEW G, Alike(h, t, G)
  PROVE  \A i \in G : Regular(t)[i] = Regular(h)[i]
<1> DEFINE s == Regular(h)
           u == Regular(t)
           S == {i \in Refs(h) : i \in G => u[i] = s[i]}
<1>0. WellMade(h) /\ WellMade(t)
  BY DEF Alike
<1>1. /\ \A i \in Refs(h) : s[i] \in BOOLEAN /\ s[i] = RegularOf(h, s, i)
      /\ \A i \in Refs(t) : u[i] = RegularOf(t, u, i)
  BY <1>0, RegularIs
<1> HIDE DEF s, u
<1>2. ASSUME NEW i \in Refs(h), \A j \in PartsOf(h)[i] : j \in S PROVE i \in S
  <2> SUFFICES ASSUME i \in G PROVE u[i] = s[i]
    OBVIOUS
  <2>1. /\ i \in Refs(t)
        /\ \A j \in PartsOf(h)[i] :
             j \in G /\ j \in Refs(h) /\ s[j] = u[j] /\ s[j] \in BOOLEAN
    BY <1>1, <1>2, AlikeParts
  <2>2. RegularOf(h, s, i) = RegularOf(h, u, i)
    BY <1>0, <2>1, RegularLocal
  <2>3. RegularOf(t, u, i) = RegularOf(h, u, i)
    <3>1. CASE i = NULL
      BY <3>1 DEF RegularOf
    <3>2. CASE i # NULL
      <4>1. /\ t[i].ty = h[i].ty /\ t[i].to = h[i].to /\ t[i].n = h[i].n
            /\ h[i].ty \in {"STRUCT", "UNION"} => t[i].members = h[i].members
        BY <3>2 DEF Alike
      <4>2. h[i].ty \in {"STRUCT", "UNION"} =>
              /\ MemberTypes(t[i]) = MemberTypes(h[i])
              /\ \A m \in MemberTypes(h[i]) : m \in G
        BY <1>0, <2>1, <3>2, <4>1, AlikeGreatest, PartsAre
      <4>3. h[i].ty \in {"STRUCT", "UNION"} =>
              /\ LLVMAlign(t)[i] = LLVMAlign(h)[i]
              /\ \A m \in MemberTypes(h[i]) :
                    LLVMAlign(t)[m] = LLVMAlign(h)[m] /\ Packed(t)[m] = Packed(h)[m]
        BY <4>2, AlikeAlign, AlikePacked
      <4>4. h[i].n > 0 => LLVMAlign(t)[h[i].to] = LLVMAlign(h)[h[i].to]
        BY <1>0, <2>1, <3>2, PartsAre, AlikeAlign
      <4> QED
        BY <3>2, <4>1, <4>2, <4>3, <4>4 DEF RegularOf
    <3> QED
      BY <3>1, <3>2
  <2> QED
    BY <1>1, <2>1, <2>2, <2>3
<1>3. \A i \in Refs(h) : i \in S
  <2> HIDE DEF S
  <2> QED
    BY <1>0, <1>2, RefsFounded, Descent
<1> QED
  BY <1>3 DEF s, u, Alike

(* Without parts in U before, and with no other in V after the step. *)
LEMMA AlikeWithout ==
  ASSUME NEW h, NEW t, NEW G, Alike(h, t, G), NEW U, NEW V,
         \A i \in G : i \in V => i \in U
  PROVE  \A i \in G : Without(h, U)[i] => Without(t, V)[i]
<1> DEFINE w == Without(h, U)
           v == Without(t, V)
           S == {i \in Refs(h) : i \in G /\ w[i] => v[i]}
<1>0. WellMade(h) /\ WellMade(t)
  BY DEF Alike
<1>1. /\ \A i \in Refs(h) : w[i] = WithoutOf(h, U, w, i)
      /\ \A i \in Refs(t) : v[i] \in BOOLEAN /\ v[i] = WithoutOf(t, V, v, i)
  BY <1>0, WithoutIs
<1> HIDE DEF w, v
<1>2. ASSUME NEW i \in Refs(h), \A j \in PartsOf(h)[i] : j \in S PROVE i \in S
  <2> SUFFICES ASSUME i \in G, w[i] PROVE v[i]
    OBVIOUS
  <2>1. /\ i \in Refs(t)
        /\ \A j \in PartsOf(h)[i] : w[j] => v[j]
    BY <1>2, AlikeParts
  <2>2. CASE i = NULL
    BY <1>1, <2>1, <2>2 DEF WithoutOf
  <2>3. CASE i # NULL
    <3>1. /\ t[i].ty = h[i].ty /\ t[i].to = h[i].to /\ t[i].n = h[i].n
          /\ h[i].ty \in {"STRUCT", "UNION"} => t[i].members = h[i].members
      BY <2>3 DEF Alike
    <3>2. /\ h[i].n > 0 => h[i].to \in PartsOf(h)[i]
          /\ h[i].ty \in {"STRUCT", "UNION"} =>
               \A m \in MemberTypes(h[i]) : m \in PartsOf(h)[i]
      BY <1>0, <2>3, PartsAre
    <3>3. h[i].ty \in {"STRUCT", "UNION"} => MemberTypes(t[i]) = MemberTypes(h[i])
      BY <3>1, AlikeGreatest
    <3>4. /\ i \notin U /\ (h[i].n > 0 => w[h[i].to])
          /\ h[i].ty \in {"STRUCT", "UNION"} => \A m \in MemberTypes(h[i]) : w[m]
      BY <1>1, <2>3 DEF WithoutOf
    <3>5. /\ i \notin V /\ (t[i].n > 0 => v[t[i].to])
          /\ t[i].ty \in {"STRUCT", "UNION"} => \A m \in MemberTypes(t[i]) : v[m]
      BY <2>1, <3>1, <3>2, <3>3, <3>4
    <3> QED
      BY <1>1, <2>1, <2>3, <3>5 DEF WithoutOf
  <2> QED
    BY <2>2, <2>3
<1>3. \A i \in Refs(h) : i \in S
  <2> HIDE DEF S
  <2> QED
    BY <1>0, <1>2, RefsFounded, Descent
<1> QED
  BY <1>3 DEF w, v, Alike

(* The regular types are made of regular types, which a step leaves alone. *)
LEMMA RegularAlike ==
  ASSUME IInv, ListInv, MadeInv, Moves, MadeInv'
  PROVE  Alike(Own, Own', {i \in Refs(Own) : Regular(Own)[i]})
<1> DEFINE h == Own
           t == Own'
           G == {i \in Refs(h) : Regular(h)[i]}
<1>1. PICK S \in SUBSET (1 .. Len(heap)) :
        KeepsBut(h, t, S) /\ \A i \in S : h[i].members = <<>>
  BY OwnKept
<1>2. WellMade(h) /\ WellMade(t)
  BY DEF MadeInv, Made, Own
<1> HIDE DEF h, t
<1>3. Refs(h) \subseteq Refs(t) /\ \A i \in Refs(h) : i = NULL \/ i \in 1 .. Len(h)
  BY <1>1 DEF Refs, KeepsBut, NULL
<1>4. \A i \in Refs(h) : Regular(h)[i] = RegularOf(h, Regular(h), i)
  BY <1>2, RegularIs
<1>5. ASSUME NEW i \in G
      PROVE  /\ i \in Refs(h) /\ i \in Refs(t)
             /\ \A j \in PartsOf(h)[i] : j \in G
             /\ i # NULL =>
                  /\ t[i].ty = h[i].ty /\ t[i].to = h[i].to /\ t[i].n = h[i].n
                  /\ h[i].ty \in {"STRUCT", "UNION"} => t[i].members = h[i].members
  <2>1. i \in Refs(h) /\ i \in Refs(t)
    BY <1>3
  <2>2. CASE i = NULL
    BY <2>1, <2>2 DEF PartsOf
  <2>3. CASE i # NULL
    <3>1. /\ t[i].ty = h[i].ty /\ t[i].to = h[i].to /\ t[i].n = h[i].n
          /\ i \notin S => t[i].members = h[i].members
      BY <1>1, <1>3, <2>1, <2>3 DEF KeepsBut
    <3>2. RegularOf(h, Regular(h), i) /\ ~(h[i].n > 0) =>
            (h[i].ty \in {"STRUCT", "UNION"} =>
               h[i].members # <<>> /\ \A m \in MemberTypes(h[i]) : Regular(h)[m])
      BY <2>3 DEF RegularOf
    <3>3. RegularOf(h, Regular(h), i) /\ h[i].n > 0 => Regular(h)[h[i].to]
      BY <2>3 DEF RegularOf
    <3>4. Regular(h)[NULL] /\ NULL \in Refs(h)
      <4>1. NULL \in Refs(h)
        BY <1>1 DEF Refs, KeepsBut, NULL
      <4> QED
        BY <1>4, <4>1 DEF RegularOf
    <3>5. PartsOf(h)[i] = IF h[i].n > 0 THEN {h[i].to}
                          ELSE IF h[i].ty \in {"STRUCT", "UNION"}
                          THEN MemberTypes(h[i]) \cup {NULL} ELSE {}
      BY <2>1, <2>3 DEF PartsOf
    <3>6. \A j \in PartsOf(h)[i] : j \in Refs(h)
      BY <1>2, <2>1, <2>3, PartsAre
    <3>7. h[i].ty \in {"STRUCT", "UNION"} => ~(h[i].n > 0)
      BY <1>2, <2>1, <2>3, PartsAre
    <3>8. RegularOf(h, Regular(h), i)
      BY <1>4
    <3>9. \A j \in PartsOf(h)[i] : Regular(h)[j]
      BY <3>2, <3>3, <3>4, <3>5, <3>8
    <3> QED
      BY <1>1, <2>1, <3>1, <3>2, <3>6, <3>7, <3>8, <3>9
  <2> QED
    BY <2>2, <2>3
<1> HIDE DEF G
<1>6. Alike(h, t, G)
  BY <1>2, <1>5 DEF Alike
<1> QED
  BY <1>6 DEF h, t, G

(* Only what is loose becomes so, or what is new. *)
LEMMA LooseStep ==
  ASSUME IInv, ListInv, [Next]_vars, NEW i \in 1 .. Len(heap), i \in Loose'
  PROVE  i \in Loose
<1>1. Moves
  BY StepMoves
<1>2. i \in DOMAIN heap /\ heap'[i].ty = heap[i].ty /\ i # NULL /\ heap'[i].ty = "PTR"
  BY <1>1, MovesFacts DEF IInv, HeapFits, NULL, Loose
<1>3. \/ i \in shared' \/ i \in sized' \/ i = list'.type
      \/ stack' # <<>> /\ i = Top'.base
  BY DEF Loose
<1>4. CASE i \in shared'
  <2>1. i \in shared \/ (stack # <<>> /\ i = Top.base)
    BY <1>4, TypedefsStep, ReturnFacts DEF DeclareTypedef
  <2> QED
    BY <1>2, <2>1 DEF Loose
<1>5. CASE i \in sized'
  <2>1. i \in sized \/ Gives(i)
    BY <1>1, <1>5 DEF Moves, Gives
  <2>2. i \in sized \/ i = list.type \/ (stack # <<>> /\ i = Top.base)
    BY <2>1 DEF Gives
  <2> QED
    BY <1>2, <2>2 DEF Loose
<1>6. CASE i = list'.type
  <2>1. list' # NoList
    BY <1>2, <1>6 DEF NoList
  <2>2. ASSUME NEW n \in Declarators, NEW scope \in Scopes, DeclareObject(n, scope)
        PROVE  stack # <<>> /\ i = Top.base
    <3>1. list'.type = DeclaredAs(Top.base, n) /\ Returns(1)
      BY <2>1, <2>2 DEF DeclareObject
    <3>2. i # Here
      BY HereIsNew
    <3> QED
      BY <1>6, <3>1, <3>2, ReturnFacts DEF DeclaredAs
  <2>3. list' = list \/ (stack # <<>> /\ i = Top.base)
    BY <2>1, <2>2, ObjectsStep
  <2> QED
    BY <1>2, <1>6, <2>3 DEF Loose
<1>7. CASE stack' # <<>> /\ i = Top'.base
  <2>1. Known(i)
    BY <1>7, TopStep DEF ListInv
  <2> QED
    BY <1>2, <2>1 DEF Known, Loose
<1> QED
  BY <1>3, <1>4, <1>5, <1>6, <1>7

LEMMA OwnOnHeap ==
  ASSUME IInv
  PROVE  /\ Len(Own) = Len(heap) /\ DOMAIN heap = 1 .. Len(heap)
         /\ \A i \in DOMAIN heap : i \in Refs(Own) /\ i # NULL
         /\ \A i \in Refs(Own) : i = NULL \/ i \in DOMAIN heap
<1>1. /\ Len(Own) = Len(heap) /\ DOMAIN heap = 1 .. Len(heap) /\ Len(heap) \in Nat
  BY UnsizedIs DEF IInv, HeapFits, Own
<1> QED
  BY <1>1 DEF Refs, NULL

(* What sizeof says of a type that is settled stays and is what is allocated:
   no declaration makes a type of itself or of something incomplete, so that
   the sizes are those of the parts put together; and neither a declaration nor
   a list changes what a settled type is made of, so it stays settled. *)
THEOREM SizesAreAllocated == Spec => SizeofIsAllocated
<1> DEFINE Allocated ==
             status' # "exit" =>
               LET size == TypeSize(Own)
                   align == TypeAlign(Own)
                   later == TypeSize(Own')
                   allocated == LLVMSize(Own')
                   aligned == LLVMAlign(Own')
               IN /\ Settled \subseteq Settled'
                  /\ \A i \in Settled : /\ size[i] = later[i]
                                       /\ size[i] = allocated[i]
                                       /\ align[i] = aligned[i]
<1>1. IInv /\ ListInv /\ MadeInv /\ [Next]_vars => [Allocated]_vars
  <2> SUFFICES ASSUME IInv, ListInv, MadeInv, [Next]_vars PROVE Allocated
    OBVIOUS
  <2> DEFINE G == {i \in Refs(Own) : Regular(Own)[i]}
  <2>1. Moves /\ MadeInv' /\ IInv'
    BY StepMoves, StepMade, RefsStep, MovesFacts DEF IInv
  <2>2. WellMade(Own) /\ Alike(Own, Own', G)
    BY <2>1, RegularAlike DEF MadeInv, Made, Own
  <2>3. \A i \in Settled : i \in DOMAIN heap /\ i \in G /\ Without(Own, Loose)[i]
    BY OwnOnHeap DEF Settled
  <2>4. \A i \in Settled : TypeSize(Own)[i] = LLVMSize(Own)[i]
                           /\ TypeAlign(Own)[i] = LLVMAlign(Own)[i]
    BY <2>2, <2>3, RegularSizes
  <2>5. \A i \in G : i \in Loose' => i \in Loose
    <3>1. \A i \in Loose' : i # NULL
      BY <2>1 DEF Loose, IInv, HeapFits, NULL
    <3> QED
      BY <3>1, LooseStep, OwnOnHeap
  <2> DEFINE U == Loose
             V == Loose'
  <2> HIDE DEF G, U, V
  <2>6. \A i \in G : /\ LLVMSize(Own')[i] = LLVMSize(Own)[i]
                     /\ LLVMAlign(Own')[i] = LLVMAlign(Own)[i]
                     /\ Regular(Own')[i] = Regular(Own)[i]
    BY <2>2, AlikeSize, AlikeAlign, AlikeRegular
  <2>7. \A i \in G : Without(Own, U)[i] => Without(Own', V)[i]
    <3>1. \A i \in G : i \in V => i \in U
      BY <2>5 DEF U, V
    <3> QED
      BY <2>2, <3>1, AlikeWithout
  <2>8. \A i \in DOMAIN heap : i \in DOMAIN heap'
    BY <2>1, MovesFacts DEF IInv, HeapFits
  <2>9. Settled \subseteq Settled'
    BY <2>3, <2>6, <2>7, <2>8 DEF Settled, G, U, V
  <2>10. \A i \in Settled : TypeSize(Own')[i] = LLVMSize(Own')[i]
    <3>1. WellMade(Own')
      BY <2>1 DEF MadeInv, Made, Own
    <3>2. \A i \in Settled : i \in Refs(Own') /\ Regular(Own')[i]
      <4>1. \A i \in DOMAIN heap' : i \in Refs(Own')
        <5>1. heap' \in Seq(TypeRecords)
          BY <2>1 DEF IInv, HeapFits
        <5>2. Len(Own') = Len(heap') /\ Len(heap') \in Nat
          BY <5>1, UnsizedIs DEF Own
        <5> QED
          BY <5>1, <5>2 DEF Refs
      <4>2. \A i \in Settled' : i \in DOMAIN heap' /\ Regular(Own')[i]
        BY DEF Settled
      <4> QED
        BY <2>9, <4>1, <4>2
    <3> DEFINE o == Own'
    <3> HIDE DEF o
    <3>3. \A i \in Refs(o) : Regular(o)[i] => TypeSize(o)[i] = LLVMSize(o)[i]
      BY <3>1, RegularSizes DEF o
    <3> QED
      BY <3>2, <3>3 DEF o
  <2> QED
    BY <2>3, <2>4, <2>6, <2>9, <2>10
<1> QED
  BY <1>1, InvariantHolds, ListHolds, MadeHolds, PTL DEF Spec, SizeofIsAllocated

(* The member that codegen picks for a union leaves room for the others, if
   nothing in them is padded or got a size from a list. *)
THEOREM UnionsAreLargeEnough == Spec => []UnionsHoldMembers
<1>1. ASSUME IInv, MadeInv PROVE UnionsHoldMembers
  <2>1. \A i \in DOMAIN heap : i \in Refs(Own) /\ i # NULL
    BY <1>1, OwnOnHeap
  <2>2. \A i \in DOMAIN heap :
          /\ Own[i].ty = heap[i].ty /\ Own[i].members = heap[i].members
          /\ MemberTypes(Own[i]) = MemberTypes(heap[i])
    <3>1. \A i \in DOMAIN heap :
            Own[i].ty = heap[i].ty /\ Own[i].members = heap[i].members
      BY <1>1, UnsizedIs DEF IInv, HeapFits, Own
    <3> QED
      BY <3>1, AlikeGreatest
  <2>3. \A i \in DOMAIN heap :
          heap[i].ty = "UNION" /\ Complete(i) => heap[i].members # <<>>
    BY DEF Complete
  <2>4. WellMade(Own)
    BY <1>1 DEF MadeInv, Made, Own
  <2> QED
    BY <2>1, <2>2, <2>3, <2>4, UnionsHold DEF UnionsHoldMembers
<1> QED
  BY <1>1, InvariantHolds, MadeHolds, PTL
=============================================================================
