----------------------------- MODULE TypeLayout -----------------------------
(***************************************************************************)
(* How large a type is, three times over: type_size and type_align of      *)
(* parse.c, which sizeof and pointer arithmetic use, codegen_type_size of  *)
(* codegen.c, which picks the largest member of a union, and the LLVM type *)
(* that to_llvm_type makes, which is what is allocated.                    *)
(* Each is a recursive function on a heap; XOf(h, x, i) is its value for   *)
(* the type i, where x has the values for the types that i is made of.     *)
(*                                                                         *)
(* A heap is a sequence of Type objects; the object 0 is NULL.             *)
(***************************************************************************)
EXTENDS Integers, Sequences, FiniteSetsExt

NULL == 0

Refs(h) == 0 .. Len(h)

MemberTypes(t) == {t.members[k].type : k \in DOMAIN t.members}

RoundUp(size, align) == ((size + align - 1) \div align) * align

(* The greatest size or alignment of a member. *)
Greatest(t, s, least) == Max({s[m] : m \in MemberTypes(t)} \cup {least})

-----------------------------------------------------------------------------
(* parse.c *)

TypeAlignOf(h, a, i) ==
  IF i = NULL THEN 4
  ELSE CASE h[i].ty \in {"CHAR", "BOOL"} -> 1
         [] h[i].ty \in {"DOUBLE", "LONG", "LONGLONG", "PTR"} -> 8
         [] h[i].ty \in {"STRUCT", "UNION"} -> Greatest(h[i], a, 1)
         [] OTHER -> 4

TypeAlign(h) == LET a[i \in Refs(h)] == TypeAlignOf(h, a, i) IN a

(* Members one behind the other, each at a multiple of its alignment. *)
End(t, size, align) ==
  LET end[k \in 0 .. Len(t.members)] ==
        IF k = 0 THEN 0
        ELSE LET m == t.members[k].type
             IN RoundUp(end[k - 1], align[m]) + size[m]
  IN end[Len(t.members)]

(* Slip: the end of a struct is not rounded. *)
StructSize_NoTail(t, size, align) == End(t, size, align)

(* The whole is a multiple of the greatest alignment. *)
StructSize(t, size, align) == RoundUp(End(t, size, align), Greatest(t, align, 1))

UnionSize(t, size, align) ==
  RoundUp(Greatest(t, size, 0), Greatest(t, align, 1))

TypeSizeOf(h, s, i) ==
  IF i = NULL THEN 4
  ELSE IF h[i].n > 0 THEN s[h[i].to] * h[i].n
  ELSE CASE h[i].ty \in {"CHAR", "BOOL"} -> 1
         [] h[i].ty \in {"DOUBLE", "LONG", "LONGLONG", "PTR"} -> 8
         [] h[i].ty = "STRUCT" -> StructSize(h[i], s, TypeAlign(h))
         [] h[i].ty = "UNION" -> UnionSize(h[i], s, TypeAlign(h))
         [] OTHER -> 4

TypeSize(h) == LET s[i \in Refs(h)] == TypeSizeOf(h, s, i) IN s

-----------------------------------------------------------------------------
(* codegen.c *)

(* Without padding. *)
Sum(t, size) ==
  LET sum[k \in 0 .. Len(t.members)] ==
        IF k = 0 THEN 0 ELSE sum[k - 1] + size[t.members[k].type]
  IN sum[Len(t.members)]

CodegenTypeSizeOf(h, s, i) ==
  IF i = NULL THEN 4
  ELSE IF h[i].n > 0 THEN s[h[i].to] * h[i].n
  ELSE CASE h[i].ty \in {"CHAR", "BOOL"} -> 1
         [] h[i].ty = "SHORT" -> 2
         [] h[i].ty \in {"DOUBLE", "LONG", "LONGLONG", "PTR"} -> 8
         [] h[i].ty = "STRUCT" -> IF Sum(h[i], s) > 0 THEN Sum(h[i], s) ELSE 1
         [] h[i].ty = "UNION" -> Greatest(h[i], s, 1)
         [] OTHER -> 4

CodegenTypeSize(h) ==
  LET s[i \in Refs(h)] == CodegenTypeSizeOf(h, s, i) IN s

(* Slip: the first member stands for the union. *)
Largest_First(h, t) == IF t.members = <<>> THEN NULL ELSE t.members[1].type

(* The first member of the greatest size stands for the union; an int does if
   there is none. *)
Largest(h, t) ==
  LET s == CodegenTypeSize(h)
      Bigger(j, k) == s[t.members[j].type] > s[t.members[k].type]
  IN IF t.members = <<>> THEN NULL
     ELSE t.members[CHOOSE k \in DOMAIN t.members :
            /\ \A j \in DOMAIN t.members : ~Bigger(j, k)
            /\ \A j \in 1 .. k - 1 : Bigger(k, j)].type

(* LLVM's layout of the type that to_llvm_type makes: an array is aligned like
   its elements, a union is a struct of its largest member. *)
LLVMAlignOf(h, a, i) ==
  IF i = NULL THEN 4
  ELSE IF h[i].n > 0 THEN a[h[i].to]
  ELSE CASE h[i].ty \in {"CHAR", "BOOL"} -> 1
         [] h[i].ty = "SHORT" -> 2
         [] h[i].ty \in {"DOUBLE", "LONG", "LONGLONG", "PTR"} -> 8
         [] h[i].ty = "STRUCT" -> Greatest(h[i], a, 1)
         [] h[i].ty = "UNION" -> a[Largest(h, h[i])]
         [] OTHER -> 4

LLVMAlign(h) == LET a[i \in Refs(h)] == LLVMAlignOf(h, a, i) IN a

(* The end of the last member, rounded up for an array of such structs. *)
LLVMStructSize(t, size, align) ==
  RoundUp(End(t, size, align), Greatest(t, align, 1))

LLVMSizeOf(h, s, i) ==
  IF i = NULL THEN 4
  ELSE IF h[i].n > 0 THEN s[h[i].to] * h[i].n
  ELSE CASE h[i].ty \in {"CHAR", "BOOL"} -> 1
         [] h[i].ty = "SHORT" -> 2
         [] h[i].ty \in {"DOUBLE", "LONG", "LONGLONG", "PTR"} -> 8
         [] h[i].ty = "STRUCT" -> LLVMStructSize(h[i], s, LLVMAlign(h))
         [] h[i].ty = "UNION" -> s[Largest(h, h[i])]
         [] OTHER -> 4

LLVMSize(h) == LET s[i \in Refs(h)] == LLVMSizeOf(h, s, i) IN s

-----------------------------------------------------------------------------
(* What the properties are about *)

(* No bytes between or behind members. *)
PackedOf(h, p, i) ==
  IF i = NULL THEN TRUE
  ELSE IF h[i].n > 0 THEN p[h[i].to]
  ELSE /\ h[i].ty \in {"STRUCT", "UNION"} =>
            \A m \in MemberTypes(h[i]) : p[m]
       /\ h[i].ty = "STRUCT" => Sum(h[i], LLVMSize(h)) = LLVMSize(h)[i]

Packed(h) == LET p[i \in Refs(h)] == PackedOf(h, p, i) IN p

(* The types of U are pointers again. *)
Unsized(h, U) ==
  [i \in DOMAIN h |-> IF i \in U THEN [h[i] EXCEPT !.n = 0] ELSE h[i]]

(* No part is in U, as far as types are made of each other. *)
WithoutOf(h, U, w, i) ==
  IF i = NULL THEN TRUE
  ELSE /\ i \notin U
       /\ h[i].n > 0 => w[h[i].to]
       /\ h[i].ty \in {"STRUCT", "UNION"} =>
            \A m \in MemberTypes(h[i]) : w[m]

Without(h, U) == LET w[i \in Refs(h)] == WithoutOf(h, U, w, i) IN w

(* The types that type_size was written for: without short, arrays of things
   that are aligned like the pointer an array is taken for, and unions of
   members that are aligned alike. *)
RegularOf(h, r, i) ==
  IF i = NULL THEN TRUE
  ELSE IF h[i].n > 0 THEN r[h[i].to] /\ LLVMAlign(h)[h[i].to] = 8
  ELSE /\ h[i].ty \notin {"SHORT", "VOID"}
       /\ h[i].ty \in {"STRUCT", "UNION"} =>
            /\ h[i].members # <<>>
            /\ \A m \in MemberTypes(h[i]) : r[m]
       /\ h[i].ty = "UNION" =>
            \A m \in MemberTypes(h[i]) :
              Packed(h)[m] /\ LLVMAlign(h)[m] = LLVMAlign(h)[i]

Regular(h) == LET r[i \in Refs(h)] == RegularOf(h, r, i) IN r
=============================================================================
