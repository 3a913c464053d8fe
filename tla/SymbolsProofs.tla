--------------------------- MODULE SymbolsProofs ---------------------------
(***************************************************************************)
(* Proofs about Symbols for all constants: types, the cache of function    *)
(* types against the module, one function per name, linkage, accesses, and *)
(* calls that agree with the source.                                       *)
(***************************************************************************)
EXTENDS Symbols, TLAPS

(* What every step does to the module: symbols keep their kind, name and
   type, and one that is added is renamed exactly if its name was taken. *)
Kept(t) ==
  /\ t \in Seq(SymbolRecords)
  /\ Len(module) <= Len(t)
  /\ \A i \in 1 .. Len(module) :
       /\ t[i].kind = module[i].kind /\ t[i].name = module[i].name
       /\ t[i].renamed = module[i].renamed /\ t[i].type = module[i].type

Fresh(t) ==
  /\ \A i \in Len(module) + 1 .. Len(t) :
       /\ t[i].renamed => Taken(t[i].name)
       /\ ~t[i].renamed => ~Taken(t[i].name)
  /\ \A i, j \in Len(module) + 1 .. Len(t) : t[i].name = t[j].name => i = j

Grows(t) == Kept(t) /\ Fresh(t)

(* Adding one symbol. *)
LEMMA AppendGrows ==
  ASSUME module \in Seq(SymbolRecords), NEW s \in SymbolRecords,
         s.renamed => Taken(s.name), ~s.renamed => ~Taken(s.name)
  PROVE  /\ Grows(Append(module, s))
         /\ Len(Append(module, s)) = Len(module) + 1
         /\ Append(module, s)[Len(module) + 1] = s
         /\ \A i \in 1 .. Len(module) : Append(module, s)[i] = module[i]
<1> DEFINE t == Append(module, s)
<1>1. /\ t \in Seq(SymbolRecords) /\ Len(t) = Len(module) + 1
      /\ t[Len(module) + 1] = s
      /\ \A i \in 1 .. Len(module) : t[i] = module[i]
  OBVIOUS
<1>2. Kept(t)
  BY <1>1 DEF Kept
<1>3. Fresh(t)
  BY <1>1 DEF Fresh
<1> QED
  BY <1>1, <1>2, <1>3 DEF Grows

(* A name stands for at most what the lookup's set has; At picks from it. *)
LEMMA NamedFacts ==
  ASSUME NEW kind, NEW n, Named(kind, n) # {}
  PROVE  /\ At(Named(kind, n)) \in Named(kind, n)
         /\ At(Named(kind, n)) \in 1 .. Len(module)
         /\ module[At(Named(kind, n))].kind = kind
         /\ module[At(Named(kind, n))].name = n
         /\ ~module[At(Named(kind, n))].renamed
         /\ Taken(n) \/ kind \notin {"fun", "var"}
  BY DEF Named, NamedIn, At, Taken

(* The symbol of a node: found, or added behind the others. *)
LEMMA WithFunctionFacts ==
  ASSUME module \in Seq(SymbolRecords), NEW f \in Funcs,
         Signatures \subseteq FuncTypes
  PROVE  /\ FunctionSymbol(f) \in 1 .. Len(WithFunction(f))
         /\ Grows(WithFunction(f))
         /\ Len(WithFunction(f)) <= Len(module) + 1
         /\ WithFunction(f)[FunctionSymbol(f)].kind = "fun"
         /\ WithFunction(f)[FunctionSymbol(f)].name = f.name
         /\ Len(WithFunction(f)) # Len(module) =>
              /\ Named("fun", f.name) = {}
              /\ FunctionSymbol(f) = Len(module) + 1
              /\ WithFunction(f)[FunctionSymbol(f)].private = FALSE
         /\ Len(WithFunction(f)) = Len(module) =>
              /\ WithFunction(f) = module
              /\ ~module[FunctionSymbol(f)].renamed
<1> USE DEF Funcs
<1>0. Len(module) \in Nat
  OBVIOUS
<1>1. CASE Named("fun", f.name) # {}
  <2>1. FunctionSymbol(f) = At(Named("fun", f.name))
    BY <1>1 DEF FunctionSymbol
  <2>2. /\ FunctionSymbol(f) \in 1 .. Len(module)
        /\ module[FunctionSymbol(f)].kind = "fun"
        /\ module[FunctionSymbol(f)].name = f.name
        /\ ~module[FunctionSymbol(f)].renamed
    BY <1>1, <2>1, NamedFacts
  <2>3. WithFunction(f) = module
    BY <2>2 DEF WithFunction
  <2>4. Grows(module)
    BY <1>0 DEF Grows, Kept, Fresh
  <2> QED
    BY <1>0, <2>2, <2>3, <2>4
<1>2. CASE Named("fun", f.name) = {}
  <2>1. FunctionSymbol(f) = Len(module) + 1
    BY <1>2 DEF FunctionSymbol
  <2>2. WithFunction(f) = Append(module, Symbol("fun", f.name, f.type))
    BY <1>0, <2>1 DEF WithFunction
  <2>3. /\ f.name \in SymbolNames /\ f.type \in FuncTypes
    BY DEF SymbolNames
  <2>4. /\ Symbol("fun", f.name, f.type) \in SymbolRecords
        /\ Symbol("fun", f.name, f.type).kind = "fun"
        /\ Symbol("fun", f.name, f.type).name = f.name
        /\ Symbol("fun", f.name, f.type).private = FALSE
        /\ Symbol("fun", f.name, f.type).renamed => Taken(f.name)
        /\ ~Symbol("fun", f.name, f.type).renamed => ~Taken(f.name)
    <3> DEFINE n == f.name
               y == f.type
    <3>1. n \in SymbolNames /\ y \in FuncTypes
      BY <2>3
    <3> HIDE DEF n, y
    <3>2. /\ Symbol("fun", n, y) \in SymbolRecords
          /\ Symbol("fun", n, y).kind = "fun"
          /\ Symbol("fun", n, y).name = n
          /\ Symbol("fun", n, y).private = FALSE
          /\ Symbol("fun", n, y).renamed => Taken(n)
          /\ ~Symbol("fun", n, y).renamed => ~Taken(n)
      <4>1. Taken(n) \in BOOLEAN
        BY DEF Taken
      <4> QED
        BY <3>1, <4>1 DEF Symbol, SymbolRecords
    <3> QED
      BY <3>2 DEF n, y
  <2> DEFINE s == Symbol("fun", f.name, f.type)
  <2>5. /\ Grows(Append(module, s))
        /\ Len(Append(module, s)) = Len(module) + 1
        /\ Append(module, s)[Len(module) + 1] = s
    <3> HIDE DEF s
    <3> QED
      BY <2>4, AppendGrows DEF s
  <2> HIDE DEF s
  <2> QED
    BY <1>0, <1>2, <2>1, <2>2, <2>4, <2>5 DEF s
<1> QED
  BY <1>1, <1>2

(* A node sets the linkage and the entry block of its symbol, and nothing
   else. *)
LEMMA BuiltFacts ==
  ASSUME module \in Seq(SymbolRecords), NEW f \in Funcs,
         Signatures \subseteq FuncTypes
  PROVE  LET k == FunctionSymbol(f)
             w == WithFunction(f)
         IN  /\ k \in 1 .. Len(Built(f))
             /\ Built(f) \in Seq(SymbolRecords)
             /\ Len(Built(f)) = Len(w)
             /\ \A i \in 1 .. Len(w) :
                  /\ Built(f)[i].kind = w[i].kind /\ Built(f)[i].name = w[i].name
                  /\ Built(f)[i].renamed = w[i].renamed
                  /\ Built(f)[i].type = w[i].type
                  /\ i # k => Built(f)[i] = w[i]
             /\ Built(f)[k].private = Linkage(w[k].private, f)
<1> DEFINE k == FunctionSymbol(f)
           w == WithFunction(f)
           p == Linkage(w[k].private, f)
           h == w[k].has \/ f.body = "some"
           e == [[w[k] EXCEPT !.private = p] EXCEPT !.has = h]
<1>1. k \in 1 .. Len(w) /\ w \in Seq(SymbolRecords)
  BY WithFunctionFacts DEF Grows, Kept
<1>2. Built(f) = [w EXCEPT ![k] = e]
  BY <1>1 DEF Built
<1>3. w[k] \in SymbolRecords
  <2> HIDE DEF w, k
  <2> QED BY <1>1
<1>4. /\ e \in SymbolRecords
      /\ e.kind = w[k].kind /\ e.name = w[k].name /\ e.renamed = w[k].renamed
      /\ e.type = w[k].type
      /\ e.private = p
  <2>1. p \in BOOLEAN
    BY DEF Linkage
  <2>2. h \in BOOLEAN
    OBVIOUS
  <2> HIDE DEF w, k, p, h
  <2> QED BY <1>3, <2>1, <2>2 DEF SymbolRecords
<1>5. /\ Built(f) \in Seq(SymbolRecords) /\ Len(Built(f)) = Len(w)
      /\ \A i \in 1 .. Len(w) : Built(f)[i] = IF i = k THEN e ELSE w[i]
  <2> HIDE DEF w, k, e
  <2> QED BY <1>1, <1>2, <1>4
<1> HIDE DEF w, k, p, e
<1> QED
  BY <1>1, <1>4, <1>5 DEF w, k, p

(* A string that is added. *)
LEMMA StringFacts ==
  ASSUME NEW n \in SymbolNames
  PROVE  LET s == [Symbol("var", n, NoType) EXCEPT
                     !.private = TRUE, !.has = TRUE]
         IN  /\ s \in SymbolRecords
             /\ s.kind = "var" /\ s.name = n
             /\ s.renamed => Taken(n)
             /\ ~s.renamed => ~Taken(n)
<1> DEFINE r == Taken(n)
           yes == TRUE
           g == Symbol("var", n, NoType)
           s == [[g EXCEPT !.private = yes] EXCEPT !.has = yes]
<1>1. n \in SymbolNames /\ NoType \in FuncTypes
  BY DEF NoType, FuncTypes
<1>2. g = [kind |-> "var", name |-> n, renamed |-> r, type |-> NoType,
           private |-> FALSE, has |-> FALSE]
  BY DEF Symbol
<1>3. r \in BOOLEAN /\ yes \in BOOLEAN
  BY DEF Taken
<1> HIDE DEF r, yes, g
<1>4. s \in SymbolRecords /\ s.kind = "var" /\ s.name = n /\ s.renamed = r
  BY ONLY <1>1, <1>2, <1>3 DEF SymbolRecords
<1> HIDE DEF s
<1>5. /\ s \in SymbolRecords /\ s.kind = "var" /\ s.name = n
      /\ s.renamed => Taken(n)
      /\ ~s.renamed => ~Taken(n)
  BY <1>4 DEF r
<1> QED
  BY <1>5, Zenon DEF s, g, yes

(* A node without a body, and the first half of one with a body. *)
LEMMA BuiltGrows ==
  ASSUME module \in Seq(SymbolRecords), NEW f \in Funcs,
         Signatures \subseteq FuncTypes
  PROVE  LET b == Built(f)
             k == FunctionSymbol(f)
         IN  /\ Grows(b) /\ Len(b) <= Len(module) + 1
             /\ k \in 1 .. Len(b)
             /\ b[k].kind = "fun" /\ b[k].name = f.name
             /\ Len(b) # Len(module) =>
                  k = Len(module) + 1 /\ Named("fun", f.name) = {}
<1> DEFINE w == WithFunction(f)
           b == Built(f)
           k == FunctionSymbol(f)
<1>1. /\ Grows(w) /\ Len(w) <= Len(module) + 1
      /\ k \in 1 .. Len(w) /\ w[k].kind = "fun" /\ w[k].name = f.name
      /\ Len(w) # Len(module) =>
           k = Len(module) + 1 /\ Named("fun", f.name) = {}
  BY WithFunctionFacts
<1>2. /\ b \in Seq(SymbolRecords) /\ Len(b) = Len(w)
      /\ \A i \in 1 .. Len(w) :
           /\ b[i].kind = w[i].kind /\ b[i].name = w[i].name
           /\ b[i].renamed = w[i].renamed /\ b[i].type = w[i].type
  BY BuiltFacts
<1>3. Len(module) \in Nat /\ Len(w) \in Nat
  BY <1>1 DEF Grows, Kept
<1> HIDE DEF w, b, k
<1>4. Kept(b)
  BY <1>1, <1>2, <1>3 DEF Grows, Kept
<1>5. Fresh(b)
  BY <1>1, <1>2, <1>3 DEF Grows, Fresh
<1> QED
  BY <1>1, <1>2, <1>4, <1>5 DEF Grows, b, k

(* The string of __func__ comes behind the function. *)
LEMMA FuncStrGrows ==
  ASSUME module \in Seq(SymbolRecords), NEW f \in Funcs,
         Signatures \subseteq FuncTypes
  PROVE  LET b == Built(f)
             t == WithFuncStr(b, f.name)
         IN  /\ Grows(t)
             /\ Len(b) <= Len(t)
             /\ \A i \in 1 .. Len(b) : t[i] = b[i]
             /\ \A i \in Len(b) + 1 .. Len(t) :
                  t[i].kind = "var" /\ t[i].name = FuncStr(f.name)
<1> DEFINE b == Built(f)
           n == FuncStr(f.name)
           s == [Symbol("var", n, NoType) EXCEPT !.private = TRUE, !.has = TRUE]
           t == WithFuncStr(b, f.name)
<1>1. Grows(b) /\ Len(b) <= Len(module) + 1 /\ b \in Seq(SymbolRecords)
  BY BuiltGrows DEF Grows, Kept
<1>2. Len(b) \in Nat /\ Len(module) \in Nat
  BY <1>1
<1>3. t = b \/ t = Append(b, s)
  BY DEF WithFuncStr
<1>4. n \in SymbolNames /\ f.name \in Names /\ n # f.name
  BY StringsAssumption DEF SymbolNames, Funcs
<1>5. /\ s \in SymbolRecords
      /\ s.kind = "var" /\ s.name = n
      /\ s.renamed => Taken(n)
      /\ ~s.renamed => ~Taken(n)
  BY <1>4, StringFacts
<1>6. \A i \in Len(module) + 1 .. Len(b) : b[i].name = f.name
  <2> DEFINE k == FunctionSymbol(f)
  <2>1. /\ b[k].name = f.name
        /\ Len(b) # Len(module) => k = Len(module) + 1
    BY BuiltGrows
  <2> HIDE DEF b, k
  <2> QED
    BY <1>1, <1>2, <2>1
<1> HIDE DEF b, n, s, t
<1>7. CASE t = b
  BY <1>1, <1>2, <1>7 DEF b, t, n
<1>8. CASE t = Append(b, s)
  <2>1. /\ t \in Seq(SymbolRecords) /\ Len(t) = Len(b) + 1 /\ t[Len(b) + 1] = s
        /\ \A i \in 1 .. Len(b) : t[i] = b[i]
    BY <1>1, <1>5, <1>8
  <2>2. Kept(t)
    BY <1>1, <1>2, <2>1 DEF Grows, Kept
  <2>3. \A i \in Len(module) + 1 .. Len(t) :
          /\ t[i].renamed => Taken(t[i].name)
          /\ ~t[i].renamed => ~Taken(t[i].name)
    BY <1>1, <1>2, <1>5, <2>1 DEF Grows, Fresh
  <2>4. \A i, j \in Len(module) + 1 .. Len(t) : t[i].name = t[j].name => i = j
    BY <1>1, <1>2, <1>4, <1>5, <1>6, <2>1
  <2> QED
    BY <1>2, <1>5, <2>1, <2>2, <2>3, <2>4 DEF Grows, Fresh, b, t, n
<1> QED
  BY <1>3, <1>7, <1>8

(* A function that a call declares. *)
LEMMA FunctionFacts ==
  ASSUME NEW n \in Names, NEW y \in FuncTypes
  PROVE  LET s == Symbol("fun", n, y)
         IN  /\ s \in SymbolRecords
             /\ s.kind = "fun" /\ s.name = n /\ s.type = y /\ s.private = FALSE
             /\ s.renamed => Taken(n)
             /\ ~s.renamed => ~Taken(n)
<1>1. Taken(n) \in BOOLEAN /\ n \in SymbolNames /\ y \in FuncTypes
  BY DEF Taken, SymbolNames
<1> DEFINE r == Taken(n)
           s == Symbol("fun", n, y)
<1>2. s = [kind |-> "fun", name |-> n, renamed |-> r, type |-> y,
           private |-> FALSE, has |-> FALSE]
  BY DEF Symbol
<1>3. r \in BOOLEAN
  BY <1>1
<1> HIDE DEF r, s
<1>4. /\ s \in SymbolRecords
      /\ s.kind = "fun" /\ s.name = n /\ s.type = y /\ s.private = FALSE
      /\ s.renamed = r
  BY ONLY <1>1, <1>2, <1>3 DEF SymbolRecords
<1> QED
  BY <1>4 DEF r, s

-----------------------------------------------------------------------------
(* What each action adds to the module *)

LEMMA StringGrows ==
  ASSUME TypeOK, GenString
  PROVE  /\ Grows(module') /\ Len(module') = Len(module) + 1
         /\ module'[Len(module) + 1].kind = "var"
         /\ module'[Len(module) + 1].name \in StrNames
<1> DEFINE n == Str(Len(module) - 1)
           s == [Symbol("var", n, NoType) EXCEPT !.private = TRUE, !.has = TRUE]
<1>1. module \in Seq(SymbolRecords) /\ Len(module) \in Nat /\ 1 <= Len(module)
  BY DEF TypeOK
<1>2. n \in StrNames /\ n \in SymbolNames
  BY <1>1, BoundsAssumption DEF GenString, StrNames, SymbolNames
<1>3. module' = Append(module, s)
  BY DEF GenString
<1>4. s \in SymbolRecords /\ s.kind = "var" /\ s.name = n
      /\ (s.renamed => Taken(n)) /\ (~s.renamed => ~Taken(n))
  <2> HIDE DEF n
  <2> QED
    BY <1>2, StringFacts, Zenon
<1> HIDE DEF n, s
<1> QED
  BY <1>1, <1>2, <1>3, <1>4, AppendGrows

LEMMA GlobalGrows ==
  ASSUME TypeOK, NEW n \in Names, NEW extern \in BOOLEAN, NEW init,
         GenGlobal(n, extern, init)
  PROVE  /\ Grows(module') /\ Len(module') = Len(module) + 1
         /\ module'[Len(module) + 1].kind = "var"
         /\ module'[Len(module) + 1].name = n
<1> DEFINE e == ~extern
           g == Symbol("var", n, NoType)
           s == [g EXCEPT !.has = e]
           r == Taken(n)
<1>1. module \in Seq(SymbolRecords) /\ Len(module) \in Nat
  BY DEF TypeOK
<1>2. n \in SymbolNames /\ NoType \in FuncTypes
  BY DEF SymbolNames, NoType, FuncTypes
<1>3. module' = Append(module, s)
  BY DEF GenGlobal
<1>4. g = [kind |-> "var", name |-> n, renamed |-> r, type |-> NoType,
           private |-> FALSE, has |-> FALSE]
  BY DEF Symbol
<1>5. r \in BOOLEAN /\ e \in BOOLEAN
  BY DEF Taken
<1> HIDE DEF g, e, r
<1>6. s \in SymbolRecords /\ s.kind = "var" /\ s.name = n /\ s.renamed = r
  BY ONLY <1>2, <1>4, <1>5 DEF SymbolRecords
<1> HIDE DEF s
<1> QED
  BY <1>1, <1>3, <1>6, AppendGrows DEF r

LEMMA CallGrows ==
  ASSUME TypeOK, NEW n \in Names, NEW args \in Args, CallUndeclared(n, args)
  PROVE  /\ Grows(module') /\ Len(module') = Len(module) + 1
         /\ module'[Len(module) + 1].kind = "fun"
         /\ module'[Len(module) + 1].name = n
         /\ module'[Len(module) + 1].type = ImplicitType(args)
         /\ module'[Len(module) + 1].private = FALSE
         /\ ImplicitType(args) \in FuncTypes
<1> DEFINE s == Symbol("fun", n, ImplicitType(args))
<1>1. module \in Seq(SymbolRecords) /\ Len(module) \in Nat
  BY DEF TypeOK
<1>2. ImplicitType(args) \in FuncTypes
  BY TypesAssumption DEF ImplicitType, FuncTypes
<1>3. module' = Append(module, s)
  BY DEF CallUndeclared
<1>4. /\ s \in SymbolRecords /\ s.kind = "fun" /\ s.name = n
      /\ s.type = ImplicitType(args) /\ s.private = FALSE
      /\ (s.renamed => Taken(n)) /\ (~s.renamed => ~Taken(n))
  <2> DEFINE y == ImplicitType(args)
  <2> HIDE DEF y
  <2> QED
    BY <1>2, FunctionFacts DEF y
<1> HIDE DEF s
<1> QED
  BY <1>1, <1>2, <1>3, <1>4, AppendGrows

(* The definition and the string of its name. *)
LEMMA BodyGrows ==
  ASSUME TypeOK, NEW f \in Funcs, NEW known, BeginBody(f, known)
  PROVE  LET k == FunctionSymbol(f)
         IN  /\ Grows(module')
             /\ k \in 1 .. Len(module')
             /\ module'[k].kind = "fun" /\ module'[k].name = f.name
             /\ \A i \in Len(module) + 1 .. Len(module') :
                  IF i = k THEN Named("fun", f.name) = {}
                  ELSE /\ module'[i].kind = "var"
                       /\ module'[i].name = FuncStr(f.name)
<1> DEFINE b == Built(f)
           k == FunctionSymbol(f)
<1>1. module \in Seq(SymbolRecords) /\ Len(module) \in Nat
  BY DEF TypeOK
<1>2. module' = WithFuncStr(b, f.name)
  BY DEF BeginBody
<1>3. /\ Grows(b) /\ Len(b) <= Len(module) + 1
      /\ k \in 1 .. Len(b) /\ b[k].kind = "fun" /\ b[k].name = f.name
      /\ Len(b) # Len(module) =>
           k = Len(module) + 1 /\ Named("fun", f.name) = {}
  BY <1>1, TypesAssumption, BuiltGrows
<1>4. /\ Grows(module') /\ Len(b) <= Len(module')
      /\ \A i \in 1 .. Len(b) : module'[i] = b[i]
      /\ \A i \in Len(b) + 1 .. Len(module') :
           module'[i].kind = "var" /\ module'[i].name = FuncStr(f.name)
  BY <1>1, <1>2, TypesAssumption, FuncStrGrows
<1>5. Len(b) \in Nat /\ Len(module') \in Nat /\ Len(module) <= Len(b)
  BY <1>3, <1>4 DEF Grows, Kept
<1> HIDE DEF b, k
<1> QED
  BY <1>1, <1>3, <1>4, <1>5 DEF k

LEMMA PrototypeGrows ==
  ASSUME TypeOK, NEW f \in Funcs, GenPrototype(f)
  PROVE  LET k == FunctionSymbol(f)
         IN  /\ Grows(module')
             /\ k \in 1 .. Len(module')
             /\ module'[k].kind = "fun" /\ module'[k].name = f.name
             /\ \A i \in Len(module) + 1 .. Len(module') :
                  i = k /\ Named("fun", f.name) = {}
<1> DEFINE k == FunctionSymbol(f)
<1>1. module \in Seq(SymbolRecords) /\ Len(module) \in Nat
  BY DEF TypeOK
<1>2. module' = Built(f)
  BY DEF GenPrototype
<1>3. /\ Grows(module') /\ Len(module') <= Len(module) + 1
      /\ k \in 1 .. Len(module')
      /\ module'[k].kind = "fun" /\ module'[k].name = f.name
      /\ Len(module') # Len(module) =>
           k = Len(module) + 1 /\ Named("fun", f.name) = {}
  BY <1>1, <1>2, TypesAssumption, BuiltGrows
<1>4. Len(module') \in Nat
  BY <1>3 DEF Grows, Kept
<1> HIDE DEF k
<1> QED
  BY <1>1, <1>3, <1>4 DEF k

(* What is in an added symbol: a function that could not be found, or a
   variable that is not the name of a function unless it is a global. *)
Vars(globals) == globals \cup StrNames \cup {FuncStr(n) : n \in Names}

Added(t, globals) ==
  \A i \in Len(module) + 1 .. Len(t) :
     \/ /\ t[i].kind = "fun" /\ t[i].name \in Names
        /\ Named("fun", t[i].name) = {}
     \/ t[i].kind = "var" /\ t[i].name \in Vars(globals)

LEMMA StepGrows ==
  ASSUME TypeOK, [Next]_vars
  PROVE  /\ Grows(module') /\ Added(module', GvarNames')
         /\ GvarNames \subseteq GvarNames'
<1>1. /\ module \in Seq(SymbolRecords) /\ Len(module) \in Nat
      /\ gvars \in Seq(Gvars)
  BY DEF TypeOK
<1>2. CASE UNCHANGED <<module, gvars>>
  BY <1>1, <1>2 DEF Grows, Kept, Fresh, Added, GvarNames
<1>3. CASE GenString
  <2>1. /\ Grows(module') /\ Len(module') = Len(module) + 1
        /\ module'[Len(module) + 1].kind = "var"
        /\ module'[Len(module) + 1].name \in StrNames
    BY <1>3, StringGrows
  <2>2. Added(module', GvarNames')
    BY <1>1, <2>1 DEF Added, Vars
  <2> QED
    BY <1>3, <2>1, <2>2 DEF GenString, GvarNames
<1>4. ASSUME NEW n \in Names, NEW extern \in BOOLEAN, NEW init,
             GenGlobal(n, extern, init)
      PROVE  /\ Grows(module') /\ Added(module', GvarNames')
             /\ GvarNames \subseteq GvarNames'
  <2>1. /\ Grows(module') /\ Len(module') = Len(module) + 1
        /\ module'[Len(module) + 1].kind = "var"
        /\ module'[Len(module) + 1].name = n
    BY <1>4, GlobalGrows
  <2> DEFINE g == [name |-> n, extern |-> extern]
  <2>2. gvars' = Append(gvars, g) /\ g \in Gvars /\ g.name = n
    BY <1>4 DEF GenGlobal, Gvars
  <2> HIDE DEF g
  <2>3. /\ Len(gvars') = Len(gvars) + 1 /\ Len(gvars) \in Nat
        /\ gvars'[Len(gvars) + 1].name = n
        /\ \A i \in 1 .. Len(gvars) : gvars'[i] = gvars[i]
    BY <1>1, <2>2
  <2>4. GvarNames \subseteq GvarNames' /\ n \in GvarNames'
    BY <2>3 DEF GvarNames
  <2>5. Added(module', GvarNames')
    BY <1>1, <2>1, <2>4 DEF Added, Vars
  <2> QED
    BY <2>1, <2>4, <2>5
<1>5. ASSUME NEW f \in Funcs, GenPrototype(f)
      PROVE  /\ Grows(module') /\ Added(module', GvarNames')
             /\ GvarNames \subseteq GvarNames'
  <2>1. /\ Grows(module')
        /\ \A i \in Len(module) + 1 .. Len(module') :
             /\ module'[i].kind = "fun" /\ module'[i].name = f.name
             /\ Named("fun", f.name) = {}
    BY <1>5, PrototypeGrows
  <2>2. f.name \in Names
    BY DEF Funcs
  <2>3. Added(module', GvarNames')
    BY <2>1, <2>2 DEF Added
  <2> QED
    BY <1>5, <2>1, <2>3 DEF GenPrototype, GvarNames
<1>6. ASSUME NEW f \in Funcs, NEW known, BeginBody(f, known)
      PROVE  /\ Grows(module') /\ Added(module', GvarNames')
             /\ GvarNames \subseteq GvarNames'
  <2>1. /\ Grows(module')
        /\ \A i \in Len(module) + 1 .. Len(module') :
             \/ /\ module'[i].kind = "fun" /\ module'[i].name = f.name
                /\ Named("fun", f.name) = {}
             \/ module'[i].kind = "var" /\ module'[i].name = FuncStr(f.name)
    BY <1>6, BodyGrows
  <2>2. f.name \in Names
    BY DEF Funcs
  <2>3. Added(module', GvarNames')
    BY <2>1, <2>2 DEF Added, Vars
  <2> QED
    BY <1>6, <2>1, <2>3 DEF BeginBody, GvarNames
<1>7. ASSUME NEW n \in Names, NEW args \in Args, CallUndeclared(n, args)
      PROVE  /\ Grows(module') /\ Added(module', GvarNames')
             /\ GvarNames \subseteq GvarNames'
  <2>1. /\ Grows(module') /\ Len(module') = Len(module) + 1
        /\ module'[Len(module) + 1].kind = "fun"
        /\ module'[Len(module) + 1].name = n
    BY <1>7, CallGrows
  <2>2. Named("fun", n) = {}
    BY <1>7 DEF CallUndeclared
  <2>3. Added(module', GvarNames')
    BY <1>1, <2>1, <2>2 DEF Added
  <2> QED
    BY <1>7, <2>1, <2>3 DEF CallUndeclared, GvarNames
<1> QED
  BY <1>2, <1>3, <1>4, <1>5, <1>6, <1>7
     DEF Next, vars, NextPass, EndBody, CallDeclared, UseGlobal, UseString,
         UseFuncStr, UseFunction, ExitOnFunction, Stopped

-----------------------------------------------------------------------------
(* Types *)

(* The type invariant without the module, which StepGrows covers. *)
RestOK ==
  /\ funcTypes \in Seq([name : Names, type : FuncTypes])
  /\ pass \in {"strings", "globals", "functions", "body", "verified", "exit",
               "undefined"}
  /\ gvars \in Seq(Gvars)
  /\ funcs \in Seq(Funcs)
  /\ reads \in SUBSET Reads
  /\ seen \subseteq GvarNames
  /\ uses \in 0 .. MaxItems

FuncOK(t, f) ==
  /\ f \in [name : Names, at : 1 .. Len(t)]
  /\ t[f.at].kind = "fun" /\ t[f.at].name = f.name

LEMMA TypeParts ==
  TypeOK <=> /\ module \in Seq(SymbolRecords) /\ FuncOK(module, func)
             /\ RestOK /\ calls \in SUBSET Calls
  BY DEF TypeOK, FuncOK, RestOK

LEMMA TypePartsNext ==
  TypeOK' <=> /\ module' \in Seq(SymbolRecords) /\ FuncOK(module', func')
              /\ RestOK' /\ (calls \in SUBSET Calls)'
  BY DEF TypeOK, FuncOK, RestOK

LEMMA KeptFunc ==
  ASSUME module \in Seq(SymbolRecords), NEW t, Kept(t), NEW f, FuncOK(module, f)
  PROVE  FuncOK(t, f)
<1>1. /\ f \in [name : Names, at : 1 .. Len(module)]
      /\ module[f.at].kind = "fun" /\ module[f.at].name = f.name
  BY DEF FuncOK
<1>2. /\ Len(module) \in Nat /\ Len(t) \in Nat /\ Len(module) <= Len(t)
      /\ \A i \in 1 .. Len(module) :
           t[i].kind = module[i].kind /\ t[i].name = module[i].name
  BY DEF Kept
<1>3. f.at \in 1 .. Len(module) /\ f.name \in Names
  BY <1>1
<1>4. f.at \in 1 .. Len(t)
  BY <1>2, <1>3
<1>5. f \in [name : Names, at : 1 .. Len(t)]
  BY <1>1, <1>3, <1>4
<1> QED
  BY <1>1, <1>2, <1>3, <1>5 DEF FuncOK

(* What a lookup yields is a position or 0. *)
LEMMA FetchedType ==
  ASSUME NEW table, Len(table) \in Nat, NEW n \in SymbolNames, NEW kind
  PROVE  Fetched(NamedIn(table, kind, n), n) \in Reads
<1> DEFINE S == NamedIn(table, kind, n)
<1>1. S \subseteq Nat
  BY DEF NamedIn
<1> HIDE DEF S
<1>2. At(S) \in Nat
  BY <1>1 DEF At
<1>3. Fetched(S, n) \in Reads
  BY <1>2 DEF Fetched, Reads
<1> QED
  BY <1>3 DEF S

(* The library stays the first symbol, which func is set to between bodies. *)
LEMMA FuncStep ==
  ASSUME TypeOK, FuncOK(module, NoFunc), [Next]_vars
  PROVE  FuncOK(module', func') /\ FuncOK(module', NoFunc)
<1>1. module \in Seq(SymbolRecords) /\ FuncOK(module, func) /\ Kept(module')
  BY TypeParts, StepGrows DEF Grows
<1>2. FuncOK(module', func) /\ FuncOK(module', NoFunc)
  BY <1>1, KeptFunc
<1>3. CASE func' = func
  BY <1>2, <1>3
<1>4. ASSUME NEW f \in Funcs, NEW known, BeginBody(f, known)
      PROVE  FuncOK(module', func')
  <2> DEFINE k == FunctionSymbol(f)
  <2>1. /\ k \in 1 .. Len(module') /\ module'[k].kind = "fun"
        /\ module'[k].name = f.name
    BY <1>4, BodyGrows
  <2>2. func' = [name |-> f.name, at |-> k] /\ f.name \in Names
    BY <1>4 DEF BeginBody, Funcs
  <2> HIDE DEF k
  <2> QED
    BY <2>1, <2>2 DEF FuncOK
<1>5. CASE EndBody
  BY <1>2, <1>5 DEF EndBody
<1> QED
  BY <1>2, <1>3, <1>4, <1>5
     DEF Next, vars, GenString, GenGlobal, NextPass, GenPrototype,
         CallUndeclared, CallDeclared, UseGlobal, UseString, UseFuncStr,
         UseFunction, ExitOnFunction, Stopped

LEMMA CallsStep ==
  ASSUME TypeOK, [Next]_vars
  PROVE  (calls \in SUBSET Calls)'
<1>1. /\ module \in Seq(SymbolRecords) /\ Len(module) \in Nat
      /\ funcTypes \in Seq([name : Names, type : FuncTypes])
      /\ calls \in SUBSET Calls
  BY DEF TypeOK
<1>2. CASE calls' = calls
  BY <1>1, <1>2
<1>3. ASSUME NEW n \in Names, NEW args \in Args, CallUndeclared(n, args)
      PROVE  calls' \in SUBSET Calls
  <2>1. ImplicitType(args) \in FuncTypes
    BY <1>3, CallGrows
  <2> QED
    BY <1>1, <1>3, <2>1 DEF CallUndeclared, Calls
<1>4. ASSUME NEW n \in Names, NEW args \in Args, CallDeclared(n, args)
      PROVE  calls' \in SUBSET Calls
  <2>1. PICK at \in Named("fun", n) :
          calls' = calls \cup {[name |-> n, args |-> args,
                                type |-> CallType(n, at), callee |-> at]}
    BY <1>4 DEF CallDeclared
  <2>2. at \in 1 .. Len(module) /\ module[at].type \in FuncTypes
    <3>1. at \in 1 .. Len(module)
      BY DEF Named, NamedIn
    <3>2. module[at] \in SymbolRecords
      BY <1>1, <3>1
    <3> QED
      BY <3>1, <3>2 DEF SymbolRecords
  <2>3. Cached(n) \subseteq FuncTypes
    <3> DEFINE E == [name : Names, type : FuncTypes]
    <3>1. \A e \in E : e.type \in FuncTypes
      OBVIOUS
    <3>2. funcTypes \in Seq(E)
      BY <1>1
    <3> HIDE DEF E
    <3>3. \A i \in 1 .. Len(funcTypes) : funcTypes[i] \in E
      BY <3>2
    <3> QED
      BY <3>1, <3>3 DEF Cached
  <2>4. CallType(n, at) \in FuncTypes
    BY <2>2, <2>3 DEF CallType
  <2> QED
    BY <1>1, <2>1, <2>2, <2>4 DEF Calls
<1> QED
  BY <1>2, <1>3, <1>4
     DEF Next, vars, GenString, GenGlobal, NextPass, GenPrototype, BeginBody,
         EndBody, UseGlobal, UseString, UseFuncStr, UseFunction,
         ExitOnFunction, Stopped

(* What an initializer or a body may name is the name of a symbol. *)
LEMMA InitialsType ==
  ASSUME TypeOK, NEW n \in Names
  PROVE  Initials(n) \subseteq SUBSET SymbolNames
<1>1. GvarNames \subseteq Names
  <2>1. \A i \in 1 .. Len(gvars) : gvars[i] \in Gvars
    BY DEF TypeOK
  <2> QED
    BY <2>1 DEF GvarNames, Gvars
<1>2. Strings \subseteq 0 .. MaxStrings
  BY DEF Strings
<1> QED
  BY <1>1, <1>2 DEF Initials, SymbolNames, StrNames

LEMMA ReadsStep ==
  ASSUME TypeOK, [Next]_vars
  PROVE  reads' \in SUBSET Reads
<1>1. /\ Len(module) \in Nat /\ reads \in SUBSET Reads
      /\ Names \subseteq SymbolNames
  BY DEF TypeOK, SymbolNames
<1>2. Len(module') \in Nat
  BY StepGrows DEF Grows, Kept
<1>3. CASE reads' = reads
  BY <1>1, <1>3
<1>4. ASSUME NEW n \in Names, NEW extern \in BOOLEAN, NEW init \in Initials(n),
             GenGlobal(n, extern, init)
      PROVE  reads' \in SUBSET Reads
  <2>1. init \subseteq SymbolNames
    BY InitialsType
  <2>2. ReadInitial(init) \subseteq Reads
    BY <1>2, <2>1, FetchedType DEF ReadInitial
  <2> QED
    BY <1>1, <1>4, <2>2 DEF GenGlobal
<1>5. ASSUME NEW n \in SymbolNames, NEW kind,
             reads' = reads \cup {Fetched(Named(kind, n), n)}
      PROVE  reads' \in SUBSET Reads
  <2>1. Fetched(Named(kind, n), n) \in Reads
    BY <1>1, FetchedType DEF Named
  <2> QED
    BY <1>1, <1>5, <2>1
<1>6. ASSUME NEW k \in 0 .. MaxStrings, UseString(k)
      PROVE  reads' \in SUBSET Reads
  <2>1. Str(k) \in SymbolNames
    BY DEF SymbolNames, StrNames
  <2> QED
    BY <1>5, <1>6, <2>1 DEF UseString
<1>7. CASE UseFuncStr
  <2>1. FuncStr(func.name) \in SymbolNames
    BY DEF TypeOK, SymbolNames
  <2> QED
    BY <1>5, <1>7, <2>1 DEF UseFuncStr
<1>8. ASSUME NEW n \in Names, UseGlobal(n) \/ UseFunction(n)
      PROVE  reads' \in SUBSET Reads
  BY <1>1, <1>5, <1>8 DEF UseGlobal, UseFunction
<1> QED
  BY <1>3, <1>4, <1>6, <1>7, <1>8
     DEF Next, vars, GenString, NextPass, GenPrototype, BeginBody, EndBody,
         CallUndeclared, CallDeclared, ExitOnFunction, Stopped

LEMMA RestStep ==
  ASSUME TypeOK, [Next]_vars
  PROVE  RestOK'
<1>1. RestOK /\ reads' \in SUBSET Reads /\ GvarNames \subseteq GvarNames'
  BY TypeParts, ReadsStep, StepGrows
<1>2. /\ Len(gvars) \in Nat /\ Len(funcs) \in Nat /\ MaxItems \in Nat
      /\ uses \in 0 .. MaxItems
  BY <1>1, BoundsAssumption DEF RestOK
<1>3. /\ pass' \in {"strings", "globals", "functions", "body", "verified",
                    "exit", "undefined"}
      /\ seen' \subseteq GvarNames'
  BY <1>1
     DEF RestOK, Next, vars, GenString, GenGlobal, NextPass, GenPrototype,
         BeginBody, EndBody, CallUndeclared, CallDeclared, UseGlobal, UseString,
         UseFuncStr, UseFunction, ExitOnFunction, Stopped, InBody
<1>4. uses' \in 0 .. MaxItems
  <2>1. uses' = uses \/ InBody
    BY DEF Next, vars, GenString, GenGlobal, NextPass, GenPrototype, BeginBody,
           EndBody, CallUndeclared, CallDeclared, UseGlobal, UseString,
           UseFuncStr, UseFunction, ExitOnFunction, Stopped
  <2> QED
    BY <1>2, <2>1 DEF InBody, Nodes
<1>5. funcTypes' \in Seq([name : Names, type : FuncTypes])
  <2>1. CASE funcTypes' = funcTypes
    BY <1>1, <2>1 DEF RestOK
  <2>2. ASSUME NEW n \in Names, NEW args \in Args, CallUndeclared(n, args)
        PROVE  funcTypes' \in Seq([name : Names, type : FuncTypes])
    <3> DEFINE E == [name : Names, type : FuncTypes]
               e == [name |-> n, type |-> ImplicitType(args)]
    <3>1. e \in E
      BY <2>2, CallGrows
    <3>2. funcTypes \in Seq(E) /\ funcTypes' = <<e>> \o funcTypes
      BY <1>1, <2>2 DEF RestOK, CallUndeclared
    <3> HIDE DEF E, e
    <3>3. funcTypes' \in Seq(E)
      BY <3>1, <3>2
    <3> QED
      BY <3>3 DEF E
  <2> QED
    BY <2>1, <2>2
       DEF Next, vars, GenString, GenGlobal, NextPass, GenPrototype, BeginBody,
           EndBody, CallDeclared, UseGlobal, UseString, UseFuncStr,
           UseFunction, ExitOnFunction, Stopped
<1>6. gvars' \in Seq(Gvars)
  <2>1. CASE gvars' = gvars
    BY <1>1, <2>1 DEF RestOK
  <2>2. ASSUME NEW n \in Names, NEW extern \in BOOLEAN, NEW init,
               GenGlobal(n, extern, init)
        PROVE  gvars' \in Seq(Gvars)
    <3> DEFINE g == [name |-> n, extern |-> extern]
    <3>1. g \in Gvars /\ gvars \in Seq(Gvars) /\ gvars' = Append(gvars, g)
      BY <1>1, <2>2 DEF Gvars, RestOK, GenGlobal
    <3> HIDE DEF g
    <3> QED
      BY <3>1
  <2> QED
    BY <2>1, <2>2
       DEF Next, vars, GenString, NextPass, GenPrototype, BeginBody, EndBody,
           CallUndeclared, CallDeclared, UseGlobal, UseString, UseFuncStr,
           UseFunction, ExitOnFunction, Stopped
<1>7. funcs' \in Seq(Funcs)
  <2>1. funcs \in Seq(Funcs)
    BY <1>1 DEF RestOK
  <2>2. funcs' = funcs \/ \E f \in Funcs : funcs' = Append(funcs, f)
    BY DEF Next, vars, GenString, GenGlobal, NextPass, GenPrototype, BeginBody,
           EndBody, CallUndeclared, CallDeclared, UseGlobal, UseString,
           UseFuncStr, UseFunction, ExitOnFunction, Stopped
  <2> QED
    BY <2>1, <2>2
<1> QED
  BY <1>1, <1>3, <1>4, <1>5, <1>6, <1>7 DEF RestOK

TypeInv == TypeOK /\ FuncOK(module, NoFunc)

LEMMA TypeInit == Init => TypeInv
<1> SUFFICES ASSUME Init PROVE TypeInv
  OBVIOUS
<1> DEFINE s == [kind |-> "fun", name |-> Library, renamed |-> FALSE,
                 type |-> LibraryType, private |-> FALSE, has |-> FALSE]
<1>1. s \in SymbolRecords /\ s.kind = "fun" /\ s.name = Library
  BY NamesAssumption, TypesAssumption DEF SymbolRecords, SymbolNames
<1>2. module = <<s>>
  BY DEF Init
<1> HIDE DEF s
<1>3. /\ module \in Seq(SymbolRecords) /\ Len(module) = 1
      /\ module[1].kind = "fun" /\ module[1].name = Library
  BY <1>1, <1>2
<1>4. FuncOK(module, NoFunc)
  BY <1>3, NamesAssumption DEF FuncOK, NoFunc
<1>5. RestOK
  BY BoundsAssumption DEF Init, RestOK
<1>6. func = NoFunc /\ calls \in SUBSET Calls
  BY DEF Init
<1> QED
  BY <1>3, <1>4, <1>5, <1>6, TypeParts DEF TypeInv

LEMMA TypeStep == TypeInv /\ [Next]_vars => TypeInv'
<1> SUFFICES ASSUME TypeInv, [Next]_vars PROVE TypeInv'
  OBVIOUS
<1>1. TypeOK /\ FuncOK(module, NoFunc)
  BY DEF TypeInv
<1>2. module' \in Seq(SymbolRecords)
  BY <1>1, StepGrows DEF Grows, Kept
<1>3. FuncOK(module', func') /\ FuncOK(module', NoFunc)
  BY <1>1, FuncStep
<1>4. RestOK' /\ (calls \in SUBSET Calls)'
  BY <1>1, RestStep, CallsStep
<1>5. TypeOK'
  BY <1>2, <1>3, <1>4, TypePartsNext
<1>6. FuncOK(module, NoFunc)' <=> FuncOK(module', NoFunc)
  BY DEF FuncOK, NoFunc
<1> QED
  BY <1>3, <1>5, <1>6 DEF TypeInv

(* The variables of generate_module have their types, and the body that is
   built is the body of a function of the module. *)
THEOREM TypesHold == Spec => []TypeOK
<1>1. TypeInv => TypeOK
  BY DEF TypeInv
<1> QED
  BY <1>1, TypeInit, TypeStep, PTL DEF Spec

-----------------------------------------------------------------------------
(* What a name reaches *)

(* LLVM finds at most one symbol of a name. *)
Unique ==
  \A i, j \in 1 .. Len(module) :
     ~module[i].renamed /\ ~module[j].renamed /\ module[i].name = module[j].name
     => i = j

LEMMA TakenBy ==
  ASSUME module \in Seq(SymbolRecords), NEW i \in 1 .. Len(module),
         ~module[i].renamed
  PROVE  Taken(module[i].name)
<1>1. module[i] \in SymbolRecords
  OBVIOUS
<1>2. module[i].kind \in {"fun", "var"}
  BY <1>1 DEF SymbolRecords
<1> QED
  BY <1>2 DEF Taken, Named, NamedIn

LEMMA UniqueStep ==
  ASSUME TypeOK, Unique, [Next]_vars
  PROVE  Unique'
<1>1. module \in Seq(SymbolRecords) /\ Len(module) \in Nat
  BY DEF TypeOK
<1>2. Kept(module') /\ Fresh(module')
  BY StepGrows DEF Grows
<1>3. Len(module') \in Nat /\ Len(module) <= Len(module')
  BY <1>1, <1>2 DEF Kept
<1> SUFFICES ASSUME NEW i \in 1 .. Len(module'), NEW j \in 1 .. Len(module'),
                    ~module'[i].renamed, ~module'[j].renamed,
                    module'[i].name = module'[j].name
             PROVE  i = j
  BY DEF Unique
<1>4. ASSUME NEW a \in 1 .. Len(module), ~module'[a].renamed
      PROVE  ~module[a].renamed /\ Taken(module'[a].name)
  <2>1. ~module[a].renamed /\ module'[a].name = module[a].name
    BY <1>2, <1>4 DEF Kept
  <2> QED
    BY <1>1, <2>1, TakenBy
<1>5. ASSUME NEW a \in Len(module) + 1 .. Len(module'), ~module'[a].renamed
      PROVE  ~Taken(module'[a].name)
  BY <1>2, <1>5 DEF Fresh
<1>6. CASE i \in 1 .. Len(module) /\ j \in 1 .. Len(module)
  <2>1. ~module[i].renamed /\ ~module[j].renamed /\ module[i].name = module[j].name
    BY <1>2, <1>6 DEF Kept
  <2> QED
    BY <1>6, <2>1 DEF Unique
<1>7. CASE i \in Len(module) + 1 .. Len(module') /\ j \in Len(module) + 1 .. Len(module')
  BY <1>2, <1>7 DEF Fresh
<1>8. CASE i \in 1 .. Len(module) /\ j \in Len(module) + 1 .. Len(module')
  BY <1>4, <1>5, <1>8
<1>9. CASE j \in 1 .. Len(module) /\ i \in Len(module) + 1 .. Len(module')
  BY <1>4, <1>5, <1>9
<1> QED
  BY <1>1, <1>3, <1>6, <1>7, <1>8, <1>9

(* A name that is taken stays taken, by the symbols that it had. *)
TakenIn(t, n) == NamedIn(t, "fun", n) \cup NamedIn(t, "var", n) # {}

LEMMA TakenStep ==
  ASSUME TypeOK, [Next]_vars, NEW n, Taken(n)
  PROVE  /\ TakenIn(module', n)
         /\ \A kind : NamedIn(module', kind, n) = Named(kind, n)
<1>1. /\ module \in Seq(SymbolRecords) /\ Len(module) \in Nat
  BY DEF TypeOK
<1>2. Kept(module') /\ Fresh(module')
  BY StepGrows DEF Grows
<1>3. /\ Len(module') \in Nat /\ Len(module) <= Len(module')
      /\ \A i \in 1 .. Len(module) :
           /\ module'[i].kind = module[i].kind /\ module'[i].name = module[i].name
           /\ module'[i].renamed = module[i].renamed
  BY <1>1, <1>2 DEF Kept
<1>4. \A i \in Len(module) + 1 .. Len(module') :
        module'[i].name = n => module'[i].renamed
  BY <1>2 DEF Fresh
<1>5. ASSUME NEW kind PROVE NamedIn(module', kind, n) = Named(kind, n)
  <2>1. /\ 1 .. Len(module) \subseteq 1 .. Len(module')
        /\ \A i \in 1 .. Len(module') :
             i \in 1 .. Len(module) \/ i \in Len(module) + 1 .. Len(module')
    BY <1>1, <1>3
  <2> QED
    BY <1>3, <1>4, <2>1, Zenon DEF Named, NamedIn
<1>6. TakenIn(module', n)
  BY <1>5 DEF Taken, TakenIn
<1> QED
  BY <1>5, <1>6

(* An entry of the cache has the type of the function that is found, if one
   is found: the name was given away when the entry was made. *)
EntryMatches(t, e) ==
  TakenIn(t, e.name) /\ \A i \in NamedIn(t, "fun", e.name) : t[i].type = e.type

CacheMatches == \A k \in 1 .. Len(funcTypes) : EntryMatches(module, funcTypes[k])

LEMMA EntryMatchesStep ==
  ASSUME TypeOK, [Next]_vars, NEW e, EntryMatches(module, e)
  PROVE  EntryMatches(module', e)
<1>1. Kept(module')
  BY StepGrows DEF Grows
<1>2. Taken(e.name) /\ \A i \in Named("fun", e.name) : module[i].type = e.type
  BY DEF EntryMatches, TakenIn, Taken, Named
<1>3. /\ TakenIn(module', e.name)
      /\ NamedIn(module', "fun", e.name) = Named("fun", e.name)
  BY <1>2, TakenStep
<1>4. \A i \in Named("fun", e.name) : module'[i].type = module[i].type
  BY <1>1 DEF Kept, Named, NamedIn
<1> QED
  BY <1>2, <1>3, <1>4 DEF EntryMatches

LEMMA CacheMatchesStep ==
  ASSUME TypeOK, CacheMatches, [Next]_vars
  PROVE  CacheMatches'
<1>1. \A k \in 1 .. Len(funcTypes) : EntryMatches(module', funcTypes[k])
  BY EntryMatchesStep DEF CacheMatches
<1>2. CASE funcTypes' = funcTypes
  BY <1>1, <1>2 DEF CacheMatches
<1>3. ASSUME NEW n \in Names, NEW args \in Args, CallUndeclared(n, args)
      PROVE  CacheMatches'
  <2> DEFINE e == [name |-> n, type |-> ImplicitType(args)]
             new == Len(module) + 1
  <2>1. /\ Grows(module') /\ Len(module') = new
        /\ module'[new].kind = "fun" /\ module'[new].name = n
        /\ module'[new].type = ImplicitType(args)
    BY <1>3, CallGrows
  <2>2. Named("fun", n) = {} /\ funcTypes' = <<e>> \o funcTypes
    BY <1>3 DEF CallUndeclared
  <2>3. Len(module) \in Nat /\ funcTypes \in Seq([name : Names, type : FuncTypes])
    BY DEF TypeOK
  <2>4. NamedIn(module', "fun", n) \subseteq {new}
    <3>1. \A i \in 1 .. Len(module') : i # new => i \in 1 .. Len(module)
      BY <2>1, <2>3
    <3> QED
      BY <2>1, <2>2, <3>1 DEF Grows, Kept, Named, NamedIn
  <2>5. TakenIn(module', n)
    <3>1. CASE Taken(n)
      BY <3>1, TakenStep
    <3>2. CASE ~Taken(n)
      <4>1. new \in 1 .. Len(module') /\ new \in Len(module) + 1 .. Len(module')
        BY <2>1, <2>3
      <4>2. ~module'[new].renamed
        BY <2>1, <3>2, <4>1 DEF Grows, Fresh
      <4> QED
        BY <2>1, <4>1, <4>2 DEF TakenIn, NamedIn
    <3> QED
      BY <3>1, <3>2
  <2>6. EntryMatches(module', e)
    BY <2>1, <2>4, <2>5 DEF EntryMatches
  <2> HIDE DEF e
  <2>7. /\ Len(funcTypes') = Len(funcTypes) + 1 /\ Len(funcTypes) \in Nat
        /\ funcTypes'[1] = e
        /\ \A k \in 2 .. Len(funcTypes) + 1 : funcTypes'[k] = funcTypes[k - 1]
    BY <2>2, <2>3
  <2>8. ASSUME NEW k \in 1 .. Len(funcTypes')
        PROVE  EntryMatches(module', funcTypes'[k])
    <3>1. CASE k = 1
      BY <2>6, <2>7, <3>1
    <3>2. CASE k # 1
      <4>1. k - 1 \in 1 .. Len(funcTypes) /\ funcTypes'[k] = funcTypes[k - 1]
        BY <2>7, <3>2
      <4> QED
        BY <1>1, <4>1
    <3> QED
      BY <3>1, <3>2
  <2> QED
    BY <2>8 DEF CacheMatches
<1> QED
  BY <1>2, <1>3
     DEF Next, vars, GenString, GenGlobal, NextPass, GenPrototype, BeginBody,
         EndBody, CallDeclared, UseGlobal, UseString, UseFuncStr, UseFunction,
         ExitOnFunction, Stopped

(* The type that a call takes is that of the function that it found. *)
LEMMA CallTypeMatches ==
  ASSUME CacheMatches, NEW n, NEW at \in Named("fun", n)
  PROVE  CallType(n, at) = module[at].type
<1>1. CASE Cached(n) = {}
  BY <1>1 DEF CallType
<1>2. CASE Cached(n) # {}
  <2>1. PICK t \in Cached(n) : CallType(n, at) = t
    BY <1>2 DEF CallType
  <2>2. PICK k \in 1 .. Len(funcTypes) : funcTypes[k].name = n /\ funcTypes[k].type = t
    BY <2>1 DEF Cached
  <2> QED
    BY <2>1, <2>2 DEF CacheMatches, EntryMatches, Named
<1> QED
  BY <1>1, <1>2

CallMatches(t, c) ==
  /\ c.callee \in 1 .. Len(t)
  /\ t[c.callee].kind = "fun" /\ t[c.callee].name = c.name
  /\ t[c.callee].type = c.type

LEMMA CallsMatchStep ==
  ASSUME TypeOK, CacheMatches, CallsMatchCallee, [Next]_vars
  PROVE  CallsMatchCallee'
<1>1. Kept(module') /\ Len(module) \in Nat
  BY StepGrows DEF Grows, TypeOK
<1>2. ASSUME NEW c, CallMatches(module, c)
      PROVE  CallMatches(module', c)
  BY <1>1, <1>2 DEF CallMatches, Kept
<1>3. \A c \in calls : CallMatches(module', c)
  BY <1>2 DEF CallsMatchCallee, CallMatches
<1>4. CASE calls' = calls
  BY <1>3, <1>4 DEF CallsMatchCallee, CallMatches
<1>5. ASSUME NEW n \in Names, NEW args \in Args, CallUndeclared(n, args)
      PROVE  CallsMatchCallee'
  <2> DEFINE c == [name |-> n, args |-> args, type |-> ImplicitType(args),
                   callee |-> Len(module) + 1]
  <2>1. calls' = calls \cup {c}
    BY <1>5 DEF CallUndeclared
  <2>2. CallMatches(module', c)
    <3>1. /\ Len(module') = Len(module) + 1
          /\ module'[Len(module) + 1].kind = "fun"
          /\ module'[Len(module) + 1].name = n
          /\ module'[Len(module) + 1].type = ImplicitType(args)
      BY <1>5, CallGrows
    <3> DEFINE y == ImplicitType(args)
               new == Len(module) + 1
    <3>2. /\ c.name = n /\ c.type = y /\ c.callee = new
          /\ new \in 1 .. Len(module')
      BY <1>1, <3>1
    <3> HIDE DEF c
    <3> QED
      BY <3>1, <3>2 DEF CallMatches
  <2> HIDE DEF c
  <2>3. \A d \in calls' : CallMatches(module', d)
    BY <1>3, <2>1, <2>2
  <2> QED
    BY <2>3 DEF CallsMatchCallee, CallMatches
<1>6. ASSUME NEW n \in Names, NEW args \in Args, CallDeclared(n, args)
      PROVE  CallsMatchCallee'
  <2>1. PICK at \in Named("fun", n) :
          calls' = calls \cup {[name |-> n, args |-> args,
                                type |-> CallType(n, at), callee |-> at]}
    BY <1>6 DEF CallDeclared
  <2> DEFINE c == [name |-> n, args |-> args, type |-> CallType(n, at),
                   callee |-> at]
  <2>2. /\ at \in 1 .. Len(module) /\ module[at].kind = "fun"
        /\ module[at].name = n
    BY DEF Named, NamedIn
  <2>3. CallType(n, at) = module[at].type
    BY CallTypeMatches
  <2>4. CallMatches(module, c)
    BY <2>2, <2>3 DEF CallMatches
  <2>5. calls' = calls \cup {c}
    BY <2>1
  <2> HIDE DEF c
  <2>6. \A d \in calls' : CallMatches(module', d)
    BY <1>2, <1>3, <2>4, <2>5
  <2> QED
    BY <2>6 DEF CallsMatchCallee, CallMatches
<1> QED
  BY <1>4, <1>5, <1>6
     DEF Next, vars, GenString, GenGlobal, NextPass, GenPrototype, BeginBody,
         EndBody, UseGlobal, UseString, UseFuncStr, UseFunction,
         ExitOnFunction, Stopped

(* Every call is built with the type that the function it calls has in the
   module: what the cache ctx->func_types holds is never out of date. *)
THEOREM CallsHaveCalleeType == Spec => []CallsMatchCallee
<1> DEFINE Inv == TypeInv /\ CacheMatches /\ CallsMatchCallee
<1>1. Init => Inv
  <2>1. Init => CacheMatches /\ CallsMatchCallee
    BY DEF Init, CacheMatches, CallsMatchCallee
  <2> QED
    BY <2>1, TypeInit
<1>2. Inv /\ [Next]_vars => Inv'
  BY TypeStep, CacheMatchesStep, CallsMatchStep DEF TypeInv
<1>3. Inv => CallsMatchCallee
  OBVIOUS
<1> QED
  BY <1>1, <1>2, <1>3, PTL DEF Spec

(* A function is renamed only where a global has its name; everything that is
   not a function is a global or a string. *)
NamesMatch ==
  \A i \in 1 .. Len(module) :
     \/ /\ module[i].kind = "fun" /\ module[i].name \in Names
        /\ module[i].name \notin GvarNames => ~module[i].renamed
     \/ module[i].kind = "var" /\ module[i].name \in Vars(GvarNames)

LEMMA NamesMatchStep ==
  ASSUME TypeOK, NamesMatch, [Next]_vars
  PROVE  NamesMatch'
<1> DEFINE g == GvarNames
           h == GvarNames'
<1>1. /\ Len(module) \in Nat /\ g \subseteq h
      /\ Kept(module') /\ Fresh(module') /\ Added(module', h)
  BY StepGrows DEF TypeOK, Grows
<1>2. Len(module') \in Nat /\ Len(module) <= Len(module')
  BY <1>1 DEF Kept
<1>3. Vars(g) \subseteq Vars(h)
  BY <1>1 DEF Vars
<1> HIDE DEF g, h
<1>4. ASSUME NEW i \in 1 .. Len(module')
      PROVE  \/ /\ module'[i].kind = "fun" /\ module'[i].name \in Names
                /\ module'[i].name \notin h => ~module'[i].renamed
             \/ module'[i].kind = "var" /\ module'[i].name \in Vars(h)
  <2>1. CASE i \in 1 .. Len(module)
    <3>1. \/ /\ module[i].kind = "fun" /\ module[i].name \in Names
             /\ module[i].name \notin g => ~module[i].renamed
          \/ module[i].kind = "var" /\ module[i].name \in Vars(g)
      BY <2>1 DEF NamesMatch, g
    <3>2. /\ module'[i].kind = module[i].kind /\ module'[i].name = module[i].name
          /\ module'[i].renamed = module[i].renamed
      BY <1>1, <2>1 DEF Kept
    <3> QED
      BY <1>1, <1>3, <3>1, <3>2
  <2>2. CASE i \in Len(module) + 1 .. Len(module')
    <3>1. CASE /\ module'[i].kind = "fun" /\ module'[i].name \in Names
               /\ Named("fun", module'[i].name) = {}
      <4> DEFINE n == module'[i].name
      <4>1. module'[i].renamed => Taken(n)
        BY <1>1, <2>2 DEF Fresh
      <4>2. Taken(n) => n \in g
        <5>1. ASSUME NEW j \in Named("var", n)
              PROVE  n \in Vars(g)
          BY <3>1, <5>1 DEF Named, NamedIn, NamesMatch, g
        <5>2. n \in Names
          BY <3>1
        <5> HIDE DEF n
        <5> QED
          BY <3>1, <5>1, <5>2, StringsAssumption DEF Taken, Vars, n
      <4> QED
        BY <1>1, <3>1, <4>1, <4>2
    <3> QED
      BY <1>1, <2>2, <3>1 DEF Added
  <2> QED
    BY <1>1, <1>2, <2>1, <2>2
<1> QED
  BY <1>4 DEF NamesMatch, h

LEMMA OneFunction ==
  ASSUME Unique, NamesMatch
  PROVE  OneFunctionPerName
  BY DEF Unique, NamesMatch, OneFunctionPerName

(* All nodes and calls of a name that no variable has meet in one function. *)
THEOREM NamesHaveOneFunction == Spec => []OneFunctionPerName
<1> DEFINE Inv == TypeInv /\ Unique /\ NamesMatch
<1>1. Init => Inv
  <2> SUFFICES ASSUME Init PROVE Unique /\ NamesMatch
    BY TypeInit
  <2>1. /\ Len(module) = 1 /\ module[1].kind = "fun"
        /\ module[1].name = Library /\ module[1].renamed = FALSE
    BY DEF Init
  <2> QED
    BY <2>1, NamesAssumption DEF Unique, NamesMatch
<1>2. Inv /\ [Next]_vars => Inv'
  BY TypeStep, UniqueStep, NamesMatchStep DEF TypeInv
<1>3. Inv => OneFunctionPerName
  BY OneFunction
<1> QED
  BY <1>1, <1>2, <1>3, PTL DEF Spec

-----------------------------------------------------------------------------
(* Linkage *)

(* What a node does to the linkage of symbols. *)
LinkageAfter(f) ==
  LET k == FunctionSymbol(f)
  IN  /\ k \in 1 .. Len(module')
      /\ module'[k].kind = "fun" /\ module'[k].name = f.name
      /\ \A i \in 1 .. Len(module) :
           i # k => module'[i].private = module[i].private
      /\ \A i \in Len(module) + 1 .. Len(module') :
           i # k => module'[i].kind = "var"
      /\ IF Named("fun", f.name) = {}
         THEN /\ k = Len(module) + 1
              /\ module'[k].private = Linkage(FALSE, f)
         ELSE /\ k \in Named("fun", f.name)
              /\ module'[k].private = Linkage(module[k].private, f)

LEMMA BuiltLinkage ==
  ASSUME TypeOK, NEW f \in Funcs
  PROVE  LET k == FunctionSymbol(f)
             b == Built(f)
         IN  /\ k \in 1 .. Len(b)
             /\ b[k].kind = "fun" /\ b[k].name = f.name
             /\ \A i \in 1 .. Len(module) : i # k => b[i].private = module[i].private
             /\ Len(b) \in Nat /\ Len(module) <= Len(b)
             /\ \A i \in Len(module) + 1 .. Len(b) : i = k
             /\ IF Named("fun", f.name) = {}
                THEN k = Len(module) + 1 /\ b[k].private = Linkage(FALSE, f)
                ELSE /\ k \in Named("fun", f.name)
                     /\ b[k].private = Linkage(module[k].private, f)
<1> DEFINE k == FunctionSymbol(f)
           b == Built(f)
           w == WithFunction(f)
<1>1. /\ module \in Seq(SymbolRecords) /\ Len(module) \in Nat
      /\ Signatures \subseteq FuncTypes
  BY TypesAssumption DEF TypeOK
<1>2. /\ Grows(b) /\ Len(b) <= Len(module) + 1
      /\ k \in 1 .. Len(b) /\ b[k].kind = "fun" /\ b[k].name = f.name
      /\ Len(b) # Len(module) => k = Len(module) + 1
  BY <1>1, BuiltGrows
<1>3. Len(b) \in Nat /\ Len(module) <= Len(b)
  BY <1>1, <1>2 DEF Grows, Kept
<1>4. /\ Len(b) = Len(w) /\ b[k].private = Linkage(w[k].private, f)
      /\ \A i \in 1 .. Len(w) : i # k => b[i] = w[i]
  BY <1>1, BuiltFacts
<1>5. CASE Named("fun", f.name) = {}
  <2>1. k = Len(module) + 1
    BY <1>5 DEF FunctionSymbol
  <2>2. Len(w) # Len(module)
    BY <1>1, <1>2, <1>4, <2>1
  <2>3. w[k].private = FALSE
    BY <1>1, <2>2, WithFunctionFacts
  <2>4. w = Append(module, Symbol("fun", f.name, f.type))
    BY <1>1, <2>1 DEF WithFunction
  <2> DEFINE s == Symbol("fun", f.name, f.type)
  <2> HIDE DEF s
  <2>5. \A i \in 1 .. Len(module) : w[i] = module[i]
    BY <1>1, <2>4 DEF s
  <2>6. b[k].private = Linkage(FALSE, f)
    BY <1>4, <2>3
  <2> HIDE DEF k, b, w
  <2>7. \A i \in 1 .. Len(module) : i # k => b[i].private = module[i].private
    BY <1>1, <1>3, <1>4, <2>5
  <2>8. \A i \in Len(module) + 1 .. Len(b) : i = k
    BY <1>1, <1>2, <1>3, <2>1
  <2> QED
    BY <1>2, <1>3, <1>5, <2>1, <2>6, <2>7, <2>8 DEF k, b
<1>6. CASE Named("fun", f.name) # {}
  <2>1. k \in Named("fun", f.name) /\ k \in 1 .. Len(module)
    BY <1>6, NamedFacts DEF FunctionSymbol
  <2>2. w = module
    BY <2>1 DEF WithFunction
  <2>3. b[k].private = Linkage(module[k].private, f)
    BY <1>4, <2>2
  <2> HIDE DEF k, b, w
  <2>4. /\ Len(b) = Len(module)
        /\ \A i \in 1 .. Len(module) : i # k => b[i].private = module[i].private
    BY <1>4, <2>2
  <2>5. \A i \in Len(module) + 1 .. Len(b) : i = k
    BY <1>1, <2>4
  <2> QED
    BY <1>2, <1>3, <1>6, <2>1, <2>3, <2>4, <2>5 DEF k, b
<1> QED
  BY <1>5, <1>6

LEMMA PrototypeLinkage ==
  ASSUME TypeOK, NEW f \in Funcs, GenPrototype(f)
  PROVE  LinkageAfter(f)
<1>1. module' = Built(f)
  BY DEF GenPrototype
<1> QED
  BY <1>1, BuiltLinkage DEF LinkageAfter

LEMMA BodyLinkage ==
  ASSUME TypeOK, NEW f \in Funcs, NEW known, BeginBody(f, known)
  PROVE  LinkageAfter(f)
<1> DEFINE k == FunctionSymbol(f)
           b == Built(f)
<1>1. /\ Len(module) \in Nat /\ module \in Seq(SymbolRecords)
      /\ Signatures \subseteq FuncTypes
  BY TypesAssumption DEF TypeOK
<1>2. module' = WithFuncStr(b, f.name)
  BY DEF BeginBody
<1>3. /\ Grows(module') /\ Len(b) <= Len(module')
      /\ \A i \in 1 .. Len(b) : module'[i] = b[i]
      /\ \A i \in Len(b) + 1 .. Len(module') : module'[i].kind = "var"
  BY <1>1, <1>2, FuncStrGrows
<1>4. Len(module') \in Nat
  BY <1>3 DEF Grows, Kept
<1>5. /\ k \in 1 .. Len(b)
      /\ b[k].kind = "fun" /\ b[k].name = f.name
      /\ \A i \in 1 .. Len(module) : i # k => b[i].private = module[i].private
      /\ Len(b) \in Nat /\ Len(module) <= Len(b)
      /\ \A i \in Len(module) + 1 .. Len(b) : i = k
      /\ IF Named("fun", f.name) = {}
         THEN k = Len(module) + 1 /\ b[k].private = Linkage(FALSE, f)
         ELSE /\ k \in Named("fun", f.name)
              /\ b[k].private = Linkage(module[k].private, f)
  BY BuiltLinkage
<1> HIDE DEF k, b
<1>6. /\ k \in 1 .. Len(module') /\ module'[k] = b[k]
      /\ \A i \in 1 .. Len(module) : module'[i] = b[i]
  BY <1>1, <1>3, <1>4, <1>5
<1>7. \A i \in Len(module) + 1 .. Len(module') : i # k => module'[i].kind = "var"
  BY <1>1, <1>3, <1>4, <1>5
<1> QED
  BY <1>5, <1>6, <1>7 DEF LinkageAfter, k

(* The name of a node is taken from then on. *)
NodesTaken == \A j \in 1 .. Len(funcs) : TakenIn(module, funcs[j].name)

LEMMA NodeTaken ==
  ASSUME TypeOK, [Next]_vars, NEW f \in Funcs, LinkageAfter(f)
  PROVE  TakenIn(module', f.name)
<1>1. CASE Taken(f.name)
  BY <1>1, TakenStep
<1>2. CASE ~Taken(f.name)
  <2> DEFINE k == FunctionSymbol(f)
  <2>1. Named("fun", f.name) = {}
    BY <1>2 DEF Taken
  <2>2. /\ k \in 1 .. Len(module') /\ k = Len(module) + 1
        /\ module'[k].kind = "fun" /\ module'[k].name = f.name
    BY <2>1 DEF LinkageAfter
  <2> HIDE DEF k
  <2>3. Fresh(module') /\ Len(module') \in Nat /\ Len(module) \in Nat
    BY StepGrows DEF Grows, Kept, TypeOK
  <2>4. ~module'[k].renamed
    BY <1>2, <2>2, <2>3 DEF Fresh
  <2> QED
    BY <2>2, <2>4 DEF TakenIn, NamedIn
<1> QED
  BY <1>1, <1>2

LEMMA NodesTakenStep ==
  ASSUME TypeOK, NodesTaken, [Next]_vars
  PROVE  NodesTaken'
<1>1. funcs \in Seq(Funcs)
  BY DEF TypeOK
<1>2. \A j \in 1 .. Len(funcs) : TakenIn(module', funcs[j].name)
  BY TakenStep DEF NodesTaken, Taken, TakenIn, Named
<1>3. CASE funcs' = funcs
  BY <1>2, <1>3 DEF NodesTaken
<1>4. ASSUME NEW f \in Funcs, LinkageAfter(f), funcs' = Append(funcs, f)
      PROVE  NodesTaken'
  <2>1. TakenIn(module', f.name)
    BY <1>4, NodeTaken
  <2>2. /\ Len(funcs') = Len(funcs) + 1 /\ Len(funcs) \in Nat
        /\ funcs'[Len(funcs) + 1] = f
        /\ \A j \in 1 .. Len(funcs) : funcs'[j] = funcs[j]
    BY <1>1, <1>4
  <2>3. ASSUME NEW j \in 1 .. Len(funcs')
        PROVE  TakenIn(module', funcs'[j].name)
    <3>1. CASE j \in 1 .. Len(funcs)
      BY <1>2, <2>2, <3>1
    <3>2. CASE j = Len(funcs) + 1
      BY <2>1, <2>2, <3>2
    <3> QED
      BY <2>2, <3>1, <3>2
  <2> QED
    BY <2>3 DEF NodesTaken
<1>5. ASSUME NEW f \in Funcs, GenPrototype(f) PROVE NodesTaken'
  BY <1>4, <1>5, PrototypeLinkage DEF GenPrototype
<1>6. ASSUME NEW f \in Funcs, NEW known, BeginBody(f, known) PROVE NodesTaken'
  BY <1>4, <1>6, BodyLinkage DEF BeginBody
<1> QED
  BY <1>3, <1>5, <1>6
     DEF Next, vars, GenString, GenGlobal, NextPass, EndBody, CallUndeclared,
         CallDeclared, UseGlobal, UseString, UseFuncStr, UseFunction,
         ExitOnFunction, Stopped

(* The nodes that make the function n private. *)
StaticNode(nodes, n) ==
  \E j \in 1 .. Len(nodes) : nodes[j].name = n /\ nodes[j].static

LEMMA StaticNodeAppend ==
  ASSUME funcs \in Seq(Funcs), NEW f \in Funcs, NEW n
  PROVE  /\ StaticNode(funcs, n) => StaticNode(Append(funcs, f), n)
         /\ f.name = n /\ f.static => StaticNode(Append(funcs, f), n)
         /\ StaticNode(Append(funcs, f), n) =>
              StaticNode(funcs, n) \/ (f.name = n /\ f.static)
<1> DEFINE t == Append(funcs, f)
<1>1. /\ Len(t) = Len(funcs) + 1 /\ Len(funcs) \in Nat
      /\ t[Len(funcs) + 1] = f
      /\ \A j \in 1 .. Len(funcs) : t[j] = funcs[j]
  OBVIOUS
<1> HIDE DEF t
<1>2. StaticNode(funcs, n) => StaticNode(t, n)
  BY <1>1 DEF StaticNode
<1>3. f.name = n /\ f.static => StaticNode(t, n)
  BY <1>1 DEF StaticNode
<1>4. ASSUME NEW j \in 1 .. Len(t), t[j].name = n, t[j].static
      PROVE  StaticNode(funcs, n) \/ (f.name = n /\ f.static)
  <2>1. CASE j \in 1 .. Len(funcs)
    BY <1>1, <1>4, <2>1 DEF StaticNode
  <2>2. CASE j = Len(funcs) + 1
    BY <1>1, <1>4, <2>2
  <2> QED
    BY <1>1, <2>1, <2>2
<1>5. StaticNode(t, n) => StaticNode(funcs, n) \/ (f.name = n /\ f.static)
  BY <1>4 DEF StaticNode
<1> QED
  BY <1>2, <1>3, <1>5 DEF t

Visible(i) == module[i].kind = "fun" /\ ~module[i].renamed

LEMMA PrivateForm ==
  PrivateIffStatic <=>
    \A i \in 1 .. Len(module) :
      Visible(i) => /\ module[i].private => StaticNode(funcs, module[i].name)
                    /\ StaticNode(funcs, module[i].name) => module[i].private
  BY Zenon DEF PrivateIffStatic, StaticNode, Visible

LEMMA PrivateFormNext ==
  PrivateIffStatic' <=>
    \A i \in 1 .. Len(module') :
      module'[i].kind = "fun" /\ ~module'[i].renamed =>
        /\ module'[i].private => StaticNode(funcs', module'[i].name)
        /\ StaticNode(funcs', module'[i].name) => module'[i].private
  BY Zenon DEF PrivateIffStatic, StaticNode

(* No node has a name that is free. *)
LEMMA FreeName ==
  ASSUME NodesTaken, NEW n, ~Taken(n)
  PROVE  ~StaticNode(funcs, n)
  BY Zenon DEF NodesTaken, StaticNode, TakenIn, Taken, Named

PrivateAfter(i) ==
  module'[i].kind = "fun" /\ ~module'[i].renamed =>
    /\ module'[i].private => StaticNode(funcs', module'[i].name)
    /\ StaticNode(funcs', module'[i].name) => module'[i].private

(* A symbol that no node asked for. *)
LEMMA PrivateOther ==
  ASSUME TypeOK, NodesTaken, PrivateIffStatic, [Next]_vars,
         funcs' = funcs, Len(module') = Len(module) + 1,
         \A i \in 1 .. Len(module) : module'[i] = module[i],
         module'[Len(module) + 1].kind = "fun" =>
           module'[Len(module) + 1].private = FALSE
  PROVE  PrivateIffStatic'
<1>1. Fresh(module') /\ Len(module) \in Nat
  BY StepGrows DEF Grows, TypeOK
<1>2. ASSUME NEW i \in 1 .. Len(module)
      PROVE  PrivateAfter(i)
  BY PrivateForm, Zenon DEF PrivateAfter, Visible
<1>3. PrivateAfter(Len(module) + 1)
  <2> DEFINE i == Len(module) + 1
  <2>1. i \in Len(module) + 1 .. Len(module')
    BY <1>1
  <2>2. ~module'[i].renamed => ~StaticNode(funcs, module'[i].name)
    BY <1>1, <2>1, FreeName DEF Fresh
  <2> HIDE DEF i
  <2> QED
    BY <2>2 DEF PrivateAfter, i
<1>4. \A i \in 1 .. Len(module') : i \in 1 .. Len(module) \/ i = Len(module) + 1
  BY <1>1
<1>5. \A i \in 1 .. Len(module') : PrivateAfter(i)
  BY <1>2, <1>3, <1>4
<1> QED
  BY <1>5, PrivateFormNext DEF PrivateAfter

LEMMA PrivateNode ==
  ASSUME TypeOK, Unique, NodesTaken, PrivateIffStatic, [Next]_vars,
         NEW f \in Funcs, LinkageAfter(f), funcs' = Append(funcs, f)
  PROVE  PrivateIffStatic'
<1> DEFINE k == FunctionSymbol(f)
<1>1. /\ Kept(module') /\ Fresh(module') /\ Len(module) \in Nat
      /\ funcs \in Seq(Funcs)
  BY StepGrows DEF Grows, TypeOK
<1>2. /\ k \in 1 .. Len(module')
      /\ module'[k].kind = "fun" /\ module'[k].name = f.name
      /\ \A i \in 1 .. Len(module) :
           i # k => module'[i].private = module[i].private
      /\ \A i \in Len(module) + 1 .. Len(module') :
           i # k => module'[i].kind = "var"
      /\ IF Named("fun", f.name) = {}
         THEN k = Len(module) + 1 /\ module'[k].private = Linkage(FALSE, f)
         ELSE /\ k \in Named("fun", f.name)
              /\ module'[k].private = Linkage(module[k].private, f)
  BY DEF LinkageAfter
<1> HIDE DEF k
<1>3. PrivateAfter(k)
  <2>1. /\ StaticNode(funcs, f.name) => StaticNode(funcs', f.name)
        /\ f.static => StaticNode(funcs', f.name)
        /\ StaticNode(funcs', f.name) => StaticNode(funcs, f.name) \/ f.static
    BY <1>1, StaticNodeAppend
  <2>2. CASE Named("fun", f.name) = {}
    <3>1. k \in Len(module) + 1 .. Len(module')
      BY <1>1, <1>2, <2>2
    <3>2. ~module'[k].renamed => ~StaticNode(funcs, f.name)
      BY <1>1, <1>2, <3>1, FreeName DEF Fresh
    <3>3. module'[k].private <=> f.static
      BY <1>2, <2>2, Zenon DEF Linkage
    <3> QED
      BY <1>2, <2>1, <3>2, <3>3, Zenon DEF PrivateAfter
  <2>3. CASE Named("fun", f.name) # {}
    <3>1. /\ k \in 1 .. Len(module) /\ Visible(k) /\ module[k].name = f.name
      BY <1>2, <2>3 DEF Named, NamedIn, Visible
    <3>2. module'[k].private <=> module[k].private \/ f.static
      BY <1>2, <2>3, Zenon DEF Linkage
    <3>3. /\ module[k].private => StaticNode(funcs, f.name)
          /\ StaticNode(funcs, f.name) => module[k].private
      BY <3>1, PrivateForm, Zenon
    <3> QED
      BY <1>2, <2>1, <3>2, <3>3, Zenon DEF PrivateAfter
  <2> QED
    BY <2>2, <2>3
<1>4. ASSUME NEW i \in 1 .. Len(module), i # k
      PROVE  PrivateAfter(i)
  <2> SUFFICES ASSUME module'[i].kind = "fun", ~module'[i].renamed
               PROVE  /\ module'[i].private => StaticNode(funcs', module'[i].name)
                      /\ StaticNode(funcs', module'[i].name) => module'[i].private
    BY DEF PrivateAfter
  <2> DEFINE n == module[i].name
  <2>1. Visible(i) /\ module'[i].name = n
    BY <1>1 DEF Kept, Visible
  <2>2. n # f.name
    <3> SUFFICES ASSUME n = f.name PROVE FALSE
      OBVIOUS
    <3>1. i \in Named("fun", f.name)
      BY <2>1 DEF Visible, Named, NamedIn
    <3>2. k \in Named("fun", f.name)
      BY <1>2, <3>1
    <3> QED
      BY <1>4, <3>1, <3>2 DEF Unique, Named, NamedIn
  <2>3. /\ StaticNode(funcs, n) => StaticNode(funcs', n)
        /\ StaticNode(funcs', n) => StaticNode(funcs, n)
    BY <1>1, <2>2, StaticNodeAppend
  <2>4. /\ module[i].private => StaticNode(funcs, n)
        /\ StaticNode(funcs, n) => module[i].private
    BY <2>1, PrivateForm, Zenon
  <2>5. module'[i].private = module[i].private
    BY <1>2, <1>4
  <2> QED
    BY <2>1, <2>3, <2>4, <2>5, Zenon
<1>5. ASSUME NEW i \in Len(module) + 1 .. Len(module'), i # k
      PROVE  PrivateAfter(i)
  <2>1. module'[i].kind = "var"
    BY <1>2, <1>5
  <2> QED
    BY <2>1 DEF PrivateAfter
<1>6. \A i \in 1 .. Len(module') :
        i \in 1 .. Len(module) \/ i \in Len(module) + 1 .. Len(module')
  BY <1>1 DEF Kept
<1>7. \A i \in 1 .. Len(module') : PrivateAfter(i)
  BY <1>3, <1>4, <1>5, <1>6, Zenon
<1> QED
  BY <1>7, PrivateFormNext DEF PrivateAfter

LEMMA PrivateStep ==
  ASSUME TypeOK, Unique, NodesTaken, PrivateIffStatic, [Next]_vars
  PROVE  PrivateIffStatic'
<1>1. module \in Seq(SymbolRecords) /\ Len(module) \in Nat
  BY DEF TypeOK
<1>2. CASE UNCHANGED <<module, funcs>>
  BY <1>2, Zenon DEF PrivateIffStatic
<1>3. ASSUME NEW s, module' = Append(module, s)
      PROVE  \A i \in 1 .. Len(module) : module'[i] = module[i]
  BY <1>1, <1>3
<1>4. CASE GenString
  <2>1. /\ Len(module') = Len(module) + 1
        /\ module'[Len(module) + 1].kind = "var"
    BY <1>4, StringGrows
  <2>2. funcs' = funcs /\ \A i \in 1 .. Len(module) : module'[i] = module[i]
    BY <1>3, <1>4 DEF GenString
  <2> QED
    BY <2>1, <2>2, PrivateOther
<1>5. ASSUME NEW n \in Names, NEW extern \in BOOLEAN, NEW init,
             GenGlobal(n, extern, init)
      PROVE  PrivateIffStatic'
  <2>1. /\ Len(module') = Len(module) + 1
        /\ module'[Len(module) + 1].kind = "var"
    BY <1>5, GlobalGrows
  <2>2. funcs' = funcs /\ \A i \in 1 .. Len(module) : module'[i] = module[i]
    BY <1>3, <1>5 DEF GenGlobal
  <2> QED
    BY <2>1, <2>2, PrivateOther
<1>6. ASSUME NEW n \in Names, NEW args \in Args, CallUndeclared(n, args)
      PROVE  PrivateIffStatic'
  <2>1. /\ Len(module') = Len(module) + 1
        /\ module'[Len(module) + 1].private = FALSE
    BY <1>6, CallGrows
  <2>2. funcs' = funcs /\ \A i \in 1 .. Len(module) : module'[i] = module[i]
    BY <1>3, <1>6 DEF CallUndeclared
  <2> QED
    BY <2>1, <2>2, PrivateOther
<1>7. ASSUME NEW f \in Funcs, GenPrototype(f)
      PROVE  PrivateIffStatic'
  BY <1>7, PrototypeLinkage, PrivateNode DEF GenPrototype
<1>8. ASSUME NEW f \in Funcs, NEW known, BeginBody(f, known)
      PROVE  PrivateIffStatic'
  BY <1>8, BodyLinkage, PrivateNode DEF BeginBody
<1> QED
  BY <1>2, <1>4, <1>5, <1>6, <1>7, <1>8
     DEF Next, vars, NextPass, EndBody, CallDeclared, UseGlobal, UseString,
         UseFuncStr, UseFunction, ExitOnFunction, Stopped

(* A function is private exactly if some node of its name is static, in
   whatever order prototypes, calls and the definition come. *)
THEOREM LinkageFollowsStatic == Spec => []PrivateIffStatic
<1> DEFINE Inv == TypeInv /\ Unique /\ NodesTaken /\ PrivateIffStatic
<1>1. Init => Inv
  <2> SUFFICES ASSUME Init PROVE Unique /\ NodesTaken /\ PrivateIffStatic
    BY TypeInit
  <2>1. /\ Len(module) = 1 /\ module[1].private = FALSE
        /\ Len(funcs) = 0
    BY DEF Init
  <2>2. Unique /\ NodesTaken
    BY <2>1 DEF Unique, NodesTaken
  <2>3. PrivateIffStatic
    BY <2>1 DEF PrivateIffStatic
  <2> QED
    BY <2>2, <2>3
<1>2. Inv /\ [Next]_vars => Inv'
  BY TypeStep, UniqueStep, NodesTakenStep, PrivateStep DEF TypeInv
<1>3. Inv => PrivateIffStatic
  OBVIOUS
<1> QED
  BY <1>1, <1>2, <1>3, PTL DEF Spec

-----------------------------------------------------------------------------
(* What accesses reach *)

LEMMA FetchedFound ==
  ASSUME NEW table, NEW kind, NEW n, NamedIn(table, kind, n) # {}
  PROVE  Fetched(NamedIn(table, kind, n), n).at # 0
<1> DEFINE S == NamedIn(table, kind, n)
<1>1. At(S) \in S
  BY DEF At
<1>2. \A i \in S : i # 0
  BY DEF NamedIn
<1> HIDE DEF S
<1>3. Fetched(S, n).at # 0
  BY <1>1, <1>2 DEF Fetched
<1> QED
  BY <1>3 DEF S

LEMMA NamedStays ==
  ASSUME TypeOK, [Next]_vars, NEW kind \in {"fun", "var"}, NEW n,
         Named(kind, n) # {}
  PROVE  NamedIn(module', kind, n) # {}
<1>1. Taken(n)
  BY DEF Taken
<1> QED
  BY <1>1, TakenStep

(* String k is the symbol behind the library and the strings before it, and is
   found by its name. *)
StringsNumbered ==
  \A i \in 2 .. Len(module) :
    module[i].name \in StrNames =>
      /\ module[i].name = Str(i - 2) /\ module[i].kind = "var"
      /\ ~module[i].renamed

(* Until functions are generated the library's are the only ones. *)
LibraryAlone ==
  pass \in {"strings", "globals"} =>
    \A i \in 1 .. Len(module) :
      module[i].kind = "fun" => module[i].name = Library

GlobalsFound ==
  \A n \in GvarNames \ {Library} : Named("var", n) # {}

FuncStrFound == pass = "body" => Named("var", FuncStr(func.name)) # {}

LEMMA StringNames ==
  /\ \A j, k : Str(j) = Str(k) => j = k
  /\ \A n \in Names : n \notin StrNames /\ FuncStr(n) \notin StrNames
  /\ \A n \in Names : FuncStr(n) \notin Names
<1>1. \A j, k : Str(j) = Str(k) => j = k
  BY DEF Str
<1>2. \A n, k : FuncStr(n) # Str(k)
  BY DEF Str, FuncStr
<1> QED
  BY <1>1, <1>2, StringsAssumption DEF StrNames

(* Only the first pass adds strings of literals. *)
LEMMA OtherNames ==
  ASSUME TypeOK, Next, ~GenString,
         NEW i \in Len(module) + 1 .. Len(module')
  PROVE  module'[i].name \notin StrNames
<1>1. Len(module) \in Nat
  BY DEF TypeOK
<1>2. ASSUME NEW n \in Names, NEW extern \in BOOLEAN, NEW init,
             GenGlobal(n, extern, init)
      PROVE  module'[i].name \notin StrNames
  BY <1>1, <1>2, GlobalGrows, StringNames
<1>3. ASSUME NEW f \in Funcs, GenPrototype(f)
      PROVE  module'[i].name \notin StrNames
  <2>1. module'[i].name = f.name
    BY <1>3, PrototypeGrows
  <2> QED
    BY <2>1, StringNames DEF Funcs
<1>4. ASSUME NEW f \in Funcs, NEW known, BeginBody(f, known)
      PROVE  module'[i].name \notin StrNames
  <2>1. module'[i].name \in {f.name, FuncStr(f.name)}
    BY <1>4, BodyGrows
  <2> QED
    BY <2>1, StringNames DEF Funcs
<1>5. ASSUME NEW n \in Names, NEW args \in Args, CallUndeclared(n, args)
      PROVE  module'[i].name \notin StrNames
  <2>1. Len(module') = Len(module) + 1 /\ module'[Len(module) + 1].name = n
    BY <1>5, CallGrows
  <2>2. i = Len(module) + 1
    BY <1>1, <2>1
  <2> QED
    BY <2>1, <2>2, StringNames
<1>6. CASE module' = module
  BY <1>1, <1>6
<1> QED
  BY <1>2, <1>3, <1>4, <1>5, <1>6
     DEF Next, vars, NextPass, EndBody, CallDeclared, UseGlobal, UseString,
         UseFuncStr, UseFunction, ExitOnFunction, Stopped

LEMMA StringsNumberedStep ==
  ASSUME TypeInv, NamesMatch, StringsNumbered, [Next]_vars
  PROVE  StringsNumbered'
<1>1. /\ TypeOK /\ module \in Seq(SymbolRecords) /\ Len(module) \in Nat
      /\ Kept(module') /\ Fresh(module')
  BY StepGrows DEF TypeInv, TypeOK, Grows
<1>2. /\ Len(module') \in Nat /\ Len(module) <= Len(module')
  BY <1>1 DEF Kept
<1> SUFFICES ASSUME NEW i \in 2 .. Len(module'), module'[i].name \in StrNames
             PROVE  /\ module'[i].name = Str(i - 2) /\ module'[i].kind = "var"
                    /\ ~module'[i].renamed
  BY DEF StringsNumbered
<1>3. CASE i \in 1 .. Len(module)
  BY <1>1, <1>3 DEF Kept, StringsNumbered
<1>4. CASE i \in Len(module) + 1 .. Len(module')
  <2>1. GenString
    BY <1>1, <1>4, OtherNames DEF vars
  <2> DEFINE n == Str(Len(module) - 1)
             s == [Symbol("var", n, NoType) EXCEPT !.private = TRUE, !.has = TRUE]
  <2>2. /\ Len(module') = Len(module) + 1
        /\ module'[Len(module) + 1].kind = "var"
    BY <1>1, <2>1, StringGrows
  <2>3. i = Len(module) + 1 /\ i - 2 = Len(module) - 1
    BY <1>1, <1>4, <2>2
  <2>4. module'[i].name = n
    <3>1. module' = Append(module, s)
      BY <2>1 DEF GenString
    <3>2. s.name = n
      BY DEF Symbol
    <3> HIDE DEF s
    <3> QED
      BY <1>1, <2>3, <3>1, <3>2
  <2>5. ~Taken(n)
    <3>1. ASSUME NEW j \in 1 .. Len(module), module[j].name = n
          PROVE  FALSE
      <4>1. n \in StrNames
        BY <2>4
      <4>2. CASE j = 1
        BY <1>1, <3>1, <4>1, <4>2, NamesAssumption, StringNames
           DEF TypeInv, FuncOK, NoFunc
      <4>3. CASE j # 1
        <5>1. Str(j - 2) = Str(Len(module) - 1)
          BY <3>1, <4>1, <4>3 DEF StringsNumbered
        <5>2. j - 2 = Len(module) - 1
          BY <5>1, StringNames
        <5> QED
          BY <1>1, <5>2
      <4> QED
        BY <4>2, <4>3
    <3> QED
      BY <3>1 DEF Taken, Named, NamedIn
  <2>6. ~module'[i].renamed
    BY <1>1, <1>4, <2>4, <2>5 DEF Fresh
  <2> QED
    BY <2>2, <2>3, <2>4, <2>6
<1> QED
  BY <1>1, <1>2, <1>3, <1>4

LEMMA LibraryAloneStep ==
  ASSUME TypeOK, LibraryAlone, [Next]_vars
  PROVE  LibraryAlone'
<1>1. /\ Len(module) \in Nat /\ Kept(module')
  BY StepGrows DEF TypeOK, Grows
<1>2. Len(module') \in Nat
  BY <1>1 DEF Kept
<1>3. ASSUME Len(module') = Len(module) + 1,
             module'[Len(module) + 1].kind = "var", pass' = pass
      PROVE  LibraryAlone'
  BY <1>1, <1>3 DEF LibraryAlone, Kept
<1>4. CASE GenString
  BY <1>3, <1>4, StringGrows DEF GenString
<1>5. ASSUME NEW n \in Names, NEW extern \in BOOLEAN, NEW init,
             GenGlobal(n, extern, init)
      PROVE  LibraryAlone'
  BY <1>3, <1>5, GlobalGrows DEF GenGlobal
<1>6. CASE UNCHANGED <<module, pass>> \/ NextPass
  BY <1>6 DEF LibraryAlone, NextPass
<1>7. CASE pass' \notin {"strings", "globals"}
  BY <1>7 DEF LibraryAlone
<1> QED
  BY <1>4, <1>5, <1>6, <1>7
     DEF Next, vars, GenPrototype, BeginBody, EndBody, CallUndeclared,
         CallDeclared, UseGlobal, UseString, UseFuncStr, UseFunction,
         ExitOnFunction, Stopped, InBody

LEMMA GlobalsFoundStep ==
  ASSUME TypeOK, GlobalsFound, LibraryAlone, [Next]_vars
  PROVE  GlobalsFound'
<1>1. \A m \in GvarNames \ {Library} : NamedIn(module', "var", m) # {}
  BY NamedStays DEF GlobalsFound
<1>2. CASE gvars' = gvars
  BY <1>1, <1>2 DEF GlobalsFound, GvarNames, Named
<1>3. ASSUME NEW n \in Names, NEW extern \in BOOLEAN, NEW init,
             GenGlobal(n, extern, init)
      PROVE  GlobalsFound'
  <2>1. GvarNames' \subseteq GvarNames \cup {n}
    <3> DEFINE g == [name |-> n, extern |-> extern]
    <3>1. gvars' = Append(gvars, g) /\ g.name = n /\ gvars \in Seq(Gvars)
      BY <1>3 DEF GenGlobal, TypeOK
    <3> HIDE DEF g
    <3>2. /\ Len(gvars) \in Nat /\ Len(gvars') = Len(gvars) + 1
          /\ gvars'[Len(gvars) + 1].name = n
          /\ \A i \in 1 .. Len(gvars) : gvars'[i] = gvars[i]
      BY <3>1
    <3>3. \A i \in 1 .. Len(gvars') : i \in 1 .. Len(gvars) \/ i = Len(gvars) + 1
      BY <3>2
    <3> QED
      BY <3>2, <3>3 DEF GvarNames
  <2>2. ASSUME n # Library
        PROVE  NamedIn(module', "var", n) # {}
    <3>1. CASE Named("var", n) # {}
      BY <3>1, NamedStays
    <3>2. CASE Named("var", n) = {}
      <4>1. Named("fun", n) = {}
        BY <1>3, <2>2 DEF GenGlobal, LibraryAlone, Named, NamedIn
      <4>2. /\ Grows(module') /\ Len(module') = Len(module) + 1
            /\ module'[Len(module) + 1].kind = "var"
            /\ module'[Len(module) + 1].name = n
        BY <1>3, GlobalGrows
      <4>3. Len(module) \in Nat
        BY DEF TypeOK
      <4>4. ~module'[Len(module) + 1].renamed
        BY <3>2, <4>1, <4>2, <4>3 DEF Grows, Fresh, Taken
      <4> QED
        BY <4>2, <4>3, <4>4 DEF NamedIn
    <3> QED
      BY <3>1, <3>2
  <2> QED
    BY <1>1, <2>1, <2>2 DEF GlobalsFound, Named
<1> QED
  BY <1>2, <1>3
     DEF Next, vars, GenString, NextPass, GenPrototype, BeginBody, EndBody,
         CallUndeclared, CallDeclared, UseGlobal, UseString, UseFuncStr,
         UseFunction, ExitOnFunction, Stopped

(* The string of __func__ is there when its body is read, as no function is
   named like it. *)
LEMMA BodyFuncStr ==
  ASSUME TypeOK, NamesMatch, NEW f \in Funcs, NEW known, BeginBody(f, known)
  PROVE  NamedIn(module', "var", FuncStr(f.name)) # {}
<1> DEFINE b == Built(f)
           n == FuncStr(f.name)
           s == [Symbol("var", n, NoType) EXCEPT !.private = TRUE, !.has = TRUE]
<1>1. f.name \in Names /\ n \in SymbolNames /\ n \notin Names
  BY StringNames DEF Funcs, SymbolNames
<1>2. /\ module \in Seq(SymbolRecords) /\ b \in Seq(SymbolRecords)
      /\ Kept(b) /\ Grows(module')
  BY BuiltGrows, BodyGrows, TypesAssumption DEF TypeOK, Grows, Kept
<1>3. module' = WithFuncStr(b, f.name)
  BY DEF BeginBody
<1>4. CASE NamedIn(b, "var", n) # {}
  BY <1>3, <1>4 DEF WithFuncStr
<1>5. CASE NamedIn(b, "var", n) = {}
  <2>1. module' = Append(b, s)
    BY <1>3, <1>5 DEF WithFuncStr
  <2>2. s.kind = "var" /\ s.name = n
    BY <1>1, StringFacts
  <2> HIDE DEF b, s, n
  <2>3. /\ Len(b) \in Nat /\ Len(module) \in Nat /\ Len(module) <= Len(b)
        /\ Len(module') = Len(b) + 1 /\ module'[Len(b) + 1] = s
    BY <1>2, <2>1 DEF Kept
  <2>4. Named("var", n) = {}
    <3>1. NamedIn(module, "var", n) \subseteq NamedIn(b, "var", n)
      <4>1. 1 .. Len(module) \subseteq 1 .. Len(b)
        BY <2>3
      <4> QED
        BY <1>2, <4>1 DEF Kept, NamedIn
    <3> QED
      BY <1>5, <3>1 DEF Named
  <2>5. Named("fun", n) = {}
    BY <1>1 DEF Named, NamedIn, NamesMatch
  <2>6. ~module'[Len(b) + 1].renamed
    <3>1. Len(b) + 1 \in Len(module) + 1 .. Len(module')
      BY <2>3
    <3>2. ~Taken(module'[Len(b) + 1].name)
      BY <2>2, <2>3, <2>4, <2>5 DEF Taken
    <3> QED
      BY <1>2, <3>1, <3>2 DEF Grows, Fresh
  <2>7. Len(b) + 1 \in NamedIn(module', "var", n)
    BY <2>2, <2>3, <2>6 DEF NamedIn
  <2> QED
    BY <2>7 DEF n
<1> QED
  BY <1>4, <1>5

LEMMA FuncStrStep ==
  ASSUME TypeOK, NamesMatch, FuncStrFound, [Next]_vars
  PROVE  FuncStrFound'
<1>1. CASE pass' = pass /\ func' = func
  <2>1. pass = "body" => NamedIn(module', "var", FuncStr(func.name)) # {}
    BY NamedStays DEF FuncStrFound
  <2> QED
    BY <1>1, <2>1 DEF FuncStrFound, Named
<1>2. ASSUME NEW f \in Funcs, NEW known, BeginBody(f, known)
      PROVE  FuncStrFound'
  <2>1. func'.name = f.name
    BY <1>2 DEF BeginBody
  <2> QED
    BY <1>2, <2>1, BodyFuncStr DEF FuncStrFound, Named
<1>3. CASE pass' # "body"
  BY <1>3 DEF FuncStrFound
<1> QED
  BY <1>1, <1>2, <1>3
     DEF Next, vars, GenString, GenGlobal, NextPass, GenPrototype, EndBody,
         CallUndeclared, CallDeclared, UseGlobal, UseString, UseFuncStr,
         UseFunction, ExitOnFunction, Stopped, InBody

(* A literal that the parser has numbered is found by its number. *)
LEMMA StringFound ==
  ASSUME TypeOK, StringsNumbered, NEW k \in Strings
  PROVE  Named("var", Str(k)) # {}
<1>1. /\ k \in Nat /\ k + 2 <= Len(module) /\ module[k + 2].name \in StrNames
      /\ Len(module) \in Nat
  BY BoundsAssumption DEF Strings, TypeOK
<1>2. k + 2 \in 2 .. Len(module) /\ k + 2 \in 1 .. Len(module) /\ (k + 2) - 2 = k
  BY <1>1
<1>3. /\ module[k + 2].name = Str(k) /\ module[k + 2].kind = "var"
      /\ ~module[k + 2].renamed
  BY <1>1, <1>2 DEF StringsNumbered
<1> QED
  BY <1>2, <1>3 DEF Named, NamedIn

LEMMA AccessesStep ==
  ASSUME TypeOK, StringsNumbered, GlobalsFound, GlobalsFound', FuncStrFound,
         AccessesReachASymbol, [Next]_vars
  PROVE  AccessesReachASymbol'
<1>1. ASSUME NEW kind, NEW n, n # Library => Named(kind, n) # {},
             reads' = reads \cup {Fetched(Named(kind, n), n)}
      PROVE  AccessesReachASymbol'
  <2>1. /\ Fetched(Named(kind, n), n).want = n
        /\ n # Library => Fetched(Named(kind, n), n).at # 0
    BY <1>1, FetchedFound DEF Fetched, Named
  <2> QED
    BY <1>1, <2>1 DEF AccessesReachASymbol
<1>2. ASSUME NEW n \in Names, NEW extern \in BOOLEAN, NEW init \in Initials(n),
             GenGlobal(n, extern, init)
      PROVE  AccessesReachASymbol'
  <2>1. ASSUME NEW m \in init, m # Library
        PROVE  NamedIn(module', "var", m) # {}
    <3>1. CASE m \in GvarNames \cup {n}
      <4>1. GvarNames \cup {n} \subseteq GvarNames'
        <5> DEFINE g == [name |-> n, extern |-> extern]
        <5>1. gvars' = Append(gvars, g) /\ g.name = n /\ gvars \in Seq(Gvars)
          BY <1>2 DEF GenGlobal, TypeOK
        <5> HIDE DEF g
        <5>2. /\ Len(gvars) \in Nat /\ Len(gvars') = Len(gvars) + 1
              /\ gvars'[Len(gvars) + 1].name = n
              /\ \A i \in 1 .. Len(gvars) : gvars'[i] = gvars[i]
          BY <5>1
        <5> QED
          BY <5>2 DEF GvarNames
      <4> QED
        BY <2>1, <3>1, <4>1 DEF GlobalsFound, Named
    <3>2. CASE \E k \in Strings : m = Str(k)
      BY <3>2, StringFound, NamedStays
    <3> QED
      BY <3>1, <3>2 DEF Initials
  <2>2. \A r \in ReadInitial(init) : r.want # Library => r.at # 0
    <3> SUFFICES ASSUME NEW m \in init,
                        Fetched(NamedIn(module', "var", m), m).want # Library
                 PROVE  Fetched(NamedIn(module', "var", m), m).at # 0
      BY DEF ReadInitial
    <3>1. m # Library
      BY DEF Fetched
    <3> QED
      BY <2>1, <3>1, FetchedFound
  <2>3. reads' = reads \cup ReadInitial(init)
    BY <1>2 DEF GenGlobal
  <2> QED
    BY <2>2, <2>3 DEF AccessesReachASymbol
<1>3. ASSUME NEW n \in Names, UseGlobal(n)
      PROVE  AccessesReachASymbol'
  <2>1. n \in GvarNames
    BY <1>3 DEF UseGlobal, TypeOK
  <2> QED
    BY <1>1, <1>3, <2>1 DEF UseGlobal, GlobalsFound
<1>4. ASSUME NEW k \in 0 .. MaxStrings, UseString(k)
      PROVE  AccessesReachASymbol'
  BY <1>1, <1>4, StringFound DEF UseString
<1>5. CASE UseFuncStr
  BY <1>1, <1>5 DEF UseFuncStr, InBody, FuncStrFound
<1>6. ASSUME NEW n \in Names, UseFunction(n)
      PROVE  AccessesReachASymbol'
  BY <1>1, <1>6 DEF UseFunction
<1>7. CASE reads' = reads
  BY <1>7 DEF AccessesReachASymbol
<1> QED
  BY <1>2, <1>3, <1>4, <1>5, <1>6, <1>7
     DEF Next, vars, GenString, NextPass, GenPrototype, BeginBody, EndBody,
         CallUndeclared, CallDeclared, ExitOnFunction, Stopped

(* What the parser let an expression name is in the module when it is fetched,
   so the fall-backs that read 0 are dead but for the library's names. *)
THEOREM AccessesReachSymbols == Spec => []AccessesReachASymbol
<1> DEFINE Places == StringsNumbered /\ LibraryAlone /\ GlobalsFound /\ FuncStrFound
           Inv == TypeInv /\ NamesMatch /\ Places /\ AccessesReachASymbol
<1>1. Init => Inv
  <2> SUFFICES ASSUME Init PROVE NamesMatch /\ Places /\ AccessesReachASymbol
    BY TypeInit
  <2>1. /\ Len(module) = 1 /\ module[1].kind = "fun"
        /\ module[1].name = Library /\ module[1].renamed = FALSE
        /\ gvars = <<>> /\ reads = {} /\ pass = "strings"
    BY DEF Init
  <2> QED
    BY <2>1, NamesAssumption
       DEF NamesMatch, StringsNumbered, LibraryAlone, GlobalsFound, GvarNames,
           FuncStrFound, AccessesReachASymbol
<1>2. Inv /\ [Next]_vars => Inv'
  <2> SUFFICES ASSUME Inv, [Next]_vars PROVE Inv'
    OBVIOUS
  <2>1. TypeOK /\ TypeInv' /\ NamesMatch'
    BY TypeStep, NamesMatchStep DEF TypeInv
  <2>2. Places'
    BY <2>1, StringsNumberedStep, LibraryAloneStep, GlobalsFoundStep, FuncStrStep
  <2>3. AccessesReachASymbol'
    BY <2>1, <2>2, AccessesStep
  <2> QED
    BY <2>1, <2>2, <2>3
<1>3. Inv => AccessesReachASymbol
  OBVIOUS
<1> QED
  BY <1>1, <1>2, <1>3, PTL DEF Spec

-----------------------------------------------------------------------------
(* Where the type of a function comes from *)

(* A node of the name, or a call that no declaration preceded. *)
HasOrigin(n, y) ==
  \/ \E f \in NodesOf(n) : f.type = y
  \/ Cached(n) # {} /\ \E c \in CallsOf(n) : y = ImplicitType(c.args)

TypesHaveOrigins ==
  \A n, y :
    /\ n # Library
    /\ \E i \in 1 .. Len(module) :
         module[i].kind = "fun" /\ module[i].name = n /\ module[i].type = y
    => HasOrigin(n, y)

(* The values of parameters that a function lacks are those of a node. *)
LacksParams ==
  pass = "undefined" =>
    \E f \in NodesOf(func.name) :
      ~(f.type.params <= module[func.at].type.params)

LEMMA NodesGrow ==
  ASSUME TypeOK, NEW f, funcs' = Append(funcs, f), NEW n
  PROVE  /\ NodesOf(n) \subseteq NodesOf(n)'
         /\ f.name = n => f \in NodesOf(n)'
<1>1. funcs \in Seq(Funcs)
  BY DEF TypeOK
<1>2. /\ Len(funcs) \in Nat /\ Len(funcs') = Len(funcs) + 1
      /\ funcs'[Len(funcs) + 1] = f
      /\ \A i \in 1 .. Len(funcs) : funcs'[i] = funcs[i]
  BY <1>1
<1>3. 1 .. Len(funcs) \subseteq 1 .. Len(funcs') /\ Len(funcs) + 1 \in 1 .. Len(funcs')
  BY <1>2
<1> QED
  BY <1>2, <1>3 DEF NodesOf

(* The cache is only put in front of, so a name in it stays. *)
LEMMA CacheGrows ==
  ASSUME TypeOK, NEW e, funcTypes' = <<e>> \o funcTypes, NEW n
  PROVE  /\ Cached(n) # {} => Cached(n)' # {}
         /\ e.name = n => Cached(n)' # {}
<1>1. funcTypes \in Seq([name : Names, type : FuncTypes])
  BY DEF TypeOK
<1>2. /\ Len(funcTypes) \in Nat /\ Len(funcTypes') = Len(funcTypes) + 1
      /\ funcTypes'[1] = e
      /\ \A k \in 2 .. Len(funcTypes) + 1 : funcTypes'[k] = funcTypes[k - 1]
  BY <1>1
<1>3. ASSUME NEW k \in 1 .. Len(funcTypes'), funcTypes'[k].name = n,
             \A j \in 1 .. k - 1 : funcTypes'[j].name # n
      PROVE  Cached(n)' # {}
  BY <1>3 DEF Cached
<1>4. CASE e.name = n
  <2>1. 1 \in 1 .. Len(funcTypes') /\ funcTypes'[1].name = n
    BY <1>2, <1>4
  <2>2. \A j \in 1 .. 1 - 1 : funcTypes'[j].name # n
    OBVIOUS
  <2> QED
    BY <1>3, <2>1, <2>2
<1>5. CASE e.name # n /\ Cached(n) # {}
  <2>1. PICK k \in 1 .. Len(funcTypes) :
          /\ funcTypes[k].name = n
          /\ \A j \in 1 .. k - 1 : funcTypes[j].name # n
    BY <1>5 DEF Cached
  <2>2. k + 1 \in 1 .. Len(funcTypes') /\ funcTypes'[k + 1].name = n
    BY <1>2, <2>1
  <2>3. \A j \in 1 .. (k + 1) - 1 : funcTypes'[j].name # n
    <3> SUFFICES ASSUME NEW j \in 1 .. (k + 1) - 1
                 PROVE  funcTypes'[j].name # n
      OBVIOUS
    <3>1. CASE j = 1
      BY <1>2, <1>5, <3>1
    <3>2. CASE j # 1
      <4>1. funcTypes'[j] = funcTypes[j - 1] /\ j - 1 \in 1 .. k - 1
        BY <1>2, <3>2
      <4> QED
        BY <2>1, <4>1
    <3> QED
      BY <3>1, <3>2
  <2> QED
    BY <1>3, <2>2, <2>3
<1> QED
  BY <1>4, <1>5

(* An origin is never lost. *)
LEMMA OriginStays ==
  ASSUME TypeOK, [Next]_vars, NEW n, NEW y, HasOrigin(n, y)
  PROVE  HasOrigin(n, y)'
<1>1. NodesOf(n) \subseteq NodesOf(n)'
  <2>1. CASE funcs' = funcs
    BY <2>1 DEF NodesOf
  <2> QED
    BY <2>1, NodesGrow
       DEF Next, vars, GenString, GenGlobal, NextPass, GenPrototype, BeginBody,
           EndBody, CallUndeclared, CallDeclared, UseGlobal, UseString,
           UseFuncStr, UseFunction, ExitOnFunction, Stopped
<1>2. Cached(n) # {} => Cached(n)' # {}
  <2>1. CASE funcTypes' = funcTypes
    BY <2>1 DEF Cached
  <2> QED
    BY <2>1, CacheGrows
       DEF Next, vars, GenString, GenGlobal, NextPass, GenPrototype, BeginBody,
           EndBody, CallUndeclared, CallDeclared, UseGlobal, UseString,
           UseFuncStr, UseFunction, ExitOnFunction, Stopped
<1>3. calls \subseteq calls'
  BY DEF Next, vars, GenString, GenGlobal, NextPass, GenPrototype, BeginBody,
         EndBody, CallUndeclared, CallDeclared, UseGlobal, UseString,
         UseFuncStr, UseFunction, ExitOnFunction, Stopped
<1>4. CASE \E f \in NodesOf(n) : f.type = y
  BY <1>1, <1>4 DEF HasOrigin
<1>5. CASE Cached(n) # {} /\ \E c \in CallsOf(n) : y = ImplicitType(c.args)
  BY <1>2, <1>3, <1>5 DEF HasOrigin, CallsOf, ImplicitType
<1> QED
  BY <1>4, <1>5 DEF HasOrigin

(* A function that its node adds has the type of the node. *)
LEMMA NewNodeType ==
  ASSUME TypeOK, NEW f \in Funcs, Named("fun", f.name) = {}
  PROVE  Built(f)[FunctionSymbol(f)].type = f.type
<1> DEFINE s == Symbol("fun", f.name, f.type)
           k == FunctionSymbol(f)
           w == WithFunction(f)
<1>1. module \in Seq(SymbolRecords) /\ Len(module) \in Nat
  BY DEF TypeOK
<1>2. k = Len(module) + 1
  BY DEF FunctionSymbol
<1>3. w = Append(module, s)
  BY <1>1, <1>2 DEF WithFunction
<1>4. s.type = f.type
  BY DEF Symbol
<1>5. w[k] = s /\ k \in 1 .. Len(w)
  <2> HIDE DEF s, k, w
  <2> QED
    BY <1>1, <1>2, <1>3
<1>6. Built(f)[k].type = w[k].type
  BY <1>1, <1>5, BuiltFacts, TypesAssumption
<1> QED
  BY <1>4, <1>5, <1>6

LEMMA TypesHaveOriginsStep ==
  ASSUME TypeOK, TypesHaveOrigins, [Next]_vars
  PROVE  TypesHaveOrigins'
<1>1. /\ module \in Seq(SymbolRecords) /\ Len(module) \in Nat
      /\ Kept(module')
  BY StepGrows DEF TypeOK, Grows
<1>2. Len(module') \in Nat /\ Len(module) <= Len(module')
  BY <1>1 DEF Kept
<1> SUFFICES ASSUME NEW n, NEW y, n # Library, NEW i \in 1 .. Len(module'),
                    module'[i].kind = "fun", module'[i].name = n,
                    module'[i].type = y
             PROVE  HasOrigin(n, y)'
  BY DEF TypesHaveOrigins
<1>3. CASE i \in 1 .. Len(module)
  <2>1. /\ module[i].kind = "fun" /\ module[i].name = n /\ module[i].type = y
    BY <1>1, <1>3 DEF Kept
  <2>2. HasOrigin(n, y)
    BY <1>3, <2>1 DEF TypesHaveOrigins
  <2> QED
    BY <2>2, OriginStays
<1>4. CASE i \in Len(module) + 1 .. Len(module')
  <2>1. ASSUME NEW f \in Funcs, funcs' = Append(funcs, f),
               f.name = n, f.type = y
        PROVE  HasOrigin(n, y)'
    BY <2>1, NodesGrow DEF HasOrigin
  <2>2. ASSUME NEW f \in Funcs, GenPrototype(f)
        PROVE  HasOrigin(n, y)'
    <3>1. /\ i = FunctionSymbol(f) /\ Named("fun", f.name) = {}
          /\ module'[i].name = f.name
      BY <1>4, <2>2, PrototypeGrows
    <3>2. module' = Built(f) /\ funcs' = Append(funcs, f)
      BY <2>2 DEF GenPrototype
    <3> QED
      BY <2>1, <3>1, <3>2, NewNodeType
  <2>3. ASSUME NEW f \in Funcs, NEW known, BeginBody(f, known)
        PROVE  HasOrigin(n, y)'
    <3>1. /\ i = FunctionSymbol(f) /\ Named("fun", f.name) = {}
          /\ module'[i].name = f.name
      BY <1>4, <2>3, BodyGrows
    <3>2. module' = WithFuncStr(Built(f), f.name) /\ funcs' = Append(funcs, f)
      BY <2>3 DEF BeginBody
    <3>3. module'[i] = Built(f)[i]
      BY <1>1, <3>1, <3>2, FuncStrGrows, BuiltGrows, TypesAssumption
    <3> QED
      BY <2>1, <3>1, <3>2, <3>3, NewNodeType
  <2>4. ASSUME NEW m \in Names, NEW args \in Args, CallUndeclared(m, args)
        PROVE  HasOrigin(n, y)'
    <3> DEFINE e == [name |-> m, type |-> ImplicitType(args)]
               c == [name |-> m, args |-> args, type |-> ImplicitType(args),
                     callee |-> Len(module) + 1]
    <3>1. /\ Len(module') = Len(module) + 1
          /\ module'[Len(module) + 1].name = m
          /\ module'[Len(module) + 1].type = ImplicitType(args)
      BY <2>4, CallGrows
    <3>2. m = n /\ y = ImplicitType(args)
      BY <1>1, <1>4, <3>1
    <3>3. funcTypes' = <<e>> \o funcTypes /\ calls' = calls \cup {c}
      BY <2>4 DEF CallUndeclared
    <3>4. e.name = n /\ c.name = n /\ c.args = args
      BY <3>2
    <3> HIDE DEF e, c
    <3>5. Cached(n)' # {}
      BY <3>3, <3>4, CacheGrows
    <3>6. \E d \in CallsOf(n)' : y = ImplicitType(d.args)
      BY <3>2, <3>3, <3>4 DEF CallsOf
    <3> QED
      BY <3>5, <3>6 DEF HasOrigin, ImplicitType
  <2>5. ASSUME NEW m \in Names, NEW extern \in BOOLEAN, NEW init,
               GenGlobal(m, extern, init)
        PROVE  FALSE
    BY <1>1, <1>4, <2>5, GlobalGrows
  <2>6. CASE GenString
    BY <1>1, <1>4, <2>6, StringGrows
  <2>7. CASE module' = module
    BY <1>1, <1>4, <2>7
  <2> QED
    BY <2>2, <2>3, <2>4, <2>5, <2>6, <2>7
       DEF Next, vars, NextPass, EndBody, CallDeclared, UseGlobal, UseString,
           UseFuncStr, UseFunction, ExitOnFunction, Stopped
<1> QED
  BY <1>1, <1>2, <1>3, <1>4

LEMMA LacksParamsStep ==
  ASSUME TypeOK, LacksParams, [Next]_vars
  PROVE  LacksParams'
<1>1. ASSUME NEW f \in Funcs, NEW known, BeginBody(f, known)
      PROVE  LacksParams'
  <2> DEFINE k == FunctionSymbol(f)
             b == Built(f)
  <2>1. /\ func' = [name |-> f.name, at |-> k] /\ funcs' = Append(funcs, f)
        /\ module' = WithFuncStr(b, f.name)
        /\ pass' = "undefined" => ~(f.type.params <= b[k].type.params)
    BY <1>1 DEF BeginBody, ParamsExist
  <2>2. k \in 1 .. Len(b) /\ \A i \in 1 .. Len(b) : module'[i] = b[i]
    BY <2>1, FuncStrGrows, BuiltGrows, TypesAssumption DEF TypeOK
  <2> HIDE DEF k, b
  <2>3. func'.name = f.name /\ module'[func'.at] = b[k]
    BY <2>1, <2>2
  <2>4. f \in NodesOf(f.name)'
    BY <2>1, NodesGrow
  <2>5. NodesOf(func.name)' = NodesOf(f.name)'
    BY <2>3 DEF NodesOf
  <2> QED
    BY <2>1, <2>3, <2>4, <2>5 DEF LacksParams
<1>2. CASE pass' # "undefined"
  BY <1>2 DEF LacksParams
<1>3. CASE UNCHANGED vars
  BY <1>3 DEF vars, LacksParams, NodesOf
<1> QED
  BY <1>1, <1>2, <1>3
     DEF Next, GenString, GenGlobal, NextPass, GenPrototype, EndBody,
         CallUndeclared, CallDeclared, UseGlobal, UseString, UseFuncStr,
         UseFunction, ExitOnFunction, Stopped, InBody

(* If the source agrees with itself about a name, the type of any function of
   that name takes what its calls pass, and has the parameters of its nodes. *)
LEMMA OriginFits ==
  ASSUME TypeOK, NEW n, NEW y, HasOrigin(n, y), Agreed(n)
  PROVE  /\ \A c \in CallsOf(n) : Fits(c.args, y)
         /\ \A f \in NodesOf(n) : f.type.params <= y.params
<1>1. /\ \A c \in CallsOf(n) : c.args \in Nat
      /\ \A f \in NodesOf(n) : f.type \in FuncTypes
  <2>1. \A i \in 1 .. Len(funcs) : funcs[i] \in Funcs
    BY DEF TypeOK
  <2> QED
    BY <2>1, TypesAssumption DEF TypeOK, CallsOf, Calls, NodesOf, Funcs
<1>2. CASE \E g \in NodesOf(n) : g.type = y
  <2>1. PICK g \in NodesOf(n) : g.type = y
    BY <1>2
  <2>2. \A c \in CallsOf(n) : Fits(c.args, y)
    BY <2>1 DEF Agreed
  <2>3. \A f \in NodesOf(n) : f.type = y /\ f.type.params \in Nat
    BY <1>1, <2>1 DEF Agreed, FuncTypes
  <2> QED
    BY <2>2, <2>3
<1>3. CASE Cached(n) # {} /\ \E c \in CallsOf(n) : y = ImplicitType(c.args)
  <2>1. PICK d \in CallsOf(n) : y = ImplicitType(d.args)
    BY <1>3
  <2>2. /\ y.params = d.args /\ y.variadic = TRUE /\ d.args \in Nat
        /\ \A c \in CallsOf(n) : c.args = d.args
    BY <1>1, <1>3, <2>1 DEF ImplicitType, Agreed
  <2>3. \A c \in CallsOf(n) : Fits(c.args, y)
    BY <2>2 DEF Fits
  <2>4. \A f \in NodesOf(n) : f.type.params <= d.args
    <3>1. \A f \in NodesOf(n) : Fits(d.args, f.type) /\ f.type.params \in Nat
      BY <1>1, <2>1 DEF Agreed, FuncTypes
    <3> QED
      BY <2>2, <3>1 DEF Fits
  <2> QED
    BY <2>2, <2>3, <2>4
<1> QED
  BY <1>2, <1>3 DEF HasOrigin

LEMMA AgreedFit ==
  ASSUME TypeOK, CallsMatchCallee, TypesHaveOrigins, LacksParams
  PROVE  AgreedCallsFit
<1> SUFFICES ASSUME NEW n \in Names \ {Library}, Agreed(n)
             PROVE  /\ \A c \in CallsOf(n) : Fits(c.args, c.type)
                    /\ pass = "undefined" => func.name # n
  BY DEF AgreedCallsFit
<1>1. ASSUME NEW c \in CallsOf(n)
      PROVE  Fits(c.args, c.type)
  <2>1. HasOrigin(n, c.type)
    BY DEF CallsOf, CallsMatchCallee, TypesHaveOrigins
  <2> QED
    BY <2>1, OriginFits
<1>2. ASSUME pass = "undefined", func.name = n
      PROVE  FALSE
  <2>1. /\ func.at \in 1 .. Len(module) /\ module[func.at].kind = "fun"
        /\ module[func.at].name = n
    BY <1>2 DEF TypeOK
  <2>2. HasOrigin(n, module[func.at].type)
    BY <2>1 DEF TypesHaveOrigins
  <2>3. \A f \in NodesOf(n) : f.type.params <= module[func.at].type.params
    BY <2>2, OriginFits
  <2> QED
    BY <1>2, <2>3 DEF LacksParams
<1> QED
  BY <1>1, <1>2

(* Where the source agrees with itself about a name, each call of it passes
   what its callee takes, and no body fetches a parameter that its function
   does not have, in whatever order it is called, declared and defined. *)
THEOREM AgreedCallsAlwaysFit == Spec => []AgreedCallsFit
<1> DEFINE Inv == /\ TypeInv /\ CacheMatches /\ CallsMatchCallee
                  /\ TypesHaveOrigins /\ LacksParams
<1>1. Init => Inv
  <2> SUFFICES ASSUME Init
               PROVE  /\ CacheMatches /\ CallsMatchCallee
                      /\ TypesHaveOrigins /\ LacksParams
    BY TypeInit
  <2>1. /\ Len(module) = 1 /\ module[1].name = Library
        /\ funcTypes = <<>> /\ calls = {} /\ pass = "strings"
    BY DEF Init
  <2> QED
    BY <2>1 DEF CacheMatches, CallsMatchCallee, TypesHaveOrigins, LacksParams
<1>2. Inv /\ [Next]_vars => Inv'
  BY TypeStep, CacheMatchesStep, CallsMatchStep, TypesHaveOriginsStep,
     LacksParamsStep
     DEF TypeInv
<1>3. Inv => AgreedCallsFit
  BY AgreedFit DEF TypeInv
<1> QED
  BY <1>1, <1>2, <1>3, PTL DEF Spec
=============================================================================
