------------------------------ MODULE Symbols ------------------------------
(***************************************************************************)
(* generate_module (codegen.c) and the symbol table of the LLVM module:    *)
(* predeclared functions, then string literals, then the globals of        *)
(* ctx->code, then its functions.  The top-level nodes are the             *)
(* environment; each pass takes the nodes of its kind in their order, so a *)
(* node is chosen when a pass comes to it.  What the parser lets a node    *)
(* name is a guard.  Of types only the number of parameters is kept.       *)
(***************************************************************************)
EXTENDS Integers, Sequences, FiniteSets

CONSTANTS
  Names,        \* identifiers at file scope
  Library,      \* stands for the functions that are declared at the start
  LibraryType,  \* and its type
  Signatures,   \* the function types of the source
  Args,         \* the numbers of arguments of calls
  MaxStrings,   \* bound: string literals
  MaxNodes,     \* bound: top-level nodes
  MaxItems      \* bound: these and the expressions that name a symbol

FuncTypes == [params : Nat, variadic : BOOLEAN]

ASSUME NamesAssumption == Library \in Names
ASSUME TypesAssumption ==
  Signatures \subseteq FuncTypes /\ LibraryType \in FuncTypes /\ Args \subseteq Nat
ASSUME BoundsAssumption ==
  {MaxStrings, MaxNodes, MaxItems} \subseteq Nat

VARIABLES
  module,    \* the symbols of the LLVM module in the order they were added
  funcTypes, \* ctx->func_types, the head of the list first
  pass,      \* what generate_module does
  func,      \* in a body: the function's name and its symbol
  gvars,     \* history: the nodes of globals so far
  funcs,     \* history: the nodes of functions so far
  calls,     \* history: the calls that were built
  reads,     \* history: the symbols that were fetched by a name
  seen,      \* the globals that the parser knew when it read the body
  uses       \* expressions so far

vars == <<module, funcTypes, pass, func, gvars, funcs, calls, reads, seen, uses>>

(* The name of a string is made from its number or from its function. *)
Str(k) == <<".str", k>>
FuncStr(n) == <<".funcstr", n>>
StrNames == {Str(k) : k \in 0 .. MaxStrings}
SymbolNames == Names \cup StrNames \cup {FuncStr(n) : n \in Names}

(* No identifier starts with a period. *)
ASSUME StringsAssumption ==
  Names \cap (StrNames \cup {FuncStr(n) : n \in Names}) = {}

NoType == [params |-> 0, variadic |-> FALSE]

(* A symbol that LLVM renames ("x.1") keeps here the name that it was asked
   for, but is no longer found under it.  has: a variable's initializer, or
   the entry block of a function. *)
SymbolRecords == [kind : {"fun", "var"}, name : SymbolNames, renamed : BOOLEAN,
                  type : FuncTypes, private : BOOLEAN, has : BOOLEAN]

Gvars == [name : Names, extern : BOOLEAN]
Funcs == [name : Names, type : Signatures, static : BOOLEAN,
          body : {"none", "empty", "some"}]
Calls == [name : Names, args : Args, type : FuncTypes, callee : Nat \ {0}]

(* at: the symbol, or 0 where the lookup yields NULL. *)
Reads == [want : SymbolNames, at : Nat]

NoFunc == [name |-> Library, at |-> 1]

-----------------------------------------------------------------------------
(* LLVM *)

NamedIn(table, kind, n) ==
  {i \in 1 .. Len(table) :
     table[i].kind = kind /\ table[i].name = n /\ ~table[i].renamed}

(* LLVMGetNamedFunction and LLVMGetNamedGlobal find at most one symbol. *)
Named(kind, n) == NamedIn(module, kind, n)

Taken(n) == Named("fun", n) \cup Named("var", n) # {}

Symbol(kind, n, type) ==
  [kind |-> kind, name |-> n, renamed |-> Taken(n), type |-> type,
   private |-> FALSE, has |-> FALSE]

(* The symbol that a lookup yields; 0 is NULL. *)
At(places) == IF places = {} THEN 0 ELSE CHOOSE i \in places : TRUE

Fetched(places, n) == [want |-> n, at |-> At(places)]

-----------------------------------------------------------------------------
(* generate_module *)

Init ==
  /\ module = <<[kind |-> "fun", name |-> Library, renamed |-> FALSE,
                 type |-> LibraryType, private |-> FALSE, has |-> FALSE]>>
  /\ funcTypes = <<>>
  /\ pass = "strings"
  /\ func = NoFunc
  /\ gvars = <<>> /\ funcs = <<>>
  /\ calls = {} /\ reads = {}
  /\ seen = {}
  /\ uses = 0

(* The number of the literal is that of the strings before it: nothing else
   has been added but the library. *)
GenString ==
  /\ pass = "strings"
  /\ Len(module) <= MaxStrings
  /\ module' = Append(module,
       [Symbol("var", Str(Len(module) - 1), NoType) EXCEPT
          !.private = TRUE, !.has = TRUE])
  /\ UNCHANGED <<funcTypes, pass, func, gvars, funcs, calls, reads, seen, uses>>

Nodes == Len(gvars) + Len(funcs)
MoreNodes == Nodes < MaxNodes /\ Nodes + uses < MaxItems

GvarNames == {gvars[i].name : i \in 1 .. Len(gvars)}

(* The parser numbers the literals from 0. *)
Strings == {k \in 0 .. MaxStrings :
              k + 2 <= Len(module) /\ module[k + 2].name \in StrNames}

(* What an initializer may take the address of: parse_program puts the
   variable on the list of globals before it parses the initializer.  The
   empty set is another initializer, or none. *)
Initials(n) ==
  {{}} \cup {{m} : m \in GvarNames \cup {n}} \cup {{Str(k)} : k \in Strings}

(* Slip: the initializer is generated before the variable is added. *)
ReadInitial_Before(init) == {Fetched(Named("var", m), m) : m \in init}

ReadInitial(init) == {Fetched(NamedIn(module', "var", m), m) : m \in init}

(* A node that is not extern has an initializer, if only zero.  (The parser
   drops `static' of a variable.) *)
GenGlobal(n, extern, init) ==
  /\ pass = "globals"
  /\ MoreNodes
  /\ extern => init = {}
  /\ module' = Append(module, [Symbol("var", n, NoType) EXCEPT !.has = ~extern])
  /\ gvars' = Append(gvars, [name |-> n, extern |-> extern])
  /\ reads' = reads \cup ReadInitial(init)
  /\ UNCHANGED <<funcTypes, pass, func, funcs, calls, seen, uses>>

(* The next loop of generate_module, or its end. *)
NextPass ==
  /\ \/ pass = "strings" /\ pass' = "globals"
     \/ pass = "globals" /\ pass' = "functions"
     \/ pass = "functions" /\ pass' = "verified"
  /\ UNCHANGED <<module, funcTypes, func, gvars, funcs, calls, reads, seen, uses>>

(* Slip: a definition is added without a look at what is there. *)
FunctionSymbol_AlwaysNew(f) == Len(module) + 1

(* The symbol of node f: one that is there, whatever its type, or a new one. *)
FunctionSymbol(f) ==
  IF Named("fun", f.name) = {} THEN Len(module) + 1
  ELSE At(Named("fun", f.name))

WithFunction(f) ==
  IF FunctionSymbol(f) \in 1 .. Len(module) THEN module
  ELSE Append(module, Symbol("fun", f.name, f.type))

(* Slip: a node that is not static makes its function external again. *)
Linkage_Last(private, f) == f.static

(* A static node makes the function private; nothing makes it external. *)
Linkage(private, f) == private \/ f.static

(* Every node sets the linkage; one with a body has its entry block built. *)
Built(f) ==
  [WithFunction(f) EXCEPT
     ![FunctionSymbol(f)].private = Linkage(@, f),
     ![FunctionSymbol(f)].has = @ \/ f.body = "some"]

(* A prototype, or a definition whose body has no statement: for both the
   node has no body. *)
GenPrototype(f) ==
  /\ pass = "functions"
  /\ MoreNodes
  /\ f.body # "some"
  /\ module' = Built(f)
  /\ funcs' = Append(funcs, f)
  /\ UNCHANGED <<funcTypes, pass, func, gvars, calls, reads, seen, uses>>

(* The string of __func__, one per name of a function. *)
WithFuncStr(table, n) ==
  IF NamedIn(table, "var", FuncStr(n)) # {} THEN table
  ELSE Append(table, [Symbol("var", FuncStr(n), NoType) EXCEPT
                        !.private = TRUE, !.has = TRUE])

(* The values of the node's parameters are fetched from the function: one
   that the function does not have is undefined behaviour. *)
ParamsExist(f) == f.type.params <= Built(f)[FunctionSymbol(f)].type.params

BeginBody(f, known) ==
  /\ pass = "functions"
  /\ MoreNodes
  /\ f.body = "some"
  /\ seen \subseteq known
  /\ seen' = known
  /\ module' = WithFuncStr(Built(f), f.name)
  /\ func' = [name |-> f.name, at |-> FunctionSymbol(f)]
  /\ funcs' = Append(funcs, f)
  /\ pass' = IF ParamsExist(f) THEN "body" ELSE "undefined"
  /\ UNCHANGED <<funcTypes, gvars, calls, reads, uses>>

EndBody ==
  /\ pass = "body"
  /\ pass' = "functions"
  /\ func' = NoFunc
  /\ UNCHANGED <<module, funcTypes, gvars, funcs, calls, reads, seen, uses>>

-----------------------------------------------------------------------------
(* codegen: the expressions that name a symbol *)

InBody ==
  /\ pass = "body" /\ Nodes + uses < MaxItems
  /\ uses' = uses + 1 /\ seen' = seen

(* The type of the first entry for the name. *)
Cached(n) ==
  {funcTypes[i].type : i \in {k \in 1 .. Len(funcTypes) :
     funcTypes[k].name = n /\ \A j \in 1 .. k - 1 : funcTypes[j].name # n}}

(* Slip: an undeclared function is declared without parameters. *)
ImplicitType_NoParams(args) == [params |-> 0, variadic |-> TRUE]

(* A function that nothing has declared gets its type from the call. *)
ImplicitType(args) == [params |-> args, variadic |-> TRUE]

(* The parser takes n(...) for a call of the function n unless it knows a
   variable n. *)
CallUndeclared(n, args) ==
  /\ InBody
  /\ n \notin seen
  /\ Named("fun", n) = {}
  /\ module' = Append(module, Symbol("fun", n, ImplicitType(args)))
  /\ funcTypes' = <<[name |-> n, type |-> ImplicitType(args)]>> \o funcTypes
  /\ calls' = calls \cup {[name |-> n, args |-> args, type |-> ImplicitType(args),
                            callee |-> Len(module) + 1]}
  /\ UNCHANGED <<pass, func, gvars, funcs, reads>>

(* Slip: the type is the one of the last function that was called without a
   declaration. *)
CallType_Latest(n, at) ==
  IF funcTypes = <<>> THEN module[at].type ELSE funcTypes[1].type

CallType(n, at) ==
  IF Cached(n) = {} THEN module[at].type ELSE CHOOSE t \in Cached(n) : TRUE

CallDeclared(n, args) ==
  /\ InBody
  /\ n \notin seen
  /\ \E at \in Named("fun", n) :
       calls' = calls \cup {[name |-> n, args |-> args, type |-> CallType(n, at),
                             callee |-> at]}
  /\ UNCHANGED <<module, funcTypes, pass, func, gvars, funcs, reads>>

(* A load, a store or the address of a global, or a call through it. *)
UseGlobal(n) ==
  /\ InBody
  /\ n \in seen
  /\ reads' = reads \cup {Fetched(Named("var", n), n)}
  /\ UNCHANGED <<module, funcTypes, pass, func, gvars, funcs, calls>>

UseString(k) ==
  /\ InBody
  /\ k \in Strings
  /\ reads' = reads \cup {Fetched(Named("var", Str(k)), Str(k))}
  /\ UNCHANGED <<module, funcTypes, pass, func, gvars, funcs, calls>>

(* __func__ *)
UseFuncStr ==
  /\ InBody
  /\ reads' = reads \cup {Fetched(Named("var", FuncStr(func.name)),
                                 FuncStr(func.name))}
  /\ UNCHANGED <<module, funcTypes, pass, func, gvars, funcs, calls>>

(* The parser names a function that is complete, so not the one around. *)
MayName(n) == n \notin seen /\ \E i \in 1 .. Len(funcs) - 1 : funcs[i].name = n

UseFunction(n) ==
  /\ InBody
  /\ MayName(n)
  /\ Named("fun", n) # {}
  /\ reads' = reads \cup {Fetched(Named("fun", n), n)}
  /\ UNCHANGED <<module, funcTypes, pass, func, gvars, funcs, calls>>

ExitOnFunction(n) ==
  /\ InBody
  /\ MayName(n)
  /\ Named("fun", n) = {}
  /\ pass' = "exit"
  /\ UNCHANGED <<module, funcTypes, func, gvars, funcs, calls, reads>>

Stopped == pass \in {"verified", "exit", "undefined"} /\ UNCHANGED vars

Next ==
  \/ GenString
  \/ \E n \in Names, extern \in BOOLEAN :
       \E init \in Initials(n) : GenGlobal(n, extern, init)
  \/ NextPass
  \/ \E f \in Funcs : GenPrototype(f)
  \/ \E f \in Funcs, known \in SUBSET GvarNames : BeginBody(f, known)
  \/ EndBody
  \/ \E n \in Names, args \in Args : CallUndeclared(n, args)
  \/ \E n \in Names, args \in Args : CallDeclared(n, args)
  \/ \E n \in Names : UseGlobal(n)
  \/ \E k \in 0 .. MaxStrings : UseString(k)
  \/ UseFuncStr
  \/ \E n \in Names : UseFunction(n)
  \/ \E n \in Names : ExitOnFunction(n)
  \/ Stopped

Spec == Init /\ [][Next]_vars

-----------------------------------------------------------------------------
(* Properties *)

(* The variables have their types; the body that is built is the body of a
   function of the module. *)
TypeOK ==
  /\ module \in Seq(SymbolRecords)
  /\ funcTypes \in Seq([name : Names, type : FuncTypes])
  /\ pass \in {"strings", "globals", "functions", "body", "verified", "exit",
               "undefined"}
  /\ func \in [name : Names, at : 1 .. Len(module)]
  /\ module[func.at].kind = "fun" /\ module[func.at].name = func.name
  /\ gvars \in Seq(Gvars)
  /\ funcs \in Seq(Funcs)
  /\ calls \in SUBSET Calls
  /\ reads \in SUBSET Reads
  /\ seen \subseteq GvarNames
  /\ uses \in 0 .. MaxItems

(* The cache of function types, which only undeclared functions enter, never
   contradicts the module: a call is built with the type that its callee
   has, whatever was declared, defined and called in between. *)
CallsMatchCallee ==
  \A c \in calls :
     /\ c.callee \in 1 .. Len(module)
     /\ module[c.callee].kind = "fun" /\ module[c.callee].name = c.name
     /\ module[c.callee].type = c.type

(* Prototypes, definitions and calls of a name meet in one LLVM function,
   unless a variable has the name. *)
OneFunctionPerName ==
  \A i, j \in 1 .. Len(module) :
     /\ module[i].kind = "fun" /\ module[j].kind = "fun"
     /\ module[i].name = module[j].name
     /\ module[i].name \notin GvarNames
     => i = j

(* "static functions get PrivateLinkage" (README): a function that can be
   found is private exactly if one of its nodes is static, whichever comes
   first and whether or not a call declared it before. *)
PrivateIffStatic ==
  \A i \in 1 .. Len(module) :
     module[i].kind = "fun" /\ ~module[i].renamed =>
       (module[i].private <=> \E j \in 1 .. Len(funcs) :
                                funcs[j].name = module[i].name /\ funcs[j].static)

(* Every access to a variable or string reaches a symbol of that name, never
   the fall-backs behind `if (gvar)' and `if (gstr)' that read 0: what the
   parser let an expression name has been added by an earlier pass.  A
   variable named like a library function is the exception, see README. *)
AccessesReachASymbol ==
  \A r \in reads : r.want # Library => r.at # 0

Fits(args, type) == IF type.variadic THEN args >= type.params ELSE args = type.params

NodesOf(n) == {funcs[i] : i \in {k \in 1 .. Len(funcs) : funcs[k].name = n}}
CallsOf(n) == {c \in calls : c.name = n}

(* The source agrees with itself about n.  A name that is called before it is
   declared is called with the same number of arguments everywhere. *)
Agreed(n) ==
  /\ \A f, g \in NodesOf(n) : f.type = g.type
  /\ \A f \in NodesOf(n), c \in CallsOf(n) : Fits(c.args, f.type)
  /\ Cached(n) # {} => \A c, d \in CallsOf(n) : c.args = d.args

(* "Default to varargs to avoid argument count mismatch" (codegen.c): where
   the source agrees with itself, in whatever order it calls, declares and
   defines, every call passes what its callee takes, and no body fetches a
   parameter that its function does not have. *)
AgreedCallsFit ==
  \A n \in Names \ {Library} :
     Agreed(n) =>
       /\ \A c \in CallsOf(n) : Fits(c.args, c.type)
       /\ pass = "undefined" => func.name # n

-----------------------------------------------------------------------------
(* What the sources say and the code does not do: see README.md *)

(* What the unit defines, with or without statements in a body. *)
DefinedBySource(n) ==
  \/ \E f \in NodesOf(n) : f.body # "none"
  \/ \E i \in 1 .. Len(gvars) : gvars[i].name = n /\ ~gvars[i].extern

(* "If it's a prototype (no body), skip building the body" and "Non-extern
   globals without initializer get null init" (codegen.c): what the unit
   defines, the module defines under its name. *)
DefinitionsAreReached ==
  pass = "verified" =>
    \A n \in Names \ {Library} :
      DefinedBySource(n) =>
        \E i \in Named("fun", n) \cup Named("var", n) : module[i].has
=============================================================================
