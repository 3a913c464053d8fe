-------------------------- MODULE PreprocessProofs --------------------------
(***************************************************************************)
(* The invariants of Preprocess and its refinement of ConditionalText, for *)
(* all names, values and bounds.                                           *)
(***************************************************************************)
EXTENDS Preprocess, TLAPS, SequenceTheorems

-----------------------------------------------------------------------------
(* Sequences *)

(* What is left of a list after its last elements are dropped. *)
LEMMA PrefixFacts ==
  ASSUME NEW S, NEW s \in Seq(S), NEW k \in 0 .. Len(s)
  PROVE  /\ SubSeq(s, 1, k) \in Seq(S)
         /\ Len(SubSeq(s, 1, k)) = k
         /\ \A i \in 1 .. k : SubSeq(s, 1, k)[i] = s[i]
  OBVIOUS

(* A list with one more element at its end. *)
LEMMA PushFacts ==
  ASSUME NEW S, NEW s \in Seq(S), NEW e \in S
  PROVE  /\ Append(s, e) \in Seq(S)
         /\ Len(Append(s, e)) = Len(s) + 1
         /\ Append(s, e)[Len(s) + 1] = e
         /\ \A i \in 1 .. Len(s) : Append(s, e)[i] = s[i]
  OBVIOUS

(* A list with one element replaced. *)
LEMMA UpdateFacts ==
  ASSUME NEW S, NEW s \in Seq(S), NEW k \in 1 .. Len(s), NEW e \in S
  PROVE  /\ [s EXCEPT ![k] = e] \in Seq(S)
         /\ Len([s EXCEPT ![k] = e]) = Len(s)
         /\ [s EXCEPT ![k] = e][k] = e
         /\ \A i \in 1 .. Len(s) : i # k => [s EXCEPT ![k] = e][i] = s[i]
  BY ExceptSeq

(* A list with a new first element. *)
LEMMA HeadFacts ==
  ASSUME NEW S, NEW s \in Seq(S), NEW e \in S
  PROVE  /\ <<e>> \o s \in Seq(S)
         /\ Len(<<e>> \o s) = Len(s) + 1
         /\ (<<e>> \o s)[1] = e
         /\ \A i \in 1 .. Len(s) : (<<e>> \o s)[i + 1] = s[i]
  BY ConcatProperties, ElementOfSeq, LenProperties

-----------------------------------------------------------------------------
(* Types *)

LEMMA TypesInit == Init => TypeOK
<1> SUFFICES ASSUME Init PROVE TypeOK
  OBVIOUS
<1>1. Body(1, FALSE) \in Bodies
  BY NamesAssumption DEF Body, Bodies
<1>2. [name |-> Predefined, body |-> Body(1, FALSE)] \in Macros
  BY <1>1, NamesAssumption DEF Macros
<1>3. macros \in Seq(Macros)
  BY <1>2 DEF Init
<1>4. conds \in Seq(Seq(Conds)) /\ asked \in Seq(Seq(Answers))
  BY DEF Init, Answers
<1> QED
  BY <1>3, <1>4 DEF Init, TypeOK, Kinds, Reading

(* While the program is read there is a file, and its parts have types. *)
LEMMA FileFacts ==
  ASSUME TypeOK, Reading
  PROVE  /\ File \in Nat \ {0}
         /\ File \in 1 .. Len(conds)
         /\ conds[File] \in Seq(Conds)
         /\ asked[File] \in Seq(Answers)
         /\ Depth \in Nat
         /\ Len(asked[File]) = Depth
         /\ comment[File] \in BOOLEAN
         /\ at[File] \in Nat
<1>1. conds # <<>>
  BY DEF TypeOK
<1>2. File \in Nat \ {0}
  BY <1>1, EmptySeq, LenProperties DEF TypeOK, File
<1> QED
  BY <1>2, ElementOfSeq DEF TypeOK, File, Depth

(* Whether a line counts is a truth value. *)
LEMMA ActiveType ==
  ASSUME TypeOK, NEW f \in 1 .. Len(conds), NEW d \in 0 .. Len(conds[f])
  PROVE  ActiveAt(f, d) \in BOOLEAN
<1>1. conds[f] \in Seq(Conds)
  BY DEF TypeOK
<1>2. d > 0 => conds[f][d] \in Conds
  BY <1>1
<1> QED
  BY <1>2 DEF ActiveAt, Conds

(* Meanings are sets of bodies. *)
LEMMA MeaningType ==
  ASSUME TypeOK, NEW n \in Names
  PROVE  Meaning(n) \subseteq Bodies
<1> SUFFICES ASSUME NEW i \in FindMacro(n)
             PROVE  macros[i].body \in Bodies
  BY DEF Meaning
<1>1. macros[i] \in Macros
  BY ElementOfSeq DEF TypeOK, FindMacro
<1> QED
  BY <1>1 DEF Macros

(* #define and #undef keep the list a list of macros. *)
LEMMA DefineTypes ==
  ASSUME TypeOK, NEW n \in Names, NEW body \in Bodies,
         AddOrReplaceMacro(n, body)
  PROVE  macros' \in Seq(Macros)
<1>1. macros \in Seq(Macros)
  BY DEF TypeOK
<1>2. CASE FindMacro(n) # {}
  <2>1. macros' = Replaced(n, body)
    BY <1>2 DEF AddOrReplaceMacro
  <2>2. ASSUME NEW i \in 1 .. Len(macros)
        PROVE  (IF i \in FindMacro(n) THEN [macros[i] EXCEPT !.body = body]
                ELSE macros[i]) \in Macros
    <3>1. macros[i] \in Macros
      BY <1>1
    <3> QED
      BY <3>1 DEF Macros
  <2>3. Len(macros) \in Nat
    BY <1>1
  <2> QED
    BY <2>1, <2>2, <2>3, IsASeq DEF Replaced
<1>3. CASE FindMacro(n) = {}
  <2>1. [name |-> n, body |-> body] \in Macros
    BY DEF Macros
  <2> QED
    BY <1>1, <1>3, <2>1, HeadFacts DEF AddOrReplaceMacro
<1> QED
  BY <1>2, <1>3

LEMMA UndefTypes ==
  ASSUME TypeOK, NEW n \in Names, UndefMacro(n)
  PROVE  macros' \in Seq(Macros)
<1>1. macros \in Seq(Macros) /\ Len(macros) \in Nat
  BY DEF TypeOK
<1>2. ASSUME NEW i \in FindMacro(n)
      PROVE  WithoutPlace(i) \in Seq(Macros)
  <2>1. i \in 1 .. Len(macros)
    BY DEF FindMacro
  <2>2. Len(macros) - 1 \in Nat
    BY <1>1, <2>1
  <2>3. ASSUME NEW k \in 1 .. Len(macros) - 1
        PROVE  (IF k < i THEN macros[k] ELSE macros[k + 1]) \in Macros
    BY <1>1, <2>1
  <2> QED
    BY <2>2, <2>3, IsASeq DEF WithoutPlace
<1> QED
  BY <1>1, <1>2 DEF UndefMacro

(* What every line does besides its own effect: the counters. *)
LEMMA LineTypes ==
  ASSUME TypeOK, NEW l, Read(l), NewLine
  PROVE  /\ currentLine' \in Nat \ {0}
         /\ at' \in Seq(Nat) /\ Len(at') = Len(conds)
         /\ pure' = pure
         /\ lines' \in Nat
         /\ Reading
         /\ line' = l
<1>1. Reading
  BY DEF Read, Reading
<1>2. at[File] + 1 \in Nat /\ File \in 1 .. Len(at)
  BY <1>1, FileFacts DEF TypeOK
<1>3. at' = [at EXCEPT ![File] = at[File] + 1]
  BY DEF NewLine
<1> QED
  BY <1>1, <1>2, <1>3, UpdateFacts DEF Read, NewLine, TypeOK

(* A step that replaces the groups of one file. *)
LEMMA GroupTypes ==
  ASSUME TypeOK, NEW d \in 1 .. Len(conds),
         NEW cs \in Seq(Conds), NEW hs \in Seq(Answers),
         Len(hs) = Len(cs), \A i \in 1 .. Len(cs) : hs[i] # <<>>,
         conds' = [conds EXCEPT ![d] = cs], asked' = [asked EXCEPT ![d] = hs]
  PROVE  /\ conds' \in Seq(Seq(Conds)) /\ Len(conds') = Len(conds)
         /\ conds'[d] = cs /\ asked'[d] = hs
         /\ \A f \in 1 .. Len(conds) :
              f # d => conds'[f] = conds[f] /\ asked'[f] = asked[f]
         /\ asked' \in Seq(Seq(Answers)) /\ Len(asked') = Len(conds)
         /\ \A f \in 1 .. Len(conds') : Len(asked'[f]) = Len(conds'[f])
         /\ \A f \in 1 .. Len(conds') : \A i \in 1 .. Len(conds'[f]) :
              asked'[f][i] # <<>>
         /\ conds' # <<>>
<1>1. /\ conds \in Seq(Seq(Conds))
      /\ asked \in Seq(Seq(Answers))
      /\ Len(asked) = Len(conds)
      /\ d \in 1 .. Len(asked)
  BY DEF TypeOK
<1>2. /\ conds' \in Seq(Seq(Conds)) /\ Len(conds') = Len(conds)
      /\ conds'[d] = cs
      /\ \A f \in 1 .. Len(conds) : f # d => conds'[f] = conds[f]
  BY <1>1, UpdateFacts
<1>3. /\ asked' \in Seq(Seq(Answers)) /\ Len(asked') = Len(asked)
      /\ asked'[d] = hs
      /\ \A f \in 1 .. Len(asked) : f # d => asked'[f] = asked[f]
  <2> DEFINE S == Seq(Answers)
  <2>1. asked \in Seq(S) /\ hs \in S /\ d \in 1 .. Len(asked)
    BY <1>1
  <2> HIDE DEF S
  <2>2. [asked EXCEPT ![d] = hs] \in Seq(S)
    BY <2>1, UpdateFacts
  <2>3. /\ Len([asked EXCEPT ![d] = hs]) = Len(asked)
        /\ [asked EXCEPT ![d] = hs][d] = hs
        /\ \A f \in 1 .. Len(asked) :
             f # d => [asked EXCEPT ![d] = hs][f] = asked[f]
    BY <2>1, UpdateFacts
  <2> QED
    BY <2>2, <2>3 DEF S
<1>4. \A f \in 1 .. Len(conds') :
         /\ Len(asked'[f]) = Len(conds'[f])
         /\ \A i \in 1 .. Len(conds'[f]) : asked'[f][i] # <<>>
  <2> SUFFICES ASSUME NEW f \in 1 .. Len(conds)
               PROVE  /\ Len(asked'[f]) = Len(conds'[f])
                      /\ \A i \in 1 .. Len(conds'[f]) : asked'[f][i] # <<>>
    BY <1>2
  <2>1. CASE f = d
    BY <1>2, <1>3, <2>1
  <2>2. CASE f # d
    BY <1>1, <1>2, <1>3, <2>2 DEF TypeOK
  <2> QED
    BY <2>1, <2>2
<1>5. conds' # <<>>
  BY <1>2, EmptySeq, LenProperties
<1> QED
  BY <1>1, <1>2, <1>3, <1>4, <1>5

LEMMA OpenGroupTypes ==
  ASSUME TypeOK, NEW l, l[1] \in Kinds, NEW c \in BOOLEAN, OpenGroup(l, c)
  PROVE  TypeOK'
<1>1. Reading /\ Read(l) /\ NewLine
  BY DEF OpenGroup, Directive, Hash, Read, Reading
<1>2. PICK d \in 1 .. Len(conds) : d = File
  BY <1>1, FileFacts
<1>3. (Active /\ c) \in BOOLEAN
  OBVIOUS
<1>4. [matched |-> c, active |-> Active /\ c] \in Conds
  BY <1>3 DEF Conds
<1>5. /\ conds[d] \in Seq(Conds)
      /\ asked[d] \in Seq(Answers)
      /\ Len(asked[d]) = Len(conds[d])
      /\ <<c>> \in Answers /\ <<c>> # <<>>
  BY <1>2 DEF TypeOK, Answers
<1> DEFINE cs == Append(conds[d], [matched |-> c, active |-> Active /\ c])
           hs == Append(asked[d], <<c>>)
<1>6. cs \in Seq(Conds) /\ Len(cs) = Len(conds[d]) + 1
  BY <1>4, <1>5, PushFacts
<1>7. /\ hs \in Seq(Answers)
      /\ Len(hs) = Len(asked[d]) + 1
      /\ hs[Len(asked[d]) + 1] = <<c>>
      /\ \A i \in 1 .. Len(asked[d]) : hs[i] = asked[d][i]
  BY <1>5, PushFacts
<1> HIDE DEF cs, hs
<1>8. \A i \in 1 .. Len(cs) : hs[i] # <<>>
  <2>1. \A i \in 1 .. Len(conds[d]) : asked[d][i] # <<>>
    BY <1>2 DEF TypeOK
  <2> QED
    <3> SUFFICES ASSUME NEW i \in 1 .. Len(conds[d]) + 1 PROVE hs[i] # <<>>
      BY <1>6
    <3>1. CASE i \in 1 .. Len(conds[d])
      BY <1>5, <1>7, <2>1, <3>1
    <3>2. CASE i = Len(conds[d]) + 1
      BY <1>5, <1>7, <3>2
    <3>3. Len(conds[d]) \in Nat
      BY <1>5
    <3> QED
      BY <3>1, <3>2, <3>3
<1>9. conds' = [conds EXCEPT ![d] = cs] /\ asked' = [asked EXCEPT ![d] = hs]
  BY <1>2 DEF OpenGroup, cs, hs
<1>10. /\ comment' = comment /\ status' = status /\ shown' = {}
       /\ macros' = macros
  BY DEF OpenGroup, Directive, Hash
<1>11. Len(hs) = Len(cs)
  BY <1>5, <1>6, <1>7
<1>12. /\ conds' \in Seq(Seq(Conds)) /\ Len(conds') = Len(conds)
       /\ asked' \in Seq(Seq(Answers)) /\ Len(asked') = Len(conds)
       /\ \A f \in 1 .. Len(conds') : Len(asked'[f]) = Len(conds'[f])
       /\ \A f \in 1 .. Len(conds') : \A i \in 1 .. Len(conds'[f]) :
              asked'[f][i] # <<>>
       /\ conds' # <<>>
  BY <1>6, <1>7, <1>8, <1>9, <1>11, GroupTypes
<1> QED
  BY <1>1, <1>10, <1>12, LineTypes DEF TypeOK

LEMMA NextBranchTypes ==
  ASSUME TypeOK, NEW l, l[1] \in Kinds, NEW c \in BOOLEAN,
         NEW active \in BOOLEAN, NEW matched \in BOOLEAN,
         NextBranch(l, c, active, matched)
  PROVE  TypeOK'
<1>1. Reading /\ Read(l) /\ NewLine
  BY DEF NextBranch, Directive, Hash, Read, Reading
<1>2. PICK d \in 1 .. Len(conds) : d = File
  BY <1>1, FileFacts
<1>3. /\ conds[d] \in Seq(Conds)
      /\ asked[d] \in Seq(Answers)
      /\ Len(asked[d]) = Len(conds[d])
  BY <1>2 DEF TypeOK
<1>4. PICK k \in 1 .. Len(conds[d]) : k = Depth
  BY <1>1, <1>2, FileFacts DEF NextBranch, Depth
<1>5. [matched |-> matched, active |-> active] \in Conds
  BY DEF Conds
<1>6. /\ Append(asked[d][k], c) \in Answers
      /\ Append(asked[d][k], c) # <<>>
  <2>1. asked[d][k] \in Answers
    BY <1>3, <1>4
  <2> QED
    BY <2>1 DEF Answers
<1> DEFINE cs == [conds[d] EXCEPT ![k] = [matched |-> matched, active |-> active]]
           hs == [asked[d] EXCEPT ![k] = Append(asked[d][k], c)]
<1>7. cs \in Seq(Conds) /\ Len(cs) = Len(conds[d])
  BY <1>3, <1>4, <1>5, UpdateFacts
<1>8. /\ hs \in Seq(Answers)
      /\ Len(hs) = Len(asked[d])
      /\ hs[k] = Append(asked[d][k], c)
      /\ \A i \in 1 .. Len(asked[d]) : i # k => hs[i] = asked[d][i]
  BY <1>3, <1>4, <1>6, UpdateFacts
<1>9. conds' = [conds EXCEPT ![d] = cs] /\ asked' = [asked EXCEPT ![d] = hs]
  BY <1>2, <1>4 DEF NextBranch
<1> HIDE DEF cs, hs
<1>10. \A i \in 1 .. Len(cs) : hs[i] # <<>>
  <2>1. \A i \in 1 .. Len(conds[d]) : asked[d][i] # <<>>
    BY <1>2 DEF TypeOK
  <2> QED
    BY <1>3, <1>6, <1>7, <1>8, <2>1
<1>11. /\ comment' = comment /\ status' = status /\ shown' = {}
       /\ macros' = macros
  BY DEF NextBranch, Directive, Hash
<1>12. Len(hs) = Len(cs)
  BY <1>3, <1>7, <1>8
<1>13. /\ conds' \in Seq(Seq(Conds)) /\ Len(conds') = Len(conds)
       /\ asked' \in Seq(Seq(Answers)) /\ Len(asked') = Len(conds)
       /\ \A f \in 1 .. Len(conds') : Len(asked'[f]) = Len(conds'[f])
       /\ \A f \in 1 .. Len(conds') : \A i \in 1 .. Len(conds'[f]) :
              asked'[f][i] # <<>>
       /\ conds' # <<>>
  BY <1>7, <1>8, <1>9, <1>10, <1>12, GroupTypes
<1> QED
  BY <1>1, <1>11, <1>13, LineTypes DEF TypeOK

LEMMA EndifTypes ==
  ASSUME TypeOK, Endif
  PROVE  TypeOK'
<1> DEFINE l == <<"endif">>
<1>1. Reading /\ Read(l) /\ NewLine
  BY DEF Endif, Directive, Hash, Read, Reading
<1>2. PICK d \in 1 .. Len(conds) : d = File
  BY <1>1, FileFacts
<1>3. /\ conds[d] \in Seq(Conds)
      /\ asked[d] \in Seq(Answers)
      /\ Len(asked[d]) = Len(conds[d])
  BY <1>2 DEF TypeOK
<1>4. PICK k \in 0 .. Len(conds[d]) : k = Depth - 1
  BY <1>1, <1>2, FileFacts DEF Endif, Depth
<1> DEFINE cs == SubSeq(conds[d], 1, k)
           hs == SubSeq(asked[d], 1, k)
<1>7. cs \in Seq(Conds) /\ Len(cs) = k
  BY <1>3, PrefixFacts
<1>8. /\ hs \in Seq(Answers)
      /\ Len(hs) = k
      /\ \A i \in 1 .. k : hs[i] = asked[d][i]
  BY <1>3, PrefixFacts
<1>9. conds' = [conds EXCEPT ![d] = cs] /\ asked' = [asked EXCEPT ![d] = hs]
  BY <1>2, <1>4 DEF Endif
<1> HIDE DEF cs, hs
<1>10. \A i \in 1 .. Len(cs) : hs[i] # <<>>
  <2>1. \A i \in 1 .. Len(conds[d]) : asked[d][i] # <<>>
    BY <1>2 DEF TypeOK
  <2> QED
    BY <1>7, <1>8, <2>1
<1>11. /\ comment' = comment /\ status' = status /\ shown' = {}
       /\ macros' = macros
  BY DEF Endif, Directive, Hash
<1>13. /\ conds' \in Seq(Seq(Conds)) /\ Len(conds') = Len(conds)
       /\ asked' \in Seq(Seq(Answers)) /\ Len(asked') = Len(conds)
       /\ \A f \in 1 .. Len(conds') : Len(asked'[f]) = Len(conds'[f])
       /\ \A f \in 1 .. Len(conds') : \A i \in 1 .. Len(conds'[f]) :
              asked'[f][i] # <<>>
       /\ conds' # <<>>
  BY <1>7, <1>8, <1>9, <1>10, GroupTypes
<1>14. l[1] \in Kinds
  BY DEF Kinds
<1> HIDE DEF l
<1> QED
  BY <1>1, <1>11, <1>13, <1>14, LineTypes DEF TypeOK

(* A line that leaves the groups alone. *)
LEMMA OtherTypes ==
  ASSUME TypeOK, NEW l, l[1] \in Kinds, Read(l), NewLine,
         UNCHANGED <<conds, asked, status>>,
         macros' \in Seq(Macros), shown' \subseteq Names \cup Bodies,
         comment' \in Seq(BOOLEAN), Len(comment') = Len(comment)
  PROVE  TypeOK'
  BY LineTypes DEF TypeOK, Reading

LEMMA IncludeTypes ==
  ASSUME TypeOK, Include
  PROVE  TypeOK'
<1>1. Reading
  BY DEF Include, Enter, Hash, Read, Reading
<1>2. /\ conds \in Seq(Seq(Conds)) /\ asked \in Seq(Seq(Answers))
      /\ comment \in Seq(BOOLEAN) /\ at \in Seq(Nat) /\ pure \in Seq(BOOLEAN)
      /\ Len(asked) = Len(conds) /\ Len(comment) = Len(conds)
      /\ Len(at) = Len(conds) /\ Len(pure) = Len(conds)
      /\ File \in 1 .. Len(pure) /\ Len(conds) \in Nat
  BY <1>1, FileFacts DEF TypeOK
<1>3. <<>> \in Seq(Conds) /\ <<>> \in Seq(Answers) /\ 1 \in Nat
  OBVIOUS
<1>4. /\ conds' \in Seq(Seq(Conds)) /\ Len(conds') = Len(conds) + 1
      /\ conds'[Len(conds) + 1] = <<>>
      /\ \A f \in 1 .. Len(conds) : conds'[f] = conds[f]
  <2> DEFINE S == Seq(Conds)
             e == <<>>
  <2>1. conds \in Seq(S) /\ e \in S
    BY <1>2, <1>3
  <2>2. conds' = Append(conds, e)
    BY DEF Include, Enter
  <2> HIDE DEF S, e
  <2>3. /\ Append(conds, e) \in Seq(S)
        /\ Len(Append(conds, e)) = Len(conds) + 1
        /\ Append(conds, e)[Len(conds) + 1] = e
        /\ \A f \in 1 .. Len(conds) : Append(conds, e)[f] = conds[f]
    BY <2>1, PushFacts
  <2> QED
    BY <2>2, <2>3 DEF S, e
<1>5. /\ asked' \in Seq(Seq(Answers)) /\ Len(asked') = Len(asked) + 1
      /\ asked'[Len(asked) + 1] = <<>>
      /\ \A f \in 1 .. Len(asked) : asked'[f] = asked[f]
  <2> DEFINE S == Seq(Answers)
             e == <<>>
  <2>1. asked \in Seq(S) /\ e \in S
    BY <1>2, <1>3
  <2>2. asked' = Append(asked, e)
    BY DEF Include, Enter
  <2> HIDE DEF S, e
  <2>3. /\ Append(asked, e) \in Seq(S)
        /\ Len(Append(asked, e)) = Len(asked) + 1
        /\ Append(asked, e)[Len(asked) + 1] = e
        /\ \A f \in 1 .. Len(asked) : Append(asked, e)[f] = asked[f]
    BY <2>1, PushFacts
  <2>4. /\ asked' \in Seq(S) /\ Len(asked') = Len(asked) + 1
        /\ asked'[Len(asked) + 1] = e
        /\ \A f \in 1 .. Len(asked) : asked'[f] = asked[f]
    BY <2>2, <2>3
  <2> QED
    BY <2>4 DEF S, e
<1>6. comment' \in Seq(BOOLEAN) /\ Len(comment') = Len(comment) + 1
  <2>1. comment' = Append(comment, FALSE) /\ FALSE \in BOOLEAN
    BY DEF Include, Enter
  <2> QED
    BY <1>2, <2>1, PushFacts
<1>7. at' \in Seq(Nat) /\ Len(at') = Len(at) + 1
  BY <1>2, <1>3, PushFacts DEF Include, Enter
<1>8. pure' \in Seq(BOOLEAN) /\ Len(pure') = Len(pure) + 1
  <2>1. /\ [pure EXCEPT ![File] = FALSE] \in Seq(BOOLEAN)
        /\ Len([pure EXCEPT ![File] = FALSE]) = Len(pure)
    BY <1>2, UpdateFacts
  <2> QED
    BY <2>1, PushFacts DEF Include, Enter
<1>9. \A f \in 1 .. Len(conds') :
        /\ Len(asked'[f]) = Len(conds'[f])
        /\ \A i \in 1 .. Len(conds'[f]) : asked'[f][i] # <<>>
  <2> SUFFICES ASSUME NEW f \in 1 .. Len(conds) + 1
               PROVE  /\ Len(asked'[f]) = Len(conds'[f])
                      /\ \A i \in 1 .. Len(conds'[f]) : asked'[f][i] # <<>>
    BY <1>4
  <2>1. CASE f \in 1 .. Len(conds)
    <3>1. /\ Len(asked[f]) = Len(conds[f])
          /\ \A i \in 1 .. Len(conds[f]) : asked[f][i] # <<>>
      BY <2>1 DEF TypeOK
    <3>2. asked'[f] = asked[f] /\ conds'[f] = conds[f]
      BY <1>2, <1>4, <1>5, <2>1
    <3> QED
      BY <3>1, <3>2
  <2>2. CASE f = Len(conds) + 1
    <3>1. asked'[f] = <<>> /\ conds'[f] = <<>>
      BY <1>2, <1>4, <1>5, <2>2
    <3>2. Len(<<>>) = 0
      OBVIOUS
    <3> QED
      BY <3>1, <3>2
  <2>3. Len(conds) \in Nat
    BY <1>2
  <2> QED
    BY <2>1, <2>2, <2>3
<1>10. conds' # <<>>
  BY <1>2, <1>4, EmptySeq, LenProperties
<1>11. line'[1] \in Kinds /\ lines' \in Nat /\ shown' = {}
  BY DEF Include, Enter, Hash, Read, Kinds, TypeOK
<1>12. currentLine' = 1 /\ macros' = macros /\ status' = status
  BY DEF Include, Enter
<1>13. /\ Len(comment') = Len(conds') /\ Len(at') = Len(conds')
       /\ Len(pure') = Len(conds') /\ Len(asked') = Len(conds')
  BY <1>2, <1>4, <1>5, <1>6, <1>7, <1>8
<1>14. /\ conds' \in Seq(Seq(Conds)) /\ asked' \in Seq(Seq(Answers))
       /\ comment' \in Seq(BOOLEAN) /\ at' \in Seq(Nat) /\ pure' \in Seq(BOOLEAN)
  BY <1>4, <1>5, <1>6, <1>7, <1>8
<1> QED
  BY <1>9, <1>10, <1>11, <1>12, <1>13, <1>14 DEF TypeOK

(* The files that are still open after the end of one. *)
LEMMA EndOfFileFacts ==
  ASSUME TypeOK, EndOfFile
  PROVE  /\ Reading
         /\ File - 1 \in 0 .. Len(conds)
         /\ conds' \in Seq(Seq(Conds)) /\ Len(conds') = File - 1
         /\ asked' \in Seq(Seq(Answers)) /\ Len(asked') = File - 1
         /\ comment' \in Seq(BOOLEAN) /\ Len(comment') = File - 1
         /\ pure' \in Seq(BOOLEAN) /\ Len(pure') = File - 1
         /\ \A f \in 1 .. File - 1 :
              /\ conds'[f] = conds[f]
              /\ asked'[f] = asked[f]
              /\ pure'[f] = pure[f]
<1>1. Reading
  BY DEF EndOfFile, Reading
<1>2. File - 1 \in 0 .. Len(conds)
  BY <1>1, FileFacts DEF File
<1>3. PICK r \in 0 .. Len(conds) : r = File - 1
  BY <1>2
<1>4. /\ conds \in Seq(Seq(Conds)) /\ asked \in Seq(Seq(Answers))
      /\ comment \in Seq(BOOLEAN) /\ pure \in Seq(BOOLEAN)
      /\ r \in 0 .. Len(asked) /\ r \in 0 .. Len(comment)
      /\ r \in 0 .. Len(pure)
  BY DEF TypeOK
<1>5. /\ conds' = SubSeq(conds, 1, r) /\ asked' = SubSeq(asked, 1, r)
      /\ comment' = SubSeq(comment, 1, r) /\ pure' = SubSeq(pure, 1, r)
  BY <1>3 DEF EndOfFile
<1>6. /\ conds' \in Seq(Seq(Conds)) /\ Len(conds') = r
      /\ \A f \in 1 .. r : conds'[f] = conds[f]
  BY <1>4, <1>5, PrefixFacts
<1>7. /\ asked' \in Seq(Seq(Answers)) /\ Len(asked') = r
      /\ \A f \in 1 .. r : asked'[f] = asked[f]
  BY <1>4, <1>5, PrefixFacts
<1>8. comment' \in Seq(BOOLEAN) /\ Len(comment') = r
  BY <1>4, <1>5, PrefixFacts
<1>9. /\ pure' \in Seq(BOOLEAN) /\ Len(pure') = r
      /\ \A f \in 1 .. r : pure'[f] = pure[f]
  BY <1>4, <1>5, PrefixFacts
<1> QED
  BY <1>1, <1>2, <1>3, <1>6, <1>7, <1>8, <1>9

LEMMA EndOfFileTypes ==
  ASSUME TypeOK, EndOfFile
  PROVE  TypeOK'
<1>1. PICK r \in 0 .. Len(conds) : r = File - 1
  BY EndOfFileFacts
<1>2. at' \in Seq(Nat) /\ Len(at') = r
  <2>1. at' = [f \in 1 .. r |-> IF f = r THEN at[f] + 1 ELSE at[f]]
    BY <1>1 DEF EndOfFile
  <2>2. \A f \in 1 .. r : at[f] \in Nat /\ at[f] + 1 \in Nat
    <3>1. at \in Seq(Nat) /\ Len(at) = Len(conds) /\ Len(conds) \in Nat
      BY DEF TypeOK
    <3>2. \A f \in 1 .. Len(conds) : at[f] \in Nat
      BY <3>1, ElementOfSeq
    <3> QED
      BY <3>1, <3>2
  <2>3. r \in Nat
    BY DEF TypeOK
  <2> QED
    BY <2>1, <2>2, <2>3, IsASeq
<1>3. /\ line'[1] \in Kinds /\ lines' \in Nat /\ shown' = {}
      /\ macros' = macros
      /\ currentLine' \in Nat \ {0}
      /\ status' \in {"reading", "done"}
  BY DEF EndOfFile, Kinds, TypeOK
<1>4. Reading' => conds' # <<>>
  <2> SUFFICES ASSUME Reading' PROVE Len(conds') # 0
    OBVIOUS
  <2> QED
    BY EndOfFileFacts DEF EndOfFile, Reading
<1>5. \A f \in 1 .. r :
        /\ Len(asked[f]) = Len(conds[f])
        /\ \A i \in 1 .. Len(conds[f]) : asked[f][i] # <<>>
  BY DEF TypeOK
<1> QED
  BY <1>1, <1>2, <1>3, <1>4, <1>5, EndOfFileFacts DEF TypeOK

(* Conditions are truth values. *)
LEMMA ExprValType ==
  ASSUME NEW q \in Questions, NEW n
  PROVE  ExprVal(q, n) \in BOOLEAN
  BY DEF ExprVal, Questions

(* The bits of the group of the line. *)
LEMMA GroupFacts ==
  ASSUME TypeOK, Reading, Depth > 0
  PROVE  /\ Group.matched \in BOOLEAN
         /\ Group.active \in BOOLEAN
         /\ GrandActive \in BOOLEAN
         /\ Active \in BOOLEAN
<1>1. Depth \in 1 .. Len(conds[File]) /\ Depth - 1 \in 0 .. Len(conds[File])
  BY FileFacts DEF Depth
<1>2. Group \in Conds
  BY <1>1, FileFacts DEF Group
<1>3. GrandActive \in BOOLEAN
  BY <1>1, FileFacts, ActiveType DEF GrandActive
<1>4. Active \in BOOLEAN
  BY <1>1, FileFacts, ActiveType DEF Active
<1> QED
  BY <1>2, <1>3, <1>4 DEF Conds

(* #elif and #else are one operation: a branch with a condition, which for
   #else is TRUE. *)
Branch(l, c) ==
  NextBranch(l, c, GrandActive /\ ~Group.matched /\ c, Group.matched \/ c)

LEMMA ElifIsBranch ==
  ASSUME TypeOK, NEW q \in Questions, NEW n, NEW neg \in BOOLEAN,
         Elif(q, n, neg)
  PROVE  Branch(<<"elif", q, n, neg>>, ExprVal(q, n) # neg)
<1>1. Reading /\ Depth > 0
  BY DEF Elif, NextBranch, Directive, Hash, Read, Reading
<1>2. PICK m \in BOOLEAN : m = Group.matched
  BY <1>1, GroupFacts
<1>3. PICK g \in BOOLEAN : g = GrandActive
  BY <1>1, GroupFacts
<1>4. PICK v \in BOOLEAN : v = (ExprVal(q, n) # neg)
  OBVIOUS
<1>5. (g /\ (~m /\ v)) = (g /\ ~m /\ v) /\ (m \/ (~m /\ v)) = (m \/ v)
  OBVIOUS
<1> QED
  BY <1>2, <1>3, <1>4, <1>5 DEF Elif, Branch

LEMMA ElseIsBranch ==
  ASSUME TypeOK, Else
  PROVE  Branch(<<"else">>, TRUE)
<1>1. Reading /\ Depth > 0
  BY DEF Else, NextBranch, Directive, Hash, Read, Reading
<1>2. PICK m \in BOOLEAN : m = Group.matched
  BY <1>1, GroupFacts
<1>3. PICK g \in BOOLEAN : g = GrandActive
  BY <1>1, GroupFacts
<1>4. (g /\ ~m /\ TRUE) = (g /\ ~m) /\ (m \/ TRUE) = TRUE
  OBVIOUS
<1> QED
  BY <1>2, <1>3, <1>4 DEF Else, Branch

LEMMA BranchTypes ==
  ASSUME TypeOK, NEW l, l[1] \in Kinds, NEW c \in BOOLEAN, Branch(l, c)
  PROVE  TypeOK'
<1> DEFINE active == GrandActive /\ ~Group.matched /\ c
           matched == Group.matched \/ c
<1>1. active \in BOOLEAN /\ matched \in BOOLEAN
  OBVIOUS
<1>2. NextBranch(l, c, active, matched)
  BY DEF Branch
<1> HIDE DEF active, matched
<1> QED
  BY <1>1, <1>2, NextBranchTypes

LEMMA SwallowTypes ==
  ASSUME TypeOK, NEW l, l[1] \in Kinds, Swallow(l)
  PROVE  TypeOK'
<1>1. /\ Read(l) /\ NewLine
      /\ UNCHANGED <<conds, asked, status, macros, comment>>
      /\ shown' = {}
  BY DEF Swallow, Directive, Hash
<1>2. /\ macros' \in Seq(Macros) /\ shown' \subseteq Names \cup Bodies
      /\ comment' \in Seq(BOOLEAN) /\ Len(comment') = Len(comment)
  BY <1>1 DEF TypeOK
<1> QED
  BY <1>1, <1>2, OtherTypes

(* TypeOK is inductive: one step per kind of line. *)
LEMMA TypesStep == TypeOK /\ [Next]_vars => TypeOK'
<1> SUFFICES ASSUME TypeOK, [Next]_vars PROVE TypeOK'
  OBVIOUS
<1>1. ASSUME NEW n \in Names, IfDef(n) PROVE TypeOK'
  <2> DEFINE l == <<"ifdef", n>>
             c == FindMacro(n) # {}
  <2>1. OpenGroup(l, c)
    BY <1>1 DEF IfDef
  <2>2. l[1] \in Kinds /\ c \in BOOLEAN
    BY DEF Kinds
  <2> HIDE DEF l, c
  <2> QED
    BY <2>1, <2>2, OpenGroupTypes
<1>2. ASSUME NEW n \in Names, IfNDef(n) PROVE TypeOK'
  <2> DEFINE l == <<"ifndef", n>>
             c == FindMacro(n) = {}
  <2>1. OpenGroup(l, c)
    BY <1>2 DEF IfNDef
  <2>2. l[1] \in Kinds /\ c \in BOOLEAN
    BY DEF Kinds
  <2> HIDE DEF l, c
  <2> QED
    BY <2>1, <2>2, OpenGroupTypes
<1>3. ASSUME NEW n \in Names, NEW q \in Questions, NEW neg \in BOOLEAN,
             If(q, n, neg)
      PROVE  TypeOK'
  <2> DEFINE l == <<"if", q, n, neg>>
             c == ExprVal(q, n) # neg
  <2>1. OpenGroup(l, c)
    BY <1>3 DEF If
  <2>2. l[1] \in Kinds /\ c \in BOOLEAN
    BY DEF Kinds
  <2> HIDE DEF l, c
  <2> QED
    BY <2>1, <2>2, OpenGroupTypes
<1>4. ASSUME NEW n \in Names, NEW q \in Questions, NEW neg \in BOOLEAN,
             Elif(q, n, neg)
      PROVE  TypeOK'
  <2> DEFINE l == <<"elif", q, n, neg>>
             c == ExprVal(q, n) # neg
  <2>1. Branch(l, c)
    BY <1>4, ElifIsBranch
  <2>2. l[1] \in Kinds /\ c \in BOOLEAN
    BY DEF Kinds
  <2> HIDE DEF l, c
  <2> QED
    BY <2>1, <2>2, BranchTypes
<1>5. ASSUME Else PROVE TypeOK'
  <2> DEFINE l == <<"else">>
             c == TRUE
  <2>1. Branch(l, c)
    BY <1>5, ElseIsBranch
  <2>2. l[1] \in Kinds /\ c \in BOOLEAN
    BY DEF Kinds
  <2> HIDE DEF l, c
  <2> QED
    BY <2>1, <2>2, BranchTypes
<1>6. ASSUME Endif PROVE TypeOK'
  BY <1>6, EndifTypes
<1>7. ASSUME NEW n \in Names, NEW body \in Bodies, Define(n, body)
      PROVE  TypeOK'
  <2> DEFINE l == <<"define", n, body>>
  <2>1. /\ Read(l) /\ NewLine
        /\ UNCHANGED <<conds, asked, status, comment>>
        /\ shown' = {}
    BY <1>7 DEF Define, Directive, Hash
  <2>2. macros' \in Seq(Macros)
    BY <1>7, DefineTypes DEF Define
  <2>3. l[1] \in Kinds
    BY DEF Kinds
  <2>4. /\ shown' \subseteq Names \cup Bodies
        /\ comment' \in Seq(BOOLEAN) /\ Len(comment') = Len(comment)
    BY <2>1 DEF TypeOK
  <2> HIDE DEF l
  <2> QED
    BY <2>1, <2>2, <2>3, <2>4, OtherTypes
<1>8. ASSUME NEW n \in Names, Undef(n) PROVE TypeOK'
  <2> DEFINE l == <<"undef", n>>
  <2>1. /\ Read(l) /\ NewLine
        /\ UNCHANGED <<conds, asked, status, comment>>
        /\ shown' = {}
    BY <1>8 DEF Undef, Directive, Hash
  <2>2. macros' \in Seq(Macros)
    BY <1>8, UndefTypes DEF Undef
  <2>3. l[1] \in Kinds
    BY DEF Kinds
  <2>4. /\ shown' \subseteq Names \cup Bodies
        /\ comment' \in Seq(BOOLEAN) /\ Len(comment') = Len(comment)
    BY <2>1 DEF TypeOK
  <2> HIDE DEF l
  <2> QED
    BY <2>1, <2>2, <2>3, <2>4, OtherTypes
<1>9. ASSUME NEW n \in Names, NEW literal \in BOOLEAN, NEW call \in BOOLEAN,
             NEW mark \in Marks, Text(n, literal, call, mark)
      PROVE  TypeOK'
  <2> DEFINE l == <<"text", n, literal \/ comment[File], call>>
             b == mark = "opens" \/ (comment[File] /\ mark # "closes")
  <2>1. /\ Read(l) /\ NewLine
        /\ UNCHANGED <<conds, asked, status, macros>>
        /\ shown' = Expansion(n, literal, call)
        /\ comment' = [comment EXCEPT ![File] = b]
    BY <1>9 DEF Text
  <2>2. b \in BOOLEAN /\ l[1] \in Kinds
    BY DEF Kinds
  <2>3. comment \in Seq(BOOLEAN) /\ File \in 1 .. Len(comment)
    BY <2>1, FileFacts DEF Read, Reading, TypeOK
  <2>4. comment' \in Seq(BOOLEAN) /\ Len(comment') = Len(comment)
    <3> HIDE DEF b
    <3> QED
      BY <2>1, <2>2, <2>3, UpdateFacts
  <2>5. shown' \subseteq Names \cup Bodies
    BY <2>1, MeaningType DEF Expansion
  <2>6. macros' \in Seq(Macros)
    BY <2>1 DEF TypeOK
  <2> HIDE DEF l
  <2> QED
    BY <2>1, <2>2, <2>4, <2>5, <2>6, OtherTypes
<1>10. ASSUME NEW n \in Names, NEW literal \in BOOLEAN, NEW call \in BOOLEAN,
              InactiveText(n, literal, call)
       PROVE  TypeOK'
  <2> DEFINE l == <<"text", n, literal, call>>
  <2>1. /\ Read(l) /\ NewLine
        /\ UNCHANGED <<conds, asked, status, macros, comment>>
        /\ shown' = {}
    BY <1>10 DEF InactiveText
  <2>2. /\ macros' \in Seq(Macros) /\ shown' \subseteq Names \cup Bodies
        /\ comment' \in Seq(BOOLEAN) /\ Len(comment') = Len(comment)
    BY <2>1 DEF TypeOK
  <2>3. l[1] \in Kinds
    BY DEF Kinds
  <2> HIDE DEF l
  <2> QED
    BY <2>1, <2>2, <2>3, OtherTypes
<1>11. ASSUME NEW l, l[1] \in Kinds, Swallow(l) PROVE TypeOK'
  BY <1>11, SwallowTypes
<1>12. ASSUME Include PROVE TypeOK'
  BY <1>12, IncludeTypes
<1>13. ASSUME EndOfFile PROVE TypeOK'
  BY <1>13, EndOfFileTypes
<1>14. ASSUME Exit PROVE TypeOK'
  <2>1. /\ line' = <<"fatal">> /\ lines' = lines + 1 /\ status' = "exited"
        /\ shown' = {}
        /\ UNCHANGED <<macros, currentLine, conds, comment, asked, at, pure>>
    BY <1>14 DEF Exit, Hash, Read, history
  <2>2. line'[1] \in Kinds
    BY <2>1 DEF Kinds
  <2> QED
    BY <2>1, <2>2 DEF TypeOK, Reading
<1>15. ASSUME UNCHANGED vars PROVE TypeOK'
  BY <1>15 DEF vars, history, TypeOK, Reading
<1>16. ASSUME NEW n \in Names, NEW body \in Bodies,
              Inactive(<<"define", n, body>>)
       PROVE  TypeOK'
  BY <1>16, <1>11 DEF Inactive, Kinds
<1>17. ASSUME NEW n \in Names, Inactive(<<"undef", n>>) PROVE TypeOK'
  BY <1>17, <1>11 DEF Inactive, Kinds
<1>18. ASSUME NEW n \in Names, NEW q \in Questions, NEW neg \in BOOLEAN,
              Stray(<<"elif", q, n, neg>>)
       PROVE  TypeOK'
  BY <1>18, <1>11 DEF Stray, Kinds
<1>19. ASSUME NEW l \in {<<"else">>, <<"endif">>}, Stray(l) PROVE TypeOK'
  BY <1>19, <1>11 DEF Stray, Kinds
<1>20. ASSUME NEW l \in {<<"include">>, <<"pragma">>, <<"fatal">>}, Inactive(l)
       PROVE  TypeOK'
  BY <1>20, <1>11 DEF Inactive, Kinds
<1>21. ASSUME Pragma PROVE TypeOK'
  BY <1>21, <1>11 DEF Pragma, Kinds
<1>22. ASSUME Stop PROVE TypeOK'
  BY <1>22, <1>15 DEF Stop
<1> QED
  BY <1>1, <1>2, <1>3, <1>4, <1>5, <1>6, <1>7, <1>8, <1>9, <1>10, <1>12,
     <1>13, <1>14, <1>15, <1>16, <1>17, <1>18, <1>19, <1>20, <1>21, <1>22
     DEF Next

(* The variables keep their types, and the bookkeeping of the open files stays
   in step: every file has one comment flag and as many groups as its stack. *)
THEOREM TypesHold == Spec => []TypeOK
  BY TypesInit, TypesStep, PTL DEF Spec

-----------------------------------------------------------------------------
(* The meaning of the conditional stack *)

Some(g) == \E k \in 1 .. Len(g) : g[k]

AllChosen(hs, k) == \A j \in 1 .. k : Chosen(hs[j])

(* ActiveIsMeaning of one file. *)
FileMeans(cs, hs) ==
  \A i \in 1 .. Len(cs) :
    /\ cs[i].matched <=> Some(hs[i])
    /\ cs[i].active <=> AllChosen(hs, i)

LEMMA FirstAnswer ==
  ASSUME NEW c \in BOOLEAN
  PROVE  (Chosen(<<c>>) <=> c) /\ (Some(<<c>>) <=> c)
<1>1. Len(<<c>>) = 1 /\ <<c>>[1] = c
  OBVIOUS
<1> QED
  BY <1>1 DEF Chosen, Some

(* One more branch: it is chosen if its condition is the first to hold. *)
LEMMA NextAnswer ==
  ASSUME NEW g \in Answers, NEW c \in BOOLEAN
  PROVE  /\ Chosen(Append(g, c)) <=> c /\ ~Some(g)
         /\ Some(Append(g, c)) <=> c \/ Some(g)
<1>1. PICK h : h = Append(g, c)
  OBVIOUS
<1>2. /\ Len(g) \in Nat
      /\ Len(h) = Len(g) + 1
      /\ h[Len(g) + 1] = c
      /\ \A i \in 1 .. Len(g) : h[i] = g[i]
  BY <1>1, PushFacts DEF Answers
<1>3. Chosen(h) <=> c /\ ~Some(g)
  <2>1. 1 .. Len(h) - 1 = 1 .. Len(g) /\ h[Len(h)] = c
    BY <1>2
  <2> QED
    BY <1>2, <2>1 DEF Chosen, Some
<1>4. Some(h) <=> c \/ Some(g)
  <2>1. ASSUME c PROVE Some(h)
    <3>1. Len(g) + 1 \in 1 .. Len(h) /\ h[Len(g) + 1]
      BY <1>2, <2>1
    <3> QED
      BY <3>1 DEF Some
  <2>2. ASSUME Some(g) PROVE Some(h)
    <3>1. PICK k \in 1 .. Len(g) : g[k]
      BY <2>2 DEF Some
    <3>2. k \in 1 .. Len(h) /\ h[k]
      BY <1>2, <3>1
    <3> QED
      BY <3>2 DEF Some
  <2>3. ASSUME Some(h) PROVE c \/ Some(g)
    <3>1. PICK k \in 1 .. Len(h) : h[k]
      BY <2>3 DEF Some
    <3>2. CASE k = Len(g) + 1
      BY <1>2, <3>1, <3>2
    <3>3. CASE k \in 1 .. Len(g)
      BY <1>2, <3>1, <3>3 DEF Some
    <3> QED
      BY <1>2, <3>2, <3>3
  <2> QED
    BY <2>1, <2>2, <2>3
<1> QED
  BY <1>1, <1>3, <1>4

(* The active bit of a group speaks for the groups around it. *)
LEMMA PrefixMeans ==
  ASSUME NEW cs, NEW hs, Len(cs) \in Nat, FileMeans(cs, hs),
         NEW k \in 0 .. Len(cs)
  PROVE  (k > 0 => cs[k].active) <=> AllChosen(hs, k)
<1>1. CASE k = 0
  BY <1>1 DEF AllChosen
<1>2. CASE k \in 1 .. Len(cs)
  BY <1>2 DEF FileMeans
<1> QED
  BY <1>1, <1>2

(* Groups that no step touches keep their meaning. *)
LEMMA SamePrefix ==
  ASSUME NEW cs, NEW hs, NEW cs1, NEW hs1, Len(cs) \in Nat, FileMeans(cs, hs),
         NEW k \in 0 .. Len(cs),
         \A i \in 1 .. k : cs1[i] = cs[i] /\ hs1[i] = hs[i]
  PROVE  /\ \A i \in 1 .. k :
              /\ cs1[i].matched <=> Some(hs1[i])
              /\ cs1[i].active <=> AllChosen(hs1, i)
         /\ AllChosen(hs1, k) <=> AllChosen(hs, k)
<1>1. \A i \in 0 .. k : AllChosen(hs1, i) <=> AllChosen(hs, i)
  BY DEF AllChosen
<1>2. ASSUME NEW i \in 1 .. k
      PROVE  /\ cs1[i].matched <=> Some(hs1[i])
             /\ cs1[i].active <=> AllChosen(hs1, i)
  <2>1. i \in 1 .. Len(cs) /\ i \in 0 .. k
    OBVIOUS
  <2>2. cs[i].matched <=> Some(hs[i])
    BY <2>1 DEF FileMeans
  <2>3. cs[i].active <=> AllChosen(hs, i)
    BY <2>1 DEF FileMeans
  <2> QED
    BY <1>1, <2>1, <2>2, <2>3
<1> QED
  BY <1>1, <1>2

(* The top group, old or new, after its bits and its answers were set. *)
LEMMA TopMeans ==
  ASSUME NEW cs, NEW hs, NEW cs1, NEW hs1, Len(cs) \in Nat, FileMeans(cs, hs),
         NEW k \in 0 .. Len(cs), Len(cs1) = k + 1,
         \A i \in 1 .. k : cs1[i] = cs[i] /\ hs1[i] = hs[i],
         NEW here \in BOOLEAN,
         Chosen(hs1[k + 1]) <=> here,
         cs1[k + 1].matched <=> Some(hs1[k + 1]),
         cs1[k + 1].active <=> (k > 0 => cs[k].active) /\ here
  PROVE  FileMeans(cs1, hs1)
<1>1. /\ \A i \in 1 .. k :
           /\ cs1[i].matched <=> Some(hs1[i])
           /\ cs1[i].active <=> AllChosen(hs1, i)
      /\ AllChosen(hs1, k) <=> AllChosen(hs, k)
  BY SamePrefix
<1>2. (k > 0 => cs[k].active) <=> AllChosen(hs, k)
  BY PrefixMeans
<1>3. AllChosen(hs1, k + 1) <=> AllChosen(hs1, k) /\ Chosen(hs1[k + 1])
  BY DEF AllChosen
<1>4. cs1[k + 1].active <=> AllChosen(hs1, k + 1)
  BY <1>1, <1>2, <1>3
<1> SUFFICES ASSUME NEW i \in 1 .. Len(cs1)
             PROVE  /\ cs1[i].matched <=> Some(hs1[i])
                    /\ cs1[i].active <=> AllChosen(hs1, i)
  BY DEF FileMeans
<1>5. CASE i \in 1 .. k
  BY <1>1, <1>5
<1>6. CASE i = k + 1
  BY <1>4, <1>6
<1> QED
  BY <1>5, <1>6

(* The inductive invariant: the bits mean what the conditions say in every
   open file, and all files but the last are read inside active branches. *)
CondInv == TypeOK /\ ActiveIsMeaning /\ IncludersAreActive

LEMMA MeansByFile ==
  ActiveIsMeaning <=> \A f \in 1 .. Len(conds) : FileMeans(conds[f], asked[f])
  BY DEF ActiveIsMeaning, FileMeans, Some, AllChosen

LEMMA MeansByFileNext ==
  ActiveIsMeaning' <=>
    \A f \in 1 .. Len(conds') : FileMeans(conds'[f], asked'[f])
  BY DEF ActiveIsMeaning, FileMeans, Some, AllChosen

(* A directive changes the groups of the last file only. *)
LEMMA OneFileMeans ==
  ASSUME CondInv, NEW d \in 1 .. Len(conds), d = Len(conds),
         Len(conds') = Len(conds),
         FileMeans(conds'[d], asked'[d]),
         \A f \in 1 .. Len(conds) :
           f # d => conds'[f] = conds[f] /\ asked'[f] = asked[f]
  PROVE  ActiveIsMeaning' /\ IncludersAreActive'
<1>1. ActiveIsMeaning'
  <2> SUFFICES ASSUME NEW f \in 1 .. Len(conds')
               PROVE  FileMeans(conds'[f], asked'[f])
    BY MeansByFileNext
  <2>1. FileMeans(conds[f], asked[f])
    BY MeansByFile DEF CondInv
  <2> QED
    BY <2>1
<1>2. IncludersAreActive'
  <2> SUFFICES ASSUME NEW f \in 1 .. Len(conds) - 1
               PROVE  ActiveAt(f, Len(conds[f]))'
    BY DEF IncludersAreActive
  <2>1. f \in 1 .. Len(conds) /\ f # d
    OBVIOUS
  <2>2. ActiveAt(f, Len(conds[f]))
    BY DEF CondInv, IncludersAreActive
  <2> QED
    BY <2>1, <2>2 DEF ActiveAt
<1> QED
  BY <1>1, <1>2

LEMMA OpenGroupMeans ==
  ASSUME CondInv, NEW l, NEW c \in BOOLEAN, OpenGroup(l, c)
  PROVE  ActiveIsMeaning' /\ IncludersAreActive'
<1>1. TypeOK /\ Reading
  BY DEF OpenGroup, Directive, Hash, Read, Reading, CondInv
<1>2. PICK d \in 1 .. Len(conds) : d = File /\ d = Len(conds)
  BY <1>1, FileFacts DEF File
<1>3. PICK k \in Nat : k = Len(conds[d]) /\ k = Len(asked[d]) /\ k = Depth
  BY <1>1, <1>2, FileFacts DEF Depth
<1>4. PICK act \in BOOLEAN : act <=> (k > 0 => conds[d][k].active)
  OBVIOUS
<1>5. Active <=> act
  BY <1>2, <1>3, <1>4 DEF Active, ActiveAt
<1> DEFINE g == [matched |-> c, active |-> Active /\ c]
           cs1 == Append(conds[d], g)
           hs1 == Append(asked[d], <<c>>)
<1>6. /\ conds \in Seq(Seq(Conds)) /\ asked \in Seq(Seq(Answers))
      /\ conds[d] \in Seq(Conds) /\ asked[d] \in Seq(Answers)
      /\ d \in 1 .. Len(asked) /\ Len(asked) = Len(conds)
      /\ <<c>> \in Answers
  BY <1>1, <1>2, FileFacts DEF TypeOK, Answers
<1>7. g \in Conds /\ g.matched = c /\ (g.active <=> act /\ c)
  BY <1>5 DEF Conds
<1>8. conds' = [conds EXCEPT ![d] = cs1] /\ asked' = [asked EXCEPT ![d] = hs1]
  BY <1>2 DEF OpenGroup
<1> HIDE DEF g
<1>9. /\ cs1 \in Seq(Conds) /\ Len(cs1) = k + 1 /\ cs1[k + 1] = g
      /\ \A i \in 1 .. k : cs1[i] = conds[d][i]
  <2>1. conds[d] \in Seq(Conds) /\ g \in Conds
    BY <1>6, <1>7
  <2>2. /\ cs1 \in Seq(Conds)
        /\ Len(cs1) = Len(conds[d]) + 1
        /\ cs1[Len(conds[d]) + 1] = g
        /\ \A i \in 1 .. Len(conds[d]) : cs1[i] = conds[d][i]
    BY ONLY <2>1, PushFacts
  <2> HIDE DEF cs1
  <2> QED
    BY <1>3, <2>2
<1>10. /\ hs1 \in Seq(Answers) /\ Len(hs1) = k + 1 /\ hs1[k + 1] = <<c>>
       /\ \A i \in 1 .. k : hs1[i] = asked[d][i]
  <2>1. asked[d] \in Seq(Answers) /\ <<c>> \in Answers
    BY <1>6
  <2>2. /\ hs1 \in Seq(Answers)
        /\ Len(hs1) = Len(asked[d]) + 1
        /\ hs1[Len(asked[d]) + 1] = <<c>>
        /\ \A i \in 1 .. Len(asked[d]) : hs1[i] = asked[d][i]
    BY ONLY <2>1, PushFacts
  <2> HIDE DEF hs1
  <2> QED
    BY <1>3, <2>2
<1> HIDE DEF cs1, hs1
<1>11. FileMeans(conds[d], asked[d])
  BY MeansByFile DEF CondInv
<1>12. (Chosen(hs1[k + 1]) <=> c) /\ (Some(hs1[k + 1]) <=> c)
  BY <1>10, FirstAnswer
<1>13. FileMeans(cs1, hs1)
  <2>1. cs1[k + 1].matched <=> Some(hs1[k + 1])
    BY <1>7, <1>9, <1>12
  <2>2. cs1[k + 1].active <=> (k > 0 => conds[d][k].active) /\ c
    BY <1>4, <1>7, <1>9
  <2>3. \A i \in 1 .. k : cs1[i] = conds[d][i] /\ hs1[i] = asked[d][i]
    BY <1>9, <1>10
  <2>4. Len(cs1) = k + 1 /\ k \in 0 .. Len(conds[d]) /\ Len(conds[d]) \in Nat
    BY <1>3, <1>9
  <2> QED
    BY <1>11, <1>12, <2>1, <2>2, <2>3, <2>4, TopMeans
<1>14. /\ conds'[d] = cs1 /\ asked'[d] = hs1 /\ Len(conds') = Len(conds)
       /\ \A f \in 1 .. Len(conds) :
            f # d => conds'[f] = conds[f] /\ asked'[f] = asked[f]
  BY <1>6, <1>8
<1> QED
  BY <1>2, <1>13, <1>14, OneFileMeans

LEMMA BranchMeans ==
  ASSUME CondInv, NEW l, NEW c \in BOOLEAN, Branch(l, c)
  PROVE  ActiveIsMeaning' /\ IncludersAreActive'
<1>1. TypeOK /\ Reading /\ Depth > 0
  BY DEF Branch, NextBranch, Directive, Hash, Read, Reading, CondInv
<1>2. PICK d \in 1 .. Len(conds) : d = File /\ d = Len(conds)
  BY <1>1, FileFacts DEF File
<1>3. PICK k \in Nat :
        /\ k + 1 = Len(conds[d]) /\ k + 1 = Len(asked[d]) /\ k + 1 = Depth
  <2>1. Depth - 1 \in Nat
    BY <1>1, FileFacts
  <2>2. /\ (Depth - 1) + 1 = Len(conds[d]) /\ (Depth - 1) + 1 = Len(asked[d])
        /\ (Depth - 1) + 1 = Depth
    BY <1>1, <1>2, <2>1, FileFacts DEF Depth
  <2> QED
    BY <2>1, <2>2
<1>4. PICK act \in BOOLEAN : act <=> (k > 0 => conds[d][k].active)
  OBVIOUS
<1>5. GrandActive <=> act
  <2>1. Depth - 1 = k
    BY <1>3
  <2> QED
    BY <1>2, <1>4, <2>1 DEF GrandActive, ActiveAt
<1>6. /\ conds \in Seq(Seq(Conds)) /\ asked \in Seq(Seq(Answers))
      /\ conds[d] \in Seq(Conds) /\ asked[d] \in Seq(Answers)
      /\ d \in 1 .. Len(asked) /\ Len(asked) = Len(conds)
      /\ k + 1 \in 1 .. Len(conds[d]) /\ k + 1 \in 1 .. Len(asked[d])
  BY <1>1, <1>2, <1>3, FileFacts DEF TypeOK
<1>7. PICK m \in BOOLEAN : m = conds[d][k + 1].matched /\ m = Group.matched
  <2>1. conds[d][k + 1] \in Conds
    BY <1>6
  <2> QED
    BY <1>2, <1>3, <2>1 DEF Group, Conds
<1>8. FileMeans(conds[d], asked[d])
  BY MeansByFile DEF CondInv
<1>9. PICK h \in Answers : h = asked[d][k + 1]
  BY <1>6
<1>10. m <=> Some(h)
  BY <1>6, <1>7, <1>8, <1>9 DEF FileMeans
<1> DEFINE g == [matched |-> m \/ c, active |-> GrandActive /\ ~m /\ c]
           h1 == Append(h, c)
           cs1 == [conds[d] EXCEPT ![k + 1] = g]
           hs1 == [asked[d] EXCEPT ![k + 1] = h1]
<1>11. conds' = [conds EXCEPT ![d] = cs1] /\ asked' = [asked EXCEPT ![d] = hs1]
  BY <1>2, <1>3, <1>7, <1>9 DEF Branch, NextBranch
<1>12. /\ g \in Conds
       /\ g.matched <=> m \/ c
       /\ g.active <=> act /\ ~m /\ c
  BY <1>5 DEF Conds
<1>13. h1 \in Answers
  BY DEF Answers
<1>14. (Chosen(h1) <=> c /\ ~m) /\ (Some(h1) <=> c \/ m)
  BY <1>10, NextAnswer
<1> HIDE DEF g, h1
<1>15. /\ Len(cs1) = k + 1 /\ cs1[k + 1] = g
       /\ \A i \in 1 .. k : cs1[i] = conds[d][i]
  BY <1>3, <1>6, <1>12, UpdateFacts
<1>16. /\ hs1[k + 1] = h1
       /\ \A i \in 1 .. k : hs1[i] = asked[d][i]
  BY <1>3, <1>6, <1>13, UpdateFacts
<1> HIDE DEF cs1, hs1
<1>17. FileMeans(cs1, hs1)
  <2> DEFINE here == ~m /\ c
  <2>1. cs1[k + 1].matched <=> Some(hs1[k + 1])
    BY <1>12, <1>14, <1>15, <1>16
  <2>2. cs1[k + 1].active <=> (k > 0 => conds[d][k].active) /\ here
    BY <1>4, <1>12, <1>15
  <2>3. \A i \in 1 .. k : cs1[i] = conds[d][i] /\ hs1[i] = asked[d][i]
    BY <1>15, <1>16
  <2>4. Len(cs1) = k + 1 /\ k \in 0 .. Len(conds[d]) /\ Len(conds[d]) \in Nat
    BY <1>3, <1>15
  <2>5. here \in BOOLEAN /\ (Chosen(hs1[k + 1]) <=> here)
    BY <1>14, <1>16
  <2> HIDE DEF here
  <2> QED
    BY <1>8, <2>1, <2>2, <2>3, <2>4, <2>5, TopMeans
<1>18. /\ conds'[d] = cs1 /\ asked'[d] = hs1 /\ Len(conds') = Len(conds)
       /\ \A f \in 1 .. Len(conds) :
            f # d => conds'[f] = conds[f] /\ asked'[f] = asked[f]
  BY <1>6, <1>11
<1> QED
  BY <1>2, <1>17, <1>18, OneFileMeans

LEMMA EndifMeans ==
  ASSUME CondInv, Endif
  PROVE  ActiveIsMeaning' /\ IncludersAreActive'
<1>1. TypeOK /\ Reading /\ Depth > 0
  BY DEF Endif, Directive, Hash, Read, Reading, CondInv
<1>2. PICK d \in 1 .. Len(conds) : d = File /\ d = Len(conds)
  BY <1>1, FileFacts DEF File
<1>3. PICK k \in 0 .. Len(conds[d]) : k = Depth - 1
  <2>1. Depth \in Nat /\ Depth = Len(conds[d])
    BY <1>1, <1>2, FileFacts DEF Depth
  <2>2. Depth - 1 \in 0 .. Len(conds[d])
    BY <1>1, <2>1
  <2> QED
    BY <2>2
<1>4. /\ conds \in Seq(Seq(Conds)) /\ asked \in Seq(Seq(Answers))
      /\ conds[d] \in Seq(Conds) /\ asked[d] \in Seq(Answers)
      /\ Len(asked[d]) = Len(conds[d])
      /\ d \in 1 .. Len(asked) /\ Len(asked) = Len(conds)
  BY <1>1, <1>2, FileFacts DEF TypeOK
<1> DEFINE cs1 == SubSeq(conds[d], 1, k)
           hs1 == SubSeq(asked[d], 1, k)
<1>5. conds' = [conds EXCEPT ![d] = cs1] /\ asked' = [asked EXCEPT ![d] = hs1]
  BY <1>2, <1>3 DEF Endif
<1>6. Len(cs1) = k /\ \A i \in 1 .. k : cs1[i] = conds[d][i]
  BY <1>4, PrefixFacts
<1>7. \A i \in 1 .. k : hs1[i] = asked[d][i]
  BY <1>4, PrefixFacts
<1> HIDE DEF cs1, hs1
<1>8. FileMeans(cs1, hs1)
  <2>1. FileMeans(conds[d], asked[d]) /\ Len(conds[d]) \in Nat
    BY <1>4, MeansByFile DEF CondInv
  <2> SUFFICES ASSUME NEW i \in 1 .. k
               PROVE  /\ cs1[i].matched <=> Some(hs1[i])
                      /\ cs1[i].active <=> AllChosen(hs1, i)
    BY <1>6 DEF FileMeans
  <2>2. /\ conds[d][i].matched <=> Some(asked[d][i])
        /\ conds[d][i].active <=> AllChosen(asked[d], i)
    BY <2>1 DEF FileMeans
  <2>3. AllChosen(hs1, i) <=> AllChosen(asked[d], i)
    BY <1>7 DEF AllChosen
  <2>4. cs1[i] = conds[d][i] /\ hs1[i] = asked[d][i]
    BY <1>6, <1>7
  <2> QED
    BY <2>2, <2>3, <2>4
<1>9. /\ conds'[d] = cs1 /\ asked'[d] = hs1 /\ Len(conds') = Len(conds)
      /\ \A f \in 1 .. Len(conds) :
           f # d => conds'[f] = conds[f] /\ asked'[f] = asked[f]
  BY <1>4, <1>5
<1> QED
  BY <1>2, <1>8, <1>9, OneFileMeans

(* The included file has no groups; the one that includes it is active. *)
LEMMA IncludeMeans ==
  ASSUME CondInv, Include
  PROVE  ActiveIsMeaning' /\ IncludersAreActive'
<1>1. TypeOK /\ Reading /\ Active
  BY DEF Include, Enter, Hash, Read, Reading, CondInv
<1>2. PICK d \in Nat : d = File /\ d = Len(conds) /\ d = Len(asked)
  BY <1>1, FileFacts DEF File, TypeOK
<1>3. /\ Len(conds') = d + 1 /\ conds'[d + 1] = <<>>
      /\ \A f \in 1 .. d : conds'[f] = conds[f]
  <2>1. conds' = Append(conds, <<>>) /\ conds \in Seq(Seq(Conds))
    BY <1>1 DEF Include, Enter, TypeOK
  <2> DEFINE S == Seq(Conds)
             e == <<>>
  <2>2. conds \in Seq(S) /\ e \in S /\ conds' = Append(conds, e)
    BY <2>1
  <2> HIDE DEF S, e
  <2>3. /\ Len(conds') = Len(conds) + 1
        /\ conds'[Len(conds) + 1] = e
        /\ \A f \in 1 .. Len(conds) : conds'[f] = conds[f]
    BY ONLY <2>2, PushFacts
  <2> QED
    BY <1>2, <2>3 DEF e
<1>4. \A f \in 1 .. d : asked'[f] = asked[f]
  <2>1. asked' = Append(asked, <<>>) /\ asked \in Seq(Seq(Answers))
    BY <1>1 DEF Include, Enter, TypeOK
  <2> QED
    BY <1>2, <2>1
<1>5. ActiveIsMeaning'
  <2> SUFFICES ASSUME NEW f \in 1 .. Len(conds')
               PROVE  FileMeans(conds'[f], asked'[f])
    BY MeansByFileNext
  <2>1. CASE f \in 1 .. d
    <3>1. FileMeans(conds[f], asked[f])
      BY <1>2, <2>1, MeansByFile DEF CondInv
    <3> QED
      BY <1>3, <1>4, <2>1, <3>1
  <2>2. CASE f = d + 1
    BY <1>3, <2>2 DEF FileMeans
  <2> QED
    BY <1>3, <2>1, <2>2
<1>6. IncludersAreActive'
  <2> SUFFICES ASSUME NEW f \in 1 .. d
               PROVE  ActiveAt(f, Len(conds[f]))'
    BY <1>3 DEF IncludersAreActive
  <2>1. ActiveAt(f, Len(conds[f]))
    BY <1>1, <1>2 DEF CondInv, IncludersAreActive, Active, Depth
  <2> QED
    BY <1>3, <2>1 DEF ActiveAt
<1> QED
  BY <1>5, <1>6

LEMMA EndOfFileMeans ==
  ASSUME CondInv, EndOfFile
  PROVE  ActiveIsMeaning' /\ IncludersAreActive'
<1>1. TypeOK /\ Reading
  BY DEF CondInv, EndOfFile, Reading
<1>2. PICK r \in 0 .. Len(conds) : r = Len(conds) - 1
  BY <1>1, EndOfFileFacts DEF File
<1>3. /\ Len(conds') = r
      /\ \A f \in 1 .. r : conds'[f] = conds[f] /\ asked'[f] = asked[f]
  BY <1>1, <1>2, EndOfFileFacts DEF File
<1>4. ActiveIsMeaning'
  <2> SUFFICES ASSUME NEW f \in 1 .. r
               PROVE  FileMeans(conds'[f], asked'[f])
    BY <1>3, MeansByFileNext
  <2>1. FileMeans(conds[f], asked[f])
    BY MeansByFile DEF CondInv
  <2> QED
    BY <1>3, <2>1
<1>5. IncludersAreActive'
  <2> SUFFICES ASSUME NEW f \in 1 .. r - 1
               PROVE  ActiveAt(f, Len(conds[f]))'
    BY <1>3 DEF IncludersAreActive
  <2>1. ActiveAt(f, Len(conds[f]))
    BY <1>2 DEF CondInv, IncludersAreActive
  <2> QED
    BY <1>3, <2>1 DEF ActiveAt
<1> QED
  BY <1>4, <1>5

(* What a step does to the groups. *)
LEMMA GroupSteps ==
  ASSUME TypeOK, [Next]_vars
  PROVE  \/ \E l : \E c \in BOOLEAN : OpenGroup(l, c) \/ Branch(l, c)
         \/ Endif
         \/ Include
         \/ EndOfFile
         \/ UNCHANGED <<conds, asked>>
<1>1. ASSUME NEW n \in Names, IfDef(n) \/ IfNDef(n)
      PROVE  \E l : \E c \in BOOLEAN : OpenGroup(l, c)
  BY <1>1 DEF IfDef, IfNDef
<1>2. ASSUME NEW n \in Names, NEW q \in Questions, NEW neg \in BOOLEAN,
             If(q, n, neg)
      PROVE  \E l : \E c \in BOOLEAN : OpenGroup(l, c)
  BY <1>2 DEF If
<1>3. ASSUME NEW n \in Names, NEW q \in Questions, NEW neg \in BOOLEAN,
             Elif(q, n, neg)
      PROVE  \E l : \E c \in BOOLEAN : Branch(l, c)
  <2>1. Branch(<<"elif", q, n, neg>>, ExprVal(q, n) # neg)
    BY <1>3, ElifIsBranch
  <2> QED
    BY <2>1
<1>4. ASSUME Else
      PROVE  \E l : \E c \in BOOLEAN : Branch(l, c)
  <2>1. Branch(<<"else">>, TRUE)
    BY <1>4, ElseIsBranch
  <2> QED
    BY <2>1
<1>5. ASSUME NEW n \in Names, NEW body \in Bodies,
             Define(n, body) \/ Undef(n)
      PROVE  UNCHANGED <<conds, asked>>
  BY <1>5 DEF Define, Undef
<1>6. ASSUME NEW n, NEW literal, NEW call, NEW mark,
             Text(n, literal, call, mark) \/ InactiveText(n, literal, call)
      PROVE  UNCHANGED <<conds, asked>>
  BY <1>6 DEF Text, InactiveText
<1>7. ASSUME NEW l, Inactive(l) \/ Stray(l)
      PROVE  UNCHANGED <<conds, asked>>
  BY <1>7 DEF Inactive, Stray, Swallow
<1>8. ASSUME Pragma \/ Exit \/ Stop \/ UNCHANGED vars
      PROVE  UNCHANGED <<conds, asked>>
  BY <1>8 DEF Pragma, Swallow, Exit, Stop, vars, history
<1> QED
  <2> DEFINE Opens == \E l : \E c \in BOOLEAN : OpenGroup(l, c) \/ Branch(l, c)
             Same == UNCHANGED <<conds, asked>>
  <2>1. /\ (\E l : \E c \in BOOLEAN : OpenGroup(l, c)) => Opens
        /\ (\E l : \E c \in BOOLEAN : Branch(l, c)) => Opens
    OBVIOUS
  <2>2. SUFFICES Opens \/ Endif \/ Include \/ EndOfFile \/ Same
    OBVIOUS
  <2> HIDE DEF Opens, Same
  <2>3. /\ \A n \in Names : IfDef(n) \/ IfNDef(n) => Opens
        /\ \A n \in Names, q \in Questions, neg \in BOOLEAN :
             If(q, n, neg) \/ Elif(q, n, neg) => Opens
        /\ Else => Opens
    BY <1>1, <1>2, <1>3, <1>4, <2>1
  <2>4. \A n \in Names, body \in Bodies : Define(n, body) \/ Undef(n) => Same
    BY <1>5 DEF Same
  <2>5. \A n, literal, call, mark :
          Text(n, literal, call, mark) \/ InactiveText(n, literal, call) => Same
    BY <1>6 DEF Same
  <2>6. \A l : Inactive(l) \/ Stray(l) => Same
    BY <1>7 DEF Same
  <2>7. Pragma \/ Exit \/ Stop \/ UNCHANGED vars => Same
    BY <1>8 DEF Same
  <2>8. \A n \in Names : Undef(n) => Same
    BY DEF Undef, Same
  <2> QED
    BY <2>3, <2>4, <2>5, <2>6, <2>7, <2>8 DEF Next

LEMMA CondInit == Init => CondInv
<1> SUFFICES ASSUME Init PROVE ActiveIsMeaning /\ IncludersAreActive
  BY TypesInit DEF CondInv
<1>1. Len(conds) = 1 /\ conds[1] = <<>>
  BY DEF Init
<1> QED
  BY <1>1 DEF ActiveIsMeaning, IncludersAreActive

LEMMA CondStep == CondInv /\ [Next]_vars => CondInv'
<1> SUFFICES ASSUME CondInv, [Next]_vars
             PROVE  ActiveIsMeaning' /\ IncludersAreActive'
  BY TypesStep DEF CondInv
<1>1. ASSUME NEW l, NEW c \in BOOLEAN, OpenGroup(l, c) \/ Branch(l, c)
      PROVE  ActiveIsMeaning' /\ IncludersAreActive'
  BY <1>1, OpenGroupMeans, BranchMeans
<1>2. ASSUME UNCHANGED <<conds, asked>>
      PROVE  ActiveIsMeaning' /\ IncludersAreActive'
  BY <1>2 DEF CondInv, ActiveIsMeaning, IncludersAreActive, ActiveAt
<1> QED
  BY <1>1, <1>2, EndifMeans, IncludeMeans, EndOfFileMeans, GroupSteps
     DEF CondInv

(* In every open file the two bits of each group are what the conditions of
   its branches say: preprocess_internal's cond_stack loses nothing. *)
THEOREM BitsMeanConditions == Spec => []ActiveIsMeaning
<1>1. CondInv => ActiveIsMeaning
  BY DEF CondInv
<1> QED
  BY <1>1, CondInit, CondStep, PTL DEF Spec

(* However files and groups nest, the #include line of every open file stands
   in an active branch until the file ends. *)
THEOREM FilesAreReadForActiveLines == Spec => []IncludersAreActive
<1>1. CondInv => IncludersAreActive
  BY DEF CondInv
<1> QED
  BY <1>1, CondInit, CondStep, PTL DEF Spec

-----------------------------------------------------------------------------
(* The macro list *)

(* With one definition per name, find_macro finds the place of a name iff
   there is one. *)
LEMMA FindFacts ==
  ASSUME TypeOK, OneDefinition, NEW n
  PROVE  FindMacro(n) = {i \in 1 .. Len(macros) : macros[i].name = n}
<1>1. Len(macros) \in Nat
  BY DEF TypeOK
<1>2. ASSUME NEW i \in 1 .. Len(macros), macros[i].name = n,
             NEW j \in 1 .. i - 1
      PROVE  macros[j].name # n
  <2>1. j \in 1 .. Len(macros) /\ j # i
    BY <1>1
  <2> QED
    BY <1>2, <2>1 DEF OneDefinition
<1> QED
  BY <1>2 DEF FindMacro

(* #define puts a name that exists in its place, another one in front. *)
LEMMA DefineOnce ==
  ASSUME TypeOK, OneDefinition, NEW n \in Names, NEW body \in Bodies,
         AddOrReplaceMacro(n, body)
  PROVE  OneDefinition'
<1>1. macros \in Seq(Macros) /\ Len(macros) \in Nat
  BY DEF TypeOK
<1>2. CASE FindMacro(n) # {}
  <2>1. macros' = Replaced(n, body)
    BY <1>2 DEF AddOrReplaceMacro
  <2>2. ASSUME NEW i \in 1 .. Len(macros)
        PROVE  Replaced(n, body)[i].name = macros[i].name
    <3>1. macros[i] \in Macros
      BY <1>1
    <3> QED
      BY <3>1 DEF Replaced, Macros
  <2>3. Len(macros') = Len(macros)
    BY <1>1, <2>1 DEF Replaced
  <2> QED
    BY <2>1, <2>2, <2>3 DEF OneDefinition
<1>3. CASE FindMacro(n) = {}
  <2> DEFINE m == [name |-> n, body |-> body]
  <2>1. m \in Macros /\ m.name = n
    BY DEF Macros
  <2>2. macros' = <<m>> \o macros
    BY <1>3 DEF AddOrReplaceMacro
  <2> HIDE DEF m
  <2>3. /\ Len(macros') = Len(macros) + 1
        /\ macros'[1] = m
        /\ \A i \in 1 .. Len(macros) : macros'[i + 1] = macros[i]
    BY <1>1, <2>1, <2>2, HeadFacts
  <2>4. \A i \in 1 .. Len(macros) : macros[i].name # n
    BY <1>3, FindFacts
  <2>5. ASSUME NEW i \in 1 .. Len(macros'), i # 1
        PROVE  /\ i - 1 \in 1 .. Len(macros)
               /\ macros'[i] = macros[i - 1]
               /\ macros'[i].name # n
    <3>1. i - 1 \in 1 .. Len(macros) /\ (i - 1) + 1 = i
      BY <1>1, <2>3, <2>5
    <3> QED
      BY <2>3, <2>4, <3>1
  <2> SUFFICES ASSUME NEW i \in 1 .. Len(macros'), NEW j \in 1 .. Len(macros'),
                      macros'[i].name = macros'[j].name
               PROVE  i = j
    BY DEF OneDefinition
  <2>6. CASE i = 1 \/ j = 1
    BY <2>1, <2>3, <2>5, <2>6
  <2>7. CASE i # 1 /\ j # 1
    <3>1. i - 1 = j - 1
      BY <2>5, <2>7 DEF OneDefinition
    <3> QED
      BY <1>1, <2>3, <3>1
  <2> QED
    BY <2>6, <2>7
<1> QED
  BY <1>2, <1>3

LEMMA UndefOnce ==
  ASSUME TypeOK, OneDefinition, NEW n, UndefMacro(n)
  PROVE  OneDefinition'
<1>1. macros \in Seq(Macros) /\ Len(macros) \in Nat
  BY DEF TypeOK
<1>2. CASE macros' = macros
  BY <1>2 DEF OneDefinition
<1>3. ASSUME NEW p \in FindMacro(n), macros' = WithoutPlace(p)
      PROVE  OneDefinition'
  <2>1. p \in 1 .. Len(macros)
    BY DEF FindMacro
  <2> DEFINE old(k) == IF k < p THEN k ELSE k + 1
  <2>2. Len(macros') = Len(macros) - 1
    BY <1>1, <1>3, <2>1 DEF WithoutPlace
  <2>3. \A k \in 1 .. Len(macros') :
          macros'[k] = macros[old(k)] /\ old(k) \in 1 .. Len(macros)
    BY <1>1, <1>3, <2>1, <2>2 DEF WithoutPlace
  <2> SUFFICES ASSUME NEW i \in 1 .. Len(macros'), NEW j \in 1 .. Len(macros'),
                      macros'[i].name = macros'[j].name
               PROVE  i = j
    BY DEF OneDefinition
  <2>4. old(i) = old(j)
    BY <2>3 DEF OneDefinition
  <2> QED
    BY <1>1, <2>1, <2>2, <2>4
<1> QED
  BY <1>2, <1>3 DEF UndefMacro

(* What a step does to the macros. *)
LEMMA MacroSteps ==
  ASSUME [Next]_vars
  PROVE  \/ \E n \in Names, body \in Bodies : AddOrReplaceMacro(n, body)
         \/ \E n \in Names : UndefMacro(n)
         \/ macros' = macros
<1>1. ASSUME NEW n \in Names, NEW body \in Bodies, Define(n, body)
      PROVE  AddOrReplaceMacro(n, body)
  BY <1>1 DEF Define
<1>2. ASSUME NEW n \in Names, Undef(n) PROVE UndefMacro(n)
  BY <1>2 DEF Undef
<1> DEFINE Same == macros' = macros
<1>3. \A n : IfDef(n) \/ IfNDef(n) => Same
  BY DEF IfDef, IfNDef, OpenGroup
<1>4. \A q, n, neg : If(q, n, neg) \/ Elif(q, n, neg) => Same
  BY DEF If, OpenGroup, Elif, NextBranch
<1>5. \A n, literal, call, mark :
        Text(n, literal, call, mark) \/ InactiveText(n, literal, call) => Same
  BY DEF Text, InactiveText
<1>6. \A l : Inactive(l) \/ Stray(l) => Same
  BY DEF Inactive, Stray, Swallow
<1>7. Else \/ Endif \/ Include \/ EndOfFile => Same
  BY DEF Else, NextBranch, Endif, Include, Enter, EndOfFile
<1>8. Pragma \/ Exit \/ Stop \/ UNCHANGED vars => Same
  BY DEF Pragma, Swallow, Exit, Stop, vars
<1> HIDE DEF Same
<1>9. \/ \E n \in Names, body \in Bodies : AddOrReplaceMacro(n, body)
      \/ \E n \in Names : UndefMacro(n)
      \/ Same
  BY <1>1, <1>2, <1>3, <1>4, <1>5, <1>6, <1>7, <1>8 DEF Next
<1> QED
  BY <1>9 DEF Same

LEMMA OnceInit == Init => OneDefinition
<1> SUFFICES ASSUME Init PROVE OneDefinition
  OBVIOUS
<1>1. Len(macros) = 1
  BY DEF Init
<1> QED
  BY <1>1 DEF OneDefinition

LEMMA OnceStep == TypeOK /\ OneDefinition /\ [Next]_vars => OneDefinition'
<1> SUFFICES ASSUME TypeOK, OneDefinition, [Next]_vars
             PROVE  OneDefinition'
  OBVIOUS
<1>1. ASSUME macros' = macros PROVE OneDefinition'
  BY <1>1 DEF OneDefinition
<1> QED
  BY <1>1, MacroSteps, DefineOnce, UndefOnce

(* However often a name is defined and undefined, the list of ctx->macros has
   one definition of it, so that #undef removes it altogether. *)
THEOREM NamesHaveOneDefinition == Spec => []OneDefinition
  BY OnceInit, OnceStep, TypesInit, TypesStep, PTL DEF Spec

-----------------------------------------------------------------------------
(* Preprocess implements ConditionalText *)

(* The two specifications speak of the same file and the same group. *)
LEMMA SamePlace ==
  ASSUME TypeOK, Reading
  PROVE  Promise!File = File /\ Promise!Depth = Depth
<1>1. Len(asked) = Len(conds)
  BY DEF TypeOK
<1> QED
  BY <1>1, FileFacts DEF Promise!File, Promise!Depth, File

(* A line counts iff the top bits of its file say so. *)
LEMMA LiveIsActive ==
  ASSUME CondInv, Reading
  PROVE  Promise!Live <=> Active
<1>1. TypeOK /\ ActiveIsMeaning /\ IncludersAreActive
  BY DEF CondInv
<1>2. PICK d \in 1 .. Len(conds) : d = File /\ d = Len(conds)
  BY <1>1, FileFacts DEF File
<1>3. Len(asked) = Len(conds)
  BY <1>1 DEF TypeOK
<1>4. ASSUME NEW f \in 1 .. Len(conds)
      PROVE  /\ ActiveAt(f, Len(conds[f])) <=> AllChosen(asked[f], Len(conds[f]))
             /\ Len(asked[f]) = Len(conds[f])
  <2>1. Len(conds[f]) \in Nat /\ Len(asked[f]) = Len(conds[f])
    BY <1>1 DEF TypeOK
  <2> DEFINE k == Len(conds[f])
  <2>2. k \in 0 .. Len(conds[f]) /\ FileMeans(conds[f], asked[f])
    BY <1>1, <2>1, MeansByFile
  <2>3. (k > 0 => conds[f][k].active) <=> AllChosen(asked[f], k)
    BY <2>1, <2>2, PrefixMeans
  <2> QED
    BY <2>1, <2>3 DEF ActiveAt
<1>5. Promise!Live <=>
        \A f \in 1 .. Len(conds) : AllChosen(asked[f], Len(conds[f]))
  BY <1>3, <1>4 DEF Promise!Live, Promise!Chosen, AllChosen, Chosen
<1>6. \A f \in 1 .. Len(conds) : f # d => ActiveAt(f, Len(conds[f]))
  <2> SUFFICES ASSUME NEW f \in 1 .. Len(conds), f # d
               PROVE  ActiveAt(f, Len(conds[f]))
    OBVIOUS
  <2>1. f \in 1 .. Len(conds) - 1
    BY <1>2
  <2> QED
    BY <1>1, <2>1 DEF IncludersAreActive
<1>7. Active <=> ActiveAt(d, Len(conds[d]))
  BY <1>2 DEF Active, Depth
<1> QED
  BY <1>4, <1>5, <1>6, <1>7

(* #if and #elif ask the same questions. *)
LEMMA SameAnswer ==
  ASSUME TypeOK, NEW q \in Questions, NEW n \in Names
  PROVE  Promise!Answer(q, n) <=> ExprVal(q, n)
<1>1. (Meaning(n) # {}) <=> (FindMacro(n) # {})
  BY DEF Meaning
<1>2. currentLine # 0
  BY DEF TypeOK
<1> QED
  BY <1>1, <1>2 DEF Promise!Answer, Promise!Defined, ExprVal, Questions

LEMMA SameTable ==
  ASSUME macros' = macros
  PROVE  [n \in Names |-> Meaning(n)]' = [n \in Names |-> Meaning(n)]
BY DEF Meaning, FindMacro

(* What a name means, when it has one definition. *)
LEMMA MeaningOnce ==
  ASSUME TypeOK, OneDefinition, NEW n
  PROVE  Meaning(n) =
           {macros[i].body : i \in {j \in 1 .. Len(macros) : macros[j].name = n}}
BY FindFacts DEF Meaning

LEMMA MeaningOnceNext ==
  ASSUME TypeOK', OneDefinition', NEW n
  PROVE  Meaning(n)' =
           {macros'[i].body : i \in {j \in 1 .. Len(macros') : macros'[j].name = n}}
<1>1. FindMacro(n)' = {j \in 1 .. Len(macros') : macros'[j].name = n}
  <2>1. Len(macros') \in Nat
    BY DEF TypeOK
  <2>2. ASSUME NEW i \in 1 .. Len(macros'), macros'[i].name = n,
               NEW j \in 1 .. i - 1
        PROVE  macros'[j].name # n
    <3>1. j \in 1 .. Len(macros') /\ j # i
      BY <2>1
    <3> QED
      BY <2>2, <3>1 DEF OneDefinition
  <2> QED
    BY <2>2 DEF FindMacro
<1> QED
  BY <1>1 DEF Meaning

(* #define gives a name its body and leaves the others alone. *)
LEMMA DefineMeans ==
  ASSUME TypeOK, OneDefinition, TypeOK', OneDefinition',
         NEW n \in Names, NEW body \in Bodies, AddOrReplaceMacro(n, body),
         NEW m \in Names
  PROVE  Meaning(m)' = IF m = n THEN {body} ELSE Meaning(m)
<1>1. macros \in Seq(Macros) /\ Len(macros) \in Nat
  BY DEF TypeOK
<1> DEFINE new == {macros'[i].body :
                     i \in {j \in 1 .. Len(macros') : macros'[j].name = m}}
           old == {macros[i].body :
                     i \in {j \in 1 .. Len(macros) : macros[j].name = m}}
<1>2. new = IF m = n THEN {body} ELSE old
  <2>1. CASE FindMacro(n) # {}
    <3>1. PICK p \in 1 .. Len(macros) : macros[p].name = n /\ p \in FindMacro(n)
      BY <2>1 DEF FindMacro
    <3>2. \A i \in 1 .. Len(macros) : i \in FindMacro(n) <=> i = p
      BY <3>1, FindFacts DEF OneDefinition
    <3>3. macros' = Replaced(n, body)
      BY <2>1 DEF AddOrReplaceMacro
    <3>4. Len(macros') = Len(macros)
      BY <1>1, <3>3 DEF Replaced
    <3>5. ASSUME NEW i \in 1 .. Len(macros)
          PROVE  /\ macros'[i].name = macros[i].name
                 /\ macros'[i].body = IF i = p THEN body ELSE macros[i].body
      <4>1. macros[i] \in Macros
        BY <1>1
      <4> QED
        BY <3>2, <3>3, <4>1 DEF Replaced, Macros
    <3>6. \A i \in 1 .. Len(macros) : macros[i].name = n <=> i = p
      BY <3>1 DEF OneDefinition
    <3>7. new = {IF i = p THEN body ELSE macros[i].body :
                   i \in {j \in 1 .. Len(macros) : macros[j].name = m}}
      BY <3>4, <3>5
    <3>8. CASE m = n
      BY <3>6, <3>7, <3>8
    <3>9. CASE m # n
      BY <3>6, <3>7, <3>9
    <3> QED
      BY <3>8, <3>9
  <2>2. CASE FindMacro(n) = {}
    <3> DEFINE e == [name |-> n, body |-> body]
    <3>1. e \in Macros /\ e.name = n /\ e.body = body
      BY DEF Macros
    <3>2. macros' = <<e>> \o macros
      BY <2>2 DEF AddOrReplaceMacro
    <3> HIDE DEF e
    <3>3. /\ Len(macros') = Len(macros) + 1
          /\ macros'[1] = e
          /\ \A i \in 1 .. Len(macros) : macros'[i + 1] = macros[i]
      BY <1>1, <3>1, <3>2, HeadFacts
    <3>4. \A i \in 1 .. Len(macros) : macros[i].name # n
      BY <2>2, FindFacts
    <3>5. ASSUME NEW i \in 1 .. Len(macros'), i # 1
          PROVE  i - 1 \in 1 .. Len(macros) /\ macros'[i] = macros[i - 1]
      <4>1. i - 1 \in 1 .. Len(macros) /\ (i - 1) + 1 = i
        BY <1>1, <3>3, <3>5
      <4> QED
        BY <3>3, <4>1
    <3>6. CASE m = n
      <4>1. \A i \in 1 .. Len(macros') : macros'[i].name = m <=> i = 1
        BY <3>1, <3>3, <3>4, <3>5, <3>6
      <4>2. 1 \in 1 .. Len(macros')
        BY <1>1, <3>3
      <4> QED
        BY <3>1, <3>3, <3>6, <4>1, <4>2
    <3>7. CASE m # n
      <4>1. ASSUME NEW x \in new PROVE x \in old
        <5>1. PICK i \in 1 .. Len(macros') :
                macros'[i].name = m /\ x = macros'[i].body
          BY <4>1
        <5>2. i # 1
          BY <3>1, <3>3, <3>7, <5>1
        <5> QED
          BY <3>5, <5>1, <5>2
      <4>2. ASSUME NEW x \in old PROVE x \in new
        <5>1. PICK i \in 1 .. Len(macros) :
                macros[i].name = m /\ x = macros[i].body
          BY <4>2
        <5>2. i + 1 \in 1 .. Len(macros') /\ macros'[i + 1] = macros[i]
          BY <1>1, <3>3
        <5> QED
          BY <5>1, <5>2
      <4> QED
        BY <3>7, <4>1, <4>2
    <3> QED
      BY <3>6, <3>7
  <2> QED
    BY <2>1, <2>2
<1> QED
  BY <1>2, MeaningOnce, MeaningOnceNext

(* #undef takes the only definition of a name away. *)
LEMMA UndefMeans ==
  ASSUME TypeOK, OneDefinition, TypeOK', OneDefinition',
         NEW n \in Names, UndefMacro(n), NEW m \in Names
  PROVE  Meaning(m)' = IF m = n THEN {} ELSE Meaning(m)
<1>1. macros \in Seq(Macros) /\ Len(macros) \in Nat
  BY DEF TypeOK
<1>2. CASE FindMacro(n) = {} /\ macros' = macros
  <2>1. Meaning(n) = {}
    BY <1>2 DEF Meaning
  <2>2. Meaning(m)' = Meaning(m)
    BY <1>2 DEF Meaning, FindMacro
  <2> QED
    BY <2>1, <2>2
<1>3. ASSUME NEW p \in FindMacro(n), macros' = WithoutPlace(p)
      PROVE  Meaning(m)' = IF m = n THEN {} ELSE Meaning(m)
  <2> DEFINE new == {macros'[i].body :
                       i \in {j \in 1 .. Len(macros') : macros'[j].name = m}}
             old == {macros[i].body :
                       i \in {j \in 1 .. Len(macros) : macros[j].name = m}}
             from(k) == IF k < p THEN k ELSE k + 1
  <2>1. p \in 1 .. Len(macros) /\ macros[p].name = n
    BY DEF FindMacro
  <2>2. Len(macros') = Len(macros) - 1
    BY <1>1, <1>3, <2>1 DEF WithoutPlace
  <2>3. \A k \in 1 .. Len(macros') :
          /\ macros'[k] = macros[from(k)]
          /\ from(k) \in 1 .. Len(macros) /\ from(k) # p
    BY <1>1, <1>3, <2>1, <2>2 DEF WithoutPlace
  <2>4. \A i \in 1 .. Len(macros) :
          i # p => macros[i].name # n /\
                   \E k \in 1 .. Len(macros') : from(k) = i
    <3> SUFFICES ASSUME NEW i \in 1 .. Len(macros), i # p
                 PROVE  \E k \in 1 .. Len(macros') : from(k) = i
      BY <2>1 DEF OneDefinition
    <3>1. CASE i < p
      <4>1. i \in 1 .. Len(macros') /\ from(i) = i
        BY <1>1, <2>1, <2>2, <3>1
      <4> QED
        BY <4>1
    <3>2. CASE i > p
      <4>1. i - 1 \in 1 .. Len(macros') /\ from(i - 1) = i
        BY <1>1, <2>1, <2>2, <3>2
      <4> QED
        BY <4>1
    <3> QED
      BY <2>1, <3>1, <3>2
  <2> HIDE DEF from
  <2>5. CASE m = n
    <3>1. new = {}
      BY <2>3, <2>4, <2>5
    <3> QED
      BY <2>5, <3>1, MeaningOnceNext
  <2>6. CASE m # n
    <3>1. ASSUME NEW x \in new PROVE x \in old
      BY <2>3, <3>1
    <3>2. ASSUME NEW x \in old PROVE x \in new
      <4>1. PICK i \in 1 .. Len(macros) :
              macros[i].name = m /\ x = macros[i].body
        BY <3>2
      <4>2. PICK k \in 1 .. Len(macros') : from(k) = i
        BY <2>1, <2>4, <2>6, <4>1
      <4> QED
        BY <2>3, <4>1, <4>2
    <3> QED
      BY <2>6, <3>1, <3>2, MeaningOnce, MeaningOnceNext
  <2> QED
    BY <2>5, <2>6
<1> QED
  BY <1>2, <1>3 DEF UndefMacro

(* All that is known before a step and after it. *)
Known == CondInv /\ OneDefinition

LEMMA KnownStep == Known /\ [Next]_vars => Known'
  BY CondStep, OnceStep DEF Known, CondInv

LEMMA InitImplements == Init => Promise!Init
<1> SUFFICES ASSUME Init PROVE Promise!Init
  OBVIOUS
<1>1. TypeOK /\ OneDefinition
  BY TypesInit, OnceInit
<1>2. /\ Len(macros) = 1 /\ macros[1].name = Predefined
      /\ macros[1].body = Body(1, FALSE)
  BY DEF Init
<1>3. ASSUME NEW n \in Names
      PROVE  Meaning(n) = IF n = Predefined THEN {Body(1, FALSE)} ELSE {}
  <2>1. Meaning(n) =
          {macros[i].body : i \in {j \in 1 .. Len(macros) : macros[j].name = n}}
    BY <1>1, MeaningOnce
  <2>2. 1 .. Len(macros) = {1}
    BY <1>2
  <2>3. CASE n = Predefined
    BY <1>2, <2>1, <2>2, <2>3
  <2>4. CASE n # Predefined
    BY <1>2, <2>1, <2>2, <2>4
  <2> QED
    BY <2>3, <2>4
<1>4. [n \in Names |-> Meaning(n)] =
        [n \in Names |-> IF n = Predefined THEN {Body(1, FALSE)} ELSE {}]
  BY <1>3
<1> QED
  BY <1>4 DEF Init, Promise!Init, Body, Promise!Body

LEMMA OpenGroupImplements ==
  ASSUME Known, NEW l, NEW c, OpenGroup(l, c)
  PROVE  Promise!OpenGroup(l, c)
<1>1. TypeOK /\ Reading
  BY DEF Known, CondInv, OpenGroup, Directive, Hash, Read, Reading
<1> QED
  BY <1>1, SamePlace, SameTable
     DEF OpenGroup, Directive, Hash, Read, Reading,
         Promise!OpenGroup, Promise!Directive, Promise!Read

LEMMA BranchImplements ==
  ASSUME Known, NEW l, NEW c, Branch(l, c)
  PROVE  Promise!NextBranch(l, c)
<1>1. TypeOK /\ Reading /\ Depth > 0
  BY DEF Known, CondInv, Branch, NextBranch, Directive, Hash, Read, Reading
<1> QED
  BY <1>1, SamePlace, SameTable
     DEF Branch, NextBranch, Directive, Hash, Read, Reading,
         Promise!NextBranch, Promise!Directive, Promise!Read

LEMMA EndifImplements ==
  ASSUME Known, Endif
  PROVE  Promise!Endif
<1>1. TypeOK /\ Reading /\ Depth > 0
  BY DEF Known, CondInv, Endif, Directive, Hash, Read, Reading
<1> QED
  BY <1>1, SamePlace, SameTable
     DEF Endif, Directive, Hash, Read, Reading,
         Promise!Endif, Promise!Directive, Promise!Read

(* A directive that changes nothing. *)
LEMMA SwallowImplements ==
  ASSUME Known, NEW l, Swallow(l)
  PROVE  /\ Promise!Directive(l)
         /\ asked' = asked
         /\ [n \in Names |-> Meaning(n)]' = [n \in Names |-> Meaning(n)]
         /\ Reading
BY SameTable
   DEF Swallow, Directive, Hash, Read, Reading,
       Promise!Directive, Promise!Read

(* One in a branch that is not chosen is not obeyed. *)
LEMMA InactiveImplements ==
  ASSUME Known, NEW l, Inactive(l)
  PROVE  /\ \A n \in Names, body \in Bodies :
              l = <<"define", n, body>> => Promise!Define(n, body)
         /\ \A n \in Names : l = <<"undef", n>> => Promise!Undef(n)
         /\ l = <<"include">> => Promise!Include
         /\ l = <<"pragma">> => Promise!Pragma
         /\ l = <<"fatal">> => Promise!Fatal
<1>1. /\ Promise!Directive(l)
      /\ asked' = asked
      /\ [n \in Names |-> Meaning(n)]' = [n \in Names |-> Meaning(n)]
      /\ Reading
  BY SwallowImplements DEF Inactive
<1>2. ~Promise!Live
  BY <1>1, LiveIsActive DEF Known, Inactive
<1> QED
  BY <1>1, <1>2
     DEF Promise!Define, Promise!Undef, Promise!Assign, Promise!Include,
         Promise!Pragma, Promise!Fatal, Promise!Directive, Reading

(* One that closes or continues a group that is not there neither. *)
LEMMA StrayImplements ==
  ASSUME Known, NEW l, Stray(l)
  PROVE  /\ \A c : Promise!NextBranch(l, c)
         /\ l = <<"endif">> => Promise!Endif
<1>1. /\ Promise!Directive(l)
      /\ asked' = asked
      /\ [n \in Names |-> Meaning(n)]' = [n \in Names |-> Meaning(n)]
      /\ Reading
  BY SwallowImplements DEF Stray
<1>2. Promise!Depth = 0
  BY <1>1, SamePlace DEF Known, CondInv, Stray
<1> QED
  BY <1>1, <1>2 DEF Promise!NextBranch, Promise!Endif

LEMMA DefineImplements ==
  ASSUME Known, Known', NEW n \in Names, NEW body \in Bodies, Define(n, body)
  PROVE  Promise!Define(n, body)
<1>1. Reading /\ Active
  BY DEF Define, Directive, Hash, Read, Reading
<1>2. Promise!Live
  BY <1>1, LiveIsActive DEF Known
<1>3. ASSUME NEW m \in Names
      PROVE  Meaning(m)' = IF m = n THEN {body} ELSE Meaning(m)
  BY DefineMeans DEF Known, CondInv, Define
<1>4. [m \in Names |-> Meaning(m)]' =
        [[m \in Names |-> Meaning(m)] EXCEPT ![n] = {body}]
  BY <1>3
<1> QED
  BY <1>1, <1>2, <1>4
     DEF Define, Directive, Hash, Read, Reading, Promise!Define,
         Promise!Assign, Promise!Directive, Promise!Read

LEMMA UndefImplements ==
  ASSUME Known, Known', NEW n \in Names, Undef(n)
  PROVE  Promise!Undef(n)
<1>1. Reading /\ Active
  BY DEF Undef, Directive, Hash, Read, Reading
<1>2. Promise!Live
  BY <1>1, LiveIsActive DEF Known
<1>3. ASSUME NEW m \in Names
      PROVE  Meaning(m)' = IF m = n THEN {} ELSE Meaning(m)
  BY UndefMeans DEF Known, CondInv, Undef
<1>4. [m \in Names |-> Meaning(m)]' =
        [[m \in Names |-> Meaning(m)] EXCEPT ![n] = {}]
  BY <1>3
<1> QED
  BY <1>1, <1>2, <1>4
     DEF Undef, Directive, Hash, Read, Reading, Promise!Undef,
         Promise!Assign, Promise!Directive, Promise!Read

LEMMA IncludeImplements ==
  ASSUME Known, Include
  PROVE  Promise!Include
<1>1. Reading /\ Active
  BY DEF Include, Enter, Hash, Read, Reading
<1>2. Promise!Live
  BY <1>1, LiveIsActive DEF Known
<1> QED
  BY <1>1, <1>2, SameTable
     DEF Include, Enter, Hash, Read, Reading, Promise!Include,
         Promise!Directive, Promise!Read

LEMMA EndOfFileImplements ==
  ASSUME Known, EndOfFile
  PROVE  Promise!EndOfFile
<1>1. Reading /\ TypeOK
  BY DEF EndOfFile, Reading, Known, CondInv
<1>2. Promise!File = File /\ (File - 1 = 0 <=> File = 1)
  BY <1>1, SamePlace, FileFacts
<1> QED
  BY <1>1, <1>2, SameTable
     DEF EndOfFile, Reading, Promise!EndOfFile, Promise!Read

LEMMA ExitImplements ==
  ASSUME Known, Exit
  PROVE  Promise!Fatal
<1>1. Reading /\ Active
  BY DEF Exit, Hash, Read, Reading
<1>2. Promise!Live
  BY <1>1, LiveIsActive DEF Known
<1> QED
  BY <1>1, <1>2, SameTable
     DEF Exit, Hash, Read, Reading, history, Promise!Fatal, Promise!Read

LEMMA TextImplements ==
  ASSUME Known, NEW n \in Names, NEW literal \in BOOLEAN, NEW call \in BOOLEAN,
         NEW mark \in Marks, Text(n, literal, call, mark)
  PROVE  Promise!Text(n, literal \/ comment[File], call)
<1>1. Reading /\ Active
  BY DEF Text, Read, Reading
<1>2. Promise!Live
  BY <1>1, LiveIsActive DEF Known
<1>3. PICK b \in BOOLEAN : b = comment[File]
  BY <1>1, FileFacts DEF Known, CondInv
<1>4. [m \in Names |-> Meaning(m)][n] = Meaning(n)
  OBVIOUS
<1>5. shown' = IF ~(literal \/ b) /\ \E e \in Meaning(n) : e.fn => call
               THEN Meaning(n) ELSE {n}
  BY <1>3 DEF Text, Expansion
<1>6. /\ line' = <<"text", n, literal \/ b, call>>
      /\ UNCHANGED <<macros, asked, status>>
  BY <1>3 DEF Text, Read
<1>7. [m \in Names |-> Meaning(m)]' = [m \in Names |-> Meaning(m)]
  BY <1>6, SameTable
<1>8. Promise!Text(n, literal \/ b, call)
  BY <1>1, <1>2, <1>4, <1>5, <1>6, <1>7
     DEF Reading, Promise!Text, Promise!Read
<1> QED
  BY <1>3, <1>8

LEMMA InactiveTextImplements ==
  ASSUME Known, NEW n \in Names, NEW literal \in BOOLEAN, NEW call \in BOOLEAN,
         InactiveText(n, literal, call)
  PROVE  Promise!Text(n, literal, call)
<1>1. Reading /\ ~Active
  BY DEF InactiveText, Read, Reading
<1>2. ~Promise!Live
  BY <1>1, LiveIsActive DEF Known
<1> QED
  BY <1>1, <1>2, SameTable
     DEF InactiveText, Read, Reading, Promise!Text, Promise!Read

LEMMA StepImplements ==
  Known /\ Known' /\ [Next]_vars => [Promise!Next]_Promise!vars
<1> SUFFICES ASSUME Known, Known', [Next]_vars
             PROVE  [Promise!Next]_Promise!vars
  OBVIOUS
<1>1. TypeOK
  BY DEF Known, CondInv
<1> DEFINE P == Promise!Next \/ UNCHANGED Promise!vars
<1>2. ASSUME NEW n \in Names, IfDef(n) \/ IfNDef(n) PROVE P
  <2>1. (FindMacro(n) # {}) <=> Meaning(n) # {}
    BY DEF Meaning
  <2>2. Promise!Defined(n) <=> FindMacro(n) # {}
    BY <2>1 DEF Promise!Defined
  <2>3. (FindMacro(n) # {}) = Promise!Defined(n)
        /\ (FindMacro(n) = {}) = ~Promise!Defined(n)
    BY <2>2 DEF Promise!Defined
  <2>4. IfDef(n) => Promise!IfDef(n)
    BY <2>3, OpenGroupImplements DEF IfDef, Promise!IfDef
  <2>5. IfNDef(n) => Promise!IfNDef(n)
    BY <2>3, OpenGroupImplements DEF IfNDef, Promise!IfNDef
  <2> QED
    BY <1>2, <2>4, <2>5 DEF Promise!Next
<1>3. ASSUME NEW n \in Names, NEW q \in Questions, NEW neg \in BOOLEAN
      PROVE  (ExprVal(q, n) # neg) = (Promise!Answer(q, n) # neg)
  <2>1. Promise!Answer(q, n) \in BOOLEAN
    BY DEF Promise!Answer, Promise!Defined, Questions
  <2> QED
    BY <1>1, <2>1, ExprValType, SameAnswer
<1>4. ASSUME NEW n \in Names, NEW q \in Questions, NEW neg \in BOOLEAN,
             If(q, n, neg)
      PROVE  P
  <2>1. Promise!If(q, n, neg)
    BY <1>3, <1>4, OpenGroupImplements DEF If, Promise!If
  <2> QED
    BY <2>1 DEF Promise!Next, Questions, Promise!Questions
<1>5. ASSUME NEW n \in Names, NEW q \in Questions, NEW neg \in BOOLEAN,
             Elif(q, n, neg)
      PROVE  P
  <2>1. Branch(<<"elif", q, n, neg>>, ExprVal(q, n) # neg)
    BY <1>1, <1>5, ElifIsBranch
  <2>2. Promise!Elif(q, n, neg)
    BY <1>3, <2>1, BranchImplements DEF Promise!Elif
  <2> QED
    BY <2>2 DEF Promise!Next, Questions, Promise!Questions
<1>6. ASSUME Else PROVE P
  <2>1. Promise!Else
    BY <1>1, <1>6, ElseIsBranch, BranchImplements DEF Promise!Else
  <2> QED
    BY <2>1 DEF Promise!Next
<1>7. ASSUME NEW n \in Names, NEW body \in Bodies,
             Define(n, body) \/ Inactive(<<"define", n, body>>)
      PROVE  P
  <2>1. Promise!Define(n, body)
    BY <1>7, DefineImplements, InactiveImplements
  <2> QED
    BY <2>1 DEF Promise!Next, Bodies, Promise!Bodies
<1>8. ASSUME NEW n \in Names, Undef(n) \/ Inactive(<<"undef", n>>) PROVE P
  <2>1. Promise!Undef(n)
    BY <1>8, UndefImplements, InactiveImplements
  <2> QED
    BY <2>1 DEF Promise!Next
<1>9. ASSUME NEW n \in Names, NEW literal \in BOOLEAN, NEW call \in BOOLEAN,
             NEW mark \in Marks, Text(n, literal, call, mark)
      PROVE  P
  <2>1. Promise!Text(n, literal \/ comment[File], call)
    BY <1>9, TextImplements
  <2>2. (literal \/ comment[File]) \in BOOLEAN
    OBVIOUS
  <2> QED
    BY <2>1, <2>2 DEF Promise!Next
<1>10. ASSUME NEW n \in Names, NEW literal \in BOOLEAN, NEW call \in BOOLEAN,
              InactiveText(n, literal, call)
       PROVE  P
  <2>1. Promise!Text(n, literal, call)
    BY <1>10, InactiveTextImplements
  <2> QED
    BY <2>1 DEF Promise!Next
<1>11. ASSUME NEW n \in Names, NEW q \in Questions, NEW neg \in BOOLEAN,
              Stray(<<"elif", q, n, neg>>)
       PROVE  P
  <2>1. Promise!Elif(q, n, neg)
    BY <1>11, StrayImplements DEF Promise!Elif
  <2> QED
    BY <2>1 DEF Promise!Next, Questions, Promise!Questions
<1>12. ASSUME NEW l \in {<<"else">>, <<"endif">>}, Stray(l) PROVE P
  <2>1. l = <<"else">> \/ l = <<"endif">>
    OBVIOUS
  <2>2. l = <<"else">> => Promise!Else
    BY <1>12, StrayImplements DEF Promise!Else
  <2>3. l = <<"endif">> => Promise!Endif
    BY <1>12, StrayImplements
  <2> QED
    BY <2>1, <2>2, <2>3 DEF Promise!Next
<1>13. ASSUME NEW l \in {<<"include">>, <<"pragma">>, <<"fatal">>}, Inactive(l)
       PROVE  P
  <2>1. l = <<"include">> \/ l = <<"pragma">> \/ l = <<"fatal">>
    OBVIOUS
  <2>2. Promise!Include \/ Promise!Pragma \/ Promise!Fatal
    BY <1>13, <2>1, InactiveImplements
  <2> QED
    BY <2>2 DEF Promise!Next
<1>14. ASSUME Pragma PROVE P
  <2>1. Promise!Pragma
    BY <1>14, SwallowImplements DEF Pragma, Promise!Pragma
  <2> QED
    BY <2>1 DEF Promise!Next
<1>15. ASSUME Endif \/ Include \/ EndOfFile \/ Exit PROVE P
  <2>1. Promise!Endif \/ Promise!Include \/ Promise!EndOfFile \/ Promise!Fatal
    BY <1>15, EndifImplements, IncludeImplements, EndOfFileImplements,
       ExitImplements
  <2> QED
    BY <2>1 DEF Promise!Next
<1>16. ASSUME Stop \/ UNCHANGED vars PROVE P
  <2>1. UNCHANGED <<line, macros, asked, shown, status>>
    BY <1>16 DEF Stop, vars, history
  <2> QED
    BY <2>1, SameTable DEF Promise!vars
<1>17. P
  <2> HIDE DEF P
  <2> QED
    BY <1>2, <1>4, <1>5, <1>6, <1>7, <1>8, <1>9, <1>10, <1>11, <1>12, <1>13,
       <1>14, <1>15, <1>16
       DEF Next
<1> QED
  BY <1>17

(* preprocess_internal does what ConditionalText promises: which lines count,
   what a name means when it is read, and what the text keeps of a line, for
   every nesting of files and groups and every order of definitions. *)
THEOREM PreprocessImplementsText == Spec => ImplementsText
<1>1. Init => Known
  BY CondInit, OnceInit DEF Known
<1> QED
  BY <1>1, InitImplements, KnownStep, StepImplements, PTL
     DEF Spec, ImplementsText, Promise!Spec

-----------------------------------------------------------------------------
(* The line counter *)

(* The inductive invariant: of the files that are open only the last can have
   included nothing, and its lines are counted right. *)
CountInv ==
  /\ LinesUntilInclude
  /\ \A f \in 1 .. Len(pure) - 1 : ~pure[f]

(* What a step does to the counter. *)
LEMMA CountSteps ==
  ASSUME [Next]_vars
  PROVE  \/ Reading /\ NewLine
         \/ Include
         \/ EndOfFile
         \/ UNCHANGED <<currentLine, conds, history>> /\
            (Reading' => Reading)
<1> DEFINE P == Reading /\ NewLine
           S == UNCHANGED <<currentLine, conds, history>> /\ (Reading' => Reading)
<1>1. ASSUME NEW l, Directive(l) PROVE P
  BY <1>1 DEF Directive, Hash, Read, Reading
<1>2. \A n : IfDef(n) \/ IfNDef(n) \/ Undef(n) => P
  BY <1>1 DEF IfDef, IfNDef, OpenGroup, Undef
<1>3. \A q, n, neg : If(q, n, neg) \/ Elif(q, n, neg) => P
  BY <1>1 DEF If, OpenGroup, Elif, NextBranch
<1>4. \A n, literal, call, mark :
        Text(n, literal, call, mark) \/ InactiveText(n, literal, call) => P
  BY DEF Text, InactiveText, Read, Reading
<1>5. \A l : Inactive(l) \/ Stray(l) => P
  BY <1>1 DEF Inactive, Stray, Swallow
<1>6. Else \/ Endif \/ Pragma => P
  BY <1>1 DEF Else, NextBranch, Endif, Pragma, Swallow
<1>7. \A n, body : Define(n, body) => P
  BY <1>1 DEF Define
<1>8. Exit \/ Stop \/ UNCHANGED vars => S
  BY DEF Exit, Hash, Read, Reading, Stop, vars
<1>9. P \/ Include \/ EndOfFile \/ S
  <2> HIDE DEF P, S
  <2> QED
    BY <1>2, <1>3, <1>4, <1>5, <1>6, <1>7, <1>8 DEF Next
<1> QED
  BY <1>9

LEMMA CountInit == Init => CountInv
  BY DEF Init, CountInv, LinesUntilInclude, File, Reading

LEMMA CountStep == TypeOK /\ CountInv /\ [Next]_vars /\ TypeOK' => CountInv'
<1> SUFFICES ASSUME TypeOK, CountInv, [Next]_vars, TypeOK'
             PROVE  CountInv'
  OBVIOUS
<1>1. /\ at \in Seq(Nat) /\ pure \in Seq(BOOLEAN) /\ currentLine \in Nat
      /\ Len(at) = Len(conds) /\ Len(pure) = Len(conds)
      /\ Len(at') = Len(conds') /\ Len(pure') = Len(conds')
  BY DEF TypeOK
<1>2. ASSUME Reading, NewLine PROVE CountInv'
  <2>1. at' = [at EXCEPT ![File] = at[File] + 1] /\ File \in 1 .. Len(at)
        /\ at[File] \in Nat
    BY <1>1, <1>2, FileFacts DEF NewLine
  <2>2. Len(at') = Len(at) /\ at'[File] = at[File] + 1
    BY <1>1, <2>1
  <2>3. Len(conds') = Len(conds)
    BY <1>1, <2>2
  <2>4. File' = File
    BY <2>3 DEF File
  <2>5. pure[File] => currentLine = at[File]
    BY <1>2 DEF CountInv, LinesUntilInclude
  <2>6. currentLine' = currentLine + 1 /\ pure' = pure
    BY <1>2 DEF NewLine
  <2>7. LinesUntilInclude'
    BY <2>2, <2>4, <2>5, <2>6 DEF LinesUntilInclude
  <2> QED
    BY <2>6, <2>7 DEF CountInv
<1>3. ASSUME Include PROVE CountInv'
  <2>1. Reading
    BY <1>3 DEF Include, Enter, Hash, Read, Reading
  <2>2. PICK d \in 1 .. Len(pure) : d = Len(pure) /\ d = File
    BY <1>1, <2>1, FileFacts DEF File
  <2> DEFINE p == [pure EXCEPT ![d] = FALSE]
  <2>3. /\ p \in Seq(BOOLEAN) /\ Len(p) = d /\ p[d] = FALSE
        /\ \A f \in 1 .. d : f # d => p[f] = pure[f]
    BY <1>1, <2>2, UpdateFacts
  <2>4. pure' = Append(p, TRUE) /\ at' = Append(at, 1) /\ currentLine' = 1
    BY <1>3, <2>2 DEF Include, Enter
  <2> HIDE DEF p
  <2>5. Len(pure') = d + 1 /\ \A f \in 1 .. d : pure'[f] = p[f]
    <3>1. p \in Seq(BOOLEAN) /\ TRUE \in BOOLEAN
      BY <2>3
    <3>2. /\ Len(Append(p, TRUE)) = Len(p) + 1
          /\ \A f \in 1 .. Len(p) : Append(p, TRUE)[f] = p[f]
      BY ONLY <3>1, PushFacts
    <3> QED
      BY <2>3, <2>4, <3>2
  <2>6. at'[d + 1] = 1
    BY <1>1, <2>2, <2>4
  <2>7. File' = d + 1
    BY <1>1, <2>5 DEF File
  <2>8. LinesUntilInclude'
    BY <2>4, <2>6, <2>7 DEF LinesUntilInclude
  <2>9. ASSUME NEW f \in 1 .. d PROVE ~pure'[f]
    <3>1. CASE f = d
      BY <2>3, <2>5, <3>1
    <3>2. CASE f # d
      <4>1. f \in 1 .. Len(pure) - 1
        BY <2>2, <3>2
      <4>2. ~pure[f]
        BY <4>1 DEF CountInv
      <4> QED
        BY <2>3, <2>5, <3>2, <4>2
    <3> QED
      BY <3>1, <3>2
  <2> QED
    BY <2>2, <2>5, <2>8, <2>9 DEF CountInv
<1>4. ASSUME EndOfFile PROVE CountInv'
  <2>1. PICK r \in 0 .. Len(conds) : r = File - 1 /\ r = Len(pure) - 1
    BY <1>1, <1>4, EndOfFileFacts DEF File
  <2>2. Len(pure') = r /\ \A f \in 1 .. r : ~pure'[f]
    BY <1>4, <2>1, EndOfFileFacts DEF CountInv
  <2>3. File' = r
    BY <1>1, <2>2 DEF File
  <2>4. Reading' => r \in 1 .. r
    <3>1. status' = IF r = 0 THEN "done" ELSE "reading"
      BY <1>4, <2>1 DEF EndOfFile
    <3>2. r \in Nat
      BY <1>1
    <3> QED
      BY <3>1, <3>2 DEF Reading
  <2>5. LinesUntilInclude'
    BY <2>2, <2>3, <2>4 DEF LinesUntilInclude
  <2> QED
    BY <1>1, <2>1, <2>2, <2>5 DEF CountInv
<1>5. ASSUME UNCHANGED <<currentLine, conds, history>>, Reading' => Reading
      PROVE  CountInv'
  BY <1>5 DEF history, CountInv, LinesUntilInclude, File
<1> QED
  BY <1>2, <1>3, <1>4, <1>5, CountSteps

(* Until a file includes another one, ctx->current_line is the number of the
   line that is read, so __LINE__ is right there. *)
THEOREM LinesAreCounted == Spec => []LinesUntilInclude
<1>1. CountInv => LinesUntilInclude
  BY DEF CountInv
<1> QED
  BY <1>1, CountInit, CountStep, TypesInit, TypesStep, PTL DEF Spec
=============================================================================
