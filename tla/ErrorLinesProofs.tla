-------------------------- MODULE ErrorLinesProofs --------------------------
(***************************************************************************)
(* Proofs about ErrorLines.tla, for texts of any length: the loader uses the *)
(* assembler as SourceAssembler.tla specifies it, so the invariants proved   *)
(* in SourceAssemblerProofs.tla hold of its pieces, and with what the parser *)
(* notes of a body it follows that errors are reported on their lines, and   *)
(* on no other lines: a row of a piece has a place in its body, for the line *)
(* feeds before a place grow by at most one from place to place.             *)
(***************************************************************************)
EXTENDS ErrorLines, FiniteSetTheorems, SequenceTheorems, WellFoundedInduction, TLAPS

AssemblerProofs == INSTANCE SourceAssemblerProofs WITH
    MaxBlocks <- MaxIncluded + 3,
    MaxLines <- MaxLines,
    StartLines <- 1..MaxLines,
    MaxResLine <- MaxRow

Body == [from : 1..(Len(text) + 1), to : 0..Len(text), start : 1..MaxLines]

\* What the parser has noted of the bodies it has passed.
BodiesNoted ==
    /\ bodies \in Seq(Body)
    /\ \A i \in DOMAIN bodies : bodies[i].start = LineOf(bodies[i].from)

ParserInv ==
    /\ text \in Scripts
    /\ pos \in 1..(Len(text) + 1)
    /\ state \in {"block", "preamble", "decl", "open", "body", "parsed", "failed"}
    /\ body \in 0..pos
    /\ state = "body" => body >= 1
    /\ state = "parsed" => pos = Len(text) + 1
    /\ BodiesNoted

\* The pieces that are assembled are those that were planned, in that order.
Planned(k) ==
    \/ pieces[k] = {}
    \/ \E i \in DOMAIN bodies : pieces[k] = {i}

BlockOf(k) ==
    /\ pieces[k] = {} => blocks[k] = [start_line |-> {}, line_count |-> 1]
    /\ \A i \in DOMAIN bodies : pieces[k] = {i} =>
          blocks[k] = [start_line |-> {bodies[i].start}, line_count |-> LinesCount(i)]

Assembled ==
    /\ pieces \in Seq(SUBSET DOMAIN bodies)
    /\ pieces # <<>> => state = "parsed"
    /\ \A k \in DOMAIN pieces : Planned(k)
    /\ blocks \in Seq([start_line : SUBSET Nat, line_count : Nat])
    /\ Len(blocks) <= Len(pieces)
    /\ \A k \in DOMAIN blocks : BlockOf(k)
    /\ pieces = <<>> => pc = "idle"
    /\ pc # "idle" => Len(blocks) = Len(pieces)

Inv == ParserInv /\ Assembled

-----------------------------------------------------------------------------
(* Counting line feeds *)

BreaksOf(from, to) == {q \in from..to : text[q] = "break"}

LEMMA CountBreaks ==
    ASSUME NEW from \in Int, NEW to \in Int
    PROVE  /\ IsFiniteSet(BreaksOf(from, to))
           /\ Cardinality(BreaksOf(from, to)) \in Nat
<1>1. IsFiniteSet(from..to) /\ BreaksOf(from, to) \in SUBSET (from..to)
  BY FS_Interval DEF BreaksOf
<1> QED
  BY <1>1, FS_Subset, FS_CardinalityType

\* The line feeds of a text are fewer than MaxLines, wherever they are counted.
LEMMA BreaksBounded ==
    ASSUME text \in Scripts, NEW from \in Nat \ {0}, NEW to \in 0..Len(text)
    PROVE  Cardinality(BreaksOf(from, to)) \in 0..(MaxLines - 1)
<1> DEFINE All == {q \in DOMAIN text : text[q] = "break"}
<1>1. text \in Seq(Symbols) /\ DOMAIN text = 1..Len(text) /\ Len(text) \in Nat
  BY ScriptParserAssumption
<1>2. BreaksOf(from, to) \in SUBSET All
  BY <1>1 DEF BreaksOf
<1>3. IsFiniteSet(DOMAIN text) /\ All \in SUBSET DOMAIN text
  BY <1>1, FS_Interval
<1>4. IsFiniteSet(All)
  BY <1>3, FS_Subset
<1>5. Cardinality(BreaksOf(from, to)) <= Cardinality(All)
  BY <1>2, <1>4, FS_Subset
<1>6. Cardinality(All) < MaxLines /\ MaxLines \in Nat
  BY ErrorLinesAssumption
<1>7. Cardinality(BreaksOf(from, to)) \in Nat
  <2>1. from \in Int /\ to \in Int
    BY <1>1
  <2> QED
    BY <2>1, CountBreaks
<1>8. Cardinality(All) \in Nat
  BY <1>4, FS_CardinalityType
<1> HIDE DEF All
<1> QED
  BY <1>5, <1>6, <1>7, <1>8

LEMMA LinesOfPlaces ==
    ASSUME text \in Scripts, NEW p \in 1..(Len(text) + 1)
    PROVE  LineOf(p) \in 1..MaxLines
<1>1. Len(text) \in Nat
  BY ScriptParserAssumption
<1>2. Cardinality(BreaksOf(1, p - 1)) \in 0..(MaxLines - 1)
  BY <1>1, BreaksBounded
<1> QED
  BY <1>2, ErrorLinesAssumption DEF LineOf, BreaksOf

\* Line feeds before a place, counted from the beginning of the text and from a
\* place before it.
LEMMA LineWithinBody ==
    ASSUME NEW from \in Nat \ {0}, NEW p \in Nat, from <= p
    PROVE  LineOf(p) = LineOf(from) + Cardinality(BreaksOf(from, p - 1))
<1> DEFINE S == BreaksOf(1, from - 1)
           T == BreaksOf(from, p - 1)
<1>1. S \union T = BreaksOf(1, p - 1) /\ S \intersect T = {}
  BY DEF BreaksOf
<1>2. /\ IsFiniteSet(S) /\ IsFiniteSet(T)
      /\ Cardinality(S) \in Nat /\ Cardinality(T) \in Nat
  BY CountBreaks
<1>3. Cardinality(S \union T) = Cardinality(S) + Cardinality(T) - Cardinality(S \intersect T)
  BY <1>2, FS_Union
<1>4. Cardinality(S \intersect T) = 0
  BY <1>1, FS_EmptySet
<1>5. LineOf(p) = 1 + Cardinality(BreaksOf(1, p - 1)) /\ LineOf(from) = 1 + Cardinality(S)
  BY DEF LineOf, BreaksOf
<1> HIDE DEF S, T
<1> QED
  BY <1>1, <1>2, <1>3, <1>4, <1>5 DEF T

LEMMA FewerBreaksBefore ==
    ASSUME NEW from \in Nat, NEW to \in Nat, NEW p \in from..to, NEW q \in p..to,
           text[q] = "break"
    PROVE  Cardinality(BreaksOf(from, p - 1)) < Cardinality(BreaksOf(from, to))
<1> DEFINE S == BreaksOf(from, p - 1)
           T == BreaksOf(from, to)
<1>1. S \in SUBSET T /\ q \in T /\ q \notin S
  BY DEF BreaksOf
<1>2. IsFiniteSet(T) /\ Cardinality(S) \in Nat /\ Cardinality(T) \in Nat
  <2>1. from \in Int /\ to \in Int /\ p - 1 \in Int
    OBVIOUS
  <2> QED
    BY <2>1, CountBreaks
<1> HIDE DEF S, T
<1>3. Cardinality(S) <= Cardinality(T) /\ (Cardinality(S) = Cardinality(T) => S = T)
  BY <1>1, <1>2, FS_Subset
<1> QED
  BY <1>1, <1>2, <1>3 DEF S, T

LEMMA OneMoreBreak ==
    ASSUME NEW from \in Int, NEW p \in Int
    PROVE  Cardinality(BreaksOf(from, p)) <= Cardinality(BreaksOf(from, p - 1)) + 1
<1> DEFINE S == BreaksOf(from, p - 1)
           T == BreaksOf(from, p)
<1>1. T \in SUBSET (S \cup {p})
  BY DEF BreaksOf
<1>2. /\ IsFiniteSet(S) /\ Cardinality(S) \in Nat
      /\ IsFiniteSet(T) /\ Cardinality(T) \in Nat
  BY CountBreaks
<1> HIDE DEF S, T
<1>3. /\ IsFiniteSet(S \cup {p})
      /\ Cardinality(S \cup {p}) = IF p \in S THEN Cardinality(S) ELSE Cardinality(S) + 1
  BY <1>2, FS_AddElement
<1>4. Cardinality(T) <= Cardinality(S \cup {p})
  BY <1>1, <1>3, FS_Subset
<1> QED
  BY <1>2, <1>3, <1>4 DEF S, T

\* The last of some places of a body.
LEMMA LastPlace ==
    ASSUME NEW n \in Nat, NEW T \in SUBSET (0..n), T # {}
    PROVE  \E last \in T : \A p \in T : p <= last
<1> DEFINE R == OpToRel(<, Nat)
           D == {n - p : p \in T}
<1>1. IsWellFoundedOn(R, Nat)
  BY NatLessThanWellFounded
<1>2. \A x, y \in Nat : x < y => <<x, y>> \in R
  BY DEF OpToRel
<1> HIDE DEF R
<1>3. \A p \in T : n - p \in Nat /\ p \in 0..n
  OBVIOUS
<1>4. D \subseteq Nat /\ D # {}
  BY <1>3
<1>5. PICK d \in D : \A e \in D : ~(<<e, d>> \in R)
  BY <1>1, <1>4, WFMin
<1>6. PICK last \in T : d = n - last
  OBVIOUS
<1>7. ASSUME NEW p \in T
      PROVE  p <= last
  <2>1. ~(n - p < n - last)
    BY <1>2, <1>3, <1>5, <1>6
  <2> QED
    BY <1>3, <2>1
<1> QED
  BY <1>7

\* Before some place of a body there are as many of its line feeds as one likes,
\* short of all.
LEMMA PlaceAfterBreaks ==
    ASSUME NEW from \in Nat, NEW to \in Nat, NEW d \in Nat,
           d < Cardinality(BreaksOf(from, to))
    PROVE  \E p \in from..to : Cardinality(BreaksOf(from, p - 1)) = d
<1> DEFINE Count(p) == Cardinality(BreaksOf(from, p))
           T == {p \in from..to : Count(p - 1) <= d}
<1>1. \A p \in Int : Count(p) \in Nat
  <2>1. from \in Int
    OBVIOUS
  <2> QED
    BY <2>1, CountBreaks
<1>2. from <= to
  <2>1. ASSUME to < from
        PROVE  Count(to) = 0
    <3>1. BreaksOf(from, to) = {}
      BY <2>1 DEF BreaksOf
    <3> QED
      BY <3>1, FS_EmptySet
  <2> QED
    BY <2>1
<1>3. from \in T
  <2>1. BreaksOf(from, from - 1) = {}
    BY DEF BreaksOf
  <2>2. Count(from - 1) = 0
    BY <2>1, FS_EmptySet
  <2> QED
    BY <1>2, <2>2
<1>4. T \in SUBSET (0..to) /\ T # {}
  BY <1>3
<1>5. PICK p \in T : \A r \in T : r <= p
  BY <1>4, LastPlace
<1>6. p \in from..to /\ p \in Int /\ p - 1 \in Int /\ Count(p - 1) <= d
  OBVIOUS
<1>7. d < Count(p)
  <2>1. CASE p = to
    BY <2>1
  <2>2. CASE p < to
    <3>1. p + 1 \in from..to /\ (p + 1) - 1 = p
      BY <1>6, <2>2
    <3>2. p + 1 \notin T
      BY <1>5, <1>6
    <3>3. ~(Count(p) <= d)
      BY <3>1, <3>2
    <3> QED
      BY <1>1, <1>6, <3>3
  <2> QED
    BY <1>6, <2>1, <2>2
<1>8. Count(p) <= Count(p - 1) + 1
  BY <1>6, OneMoreBreak
<1>9. Count(p) \in Nat /\ Count(p - 1) \in Nat
  BY <1>1, <1>6
<1> HIDE DEF Count
<1>10. Count(p - 1) = d
  BY <1>6, <1>7, <1>8, <1>9
<1> QED
  BY <1>6, <1>10 DEF Count

-----------------------------------------------------------------------------
(* The parser *)

LEMMA ParserSteps ==
    ASSUME ParserInv, ParserNext
    PROVE  ParserInv' /\ state # "parsed" /\ text' = text
<1> USE DEF ParserInv
<1>1. /\ text \in Seq(Symbols) /\ Len(text) \in Nat /\ DOMAIN text = 1..Len(text)
      /\ pos \in Nat /\ body \in Nat
  BY ScriptParserAssumption
<1>2. ASSUME text' = text, bodies' = bodies PROVE BodiesNoted'
  BY <1>2 DEF BodiesNoted, Body, LineOf
<1>3. ASSUME NEW mark, NEW q \in NextOf(mark) PROVE q \in (pos + 1)..Len(text)
  BY <1>3 DEF NextOf
<1>4. ASSUME SkipSpace \/ ParseSection \/ ParseDecl \/ OpenBody \/ BodySymbol
      PROVE  ParserInv' /\ state # "parsed" /\ text' = text
  <2>1. pos' = pos + 1 /\ pos <= Len(text) /\ text' = text /\ bodies' = bodies /\ body' = body
    BY <1>1, <1>4 DEF SkipSpace, IsSpace, EndOfLine, ParseSection, ParseDecl, OpenBody,
                      BodySymbol, Symbol
  <2>2. /\ state \in {"block", "preamble", "decl", "open", "body"}
        /\ state' \in {"block", "preamble", "decl", "open", "body"}
        /\ state' = "body" => state = "body"
    BY <1>4 DEF SkipSpace, ParseSection, ParseDecl, OpenBody, BodySymbol, Skipping
  <2> QED
    BY <1>1, <1>2, <2>1, <2>2
<1>5. ASSUME SkipLineComment \/ SkipBlockComment
      PROVE  ParserInv' /\ state # "parsed" /\ text' = text
  <2>1. /\ pos' \in (pos + 1)..(Len(text) + 1)
        /\ text' = text /\ bodies' = bodies /\ body' = body /\ state' = state
        /\ Skipping
    <3>1. CASE SkipLineComment
      BY <1>1, <1>3, <3>1 DEF SkipLineComment
    <3>2. CASE SkipBlockComment
      BY <1>1, <1>3, <3>2 DEF SkipBlockComment
    <3> QED
      BY <1>5, <3>1, <3>2
  <2> QED
    BY <1>1, <1>2, <2>1 DEF Skipping
<1>6. ASSUME StartBody \/ EndOfText
      PROVE  ParserInv' /\ state # "parsed" /\ text' = text
  <2>1. CASE StartBody
    BY <1>1, <1>2, <2>1 DEF StartBody
  <2>2. CASE EndOfText
    <3>1. pos > Len(text)
      BY <1>1, <2>2 DEF EndOfText, Symbol, Symbols
    <3> QED
      BY <1>1, <1>2, <2>2, <3>1 DEF EndOfText
  <2> QED
    BY <1>6, <2>1, <2>2
<1>7. ASSUME CloseBody
      PROVE  ParserInv' /\ state # "parsed" /\ text' = text
  <2> DEFINE noted == [from |-> body, to |-> pos - 1, start |-> LineOf(body)]
  <2>1. /\ state = "body" /\ text[pos] = "close" /\ pos <= Len(text)
        /\ bodies' = Append(bodies, noted) /\ state' = "block" /\ pos' = pos + 1
        /\ text' = text /\ body' = body
    BY <1>1, <1>7 DEF CloseBody, Symbol
  <2>2. body \in 1..(Len(text) + 1) /\ pos - 1 \in 0..Len(text)
    BY <1>1, <2>1
  <2>3. LineOf(body) \in 1..MaxLines
    BY <2>2, LinesOfPlaces
  <2>4. noted \in Body
    BY <2>2, <2>3 DEF Body
  <2>5. bodies \in Seq(Body) /\ Len(bodies) \in Nat
    BY DEF BodiesNoted
  <2>6. bodies' \in Seq(Body) /\ Body' = Body
    BY <2>1, <2>4, <2>5 DEF Body
  <2>7. ASSUME NEW i \in DOMAIN bodies' PROVE bodies'[i].start = LineOf(bodies'[i].from)
    BY <2>1, <2>4, <2>5 DEF BodiesNoted
  <2>8. BodiesNoted'
    BY <2>1, <2>6, <2>7 DEF BodiesNoted, LineOf
  <2> QED
    BY <1>1, <2>1, <2>8
<1>8. ASSUME SyntaxError
      PROVE  ParserInv' /\ state # "parsed" /\ text' = text
  <2>1. BodiesNoted'
    BY <1>8 DEF SyntaxError, BodiesNoted
  <2> QED
    BY <1>1, <1>8, <2>1 DEF SyntaxError
<1> QED
  BY <1>4, <1>5, <1>6, <1>7, <1>8 DEF ParserNext

-----------------------------------------------------------------------------
(* The assembler *)

\* The steps of the composition are steps of SourceAssembler or leave it alone.
LEMMA AssemblerSteps ==
    ASSUME Inv, [Next]_vars
    PROVE  [AssemblerProofs!Next]_(AssemblerProofs!vars)
<1> USE DEF Inv, AssemblerProofs!vars, AssemblerProofs!text_vars, AssemblerProofs!query_vars
<1>1. CASE Parse \/ ResetAssembler \/ NothingToTranslate \/ UNCHANGED vars
  BY <1>1 DEF Parse, ResetAssembler, NothingToTranslate, vars, assembler_vars
<1>2. CASE AddBody
  <2>1. PICK i \in Piece : Assembler!AddBlock({bodies[i].start}, LinesCount(i))
    BY <1>2 DEF AddBody
  <2>2. Len(blocks) + 1 \in DOMAIN pieces
    BY <1>2 DEF AddBody, Assembled
  <2>3. i \in DOMAIN bodies
    BY <2>1, <2>2 DEF Piece, Assembled
  <2>4. bodies[i] \in Body
    BY <2>3 DEF ParserInv, BodiesNoted
  <2>5. Len(text) \in Nat
    BY ScriptParserAssumption DEF ParserInv
  <2>6. LinesCount(i) \in 0..MaxLines
    <3>1. Cardinality(BreaksOf(bodies[i].from, bodies[i].to)) \in 0..(MaxLines - 1)
      BY <2>4, <2>5, BreaksBounded DEF Body, ParserInv
    <3> QED
      BY <3>1, ErrorLinesAssumption DEF LinesCount, BreaksOf
  <2>7. bodies[i].start \in 1..MaxLines
    BY <2>4 DEF Body
  <2>8. AssemblerProofs!AddBlock({bodies[i].start}, LinesCount(i))
    BY <2>1 DEF Assembler!AddBlock, AssemblerProofs!AddBlock, Assembler!Origins,
                AssemblerProofs!Origins, Assembler!query_vars
  <2> QED
    BY <2>6, <2>7, <2>8 DEF AssemblerProofs!Next, AssemblerProofs!AddSourceBlock
<1>3. CASE AddFrameOfMain
  <2>1. AssemblerProofs!AddBlock({}, 1)
    BY <1>3 DEF AddFrameOfMain, Assembler!AddBlock, AssemblerProofs!AddBlock,
                Assembler!Origins, AssemblerProofs!Origins, Assembler!query_vars
  <2> QED
    BY <2>1, ErrorLinesAssumption DEF AssemblerProofs!Next, AssemblerProofs!AddNonSourceBlock
<1>4. CASE TranslateError
  BY <1>4 DEF TranslateError, AssemblerProofs!Next,
    Assembler!CallGetSourceLine, AssemblerProofs!CallGetSourceLine,
    Assembler!FoundBlock, AssemblerProofs!FoundBlock,
    Assembler!NextBlock, AssemblerProofs!NextBlock,
    Assembler!NoBlock, AssemblerProofs!NoBlock,
    Assembler!ReturnLine, AssemblerProofs!ReturnLine,
    Assembler!EndsAfter, AssemblerProofs!EndsAfter, Assembler!text_vars
<1> QED
  BY <1>1, <1>2, <1>3, <1>4 DEF Next

\* A plan is a sequence of pieces that are bodies of the text.
LEMMA PlanOfPieces ==
    ASSUME NEW rendergraph \in DOMAIN bodies, NEW n \in Nat,
           NEW included \in [1..n -> DOMAIN bodies]
    PROVE  /\ PiecesOf(included, rendergraph) \in Seq(SUBSET DOMAIN bodies)
           /\ PiecesOf(included, rendergraph) # <<>>
           /\ \A k \in DOMAIN PiecesOf(included, rendergraph) :
                 \/ PiecesOf(included, rendergraph)[k] = {}
                 \/ \E i \in DOMAIN bodies : PiecesOf(included, rendergraph)[k] = {i}
<1> DEFINE S == SUBSET DOMAIN bodies
           before == [k \in DOMAIN included |-> {included[k]}]
           main == <<{}, {rendergraph}, {}>>
<1>1. before \in [1..n -> S] /\ DOMAIN included = 1..n
  OBVIOUS
<1>2. before \in Seq(S) /\ Len(before) = n /\ \A k \in 1..n : before[k] = {included[k]}
  BY <1>1
<1>3. main \in Seq(S) /\ Len(main) = 3 /\ main[1] = {} /\ main[2] = {rendergraph} /\ main[3] = {}
  OBVIOUS
<1> DEFINE plan == before \o main
<1>4. n \in Nat /\ S # {}
  OBVIOUS
<1> HIDE DEF S, before, main
<1>5. /\ plan \in Seq(S)
      /\ Len(plan) = Len(before) + Len(main)
      /\ \A k \in 1..(Len(before) + Len(main)) :
            plan[k] = IF k <= Len(before) THEN before[k] ELSE main[k - Len(before)]
  <2>1. before \in Seq(S) /\ main \in Seq(S)
    BY <1>2, <1>3
  <2>2. plan \in Seq(S) /\ Len(plan) = Len(before) + Len(main)
    BY <2>1
  <2>3. ASSUME NEW k \in 1..(Len(before) + Len(main))
        PROVE  plan[k] = IF k <= Len(before) THEN before[k] ELSE main[k - Len(before)]
    BY <2>1
  <2> QED
    BY <2>2, <2>3
<1> HIDE DEF plan
<1>6. ASSUME NEW k \in 1..(n + 3)
      PROVE  plan[k] = {} \/ \E i \in DOMAIN bodies : plan[k] = {i}
  <2>1. CASE k <= n
    <3>1. plan[k] = {included[k]} /\ included[k] \in DOMAIN bodies
      BY <1>1, <1>2, <1>3, <1>4, <1>5, <2>1
    <3> QED
      BY <3>1
  <2>2. CASE ~(k <= n)
    <3>1. plan[k] = main[k - n] /\ k - n \in 1..3
      BY <1>2, <1>3, <1>4, <1>5, <2>2
    <3>2. plan[k] = {} \/ plan[k] = {rendergraph}
      BY <1>3, <3>1
    <3> QED
      BY <3>2
  <2> QED
    BY <2>1, <2>2
<1>7. plan = PiecesOf(included, rendergraph)
  BY DEF PiecesOf, plan, before, main
<1>8. Len(plan) = n + 3 /\ DOMAIN plan = 1..(n + 3) /\ plan # <<>>
  BY <1>2, <1>3, <1>4, <1>5
<1> QED
  BY <1>5, <1>6, <1>7, <1>8 DEF S

\* Adding the next planned piece.
LEMMA AddBlockAssembled ==
    ASSUME Inv, NEW start_line \in SUBSET Nat, NEW line_count \in Nat,
           Assembler!AddBlock(start_line, line_count),
           Len(blocks) < Len(pieces), UNCHANGED <<parser_vars, pieces>>,
           Piece = {} => start_line = {} /\ line_count = 1,
           \A i \in DOMAIN bodies : Piece = {i} =>
              start_line = {bodies[i].start} /\ line_count = LinesCount(i)
    PROVE  Assembled'
<1> DEFINE block == [start_line |-> start_line, line_count |-> line_count]
<1> USE DEF Inv, Assembled
<1>1. /\ blocks' = Append(blocks, block) /\ pc' = pc /\ pc = "idle"
      /\ pieces' = pieces /\ bodies' = bodies /\ text' = text /\ state' = state
  BY DEF Assembler!AddBlock, Assembler!query_vars, parser_vars
<1>2. /\ Len(blocks) \in Nat /\ DOMAIN blocks = 1..Len(blocks) /\ Len(pieces) \in Nat
      /\ blocks' \in Seq([start_line : SUBSET Nat, line_count : Nat])
      /\ Len(blocks') = Len(blocks) + 1 /\ DOMAIN blocks' = 1..(Len(blocks) + 1)
      /\ blocks'[Len(blocks) + 1] = block
      /\ \A k \in 1..Len(blocks) : blocks'[k] = blocks[k]
  BY <1>1
<1>3. \A i : LinesCount(i)' = LinesCount(i)
  BY <1>1 DEF LinesCount
<1>4. ASSUME NEW k \in DOMAIN blocks' PROVE BlockOf(k)'
  <2>1. CASE k \in DOMAIN blocks
    BY <1>1, <1>2, <1>3, <2>1 DEF BlockOf
  <2>2. CASE k = Len(blocks) + 1
    BY <1>1, <1>2, <1>3, <2>2 DEF BlockOf, Piece
  <2> QED
    BY <1>2, <2>1, <2>2
<1>5. \A k \in DOMAIN pieces' : Planned(k)'
  BY <1>1 DEF Planned
<1> QED
  BY <1>1, <1>2, <1>4, <1>5

LEMMA StepInv == Inv /\ [Next]_vars => Inv'
<1> SUFFICES ASSUME Inv, [Next]_vars PROVE Inv'
  OBVIOUS
<1> USE DEF Inv
<1>0. Len(blocks) \in Nat /\ DOMAIN blocks = 1..Len(blocks)
  BY DEF Assembled
<1>1. ASSUME UNCHANGED parser_vars PROVE ParserInv'
  BY <1>1 DEF parser_vars, ParserInv, BodiesNoted, Body, LineOf
<1>2. ASSUME UNCHANGED <<parser_vars, pieces, blocks>>,
             pc' # "idle" => pieces # <<>> /\ Len(blocks) = Len(pieces)
      PROVE  Assembled'
  <2>1. /\ text' = text /\ bodies' = bodies /\ state' = state
        /\ pieces' = pieces /\ blocks' = blocks
    BY <1>2 DEF parser_vars
  <2>2. \A i : LinesCount(i)' = LinesCount(i)
    BY <2>1 DEF LinesCount
  <2>3. (\A k : Planned(k)' <=> Planned(k)) /\ (\A k : BlockOf(k)' <=> BlockOf(k))
    BY <2>1, <2>2 DEF Planned, BlockOf
  <2> QED
    BY <1>2, <2>1, <2>3 DEF Assembled
<1>3. CASE Parse
  <2>1. ParserInv' /\ state # "parsed" /\ UNCHANGED <<pieces, assembler_vars>>
    BY <1>3, ParserSteps DEF Parse
  <2>2. pieces = <<>> /\ Len(pieces) = 0
    BY <2>1 DEF Assembled
  <2>3. blocks = <<>> /\ blocks' = <<>> /\ pieces' = <<>> /\ pc' = pc
    BY <1>0, <2>1, <2>2 DEF Assembled, assembler_vars
  <2>4. Assembled'
    BY <2>2, <2>3 DEF Assembled
  <2> QED
    BY <2>1, <2>4
<1>4. CASE ResetAssembler
  <2>1. PICK rendergraph \in DOMAIN bodies :
          \E included \in Orders(DOMAIN bodies \ {rendergraph}) :
            pieces' = PiecesOf(included, rendergraph)
    BY <1>4 DEF ResetAssembler
  <2>2. PICK included \in Orders(DOMAIN bodies \ {rendergraph}) :
          pieces' = PiecesOf(included, rendergraph)
    BY <2>1
  <2>3. \E n \in 0..MaxIncluded :
          included \in [1..n -> DOMAIN bodies \ {rendergraph}]
    BY <2>2 DEF Orders
  <2>4. PICK n \in Nat : included \in [1..n -> DOMAIN bodies]
    BY <2>3, ErrorLinesAssumption
  <2>5. /\ state = "parsed" /\ pieces = <<>>
        /\ UNCHANGED <<parser_vars, assembler_vars>>
    BY <1>4 DEF ResetAssembler
  <2>6. /\ pieces' \in Seq(SUBSET DOMAIN bodies)
        /\ \A k \in DOMAIN pieces' :
              pieces'[k] = {} \/ \E i \in DOMAIN bodies : pieces'[k] = {i}
    BY <2>2, <2>4, PlanOfPieces
  <2>7. bodies' = bodies /\ blocks = <<>> /\ blocks' = <<>> /\ pc' = pc /\ state' = state
    BY <1>0, <2>5 DEF Assembled, parser_vars, assembler_vars
  <2>8. pc = "idle"
    BY <2>5 DEF Assembled
  <2>9. Assembled'
    BY <2>5, <2>6, <2>7, <2>8 DEF Assembled, Planned
  <2> QED
    BY <1>1, <2>5, <2>9
<1>5. CASE AddBody
  <2>1. /\ Len(blocks) < Len(pieces) /\ Piece # {} /\ UNCHANGED <<parser_vars, pieces>>
    BY <1>5 DEF AddBody
  <2>2. PICK i \in Piece : Assembler!AddBlock({bodies[i].start}, LinesCount(i))
    BY <1>5 DEF AddBody
  <2>3. Planned(Len(blocks) + 1) /\ i \in DOMAIN bodies /\ Piece = {i}
    BY <1>0, <2>1, <2>2 DEF Assembled, Planned, Piece
  <2>4. bodies[i] \in Body /\ Len(text) \in Nat
    BY <2>3, ScriptParserAssumption DEF ParserInv, BodiesNoted
  <2>5. LinesCount(i) \in Nat
    <3>1. bodies[i].from \in Int /\ bodies[i].to \in Int
      BY <2>4 DEF Body
    <3>2. Cardinality(BreaksOf(bodies[i].from, bodies[i].to)) \in Nat
      BY <3>1, CountBreaks
    <3> QED
      BY <3>2 DEF LinesCount, BreaksOf
  <2>6. {bodies[i].start} \in SUBSET Nat
    BY <2>4, ErrorLinesAssumption DEF Body
  <2>7. \A j \in DOMAIN bodies : Piece = {j} => j = i
    BY <2>3
  <2>8. Assembled'
    BY <2>1, <2>2, <2>5, <2>6, <2>7, AddBlockAssembled
  <2> QED
    BY <1>1, <2>1, <2>8
<1>6. CASE AddFrameOfMain
  <2>1. /\ Len(blocks) < Len(pieces) /\ Piece = {} /\ UNCHANGED <<parser_vars, pieces>>
        /\ Assembler!AddBlock({}, 1)
    BY <1>6 DEF AddFrameOfMain
  <2>2. Assembled'
    BY <2>1, AddBlockAssembled
  <2> QED
    BY <1>1, <2>1, <2>2
<1>7. CASE TranslateError
  BY <1>1, <1>2, <1>7 DEF TranslateError, Assembler!CallGetSourceLine, Assembler!FoundBlock,
     Assembler!NextBlock, Assembler!NoBlock, Assembler!ReturnLine, Assembler!text_vars
<1>8. CASE NothingToTranslate \/ UNCHANGED vars
  BY <1>1, <1>2, <1>8 DEF NothingToTranslate, vars, assembler_vars, Assembled
<1> QED
  BY <1>3, <1>4, <1>5, <1>6, <1>7, <1>8 DEF Next

LEMMA InitInv == Init => Inv
<1> SUFFICES ASSUME Init PROVE Inv
  OBVIOUS
<1>1. /\ text \in Scripts /\ pos = 1 /\ state = "block" /\ body = 0 /\ bodies = <<>>
      /\ pieces = <<>> /\ blocks = <<>> /\ pc = "idle"
  BY DEF Init, ParserInit, Assembler!Init
<1>2. Len(text) \in Nat
  BY <1>1, ScriptParserAssumption
<1> QED
  BY <1>1, <1>2 DEF Inv, ParserInv, BodiesNoted, Assembled

LEMMA InvInvariant == Spec => []Inv
BY InitInv, StepInv, PTL DEF Spec

LEMMA SpecOfAssembler == Spec => AssemblerProofs!Spec
<1>1. Init => AssemblerProofs!Init
  BY DEF Init, Assembler!Init, AssemblerProofs!Init
<1>2. Inv /\ [Next]_vars => [AssemblerProofs!Next]_(AssemblerProofs!vars)
  BY AssemblerSteps
<1> QED
  BY <1>1, <1>2, InvInvariant, PTL DEF Spec, AssemblerProofs!Spec

\* What SourceAssemblerProofs.tla proves of the assembler holds inside the loader.
LEMMA AssemblerInvariant == Spec => []AssemblerProofs!Inv
<1>1. AssemblerProofs!SourceAssemblerAssumption
  BY ErrorLinesAssumption DEF AssemblerProofs!SourceAssemblerAssumption
<1>2. AssemblerProofs!Spec => []AssemblerProofs!Inv
  BY <1>1, AssemblerProofs!InvInvariant
<1> QED
  BY <1>2, SpecOfAssembler, PTL

LEMMA AssemblerFound == Spec => []AssemblerProofs!Found
<1>1. AssemblerProofs!SourceAssemblerAssumption
  BY ErrorLinesAssumption DEF AssemblerProofs!SourceAssemblerAssumption
<1>2. AssemblerProofs!Spec => []AssemblerProofs!Found
  BY <1>1, AssemblerProofs!FoundInvariant
<1> QED
  BY <1>2, SpecOfAssembler, PTL

-----------------------------------------------------------------------------
(* Lines *)

\* The row a place of a body is on has the origin the place has.
LEMMA RowOfPlace ==
    ASSUME Inv, AssemblerProofs!Inv, pc = "answered",
           NEW k \in DOMAIN pieces, NEW i \in pieces[k],
           NEW p \in bodies[i].from..bodies[i].to,
           NEW q \in p..bodies[i].to, text[q] = "break"
    PROVE  /\ RowOf(k, i, p) \in DOMAIN res_source
           /\ RowOf(k, i, p) >= 1
           /\ res_source[RowOf(k, i, p)] = {LineOf(p)}
<1> USE DEF Inv
<1> DEFINE from == bodies[i].from
           to == bodies[i].to
           c == Cardinality(BreaksOf(from, p - 1))
<1>1. Planned(k) /\ i \in DOMAIN bodies /\ pieces[k] = {i}
  BY DEF Assembled, Planned
<1>2. bodies[i] \in Body /\ bodies[i].start = LineOf(from) /\ Len(text) \in Nat
  BY <1>1, ScriptParserAssumption DEF ParserInv, BodiesNoted
<1>3. from \in Nat \ {0} /\ to \in Nat /\ p \in Nat /\ q \in Nat /\ from <= p
  BY <1>2 DEF Body
<1>4. /\ Len(blocks) = Len(pieces) /\ k \in DOMAIN blocks /\ k \in 1..Len(blocks)
      /\ Len(blocks) \in Nat
  BY DEF Assembled
<1>5. blocks[k] = [start_line |-> {bodies[i].start}, line_count |-> LinesCount(i)]
  BY <1>1, <1>4 DEF Assembled, BlockOf
<1>6. c \in Nat /\ LinesCount(i) \in Nat /\ c < LinesCount(i)
  <2>1. c < Cardinality(BreaksOf(from, to))
    BY <1>3, FewerBreaksBefore
  <2>2. from \in Int /\ p - 1 \in Int /\ to \in Int
    BY <1>3
  <2>3. c \in Nat /\ Cardinality(BreaksOf(from, to)) \in Nat
    BY <2>2, CountBreaks
  <2> QED
    BY <2>1, <2>3 DEF LinesCount, BreaksOf
<1>7. /\ first \in Seq(1..(Len(res_source) + 1)) /\ Len(first) = Len(blocks)
      /\ Len(res_source) \in Nat
  BY DEF AssemblerProofs!Inv, AssemblerProofs!TypeOK
<1>8. AssemblerProofs!Starts[k] = first[k] /\ first[k] \in Nat \ {0}
  BY <1>4, <1>7 DEF AssemblerProofs!Starts
<1>9. /\ first[k] + c \in DOMAIN res_source
      /\ res_source[first[k] + c] = AssemblerProofs!OriginOf(blocks[k], c)
  <2>1. c \in 0..(blocks[k].line_count - 1)
    BY <1>5, <1>6
  <2> QED
    BY <1>4, <1>8, <2>1 DEF AssemblerProofs!Inv, AssemblerProofs!Layout
<1>10. AssemblerProofs!OriginOf(blocks[k], c) = {bodies[i].start + c}
  BY <1>5 DEF AssemblerProofs!OriginOf
<1>11. LineOf(p) = bodies[i].start + c
  BY <1>2, <1>3, LineWithinBody
<1>12. RowOf(k, i, p) = first[k] + c
  BY DEF RowOf, BreaksOf
<1> HIDE DEF c
<1> QED
  BY <1>6, <1>8, <1>9, <1>10, <1>11, <1>12

\* An error in a line that its own body ends is reported on its line, for texts
\* and includes of any length.
THEOREM LinesReported == Spec => []ErrorsOnTheirLines
<1>1. Inv /\ AssemblerProofs!Inv => ErrorsOnTheirLines
  <2> SUFFICES ASSUME Inv, AssemblerProofs!Inv, pc = "answered",
                      NEW k \in DOMAIN pieces, NEW i \in pieces[k],
                      NEW p \in bodies[i].from..bodies[i].to,
                      RowOf(k, i, p) = res_line,
                      NEW q \in p..bodies[i].to, text[q] = "break"
               PROVE  answer = {LineOf(p)}
    BY DEF ErrorsOnTheirLines
  <2>1. /\ RowOf(k, i, p) \in DOMAIN res_source
        /\ RowOf(k, i, p) >= 1
        /\ res_source[RowOf(k, i, p)] = {LineOf(p)}
    BY RowOfPlace
  <2> QED
    BY <2>1 DEF AssemblerProofs!Inv, AssemblerProofs!TranslatesToOriginOfBreak
<1> QED
  BY <1>1, InvInvariant, AssemblerInvariant, PTL

\* A line that is reported has a place on the engine's row: the piece the loop has
\* stopped at is a body, and the row is so many line feeds after its beginning.
LEMMA PlaceOfRow ==
    ASSUME Inv, AssemblerProofs!Inv, AssemblerProofs!Found,
           pc = "answered", res_line >= 1, NEW line \in answer
    PROVE  \E k \in DOMAIN pieces : \E i \in pieces[k] : \E p \in bodies[i].from..bodies[i].to :
               LineOf(p) = line /\ RowOf(k, i, p) = res_line
<1> DEFINE k == block_idx
           d == res_line - first[k]
<1>1. /\ k \in DOMAIN blocks
      /\ res_line - AssemblerProofs!Starts[k] \in 0..(blocks[k].line_count - 1)
  BY DEF AssemblerProofs!Found
<1>2. /\ first \in Seq(1..(Len(res_source) + 1)) /\ Len(first) = Len(blocks)
      /\ Len(res_source) \in Nat /\ Len(blocks) \in Nat /\ DOMAIN blocks = 1..Len(blocks)
      /\ res_line \in Nat
  BY DEF AssemblerProofs!Inv, AssemblerProofs!TypeOK
<1>3. AssemblerProofs!Starts[k] = first[k] /\ first[k] \in Nat \ {0}
  BY <1>1, <1>2 DEF AssemblerProofs!Starts
<1>4. d \in 0..(blocks[k].line_count - 1) /\ first[k] + d = res_line
  BY <1>1, <1>2, <1>3
<1>5. answer = AssemblerProofs!OriginOf(blocks[k], d)
  <2>1. /\ first[k] + d \in DOMAIN res_source
        /\ res_source[first[k] + d] = AssemblerProofs!OriginOf(blocks[k], d)
    BY <1>1, <1>3, <1>4 DEF AssemblerProofs!Inv, AssemblerProofs!Layout
  <2> QED
    BY <1>4, <2>1 DEF AssemblerProofs!Inv, AssemblerProofs!TranslatesToOriginOfBreak
<1> HIDE DEF d
<1>6. k \in DOMAIN pieces
  BY <1>1, <1>2 DEF Inv, Assembled
<1>7. PICK i \in DOMAIN bodies : pieces[k] = {i}
  <2>1. pieces[k] # {}
    <3>1. blocks[k].start_line # {}
      BY <1>5 DEF AssemblerProofs!OriginOf
    <3> QED
      BY <1>1, <3>1 DEF Inv, Assembled, BlockOf
  <2> QED
    BY <1>6, <2>1 DEF Inv, Assembled, Planned
<1> DEFINE from == bodies[i].from
           to == bodies[i].to
<1>8. blocks[k] = [start_line |-> {bodies[i].start}, line_count |-> LinesCount(i)]
  BY <1>1, <1>7 DEF Inv, Assembled, BlockOf
<1>9. bodies[i] \in Body /\ bodies[i].start = LineOf(from) /\ Len(text) \in Nat
  BY <1>7, ScriptParserAssumption DEF Inv, ParserInv, BodiesNoted
<1>10. from \in Nat \ {0} /\ to \in Nat
  BY <1>9 DEF Body
<1>11. line = bodies[i].start + d
  BY <1>5, <1>8 DEF AssemblerProofs!OriginOf
<1>12. d \in Nat /\ d < Cardinality(BreaksOf(from, to))
  <2>1. Cardinality(BreaksOf(from, to)) \in Nat
    <3>1. from \in Int /\ to \in Int
      BY <1>10
    <3> QED
      BY <3>1, CountBreaks
  <2>2. blocks[k].line_count = Cardinality(BreaksOf(from, to))
    BY <1>8 DEF LinesCount, BreaksOf
  <2> QED
    BY <1>4, <2>1, <2>2
<1>13. PICK p \in from..to : Cardinality(BreaksOf(from, p - 1)) = d
  BY <1>10, <1>12, PlaceAfterBreaks
<1>14. LineOf(p) = line
  BY <1>9, <1>10, <1>11, <1>13, LineWithinBody
<1>15. RowOf(k, i, p) = res_line
  BY <1>4, <1>13 DEF RowOf, BreaksOf
<1> QED
  BY <1>6, <1>7, <1>13, <1>14, <1>15

\* An error is never reported on a line that has nothing on the engine's row, for
\* texts and includes of any length.
THEOREM RowsHaveTheLine == Spec => []ReportedLinesHaveTheRow
<1>1. Inv /\ AssemblerProofs!Inv /\ AssemblerProofs!Found => ReportedLinesHaveTheRow
  BY PlaceOfRow DEF ReportedLinesHaveTheRow
<1> QED
  BY <1>1, InvInvariant, AssemblerInvariant, AssemblerFound, PTL

-----------------------------------------------------------------------------
(* Nothing is lost *)

\* The places before this one are settled: in a body, or skipped for good.
Settled == IF state = "body" THEN body ELSE pos

Covered(p) == text[p] = "code" => InBody(p) \/ Commented(p)

RawBody(i) ==
    /\ bodies[i].to + 1 < Settled
    /\ \A p \in bodies[i].from..bodies[i].to : text[p] # "close"
    /\ text[bodies[i].to + 1] = "close"

NothingLost ==
    state # "failed" =>
        /\ \A p \in 1..(Settled - 1) : Covered(p)
        /\ \A i \in DOMAIN bodies : RawBody(i)
        /\ \A i, j \in DOMAIN bodies : i < j => bodies[i].to + 1 < bodies[j].from
        /\ state = "body" => \A p \in body..(pos - 1) : text[p] # "close"

\* Going on to a later place between two bodies.
LEMMA SkipLosesNothing ==
    ASSUME ParserInv, NothingLost, state \notin {"body", "failed"}, state' \notin {"body", "failed"},
           UNCHANGED <<text, bodies>>, pos' \in Nat, pos <= pos',
           \A p \in pos..(pos' - 1) : Covered(p)
    PROVE  NothingLost'
<1> USE DEF NothingLost, Settled
<1>1. pos \in Nat /\ Len(text) \in Nat /\ bodies \in Seq(Body)
  BY ScriptParserAssumption DEF ParserInv, BodiesNoted
<1>2. \A p : Covered(p)' <=> Covered(p)
  BY DEF Covered, InBody, Commented
<1>3. ASSUME NEW p \in 1..(pos' - 1) PROVE Covered(p)
  BY <1>1
<1>4. ASSUME NEW i \in DOMAIN bodies PROVE RawBody(i)'
  <2>1. RawBody(i) /\ bodies[i] \in Body
    BY <1>1
  <2> QED
    BY <1>1, <2>1 DEF RawBody, Body
<1> QED
  BY <1>2, <1>3, <1>4

LEMMA ParserLosesNothing ==
    ASSUME ParserInv, NothingLost, ParserNext
    PROVE  NothingLost'
<1> USE DEF ParserInv
<1>1. /\ text \in Seq(Symbols) /\ Len(text) \in Nat /\ DOMAIN text = 1..Len(text)
      /\ pos \in Nat \ {0} /\ body \in Nat /\ bodies \in Seq(Body)
  BY ScriptParserAssumption DEF BodiesNoted
<1>2. ASSUME state \notin {"body", "failed"} PROVE ~InBody(pos)
  <2>1. ASSUME NEW i \in DOMAIN bodies, pos \in bodies[i].from..bodies[i].to PROVE FALSE
    <3>1. bodies[i] \in Body /\ bodies[i].to + 1 < pos
      BY <1>1, <1>2 DEF NothingLost, RawBody, Settled
    <3> QED
      BY <1>1, <2>1, <3>1 DEF Body
  <2> QED
    BY <2>1 DEF InBody
<1>3. CASE SkipSpace \/ ParseSection \/ ParseDecl \/ OpenBody
  <2>1. /\ state \notin {"body", "failed"} /\ state' \notin {"body", "failed"}
        /\ UNCHANGED <<text, bodies>> /\ pos' = pos + 1 /\ text[pos] # "code"
    BY <1>1, <1>3 DEF SkipSpace, IsSpace, EndOfLine, ParseSection, ParseDecl, OpenBody,
                      Skipping, Symbol
  <2>2. \A p \in pos..(pos' - 1) : Covered(p)
    BY <1>1, <2>1 DEF Covered
  <2> QED
    BY <1>1, <2>1, <2>2, SkipLosesNothing
<1>4. CASE SkipLineComment
  <2>1. /\ state \notin {"body", "failed"} /\ state' \notin {"body", "failed"}
        /\ UNCHANGED <<text, bodies>> /\ text[pos] = "line"
    BY <1>1, <1>4 DEF SkipLineComment, Skipping, Symbol
  <2>2. PICK end \in NextOf(EndOfLine) : pos' = end /\ \A r \in NextOf(EndOfLine) : end <= r
    BY <1>4 DEF SkipLineComment, IsFirst
  <2>3. end \in (pos + 1)..Len(text)
    BY <2>2 DEF NextOf
  <2>4. ASSUME NEW p \in pos..(end - 1) PROVE Covered(p)
    <3>1. ASSUME NEW q \in pos..p PROVE text[q] \notin EndOfLine
      BY <1>1, <2>1, <2>2, <2>3 DEF NextOf, EndOfLine
    <3>2. text[p] = "code" => pos \in 1..(p - 1)
      BY <1>1, <2>1, <2>3
    <3> QED
      BY <1>2, <2>1, <3>1, <3>2 DEF Covered, Commented
  <2>5. pos' \in Nat /\ pos <= pos'
    BY <1>1, <2>2, <2>3
  <2> QED
    BY <2>1, <2>2, <2>4, <2>5, SkipLosesNothing
<1>5. CASE SkipBlockComment
  <2>1. /\ state \notin {"body", "failed"} /\ state' \notin {"body", "failed"}
        /\ UNCHANGED <<text, bodies>> /\ text[pos] = "from"
    BY <1>1, <1>5 DEF SkipBlockComment, Skipping, Symbol
  <2>2. PICK to \in NextOf({"to"}) : pos' = to + 1 /\ \A r \in NextOf({"to"}) : to <= r
    BY <1>5 DEF SkipBlockComment, IsFirst
  <2>3. to \in (pos + 1)..Len(text) /\ text[to] = "to"
    BY <2>2 DEF NextOf
  <2>4. ASSUME NEW p \in pos..(pos' - 1) PROVE Covered(p)
    <3>1. ASSUME NEW q \in pos..(p - 1) PROVE text[q] # "to"
      BY <1>1, <2>1, <2>2, <2>3 DEF NextOf
    <3>2. text[p] = "code" => pos \in 1..(p - 1)
      BY <1>1, <2>1, <2>2, <2>3
    <3> QED
      BY <1>2, <2>1, <3>1, <3>2 DEF Covered, Commented
  <2>5. pos' \in Nat /\ pos <= pos'
    BY <1>1, <2>2, <2>3
  <2> QED
    BY <2>1, <2>4, <2>5, SkipLosesNothing
<1>6. CASE StartBody \/ EndOfText
  <2>1. ASSUME UNCHANGED <<text, bodies>> PROVE \A p : Covered(p)' <=> Covered(p)
    BY <2>1 DEF Covered, InBody, Commented
  <2> QED
    BY <1>1, <1>6, <2>1 DEF StartBody, EndOfText, NothingLost, Settled, RawBody
<1>7. CASE BodySymbol
  <2>1. ASSUME UNCHANGED <<text, bodies>> PROVE \A p : Covered(p)' <=> Covered(p)
    BY <2>1 DEF Covered, InBody, Commented
  <2>2. /\ state = "body" /\ state' = "body" /\ UNCHANGED <<text, body, bodies>>
        /\ pos' = pos + 1 /\ text[pos] # "close"
    BY <1>1, <1>7 DEF BodySymbol, Symbol
  <2> QED
    BY <1>1, <2>1, <2>2 DEF NothingLost, Settled, RawBody
<1>8. CASE CloseBody
  <2> DEFINE noted == [from |-> body, to |-> pos - 1, start |-> LineOf(body)]
  <2>1. /\ state = "body" /\ state' = "block" /\ pos' = pos + 1 /\ text' = text
        /\ text[pos] = "close" /\ bodies' = Append(bodies, noted)
    BY <1>1, <1>8 DEF CloseBody, Symbol
  <2>2. noted.from = body /\ noted.to = pos - 1
    OBVIOUS
  <2> HIDE DEF noted
  <2>3. /\ Len(bodies) \in Nat /\ DOMAIN bodies = 1..Len(bodies)
        /\ DOMAIN bodies' = 1..(Len(bodies) + 1)
        /\ bodies'[Len(bodies) + 1] = noted
        /\ \A i \in DOMAIN bodies : bodies'[i] = bodies[i]
    BY <1>1, <2>1
  <2>4. body \in 1..pos
    BY <1>1, <2>1
  <2>5. ASSUME NEW p \in 1..pos PROVE Covered(p)'
    <3>1. CASE p >= body /\ p < pos
      BY <1>1, <2>1, <2>2, <2>3, <3>1 DEF Covered, InBody
    <3>2. CASE p = pos
      BY <2>1, <3>2 DEF Covered
    <3>3. CASE p < body
      <4>1. Covered(p)
        BY <1>1, <2>1, <2>4, <3>3 DEF NothingLost, Settled
      <4>2. InBody(p) => InBody(p)'
        BY <2>3 DEF InBody
      <4>3. ASSUME NEW c \in 1..(p - 1), ~InBody(c) PROVE ~InBody(c)'
        BY <1>1, <2>2, <2>3, <2>4, <3>3, <4>3 DEF InBody
      <4>4. Commented(p) => Commented(p)'
        BY <2>1, <4>3 DEF Commented
      <4> QED
        BY <2>1, <4>1, <4>2, <4>4 DEF Covered
    <3> QED
      BY <1>1, <2>4, <3>1, <3>2, <3>3
  <2>6. ASSUME NEW i \in DOMAIN bodies' PROVE RawBody(i)'
    <3>1. CASE i \in DOMAIN bodies
      <4>1. RawBody(i) /\ bodies[i] \in Body
        BY <1>1, <2>1, <3>1 DEF NothingLost
      <4> QED
        BY <1>1, <2>1, <2>3, <2>4, <3>1, <4>1 DEF RawBody, Settled, Body
    <3>2. CASE i = Len(bodies) + 1
      BY <1>1, <2>1, <2>2, <2>3, <2>4, <3>2 DEF RawBody, Settled, NothingLost
    <3> QED
      BY <2>3, <3>1, <3>2
  <2>7. ASSUME NEW i \in DOMAIN bodies', NEW j \in DOMAIN bodies', i < j
        PROVE  bodies'[i].to + 1 < bodies'[j].from
    <3>1. i \in DOMAIN bodies /\ RawBody(i) /\ bodies[i] \in Body
      BY <1>1, <2>1, <2>3, <2>7 DEF NothingLost
    <3>2. CASE j \in DOMAIN bodies
      BY <2>1, <2>3, <2>7, <3>1, <3>2 DEF NothingLost
    <3>3. CASE j = Len(bodies) + 1
      BY <2>1, <2>2, <2>3, <3>1, <3>3 DEF RawBody, Settled
    <3> QED
      BY <2>3, <3>2, <3>3
  <2> QED
    BY <1>1, <2>1, <2>5, <2>6, <2>7 DEF NothingLost, Settled
<1>9. CASE SyntaxError
  BY <1>9 DEF SyntaxError, NothingLost
<1> QED
  BY <1>3, <1>4, <1>5, <1>6, <1>7, <1>8, <1>9 DEF ParserNext

\* An accepted text is accepted whole, whatever its length.
THEOREM NothingDropped == Spec => []OnlyCommentsAreDropped
<1>1. Init => NothingLost
  BY DEF Init, ParserInit, NothingLost, Settled
<1>2. Inv /\ NothingLost /\ [Next]_vars => NothingLost'
  <2> SUFFICES ASSUME Inv, NothingLost, [Next]_vars PROVE NothingLost'
    OBVIOUS
  <2>1. CASE Parse
    BY <2>1, ParserLosesNothing DEF Parse, Inv
  <2>2. CASE UNCHANGED parser_vars
    BY <2>2 DEF parser_vars, NothingLost, Settled, Covered, InBody, Commented, RawBody
  <2>3. Parse \/ UNCHANGED parser_vars
    BY DEF Next, ResetAssembler, AddBody, AddFrameOfMain, TranslateError,
           NothingToTranslate, vars
  <2> QED
    BY <2>1, <2>2, <2>3
<1>3. Inv /\ NothingLost => OnlyCommentsAreDropped
  <2> SUFFICES ASSUME Inv, NothingLost, state = "parsed" PROVE OnlyCommentsAreDropped
    BY DEF OnlyCommentsAreDropped
  <2>1. pos = Len(text) + 1 /\ Len(text) \in Nat /\ DOMAIN text = 1..Len(text)
    BY ScriptParserAssumption DEF Inv, ParserInv
  <2> QED
    BY <2>1 DEF NothingLost, Settled, Covered, RawBody, OnlyCommentsAreDropped
<1> QED
  BY <1>1, <1>2, <1>3, InvInvariant, PTL DEF Spec

\* The parser's and the assembler's variables stay inside their types.
THEOREM TypeCorrect == Spec => []TypeOK
<1>1. Inv /\ AssemblerProofs!Inv => TypeOK
  <2> SUFFICES ASSUME Inv, AssemblerProofs!Inv PROVE TypeOK
    OBVIOUS
  <2>1. text \in Seq(Symbols) /\ Len(text) \in Nat
    BY ScriptParserAssumption DEF Inv, ParserInv
  <2>2. bodies \in Seq([from : 1..(Len(text) + 1), to : 0..Len(text), start : Nat \ {0}])
    <3>1. ASSUME NEW b \in Body
          PROVE  b \in [from : 1..(Len(text) + 1), to : 0..Len(text), start : Nat \ {0}]
      BY ErrorLinesAssumption DEF Body
    <3>2. bodies \in Seq(Body) /\ Len(bodies) \in Nat
      BY DEF Inv, ParserInv, BodiesNoted
    <3> DEFINE T == [from : 1..(Len(text) + 1), to : 0..Len(text), start : Nat \ {0}]
    <3>3. \A b \in Body : b \in T
      BY <3>1
    <3> HIDE DEF T
    <3>4. bodies \in [1..Len(bodies) -> T]
      BY <3>2, <3>3
    <3>5. bodies \in Seq(T)
      BY <3>2, <3>4
    <3> QED
      BY <3>5 DEF T
  <2>3. ParserTypeOK
    BY <2>1, <2>2 DEF Inv, ParserInv, ParserTypeOK
  <2>4. Assembler!TypeOK
    BY DEF AssemblerProofs!Inv, AssemblerProofs!TypeOK, Assembler!TypeOK
  <2>5. \A k \in DOMAIN pieces : pieces[k] \subseteq DOMAIN bodies
    BY DEF Inv, Assembled
  <2> QED
    BY <2>3, <2>4, <2>5 DEF TypeOK
<1> QED
  BY <1>1, InvInvariant, AssemblerInvariant, PTL
=============================================================================
