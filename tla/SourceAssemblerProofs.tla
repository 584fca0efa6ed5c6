----------------------- MODULE SourceAssemblerProofs -----------------------
(***************************************************************************)
(* Proofs about SourceAssembler.tla, for pieces and line numbers without    *)
(* bounds.  The loop of GetSourceLine computes the first line of a piece    *)
(* by adding up line counts; Layout says that the sums are the positions    *)
(* at which the pieces were appended, Loop that the loop has passed every   *)
(* piece that ends before the line it looks for, and Found that a line it   *)
(* answers is one of the piece it has stopped at.                           *)
(***************************************************************************)
EXTENDS SourceAssembler, SequenceTheorems, TLAPS

\* The line of the assembled text on which each piece begins, and on which the
\* next one would.
Starts == Append(first, Len(res_source) + 1)

OriginOf(block, k) == {line + k : line \in block.start_line}

\* Pieces follow each other without a gap, and every line break has the origin
\* its piece gives it.
Layout ==
    /\ Starts[1] = 1
    /\ \A i \in DOMAIN blocks :
          /\ Starts[i + 1] = Starts[i] + blocks[i].line_count
          /\ \A k \in 0..(blocks[i].line_count - 1) :
                /\ Starts[i] + k \in DOMAIN res_source
                /\ res_source[Starts[i] + k] = OriginOf(blocks[i], k)

Loop ==
    pc = "loop" =>
        /\ curr_block_start = Starts[block_idx]
        /\ res_line >= 1 => res_line >= curr_block_start
        /\ res_line = 0 => block_idx = 1

Inv == TypeOK /\ Layout /\ Loop /\ TranslatesToOriginOfBreak /\ RowZeroBeforeFirstBlock

USE SourceAssemblerAssumption

LEMMA LenOrigins ==
    ASSUME NEW start_line \in SUBSET (Nat \ {0}), NEW line_count \in Nat
    PROVE  /\ Origins(start_line, line_count) \in Seq(SUBSET Nat)
           /\ Len(Origins(start_line, line_count)) = line_count
           /\ \A k \in 1..line_count :
                 Origins(start_line, line_count)[k] = {line + k - 1 : line \in start_line}
BY DEF Origins

\* Appending a piece keeps the type invariant and the layout.
LEMMA AddBlockInv ==
    ASSUME Inv, NEW start_line \in SUBSET (Nat \ {0}),
           \A x, y \in start_line : x = y,
           NEW line_count \in 0..MaxLines, AddBlock(start_line, line_count)
    PROVE  Inv'
<1> DEFINE block == [start_line |-> start_line, line_count |-> line_count]
           origins == Origins(start_line, line_count)
           Piece == [start_line : SUBSET (Nat \ {0}), line_count : 0..MaxLines]
<1>0. line_count \in Nat /\ block \in Piece
  OBVIOUS
<1>t. /\ blocks \in Seq(Piece) /\ Len(blocks) \in Nat /\ DOMAIN blocks = 1..Len(blocks)
      /\ \A i \in DOMAIN blocks : \A x, y \in blocks[i].start_line : x = y
      /\ res_source \in Seq(SUBSET Nat) /\ Len(res_source) \in Nat
      /\ DOMAIN res_source = 1..Len(res_source)
      /\ first \in Seq(1..(Len(res_source) + 1)) /\ Len(first) = Len(blocks)
      /\ Len(blocks) <= MaxBlocks
      /\ res_line \in 0..MaxResLine
      /\ block_idx \in 1..(Len(blocks) + 1)
      /\ curr_block_start \in 1..(Len(res_source) + 1)
      /\ answer \subseteq Nat
  BY DEF Inv, TypeOK
<1>1. /\ origins \in Seq(SUBSET Nat)
      /\ Len(origins) = line_count
      /\ \A k \in 1..line_count : origins[k] = {line + k - 1 : line \in start_line}
  BY <1>0, LenOrigins
<1>2. /\ blocks' = Append(blocks, block)
      /\ res_source' = res_source \o origins
      /\ first' = Append(first, Len(res_source) + 1)
      /\ Len(blocks) < MaxBlocks
      /\ pc = "idle" /\ pc' = pc /\ res_line' = res_line /\ block_idx' = block_idx
      /\ curr_block_start' = curr_block_start /\ answer' = answer
  BY DEF AddBlock, query_vars
<1> HIDE DEF origins, block, Piece
<1>3. /\ Len(res_source') = Len(res_source) + line_count
      /\ \A n \in 1..Len(res_source) : res_source'[n] = res_source[n]
      /\ \A k \in 1..line_count : res_source'[Len(res_source) + k] = origins[k]
      /\ res_source' \in Seq(SUBSET Nat)
      /\ DOMAIN res_source' = 1..Len(res_source')
  <2>1. /\ res_source' \in Seq(SUBSET Nat)
        /\ Len(res_source') = Len(res_source) + line_count
        /\ \A i \in 1..(Len(res_source) + line_count) :
              res_source'[i] = IF i <= Len(res_source) THEN res_source[i]
                               ELSE origins[i - Len(res_source)]
    <3>1. res_source \in Seq(SUBSET Nat) /\ origins \in Seq(SUBSET Nat)
      BY <1>1, <1>t
    <3>2. /\ res_source \o origins \in Seq(SUBSET Nat)
          /\ Len(res_source \o origins) = Len(res_source) + Len(origins)
          /\ \A i \in 1..(Len(res_source) + Len(origins)) :
                (res_source \o origins)[i] =
                    IF i <= Len(res_source) THEN res_source[i]
                    ELSE origins[i - Len(res_source)]
      BY <3>1, ConcatProperties
    <3>3. Len(origins) = line_count /\ res_source' = res_source \o origins
      BY <1>1, <1>2
    <3> QED
      BY <3>2, <3>3
  <2>2. DOMAIN res_source' = 1..Len(res_source')
    BY <2>1
  <2>3. \A n \in 1..Len(res_source) : res_source'[n] = res_source[n]
    BY <1>0, <1>t, <2>1
  <2>4. ASSUME NEW k \in 1..line_count
        PROVE  res_source'[Len(res_source) + k] = origins[k]
    <3>1. /\ Len(res_source) + k \in 1..(Len(res_source) + line_count)
          /\ ~(Len(res_source) + k <= Len(res_source))
          /\ (Len(res_source) + k) - Len(res_source) = k
      BY <1>0, <1>t
    <3> QED
      BY <2>1, <3>1
  <2> QED
    BY <2>1, <2>2, <2>3, <2>4
<1>4. /\ Len(blocks') = Len(blocks) + 1
      /\ \A i \in 1..Len(blocks) : blocks'[i] = blocks[i]
      /\ blocks'[Len(blocks) + 1] = block
      /\ blocks' \in Seq(Piece)
      /\ DOMAIN blocks' = 1..Len(blocks')
  BY <1>0, <1>2, <1>t, AppendProperties
<1>5. /\ Len(first') = Len(first) + 1
      /\ \A i \in 1..Len(first) : first'[i] = first[i]
      /\ first'[Len(first) + 1] = Len(res_source) + 1
      /\ first' \in Seq(1..(Len(res_source') + 1))
  <2>1. /\ first \in Seq(1..(Len(res_source') + 1))
        /\ Len(res_source) + 1 \in 1..(Len(res_source') + 1)
    BY <1>0, <1>3, <1>t
  <2> QED
    BY <2>1, <1>2, AppendProperties
<1>6. TypeOK'
  <2>1. \A i \in DOMAIN blocks' : \A x, y \in blocks'[i].start_line : x = y
    <3>1. block.start_line = start_line
      BY DEF block
    <3>2. ASSUME NEW i \in DOMAIN blocks' PROVE \A x, y \in blocks'[i].start_line : x = y
      <4>1. CASE i \in 1..Len(blocks)
        BY <4>1, <1>4, <1>t
      <4>2. CASE i = Len(blocks) + 1
        BY <4>2, <3>1, <1>4
      <4> QED
        BY <4>1, <4>2, <1>4, <1>t
    <3> QED
      BY <3>2
  <2>2. curr_block_start' \in 1..(Len(res_source') + 1) /\ block_idx' \in 1..(Len(blocks') + 1)
    BY <1>0, <1>2, <1>3, <1>4, <1>t
  <2>3. Len(first') = Len(blocks') /\ Len(blocks') <= MaxBlocks
    BY <1>2, <1>4, <1>5, <1>t
  <2> QED
    BY <2>1, <2>2, <2>3, <1>2, <1>3, <1>4, <1>5, <1>t DEF TypeOK, Piece
<1>7. Layout'
  <2>1. /\ Starts \in Seq(Nat) /\ Len(Starts) = Len(blocks) + 1
        /\ \A i \in 1..(Len(blocks) + 1) : Starts'[i] = Starts[i]
        /\ Starts'[Len(blocks) + 1] = Len(res_source) + 1
        /\ Starts'[Len(blocks) + 2] = Len(res_source') + 1
    <3>1. first \in Seq(Nat) /\ Len(res_source) + 1 \in Nat /\ Len(res_source') + 1 \in Nat
      BY <1>0, <1>3, <1>t
    <3>2. /\ Starts \in Seq(Nat) /\ Len(Starts) = Len(blocks) + 1
          /\ Starts[Len(blocks) + 1] = Len(res_source) + 1
      BY <3>1, <1>t, AppendProperties DEF Starts
    <3>3. Starts' = Append(Starts, Len(res_source') + 1)
      BY <1>2 DEF Starts
    <3>4. /\ \A i \in 1..Len(Starts) : Starts'[i] = Starts[i]
          /\ Starts'[Len(Starts) + 1] = Len(res_source') + 1
      BY <3>1, <3>2, <3>3, AppendProperties
    <3> QED
      BY <3>2, <3>4, <1>t
  <2>l. Layout
    BY DEF Inv
  <2>2. Starts'[1] = 1
    BY <2>1, <2>l, <1>t DEF Layout
  <2>3. ASSUME NEW i \in DOMAIN blocks'
        PROVE  /\ Starts'[i + 1] = Starts'[i] + blocks'[i].line_count
               /\ \A k \in 0..(blocks'[i].line_count - 1) :
                     /\ Starts'[i] + k \in DOMAIN res_source'
                     /\ res_source'[Starts'[i] + k] = OriginOf(blocks'[i], k)
    <3>1. CASE i \in 1..Len(blocks)
      <4>0. i \in 1..(Len(blocks) + 1) /\ i + 1 \in 1..(Len(blocks) + 1)
        BY <3>1, <1>t
      <4>1. Starts'[i] = Starts[i] /\ Starts'[i + 1] = Starts[i + 1]
        BY <2>1, <4>0, Zenon
      <4>2. blocks'[i] = blocks[i] /\ i \in DOMAIN blocks
        BY <1>4, <3>1, <1>t
      <4>3. Starts'[i + 1] = Starts'[i] + blocks'[i].line_count
        BY <4>1, <4>2, <2>l DEF Layout
      <4>4. ASSUME NEW k \in 0..(blocks[i].line_count - 1)
            PROVE  /\ Starts[i] + k \in DOMAIN res_source'
                   /\ res_source'[Starts[i] + k] = OriginOf(blocks[i], k)
        <5>1. /\ Starts[i] + k \in 1..Len(res_source)
              /\ res_source[Starts[i] + k] = OriginOf(blocks[i], k)
          BY <4>2, <2>l, <1>t DEF Layout
        <5>2. Starts[i] + k \in DOMAIN res_source'
          BY <1>0, <1>3, <5>1, <1>t
        <5> QED
          BY <1>3, <5>1, <5>2
      <4> QED
        BY <4>1, <4>2, <4>3, <4>4
    <3>2. CASE i = Len(blocks) + 1
      <4>1. blocks'[i] = block /\ Starts'[i] = Len(res_source) + 1
        BY <1>4, <2>1, <3>2
      <4>b. block.line_count = line_count /\ block.start_line = start_line
        BY DEF block
      <4>2. Starts'[i + 1] = Starts'[i] + blocks'[i].line_count
        <5>1. i + 1 = Len(blocks) + 2
          BY <3>2, <1>t
        <5>2. Starts'[i + 1] = Len(res_source') + 1
          BY <5>1, <2>1
        <5> QED
          BY <5>2, <1>0, <1>3, <1>t, <4>1, <4>b
      <4>3. ASSUME NEW k \in 0..(line_count - 1)
            PROVE  /\ Len(res_source) + 1 + k \in DOMAIN res_source'
                   /\ res_source'[Len(res_source) + 1 + k] = OriginOf(block, k)
        <5>1. k + 1 \in 1..line_count /\ Len(res_source) + (k + 1) = Len(res_source) + 1 + k
          BY <1>0, <1>t
        <5>2. Len(res_source) + 1 + k \in DOMAIN res_source'
          BY <1>0, <1>3, <5>1, <1>t
        <5>3. res_source'[Len(res_source) + (k + 1)] = origins[k + 1]
          BY <1>3, <5>1
        <5>4. origins[k + 1] = {line + (k + 1) - 1 : line \in start_line}
          BY <1>1, <5>1
        <5>5. \A line \in start_line : line + (k + 1) - 1 = line + k
          BY <1>0
        <5>6. OriginOf(block, k) = {line + k : line \in start_line}
          BY <4>b DEF OriginOf
        <5>7. {line + (k + 1) - 1 : line \in start_line} = {line + k : line \in start_line}
          BY <5>5
        <5> QED
          BY <5>1, <5>2, <5>3, <5>4, <5>6, <5>7
      <4> QED
        BY <4>1, <4>2, <4>3, <4>b
    <3> QED
      BY <1>4, <3>1, <3>2, <1>t
  <2> QED
    BY <2>2, <2>3 DEF Layout
<1>8. Loop' /\ TranslatesToOriginOfBreak' /\ RowZeroBeforeFirstBlock'
  BY <1>2 DEF Loop, TranslatesToOriginOfBreak, RowZeroBeforeFirstBlock, query_vars
<1> QED
  BY <1>6, <1>7, <1>8 DEF Inv

\* One step of the loop, and its two ends.
LEMMA LoopInv ==
    ASSUME Inv, FoundBlock \/ NextBlock \/ NoBlock
    PROVE  Inv'
<1> USE DEF Inv
<1>0. /\ Len(blocks) \in Nat /\ Len(res_source) \in Nat /\ res_line \in Nat
      /\ DOMAIN blocks = 1..Len(blocks) /\ DOMAIN res_source = 1..Len(res_source)
      /\ block_idx \in 1..(Len(blocks) + 1)
      /\ res_source \in Seq(SUBSET Nat)
  BY DEF TypeOK
<1>b. \A i \in DOMAIN blocks : blocks[i].line_count \in Nat /\ blocks[i].start_line \in SUBSET (Nat \ {0})
  <2>1. blocks \in Seq([start_line : SUBSET (Nat \ {0}), line_count : 0..MaxLines])
    BY DEF TypeOK
  <2>2. \A i \in DOMAIN blocks : blocks[i] \in [start_line : SUBSET (Nat \ {0}), line_count : 0..MaxLines]
    BY <2>1, <1>0, ElementOfSeq
  <2> QED
    BY <2>2
<1>s. /\ Starts \in Seq(1..(Len(res_source) + 1)) /\ Len(Starts) = Len(blocks) + 1
      /\ Starts[Len(blocks) + 1] = Len(res_source) + 1
  <2>1. /\ first \in Seq(1..(Len(res_source) + 1)) /\ Len(first) = Len(blocks)
        /\ Len(res_source) + 1 \in 1..(Len(res_source) + 1)
    BY <1>0 DEF TypeOK
  <2> QED
    BY <2>1, AppendProperties DEF Starts
<1>1. pc = "loop" /\ UNCHANGED text_vars /\ curr_block_start = Starts[block_idx]
      /\ (res_line >= 1 => res_line >= curr_block_start) /\ (res_line = 0 => block_idx = 1)
      /\ res_line' = res_line
  BY DEF FoundBlock, NextBlock, NoBlock, Loop
<1>2. Layout'
  BY <1>1 DEF Layout, Starts, text_vars
<1>3. curr_block_start \in 1..(Len(res_source) + 1)
  BY DEF TypeOK
<1>4. CASE FoundBlock
  <2>1. /\ block_idx \in DOMAIN blocks
        /\ res_line < curr_block_start + blocks[block_idx].line_count
        /\ answer' = {line + (res_line - curr_block_start) : line \in blocks[block_idx].start_line}
        /\ pc' = "answered"
        /\ UNCHANGED <<res_line, block_idx, curr_block_start>>
    BY <1>0, <1>4 DEF FoundBlock, EndsAfter
  <2>2. CASE res_line >= 1
    <3> DEFINE k == res_line - curr_block_start
    <3>1. k \in 0..(blocks[block_idx].line_count - 1) /\ Starts[block_idx] + k = res_line
      BY <1>0, <1>b, <1>1, <1>3, <2>1, <2>2
    <3>2. /\ res_line \in DOMAIN res_source
          /\ res_source[res_line] = OriginOf(blocks[block_idx], k)
      BY <2>1, <3>1 DEF Layout
    <3>3. answer' = res_source[res_line]
      BY <2>1, <3>2 DEF OriginOf
    <3>4. answer' \subseteq Nat
      BY <3>2, <3>3 DEF TypeOK
    <3>5. TypeOK'
      BY <1>1, <2>1, <3>4 DEF TypeOK, text_vars
    <3>6. TranslatesToOriginOfBreak' /\ RowZeroBeforeFirstBlock'
      BY <1>1, <2>1, <2>2, <3>2, <3>3
      DEF TranslatesToOriginOfBreak, RowZeroBeforeFirstBlock, text_vars
    <3> QED
      BY <1>2, <2>1, <3>5, <3>6 DEF Loop
  <2>3. CASE res_line = 0
    <3>1. block_idx = 1 /\ curr_block_start = 1
      BY <1>1, <2>3 DEF Layout
    <3>2. answer' = {line - 1 : line \in blocks[1].start_line}
      <4>1. answer' = {line + (0 - 1) : line \in blocks[1].start_line}
        BY <2>1, <2>3, <3>1
      <4>2. \A line \in blocks[1].start_line : line + (0 - 1) = line - 1
        BY <1>b, <2>1, <3>1
      <4> QED
        BY <4>1, <4>2
    <3>3. answer' \subseteq Nat
      <4>1. \A line \in blocks[1].start_line : line - 1 \in Nat
        BY <1>b, <2>1, <3>1
      <4> QED
        BY <3>2, <4>1
    <3>4. TypeOK'
      BY <1>1, <2>1, <3>3 DEF TypeOK, text_vars
    <3>5. blocks' = blocks /\ pc' = "answered" /\ res_line' = 0
      BY <1>1, <2>1, <2>3 DEF text_vars
    <3>6. Loop' /\ TranslatesToOriginOfBreak'
      BY <3>5 DEF Loop, TranslatesToOriginOfBreak
    <3>7. RowZeroBeforeFirstBlock'
      BY <3>2, <3>5 DEF RowZeroBeforeFirstBlock
    <3> QED
      BY <1>2, <3>4, <3>6, <3>7
  <2> QED
    BY <1>0, <2>2, <2>3
<1>5. CASE NextBlock
  <2>1. /\ block_idx \in DOMAIN blocks
        /\ ~(res_line < curr_block_start + blocks[block_idx].line_count)
        /\ curr_block_start' = curr_block_start + blocks[block_idx].line_count
        /\ block_idx' = block_idx + 1
        /\ UNCHANGED <<pc, res_line, answer>>
    BY <1>0, <1>5 DEF NextBlock, EndsAfter
  <2>2. curr_block_start' = Starts[block_idx + 1]
    BY <1>1, <2>1 DEF Layout
  <2>3. curr_block_start' \in 1..(Len(res_source) + 1)
    <3>1. block_idx + 1 \in 1..Len(Starts)
      BY <1>0, <1>s, <2>1
    <3> QED
      BY <2>2, <3>1, <1>s
  <2>4. res_line >= curr_block_start'
    BY <1>0, <1>3, <2>1
  <2>5. curr_block_start' = Starts'[block_idx']
    BY <1>1, <2>1, <2>2 DEF Starts, text_vars
  <2>6. TypeOK'
    <3>1. block_idx' \in 1..(Len(blocks) + 1)
      BY <1>0, <2>1
    <3> QED
      BY <1>1, <2>1, <2>3, <3>1 DEF TypeOK, text_vars
  <2>7. Loop'
    <3>1. res_line # 0
      BY <1>0, <2>3, <2>4
    <3> QED
      BY <1>0, <1>1, <2>1, <2>4, <2>5, <3>1 DEF Loop
  <2>8. pc' = "loop"
    BY <1>1, <2>1
  <2> QED
    BY <1>2, <2>6, <2>7, <2>8 DEF TranslatesToOriginOfBreak, RowZeroBeforeFirstBlock
<1>6. CASE NoBlock
  <2>1. /\ block_idx = Len(blocks) + 1
        /\ answer' = {} /\ pc' = "answered"
        /\ UNCHANGED <<res_line, block_idx, curr_block_start>>
    BY <1>0, <1>6 DEF NoBlock
  <2>2. curr_block_start = Len(res_source) + 1
    BY <1>1, <1>s, <2>1
  <2>3. res_line >= 1 => res_line \notin DOMAIN res_source
    BY <1>0, <1>1, <2>2
  <2>4. res_line = 0 => blocks = <<>>
    BY <1>0, <1>1, <2>1 DEF TypeOK
  <2> QED
    BY <1>1, <1>2, <2>1, <2>3, <2>4
    DEF TypeOK, Loop, TranslatesToOriginOfBreak, RowZeroBeforeFirstBlock, text_vars
<1> QED
  BY <1>4, <1>5, <1>6

LEMMA InvInvariant == Spec => []Inv
<1>1. Init => Inv
  BY DEF Init, Inv, TypeOK, Layout, Starts, Loop, TranslatesToOriginOfBreak,
         RowZeroBeforeFirstBlock
<1>2. Inv /\ [Next]_vars => Inv'
  <2> SUFFICES ASSUME Inv, [Next]_vars PROVE Inv'
    OBVIOUS
  <2>1. CASE AddSourceBlock
    <3>1. PICK start_line \in StartLines, line_count \in 0..MaxLines :
              AddBlock({start_line}, line_count)
      BY <2>1 DEF AddSourceBlock
    <3> QED
      BY <3>1, AddBlockInv
  <2>2. CASE AddNonSourceBlock
    BY <2>2, AddBlockInv DEF AddNonSourceBlock
  <2>3. CASE CallGetSourceLine
    <3> USE <2>3 DEF CallGetSourceLine, Inv, text_vars
    <3>1. TypeOK'
      BY DEF TypeOK
    <3>2. Layout' /\ Starts' = Starts
      BY DEF Layout, Starts
    <3>3. curr_block_start' = Starts'[block_idx'] /\ curr_block_start' = 1
      BY <3>2 DEF Layout
    <3>4. Loop'
      BY <3>1, <3>3 DEF Loop, TypeOK
    <3> QED
      BY <3>1, <3>2, <3>4 DEF TranslatesToOriginOfBreak, RowZeroBeforeFirstBlock
  <2>4. CASE FoundBlock \/ NextBlock \/ NoBlock
    BY <2>4, LoopInv
  <2>5. CASE ReturnLine
    BY <2>5 DEF ReturnLine, Inv, TypeOK, Layout, Starts, Loop, text_vars,
                TranslatesToOriginOfBreak, RowZeroBeforeFirstBlock
  <2>6. CASE UNCHANGED vars
    BY <2>6 DEF vars, text_vars, query_vars, Inv, TypeOK, Layout, Starts, Loop,
                TranslatesToOriginOfBreak, RowZeroBeforeFirstBlock
  <2> QED
    BY <2>1, <2>2, <2>3, <2>4, <2>5, <2>6 DEF Next
<1> QED
  BY <1>1, <1>2, PTL DEF Spec

\* A line that is reported is one of the piece the loop has stopped at, counted
\* from the line of the assembled text this piece begins on.
Found ==
    pc = "answered" /\ res_line >= 1 /\ answer # {} =>
        /\ block_idx \in DOMAIN blocks
        /\ res_line - Starts[block_idx] \in 0..(blocks[block_idx].line_count - 1)

LEMMA FoundInvariant == Spec => []Found
<1>1. Init => Found
  BY DEF Init, Found
<1>2. Inv /\ Found /\ [Next]_vars => Found'
  <2> SUFFICES ASSUME Inv, Found, [Next]_vars PROVE Found'
    OBVIOUS
  <2>1. CASE FoundBlock
    <3> SUFFICES ASSUME res_line >= 1
                 PROVE  /\ block_idx \in DOMAIN blocks
                        /\ res_line - Starts[block_idx] \in 0..(blocks[block_idx].line_count - 1)
      BY <2>1 DEF FoundBlock, Found, Starts, text_vars
    <3>1. /\ block_idx \in DOMAIN blocks
          /\ res_line < curr_block_start + blocks[block_idx].line_count
          /\ curr_block_start = Starts[block_idx] /\ res_line >= curr_block_start
      BY <2>1 DEF FoundBlock, EndsAfter, Inv, Loop, TypeOK
    <3>2. res_line \in Nat /\ curr_block_start \in Nat
      BY DEF Inv, TypeOK
    <3>3. blocks[block_idx].line_count \in Nat
      <4>1. blocks \in Seq([start_line : SUBSET (Nat \ {0}), line_count : 0..MaxLines])
        BY DEF Inv, TypeOK
      <4>2. block_idx \in 1..Len(blocks)
        BY <3>1, <4>1
      <4>3. blocks[block_idx] \in [start_line : SUBSET (Nat \ {0}), line_count : 0..MaxLines]
        BY <4>1, <4>2, ElementOfSeq
      <4> QED
        BY <4>3
    <3> QED
      BY <3>1, <3>2, <3>3
  <2>2. CASE NoBlock
    BY <2>2 DEF NoBlock, Found
  <2>3. CASE UNCHANGED vars
    BY <2>3 DEF vars, text_vars, query_vars, Found, Starts
  <2>4. CASE AddSourceBlock \/ AddNonSourceBlock \/ CallGetSourceLine \/ NextBlock \/ ReturnLine
    BY <2>4 DEF AddSourceBlock, AddNonSourceBlock, AddBlock, CallGetSourceLine, NextBlock,
                ReturnLine, query_vars, Found
  <2> QED
    BY <2>1, <2>2, <2>3, <2>4 DEF Next
<1> QED
  BY <1>1, <1>2, InvInvariant, PTL DEF Spec

\* The counters of GetSourceLine stay inside the assembled text.
THEOREM TypeCorrect == Spec => []TypeOK
<1>1. Inv => TypeOK
  BY DEF Inv
<1> QED
  BY <1>1, InvInvariant, PTL

\* GetSourceLine translates every line number to the line of the user's text
\* whose line break ends it, for texts of any length in any number of pieces.
THEOREM LinesTranslated == Spec => []TranslatesToOriginOfBreak
<1>1. Inv => TranslatesToOriginOfBreak
  BY DEF Inv
<1> QED
  BY <1>1, InvInvariant, PTL

\* Row 0 never lands inside the first piece.
THEOREM RowZeroTranslated == Spec => []RowZeroBeforeFirstBlock
<1>1. Inv => RowZeroBeforeFirstBlock
  BY DEF Inv
<1> QED
  BY <1>1, InvInvariant, PTL
=============================================================================
