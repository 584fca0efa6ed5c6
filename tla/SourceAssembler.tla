-------------------------- MODULE SourceAssembler --------------------------
(***************************************************************************)
(* SourceAssembler::Impl (LegitScript/source/SourceAssembler.cpp): the text *)
(* given to the script engine is put together from pieces of the user's     *)
(* text and pieces that are not, and lines of the result are translated     *)
(* back to lines of the user's text.                                        *)
(*                                                                         *)
(* A text matters only through its line breaks, so res_source is the        *)
(* sequence of its line breaks, each with its origin: {line} of the user's  *)
(* text, or {} in a piece that is not from it.  start_line and the answer   *)
(* are std::optional<size_t>: sets of at most one line.  The code subtracts *)
(* in size_t; lines of the user's text count from 1, so a difference that   *)
(* wraps around is undone by the addition and integers give the same.       *)
(***************************************************************************)
EXTENDS Integers, Sequences

CONSTANTS
    MaxBlocks,   \* bound: pieces assembled
    MaxLines,    \* bound: line breaks of one piece
    StartLines,  \* lines at which pieces of the user's text start
    MaxResLine   \* bound: line numbers the engine reports

ASSUME SourceAssemblerAssumption ==
    /\ MaxBlocks \in Nat /\ MaxLines \in Nat /\ MaxResLine \in Nat
    /\ StartLines \subseteq Nat \ {0}

VARIABLES
    blocks,       \* [start_line, line_count] of every piece
    res_source,
    first,        \* auxiliary: the line of the result each piece begins on
    pc,           \* "idle", "loop" inside GetSourceLine, "answered"
    res_line,     \* GetSourceLine's argument and local variables
    block_idx,
    curr_block_start,
    answer

text_vars == <<blocks, res_source, first>>
query_vars == <<pc, res_line, block_idx, curr_block_start, answer>>
vars == <<text_vars, query_vars>>

-----------------------------------------------------------------------------
Init ==
    /\ blocks = <<>>
    /\ res_source = <<>>
    /\ first = <<>>
    /\ pc = "idle"
    /\ res_line = 0
    /\ block_idx = 1
    /\ curr_block_start = 1
    /\ answer = {}

\* The origins of the line breaks of a piece.
Origins(start_line, line_count) ==
    [k \in 1..line_count |-> {line + k - 1 : line \in start_line}]

\* Variant: the line a piece ends on is counted as one more break.
AddBlockCountingLines(start_line, line_count) ==
    /\ pc = "idle"
    /\ Len(blocks) < MaxBlocks
    /\ res_source' = res_source \o Origins(start_line, line_count)
    /\ blocks' = Append(blocks, [start_line |-> start_line, line_count |-> line_count + 1])
    /\ first' = Append(first, Len(res_source) + 1)
    /\ UNCHANGED query_vars

AddBlock(start_line, line_count) ==
    /\ pc = "idle"
    /\ Len(blocks) < MaxBlocks
    /\ res_source' = res_source \o Origins(start_line, line_count)
    /\ blocks' = Append(blocks, [start_line |-> start_line, line_count |-> line_count])
    /\ first' = Append(first, Len(res_source) + 1)
    /\ UNCHANGED query_vars

AddSourceBlock ==
    \E start_line \in StartLines, line_count \in 0..MaxLines :
        AddBlock({start_line}, line_count)

AddNonSourceBlock == \E line_count \in 0..MaxLines : AddBlock({}, line_count)

\* Variant: lines of the result counted from 0.
CallGetSourceLineFromZero ==
    /\ pc = "idle"
    /\ res_line' \in 0..MaxResLine
    /\ curr_block_start' = 0
    /\ block_idx' = 1
    /\ answer' = {}
    /\ pc' = "loop"
    /\ UNCHANGED text_vars

CallGetSourceLine ==
    /\ pc = "idle"
    /\ res_line' \in 0..MaxResLine
    /\ curr_block_start' = 1
    /\ block_idx' = 1
    /\ answer' = {}
    /\ pc' = "loop"
    /\ UNCHANGED text_vars

\* Variant: the first line of the next piece belongs to this one.
EndsAtOrAfter(block) == res_line <= curr_block_start + block.line_count

EndsAfter(block) == res_line < curr_block_start + block.line_count

FoundBlock ==
    /\ pc = "loop"
    /\ block_idx <= Len(blocks)
    /\ EndsAfter(blocks[block_idx])
    /\ answer' = {line + (res_line - curr_block_start) : line \in blocks[block_idx].start_line}
    /\ pc' = "answered"
    /\ UNCHANGED <<text_vars, res_line, block_idx, curr_block_start>>

NextBlock ==
    /\ pc = "loop"
    /\ block_idx <= Len(blocks)
    /\ ~EndsAfter(blocks[block_idx])
    /\ curr_block_start' = curr_block_start + blocks[block_idx].line_count
    /\ block_idx' = block_idx + 1
    /\ UNCHANGED <<text_vars, pc, res_line, answer>>

NoBlock ==
    /\ pc = "loop"
    /\ block_idx > Len(blocks)
    /\ answer' = {}
    /\ pc' = "answered"
    /\ UNCHANGED <<text_vars, res_line, block_idx, curr_block_start>>

ReturnLine ==
    /\ pc = "answered"
    /\ pc' = "idle"
    /\ UNCHANGED <<text_vars, res_line, block_idx, curr_block_start, answer>>

Next ==
    \/ AddSourceBlock \/ AddNonSourceBlock
    \/ CallGetSourceLine \/ FoundBlock \/ NextBlock \/ NoBlock \/ ReturnLine

Spec == Init /\ [][Next]_vars

-----------------------------------------------------------------------------
(* Properties *)

\* Type invariant: an optional is empty or one line of the user's text, and the
\* loop's counters stay inside the assembled text.
TypeOK ==
    /\ blocks \in Seq([start_line : SUBSET (Nat \ {0}), line_count : 0..MaxLines])
    /\ \A i \in DOMAIN blocks : \A x, y \in blocks[i].start_line : x = y
    /\ res_source \in Seq(SUBSET Nat)
    /\ first \in Seq(1..(Len(res_source) + 1))
    /\ Len(first) = Len(blocks)
    /\ Len(blocks) <= MaxBlocks
    /\ pc \in {"idle", "loop", "answered"}
    /\ res_line \in 0..MaxResLine
    /\ block_idx \in 1..(Len(blocks) + 1)
    /\ curr_block_start \in 1..(Len(res_source) + 1)
    /\ answer \subseteq Nat

\* A line of the assembled text is reported as the line of the user's text that
\* its line break comes from, and as no line when it comes from none or when the
\* line is past the last break.  Pieces that end without a break share a line,
\* which is reported as a line of the piece that ends it.
TranslatesToOriginOfBreak ==
    pc = "answered" /\ res_line >= 1 =>
        answer = IF res_line \in DOMAIN res_source THEN res_source[res_line] ELSE {}

\* Engine messages without a position carry row 0.  They are reported as no line
\* or as the line before the first piece, never as a line of that piece.
RowZeroBeforeFirstBlock ==
    pc = "answered" /\ res_line = 0 /\ blocks # <<>> =>
        answer = {line - 1 : line \in blocks[1].start_line}
=============================================================================
