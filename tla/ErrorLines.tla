----------------------------- MODULE ErrorLines -----------------------------
(***************************************************************************)
(* The way of an error message back to the user's text: LegitScript::Impl    *)
(* (LegitScript/source/LegitScript.cpp) parses the text, hands the bodies of *)
(* a render graph block and of the blocks it includes to the source          *)
(* assembler, compiles the result, and translates the line of every message  *)
(* of the script engine back.                                                *)
(*                                                                         *)
(* The module composes ScriptParser and SourceAssembler: the parser's steps  *)
(* leave the assembler alone, the assembler's steps are those of             *)
(* SourceAssembler with what the parser found as their arguments.            *)
(***************************************************************************)
EXTENDS ScriptParser

CONSTANTS
    MaxLines,      \* bound on the lines of a text
    MaxIncluded,   \* bound: bodies included into one render graph
    MaxRow         \* bound: rows the engine reports

ASSUME ErrorLinesAssumption ==
    /\ MaxIncluded \in Nat /\ MaxRow \in Nat /\ MaxLines \in Nat \ {0}
    /\ \A script \in Scripts :
        Cardinality({q \in DOMAIN script : script[q] = "break"}) < MaxLines

VARIABLES
    pieces,     \* what remains to be assembled is pieces after Len(blocks):
                \* {index of a body}, or {} for a line that is not the user's
    blocks, res_source, first, pc, res_line, block_idx, curr_block_start, answer

Assembler == INSTANCE SourceAssembler WITH
    MaxBlocks <- MaxIncluded + 3,
    MaxLines <- MaxLines,
    StartLines <- 1..MaxLines,
    MaxResLine <- MaxRow

assembler_vars == <<blocks, res_source, first, pc, res_line, block_idx, curr_block_start, answer>>
vars == <<parser_vars, pieces, assembler_vars>>

-----------------------------------------------------------------------------
Init ==
    /\ ParserInit
    /\ pieces = <<>>
    /\ Assembler!Init

Parse ==
    /\ ParserNext
    /\ UNCHANGED <<pieces, assembler_vars>>

\* The bodies of the blocks included, then the line "void main(){", the body of the
\* render graph and "}".
PiecesOf(included, rendergraph) ==
    [k \in DOMAIN included |-> {included[k]}] \o <<{}, {rendergraph}, {}>>

\* Flattening lists a block once for every path to it and every repeated include:
\* any list of other blocks, the same one at several places too.
Orders(indices) == UNION {[1..n -> indices] : n \in 0..MaxIncluded}

ResetAssembler ==
    /\ state = "parsed"
    /\ pieces = <<>>
    /\ \E rendergraph \in DOMAIN bodies :
        \E included \in Orders(DOMAIN bodies \ {rendergraph}) :
            pieces' = PiecesOf(included, rendergraph)
    /\ UNCHANGED <<parser_vars, assembler_vars>>

\* GetLinesCount of a body's text.
LinesCount(i) == Cardinality({p \in bodies[i].from..bodies[i].to : text[p] = "break"})

Piece == pieces[Len(blocks) + 1]

AddBody ==
    /\ Len(blocks) < Len(pieces)
    /\ Piece # {}
    /\ \E i \in Piece : Assembler!AddBlock({bodies[i].start}, LinesCount(i))
    /\ UNCHANGED <<parser_vars, pieces>>

AddFrameOfMain ==
    /\ Len(blocks) < Len(pieces)
    /\ Piece = {}
    /\ Assembler!AddBlock({}, 1)
    /\ UNCHANGED <<parser_vars, pieces>>

\* A message of the build or an exception of a run, with the row the engine
\* gives it.
TranslateError ==
    /\ pieces # <<>>
    /\ Len(blocks) = Len(pieces)
    /\ \/ Assembler!CallGetSourceLine
       \/ Assembler!FoundBlock \/ Assembler!NextBlock \/ Assembler!NoBlock
       \/ Assembler!ReturnLine
    /\ UNCHANGED <<parser_vars, pieces>>

\* A text that was rejected, or that holds no block, has no errors to translate.
NothingToTranslate ==
    /\ state = "failed" \/ (state = "parsed" /\ bodies = <<>>)
    /\ UNCHANGED vars

Next ==
    \/ Parse
    \/ ResetAssembler \/ AddBody \/ AddFrameOfMain
    \/ TranslateError
    \/ NothingToTranslate

Spec == Init /\ [][Next]_vars

-----------------------------------------------------------------------------
(* Properties *)

\* Type invariant of the composition.
TypeOK ==
    /\ ParserTypeOK
    /\ \A k \in DOMAIN pieces : pieces[k] \subseteq DOMAIN bodies
    /\ Assembler!TypeOK

\* A place of the i-th body, which is the k-th piece, is on this row of the
\* assembled text: first[k] is the row the piece begins on.
RowOf(k, i, p) ==
    first[k] + Cardinality({q \in bodies[i].from..(p - 1) : text[q] = "break"})

\* An error in a line that its own body ends is reported on the line of the
\* user's text it is on, whatever is included before it, how often its own block is
\* included, and however many blank lines and comments stand before the body.
\* (What follows the last line feed of a body is on one row with the next piece and
\* carries that piece's line.)
ErrorsOnTheirLines ==
    pc = "answered" =>
        \A k \in DOMAIN pieces : \A i \in pieces[k] : \A p \in bodies[i].from..bodies[i].to :
            RowOf(k, i, p) = res_line /\ (\E q \in p..bodies[i].to : text[q] = "break") =>
                answer = {LineOf(p)}

\* An error is never reported on a line that has nothing on the engine's row.
ReportedLinesHaveTheRow ==
    pc = "answered" /\ res_line >= 1 =>
        \A line \in answer :
            \E k \in DOMAIN pieces : \E i \in pieces[k] : \E p \in bodies[i].from..bodies[i].to :
                LineOf(p) = line /\ RowOf(k, i, p) = res_line
=============================================================================
