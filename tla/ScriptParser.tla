---------------------------- MODULE ScriptParser ----------------------------
(***************************************************************************)
(* ScriptParser::Impl (LegitScript/source/ScriptParser.cpp): a text is cut   *)
(* into blocks.  The grammar is executed by cpp-peglib from left to right;   *)
(* one action is one symbol, comment or body symbol consumed.                *)
(*                                                                         *)
(* A text is a sequence of symbols: "break" is a line feed, "return" a       *)
(* carriage return, which ends a comment and counts no line, "blank" other   *)
(* white space, "section" a preamble section and "decl" a declaration, both  *)
(* taken whole, "open" and "close" the double braces, "line", "from" and     *)
(* "to" the comment marks //, /* and */, and "code" anything else.  White    *)
(* space and comments are skipped after every literal of the grammar, the    *)
(* opening braces included, but not inside a body: a body begins with its    *)
(* first symbol that is neither and is raw text up to the closing braces.    *)
(***************************************************************************)
EXTENDS Integers, Sequences, FiniteSets

CONSTANT Scripts     \* the texts that may be parsed

Symbols ==
    {"break", "return", "blank", "section", "decl", "open", "close", "line", "from", "to", "code"}

EndOfLine == {"break", "return"}

ASSUME ScriptParserAssumption == Scripts \subseteq Seq(Symbols)

VARIABLES
    text,     \* the text being parsed
    pos,      \* the symbol to consume
    state,    \* "block", "preamble", "decl", "open", "body", "parsed", "failed"
    body,     \* where the body being read begins
    bodies    \* [from, to, start] of every block parsed: BlockBody and its place

parser_vars == <<text, pos, state, body, bodies>>

-----------------------------------------------------------------------------
ParserInit ==
    /\ text \in Scripts
    /\ pos = 1
    /\ state = "block"
    /\ body = 0
    /\ bodies = <<>>

\* SemanticValues::line_info: the line a place of the text is on.
LineOf(p) == 1 + Cardinality({q \in 1..(p - 1) : text[q] = "break"})

Symbol == IF pos <= Len(text) THEN text[pos] ELSE "end"

\* %whitespace is tried after a literal; a body is not a place for it.
Skipping == state \in {"block", "preamble", "decl", "open"}

NextOf(marks) == {q \in (pos + 1)..Len(text) : text[q] \in marks}

IsFirst(q, places) == q \in places /\ \A r \in places : q <= r

\* A // with an end of line after it, or a /* with a */ after it, is a comment;
\* without it the mark stays in the text, also at the end of the last line.
StartsComment ==
    \/ Symbol = "line" /\ NextOf(EndOfLine) # {}
    \/ Symbol = "from" /\ NextOf({"to"}) # {}

IsSpace == Symbol \in EndOfLine \cup {"blank"}

StartsSpace == IsSpace \/ StartsComment

SkipSpace ==
    /\ Skipping
    /\ IsSpace
    /\ pos' = pos + 1
    /\ UNCHANGED <<text, state, body, bodies>>

\* The end of line that ends the comment is looked at and not consumed.
SkipLineComment ==
    /\ Skipping
    /\ Symbol = "line"
    /\ \E q \in NextOf(EndOfLine) : IsFirst(q, NextOf(EndOfLine)) /\ pos' = q
    /\ UNCHANGED <<text, state, body, bodies>>

\* Variant: a greedy comment, which goes on to the last mark.
SkipBlockCommentGreedy ==
    /\ Skipping
    /\ Symbol = "from"
    /\ \E q \in NextOf({"to"}) : (\A r \in NextOf({"to"}) : r <= q) /\ pos' = q + 1
    /\ UNCHANGED <<text, state, body, bodies>>

SkipBlockComment ==
    /\ Skipping
    /\ Symbol = "from"
    /\ \E q \in NextOf({"to"}) : IsFirst(q, NextOf({"to"})) /\ pos' = q + 1
    /\ UNCHANGED <<text, state, body, bodies>>

ParseSection ==
    /\ state \in {"block", "preamble"}
    /\ Symbol = "section"
    /\ state' = "preamble"
    /\ pos' = pos + 1
    /\ UNCHANGED <<text, body, bodies>>

ParseDecl ==
    /\ state \in {"block", "preamble"}
    /\ Symbol = "decl"
    /\ state' = "decl"
    /\ pos' = pos + 1
    /\ UNCHANGED <<text, body, bodies>>

OpenBody ==
    /\ state \in {"block", "preamble", "decl"}
    /\ Symbol = "open"
    /\ state' = "open"
    /\ pos' = pos + 1
    /\ UNCHANGED <<text, body, bodies>>

StartBody ==
    /\ state = "open"
    /\ ~StartsSpace
    /\ state' = "body"
    /\ body' = pos
    /\ UNCHANGED <<text, pos, bodies>>

BodySymbol ==
    /\ state = "body"
    /\ Symbol \notin {"close", "end"}
    /\ pos' = pos + 1
    /\ UNCHANGED <<text, state, body, bodies>>

\* Variant: the line of the closing braces is taken for the line of the body.
CloseBodyLineOfEnd ==
    /\ state = "body"
    /\ Symbol = "close"
    /\ bodies' = Append(bodies, [from |-> body, to |-> pos - 1, start |-> LineOf(pos)])
    /\ state' = "block"
    /\ pos' = pos + 1
    /\ UNCHANGED <<text, body>>

CloseBody ==
    /\ state = "body"
    /\ Symbol = "close"
    /\ bodies' = Append(bodies, [from |-> body, to |-> pos - 1, start |-> LineOf(body)])
    /\ state' = "block"
    /\ pos' = pos + 1
    /\ UNCHANGED <<text, body>>

EndOfText ==
    /\ state = "block"
    /\ Symbol = "end"
    /\ state' = "parsed"
    /\ UNCHANGED <<text, pos, body, bodies>>

\* The logger of the parser throws; nothing of the text is kept.
SyntaxError ==
    /\ \/ state = "block" /\ ~StartsSpace /\ Symbol \notin {"section", "decl", "open", "end"}
       \/ state = "preamble" /\ ~StartsSpace /\ Symbol \notin {"section", "decl", "open"}
       \/ state = "decl" /\ ~StartsSpace /\ Symbol # "open"
       \/ state = "body" /\ Symbol = "end"
    /\ state' = "failed"
    /\ bodies' = <<>>
    /\ UNCHANGED <<text, pos, body>>

ParserNext ==
    \/ SkipSpace \/ SkipLineComment \/ SkipBlockComment
    \/ ParseSection \/ ParseDecl
    \/ OpenBody \/ StartBody \/ BodySymbol \/ CloseBody
    \/ EndOfText \/ SyntaxError

-----------------------------------------------------------------------------
(* Properties *)

\* Type invariant: places and lines count from 1.
ParserTypeOK ==
    /\ text \in Seq(Symbols)
    /\ pos \in 1..(Len(text) + 1)
    /\ state \in {"block", "preamble", "decl", "open", "body", "parsed", "failed"}
    /\ body \in 0..(Len(text) + 1)
    /\ bodies \in Seq([from : 1..(Len(text) + 1), to : 0..Len(text), start : Nat \ {0}])

InBody(p) == \E i \in DOMAIN bodies : p \in bodies[i].from..bodies[i].to

\* A comment that begins outside the bodies covers p.
Commented(p) ==
    \E c \in 1..(p - 1) :
        /\ ~InBody(c)
        /\ \/ text[c] = "line" /\ \A q \in c..p : text[q] \notin EndOfLine
           \/ text[c] = "from" /\ \A q \in c..(p - 1) : text[q] # "to"

\* An accepted text is accepted whole: what is neither in a body nor in a
\* comment between bodies is white space, a mark of a comment or the frame of a
\* block, and a body is raw text without closing braces, in the order of the
\* text.
OnlyCommentsAreDropped ==
    state = "parsed" =>
        /\ \A p \in DOMAIN text : text[p] = "code" => InBody(p) \/ Commented(p)
        /\ \A i \in DOMAIN bodies :
            /\ \A p \in bodies[i].from..bodies[i].to : text[p] # "close"
            /\ text[bodies[i].to + 1] = "close"
        /\ \A i, j \in DOMAIN bodies : i < j => bodies[i].to + 1 < bodies[j].from
=============================================================================
