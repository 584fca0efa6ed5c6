---------------------------- MODULE MCErrorLines ----------------------------
EXTENDS ErrorLines

\* Layouts of one block: what stands before its declaration, between the opening
\* braces and the body, and the body itself.  Comments hold braces, bodies hold
\* comments and end with and without a line feed.
Leads == {<<>>, <<"break">>, <<"from", "open", "break", "to", "section">>}
Gaps ==
    {<<>>, <<"break">>, <<"line", "close", "break">>, <<"line", "close", "return">>,
     <<"from", "to", "blank">>}
Bodies == {<<>>, <<"code">>, <<"code", "break">>, <<"code", "break", "line", "code">>}

Blocks == {lead \o <<"decl", "open">> \o gap \o code \o <<"close">> :
    lead \in Leads, gap \in Gaps, code \in Bodies}

Malformed == {
    <<"code">>, <<"section">>, <<"decl", "code">>, <<"section", "code">>,
    <<"open", "code">>,
    <<"open", "line", "close">>,
    <<"open", "line", "close", "break">>,
    <<"open", "line", "close", "return">>,
    <<"open", "from", "close">>,
    <<"open", "code", "close", "close">>,
    <<"open", "code", "close", "line">> }

Endings == {<<>>, <<"break">>, <<"line", "code", "break">>, <<"line", "code", "return", "break">>}

\* Three blocks, two of which may be included in any order and twice.
Short == {<<"open", "code", "break", "close">>, <<"break", "decl", "open", "close">>}

MCScripts ==
    {one \o end : one \in Blocks, end \in Endings}
      \union {one \o two : one, two \in Blocks}
      \union {one \o two \o three : one, two, three \in Short}
      \union Malformed
=============================================================================
