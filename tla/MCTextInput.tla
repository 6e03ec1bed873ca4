----------------------------- MODULE MCTextInput -----------------------------
(***************************************************************************)
(* TextInput on short documents of four fields: a code editor whose tab    *)
(* is one character, so that indentation is groupable; a line that may     *)
(* refuse any edit; a line masked "D-D"; and a number.  The editor types   *)
(* its tab, so that lines can be outdented; a pasted line brings a         *)
(* newline, a pasted masked text is longer than what its mask lets         *)
(* through, a number drops a second dot and a sign behind its digit "x".   *)
(***************************************************************************)
EXTENDS TextInput

MCTyped  == [editor |-> {"t"}, line |-> {"x"}, masked |-> {"x"}, number |-> {"x", "."}]
MCPasted == [editor |-> {<<>>}, line |-> {<<>>, <<"x", "n">>},
             masked |-> {<<>>, <<"x", "x">>}, number |-> {<<>>, <<"-", "x">>}]
MCTab    == <<"t">>
MCTokens == <<"D", "-", "D">>
MCTakes  == [D |-> {"x"}]
MCMaxLen  == [editor |-> 3, line |-> 2, masked |-> 3, number |-> 2]
MCMaxUndo == [editor |-> 2, line |-> 2, masked |-> 2, number |-> 2]
==============================================================================
