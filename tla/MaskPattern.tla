----------------------------- MODULE MaskPattern -----------------------------
(***************************************************************************)
(* The masks of qingqi-ui (components/input/mask_pattern.rs): how a text   *)
(* is formatted after every edit of a masked field, and which texts the    *)
(* field accepts.  A token of a pattern is a separator, which stands for   *)
(* itself, or a slot that takes a class of characters.  Number fields are  *)
(* made without a separator of thousands and without a limit of digits     *)
(* (number_input.rs:134-136).                                              *)
(***************************************************************************)
EXTENDS Naturals, Sequences, SequencesExt

CONSTANTS Tokens,     \* MaskPattern::Pattern.tokens
          Separator,  \* those of them that are MaskToken::Sep
          Takes,      \* slot -> the characters MaskToken::is_match accepts
          Digits, Signs, Dot    \* what MaskPattern::Number keeps

\* mask: a slot takes the next character that is no separator, or drops it
\* when it does not match; a separator appears once something follows it.
Mask(text) ==
    LET skip(at) == SelectInSubSeq(text, at, Len(text), LAMBDA c : c \notin Separator)
        stop(m) == [m EXCEPT !.stop = TRUE]
        sep(m, t) == IF m.at \in {1, Len(text) + 1} THEN stop(m)
                     ELSE [m EXCEPT !.out = Append(@, t), !.at = IF text[@] = t THEN @ + 1 ELSE @]
        slot(m, t) == LET i == skip(m.at) IN
                      IF i = 0 THEN stop(m)
                      ELSE [m EXCEPT !.out = IF text[i] \in Takes[t] THEN Append(@, text[i]) ELSE @,
                                     !.at = i + 1]
        step(m, t) == IF m.stop THEN m ELSE IF t \in Separator THEN sep(m, t) ELSE slot(m, t)
        after[k \in 0..Len(Tokens)] ==
            IF k = 0 THEN [out |-> <<>>, at |-> 1, stop |-> FALSE] ELSE step(after[k - 1], Tokens[k])
    IN  after[Len(Tokens)].out

\* is_valid: every character stands under a token that takes it.
IsValid(text) ==
    /\ Len(text) <= Len(Tokens)
    /\ \A i \in DOMAIN text :
          text[i] \in IF Tokens[i] \in Separator THEN {Tokens[i]} ELSE Takes[Tokens[i]]

\* mask of a number: a sign where nothing else was kept before, digits and a dot,
\* up to the second dot.  is_valid takes all of these.
NumberMask(text) ==
    LET keeps(out, c) == c \in Digits \union {Dot} \/ (c \in Signs /\ out = <<>>)
        step(m, c) == IF c = Dot /\ Dot \in ToSet(m.out) THEN [m EXCEPT !.stop = TRUE]
                      ELSE IF ~m.stop /\ keeps(m.out, c) THEN [m EXCEPT !.out = Append(@, c)]
                      ELSE m
        after[k \in 0..Len(text)] ==
            IF k = 0 THEN [out |-> <<>>, stop |-> FALSE] ELSE step(after[k - 1], text[k])
    IN  after[Len(text)].out
==============================================================================
