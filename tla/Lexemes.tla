--------------------------------- MODULE Lexemes ---------------------------------
(***************************************************************************)
(* Texts, and what they consist of by the lexical rules of the splitter:   *)
(* quoted strings, comments, and single characters of code.  The reference *)
(* that module Splitter is measured against; a lexeme is found whole, by   *)
(* where it ends, with no scanner state carried from one character to the  *)
(* next.                                                                   *)
(*                                                                         *)
(* The rules are one set for two engines, and neither engine's own.  MySQL *)
(* has no escapes in backticks and executes /*! */; ClickHouse begins a    *)
(* comment at any two dashes, and at a hash only before a space or a `!`.  *)
(* What holds of these lexemes holds of an engine's where they coincide.   *)
(*                                                                         *)
(* A text is a sequence of character classes.  "space" stands for space,   *)
(* tab and form feed, "newline" for \n and \r, "vtab" for what only        *)
(* strings.TrimSpace takes for white space, "letter" for all the rest.     *)
(***************************************************************************)
EXTENDS Naturals, Sequences, FiniteSetsExt

Quotes == {"quote", "doublequote", "backtick"}

Blanks == {"space", "newline"}

Characters == Quotes \cup Blanks \cup
    {"vtab", "backslash", "slash", "star", "dash", "hash", "semicolon", "letter"}

\* t[k] is c; false beyond the end.
At(t, k, c) == k \in DOMAIN t /\ t[k] = c

\* A hash begins a comment, two dashes do before white space and at the end of the text.
LineCommentAt(t, k) ==
    \/ At(t, k, "hash")
    \/ At(t, k, "dash") /\ At(t, k + 1, "dash") /\ (k + 2 \in DOMAIN t => t[k + 2] \in Blanks)

BlockCommentAt(t, k) == At(t, k, "slash") /\ At(t, k + 1, "star")

\* Where the string ends of which k is a character: at a quote that is neither
\* escaped nor doubled, or with the text.  A backslash escapes in every kind of quotes.
StringEnd(t, q, k) ==
    LET end[j \in Nat] ==
            IF j >= Len(t) THEN Len(t)
            ELSE IF t[j] = "backslash" \/ (t[j] = q /\ t[j + 1] = q) THEN end[j + 2]
            ELSE IF t[j] = q THEN j ELSE end[j + 1]
    IN end[k]

\* Where the lexeme that begins at k ends.
LexemeEnd(t, k) ==
    CASE t[k] \in Quotes -> StringEnd(t, t[k], k + 1)
      [] LineCommentAt(t, k) -> Min({j \in k .. Len(t) : t[j] = "newline"} \cup {Len(t)})
      [] BlockCommentAt(t, k) ->
            Min({j \in (k + 3) .. Len(t) : t[j - 1] = "star" /\ t[j] = "slash"} \cup {Len(t)})
      [] OTHER -> k

\* Where the lexemes of t begin, from the one that begins at k.
StartsFrom(t, k) ==
    LET from[j \in Nat] == IF j > Len(t) THEN {} ELSE {j} \cup from[LexemeEnd(t, j) + 1]
    IN from[k]

LexemeStarts(t) == StartsFrom(t, 1)

\* The semicolons that separate statements.
Separators(t) == {k \in LexemeStarts(t) : t[k] = "semicolon"}

\* The lexemes that are neither white space nor a comment.
CodeStarts(t) ==
    {k \in LexemeStarts(t) : t[k] \notin Blanks /\ ~LineCommentAt(t, k) /\ ~BlockCommentAt(t, k)}

\* A comment of t begins with a star that seems to belong to its end as well.
HasSlashStarSlash(t) == \E k \in LexemeStarts(t) : BlockCommentAt(t, k) /\ At(t, k + 2, "slash")
=============================================================================
