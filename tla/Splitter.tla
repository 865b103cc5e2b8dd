-------------------------------- MODULE Splitter --------------------------------
(***************************************************************************)
(* internal/sqlguard/splitter.go: where a text is cut into statements.     *)
(*                                                                         *)
(* Both analyzers hand every piece to their vendor parser by itself, so    *)
(* the pieces decide how many statements there are and what each parser    *)
(* gets to see.                                                            *)
(*                                                                         *)
(* The loop scans the text once, one action per case of its switch; what   *)
(* the second loop keeps of the groups is the operator statements.         *)
(***************************************************************************)
EXTENDS Lexemes, Selection

CONSTANT Texts      \* the texts that may be split

ASSUME SplitterAssumption == Texts \subseteq Seq(Characters)

VARIABLES
    text,       \* the text
    i,          \* the scanner's position in it
    state,      \* "normal", the quote or comment it is in, or "done"
    start,      \* where the current group begins
    groups      \* the groups cut off so far, as slices of the text

vars == <<text, i, state, start, groups>>

\* Two dashes, before white space or at the end of what is scanned.
startsLineComment(t, k) ==
    At(t, k + 1, "dash") /\ (k + 2 \in DOMAIN t => t[k + 2] \in Blanks)

-----------------------------------------------------------------------------
Init ==
    /\ text \in Texts
    /\ i = 1
    /\ state = "normal"
    /\ start = 1
    /\ groups = <<>>

\* Go on with the character after the next n.
Take(n, s) == i' = i + n /\ state' = s

Uncut == UNCHANGED <<text, start, groups>>

OpenQuote ==
    /\ state = "normal" /\ i \in DOMAIN text /\ text[i] \in Quotes
    /\ Take(1, text[i]) /\ Uncut

OpensLineComment(t, k) == t[k] = "hash" \/ (t[k] = "dash" /\ startsLineComment(t, k))

OpenLineComment ==
    /\ state = "normal" /\ i \in DOMAIN text /\ OpensLineComment(text, i)
    /\ Take(1, "line") /\ Uncut

OpensBlockComment(t, k) == t[k] = "slash" /\ At(t, k + 1, "star")

\* The star is not passed over: it may be the first half of the closing mark.
OpenBlockComment ==
    /\ state = "normal" /\ i \in DOMAIN text /\ OpensBlockComment(text, i)
    /\ Take(1, "block") /\ Uncut

\* Mutant: the separator stays at the beginning of the next group.
CutBeforeSemicolon ==
    /\ state = "normal" /\ At(text, i, "semicolon")
    /\ groups' = Append(groups, [from |-> start, to |-> i - 1])
    /\ start' = i
    /\ Take(1, "normal")
    /\ UNCHANGED text

Cut ==
    /\ state = "normal" /\ At(text, i, "semicolon")
    /\ groups' = Append(groups, [from |-> start, to |-> i - 1])
    /\ start' = i + 1
    /\ Take(1, "normal")
    /\ UNCHANGED text

Code ==
    /\ state = "normal" /\ i \in DOMAIN text
    /\ text[i] \notin Quotes \cup {"semicolon"}
    /\ ~OpensLineComment(text, i) /\ ~OpensBlockComment(text, i)
    /\ Take(1, "normal") /\ Uncut

\* Mutant: without the look at what is left of the text.
EscapePastEnd ==
    /\ state \in Quotes /\ At(text, i, "backslash")
    /\ Take(2, state) /\ Uncut

\* In a quoted string a backslash passes over the character that follows it,
\* whatever the quote; a doubled quote does not close it.
Escape ==
    /\ state \in Quotes /\ At(text, i, "backslash") /\ i + 1 \in DOMAIN text
    /\ Take(2, state) /\ Uncut

DoubledQuote ==
    /\ state \in Quotes /\ At(text, i, state) /\ At(text, i + 1, state)
    /\ Take(2, state) /\ Uncut

CloseQuote ==
    /\ state \in Quotes /\ At(text, i, state) /\ ~At(text, i + 1, state)
    /\ Take(1, "normal") /\ Uncut

Quoted ==
    /\ state \in Quotes /\ i \in DOMAIN text /\ text[i] # state
    /\ text[i] = "backslash" => i + 1 \notin DOMAIN text
    /\ Take(1, state) /\ Uncut

\* Mutant: the newline does not end the comment.
CommentSwallowsLines ==
    /\ state = "line" /\ i \in DOMAIN text
    /\ Take(1, "line") /\ Uncut

InLineComment ==
    /\ state = "line" /\ i \in DOMAIN text
    /\ Take(1, IF text[i] = "newline" THEN "normal" ELSE "line") /\ Uncut

\* Mutant: the slash that closes a comment is read again.
RereadClosingSlash ==
    /\ state = "block" /\ i \in DOMAIN text
    /\ Take(1, IF At(text, i, "star") /\ At(text, i + 1, "slash") THEN "normal" ELSE "block")
    /\ Uncut

InBlockComment ==
    /\ state = "block" /\ i \in DOMAIN text
    /\ IF At(text, i, "star") /\ At(text, i + 1, "slash") THEN Take(2, "normal") ELSE Take(1, "block")
    /\ Uncut

\* The rest of the text is the last group, also when a quote or comment is open.
Finish ==
    /\ state # "done" /\ i > Len(text)
    /\ groups' = Append(groups, [from |-> start, to |-> Len(text)])
    /\ state' = "done"
    /\ UNCHANGED <<text, i, start>>

Scan ==
    \/ OpenQuote \/ OpenLineComment \/ OpenBlockComment \/ Cut \/ Code
    \/ Escape \/ DoubledQuote \/ CloseQuote \/ Quoted
    \/ InLineComment \/ InBlockComment

Next == Scan \/ Finish

Spec == Init /\ [][Next]_vars

-----------------------------------------------------------------------------
(* The second loop: groups become statements.                              *)

Slice(t, g) == SubSeq(t, g.from, g.to)

trimSpace(t) ==
    LET ink == {k \in DOMAIN t : t[k] \notin Blanks \cup {"vtab"}}
    IN IF ink = {} THEN <<>> ELSE SubSeq(t, Min(ink), Max(ink))

\* Mutant: comment signs count as code.
AnyInkIsCode(t) == \E k \in DOMAIN t : t[k] \notin Blanks

\* The scan that looks for code: what it does with t[k] in state s.
IsCode(t, s, k) ==
    /\ s = "normal" /\ t[k] \notin Blanks
    /\ ~OpensLineComment(t, k) /\ ~OpensBlockComment(t, k)

AfterCharacter(t, s, k) ==
    CASE s = "line" -> <<IF t[k] = "newline" THEN "normal" ELSE "line", k + 1>>
      [] s = "block" -> IF At(t, k, "star") /\ At(t, k + 1, "slash")
                        THEN <<"normal", k + 2>> ELSE <<"block", k + 1>>
      [] s = "normal" /\ OpensLineComment(t, k) -> <<"line", k + 1>>
      [] s = "normal" /\ OpensBlockComment(t, k) -> <<"block", k + 1>>
      [] OTHER -> <<"normal", k + 1>>

hasCodeFrom(t, s, k) ==
    LET code[at \in {"normal", "line", "block"} \X Nat] ==
            IF at[2] > Len(t) THEN FALSE
            ELSE IF IsCode(t, at[1], at[2]) THEN TRUE
            ELSE code[AfterCharacter(t, at[1], at[2])]
    IN code[<<s, k>>]

\* Anything but white space and comments.  The group is scanned by itself: two
\* dashes at its end are a comment although a semicolon followed them.
statementGroupHasCode(t) == hasCodeFrom(t, "normal", 1)

\* White space after the last separator is no group.
BlankTail(gs, k) == k = Len(gs) /\ k > 1 /\ trimSpace(Slice(text, gs[k])) = <<>>

\* errInvalidStatementGroups
Refused(gs) ==
    \E k \in DOMAIN gs : ~statementGroupHasCode(Slice(text, gs[k])) /\ ~BlankTail(gs, k)

\* What splitSQLStatementGroups returns.
statements(gs) ==
    LET kept == Selected(gs, {k \in DOMAIN gs : statementGroupHasCode(Slice(text, gs[k]))})
    IN [k \in DOMAIN kept |-> trimSpace(Slice(text, kept[k]))]

-----------------------------------------------------------------------------
(* Properties.                                                             *)

\* What the fields of the model hold; the scanner is at most one past the end.
TypeOK ==
    /\ text \in Seq(Characters)
    /\ i \in 1 .. (Len(text) + 1)
    /\ state \in Quotes \cup {"normal", "line", "block", "done"}
    /\ start \in 1 .. (Len(text) + 1)
    /\ groups \in Seq([from : Nat, to : Nat])

\* Nothing of the text is lost, shown twice or out of order: the groups and the
\* semicolons between them are the text from its beginning to the current group.
GroupsTileText ==
    LET end == IF state = "done" THEN Len(text) + 2 ELSE start IN
    /\ groups = <<>> => end = 1
    /\ \A k \in DOMAIN groups :
          /\ groups[k].from = (IF k = 1 THEN 1 ELSE groups[k - 1].to + 2)
          /\ groups[k].to + 2 = (IF k = Len(groups) THEN end ELSE groups[k + 1].from)
          /\ groups[k].from <= groups[k].to + 1
          /\ k < Len(groups) \/ state # "done" => text[groups[k].to + 1] = "semicolon"

Done == state = "done"

\* By the splitter's lexical rules the text is cut at every semicolon that is code and
\* at no other: not in a string, not in a comment, wherever an escape, a doubled quote or
\* half a mark falls.  Except that the code takes a slash-star-slash for a whole comment.
CutsAtSeparators ==
    Done /\ ~HasSlashStarSlash(text) =>
        {groups[k].to + 1 : k \in 1 .. (Len(groups) - 1)} = Separators(text)

\* By the same rules a piece read by itself is one statement: what it consists of does
\* not depend on the text it was cut from, or on the white space it was trimmed of.
PiecesStandAlone ==
    Done /\ ~HasSlashStarSlash(text) /\ ~Refused(groups) =>
        \A k \in DOMAIN statements(groups) : Separators(statements(groups)[k]) = {}

\* The second scan, which knows no quotes, agrees with the first on what is code: a text
\* is refused exactly when one of its groups, other than white space at its end, is
\* nothing but white space and what the splitter takes for comments.
RefusesCommentsOnly ==
    Done /\ ~HasSlashStarSlash(text) =>
        (Refused(groups) <=> \E k \in DOMAIN groups :
            CodeStarts(Slice(text, groups[k])) = {} /\ ~BlankTail(groups, k))
=============================================================================
