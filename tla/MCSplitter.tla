------------------------------- MODULE MCSplitter -------------------------------
(* Instances of Splitter: all short texts, and longer ones over the characters
   that strings, comments and line comments are made of. *)
EXTENDS Splitter

CONSTANT Short, Long        \* lengths

TextsOf(chars, n) == UNION {[1 .. k -> chars] : k \in 0 .. n}

MCTexts ==
    TextsOf(Characters, Short)
    \cup TextsOf({"slash", "star", "semicolon", "letter"}, Long)
    \cup TextsOf({"quote", "backtick", "backslash", "semicolon"}, Long)
    \cup TextsOf({"dash", "hash", "newline", "semicolon", "letter"}, Long - 1)
=============================================================================
