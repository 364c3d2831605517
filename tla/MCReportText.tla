---------------------------- MODULE MCReportText ----------------------------
(***************************************************************************)
(* The texts of the runs: every arrangement of backticks, newlines and     *)
(* words for the block, and every clear text over the whole alphabet, and  *)
(* longer ones over the lexemes of one or two rules, for the scrub.        *)
(***************************************************************************)
EXTENDS ReportText

TextsOf(alphabet, n) == UNION {[1..k -> alphabet] : k \in 0..n}

Alphabets == {{"user", "email", "sep", "quote", "sp", "comma"},
              {"pass", "user", "long", "sep", "quote"},
              {"pass", "email", "ip4", "sep", "sp"},
              {"auth", "bearer", "long", "sep", "sp"},
              {"pass", "bearer", "long", "sep", "sp", "quote"}}

MCReports ==
    {s \in TextsOf({"tick", "nl", "word"}, 7) : Lexed(s)}
        \cup {s \in TextsOf(Words \cup Marks, 4) : Clear(s)}
        \cup {s \in UNION {TextsOf(A, 6) : A \in Alphabets} : Clear(s)}

MCJsonReports == {s \in TextsOf({"nl", "pass", "sep", "word", "ip4"}, 4) : Clear(s)}

(* With 36 runes of body and fences of three, 23 runes of text fit behind  *)
(* the short heads, five and three behind the long ones.                   *)
MCTableHeads == {3, 21, 23}
=============================================================================
