---------------------------- MODULE IssueFormat ----------------------------
(***************************************************************************)
(* internal/publish/format.go: how the text of a report is fitted into a   *)
(* GitHub issue body.  A text is a sequence of runes; only backticks and   *)
(* newlines are looked at.  The fixed sections are lengths and the title   *)
(* is left out.                                                            *)
(***************************************************************************)
EXTENDS Integers, Sequences

CONSTANTS MaxIssueBodyRunes,
          Footer,     \* runes of the footer
          Marker      \* runes of truncationMarker

ASSUME LengthAssumption == {MaxIssueBodyRunes, Footer, Marker} \subseteq Nat

Larger(a, b) == IF a > b THEN a ELSE b
Times(rune, n) == [i \in 1..n |-> rune]

(* The longest run of backticks, as the loop finds it: by each rune the    *)
(* run that ends there and the longest so far.                             *)
Scanned(s) ==
    LET scan[i \in 0..Len(s)] ==
            IF i = 0 THEN [run |-> 0, longest |-> 0]
            ELSE LET prev == scan[i - 1]
                     run == IF s[i] = "tick" THEN prev.run + 1 ELSE 0
                 IN  [run |-> run, longest |-> Larger(prev.longest, run)]
    IN  scan

LongestRun(s) == Scanned(s)[Len(s)].longest

FenceForAsLong(s) == Larger(LongestRun(s), 3)   \* mutant: as long, not longer
FenceFor(s) == Larger(LongestRun(s) + 1, 3)

TruncateRunes(s, n) == IF n >= Len(s) THEN s ELSE SubSeq(s, 1, Larger(n, 0))

OverheadOneFence(head, fence) == head + Footer + fence + 2   \* mutant

(* Everything in the body but the text: two fences, two newlines.          *)
Overhead(head, fence) == head + Footer + 2 * fence + 2

ShownCutEarly(s, budget) ==     \* mutant: a cut text is not kept from the marker
    IF Len(s) > budget
    THEN TruncateRunes(s, budget) \o Times("mark", Marker)
    ELSE s

Shown(s, budget) ==
    IF Len(s) > budget
    THEN TruncateRunes(s, budget - Marker) \o Times("mark", Marker)
    ELSE s

Block(fence, shown) ==
    Times("tick", fence) \o <<"nl">> \o shown \o <<"nl">> \o Times("tick", fence)

Body(head, fence, shown) ==
    TruncateRunes(Times("head", head) \o Block(fence, shown) \o Times("foot", Footer),
                  MaxIssueBodyRunes)

(* The issue of a text that stands behind head runes of fixed sections.    *)
FormatIssue(head, text) ==
    LET fence == FenceFor(text)
        shown == Shown(text, MaxIssueBodyRunes - Overhead(head, fence))
    IN  [head |-> head, fence |-> fence, shown |-> shown,
         body |-> Body(head, fence, shown)]
=============================================================================
