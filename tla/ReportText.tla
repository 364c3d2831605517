----------------------------- MODULE ReportText -----------------------------
(***************************************************************************)
(* What becomes of the words of a report: the app puts them into a JSON    *)
(* payload, the sink scrubs the payload as it came and stores it           *)
(* (internal/storage/sink.go), and the publish run reads what was stored   *)
(* and formats the issue (internal/publish/format.go).  Sealing and        *)
(* opening are the identity here; KeyRotation is about when they are.      *)
(*                                                                         *)
(* A lexeme of Scrub is a rune of IssueFormat.                             *)
(***************************************************************************)
EXTENDS Scrub, IssueFormat

CONSTANTS Reports,    \* the texts a user may send
          TableHeads, \* runes of the sections before the block: they differ
                      \* with the metadata
          RawHead     \* and for a payload that does not parse

ASSUME ReportsAssumption == Reports \subseteq Seq(Words \cup Marks)
ASSUME LexedAssumption == \A s \in Reports : Lexed(s)
ASSUME ClearAssumption == \A s \in Reports : Clear(s)
ASSUME HeadsAssumption == TableHeads \subseteq Nat /\ RawHead \in Nat

VARIABLES report,     \* the text the user wrote
          stored,     \* the scrubbed payload
          issue       \* the issue filed for it

vars == <<report, stored, issue>>

Nothing == <<>>             \* no payload is empty
NotFiled == [head |-> 0, fence |-> 0, shown |-> <<>>, body |-> <<>>]

-----------------------------------------------------------------------------
(***************************************************************************)
(* JSON, as far as a text can disturb it: one string field, and one more   *)
(* behind it.  Every escape of letters and digits is bs n, of nl; a        *)
(* backslash or a slash behind a backslash is a part of tick.              *)
(***************************************************************************)
Open == <<"lbrace", "quote", "word", "quote", "sep", "quote">>
Close == <<"quote", "comma", "quote", "word", "quote", "sep", "quote", "word",
           "quote", "rbrace">>

Escape(x) ==
    CASE x = "nl" -> <<"bs", "n">>
      [] x = "quote" -> <<"bs", "quote">>
      [] OTHER -> <<x>>

Encoding(s) ==
    LET code[i \in 0..Len(s)] == IF i = 0 THEN <<>> ELSE code[i - 1] \o Escape(s[i])
    IN  code

Encode(s) == Encoding(s)[Len(s)]

Payload(s) == Open \o Encode(s) \o Close

(* The inside of a string literal, read from left to right.                *)
Reading(s) ==
    LET read[i \in 0..Len(s)] ==
            IF i = 0 THEN [text |-> <<>>, escaped |-> FALSE, valid |-> TRUE]
            ELSE LET prev == read[i - 1]
                     x == s[i]
                 IN  IF prev.escaped
                     THEN [text |-> Append(prev.text, IF x = "n" THEN "nl" ELSE x),
                           escaped |-> FALSE, valid |-> prev.valid /\ x \in {"n", "quote"}]
                     ELSE IF x = "bs"
                     THEN [text |-> prev.text, escaped |-> TRUE, valid |-> prev.valid]
                     ELSE [text |-> Append(prev.text, x), escaped |-> FALSE,
                           valid |-> prev.valid /\ x \notin {"quote", "nl"}]
    IN  read

Read(s) == Reading(s)[Len(s)]

Inside(payload) == SubSeq(payload, Len(Open) + 1, Len(payload) - Len(Close))

Parses(payload) ==
    /\ Len(payload) >= Len(Open) + Len(Close)
    /\ IsPrefix(Open, payload)
    /\ IsSuffix(Close, payload)
    /\ LET read == Read(Inside(payload)) IN read.valid /\ ~read.escaped

Decoded(payload) == Read(Inside(payload)).text

-----------------------------------------------------------------------------
(***************************************************************************)
(* The two programs that touch the text.                                   *)
(***************************************************************************)
Init ==
    /\ report \in Reports
    /\ stored = Nothing
    /\ issue = NotFiled

(* Sink.Store, on the endpoint.                                            *)
Store ==
    /\ stored = Nothing
    /\ stored' = ScrubString(Payload(report))
    /\ UNCHANGED <<report, issue>>

(* formatIssue, in the run: the report field, or the payload verbatim.     *)
Publish ==
    /\ stored # Nothing
    /\ issue = NotFiled
    /\ IF Parses(stored)
       THEN \E head \in TableHeads : issue' = FormatIssue(head, Decoded(stored))
       ELSE issue' = FormatIssue(RawHead, stored)
    /\ UNCHANGED <<report, stored>>

Next == Store \/ Publish

Spec == Init /\ [][Next]_vars

-----------------------------------------------------------------------------
(***************************************************************************)
(* The issue, read rune by rune as GitHub does.                            *)
(***************************************************************************)
Stored == stored # Nothing
Published == issue # NotFiled

(* The ticks that stand at position i of s, and nothing else.              *)
RunAt(s, i, n) == i + n - 1 <= Len(s) /\ \A k \in i..(i + n - 1) : s[k] = "tick"

(* Where the block's content starts, if the body gets that far.            *)
Content == issue.head + issue.fence + 2

(* Nothing inside the block, of the report or of what a cut leaves of it,  *)
(* is a run of ticks as long as the fence: the only one there is the       *)
(* closing fence itself (format.go:142-144).                               *)
NothingClosesTheFence ==
    Published =>
        \A i \in Content..Len(issue.body) :
            RunAt(issue.body, i, issue.fence) => i = Content + Len(issue.shown) + 1

(* The body is never longer than GitHub takes, and the block is closed and *)
(* the footer there, provided that two fences and the marker fit beside    *)
(* the fixed sections (format.go:85-113).                                  *)
TailSurvives ==
    Published =>
        /\ Len(issue.body) <= MaxIssueBodyRunes
        /\ Overhead(issue.head, issue.fence) + Marker <= MaxIssueBodyRunes =>
               /\ Len(issue.body) = Overhead(issue.head, issue.fence) + Len(issue.shown)
               /\ RunAt(issue.body, Content + Len(issue.shown) + 1, issue.fence)

-----------------------------------------------------------------------------
(***************************************************************************)
(* The scrub, judged by what is stored and shown.                          *)
(***************************************************************************)

(* What can be told by its shape alone, an email or IPv6 address or a JWT  *)
(* that the app writes without escapes, is not whole in the issue,         *)
(* whatever of a clear text stood before or behind it and whether or not   *)
(* the payload still parsed (scrub.go:118-127, 149-157, 188-189).  As an   *)
(* Authorization value a part of it may stay: at is no shape of these.     *)
ShapesAreMasked ==
    Published =>
        {"email", "jwt", "ip6", "full6"} \cap {issue.shown[i] : i \in DOMAIN issue.shown} = {}

(* The inductive invariant: nothing that has a shape of its own is stored, *)
(* and an issue is one of what is stored.                                  *)
Masked == Lexemes \ {"email", "jwt", "ip6", "full6"}

TextIInv ==
    /\ report \in Reports
    /\ stored \in Seq(Masked)
    /\ Published =>
           /\ Stored
           /\ \E head \in TableHeads \cup {RawHead} :
                  \/ issue = FormatIssue(head, stored)
                  \/ Parses(stored) /\ issue = FormatIssue(head, Decoded(stored))

(* Running the pass on its own output changes nothing (scrub.go:32-33).    *)
ScrubTwiceIsOnce == Stored => ScrubString(stored) = stored

(* Where a value begins behind the key at i, or 0 if nothing is assigned;  *)
(* at the start of a line the n of \n hides a key from the rules.          *)
Assigns(s, i) == AfterSep(s, i + 1)

AssignsTo(s, i, key) == s[i] = key /\ (i > 1 => s[i - 1] # "nl") /\ Assigns(s, i) > 0

(* The texts the rules, which see the payload and not the text, take for   *)
(* more than there is: an address at the start of a line, whose local part *)
(* takes the n of \n, or behind a character written \t, \r or \u003c, of   *)
(* which it takes the letters and digits; a name that runs into the end of *)
(* the string; a secret next to an escaped quote, whose backslash goes     *)
(* with the secret, also when space ends the secret there, unless it is    *)
(* the space behind the scheme word, which the bearer rule has closed      *)
(* before.                                                                 *)
AddressAtLineStart(s) == \E i \in 2..Len(s) : s[i] = "email" /\ s[i - 1] = "nl"

NameAtTheEnd(s) ==
    \E i \in DOMAIN s :
        AssignsTo(s, i, "user") /\ \A j \in Assigns(s, i)..Len(s) : s[j] # "comma"

BehindScheme(s, k) ==
    \E b \in 1..(k - 1) : s[b] = "bearer" /\ \A l \in (b + 1)..k : s[l] = "sp"

SecretAtQuote(s) ==
    \E i \in DOMAIN s :
        /\ AssignsTo(s, i, "pass")
        /\ \E j \in Assigns(s, i)..Len(s) :
               /\ s[j] = "quote"
               /\ \A k \in Assigns(s, i)..(j - 1) :
                      s[k] # "comma" /\ (s[k] = "sp" => BehindScheme(s, k))

(* Of every other text the structure survives: the stored payload parses,  *)
(* so that the issue shows the report field under the metadata table, and  *)
(* where no escape is involved the field is the text, scrubbed             *)
(* (scrub.go:24-28, format.go:71-77).                                      *)
StructureSurvives ==
    /\ Stored
    /\ ~ (AddressAtLineStart(report) \/ NameAtTheEnd(report) \/ SecretAtQuote(report))
    => /\ Parses(stored)
       /\ {"nl", "quote"} \cap {report[i] : i \in DOMAIN report} = {} =>
              Decoded(stored) = ScrubString(report)

(* The claim of scrub.go:17-19, that the pass does the same to JSON as to  *)
(* free text: what is read from the stored payload is the text, scrubbed.  *)
WorksTheSameOnJson ==
    Stored => Parses(stored) /\ Decoded(stored) = ScrubString(report)
=============================================================================
