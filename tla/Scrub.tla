------------------------------- MODULE Scrub -------------------------------
(***************************************************************************)
(* internal/scrub: the ordered rules that mask what looks personal in a    *)
(* payload before it is stored.  A text is a sequence of lexemes, each the *)
(* representative of the strings the expressions treat alike:              *)
(*                                                                         *)
(*   word     a short plain word         long   an opaque run of 16 or more*)
(*   auth     authorization              bearer the scheme word            *)
(*   pass     a secret-named key         user   a name-like key            *)
(*   email    an address                 jwt    eyJ... . ... . ...         *)
(*   key      a provider's API key       ip4    four octets                *)
(*   ip6      fe80::1, shortened right   full6  all the eight groups of an *)
(*            behind four digits                IPv6 address, four digits  *)
(*                                              the first                  *)
(*   sep      a colon                    sp, quote, comma, lbrace, rbrace  *)
(*   nl       a newline, or another character the app writes as backslash  *)
(*            and letters or digits: \t, \r, \u003c; never a backtick      *)
(*   bs, n    that backslash, and those letters and digits                 *)
(*   tick     a backtick; for the rules any mark none of them looks at, a  *)
(*            backslash among them, of which JSON writes two               *)
(*   at       what is left of an address whose first part was masked: @x.y *)
(*            of an email, seven groups of full6                           *)
(*                                                                         *)
(* Two words never touch, except after the n of an escape (Lexed), and no  *)
(* colon stands where it could be a part of an IPv6 address (Clear).  An   *)
(* equals sign, which is a separator and a part of a credential at once,   *)
(* stands in no text but inside long, jwt and key; a shape is written as   *)
(* it is, none of its own characters as an escape.                         *)
(***************************************************************************)
EXTENDS Integers, Sequences, FiniteSets, SequencesExt

CONSTANT MaxName     \* lexemes a quoted name may have ({0,119} behind the first)

ASSUME MaxNameAssumption == MaxName \in Nat \ {0}

Words == {"word", "long", "auth", "bearer", "pass", "user", "email", "jwt", "key",
          "ip4", "ip6", "full6"}
Marks == {"sep", "sp", "nl", "quote", "comma", "tick"}
Placeholders == {"EMAIL", "TOKEN", "AUTH", "IP", "NAME"}
Lexemes == Words \cup Marks \cup Placeholders \cup {"n", "bs", "at", "lbrace", "rbrace"}

(* The character classes of the expressions.                               *)
Space == {"sp", "nl"}
WordEnds == Words \cup {"n", "at"}                \* a word character is last
Torn == {"email", "ip6", "full6"}                 \* have a character no credential has
Credential == (Words \ Torn) \cup {"n"}           \* [A-Za-z0-9._~+/=-]
LocalPart == Credential                           \* [A-Za-z0-9._%+-]
SecretValue == Lexemes \ {"quote", "sp", "nl", "comma", "rbrace"}
QuotedName == Lexemes \ {"quote", "nl"}
BareName == Lexemes \ {"comma", "nl", "rbrace"}
BareNameStart == BareName \ ({"quote", "sp", "lbrace"} \cup Placeholders)

(* Where a word has ended another does not begin: the two would be one.    *)
Lexed(s) ==
    \A i \in 2..Len(s) : s[i] \in Words \cup {"n"} => s[i - 1] \notin Words \cup {"at"}

Clear(s) ==
    /\ Lexed(s)
    /\ \A i \in 1..(Len(s) - 1) :
        /\ ~ (s[i] = "sep" /\ s[i + 1] \in {"sep", "ip6", "full6"})
        /\ ~ (s[i] \in {"ip6", "full6"} /\ s[i + 1] = "sep")

-----------------------------------------------------------------------------
(***************************************************************************)
(* Matching.  A rule maps a text and a position to the match found there:  *)
(* where it ends, and what replaces it.  No match ends where it starts.    *)
(***************************************************************************)
At(s, i) == IF i \in DOMAIN s THEN s[i] ELSE "end"

(* The first position from i on that is not in class.                      *)
Skip(s, i, class) ==
    LET stops == {j \in i..Len(s) : s[j] \notin class}
    IN  IF stops = {} THEN Len(s) + 1 ELSE Min(stops)

Optional(s, i, lexeme) == IF At(s, i) = lexeme THEN i + 1 ELSE i

(* After \s*[:=]\s*, or 0 when there is none at i.                         *)
AfterSep(s, i) ==
    LET j == Skip(s, i, Space)
    IN  IF At(s, j) = "sep" THEN Skip(s, j + 1, Space) ELSE 0

Boundary(s, i) == At(s, i - 1) \notin WordEnds    \* \b before a word at i

NoMatch(i) == [end |-> i, out |-> <<>>]
Match(end, out) == [end |-> end, out |-> out]
Kept(s, i, j) == SubSeq(s, i, j - 1)              \* the ${1} of a replacement

(* regexp.ReplaceAllString: leftmost matches, one after the other.  By     *)
(* each position what is put out so far, and where to look next.           *)
Rewriting(match, s) ==
    LET done[i \in 0..Len(s)] ==
            IF i = 0 THEN [next |-> 1, out |-> <<>>]
            ELSE LET prev == done[i - 1]
                     m == match[i]
                 IN  IF i < prev.next THEN prev
                     ELSE IF m.end = i
                     THEN [next |-> i + 1, out |-> Append(prev.out, s[i])]
                     ELSE [next |-> m.end, out |-> prev.out \o m.out]
    IN  done

Rewrite(Rule(_, _), s) == Rewriting([i \in DOMAIN s |-> Rule(s, i)], s)[Len(s)].out

-----------------------------------------------------------------------------
(***************************************************************************)
(* The rules.                                                              *)
(***************************************************************************)

(* The class of a credential has neither @ nor colon: an address loses its *)
(* local part, an IPv6 address its first group, and the rest stays.  ::1   *)
(* is an address still; seven groups are none that a rule knows.           *)
Remainder(lexeme) == IF lexeme = "ip6" THEN "ip6" ELSE "at"

AuthHeader(s, i) ==
    LET value == Optional(s, AfterSep(s, Optional(s, Skip(s, i + 1, Space), "quote")),
                          "quote")
        scheme == Skip(s, value + 1, Space)
        start == IF /\ At(s, value) = "bearer"
                    /\ scheme > value + 1
                    /\ At(s, scheme) \in Credential \cup Torn
                 THEN scheme ELSE value
        end == Skip(s, start, Credential)
    IN  IF At(s, i) # "auth" \/ At(s, start) \notin Credential \cup Torn
        THEN NoMatch(i)
        ELSE IF At(s, end) \in Torn
             THEN Match(end + 1, Kept(s, i, value) \o <<"AUTH", Remainder(s[end])>>)
             ELSE Match(end, Kept(s, i, value) \o <<"AUTH">>)

BearerToken(s, i) ==
    LET start == Skip(s, i + 1, Space)
        end == Skip(s, start, Credential)
    IN  IF /\ At(s, i) = "bearer" /\ Boundary(s, i) /\ start > i + 1
           /\ \E j \in start..(end - 1) : s[j] \in {"long", "jwt", "key"}
        THEN Match(end, <<"TOKEN">>) ELSE NoMatch(i)

JwtBounded(s, i) ==             \* mutant: anchored like the provider keys
    IF At(s, i) = "jwt" /\ Boundary(s, i) THEN Match(i + 1, <<"TOKEN">>) ELSE NoMatch(i)

Jwt(s, i) == IF At(s, i) = "jwt" THEN Match(i + 1, <<"TOKEN">>) ELSE NoMatch(i)

ProviderKey(s, i) ==
    IF At(s, i) = "key" /\ Boundary(s, i) THEN Match(i + 1, <<"TOKEN">>) ELSE NoMatch(i)

SecretRunsOn(s, i) ==           \* mutant: the value may go on behind a quote
    LET sep == AfterSep(s, Optional(s, i + 1, "quote"))
        value == Optional(s, sep, "quote")
        end == Skip(s, value, SecretValue \cup {"quote"})
    IN  IF At(s, i) = "pass" /\ Boundary(s, i) /\ sep > 0 /\ end > value
        THEN Match(end, Kept(s, i, value) \o <<"TOKEN">>) ELSE NoMatch(i)

Secret(s, i) ==
    LET sep == AfterSep(s, Optional(s, i + 1, "quote"))
        value == Optional(s, sep, "quote")
        end == Skip(s, value, SecretValue)
    IN  IF At(s, i) = "pass" /\ Boundary(s, i) /\ sep > 0 /\ end > value
        THEN Match(end, Kept(s, i, value) \o <<"TOKEN">>) ELSE NoMatch(i)

EmailDeleted(s, i) ==           \* mutant: deletes rather than masks
    LET at == Skip(s, i, LocalPart)
    IN  IF At(s, at) = "email" THEN Match(at + 1, <<>>) ELSE NoMatch(i)

(* The local part takes in every word character before it.                 *)
Email(s, i) ==
    LET at == Skip(s, i, LocalPart)
    IN  IF At(s, at) = "email" THEN Match(at + 1, <<"EMAIL">>) ELSE NoMatch(i)

IPv6(s, i) ==
    IF At(s, i) \in {"ip6", "full6"} THEN Match(i + 1, <<"IP">>) ELSE NoMatch(i)

IPv4(s, i) ==
    IF At(s, i) = "ip4" /\ Boundary(s, i) /\ At(s, i + 1) \notin Words
    THEN Match(i + 1, <<"IP">>) ELSE NoMatch(i)

NameQuoted(s, i) ==
    LET open == AfterSep(s, Optional(s, i + 1, "quote"))
        close == Skip(s, open + 1, QuotedName)
    IN  IF /\ At(s, i) = "user" /\ Boundary(s, i)
           /\ At(s, open) = "quote" /\ At(s, close) = "quote"
           /\ close - open - 1 \in 1..MaxName /\ s[open + 1] \notin Placeholders
        THEN Match(close + 1, Kept(s, i, open + 1) \o <<"NAME", "quote">>)
        ELSE NoMatch(i)

NameBare(s, i) ==
    LET start == AfterSep(s, i + 1)
    IN  IF At(s, i) = "user" /\ Boundary(s, i) /\ At(s, start) \in BareNameStart
        THEN Match(Skip(s, start, BareName), Kept(s, i, start) \o <<"NAME">>)
        ELSE NoMatch(i)

-----------------------------------------------------------------------------
RedactTokens(s) ==
    Rewrite(Secret, Rewrite(ProviderKey, Rewrite(Jwt,
        Rewrite(BearerToken, Rewrite(AuthHeader, s)))))
RedactEmails(s) == Rewrite(Email, s)
RedactIPs(s) == Rewrite(IPv4, Rewrite(IPv6, s))
RedactNames(s) == Rewrite(NameBare, Rewrite(NameQuoted, s))

ScrubString(s) == RedactNames(RedactIPs(RedactEmails(RedactTokens(s))))
=============================================================================
