--------------------------- MODULE ReportTextProofs ---------------------------
(***************************************************************************)
(* Proofs about ReportText, for any reports, heads, footer, marker and     *)
(* body limit: nothing in the block closes its fence, the tail of an issue *)
(* survives, what has a shape of its own is masked, and scrubbing what is  *)
(* scrubbed clean changes nothing.                                         *)
(*                                                                         *)
(* The loops of the code are recursive functions over the positions of a   *)
(* text.  LoopRuns shows once that such a function exists and is what its  *)
(* body says; a fact about a loop then follows at the least position at    *)
(* which it could fail.                                                    *)
(*                                                                         *)
(* What StructureProofs says of a second pass rests on what the passes     *)
(* have in common: each copies the text and puts, from its matches on, a   *)
(* key it kept and a placeholder.  So whatever a rule could find behind a  *)
(* pass it would have found before, and what a rule has masked no later    *)
(* pass unmasks.                                                           *)
(***************************************************************************)
EXTENDS ReportText, TLAPS, WellFoundedInduction, SequenceTheorems

-----------------------------------------------------------------------------
(***************************************************************************)
(* Loops.                                                                  *)
(***************************************************************************)

(* A set of positions that is not empty has a first one.                   *)
LEMMA FirstOf ==
  ASSUME NEW P, P \subseteq Nat, P # {}
  PROVE  \E x \in P : \A y \in P : x <= y
<1> DEFINE R == OpToRel(<, Nat)
<1>1. IsWellFoundedOn(R, Nat)
  BY NatLessThanWellFounded
<1>2. PICK x \in P : \A y \in P : <<y, x>> \notin R
  <2> HIDE DEF R
  <2> QED
    BY <1>1, WFMin
<1>3. \A a, b \in Nat : <<a, b>> \in R <=> a < b
  BY DEF OpToRel
<1>4. \A y \in P : ~(y < x)
  <2> HIDE DEF R
  <2> QED
    BY <1>2, <1>3
<1> QED
  BY <1>4

(* Whatever holds before the first step of a loop and is kept by each step *)
(* holds after every step: Bad are the steps after which it does not.      *)
LEMMA LoopKeeps ==
  ASSUME NEW n \in Nat, NEW Bad, Bad \subseteq 0..n, 0 \notin Bad,
         \A i \in 1..n : i \in Bad => i - 1 \in Bad
  PROVE  Bad = {}
<1> SUFFICES ASSUME Bad # {} PROVE FALSE
  OBVIOUS
<1>1. PICK x \in Bad : \A y \in Bad : x <= y
  <2>1. Bad \subseteq Nat
    OBVIOUS
  <2> QED
    BY <2>1, FirstOf
<1>2. x \in 1..n /\ x - 1 \in Bad
  BY <1>1
<1> QED
  BY <1>1, <1>2

(* f is what a loop over the positions 1..n computes that starts from base  *)
(* and goes on by step.                                                    *)
Runs(f, n, S, base, step) ==
    /\ f \in [0..n -> S]
    /\ \A i \in 0..n : f[i] = IF i = 0 THEN base ELSE step[<<f[i - 1], i>>]

(* A loop that steps through the positions of a text computes a function   *)
(* of the position.                                                        *)
LEMMA LoopRuns ==
  ASSUME NEW n \in Nat, NEW S, NEW base \in S, NEW step \in [S \X (1..n) -> S]
  PROVE  \E f : Runs(f, n, S, base, step)
<1> USE DEF Runs
<1> DEFINE Has(f, k) == Runs(f, k, S, base, step)
           Bad == {k \in 0..n : ~ \E f : Has(f, k)}
<1>1. 0 \notin Bad
  <2> DEFINE f == [i \in 0..0 |-> base]
  <2>1. Has(f, 0)
    OBVIOUS
  <2> QED
    BY <2>1
<1>2. ASSUME NEW k \in 1..n, k - 1 \notin Bad PROVE k \notin Bad
  <2>1. PICK f : Has(f, k - 1)
    BY <1>2
  <2>2. k - 1 \in 0..(k - 1) /\ f[k - 1] \in S
    BY <2>1
  <2> DEFINE last == step[<<f[k - 1], k>>]
             g == [i \in 0..k |-> IF i = k THEN last ELSE f[i]]
  <2>3. last \in S
    BY <2>2
  <2>4. g \in [0..k -> S]
    <3> HIDE DEF last
    <3> QED
      BY <2>1, <2>3
  <2>5. ASSUME NEW i \in 0..k PROVE g[i] = IF i = 0 THEN base ELSE step[<<g[i - 1], i>>]
    <3>1. CASE i = k
      <4>1. g[i] = step[<<f[k - 1], k>>] /\ i # 0 /\ g[i - 1] = f[k - 1]
        BY <3>1
      <4> QED
        BY <3>1, <4>1
    <3>2. CASE i # k
      <4>1. i \in 0..(k - 1) /\ g[i] = f[i] /\ (i # 0 => g[i - 1] = f[i - 1])
        BY <3>2
      <4> HIDE DEF g
      <4> QED
        BY <2>1, <4>1
    <3> QED
      BY <3>1, <3>2
  <2> HIDE DEF g
  <2>6. Has(g, k)
    BY <2>4, <2>5
  <2> QED
    BY <2>6
<1> HIDE DEF Bad
<1>3. Bad = {}
  <2>1. Bad \subseteq 0..n
    BY DEF Bad
  <2> QED
    BY <1>1, <1>2, <2>1, LoopKeeps
<1>4. n \notin Bad
  BY <1>3
<1> QED
  BY <1>4 DEF Bad


-----------------------------------------------------------------------------
(***************************************************************************)
(* The fence.                                                              *)
(***************************************************************************)

(* What the loop over the runes keeps, from each rune to the next.         *)
LEMMA ScannedIs ==
  ASSUME NEW X, NEW s \in Seq(X)
  PROVE  LET scan == Scanned(s)
         IN  /\ scan \in [0..Len(s) -> [run : Nat, longest : Nat]]
             /\ scan[0] = [run |-> 0, longest |-> 0]
             /\ \A i \in 1..Len(s) :
                  /\ scan[i].run = IF s[i] = "tick" THEN scan[i - 1].run + 1 ELSE 0
                  /\ scan[i].longest = Larger(scan[i - 1].longest, scan[i].run)
<1> DEFINE n == Len(s)
           S == [run : Nat, longest : Nat]
           base == [run |-> 0, longest |-> 0]
           Next1(prev, i) ==
             LET run == IF s[i] = "tick" THEN prev.run + 1 ELSE 0
             IN  [run |-> run, longest |-> Larger(prev.longest, run)]
           step == [p \in S \X (1..n) |-> Next1(p[1], p[2])]
           LoopBody(g) == [i \in 0..n |-> IF i = 0 THEN base ELSE Next1(g[i - 1], i)]
<1>1. n \in Nat /\ base \in S
  OBVIOUS
<1>2. ASSUME NEW prev \in S, NEW i \in 1..n PROVE Next1(prev, i) \in S
  BY DEF Larger
<1>3. step \in [S \X (1..n) -> S]
  <2> HIDE DEF Next1
  <2> QED
    BY <1>2
<1>4. PICK f : Runs(f, n, S, base, step)
  <2> HIDE DEF step, base, S, n
  <2> QED
    BY <1>1, <1>3, LoopRuns
<1>5. \A i \in 0..n : i # 0 => step[<<f[i - 1], i>>] = Next1(f[i - 1], i)
  <2> SUFFICES ASSUME NEW i \in 0..n, i # 0
               PROVE  step[<<f[i - 1], i>>] = Next1(f[i - 1], i)
    OBVIOUS
  <2>1. i \in 1..n /\ f[i - 1] \in S
    BY <1>1, <1>4 DEF Runs
  <2> HIDE DEF Next1, S
  <2> QED
    BY <2>1
<1>6. f = LoopBody(f)
  <2> HIDE DEF step, Next1, base, S
  <2> QED
    BY <1>4, <1>5 DEF Runs
<1>7. Scanned(s) = CHOOSE g : g = LoopBody(g)
  BY DEF Scanned
<1> DEFINE scan == Scanned(s)
<1>8. scan = LoopBody(scan)
  <2> HIDE DEF LoopBody
  <2>1. scan = CHOOSE g : g = LoopBody(g)
    BY <1>7
  <2>2. \E g : g = LoopBody(g)
    BY <1>6
  <2> HIDE DEF scan
  <2> QED
    BY <2>1, <2>2, Zenon
<1> HIDE DEF scan, Next1, base, S, n
<1>9. DOMAIN scan = 0..n /\ scan[0] = base /\ \A i \in 1..n : scan[i] = Next1(scan[i - 1], i)
  <2>1. \A i \in 0..n : scan[i] = IF i = 0 THEN base ELSE Next1(scan[i - 1], i)
    BY <1>8
  <2>2. DOMAIN scan = 0..n
    BY <1>8
  <2> QED
    BY <1>1, <2>1, <2>2
<1> DEFINE Bad == {i \in 0..n : scan[i] \notin S}
<1>10. Bad = {}
  <2>1. \A i \in 1..n : i \in Bad => i - 1 \in Bad
    BY <1>1, <1>2, <1>9
  <2>2. Bad \subseteq 0..n /\ 0 \notin Bad
    BY <1>1, <1>9
  <2> HIDE DEF Bad
  <2> QED
    BY <1>1, <2>1, <2>2, LoopKeeps
<1>11. scan \in [0..n -> S]
  <2>1. scan = [i \in 0..n |-> scan[i]]
    BY <1>8
  <2> QED
    BY <1>10, <2>1
<1>12. ASSUME NEW i \in 1..n
       PROVE  /\ scan[i].run = IF s[i] = "tick" THEN scan[i - 1].run + 1 ELSE 0
              /\ scan[i].longest = Larger(scan[i - 1].longest, scan[i].run)
  <2> DEFINE r == IF s[i] = "tick" THEN scan[i - 1].run + 1 ELSE 0
             l == Larger(scan[i - 1].longest, r)
  <2>1. scan[i] = [run |-> r, longest |-> l]
    BY <1>9 DEF Next1
  <2>2. scan[i].run = r /\ scan[i].longest = l
    <3> HIDE DEF r, l
    <3> QED
      BY <2>1
  <2> QED
    BY <2>2
<1> QED
  BY <1>9, <1>11, <1>12 DEF scan, n, S, base

(* No run of backticks is longer than the longest the loop finds.          *)
LEMMA LongestRunIsLongest ==
  ASSUME NEW X, NEW s \in Seq(X), NEW i \in 1..Len(s), NEW n \in Nat, RunAt(s, i, n)
  PROVE  LongestRun(s) \in Nat /\ n <= LongestRun(s)
<1> DEFINE scan == Scanned(s)
           N == Len(s)
<1>1. /\ N \in Nat
      /\ \A j \in 0..N : scan[j].run \in Nat /\ scan[j].longest \in Nat
      /\ scan[0].run = 0 /\ scan[0].longest = 0
      /\ \A j \in 1..N :
           /\ scan[j].run = IF s[j] = "tick" THEN scan[j - 1].run + 1 ELSE 0
           /\ scan[j].longest = Larger(scan[j - 1].longest, scan[j].run)
  <2>1. N \in Nat /\ scan \in [0..N -> [run : Nat, longest : Nat]]
    BY ScannedIs
  <2>2. scan[0] = [run |-> 0, longest |-> 0]
    BY ScannedIs
  <2>3. \A j \in 1..N :
           /\ scan[j].run = IF s[j] = "tick" THEN scan[j - 1].run + 1 ELSE 0
           /\ scan[j].longest = Larger(scan[j - 1].longest, scan[j].run)
    BY ScannedIs
  <2> HIDE DEF scan, N
  <2> QED
    BY <2>1, <2>2, <2>3
<1>2. LongestRun(s) = scan[N].longest
  BY DEF LongestRun
<1> HIDE DEF scan, N
<1>3. \A j \in 1..N : /\ scan[j].run <= scan[j].longest
                      /\ scan[j - 1].longest <= scan[j].longest
  <2> SUFFICES ASSUME NEW j \in 1..N
               PROVE  /\ scan[j].run <= scan[j].longest
                      /\ scan[j - 1].longest <= scan[j].longest
    OBVIOUS
  <2>1. j \in 0..N /\ j - 1 \in 0..N
    BY <1>1
  <2>2. /\ scan[j].run \in Nat
        /\ scan[j - 1].longest \in Nat
        /\ scan[j].longest = Larger(scan[j - 1].longest, scan[j].run)
    BY <1>1, <2>1
  <2> QED
    BY <2>2 DEF Larger
<1>4. ASSUME NEW j \in 0..N PROVE scan[j].run <= scan[j].longest
  <2>1. j = 0 \/ j \in 1..N
    BY <1>1
  <2> QED
    BY <1>1, <1>3, <2>1
<1>5. ASSUME NEW j \in 0..N PROVE scan[j].longest <= scan[N].longest
  <2> DEFINE m == N - j
             Bad == {k \in 0..m : ~(scan[j].longest <= scan[j + k].longest)}
  <2>1. m \in Nat /\ j + m = N
    BY <1>1
  <2>2. 0 \notin Bad
    BY <1>1
  <2>3. \A k \in 1..m : k \in Bad => k - 1 \in Bad
    <3> SUFFICES ASSUME NEW k \in 1..m, k - 1 \notin Bad PROVE k \notin Bad
      OBVIOUS
    <3>1. j + k \in 1..N /\ j + (k - 1) = (j + k) - 1 /\ j + k - 1 \in 0..N
      BY <1>1, <2>1
    <3>2. scan[j].longest <= scan[(j + k) - 1].longest
      BY <2>1, <3>1
    <3>3. scan[(j + k) - 1].longest <= scan[j + k].longest
      BY <1>3, <3>1
    <3>4. scan[j].longest \in Nat /\ scan[(j + k) - 1].longest \in Nat /\ scan[j + k].longest \in Nat
      BY <1>1, <3>1
    <3> QED
      BY <3>2, <3>3, <3>4
  <2>4. Bad = {}
    <3>1. Bad \subseteq 0..m
      OBVIOUS
    <3> HIDE DEF Bad, m
    <3> QED
      BY <2>1, <2>2, <2>3, <3>1, LoopKeeps
  <2>5. m \notin Bad /\ m \in 0..m
    BY <2>1, <2>4
  <2> QED
    BY <2>1, <2>5
<1>6. i \in 1..N /\ i + n - 1 <= N /\ \A k \in i..(i + n - 1) : s[k] = "tick"
  BY DEF RunAt, N
<1>7. i - 1 + n \in 0..N
  BY <1>1, <1>6
<1>8. n <= scan[i - 1 + n].run
  <2> DEFINE Bad == {k \in 0..n : ~(k <= scan[i - 1 + k].run)}
  <2>1. 0 \notin Bad
    BY <1>1, <1>6
  <2>2. \A k \in 1..n : k \in Bad => k - 1 \in Bad
    <3> SUFFICES ASSUME NEW k \in 1..n, k - 1 \notin Bad PROVE k \notin Bad
      OBVIOUS
    <3> DEFINE p == i - 1 + k
    <3>1. p \in 1..N /\ p \in i..(i + n - 1) /\ i - 1 + (k - 1) = p - 1 /\ p - 1 \in 0..N
      BY <1>1, <1>6
    <3>2. k - 1 <= scan[p - 1].run
      BY <3>1
    <3>3. scan[p].run = scan[p - 1].run + 1 /\ scan[p - 1].run \in Nat
      BY <1>1, <1>6, <3>1
    <3> QED
      BY <3>2, <3>3
  <2>3. Bad = {}
    <3>1. Bad \subseteq 0..n
      OBVIOUS
    <3> HIDE DEF Bad
    <3> QED
      BY <2>1, <2>2, <3>1, LoopKeeps
  <2>4. n \in 0..n
    OBVIOUS
  <2> QED
    BY <2>3, <2>4
<1>9. scan[i - 1 + n].run <= scan[i - 1 + n].longest
  BY <1>4, <1>7
<1>10. scan[i - 1 + n].longest <= scan[N].longest
  BY <1>5, <1>7
<1>11. /\ scan[i - 1 + n].run \in Nat
       /\ scan[i - 1 + n].longest \in Nat
       /\ scan[N].longest \in Nat
  BY <1>1, <1>7
<1> QED
  BY <1>2, <1>8, <1>9, <1>10, <1>11

(* What is said of a text also holds of one without backticks.             *)
LEMMA LongestRunIsNat ==
  ASSUME NEW X, NEW s \in Seq(X)
  PROVE  LongestRun(s) \in Nat
BY ScannedIs DEF LongestRun

-----------------------------------------------------------------------------
(***************************************************************************)
(* The body.                                                               *)
(***************************************************************************)

(* What a rune repeated is.                                                *)
LEMMA TimesIs ==
  ASSUME NEW X, NEW rune \in X, NEW n \in Nat
  PROVE  /\ Times(rune, n) \in Seq(X)
         /\ Len(Times(rune, n)) = n
         /\ \A k \in 1..n : Times(rune, n)[k] = rune
BY DEF Times

(* What a cut leaves of a text: its first runes.                           *)
LEMMA TruncateIs ==
  ASSUME NEW X, NEW s \in Seq(X), NEW n \in Int
  PROVE  LET t == TruncateRunes(s, n)
         IN  /\ t \in Seq(X)
             /\ Len(t) = IF n >= Len(s) THEN Len(s) ELSE Larger(n, 0)
             /\ \A k \in 1..Len(t) : t[k] = s[k] /\ k \in 1..Len(s)
BY DEF TruncateRunes, Larger

(* t stands in s behind o runes.                                           *)
Stands(s, o, t) == /\ o \in Nat
                   /\ o + Len(t) <= Len(s)
                   /\ \A k \in 1..Len(t) : s[o + k] = t[k]

(* What stands in a text stands in it still when more is put behind it,    *)
(* and further back when more is put before it.                            *)
LEMMA Joined ==
  ASSUME NEW X, NEW s \in Seq(X), NEW u \in Seq(X)
  PROVE  /\ s \o u \in Seq(X)
         /\ Len(s \o u) = Len(s) + Len(u)
         /\ Stands(s \o u, 0, s)
         /\ Stands(s \o u, Len(s), u)
BY DEF Stands

(* What stands in a part of a text stands in the text.                     *)
LEMMA StandsWithin ==
  ASSUME NEW X, NEW s \in Seq(X), NEW t \in Seq(X), NEW u \in Seq(X),
         NEW o, NEW p, Stands(s, o, t), Stands(t, p, u)
  PROVE  Stands(s, o + p, u)
<1> USE DEF Stands
<1>1. /\ o \in Nat /\ p \in Nat
      /\ Len(s) \in Nat /\ Len(t) \in Nat /\ Len(u) \in Nat
  OBVIOUS
<1>2. ASSUME NEW k \in 1..Len(u) PROVE s[(o + p) + k] = u[k]
  <2>1. p + k \in 1..Len(t) /\ o + (p + k) = (o + p) + k
    BY <1>1
  <2>2. t[p + k] = u[k]
    OBVIOUS
  <2>3. s[o + (p + k)] = t[p + k]
    BY <2>1
  <2> QED
    BY <2>1, <2>2, <2>3
<1>3. (o + p) + Len(u) <= Len(s) /\ o + p \in Nat
  BY <1>1
<1> QED
  BY <1>2, <1>3

(* A body before the backstop cuts it.                                     *)
Uncut(head, fence, shown) ==
    Times("head", head) \o Block(fence, shown) \o Times("foot", Footer)

(* The runes a body may have besides those of the text.                    *)
HasLayout(X) == {"tick", "nl", "head", "foot", "mark"} \subseteq X

(* The content of the block begins behind the fence and its newline, and   *)
(* is followed by a newline, the fence and the footer.                     *)
LaidOut(full, head, fence, shown) ==
    LET start == head + fence + 1
        last == start + Len(shown)
    IN  /\ Len(full) = Overhead(head, fence) + Len(shown)
        /\ Stands(full, start, shown)
        /\ Stands(full, last, <<"nl">>)
        /\ Stands(full, last + 1, Times("tick", fence))
        /\ Stands(full, last + 1 + fence, Times("foot", Footer))

(* So is every body before the backstop.                                   *)
LEMMA UncutIs ==
  ASSUME NEW X, HasLayout(X),
         NEW head \in Nat, NEW fence \in Nat, NEW shown \in Seq(X)
  PROVE  /\ Uncut(head, fence, shown) \in Seq(X)
         /\ LaidOut(Uncut(head, fence, shown), head, fence, shown)
<1> USE DEF HasLayout
<1> DEFINE H == Times("head", head)
           T == Times("tick", fence)
           F == Times("foot", Footer)
           nl == <<"nl">>
           B1 == T \o nl
           B2 == B1 \o shown
           B3 == B2 \o nl
           B == B3 \o T
           HB == H \o B
           full == HB \o F
           L == Len(shown)
<1>0. Footer \in Nat /\ L \in Nat
  BY LengthAssumption
<1>1. H \in Seq(X) /\ Len(H) = head
  BY TimesIs
<1>2. T \in Seq(X) /\ Len(T) = fence
  BY TimesIs
<1>3. F \in Seq(X) /\ Len(F) = Footer
  BY <1>0, TimesIs
<1>4. nl \in Seq(X) /\ Len(nl) = 1
  OBVIOUS
<1>5. full = Uncut(head, fence, shown)
  BY DEF Uncut, Block
<1> HIDE DEF H, T, F, nl
<1>6. B1 \in Seq(X) /\ Len(B1) = fence + 1
  BY <1>2, <1>4, Joined
<1> HIDE DEF B1
<1>7. /\ B2 \in Seq(X) /\ Len(B2) = fence + 1 + L
      /\ Stands(B2, fence + 1, shown)
  BY <1>6, Joined
<1> HIDE DEF B2
<1>8. /\ B3 \in Seq(X) /\ Len(B3) = fence + 1 + L + 1
      /\ Stands(B3, 0, B2) /\ Stands(B3, fence + 1 + L, nl)
  BY <1>4, <1>7, Joined, ZenonT(30)
<1> HIDE DEF B3
<1>9. /\ B \in Seq(X) /\ Len(B) = fence + 1 + L + 1 + fence
      /\ Stands(B, 0, B3) /\ Stands(B, fence + 1 + L + 1, T)
  BY <1>2, <1>8, Joined
<1> HIDE DEF B
<1>10. /\ HB \in Seq(X) /\ Len(HB) = head + (fence + 1 + L + 1 + fence)
       /\ Stands(HB, head, B)
  BY <1>1, <1>9, Joined
<1> HIDE DEF HB
<1>11. /\ full \in Seq(X) /\ Len(full) = head + (fence + 1 + L + 1 + fence) + Footer
       /\ Stands(full, 0, HB)
       /\ Stands(full, head + (fence + 1 + L + 1 + fence), F)
  BY <1>3, <1>10, Joined
<1> HIDE DEF full
<1>12. Stands(full, head, B)
  <2>1. Stands(full, 0 + head, B)
    BY <1>9, <1>10, <1>11, StandsWithin
  <2> QED
    BY <2>1
<1>13. Stands(full, head, B3)
  <2>1. Stands(full, head + 0, B3)
    BY <1>8, <1>9, <1>11, <1>12, StandsWithin
  <2> QED
    BY <2>1
<1>14. Stands(full, head, B2)
  <2>1. Stands(full, head + 0, B2)
    BY <1>7, <1>8, <1>11, <1>13, StandsWithin
  <2> QED
    BY <2>1
<1>15. Stands(full, head + (fence + 1), shown)
  BY <1>7, <1>11, <1>14, StandsWithin
<1>16. Stands(full, head + (fence + 1 + L), nl)
  BY <1>4, <1>8, <1>11, <1>13, StandsWithin
<1>17. Stands(full, head + (fence + 1 + L + 1), T)
  BY <1>2, <1>9, <1>11, <1>12, StandsWithin
<1>18. /\ head + (fence + 1 + L + 1 + fence) + Footer = Overhead(head, fence) + L
       /\ head + (fence + 1) = head + fence + 1
       /\ head + (fence + 1 + L) = head + fence + 1 + L
       /\ head + (fence + 1 + L + 1) = head + fence + 1 + L + 1
       /\ head + (fence + 1 + L + 1 + fence) = head + fence + 1 + L + 1 + fence
  BY <1>0 DEF Overhead
<1> QED
  BY <1>5, <1>11, <1>15, <1>16, <1>17, <1>18 DEF T, F, nl, LaidOut

-----------------------------------------------------------------------------
(***************************************************************************)
(* The issue of any text.                                                  *)
(***************************************************************************)

(* What is shown fits its budget once the marker does, and has no run of   *)
(* backticks that the text does not have.                                  *)
LEMMA ShownIs ==
  ASSUME NEW X, "mark" \in X, NEW text \in Seq(X), NEW budget \in Int
  PROVE  LET shown == Shown(text, budget)
         IN  /\ shown \in Seq(X)
             /\ Marker <= budget => Len(shown) <= budget
             /\ \A i \in 1..Len(shown), n \in Nat \ {0} :
                  RunAt(shown, i, n) => i \in 1..Len(text) /\ RunAt(text, i, n)
<1> DEFINE shown == Shown(text, budget)
<1>1. Marker \in Nat /\ Len(text) \in Nat
  BY LengthAssumption
<1>2. CASE Len(text) > budget
  <2> DEFINE cut == TruncateRunes(text, budget - Marker)
             marks == Times("mark", Marker)
  <2>1. shown = cut \o marks
    BY <1>2 DEF Shown
  <2>2. /\ cut \in Seq(X)
        /\ Len(cut) = Larger(budget - Marker, 0)
        /\ \A k \in 1..Len(cut) : cut[k] = text[k] /\ k \in 1..Len(text)
    <3>1. budget - Marker \in Int /\ ~(budget - Marker >= Len(text))
      BY <1>1, <1>2
    <3> QED
      BY <3>1, TruncateIs
  <2>3. /\ marks \in Seq(X)
        /\ Len(marks) = Marker
        /\ \A k \in 1..Marker : marks[k] = "mark"
    BY <1>1, TimesIs
  <2> HIDE DEF cut, marks
  <2>4. /\ shown \in Seq(X)
        /\ Len(shown) = Len(cut) + Marker
        /\ Stands(shown, 0, cut)
        /\ Stands(shown, Len(cut), marks)
    BY <2>1, <2>2, <2>3, Joined, ZenonT(30)
  <2> HIDE DEF shown
  <2>5. ASSUME NEW i \in 1..Len(shown), NEW n \in Nat \ {0}, RunAt(shown, i, n)
        PROVE  i \in 1..Len(text) /\ RunAt(text, i, n)
    <3>1. Len(cut) \in Nat /\ Len(text) \in Nat
      BY <2>2
    <3>2. /\ i + n - 1 <= Len(shown)
          /\ \A k \in i..(i + n - 1) : shown[k] = "tick"
      BY <2>5 DEF RunAt
    <3>3. ASSUME NEW k \in i..(i + n - 1) PROVE k \in 1..Len(cut)
      <4> SUFFICES ASSUME k > Len(cut) PROVE FALSE
        BY <3>1
      <4>1. k - Len(cut) \in 1..Marker /\ Len(cut) + (k - Len(cut)) = k
        BY <1>1, <2>4, <3>1, <3>2
      <4>2. shown[k] = marks[k - Len(cut)]
        BY <2>3, <2>4, <4>1 DEF Stands
      <4> QED
        BY <2>3, <3>2, <4>1, <4>2
    <3>4. ASSUME NEW k \in i..(i + n - 1) PROVE text[k] = "tick" /\ k \in 1..Len(text)
      <4>1. k \in 1..Len(cut) /\ 0 + k = k
        BY <3>3
      <4>2. shown[k] = cut[k]
        BY <2>4, <4>1 DEF Stands
      <4> QED
        BY <2>2, <3>2, <4>1, <4>2
    <3>5. i \in i..(i + n - 1) /\ i + n - 1 \in i..(i + n - 1)
      OBVIOUS
    <3>6. i \in 1..Len(text) /\ i + n - 1 \in 1..Len(text)
      BY <3>4, <3>5
    <3> QED
      BY <3>1, <3>4, <3>6 DEF RunAt
  <2>6. Marker <= budget => Len(shown) <= budget
    BY <1>1, <2>2, <2>4 DEF Larger
  <2> QED
    BY <2>4, <2>5, <2>6 DEF shown
<1>3. CASE ~(Len(text) > budget)
  <2>1. shown = text
    BY <1>3 DEF Shown
  <2> QED
    BY <1>1, <1>3, <2>1
<1> QED
  BY <1>2, <1>3

(* The fence is longer than every run of backticks in the text.            *)
LEMMA FenceIs ==
  ASSUME NEW X, NEW text \in Seq(X)
  PROVE  /\ FenceFor(text) \in Nat
         /\ FenceFor(text) >= 3
         /\ \A i \in 1..Len(text), n \in Nat : RunAt(text, i, n) => n < FenceFor(text)
<1>1. /\ LongestRun(text) \in Nat
      /\ \A i \in 1..Len(text), n \in Nat : RunAt(text, i, n) => n <= LongestRun(text)
  BY LongestRunIsNat, LongestRunIsLongest
<1> QED
  BY <1>1 DEF FenceFor, Larger

(* The backstop cuts the end off: all that is left stands where it stood,  *)
(* and nothing is cut when the overhead and the marker fit.                *)
Fitted(i, full) ==
    /\ Len(i.body) <= Len(full)
    /\ Len(i.body) <= MaxIssueBodyRunes
    /\ Len(full) <= MaxIssueBodyRunes => i.body = full
    /\ \A k \in 1..Len(i.body) : i.body[k] = full[k]

(* What the parts of an issue are.                                         *)
IssueOf(i, head, text) ==
    /\ i.head = head
    /\ i.fence = FenceFor(text)
    /\ i.shown = Shown(text, MaxIssueBodyRunes - Overhead(head, i.fence))
    /\ Fitted(i, Uncut(head, i.fence, i.shown))

(* The body of an issue is what fits of its sections.                      *)
LEMMA BodyIs ==
  ASSUME NEW X, HasLayout(X),
         NEW head \in Nat, NEW text \in Seq(X), NEW i, i = FormatIssue(head, text)
  PROVE  /\ IssueOf(i, head, text)
         /\ i.shown \in Seq(X)
         /\ i.body \in Seq(X)
<1> DEFINE fence == FenceFor(text)
           shown == Shown(text, MaxIssueBodyRunes - Overhead(head, fence))
           full == Uncut(head, fence, shown)
<1>1. /\ i.head = head /\ i.fence = fence /\ i.shown = shown
      /\ i.body = Body(head, fence, shown)
  BY DEF FormatIssue
<1>2. /\ MaxIssueBodyRunes \in Nat /\ fence \in Nat
      /\ MaxIssueBodyRunes - Overhead(head, fence) \in Int
  <2>1. MaxIssueBodyRunes \in Nat /\ Footer \in Nat /\ fence \in Nat
    BY FenceIs, LengthAssumption
  <2> QED
    BY <2>1 DEF Overhead
<1>3. shown \in Seq(X)
  BY <1>2, ShownIs DEF HasLayout
<1>4. full \in Seq(X)
  BY <1>2, <1>3, UncutIs
<1>5. i.body = TruncateRunes(full, MaxIssueBodyRunes)
  BY <1>1 DEF Body, Uncut
<1> HIDE DEF fence, shown, full
<1>6. /\ i.body \in Seq(X)
      /\ Len(i.body) = IF MaxIssueBodyRunes >= Len(full) THEN Len(full)
                       ELSE Larger(MaxIssueBodyRunes, 0)
      /\ \A k \in 1..Len(i.body) : i.body[k] = full[k]
  <2> DEFINE t == TruncateRunes(full, MaxIssueBodyRunes)
  <2>1. /\ t \in Seq(X)
        /\ Len(t) = IF MaxIssueBodyRunes >= Len(full) THEN Len(full)
                    ELSE Larger(MaxIssueBodyRunes, 0)
        /\ \A k \in 1..Len(t) : t[k] = full[k]
    BY <1>2, <1>4, TruncateIs
  <2>2. i.body = t
    BY <1>5
  <2> HIDE DEF t
  <2> QED
    BY <2>1, <2>2
<1>7. Len(i.body) <= Len(full) /\ Len(i.body) <= MaxIssueBodyRunes
  BY <1>2, <1>4, <1>6 DEF Larger
<1>8. Len(full) <= MaxIssueBodyRunes => i.body = full
  BY <1>2, <1>4, <1>5 DEF TruncateRunes
<1>9. Fitted(i, Uncut(head, i.fence, i.shown))
  <2>1. Fitted(i, full)
    BY <1>6, <1>7, <1>8 DEF Fitted
  <2> QED
    BY <1>1, <2>1 DEF full
<1>10. i.shown = Shown(text, MaxIssueBodyRunes - Overhead(head, i.fence))
  BY <1>1 DEF shown, fence
<1>11. i.fence = FenceFor(text)
  BY <1>1 DEF fence
<1> QED
  BY <1>1, <1>3, <1>6, <1>9, <1>10, <1>11 DEF IssueOf

(* Only the closing fence is as long as the fence, behind the content.     *)
LEMMA NothingElseCloses ==
  ASSUME NEW X, HasLayout(X),
         NEW head \in Nat, NEW text \in Seq(X), issue = FormatIssue(head, text)
  PROVE  NothingClosesTheFence
<1> DEFINE fence == issue.fence
           shown == issue.shown
           full == Uncut(head, fence, shown)
           L == Len(shown)
           last == head + fence + 1 + L
<1>1. /\ issue.head = head
      /\ fence = FenceFor(text)
      /\ shown = Shown(text, MaxIssueBodyRunes - Overhead(head, fence))
      /\ shown \in Seq(X)
      /\ Len(issue.body) <= Len(full)
      /\ \A k \in 1..Len(issue.body) : issue.body[k] = full[k]
      /\ issue.body \in Seq(X)
  <2>1. /\ IssueOf(issue, head, text)
        /\ issue.shown \in Seq(X)
        /\ issue.body \in Seq(X)
    BY BodyIs
  <2> QED
    BY <2>1 DEF IssueOf, Fitted
<1>2. /\ fence \in Nat /\ fence >= 3
      /\ \A j \in 1..Len(text), n \in Nat : RunAt(text, j, n) => n < fence
  BY <1>1, FenceIs
<1>3. /\ L \in Nat /\ Footer \in Nat
      /\ MaxIssueBodyRunes - Overhead(head, fence) \in Int
  <2>1. /\ L \in Nat /\ Footer \in Nat /\ MaxIssueBodyRunes \in Nat
        /\ fence \in Nat
    BY <1>1, <1>2, LengthAssumption
  <2> QED
    BY <2>1 DEF Overhead
<1>4. /\ full \in Seq(X)
      /\ Len(full) = Overhead(head, fence) + L
      /\ Stands(full, head + fence + 1, shown)
      /\ Stands(full, last, <<"nl">>)
      /\ Stands(full, last + 1 + fence, Times("foot", Footer))
  <2>1. fence \in Nat /\ shown \in Seq(X)
    BY <1>1, <1>2
  <2> HIDE DEF fence, shown
  <2>2. full \in Seq(X) /\ LaidOut(full, head, fence, shown)
    BY <2>1, UncutIs
  <2> QED
    BY <2>2 DEF LaidOut
<1> HIDE DEF fence, shown, full, L
<1>5. full[last + 1] = "nl"
  BY <1>4 DEF Stands
<1>6. \A k \in 1..Footer : full[last + 1 + fence + k] = "foot"
  <2> DEFINE foot == Times("foot", Footer)
  <2>1. Len(foot) = Footer /\ \A k \in 1..Footer : foot[k] = "foot"
    BY <1>3, TimesIs
  <2>2. \A k \in 1..Len(foot) : full[last + 1 + fence + k] = foot[k]
    BY <1>4 DEF Stands
  <2> HIDE DEF foot
  <2> QED
    BY <2>1, <2>2
<1>7. ASSUME NEW i \in (head + fence + 2)..Len(issue.body), RunAt(issue.body, i, fence)
      PROVE  i = last + 2
  <2>1. /\ i + fence - 1 <= Len(issue.body) /\ Len(issue.body) \in Nat
        /\ Len(full) \in Nat
        /\ i + fence - 1 <= Len(full)
        /\ \A k \in i..(i + fence - 1) : full[k] = "tick" /\ k \in 1..Len(full)
    <3>1. /\ i + fence - 1 <= Len(issue.body) /\ Len(issue.body) \in Nat
          /\ \A k \in i..(i + fence - 1) : issue.body[k] = "tick"
      BY <1>1, <1>7 DEF RunAt
    <3>2. Len(full) \in Nat
      BY <1>4
    <3>3. ASSUME NEW k \in i..(i + fence - 1)
          PROVE  k \in 1..Len(issue.body) /\ k \in 1..Len(full)
      BY <1>1, <1>2, <3>1, <3>2, SMTT(30)
    <3>4. ASSUME NEW k \in i..(i + fence - 1) PROVE full[k] = "tick"
      BY <1>1, <3>1, <3>3
    <3>5. i + fence - 1 <= Len(full)
      BY <1>1, <1>2, <3>1, <3>2, SMTT(30)
    <3> QED
      BY <3>1, <3>2, <3>3, <3>4, <3>5
  <2>2. last + 1 \notin i..(i + fence - 1)
    BY <1>5, <2>1
  <2>3. i \notin (last + 3)..Len(full)
    <3> SUFFICES ASSUME i >= last + 3 PROVE FALSE
      BY <1>2, <1>3
    <3> DEFINE k == i + fence - 1 - (last + 1 + fence)
    <3>1. Len(full) = last + 1 + fence + Footer
      BY <1>2, <1>3, <1>4 DEF Overhead
    <3>2. k \in 1..Footer /\ last + 1 + fence + k = i + fence - 1
      BY <1>2, <1>3, <2>1, <3>1
    <3>3. i + fence - 1 \in i..(i + fence - 1)
      BY <1>2
    <3> QED
      BY <1>6, <2>1, <3>2, <3>3
  <2>4. i \notin (head + fence + 2)..last
    <3> SUFFICES ASSUME i <= last PROVE FALSE
      BY <1>2, <1>3
    <3> DEFINE j == i - (head + fence + 1)
    <3>1. i + fence - 1 <= last
      BY <1>2, <1>3, <2>2
    <3>2. j \in 1..L /\ j + fence - 1 <= L
      BY <1>2, <1>3, <3>1
    <3>3. ASSUME NEW k \in j..(j + fence - 1) PROVE shown[k] = "tick"
      <4>1. /\ k \in 1..L
            /\ head + fence + 1 + k \in i..(i + fence - 1)
        BY <1>2, <1>3, <3>2
      <4>2. full[head + fence + 1 + k] = shown[k]
        BY <1>4, <4>1 DEF Stands, L
      <4> QED
        BY <2>1, <4>1, <4>2
    <3>4. RunAt(shown, j, fence)
      BY <3>2, <3>3 DEF RunAt, L
    <3>5. j \in 1..Len(text) /\ RunAt(text, j, fence)
      <4>1. fence \in Nat \ {0} /\ j \in 1..Len(shown)
        BY <1>2, <3>2 DEF L
      <4> QED
        BY <1>1, <1>3, <3>4, <4>1, ShownIs DEF HasLayout
    <3>6. fence < fence
      BY <1>2, <3>5
    <3> QED
      BY <1>2, <3>6
  <2> QED
    BY <1>2, <1>3, <2>1, <2>2, <2>3, <2>4
<1>8. /\ Content = head + fence + 2
      /\ Content + Len(shown) + 1 = last + 2
  BY <1>1, <1>2, <1>3 DEF Content, fence, L
<1> QED
  BY <1>7, <1>8 DEF NothingClosesTheFence, fence, shown

(* The closing fence and the footer are kept when there is room.           *)
LEMMA TailIsKept ==
  ASSUME NEW X, HasLayout(X),
         NEW head \in Nat, NEW text \in Seq(X), issue = FormatIssue(head, text)
  PROVE  TailSurvives
<1> DEFINE fence == issue.fence
           shown == issue.shown
           full == Uncut(head, fence, shown)
           budget == MaxIssueBodyRunes - Overhead(head, fence)
           L == Len(shown)
           last == head + fence + 1 + L
<1>1. /\ IssueOf(issue, head, text)
      /\ issue.shown \in Seq(X)
      /\ issue.body \in Seq(X)
  BY BodyIs
<1>2. issue.head = head /\ shown = Shown(text, budget) /\ Fitted(issue, full)
  BY <1>1 DEF IssueOf
<1>3. fence \in Nat /\ fence >= 3 /\ shown \in Seq(X) /\ L \in Nat
  BY <1>1, FenceIs DEF IssueOf
<1>4. /\ MaxIssueBodyRunes \in Nat /\ Footer \in Nat /\ Marker \in Nat
      /\ Overhead(head, fence) \in Nat /\ budget \in Int
  <2>1. MaxIssueBodyRunes \in Nat /\ Footer \in Nat /\ Marker \in Nat
    BY LengthAssumption
  <2> QED
    BY <1>3, <2>1 DEF Overhead
<1>5. full \in Seq(X) /\ LaidOut(full, head, fence, shown)
  <2> HIDE DEF fence, shown
  <2> QED
    BY <1>3, UncutIs
<1> HIDE DEF fence, shown, full
<1>6. Len(issue.body) <= MaxIssueBodyRunes
  BY <1>2 DEF Fitted
<1>7. ASSUME Overhead(head, fence) + Marker <= MaxIssueBodyRunes
      PROVE  /\ Len(issue.body) = Overhead(head, fence) + L
             /\ RunAt(issue.body, Content + L + 1, fence)
  <2>1. L <= budget
    <3>1. Marker <= budget
      BY <1>4, <1>7
    <3> HIDE DEF budget
    <3>2. Marker <= budget => Len(Shown(text, budget)) <= budget
      BY <1>4, ShownIs DEF HasLayout
    <3> QED
      BY <1>2, <3>1, <3>2
  <2>2. Len(full) = Overhead(head, fence) + L
    BY <1>5 DEF LaidOut
  <2>3. issue.body = full
    <3>1. Len(full) <= MaxIssueBodyRunes
      BY <1>3, <1>4, <2>1, <2>2
    <3> QED
      BY <1>2, <3>1 DEF Fitted
  <2>4. Content + L + 1 = last + 2
    BY <1>2, <1>3 DEF Content, fence
  <2> DEFINE ticks == Times("tick", fence)
  <2>5. Len(ticks) = fence /\ \A k \in 1..fence : ticks[k] = "tick"
    BY <1>3, TimesIs DEF HasLayout
  <2>6. Stands(full, last + 1, ticks)
    BY <1>5 DEF LaidOut
  <2> HIDE DEF ticks
  <2>7. /\ last + 1 + fence <= Len(full)
        /\ \A k \in 1..fence : full[last + 1 + k] = "tick"
    BY <2>5, <2>6 DEF Stands
  <2>8. ASSUME NEW k \in (last + 2)..(last + 2 + fence - 1) PROVE full[k] = "tick"
    <3>1. k - (last + 1) \in 1..fence /\ last + 1 + (k - (last + 1)) = k
      BY <1>3
    <3> QED
      BY <2>7, <3>1
  <2>9. RunAt(full, last + 2, fence)
    <3>1. last + 2 + fence - 1 <= Len(full)
      BY <1>3, <2>7
    <3> QED
      BY <2>8, <3>1 DEF RunAt
  <2> QED
    BY <2>2, <2>3, <2>4, <2>9
<1> QED
  BY <1>2, <1>6, <1>7 DEF TailSurvives, fence, shown

-----------------------------------------------------------------------------
(***************************************************************************)
(* The scrub.                                                              *)
(***************************************************************************)

(* Every match puts out lexemes of T, and where nothing matches one stands.*)
PutsOut(match, s, T) ==
    \A i \in 1..Len(s) : /\ match[i].end \in Int
                         /\ match[i].out \in Seq(T)
                         /\ match[i].end = i => s[i] \in T

(* Where a pass looks next when it has looked at j, and what it puts out.  *)
After(match, j) == IF match[j].end = j THEN j + 1 ELSE match[j].end
Put(match, s, j) == IF match[j].end = j THEN <<s[j]>> ELSE match[j].out

(* What the loop of a pass does at each position.                          *)
Unfolds(done, match, s, T) ==
    /\ done \in [0..Len(s) -> [next : Int, out : Seq(T)]]
    /\ done[0] = [next |-> 1, out |-> <<>>]
    /\ \A i \in 1..Len(s) :
           done[i] = IF i < done[i - 1].next THEN done[i - 1]
                     ELSE [next |-> After(match, i),
                           out |-> done[i - 1].out \o Put(match, s, i)]

(* It does so, and puts out lexemes of T all along.                        *)
LEMMA RewritingUnfolds ==
  ASSUME NEW X, NEW s \in Seq(X), NEW T, NEW match, PutsOut(match, s, T)
  PROVE  Unfolds(Rewriting(match, s), match, s, T)
<1> DEFINE n == Len(s)
           S == [next : Int, out : Seq(T)]
           base == [next |-> 1, out |-> <<>>]
           Next1(prev, i) ==
             LET m == match[i]
             IN  IF i < prev.next THEN prev
                 ELSE IF m.end = i
                 THEN [next |-> i + 1, out |-> Append(prev.out, s[i])]
                 ELSE [next |-> m.end, out |-> prev.out \o m.out]
           step == [p \in S \X (1..n) |-> Next1(p[1], p[2])]
           LoopBody(g) == [i \in 0..n |-> IF i = 0 THEN base ELSE Next1(g[i - 1], i)]
<1>1. n \in Nat /\ base \in S
  OBVIOUS
<1>2. ASSUME NEW prev \in S, NEW i \in 1..n PROVE Next1(prev, i) \in S
  <2>1. /\ match[i].end \in Int /\ match[i].out \in Seq(T)
        /\ match[i].end = i => s[i] \in T
    BY DEF PutsOut
  <2>2. prev.out \in Seq(T) /\ prev.next \in Int
    OBVIOUS
  <2>3. match[i].end = i => Append(prev.out, s[i]) \in Seq(T)
    BY <2>1, <2>2
  <2>4. prev.out \o match[i].out \in Seq(T)
    BY <2>1, <2>2
  <2> QED
    BY <2>1, <2>3, <2>4
<1>3. step \in [S \X (1..n) -> S]
  <2> HIDE DEF Next1
  <2> QED
    BY <1>2
<1>4. PICK f : Runs(f, n, S, base, step)
  <2> HIDE DEF step, base, S, n
  <2> QED
    BY <1>1, <1>3, LoopRuns
<1>5. \A i \in 0..n : i # 0 => step[<<f[i - 1], i>>] = Next1(f[i - 1], i)
  <2> SUFFICES ASSUME NEW i \in 0..n, i # 0
               PROVE  step[<<f[i - 1], i>>] = Next1(f[i - 1], i)
    OBVIOUS
  <2>1. i \in 1..n /\ f[i - 1] \in S
    BY <1>1, <1>4 DEF Runs
  <2> HIDE DEF Next1, S
  <2> QED
    BY <2>1
<1>6. f = LoopBody(f)
  <2> HIDE DEF step, Next1, base, S
  <2> QED
    BY <1>4, <1>5 DEF Runs
<1>7. Rewriting(match, s) = CHOOSE g : g = LoopBody(g)
  BY DEF Rewriting
<1> DEFINE done == Rewriting(match, s)
<1>8. done = LoopBody(done)
  <2> HIDE DEF LoopBody
  <2>1. done = CHOOSE g : g = LoopBody(g)
    BY <1>7
  <2>2. \E g : g = LoopBody(g)
    BY <1>6
  <2> HIDE DEF done
  <2> QED
    BY <2>1, <2>2, Zenon
<1> HIDE DEF done, Next1, base, S, n
<1>9. done[0] = base /\ \A i \in 1..n : done[i] = Next1(done[i - 1], i)
  <2>1. \A i \in 0..n : done[i] = IF i = 0 THEN base ELSE Next1(done[i - 1], i)
    BY <1>8
  <2> QED
    BY <1>1, <2>1
<1> DEFINE Bad == {i \in 0..n : done[i] \notin S}
<1>10. Bad = {}
  <2>1. \A i \in 1..n : i \in Bad => i - 1 \in Bad
    BY <1>1, <1>2, <1>9
  <2>2. Bad \subseteq 0..n /\ 0 \notin Bad
    BY <1>1, <1>9
  <2> HIDE DEF Bad
  <2> QED
    BY <1>1, <2>1, <2>2, LoopKeeps
<1>11. done \in [0..n -> S]
  <2>1. done = [i \in 0..n |-> done[i]]
    BY <1>8
  <2> QED
    BY <1>10, <2>1
<1>12. ASSUME NEW i \in 1..n
       PROVE  done[i] = IF i < done[i - 1].next THEN done[i - 1]
                        ELSE [next |-> After(match, i),
                              out |-> done[i - 1].out \o Put(match, s, i)]
  <2> DEFINE prev == done[i - 1]
  <2>1. prev \in S /\ done[i] = Next1(prev, i)
    BY <1>1, <1>9, <1>11
  <2>2. prev.out \in Seq(T)
    BY <2>1 DEF S
  <2>3. match[i].end = i => Append(prev.out, s[i]) = prev.out \o <<s[i]>>
    <3>1. match[i].end = i => s[i] \in T
      BY DEF PutsOut, n
    <3> QED
      BY <2>2, <3>1, AppendIsConcat
  <2> HIDE DEF prev
  <2>4. Next1(prev, i) = IF i < prev.next THEN prev
                         ELSE [next |-> After(match, i), out |-> prev.out \o Put(match, s, i)]
    BY <2>3 DEF Next1, After, Put
  <2> QED
    BY <2>1, <2>4 DEF prev
<1> QED
  BY <1>9, <1>11, <1>12 DEF done, n, S, base, Unfolds

(* So then does the whole pass of the rule.                                *)
LEMMA RewritingIs ==
  ASSUME NEW X, NEW s \in Seq(X), NEW T, NEW match, PutsOut(match, s, T)
  PROVE  Rewriting(match, s)[Len(s)].out \in Seq(T)
<1>1. Len(s) \in 0..Len(s)
  OBVIOUS
<1> QED
  BY <1>1, RewritingUnfolds DEF Unfolds

-----------------------------------------------------------------------------
(***************************************************************************)
(* The payload.                                                            *)
(***************************************************************************)

(* The encoding of a text grows by the escape of each of its lexemes.      *)
LEMMA EncodingIs ==
  ASSUME NEW X, {"bs", "n", "quote"} \subseteq X, NEW s \in Seq(X)
  PROVE  LET code == Encoding(s)
         IN  /\ \A i \in 0..Len(s) : code[i] \in Seq(X)
             /\ code[0] = <<>>
             /\ \A i \in 1..Len(s) : code[i] = code[i - 1] \o Escape(s[i])
<1> DEFINE n == Len(s)
           S == Seq(X)
           base == <<>>
           Next1(prev, i) ==
             prev \o Escape(s[i])
           step == [p \in S \X (1..n) |-> Next1(p[1], p[2])]
           LoopBody(g) == [i \in 0..n |-> IF i = 0 THEN base ELSE Next1(g[i - 1], i)]
<1>1. n \in Nat /\ base \in S
  OBVIOUS
<1>2. ASSUME NEW prev \in S, NEW i \in 1..n PROVE Next1(prev, i) \in S
  <2>1. s[i] \in X
    OBVIOUS
  <2>2. Escape(s[i]) \in Seq(X)
    BY <2>1 DEF Escape
  <2> QED
    BY <2>2
<1>3. step \in [S \X (1..n) -> S]
  <2> HIDE DEF Next1
  <2> QED
    BY <1>2
<1>4. PICK f : Runs(f, n, S, base, step)
  <2> HIDE DEF step, base, S, n
  <2> QED
    BY <1>1, <1>3, LoopRuns
<1>5. \A i \in 0..n : i # 0 => step[<<f[i - 1], i>>] = Next1(f[i - 1], i)
  <2> SUFFICES ASSUME NEW i \in 0..n, i # 0
               PROVE  step[<<f[i - 1], i>>] = Next1(f[i - 1], i)
    OBVIOUS
  <2>1. i \in 1..n /\ f[i - 1] \in S
    BY <1>1, <1>4 DEF Runs
  <2> HIDE DEF Next1, S
  <2> QED
    BY <2>1
<1>6. f = LoopBody(f)
  <2> HIDE DEF step, Next1, base, S
  <2> QED
    BY <1>4, <1>5 DEF Runs
<1>7. Encoding(s) = CHOOSE g : g = LoopBody(g)
  BY DEF Encoding
<1> DEFINE code == Encoding(s)
<1>8. code = LoopBody(code)
  <2> HIDE DEF LoopBody
  <2>1. code = CHOOSE g : g = LoopBody(g)
    BY <1>7
  <2>2. \E g : g = LoopBody(g)
    BY <1>6
  <2> HIDE DEF code
  <2> QED
    BY <2>1, <2>2, Zenon
<1> HIDE DEF code, Next1, base, S, n
<1>9. code[0] = base /\ \A i \in 1..n : code[i] = Next1(code[i - 1], i)
  <2>1. \A i \in 0..n : code[i] = IF i = 0 THEN base ELSE Next1(code[i - 1], i)
    BY <1>8
  <2> QED
    BY <1>1, <2>1
<1> DEFINE Bad == {i \in 0..n : code[i] \notin S}
<1>10. Bad = {}
  <2>1. \A i \in 1..n : i \in Bad => i - 1 \in Bad
    BY <1>1, <1>2, <1>9
  <2>2. Bad \subseteq 0..n /\ 0 \notin Bad
    BY <1>1, <1>9
  <2> HIDE DEF Bad
  <2> QED
    BY <1>1, <2>1, <2>2, LoopKeeps
<1>11. \A i \in 0..n : code[i] \in S
  BY <1>10
<1> QED
  BY <1>9, <1>11 DEF code, n, S, base, Next1

(* The inside of a literal has the lexemes of the text and of escapes.     *)
LEMMA EncodeIs ==
  ASSUME NEW X, {"bs", "n", "quote"} \subseteq X, NEW s \in Seq(X)
  PROVE  Encode(s) \in Seq(X)
<1>1. Len(s) \in 0..Len(s)
  OBVIOUS
<1> QED
  BY <1>1, EncodingIs DEF Encode

(* What the reader makes of the lexeme at i.                               *)
ReadStep(s, prev, i) ==
    LET x == s[i]
    IN  IF prev.escaped
        THEN [text |-> Append(prev.text, IF x = "n" THEN "nl" ELSE x),
              escaped |-> FALSE, valid |-> prev.valid /\ x \in {"n", "quote"}]
        ELSE IF x = "bs"
        THEN [text |-> prev.text, escaped |-> TRUE, valid |-> prev.valid]
        ELSE [text |-> Append(prev.text, x), escaped |-> FALSE,
              valid |-> prev.valid /\ x \notin {"quote", "nl"}]

(* A literal is read lexeme by lexeme.                                     *)
LEMMA ReadingIs ==
  ASSUME NEW X, "nl" \in X, NEW s \in Seq(X)
  PROVE  LET read == Reading(s)
         IN  /\ read[0] = [text |-> <<>>, escaped |-> FALSE, valid |-> TRUE]
             /\ \A i \in 1..Len(s) : read[i] = ReadStep(s, read[i - 1], i)
             /\ \A i \in 0..Len(s) :
                    read[i] \in [text : Seq(X), escaped : BOOLEAN, valid : BOOLEAN]
<1> DEFINE n == Len(s)
           S == [text : Seq(X), escaped : BOOLEAN, valid : BOOLEAN]
           base == [text |-> <<>>, escaped |-> FALSE, valid |-> TRUE]
           Next1(prev, i) == ReadStep(s, prev, i)
           step == [p \in S \X (1..n) |-> Next1(p[1], p[2])]
           LoopBody(g) == [i \in 0..n |-> IF i = 0 THEN base ELSE Next1(g[i - 1], i)]
<1>1. n \in Nat /\ base \in S
  OBVIOUS
<1>2. ASSUME NEW prev \in S, NEW i \in 1..n PROVE Next1(prev, i) \in S
  <2>1. s[i] \in X /\ prev.text \in Seq(X) /\ prev.valid \in BOOLEAN
    OBVIOUS
  <2>2. /\ Append(prev.text, IF s[i] = "n" THEN "nl" ELSE s[i]) \in Seq(X)
        /\ Append(prev.text, s[i]) \in Seq(X)
    BY <2>1
  <2> QED
    BY <2>1, <2>2 DEF ReadStep
<1>3. step \in [S \X (1..n) -> S]
  <2> HIDE DEF Next1
  <2> QED
    BY <1>2
<1>4. PICK f : Runs(f, n, S, base, step)
  <2> HIDE DEF step, base, S, n
  <2> QED
    BY <1>1, <1>3, LoopRuns
<1>5. \A i \in 0..n : i # 0 => step[<<f[i - 1], i>>] = Next1(f[i - 1], i)
  <2> SUFFICES ASSUME NEW i \in 0..n, i # 0
               PROVE  step[<<f[i - 1], i>>] = Next1(f[i - 1], i)
    OBVIOUS
  <2> HIDE DEF Next1, S, base
  <2>1. i \in 1..n /\ f[i - 1] \in S
    BY <1>1, <1>4 DEF Runs
  <2> QED
    BY <2>1
<1>6. f = LoopBody(f)
  <2> HIDE DEF step, Next1, base, S
  <2> QED
    BY <1>4, <1>5 DEF Runs
<1>7. Reading(s) = CHOOSE g : g = LoopBody(g)
  BY DEF Reading, ReadStep
<1> DEFINE read == Reading(s)
<1>8. read = LoopBody(read)
  <2> HIDE DEF LoopBody
  <2>1. read = CHOOSE g : g = LoopBody(g)
    BY <1>7
  <2>2. \E g : g = LoopBody(g)
    BY <1>6
  <2> HIDE DEF read
  <2> QED
    BY <2>1, <2>2, Zenon
<1> HIDE DEF read, Next1, base, S, n
<1>9. read[0] = base /\ \A i \in 1..n : read[i] = Next1(read[i - 1], i)
  <2>1. \A i \in 0..n : read[i] = IF i = 0 THEN base ELSE Next1(read[i - 1], i)
    BY <1>8
  <2> QED
    BY <1>1, <2>1
<1> DEFINE Bad == {i \in 0..n : read[i] \notin S}
<1>10. Bad = {}
  <2>1. \A i \in 1..n : i \in Bad => i - 1 \in Bad
    BY <1>1, <1>2, <1>9
  <2>2. Bad \subseteq 0..n /\ 0 \notin Bad
    BY <1>1, <1>9
  <2> HIDE DEF Bad
  <2> QED
    BY <1>1, <2>1, <2>2, LoopKeeps
<1>11. \A i \in 0..n : read[i] \in S
  BY <1>10
<1> QED
  BY <1>9, <1>11 DEF read, n, S, base, Next1

(* What is read from a literal has its lexemes, and newlines.              *)
LEMMA ReadIs ==
  ASSUME NEW X, "nl" \in X, NEW s \in Seq(X)
  PROVE  Read(s).text \in Seq(X)
<1>1. Len(s) \in 0..Len(s)
  OBVIOUS
<1>2. Reading(s)[Len(s)] \in [text : Seq(X), escaped : BOOLEAN, valid : BOOLEAN]
  BY <1>1, ReadingIs
<1> QED
  BY <1>2 DEF Read

(* So has the whole payload, and what is decoded from one.                 *)
LEMMA PayloadIs ==
  ASSUME NEW X, {"lbrace", "rbrace", "quote", "word", "sep", "comma", "bs", "n"} \subseteq X,
         NEW s \in Seq(X)
  PROVE  Payload(s) \in Seq(X)
<1>1. Encode(s) \in Seq(X)
  BY EncodeIs
<1>2. Open \in Seq(X) /\ Close \in Seq(X)
  BY DEF Open, Close
<1>3. Open \o Encode(s) \in Seq(X)
  BY <1>1, <1>2, Joined
<1> QED
  BY <1>2, <1>3, Joined DEF Payload

(* The same, of any sequence, whether it parses or not: a part of it that  *)
(* is read.                                                                *)
LEMMA DecodedIs ==
  ASSUME NEW X, "nl" \in X, NEW s \in Seq(X), Parses(s)
  PROVE  Decoded(s) \in Seq(X)
<1>1. Inside(s) \in Seq(X)
  <2>1. Len(Open) = 6 /\ Len(Close) = 10
    BY DEF Open, Close
  <2>2. Len(s) >= 16 /\ Len(s) \in Nat
    BY <2>1 DEF Parses
  <2> QED
    BY <2>1, <2>2 DEF Inside
<1> QED
  BY <1>1, ReadIs DEF Decoded

-----------------------------------------------------------------------------
(***************************************************************************)
(* The rules.                                                              *)
(***************************************************************************)

(* What stands at a position, if any does.                                 *)
LEMMA AtIs ==
  ASSUME NEW X, NEW s \in Seq(X), NEW i, NEW x, x # "end", At(s, i) = x
  PROVE  i \in 1..Len(s) /\ s[i] = x
BY DEF At

(* Skipping ends within the text or right behind it, and does not begin    *)
(* on what is not to be skipped.                                           *)
LEMMA SkipIs ==
  ASSUME NEW X, NEW s \in Seq(X), NEW i \in Nat, NEW class
  PROVE  /\ Skip(s, i, class) \in 0..(Len(s) + 1)
         /\ i \in 1..Len(s) /\ s[i] \notin class => Skip(s, i, class) = i
<1> DEFINE stops == {j \in i..Len(s) : s[j] \notin class}
<1>1. Len(s) \in Nat
  OBVIOUS
<1>2. CASE stops = {}
  BY <1>1, <1>2 DEF Skip
<1>3. CASE stops # {}
  <2>1. stops \subseteq Nat /\ stops \subseteq i..Len(s)
    OBVIOUS
  <2>2. Skip(s, i, class) = Min(stops)
    BY <1>3 DEF Skip
  <2>3. i \in 1..Len(s) /\ s[i] \notin class => i \in stops
    BY <1>1
  <2> HIDE DEF stops
  <2>4. \E x \in stops : \A y \in stops : x <= y
    BY <1>3, <2>1, FirstOf
  <2>5. Min(stops) \in stops /\ \A y \in stops : Min(stops) <= y
    BY <2>4 DEF Min
  <2>6. Min(stops) \in i..Len(s)
    BY <2>1, <2>5
  <2>7. i \in stops => Min(stops) = i
    BY <2>5, <2>6
  <2> QED
    BY <1>1, <2>2, <2>3, <2>6, <2>7
<1> QED
  BY <1>2, <1>3

(* A lexeme that may be there is part of the text.                         *)
LEMMA OptionalIs ==
  ASSUME NEW X, NEW s \in Seq(X), NEW i \in 0..(Len(s) + 1), NEW x, x # "end"
  PROVE  Optional(s, i, x) \in 0..(Len(s) + 1)
<1>1. CASE At(s, i) = x
  <2>1. i \in 1..Len(s)
    BY <1>1, AtIs
  <2> QED
    BY <1>1, <2>1 DEF Optional
<1>2. CASE At(s, i) # x
  BY <1>2 DEF Optional
<1> QED
  BY <1>1, <1>2

(* A separator and the space around it are part of the text.               *)
LEMMA AfterSepIs ==
  ASSUME NEW X, NEW s \in Seq(X), NEW i \in 0..(Len(s) + 1)
  PROVE  AfterSep(s, i) \in 0..(Len(s) + 1)
<1> DEFINE j == Skip(s, i, Space)
<1>1. Len(s) \in Nat /\ i \in Nat
  OBVIOUS
<1>2. j \in 0..(Len(s) + 1)
  BY <1>1, SkipIs
<1> HIDE DEF j
<1>3. Skip(s, j + 1, Space) \in 0..(Len(s) + 1)
  <2>1. j + 1 \in Nat
    BY <1>1, <1>2
  <2> QED
    BY <2>1, SkipIs
<1> QED
  BY <1>1, <1>3 DEF AfterSep, j

(* What a replacement keeps of a match is part of the text.                *)
LEMMA KeptIs ==
  ASSUME NEW X, NEW s \in Seq(X), NEW i \in 1..Len(s), NEW j \in 0..(Len(s) + 1), NEW x \in X
  PROVE  /\ Kept(s, i, j) \in Seq(X)
         /\ Kept(s, i, j) \o <<x>> \in Seq(X)
         /\ \A y \in X : Kept(s, i, j) \o <<x, y>> \in Seq(X)
<1>1. Kept(s, i, j) \in Seq(X)
  BY DEF Kept
<1>2. <<x>> \in Seq(X) /\ \A y \in X : <<x, y>> \in Seq(X)
  OBVIOUS
<1> QED
  BY <1>1, <1>2, Joined

(* A match keeps the lexemes of the text and adds what stands for others.  *)
Fits(m, X) == m.end \in Int /\ m.out \in Seq(X)

(* A rule that finds nothing fits.                                         *)
LEMMA NoMatchIs ==
  ASSUME NEW X, NEW i \in Int
  PROVE  NoMatch(i).end = i /\ Fits(NoMatch(i), X)
BY DEF NoMatch, Fits

(* So does one that finds something, if what it puts out does.             *)
LEMMA MatchIs ==
  ASSUME NEW X, NEW end \in Int, NEW out \in Seq(X)
  PROVE  Match(end, out).end = end /\ Fits(Match(end, out), X)
BY DEF Match, Fits

(* The value of an authorization header goes, and of an address or an IPv6 *)
(* address that touches it a rest stays.                                   *)
LEMMA AuthHeaderFits ==
  ASSUME NEW X, {"AUTH", "at", "ip6"} \subseteq X, NEW s \in Seq(X), NEW i \in 1..Len(s)
  PROVE  Fits(AuthHeader(s, i), X)
<1> DEFINE opt == Optional(s, Skip(s, i + 1, Space), "quote")
           value == Optional(s, AfterSep(s, opt), "quote")
           scheme == Skip(s, value + 1, Space)
           start == IF /\ At(s, value) = "bearer"
                       /\ scheme > value + 1
                       /\ At(s, scheme) \in Credential \cup Torn
                    THEN scheme ELSE value
           end == Skip(s, start, Credential)
           rest == <<"AUTH", Remainder(s[end])>>
<1>1. Len(s) \in Nat /\ i + 1 \in Nat /\ i \in Int
  OBVIOUS
<1>2. opt \in 0..(Len(s) + 1)
  BY <1>1, SkipIs, OptionalIs
<1> HIDE DEF opt
<1>3. value \in 0..(Len(s) + 1)
  BY <1>2, AfterSepIs, OptionalIs
<1> HIDE DEF value
<1>4. scheme \in Nat
  BY <1>1, <1>3, SkipIs
<1> HIDE DEF scheme
<1>5. start \in Nat
  BY <1>3, <1>4
<1> HIDE DEF start
<1>6. end \in Nat
  BY <1>1, <1>5, SkipIs
<1> HIDE DEF end
<1>7. /\ Kept(s, i, value) \o <<"AUTH">> \in Seq(X)
      /\ Kept(s, i, value) \o rest \in Seq(X)
  <2>1. Remainder(s[end]) \in X
    BY DEF Remainder
  <2> QED
    BY <1>3, <2>1, KeptIs
<1> HIDE DEF rest
<1>8. /\ Fits(NoMatch(i), X)
      /\ Fits(Match(end + 1, Kept(s, i, value) \o rest), X)
      /\ Fits(Match(end, Kept(s, i, value) \o <<"AUTH">>), X)
  <2>1. end \in Int /\ end + 1 \in Int
    BY <1>6
  <2> QED
    BY <1>1, <1>7, <2>1, NoMatchIs, MatchIs
<1>9. AuthHeader(s, i) =
        IF At(s, i) # "auth" \/ At(s, start) \notin Credential \cup Torn
        THEN NoMatch(i)
        ELSE IF At(s, end) \in Torn
             THEN Match(end + 1, Kept(s, i, value) \o rest)
             ELSE Match(end, Kept(s, i, value) \o <<"AUTH">>)
  BY Zenon DEF AuthHeader, opt, value, scheme, start, end, rest
<1> QED
  BY <1>8, <1>9

(* An opaque token behind the scheme word goes with it.                    *)
LEMMA BearerTokenFits ==
  ASSUME NEW X, "TOKEN" \in X, NEW s \in Seq(X), NEW i \in 1..Len(s)
  PROVE  Fits(BearerToken(s, i), X)
<1> DEFINE start == Skip(s, i + 1, Space)
           end == Skip(s, start, Credential)
<1>1. start \in Nat
  BY SkipIs
<1> HIDE DEF start
<1>2. end \in Int /\ i \in Int
  BY <1>1, SkipIs
<1> HIDE DEF end
<1>3. BearerToken(s, i) \in {Match(end, <<"TOKEN">>), NoMatch(i)}
  BY DEF BearerToken, start, end
<1>4. <<"TOKEN">> \in Seq(X)
  OBVIOUS
<1> QED
  BY <1>2, <1>3, <1>4, MatchIs, NoMatchIs

(* Every JWT goes.                                                         *)
LEMMA JwtFits ==
  ASSUME NEW X, "TOKEN" \in X, NEW s, NEW i \in 1..Len(s)
  PROVE  /\ Fits(Jwt(s, i), X)
         /\ Jwt(s, i).end = i => s[i] # "jwt"
<1>1. Jwt(s, i) = IF s[i] = "jwt" THEN Match(i + 1, <<"TOKEN">>) ELSE NoMatch(i)
  BY DEF Jwt, At
<1>2. <<"TOKEN">> \in Seq(X) /\ i \in Int /\ i + 1 \in Int /\ i + 1 # i
  OBVIOUS
<1> QED
  BY <1>1, <1>2, MatchIs, NoMatchIs, ZenonT(30)

(* A key at a word boundary goes.                                          *)
LEMMA ProviderKeyFits ==
  ASSUME NEW X, "TOKEN" \in X, NEW s \in Seq(X), NEW i \in 1..Len(s)
  PROVE  Fits(ProviderKey(s, i), X)
<1>1. ProviderKey(s, i) \in {Match(i + 1, <<"TOKEN">>), NoMatch(i)}
  BY DEF ProviderKey
<1>2. <<"TOKEN">> \in Seq(X) /\ i \in Int /\ i + 1 \in Int
  OBVIOUS
<1> QED
  BY <1>1, <1>2, MatchIs, NoMatchIs

(* The value of a secret-named key goes, the key stays.                    *)
LEMMA SecretFits ==
  ASSUME NEW X, "TOKEN" \in X, NEW s \in Seq(X), NEW i \in 1..Len(s)
  PROVE  Fits(Secret(s, i), X)
<1> DEFINE opt == Optional(s, i + 1, "quote")
           sep == AfterSep(s, opt)
           value == Optional(s, sep, "quote")
           end == Skip(s, value, SecretValue)
<1>1. Len(s) \in Nat /\ i + 1 \in 0..(Len(s) + 1) /\ i \in Int
  OBVIOUS
<1>2. opt \in 0..(Len(s) + 1)
  BY <1>1, OptionalIs
<1> HIDE DEF opt
<1>3. sep \in 0..(Len(s) + 1)
  BY <1>2, AfterSepIs
<1> HIDE DEF sep
<1>4. value \in 0..(Len(s) + 1)
  BY <1>3, OptionalIs
<1> HIDE DEF value
<1>5. end \in Int
  BY <1>1, <1>4, SkipIs
<1> HIDE DEF end
<1>6. Kept(s, i, value) \o <<"TOKEN">> \in Seq(X)
  BY <1>4, KeptIs
<1>7. Secret(s, i) \in {Match(end, Kept(s, i, value) \o <<"TOKEN">>), NoMatch(i)}
  BY DEF Secret, opt, sep, value, end
<1> QED
  BY <1>1, <1>5, <1>6, <1>7, MatchIs, NoMatchIs

(* Every address goes: with no local part before it, it is a match itself. *)
LEMMA EmailFits ==
  ASSUME NEW X, NEW T, "EMAIL" \in T, NEW s \in Seq(X), NEW i \in 1..Len(s)
  PROVE  /\ Fits(Email(s, i), T)
         /\ Email(s, i).end = i => s[i] # "email"
<1> DEFINE at == Skip(s, i, LocalPart)
<1>1. /\ at \in Nat /\ i \in Int /\ at + 1 \in Int
      /\ s[i] \notin LocalPart => at = i
  BY SkipIs
<1>2. "email" \notin LocalPart
  BY DEF LocalPart, Credential, Torn
<1> HIDE DEF at
<1>3. Email(s, i) = IF At(s, at) = "email" THEN Match(at + 1, <<"EMAIL">>) ELSE NoMatch(i)
  BY DEF Email, at
<1>4. <<"EMAIL">> \in Seq(T)
  OBVIOUS
<1>5. CASE s[i] = "email"
  <2>1. At(s, at) = "email" /\ at + 1 # i
    BY <1>1, <1>2, <1>5 DEF At
  <2> QED
    BY <1>1, <1>3, <1>4, <2>1, MatchIs
<1> QED
  BY <1>1, <1>3, <1>4, <1>5, MatchIs, NoMatchIs, ZenonT(30)

(* Every IPv6 address goes.                                                *)
LEMMA IPv6Fits ==
  ASSUME NEW X, "IP" \in X, NEW s, NEW i \in 1..Len(s)
  PROVE  /\ Fits(IPv6(s, i), X)
         /\ IPv6(s, i).end = i => s[i] \notin {"ip6", "full6"}
<1>1. IPv6(s, i) = IF s[i] \in {"ip6", "full6"} THEN Match(i + 1, <<"IP">>) ELSE NoMatch(i)
  BY DEF IPv6, At
<1>2. <<"IP">> \in Seq(X) /\ i \in Int /\ i + 1 \in Int /\ i + 1 # i
  OBVIOUS
<1> QED
  BY <1>1, <1>2, MatchIs, NoMatchIs, ZenonT(30)

(* An IPv4 address at a word boundary goes.                                *)
LEMMA IPv4Fits ==
  ASSUME NEW X, "IP" \in X, NEW s \in Seq(X), NEW i \in 1..Len(s)
  PROVE  Fits(IPv4(s, i), X)
<1>1. IPv4(s, i) \in {Match(i + 1, <<"IP">>), NoMatch(i)}
  BY DEF IPv4
<1>2. <<"IP">> \in Seq(X) /\ i \in Int /\ i + 1 \in Int
  OBVIOUS
<1> QED
  BY <1>1, <1>2, MatchIs, NoMatchIs

(* A quoted name goes, its quotes stay.                                    *)
LEMMA NameQuotedFits ==
  ASSUME NEW X, {"NAME", "quote"} \subseteq X, NEW s \in Seq(X), NEW i \in 1..Len(s)
  PROVE  Fits(NameQuoted(s, i), X)
<1> DEFINE opt == Optional(s, i + 1, "quote")
           open == AfterSep(s, opt)
           close == Skip(s, open + 1, QuotedName)
           found == Match(close + 1, Kept(s, i, open + 1) \o <<"NAME", "quote">>)
<1>1. Len(s) \in Nat /\ i + 1 \in 0..(Len(s) + 1) /\ i \in Int
  OBVIOUS
<1>2. opt \in 0..(Len(s) + 1)
  BY <1>1, OptionalIs
<1> HIDE DEF opt
<1>3. open \in 0..(Len(s) + 1)
  BY <1>2, AfterSepIs
<1> HIDE DEF open
<1>4. close + 1 \in Int
  BY <1>1, <1>3, SkipIs
<1>5. ASSUME At(s, open) = "quote" PROVE Fits(found, X)
  <2>1. open + 1 \in 0..(Len(s) + 1)
    BY <1>1, <1>5, AtIs
  <2> HIDE DEF close
  <2>2. Kept(s, i, open + 1) \o <<"NAME", "quote">> \in Seq(X)
    BY <2>1, KeptIs
  <2> QED
    BY <1>4, <2>2, MatchIs
<1>6. NameQuoted(s, i) = NoMatch(i) \/ (At(s, open) = "quote" /\ NameQuoted(s, i) = found)
  BY DEF NameQuoted, opt, open
<1> QED
  BY <1>1, <1>5, <1>6, NoMatchIs

(* A bare name goes, the key stays.                                        *)
LEMMA NameBareFits ==
  ASSUME NEW X, "NAME" \in X, NEW s \in Seq(X), NEW i \in 1..Len(s)
  PROVE  Fits(NameBare(s, i), X)
<1> DEFINE start == AfterSep(s, i + 1)
           end == Skip(s, start, BareName)
<1>1. Len(s) \in Nat /\ i + 1 \in 0..(Len(s) + 1) /\ i \in Int
  OBVIOUS
<1>2. start \in 0..(Len(s) + 1)
  BY <1>1, AfterSepIs
<1> HIDE DEF start
<1>3. end \in Int
  BY <1>1, <1>2, SkipIs
<1> HIDE DEF end
<1>4. Kept(s, i, start) \o <<"NAME">> \in Seq(X)
  BY <1>2, KeptIs
<1>5. NameBare(s, i) \in {Match(end, Kept(s, i, start) \o <<"NAME">>), NoMatch(i)}
  BY DEF NameBare, start, end
<1> QED
  BY <1>1, <1>3, <1>4, <1>5, MatchIs, NoMatchIs

-----------------------------------------------------------------------------
(***************************************************************************)
(* The pass: each rule applied to a whole text.                            *)
(***************************************************************************)

(* The pass over authorization headers keeps to the lexemes of the text.   *)
LEMMA AuthHeaderKeeps ==
  ASSUME NEW X, {"AUTH", "at", "ip6"} \subseteq X, NEW s \in Seq(X)
  PROVE  Rewrite(AuthHeader, s) \in Seq(X)
<1> DEFINE match == [i \in DOMAIN s |-> AuthHeader(s, i)]
<1>1. \A i \in 1..Len(s) : Fits(match[i], X) /\ s[i] \in X
  BY AuthHeaderFits
<1> HIDE DEF match
<1>2. PutsOut(match, s, X)
  BY <1>1 DEF PutsOut, Fits
<1>3. Rewriting(match, s)[Len(s)].out \in Seq(X)
  BY <1>2, RewritingIs
<1> QED
  BY <1>3 DEF Rewrite, match

(* So does the one over bearer tokens,                                     *)
LEMMA BearerTokenKeeps ==
  ASSUME NEW X, "TOKEN" \in X, NEW s \in Seq(X)
  PROVE  Rewrite(BearerToken, s) \in Seq(X)
<1> DEFINE match == [i \in DOMAIN s |-> BearerToken(s, i)]
<1>1. \A i \in 1..Len(s) : Fits(match[i], X) /\ s[i] \in X
  BY BearerTokenFits
<1> HIDE DEF match
<1>2. PutsOut(match, s, X)
  BY <1>1 DEF PutsOut, Fits
<1>3. Rewriting(match, s)[Len(s)].out \in Seq(X)
  BY <1>2, RewritingIs
<1> QED
  BY <1>3 DEF Rewrite, match

(* the one over provider keys,                                             *)
LEMMA ProviderKeyKeeps ==
  ASSUME NEW X, "TOKEN" \in X, NEW s \in Seq(X)
  PROVE  Rewrite(ProviderKey, s) \in Seq(X)
<1> DEFINE match == [i \in DOMAIN s |-> ProviderKey(s, i)]
<1>1. \A i \in 1..Len(s) : Fits(match[i], X) /\ s[i] \in X
  BY ProviderKeyFits
<1> HIDE DEF match
<1>2. PutsOut(match, s, X)
  BY <1>1 DEF PutsOut, Fits
<1>3. Rewriting(match, s)[Len(s)].out \in Seq(X)
  BY <1>2, RewritingIs
<1> QED
  BY <1>3 DEF Rewrite, match

(* the one over secrets,                                                   *)
LEMMA SecretKeeps ==
  ASSUME NEW X, "TOKEN" \in X, NEW s \in Seq(X)
  PROVE  Rewrite(Secret, s) \in Seq(X)
<1> DEFINE match == [i \in DOMAIN s |-> Secret(s, i)]
<1>1. \A i \in 1..Len(s) : Fits(match[i], X) /\ s[i] \in X
  BY SecretFits
<1> HIDE DEF match
<1>2. PutsOut(match, s, X)
  BY <1>1 DEF PutsOut, Fits
<1>3. Rewriting(match, s)[Len(s)].out \in Seq(X)
  BY <1>2, RewritingIs
<1> QED
  BY <1>3 DEF Rewrite, match

(* the one over IPv4 addresses,                                            *)
LEMMA IPv4Keeps ==
  ASSUME NEW X, "IP" \in X, NEW s \in Seq(X)
  PROVE  Rewrite(IPv4, s) \in Seq(X)
<1> DEFINE match == [i \in DOMAIN s |-> IPv4(s, i)]
<1>1. \A i \in 1..Len(s) : Fits(match[i], X) /\ s[i] \in X
  BY IPv4Fits
<1> HIDE DEF match
<1>2. PutsOut(match, s, X)
  BY <1>1 DEF PutsOut, Fits
<1>3. Rewriting(match, s)[Len(s)].out \in Seq(X)
  BY <1>2, RewritingIs
<1> QED
  BY <1>3 DEF Rewrite, match

(* the one over quoted names,                                              *)
LEMMA NameQuotedKeeps ==
  ASSUME NEW X, {"NAME", "quote"} \subseteq X, NEW s \in Seq(X)
  PROVE  Rewrite(NameQuoted, s) \in Seq(X)
<1> DEFINE match == [i \in DOMAIN s |-> NameQuoted(s, i)]
<1>1. \A i \in 1..Len(s) : Fits(match[i], X) /\ s[i] \in X
  BY NameQuotedFits
<1> HIDE DEF match
<1>2. PutsOut(match, s, X)
  BY <1>1 DEF PutsOut, Fits
<1>3. Rewriting(match, s)[Len(s)].out \in Seq(X)
  BY <1>2, RewritingIs
<1> QED
  BY <1>3 DEF Rewrite, match

(* and the one over bare names.                                            *)
LEMMA NameBareKeeps ==
  ASSUME NEW X, "NAME" \in X, NEW s \in Seq(X)
  PROVE  Rewrite(NameBare, s) \in Seq(X)
<1> DEFINE match == [i \in DOMAIN s |-> NameBare(s, i)]
<1>1. \A i \in 1..Len(s) : Fits(match[i], X) /\ s[i] \in X
  BY NameBareFits
<1> HIDE DEF match
<1>2. PutsOut(match, s, X)
  BY <1>1 DEF PutsOut, Fits
<1>3. Rewriting(match, s)[Len(s)].out \in Seq(X)
  BY <1>2, RewritingIs
<1> QED
  BY <1>3 DEF Rewrite, match

(* No JWT is left by its rule.                                             *)
LEMMA JwtMasks ==
  ASSUME NEW X, "TOKEN" \in X, NEW s \in Seq(X)
  PROVE  Rewrite(Jwt, s) \in Seq(X \ {"jwt"})
<1> DEFINE match == [i \in DOMAIN s |-> Jwt(s, i)]
           T == X \ {"jwt"}
<1>1. "TOKEN" \in T
  OBVIOUS
<1>2. \A i \in 1..Len(s) : /\ Fits(match[i], T)
                           /\ match[i].end = i => s[i] \in T
  <2> HIDE DEF T
  <2>1. \A i \in 1..Len(s) : /\ Fits(match[i], T)
                             /\ match[i].end = i => s[i] # "jwt"
    BY <1>1, JwtFits
  <2>2. \A i \in 1..Len(s) : s[i] # "jwt" => s[i] \in T
    BY DEF T
  <2> HIDE DEF match
  <2> QED
    BY <2>1, <2>2
<1> HIDE DEF match, T
<1>3. PutsOut(match, s, T)
  <2> SUFFICES ASSUME NEW i \in 1..Len(s)
               PROVE  /\ match[i].end \in Int
                      /\ match[i].out \in Seq(T)
                      /\ match[i].end = i => s[i] \in T
    BY DEF PutsOut
  <2>1. Fits(match[i], T)
    BY <1>2
  <2>2. match[i].end = i => s[i] \in T
    BY <1>2
  <2> QED
    BY <2>1, <2>2 DEF Fits
<1>4. Rewriting(match, s)[Len(s)].out \in Seq(T)
  BY <1>3, RewritingIs
<1> QED
  BY <1>4 DEF Rewrite, match, T

(* No address is left by its rule.                                         *)
LEMMA EmailMasks ==
  ASSUME NEW X, "EMAIL" \in X, NEW s \in Seq(X)
  PROVE  Rewrite(Email, s) \in Seq(X \ {"email"})
<1> DEFINE match == [i \in DOMAIN s |-> Email(s, i)]
           T == X \ {"email"}
<1>1. "EMAIL" \in T
  OBVIOUS
<1>2. \A i \in 1..Len(s) : /\ Fits(match[i], T)
                           /\ match[i].end = i => s[i] \in T
  <2> HIDE DEF T
  <2>1. \A i \in 1..Len(s) : /\ Fits(match[i], T)
                             /\ match[i].end = i => s[i] # "email"
    BY <1>1, EmailFits
  <2>2. \A i \in 1..Len(s) : s[i] # "email" => s[i] \in T
    BY DEF T
  <2> HIDE DEF match
  <2> QED
    BY <2>1, <2>2
<1> HIDE DEF match, T
<1>3. PutsOut(match, s, T)
  <2> SUFFICES ASSUME NEW i \in 1..Len(s)
               PROVE  /\ match[i].end \in Int
                      /\ match[i].out \in Seq(T)
                      /\ match[i].end = i => s[i] \in T
    BY DEF PutsOut
  <2>1. Fits(match[i], T)
    BY <1>2
  <2>2. match[i].end = i => s[i] \in T
    BY <1>2
  <2> QED
    BY <2>1, <2>2 DEF Fits
<1>4. Rewriting(match, s)[Len(s)].out \in Seq(T)
  BY <1>3, RewritingIs
<1> QED
  BY <1>4 DEF Rewrite, match, T

(* No IPv6 address is left by its rule.                                    *)
LEMMA IPv6Masks ==
  ASSUME NEW X, "IP" \in X, NEW s \in Seq(X)
  PROVE  Rewrite(IPv6, s) \in Seq(X \ {"ip6", "full6"})
<1> DEFINE match == [i \in DOMAIN s |-> IPv6(s, i)]
           T == X \ {"ip6", "full6"}
<1>1. "IP" \in T
  OBVIOUS
<1>2. \A i \in 1..Len(s) : /\ Fits(match[i], T)
                           /\ match[i].end = i => s[i] \in T
  <2> HIDE DEF T
  <2>1. \A i \in 1..Len(s) : /\ Fits(match[i], T)
                             /\ match[i].end = i => s[i] \notin {"ip6", "full6"}
    BY <1>1, IPv6Fits
  <2>2. \A i \in 1..Len(s) : s[i] \notin {"ip6", "full6"} => s[i] \in T
    BY DEF T
  <2> HIDE DEF match
  <2> QED
    BY <2>1, <2>2
<1> HIDE DEF match, T
<1>3. PutsOut(match, s, T)
  <2> SUFFICES ASSUME NEW i \in 1..Len(s)
               PROVE  /\ match[i].end \in Int
                      /\ match[i].out \in Seq(T)
                      /\ match[i].end = i => s[i] \in T
    BY DEF PutsOut
  <2>1. Fits(match[i], T)
    BY <1>2
  <2>2. match[i].end = i => s[i] \in T
    BY <1>2
  <2> QED
    BY <2>1, <2>2 DEF Fits
<1>4. Rewriting(match, s)[Len(s)].out \in Seq(T)
  BY <1>3, RewritingIs
<1> QED
  BY <1>4 DEF Rewrite, match, T

(* The whole pass leaves none that can be told by its shape: a later rule  *)
(* keeps parts of what it is given, and puts out placeholders only.        *)
LEMMA ScrubIs ==
  ASSUME NEW s \in Seq(Lexemes)
  PROVE  ScrubString(s) \in Seq(Masked)
<1> DEFINE L1 == Lexemes \ {"jwt"}
           L2 == L1 \ {"email"}
           L3 == L2 \ {"ip6", "full6"}
<1>1. /\ {"AUTH", "TOKEN", "EMAIL", "IP", "NAME", "at", "ip6", "quote"} \subseteq Lexemes
      /\ {"TOKEN", "EMAIL", "IP", "NAME", "quote"} \subseteq L1
      /\ {"IP", "NAME", "quote"} \subseteq L2
      /\ {"IP", "NAME", "quote"} \subseteq L3
      /\ L3 = Masked
  BY DEF Lexemes, Words, Marks, Placeholders, Masked
<1> DEFINE t1 == Rewrite(BearerToken, Rewrite(AuthHeader, s))
           t2 == Rewrite(Jwt, t1)
           t3 == Rewrite(ProviderKey, t2)
           t4 == Rewrite(Secret, t3)
           t5 == Rewrite(Email, t4)
           t6 == Rewrite(IPv6, t5)
           t7 == Rewrite(IPv4, t6)
           t8 == Rewrite(NameQuoted, t7)
           t9 == Rewrite(NameBare, t8)
<1>2. t9 = ScrubString(s)
  BY DEF ScrubString, RedactNames, RedactIPs, RedactEmails, RedactTokens
<1>3. t1 \in Seq(Lexemes)
  <2>1. Rewrite(AuthHeader, s) \in Seq(Lexemes)
    BY <1>1, AuthHeaderKeeps
  <2> QED
    BY <1>1, <2>1, BearerTokenKeeps
<1> HIDE DEF t1
<1>4. t2 \in Seq(L1)
  BY <1>1, <1>3, JwtMasks
<1> HIDE DEF t2, L1
<1>5. t3 \in Seq(L1)
  BY <1>1, <1>4, ProviderKeyKeeps
<1> HIDE DEF t3
<1>6. t4 \in Seq(L1)
  BY <1>1, <1>5, SecretKeeps
<1> HIDE DEF t4
<1>7. t5 \in Seq(L2)
  BY <1>1, <1>6, EmailMasks
<1> HIDE DEF t5, L2
<1>8. t6 \in Seq(L3)
  BY <1>1, <1>7, IPv6Masks
<1> HIDE DEF t6, L3
<1>9. t7 \in Seq(L3)
  BY <1>1, <1>8, IPv4Keeps
<1> HIDE DEF t7
<1>10. t8 \in Seq(L3)
  BY <1>1, <1>9, NameQuotedKeeps
<1> HIDE DEF t8
<1>11. t9 \in Seq(L3)
  BY <1>1, <1>10, NameBareKeeps
<1> HIDE DEF t9
<1> QED
  BY <1>1, <1>2, <1>11

-----------------------------------------------------------------------------
(***************************************************************************)
(* What a pass puts out where.                                             *)
(***************************************************************************)

(* A pass over s looks at the positions of stops and puts out, for j, what *)
(* stands in t behind the first at[j] letters.                             *)
Pass(match, s, t, stops, at) ==
    /\ stops \subseteq 1..(Len(s) + 1)
    /\ at \in [stops -> Nat]
    /\ 1 \in stops /\ at[1] = 0
    /\ \A j \in stops : j <= Len(s) =>
           /\ After(match, j) \in stops
           /\ at[After(match, j)] = at[j] + Len(Put(match, s, j))
           /\ Stands(t, at[j], Put(match, s, j))
    /\ \A j \in stops : j = Len(s) + 1 => at[j] = Len(t)
    /\ \A j \in stops : j > 1 => \E i \in stops : i <= Len(s) /\ After(match, i) = j
    /\ \A i, j \in stops : i < j => After(match, i) <= j /\ at[After(match, i)] <= at[j]
    /\ \A k \in 1..Len(t) :
           \E j \in stops : j <= Len(s) /\ \E x \in 1..Len(Put(match, s, j)) : k = at[j] + x
    /\ \A c \in 1..Len(s) : \E j \in stops : j <= c /\ c < After(match, j)

(* A match ends behind where it starts, and within the text.               *)
Advances(match, s) ==
    \A i \in 1..Len(s) : match[i].end \in i..(Len(s) + 1)

(* Every pass is one.                                                      *)
LEMMA PassIs ==
  ASSUME NEW X, NEW s \in Seq(X), NEW T, NEW match,
         PutsOut(match, s, T), Advances(match, s)
  PROVE  \E stops, at : Pass(match, s, Rewriting(match, s)[Len(s)].out, stops, at)
<1> DEFINE n == Len(s)
           done == Rewriting(match, s)
           t == done[n].out
           stops == {j \in 1..(n + 1) : done[j - 1].next = j}
           at == [j \in stops |-> Len(done[j - 1].out)]
<1>1. n \in Nat
  OBVIOUS
<1>2. /\ \A i \in 0..n : done[i].next \in Int /\ done[i].out \in Seq(T)
      /\ done[0].next = 1 /\ done[0].out = <<>>
      /\ \A i \in 1..n :
           IF i < done[i - 1].next THEN done[i] = done[i - 1]
           ELSE /\ done[i].next = After(match, i)
                /\ done[i].out = done[i - 1].out \o Put(match, s, i)
  <2>1. Unfolds(done, match, s, T)
    BY RewritingUnfolds
  <2> HIDE DEF done
  <2>2. done \in [0..n -> [next : Int, out : Seq(T)]] /\ done[0] = [next |-> 1, out |-> <<>>]
    BY <2>1 DEF Unfolds
  <2>3. ASSUME NEW i \in 1..n
        PROVE  IF i < done[i - 1].next THEN done[i] = done[i - 1]
               ELSE /\ done[i].next = After(match, i)
                    /\ done[i].out = done[i - 1].out \o Put(match, s, i)
    <3> DEFINE p == done[i - 1].out \o Put(match, s, i)
               a == After(match, i)
    <3>1. done[i] = IF i < done[i - 1].next THEN done[i - 1] ELSE [next |-> a, out |-> p]
      BY <2>1 DEF Unfolds
    <3> HIDE DEF p, a
    <3>2. CASE i < done[i - 1].next
      BY <3>1, <3>2
    <3>3. CASE ~(i < done[i - 1].next)
      BY <3>1, <3>3 DEF p, a
    <3> QED
      BY <3>2, <3>3
  <2>4. ASSUME NEW i \in 0..n PROVE done[i].next \in Int /\ done[i].out \in Seq(T)
    <3>1. done[i] \in [next : Int, out : Seq(T)]
      BY <2>2
    <3> QED
      BY <3>1
  <2>5. done[0].next = 1 /\ done[0].out = <<>>
    BY <2>2
  <2> QED
    BY <2>3, <2>4, <2>5
<1>3. \A i \in 1..n : After(match, i) \in (i + 1)..(n + 1) /\ Put(match, s, i) \in Seq(T)
  <2> SUFFICES ASSUME NEW i \in 1..n
               PROVE  After(match, i) \in (i + 1)..(n + 1) /\ Put(match, s, i) \in Seq(T)
    OBVIOUS
  <2>1. /\ match[i].end \in i..(n + 1) /\ match[i].out \in Seq(T)
        /\ match[i].end = i => s[i] \in T
    BY DEF Advances, PutsOut
  <2> QED
    BY <1>1, <2>1 DEF After, Put
<1> HIDE DEF done, n
(* The loop is never behind, and never beyond the end.                     *)
<1>4. \A i \in 0..n : done[i].next \in (i + 1)..(n + 1)
  <2> DEFINE Bad == {i \in 0..n : done[i].next \notin (i + 1)..(n + 1)}
  <2>1. 0 \notin Bad
    BY <1>1, <1>2
  <2>2. \A i \in 1..n : i \in Bad => i - 1 \in Bad
    <3> SUFFICES ASSUME NEW i \in 1..n, i - 1 \notin Bad PROVE i \notin Bad
      OBVIOUS
    <3>1. i - 1 \in 0..n /\ done[i - 1].next \in i..(n + 1)
      BY <1>1
    <3>2. CASE i < done[i - 1].next
      <4>1. done[i] = done[i - 1]
        BY <1>2, <3>2
      <4> QED
        BY <1>1, <3>1, <3>2, <4>1
    <3>3. CASE ~(i < done[i - 1].next)
      <4>1. done[i].next = After(match, i)
        BY <1>2, <3>3
      <4> QED
        BY <1>1, <1>3, <4>1
    <3> QED
      BY <3>2, <3>3
  <2>3. Bad = {}
    <3>1. Bad \subseteq 0..n
      OBVIOUS
    <3> HIDE DEF Bad
    <3> QED
      BY <1>1, <2>1, <2>2, <3>1, LoopKeeps
  <2> QED
    BY <2>3
(* What has been put out stays.                                            *)
<1>5. ASSUME NEW i \in 0..n, NEW k \in 0..n, i <= k
      PROVE  Stands(done[k].out, 0, done[i].out) /\ done[i].next <= done[k].next
  <2> DEFINE m == k - i
             Bad == {d \in 0..m : ~(/\ Stands(done[i + d].out, 0, done[i].out)
                                    /\ done[i].next <= done[i + d].next)}
  <2>1. m \in Nat /\ i + m = k /\ i + 0 = i
    BY <1>1, <1>5
  <2>2. 0 \notin Bad
    <3>1. done[i].out \in Seq(T) /\ done[i].next \in Int
      BY <1>2
    <3> QED
      BY <2>1, <3>1 DEF Stands
  <2>3. \A d \in 1..m : d \in Bad => d - 1 \in Bad
    <3> SUFFICES ASSUME NEW d \in 1..m, d - 1 \notin Bad PROVE d \notin Bad
      OBVIOUS
    <3> DEFINE p == i + d
    <3>1. p \in 1..n /\ i + (d - 1) = p - 1 /\ p - 1 \in 0..n /\ p \in 0..n /\ d - 1 \in 0..m
      BY <1>1, <2>1
    <3>2. Stands(done[p - 1].out, 0, done[i].out) /\ done[i].next <= done[p - 1].next
      BY <3>1
    <3>3. /\ done[i].out \in Seq(T) /\ done[p - 1].out \in Seq(T) /\ done[p].out \in Seq(T)
          /\ Put(match, s, p) \in Seq(T)
          /\ done[i].next \in Int /\ done[p - 1].next \in p..(n + 1)
          /\ After(match, p) \in (p + 1)..(n + 1)
      BY <1>2, <1>3, <1>4, <3>1, SMTT(30)
    <3>4. CASE p < done[p - 1].next
      <4>1. done[p] = done[p - 1]
        BY <1>2, <3>1, <3>4
      <4> QED
        BY <3>2, <4>1
    <3>5. CASE ~(p < done[p - 1].next)
      <4>1. /\ done[p].next = After(match, p)
            /\ done[p].out = done[p - 1].out \o Put(match, s, p)
        BY <1>2, <3>1, <3>5
      <4>2. Stands(done[p].out, 0, done[p - 1].out)
        BY <3>3, <4>1, Joined
      <4>3. Stands(done[p].out, 0 + 0, done[i].out)
        BY <3>2, <3>3, <4>2, StandsWithin
      <4>4. done[i].next <= done[p].next
        <5> DEFINE a == done[i].next
                   b == done[p - 1].next
                   c == After(match, p)
        <5>1. /\ a \in Int /\ b \in p..(n + 1) /\ c \in (p + 1)..(n + 1)
              /\ a <= b /\ ~(p < b) /\ p \in 1..n
          BY <3>1, <3>2, <3>3, <3>5
        <5> HIDE DEF a, b, c, p
        <5>2. a <= c
          BY <1>1, <5>1
        <5> QED
          BY <4>1, <5>2 DEF a, c
      <4> QED
        BY <4>3, <4>4
    <3> QED
      BY <3>4, <3>5
  <2>4. Bad = {}
    <3>1. Bad \subseteq 0..m
      OBVIOUS
    <3> HIDE DEF Bad, m
    <3> QED
      BY <2>1, <2>2, <2>3, <3>1, LoopKeeps
  <2>5. m \in 0..m
    BY <2>1
  <2> QED
    BY <2>1, <2>4, <2>5
(* Between two stops the loop does nothing.                                *)
<1>6. ASSUME NEW j \in stops, j <= n
      PROVE  /\ done[j].next = After(match, j)
             /\ done[j].out = done[j - 1].out \o Put(match, s, j)
             /\ After(match, j) \in (j + 1)..(n + 1)
             /\ done[After(match, j) - 1] = done[j]
  <2> DEFINE e == After(match, j)
  <2>1. j \in 1..n /\ done[j - 1].next = j /\ ~(j < j)
    BY <1>1, <1>6
  <2>2. /\ done[j].next = e
        /\ done[j].out = done[j - 1].out \o Put(match, s, j)
        /\ e \in (j + 1)..(n + 1)
    BY <1>2, <1>3, <2>1
  <2> HIDE DEF e
  <2> DEFINE m == e - 1 - j
             Bad == {d \in 0..m : done[j + d] # done[j]}
  <2>3. m \in Nat /\ j + m = e - 1 /\ j + 0 = j
    BY <1>1, <2>1, <2>2
  <2>4. 0 \notin Bad
    BY <2>3
  <2>5. \A d \in 1..m : d \in Bad => d - 1 \in Bad
    <3> SUFFICES ASSUME NEW d \in 1..m, d - 1 \notin Bad PROVE d \notin Bad
      OBVIOUS
    <3>1. j + d \in 1..n /\ (j + d) - 1 = j + (d - 1) /\ d - 1 \in 0..m /\ j + d < e
      BY <1>1, <2>1, <2>2, <2>3, SMTT(30)
    <3>2. done[(j + d) - 1] = done[j]
      BY <3>1
    <3>3. j + d < done[(j + d) - 1].next
      BY <2>2, <3>1, <3>2
    <3>4. done[j + d] = done[(j + d) - 1]
      BY <1>2, <3>1, <3>3
    <3> QED
      BY <3>2, <3>4
  <2>6. Bad = {}
    <3>1. Bad \subseteq 0..m
      OBVIOUS
    <3> HIDE DEF Bad, m
    <3> QED
      BY <2>3, <2>4, <2>5, <3>1, LoopKeeps
  <2>7. done[e - 1] = done[j]
    <3>1. m \in 0..m
      BY <2>3
    <3> QED
      BY <2>3, <2>6, <3>1
  <2> QED
    BY <2>2, <2>7 DEF e
(* Wherever the loop is, it is on the way from one stop to the next.       *)
<1> DEFINE From(i, j) == j \in stops /\ j <= i /\ j <= n
<1>7. \A i \in 0..n :
         /\ done[i].next > 1 => \E j \in stops : From(i, j) /\ After(match, j) = done[i].next
         /\ \A c \in 1..(done[i].next - 1) : \E j \in stops : From(i, j) /\ j <= c /\ c < After(match, j)
         /\ \A k \in 1..Len(done[i].out) : \E j \in stops :
               From(i, j) /\ \E x \in 1..Len(Put(match, s, j)) : k = at[j] + x
  <2> DEFINE A(i) == done[i].next > 1 => \E j \in stops : From(i, j) /\ After(match, j) = done[i].next
             B(i) == \A c \in 1..(done[i].next - 1) :
                        \E j \in stops : From(i, j) /\ j <= c /\ c < After(match, j)
             C(i) == \A k \in 1..Len(done[i].out) : \E j \in stops :
                        From(i, j) /\ \E x \in 1..Len(Put(match, s, j)) : k = at[j] + x
             Bad == {i \in 0..n : ~(A(i) /\ B(i) /\ C(i))}
  <2>1. 0 \notin Bad
    <3>1. Len(<<>>) = 0
      OBVIOUS
    <3> QED
      BY <1>1, <1>2, <3>1
  <2>2. \A i \in 1..n : i \in Bad => i - 1 \in Bad
    <3> SUFFICES ASSUME NEW i \in 1..n, i - 1 \notin Bad PROVE A(i) /\ B(i) /\ C(i)
      OBVIOUS
    <3>1. A(i - 1) /\ B(i - 1) /\ C(i - 1) /\ i - 1 \in 0..n /\ i \in 0..n
      <4>1. i - 1 \in 0..n /\ i \in 0..n
        BY <1>1
      <4> HIDE DEF A, B, C
      <4> QED
        BY <4>1
    <3>2. \A j \in stops : From(i - 1, j) => From(i, j)
      BY <1>1
    <3>3. CASE i < done[i - 1].next
      <4>1. done[i] = done[i - 1]
        BY <1>2, <3>3
      <4> HIDE DEF From, stops, at
      <4> QED
        BY <3>1, <3>2, <4>1
    <3>4. CASE ~(i < done[i - 1].next)
      <4>1. done[i - 1].next = i
        BY <1>1, <1>4, <3>1, <3>4
      <4>2. i \in stops /\ From(i, i) /\ at[i] = Len(done[i - 1].out)
        <5>1. i \in 1..(n + 1) /\ i <= i /\ i <= n
          BY <1>1
        <5>2. i \in stops
          BY <4>1, <5>1
        <5> HIDE DEF stops
        <5> QED
          BY <5>1, <5>2
      <4>3. /\ done[i].next = After(match, i)
            /\ done[i].out = done[i - 1].out \o Put(match, s, i)
            /\ After(match, i) \in (i + 1)..(n + 1)
            /\ Put(match, s, i) \in Seq(T) /\ done[i - 1].out \in Seq(T)
        BY <1>2, <1>3, <3>1, <3>4
      <4> HIDE DEF From, stops, at
      <4>4. A(i)
        BY <4>2, <4>3
      <4>5. B(i)
        <5> SUFFICES ASSUME NEW c \in 1..(done[i].next - 1)
                     PROVE  \E j \in stops : From(i, j) /\ j <= c /\ c < After(match, j)
          OBVIOUS
        <5>1. CASE c < i
          <6>1. c \in 1..(done[i - 1].next - 1)
            BY <4>1, <5>1
          <6> QED
            BY <3>1, <3>2, <6>1
        <5>2. CASE c >= i
          BY <4>2, <4>3, <5>2
        <5> QED
          BY <5>1, <5>2
      <4>6. C(i)
        <5> SUFFICES ASSUME NEW k \in 1..Len(done[i].out)
                     PROVE  \E j \in stops :
                              From(i, j) /\ \E x \in 1..Len(Put(match, s, j)) : k = at[j] + x
          OBVIOUS
        <5>1. Len(done[i].out) = Len(done[i - 1].out) + Len(Put(match, s, i))
          BY <4>3
        <5>2. Len(done[i - 1].out) \in Nat /\ Len(Put(match, s, i)) \in Nat
          BY <4>3
        <5>3. CASE k <= Len(done[i - 1].out)
          <6>1. k \in 1..Len(done[i - 1].out)
            BY <5>2, <5>3
          <6> QED
            BY <3>1, <3>2, <6>1
        <5>4. CASE k > Len(done[i - 1].out)
          <6>1. /\ k - at[i] \in 1..Len(Put(match, s, i))
                /\ k = at[i] + (k - at[i])
            BY <4>2, <5>1, <5>2, <5>4
          <6> QED
            BY <4>2, <6>1
        <5> QED
          BY <5>2, <5>3, <5>4
      <4> HIDE DEF A, B, C
      <4> QED
        BY <4>4, <4>5, <4>6
    <3> HIDE DEF A, B, C
    <3> QED
      BY <1>1, <1>4, <3>1, <3>3, <3>4
  <2>3. Bad = {}
    <3>1. Bad \subseteq 0..n
      OBVIOUS
    <3> HIDE DEF Bad
    <3> QED
      BY <1>1, <2>1, <2>2, <3>1, LoopKeeps
  <2> HIDE DEF From, stops, at
  <2> QED
    BY <2>3
<1>8. n \in 0..n /\ 0 \in 0..n /\ done[n].next = n + 1 /\ t \in Seq(T)
  BY <1>1, <1>2, <1>4
<1>9. stops \subseteq 1..(n + 1) /\ at \in [stops -> Nat]
  <2>1. ASSUME NEW j \in stops PROVE Len(done[j - 1].out) \in Nat
    <3>1. j - 1 \in 0..n
      BY <1>1
    <3>2. done[j - 1].out \in Seq(T)
      BY <1>2, <3>1
    <3> QED
      BY <3>2
  <2> QED
    BY <2>1
<1>10. 1 \in stops /\ at[1] = 0
  BY <1>1, <1>2
<1>11. ASSUME NEW j \in stops, j <= n
       PROVE  /\ After(match, j) \in stops
              /\ at[After(match, j)] = at[j] + Len(Put(match, s, j))
              /\ Stands(t, at[j], Put(match, s, j))
  <2>1. /\ done[j].next = After(match, j)
        /\ done[j].out = done[j - 1].out \o Put(match, s, j)
        /\ After(match, j) \in (j + 1)..(n + 1)
        /\ done[After(match, j) - 1] = done[j]
    BY <1>6, <1>11
  <2>2. j \in 1..n /\ j - 1 \in 0..n /\ j \in 0..n
    BY <1>1, <1>11
  <2>3. /\ done[j - 1].out \in Seq(T) /\ Put(match, s, j) \in Seq(T)
        /\ done[j].out \in Seq(T)
    BY <1>2, <1>3, <2>2
  <2>4. After(match, j) \in stops
    BY <1>1, <2>1
  <2>5. /\ at[After(match, j)] = Len(done[j].out)
        /\ at[j] = Len(done[j - 1].out)
    BY <2>1, <2>4
  <2> HIDE DEF at, stops
  <2>6. /\ Stands(done[j].out, at[j], Put(match, s, j))
        /\ Len(done[j].out) = at[j] + Len(Put(match, s, j))
    BY <2>1, <2>3, <2>5, Joined
  <2>7. Stands(t, 0, done[j].out)
    <3>1. j <= n
      BY <2>2
    <3> QED
      BY <1>5, <1>8, <2>2, <3>1
  <2>8. Stands(t, 0 + at[j], Put(match, s, j))
    BY <1>8, <2>3, <2>6, <2>7, StandsWithin
  <2>9. 0 + at[j] = at[j]
    BY <1>9, <2>5, <2>3
  <2> QED
    BY <2>4, <2>5, <2>6, <2>8, <2>9
<1>12. ASSUME NEW j \in stops, j = n + 1 PROVE at[j] = Len(t)
  BY <1>1, <1>12
<1>13. ASSUME NEW j \in stops, j > 1
       PROVE  \E i \in stops : i <= n /\ After(match, i) = j
  <2>1. j - 1 \in 0..n /\ done[j - 1].next = j
    BY <1>1, <1>13
  <2> HIDE DEF stops
  <2> QED
    BY <1>7, <1>13, <2>1
<1>14. ASSUME NEW i \in stops, NEW j \in stops, i < j
       PROVE  After(match, i) <= j /\ at[After(match, i)] <= at[j]
  <2>1. i \in 1..n /\ j \in 1..(n + 1) /\ j - 1 \in 0..n /\ i \in 0..n /\ i <= j - 1
    BY <1>1, <1>14
  <2>2. Stands(done[j - 1].out, 0, done[i].out) /\ done[i].next <= done[j - 1].next
    BY <1>5, <2>1
  <2>3. done[i].next = After(match, i) /\ done[After(match, i) - 1] = done[i]
    BY <1>6, <2>1
  <2>4. done[j - 1].next = j /\ at[j] = Len(done[j - 1].out)
    OBVIOUS
  <2>5. at[After(match, i)] = Len(done[i].out)
    <3>1. After(match, i) \in stops
      <4>1. i <= n
        BY <1>1, <2>1
      <4> HIDE DEF stops, at, n, t
      <4> QED
        BY <1>11, <4>1
    <3>2. at[After(match, i)] = Len(done[After(match, i) - 1].out)
      BY <3>1
    <3> QED
      BY <2>3, <3>2
  <2>6. Len(done[i].out) <= Len(done[j - 1].out)
    <3>1. done[i].out \in Seq(T) /\ done[j - 1].out \in Seq(T)
      BY <1>2, <2>1
    <3> QED
      BY <2>2, <3>1 DEF Stands
  <2> QED
    BY <2>2, <2>3, <2>4, <2>5, <2>6
<1>15. ASSUME NEW k \in 1..Len(t)
       PROVE  \E j \in stops : j <= n /\ \E x \in 1..Len(Put(match, s, j)) : k = at[j] + x
  <2> HIDE DEF stops, at
  <2> QED
    BY <1>7, <1>8
<1>16. ASSUME NEW c \in 1..n PROVE \E j \in stops : j <= c /\ c < After(match, j)
  <2>1. c \in 1..(done[n].next - 1)
    BY <1>1, <1>8
  <2> HIDE DEF stops, at
  <2> QED
    BY <1>7, <1>8, <2>1
<1> HIDE DEF stops, at, t
<1>17. Pass(match, s, t, stops, at)
  BY <1>9, <1>10, <1>11, <1>12, <1>13, <1>14, <1>15, <1>16 DEF Pass, n
<1> QED
  BY <1>17 DEF t, done, n

-----------------------------------------------------------------------------
(***************************************************************************)
(* What a rule sees ahead.                                                 *)
(***************************************************************************)

(* What stands at a position, or that none does.                           *)
LEMMA AtReads ==
  ASSUME NEW X, NEW s \in Seq(X), NEW i \in Int
  PROVE  At(s, i) = IF i >= 1 /\ i <= Len(s) THEN s[i] ELSE "end"
BY DEF At

(* Skipping passes over the class alone, and stops at what is not of it.   *)
LEMMA SkipPasses ==
  ASSUME NEW X, NEW s \in Seq(X), NEW i \in 1..(Len(s) + 1), NEW class
  PROVE  /\ Skip(s, i, class) \in i..(Len(s) + 1)
         /\ \A x \in i..(Skip(s, i, class) - 1) : s[x] \in class
         /\ Skip(s, i, class) <= Len(s) => s[Skip(s, i, class)] \notin class
<1> DEFINE stops == {j \in i..Len(s) : s[j] \notin class}
<1>1. Len(s) \in Nat
  OBVIOUS
<1>2. CASE stops = {}
  BY <1>1, <1>2 DEF Skip
<1>3. CASE stops # {}
  <2>1. stops \subseteq Nat /\ stops \subseteq i..Len(s)
    OBVIOUS
  <2>2. Skip(s, i, class) = Min(stops)
    BY <1>3 DEF Skip
  <2>3. \A j \in i..Len(s) : s[j] \notin class <=> j \in stops
    BY <1>1
  <2> HIDE DEF stops
  <2>4. \E x \in stops : \A y \in stops : x <= y
    BY <1>3, <2>1, FirstOf
  <2>5. Min(stops) \in stops /\ \A y \in stops : Min(stops) <= y
    BY <2>4 DEF Min
  <2>6. Min(stops) \in i..Len(s)
    BY <2>1, <2>5
  <2>7. ASSUME NEW x \in i..(Min(stops) - 1) PROVE s[x] \in class
    BY <1>1, <2>3, <2>5, <2>6
  <2> QED
    BY <1>1, <2>2, <2>3, <2>5, <2>6, <2>7
<1> QED
  BY <1>2, <1>3

(* Nothing else is where skipping ends.                                    *)
LEMMA SkipEndsAt ==
  ASSUME NEW X, NEW s \in Seq(X), NEW i \in 1..(Len(s) + 1), NEW class,
         NEW e \in i..(Len(s) + 1), \A x \in i..(e - 1) : s[x] \in class,
         e <= Len(s) => s[e] \notin class
  PROVE  Skip(s, i, class) = e
<1> DEFINE q == Skip(s, i, class)
<1>1. /\ q \in i..(Len(s) + 1)
      /\ \A x \in i..(q - 1) : s[x] \in class
      /\ q <= Len(s) => s[q] \notin class
  BY SkipPasses
<1>2. Len(s) \in Nat
  OBVIOUS
<1> HIDE DEF q
<1>3. ~(q < e)
  BY <1>1, <1>2
<1>4. ~(e < q)
  BY <1>1, <1>2
<1> QED
  BY <1>1, <1>2, <1>3, <1>4 DEF q

(* q is the separator, and v what follows the space behind it.             *)
Separates(s, i, q, v) ==
    /\ q \in i..Len(s)
    /\ s[q] = "sep"
    /\ \A x \in i..(q - 1) : s[x] \in Space
    /\ v \in (q + 1)..(Len(s) + 1)
    /\ \A x \in (q + 1)..(v - 1) : s[x] \in Space
    /\ v <= Len(s) => s[v] \notin Space

(* What is behind a separator, when there is one.                          *)
LEMMA AfterSepFinds ==
  ASSUME NEW X, NEW s \in Seq(X), NEW i \in 1..(Len(s) + 1)
  PROVE  \/ AfterSep(s, i) = 0 /\ At(s, Skip(s, i, Space)) # "sep"
         \/ \E q : Separates(s, i, q, AfterSep(s, i)) /\ q = Skip(s, i, Space)
<1> DEFINE q == Skip(s, i, Space)
           v == Skip(s, q + 1, Space)
<1>1. /\ q \in i..(Len(s) + 1)
      /\ \A x \in i..(q - 1) : s[x] \in Space
  BY SkipPasses
<1>2. Len(s) \in Nat
  OBVIOUS
<1>3. AfterSep(s, i) = IF At(s, q) = "sep" THEN v ELSE 0
  BY DEF AfterSep
<1> HIDE DEF q
<1>4. CASE At(s, q) = "sep"
  <2>1. q \in 1..Len(s) /\ s[q] = "sep"
    BY <1>4, AtIs
  <2>2. q + 1 \in 1..(Len(s) + 1)
    BY <1>2, <2>1
  <2>3. /\ v \in (q + 1)..(Len(s) + 1)
        /\ \A x \in (q + 1)..(v - 1) : s[x] \in Space
        /\ v <= Len(s) => s[v] \notin Space
    BY <2>2, SkipPasses
  <2>4. q \in i..Len(s)
    BY <1>1, <1>2, <2>1
  <2> HIDE DEF v
  <2>5. Separates(s, i, q, v)
    BY <1>1, <2>1, <2>3, <2>4 DEF Separates
  <2> QED
    BY <1>3, <1>4, <2>5 DEF q
<1>5. CASE At(s, q) # "sep"
  BY <1>3, <1>5 DEF q
<1> QED
  BY <1>4, <1>5

(* Nothing else is what is behind a separator.                             *)
LEMMA AfterSepIsAt ==
  ASSUME NEW X, NEW s \in Seq(X), NEW i \in 1..(Len(s) + 1), NEW q, NEW v,
         Separates(s, i, q, v)
  PROVE  AfterSep(s, i) = v
<1> USE DEF Separates
<1>1. Len(s) \in Nat /\ q \in i..(Len(s) + 1) /\ q + 1 \in 1..(Len(s) + 1)
  OBVIOUS
<1>2. "sep" \notin Space
  BY DEF Space
<1>3. Skip(s, i, Space) = q
  BY <1>1, <1>2, SkipEndsAt
<1>4. Skip(s, q + 1, Space) = v
  BY <1>1, SkipEndsAt
<1>5. At(s, q) = "sep"
  BY DEF At
<1> QED
  BY <1>3, <1>4, <1>5 DEF AfterSep

-----------------------------------------------------------------------------
(***************************************************************************)
(* What a match is.                                                        *)
(***************************************************************************)

Gap == Space \cup {"quote", "sep"}
Starts == Words \cup {"n"}

(* What is put out at the end of a match: a placeholder, and at most one   *)
(* more, the closing quote of a name or what is left of an address.        *)
TailOf(s, j, v, e, tail) ==
    /\ tail \in Seq(Lexemes) /\ Len(tail) \in 1..2
    /\ tail[1] \in Placeholders
    /\ Len(tail) = 2 /\ tail[2] = "quote" => v > j /\ s[v - 1] = "quote"
    /\ Len(tail) = 2 /\ tail[2] # "quote" => tail[2] \in {"at", "ip6"} /\ s[e - 1] \in Words

(* A match at j keeps the key and what is between it and the value at v,   *)
(* and never ends between the n of a newline and the word behind it.       *)
Masks(m, s, j, v, tail) ==
    /\ m.end \in (j + 1)..(Len(s) + 1)
    /\ v \in j..(m.end - 1)
    /\ m.out = Kept(s, j, v) \o tail
    /\ TailOf(s, j, v, m.end, tail)
    /\ s[j] \in Starts
    /\ v > j => s[j] \in {"auth", "pass", "user"}
    /\ \A x \in (j + 1)..(v - 1) : s[x] \in Gap
    /\ m.end <= Len(s) /\ s[m.end] \in Words => s[m.end - 1] # "n"

MasksOnly(m, s, j) == m.end = j \/ (\E v, tail : Masks(m, s, j, v, tail))

Masking(match, s) == \A j \in 1..Len(s) : MasksOnly(match[j], s, j)

(* A quote that may be there.                                              *)
MayPass(s, i, o) ==
    \/ o = i + 1 /\ i \in 1..Len(s) /\ s[i] = "quote"
    \/ o = i /\ (i \in 1..Len(s) => s[i] # "quote")

(* What Optional passes over is a quote that may be there.                 *)
LEMMA OptionalPasses ==
  ASSUME NEW X, NEW s \in Seq(X), NEW i \in 0..(Len(s) + 1)
  PROVE  MayPass(s, i, Optional(s, i, "quote"))
BY DEF Optional, At, MayPass

(* Up to what is behind a separator there is only space and the separator. *)
LEMMA GapAhead ==
  ASSUME NEW X, NEW s \in Seq(X), NEW i \in 1..(Len(s) + 1), AfterSep(s, i) # 0
  PROVE  /\ AfterSep(s, i) \in (i + 1)..(Len(s) + 1)
         /\ \A x \in i..(AfterSep(s, i) - 1) : s[x] \in Gap
         /\ AfterSep(s, i) <= Len(s) => s[AfterSep(s, i)] \notin Space
<1>1. PICK q : Separates(s, i, q, AfterSep(s, i))
  BY AfterSepFinds
<1> DEFINE v == AfterSep(s, i)
<1>2. Separates(s, i, q, v) /\ Len(s) \in Nat
  BY <1>1
<1> HIDE DEF v
<1>3. v \in (i + 1)..(Len(s) + 1) /\ q \in i..Len(s)
  BY <1>2 DEF Separates
<1>4. ASSUME NEW x \in i..(v - 1) PROVE s[x] \in Gap
  <2>1. x \in i..(q - 1) \/ x = q \/ x \in (q + 1)..(v - 1)
    BY <1>2, <1>3
  <2> QED
    BY <1>2, <2>1 DEF Separates, Gap
<1> QED
  BY <1>2, <1>3, <1>4 DEF v, Separates

(* Where the value of an authorization header begins, and that of a        *)
(* secret-named key; 0 when nothing is assigned.                           *)
AuthValue(s, i) ==
    Optional(s, AfterSep(s, Optional(s, Skip(s, i + 1, Space), "quote")), "quote")

PassValue(s, i) == Optional(s, AfterSep(s, Optional(s, i + 1, "quote")), "quote")

(* Between key and value there is nothing but space, quotes and separator. *)
Behind(s, i, v) ==
    \/ v = 0
    \/ v \in (i + 2)..(Len(s) + 1) /\ \A x \in (i + 1)..(v - 1) : s[x] \in Gap

(* Behind a key, a separator and perhaps a quote there is a value or none. *)
LEMMA QuotedValue ==
  ASSUME NEW X, NEW s \in Seq(X), NEW i \in 1..Len(s), NEW a \in (i + 1)..(Len(s) + 1),
         \A x \in (i + 1)..(a - 1) : s[x] \in Gap
  PROVE  Behind(s, i, AfterSep(s, a)) /\ Behind(s, i, Optional(s, AfterSep(s, a), "quote"))
<1> DEFINE u == AfterSep(s, a)
           v == Optional(s, u, "quote")
<1>1. Len(s) \in Nat /\ a \in 1..(Len(s) + 1)
  OBVIOUS
<1>2. CASE u = 0
  <2>1. At(s, 0) # "quote"
    BY DEF At
  <2>2. v = 0
    BY <1>2, <2>1 DEF Optional
  <2> QED
    BY <1>2, <2>2 DEF Behind
<1>3. CASE u # 0
  <2>1. u \in (a + 1)..(Len(s) + 1) /\ \A x \in a..(u - 1) : s[x] \in Gap
    BY <1>1, <1>3, GapAhead
  <2> HIDE DEF u
  <2>2. \A x \in (i + 1)..(u - 1) : s[x] \in Gap
    BY <1>1, <2>1
  <2>3. v = u \/ (v = u + 1 /\ u \in 1..Len(s) /\ s[u] = "quote")
    <3>1. u \in 0..(Len(s) + 1)
      BY <1>1, <2>1
    <3>2. MayPass(s, u, v)
      BY <3>1, OptionalPasses
    <3> HIDE DEF v
    <3> QED
      BY <3>2 DEF MayPass
  <2> HIDE DEF v
  <2>4. \A x \in (i + 1)..(v - 1) : s[x] \in Gap
    BY <1>1, <2>1, <2>2, <2>3 DEF Gap
  <2>5. u \in (i + 2)..(Len(s) + 1) /\ v \in (i + 2)..(Len(s) + 1)
    BY <1>1, <2>1, <2>3
  <2> QED
    BY <2>2, <2>4, <2>5 DEF Behind, u, v
<1> QED
  BY <1>2, <1>3

(* So there is behind an authorization key,                                *)
LEMMA AuthValueIs ==
  ASSUME NEW X, NEW s \in Seq(X), NEW i \in 1..Len(s)
  PROVE  Behind(s, i, AuthValue(s, i))
<1> DEFINE b == Skip(s, i + 1, Space)
           a == Optional(s, b, "quote")
<1>1. Len(s) \in Nat /\ i + 1 \in 1..(Len(s) + 1)
  OBVIOUS
<1>2. b \in (i + 1)..(Len(s) + 1) /\ \A x \in (i + 1)..(b - 1) : s[x] \in Space
  BY <1>1, SkipPasses
<1> HIDE DEF b
<1>3. a = b \/ (a = b + 1 /\ b \in 1..Len(s) /\ s[b] = "quote")
  <2>1. b \in 0..(Len(s) + 1)
    BY <1>1, <1>2
  <2>2. MayPass(s, b, a)
    BY <2>1, OptionalPasses
  <2> HIDE DEF a
  <2> QED
    BY <2>2 DEF MayPass
<1> HIDE DEF a
<1>4. a \in (i + 1)..(Len(s) + 1) /\ \A x \in (i + 1)..(a - 1) : s[x] \in Gap
  BY <1>1, <1>2, <1>3 DEF Gap
<1>5. Behind(s, i, Optional(s, AfterSep(s, a), "quote"))
  BY <1>4, QuotedValue
<1> QED
  BY <1>5 DEF AuthValue, a, b

(* and behind a secret-named key, also where its opening quote would be.   *)
LEMMA PassValueIs ==
  ASSUME NEW X, NEW s \in Seq(X), NEW i \in 1..Len(s)
  PROVE  Behind(s, i, PassValue(s, i)) /\ Behind(s, i, AfterSep(s, Optional(s, i + 1, "quote")))
<1> DEFINE a == Optional(s, i + 1, "quote")
<1>1. Len(s) \in Nat /\ i + 1 \in 0..(Len(s) + 1)
  OBVIOUS
<1>2. a = i + 1 \/ (a = i + 2 /\ i + 1 \in 1..Len(s) /\ s[i + 1] = "quote")
  <2>1. MayPass(s, i + 1, a)
    BY <1>1, OptionalPasses
  <2> HIDE DEF a
  <2>2. (i + 1) + 1 = i + 2
    OBVIOUS
  <2> QED
    BY <2>1, <2>2 DEF MayPass
<1> HIDE DEF a
<1>3. a \in (i + 1)..(Len(s) + 1) /\ \A x \in (i + 1)..(a - 1) : s[x] \in Gap
  BY <1>1, <1>2 DEF Gap
<1>4. Behind(s, i, AfterSep(s, a)) /\ Behind(s, i, Optional(s, AfterSep(s, a), "quote"))
  BY <1>3, QuotedValue
<1> QED
  BY <1>4 DEF PassValue, a

(* A rule that finds nothing masks nothing.                                *)
LEMMA NothingMasks ==
  ASSUME NEW s, NEW i
  PROVE  NoMatch(i).end = i /\ MasksOnly(NoMatch(i), s, i)
BY DEF NoMatch, MasksOnly

(* A match that keeps nothing and puts out one placeholder.                *)
LEMMA MasksWhole ==
  ASSUME NEW s \in Seq(Lexemes), NEW i \in 1..Len(s), s[i] \in Starts,
         NEW end \in (i + 1)..(Len(s) + 1),
         end <= Len(s) /\ s[end] \in Words => s[end - 1] # "n",
         NEW p \in Placeholders
  PROVE  /\ MasksOnly(Match(end, <<p>>), s, i) /\ Match(end, <<p>>).end = end
         /\ Masks(Match(end, <<p>>), s, i, i, <<p>>)
<1> DEFINE m == Match(end, <<p>>)
<1>1. m.end = end /\ m.out = <<p>>
  BY DEF Match
<1>2. <<p>> \in Seq(Lexemes) /\ Len(<<p>>) = 1 /\ <<p>>[1] = p
  BY DEF Lexemes
<1>3. Kept(s, i, i) \o <<p>> = <<p>>
  <2>1. Kept(s, i, i) = <<>>
    BY DEF Kept
  <2> QED
    BY <1>2, <2>1, ConcatEmptySeq
<1> HIDE DEF m
<1>4. TailOf(s, i, i, end, <<p>>)
  BY <1>2 DEF TailOf
<1>5. i \in i..(end - 1) /\ ~(i > i) /\ (i + 1)..(i - 1) = {}
  OBVIOUS
<1>6. Masks(m, s, i, i, <<p>>)
  BY <1>1, <1>3, <1>4, <1>5 DEF Masks
<1> QED
  BY <1>1, <1>6 DEF MasksOnly, m

(* A match that keeps what is before its value and puts out one.           *)
LEMMA MasksValue ==
  ASSUME NEW s \in Seq(Lexemes), NEW i \in 1..Len(s), s[i] \in {"auth", "pass", "user"},
         NEW v \in (i + 1)..(Len(s) + 1), \A x \in (i + 1)..(v - 1) : s[x] \in Gap,
         NEW end \in (v + 1)..(Len(s) + 1),
         end <= Len(s) /\ s[end] \in Words => s[end - 1] # "n",
         NEW tail, TailOf(s, i, v, end, tail)
  PROVE  /\ MasksOnly(Match(end, Kept(s, i, v) \o tail), s, i)
         /\ Masks(Match(end, Kept(s, i, v) \o tail), s, i, v, tail)
         /\ Match(end, Kept(s, i, v) \o tail).end = end
<1> DEFINE m == Match(end, Kept(s, i, v) \o tail)
<1>1. m.end = end /\ m.out = Kept(s, i, v) \o tail
  BY DEF Match
<1> HIDE DEF m
<1>2. s[i] \in Starts
  BY DEF Starts, Words
<1>3. v \in i..(end - 1) /\ end \in (i + 1)..(Len(s) + 1)
  OBVIOUS
<1>4. Masks(m, s, i, v, tail)
  BY <1>1, <1>2, <1>3 DEF Masks
<1> QED
  BY <1>1, <1>4 DEF MasksOnly, m

(* One placeholder is all that is put out behind what is kept.             *)
LEMMA TailOfOne ==
  ASSUME NEW s, NEW i, NEW v, NEW end, NEW p \in Placeholders
  PROVE  TailOf(s, i, v, end, <<p>>)
<1>1. <<p>> \in Seq(Lexemes) /\ Len(<<p>>) = 1 /\ <<p>>[1] = p
  BY DEF Lexemes
<1> QED
  BY <1>1 DEF TailOf

(* Where a run over a class ends that has every word but a few, no word    *)
(* follows the n of a newline.                                             *)
LEMMA RunEndsWell ==
  ASSUME NEW s \in Seq(Lexemes), NEW i \in 1..(Len(s) + 1), NEW class, Credential \subseteq class,
         NEW end, end = Skip(s, i, class), ~(end <= Len(s) /\ s[end] \in Torn)
  PROVE  end <= Len(s) => s[end] \notin Words
<1>1. end <= Len(s) => s[end] \notin class
  BY SkipPasses
<1> QED
  BY <1>1 DEF Credential

(* What the authorization rule does, by the value.                         *)
AuthDoes(m, s, i, v) ==
    \/ m.end = i /\ ~(s[i] = "auth" /\ At(s, v) \in Credential \cup Torn)
    \/ /\ s[i] = "auth"
       /\ v \in 1..Len(s) /\ s[v] \in Credential \cup Torn
       /\ m.end \in (v + 1)..(Len(s) + 1)
       /\ m.end <= Len(s) /\ s[m.end] \in Words => s[m.end - 1] # "n"
       /\ \E tail : TailOf(s, i, v, m.end, tail) /\ m = Match(m.end, Kept(s, i, v) \o tail)

(* That is all the authorization rule ever does,                           *)
LEMMA AuthHeaderDoes ==
  ASSUME NEW s \in Seq(Lexemes), NEW i \in 1..Len(s)
  PROVE  AuthDoes(AuthHeader(s, i), s, i, AuthValue(s, i))
<1> DEFINE value == AuthValue(s, i)
           scheme == Skip(s, value + 1, Space)
           start == IF /\ At(s, value) = "bearer"
                       /\ scheme > value + 1
                       /\ At(s, scheme) \in Credential \cup Torn
                    THEN scheme ELSE value
           end == Skip(s, start, Credential)
           rest == <<"AUTH", Remainder(s[end])>>
           m == AuthHeader(s, i)
<1>1. m =
        IF At(s, i) # "auth" \/ At(s, start) \notin Credential \cup Torn
        THEN NoMatch(i)
        ELSE IF At(s, end) \in Torn
             THEN Match(end + 1, Kept(s, i, value) \o rest)
             ELSE Match(end, Kept(s, i, value) \o <<"AUTH">>)
  BY Zenon DEF AuthHeader, value, scheme, start, end, rest, AuthValue
<1>2. Behind(s, i, value) /\ Len(s) \in Nat
  BY AuthValueIs
<1>3. /\ "end" \notin Credential \cup Torn /\ "bearer" \in Credential
      /\ Credential \cap Torn = {} /\ Torn \subseteq Words /\ "n" \notin Torn
  BY DEF Credential, Torn, Words
<1>4. At(s, i) = s[i]
  BY DEF At
<1> HIDE DEF value
<1>5. At(s, start) \in Credential \cup Torn <=> At(s, value) \in Credential \cup Torn
  <2> HIDE DEF scheme
  <2> QED
    BY <1>3
<1>6. CASE ~(s[i] = "auth" /\ At(s, value) \in Credential \cup Torn)
  <2>1. m = NoMatch(i)
    BY <1>1, <1>4, <1>5, <1>6
  <2>2. m.end = i
    BY <2>1 DEF NoMatch
  <2> HIDE DEF m
  <2> QED
    BY <1>6, <2>2 DEF AuthDoes, value, m
<1>7. CASE s[i] = "auth" /\ At(s, value) \in Credential \cup Torn
  <2>1. value \in 1..Len(s) /\ s[value] \in Credential \cup Torn
    BY <1>3, <1>7 DEF At
  <2>2. start \in value..Len(s) /\ s[start] \in Credential \cup Torn
    <3>1. start = value \/ (start = scheme /\ scheme > value + 1)
      BY Zenon
    <3>2. At(s, start) \in Credential \cup Torn
      BY <1>5, <1>7
    <3> HIDE DEF start
    <3>3. start \in 1..Len(s) /\ s[start] \in Credential \cup Torn
      BY <1>3, <3>2 DEF At
    <3>4. start >= value
      <4>1. CASE start = value
        BY <2>1, <4>1
      <4>2. CASE start = scheme /\ scheme > value + 1
        <5> HIDE DEF scheme
        <5> QED
          BY <2>1, <3>3, <4>2
      <4> QED
        BY <3>1, <4>1, <4>2
    <3> QED
      BY <1>2, <2>1, <3>3, <3>4
  <2> HIDE DEF start
  <2>3. start \in 1..(Len(s) + 1)
    BY <1>2, <2>1, <2>2
  <2>4. /\ end \in start..(Len(s) + 1)
        /\ end <= Len(s) => s[end] \notin Credential
    BY <2>3, SkipPasses
  <2>5. At(s, end) \in Torn <=> end <= Len(s) /\ s[end] \in Torn
    <3>1. "end" \notin Torn
      BY <1>3
    <3> HIDE DEF end
    <3> QED
      BY <1>2, <2>3, <2>4, <3>1 DEF At
  <2>6. CASE At(s, end) \in Torn
    <3>1. m = Match(end + 1, Kept(s, i, value) \o rest)
      BY <1>1, <1>4, <1>5, <1>7, <2>6 DEF start
    <3>2. m.end = end + 1
      BY <3>1 DEF Match
    <3>3. /\ Remainder(s[end]) \in {"at", "ip6"}
          /\ rest \in Seq(Lexemes) /\ Len(rest) = 2 /\ rest[1] = "AUTH"
          /\ rest[2] = Remainder(s[end])
      <4>1. Remainder(s[end]) \in {"at", "ip6"}
        BY DEF Remainder
      <4>2. Remainder(s[end]) \in Lexemes /\ "AUTH" \in Lexemes
        BY <4>1 DEF Lexemes, Words, Placeholders
      <4> HIDE DEF end
      <4> QED
        BY <4>1, <4>2
    <3> HIDE DEF rest, m, end
    <3>4. (end + 1) - 1 = end /\ end + 1 \in (value + 1)..(Len(s) + 1)
      BY <1>2, <2>1, <2>2, <2>4, <2>5, <2>6
    <3>5. TailOf(s, i, value, end + 1, rest)
      <4>1. s[end] \in Words /\ "AUTH" \in Placeholders
        BY <1>3, <2>5, <2>6 DEF Placeholders
      <4> QED
        BY <3>3, <3>4, <4>1 DEF TailOf
    <3>6. s[(end + 1) - 1] # "n"
      BY <1>3, <2>5, <2>6, <3>4
    <3> QED
      BY <1>7, <2>1, <3>1, <3>2, <3>4, <3>5, <3>6 DEF AuthDoes, value, m
  <2>7. CASE At(s, end) \notin Torn
    <3>1. m = Match(end, Kept(s, i, value) \o <<"AUTH">>)
      BY <1>1, <1>4, <1>5, <1>7, <2>7 DEF start
    <3>2. m.end = end
      BY <3>1 DEF Match
    <3>3. end <= Len(s) => s[end] \notin Words
      BY <2>3, <2>5, <2>7, RunEndsWell
    <3> HIDE DEF rest, m, end
    <3>4. end # start
      BY <2>2, <2>4, <2>5, <2>7
    <3>5. end \in (value + 1)..(Len(s) + 1)
      BY <1>2, <2>1, <2>2, <2>4, <3>4
    <3>6. TailOf(s, i, value, end, <<"AUTH">>)
      <4>1. "AUTH" \in Placeholders
        BY DEF Placeholders
      <4> QED
        BY <4>1, TailOfOne
    <3> QED
      BY <1>7, <2>1, <3>1, <3>2, <3>3, <3>5, <3>6 DEF AuthDoes, value, m
  <2> QED
    BY <2>6, <2>7
<1> QED
  BY <1>6, <1>7

(* so it masks only.                                                       *)
LEMMA AuthHeaderMasks ==
  ASSUME NEW s \in Seq(Lexemes), NEW i \in 1..Len(s)
  PROVE  MasksOnly(AuthHeader(s, i), s, i)
<1> DEFINE m == AuthHeader(s, i)
           v == AuthValue(s, i)
<1>1. AuthDoes(m, s, i, v) /\ Behind(s, i, v) /\ Len(s) \in Nat
  BY AuthHeaderDoes, AuthValueIs
<1> HIDE DEF m, v
<1>2. CASE m.end = i
  BY <1>2 DEF MasksOnly, m
<1>3. CASE m.end # i
  <2>1. PICK tail : TailOf(s, i, v, m.end, tail) /\ m = Match(m.end, Kept(s, i, v) \o tail)
    BY <1>1, <1>3 DEF AuthDoes
  <2>2. /\ s[i] \in {"auth", "pass", "user"}
        /\ v \in 1..Len(s) /\ m.end \in (v + 1)..(Len(s) + 1)
        /\ m.end <= Len(s) /\ s[m.end] \in Words => s[m.end - 1] # "n"
    BY <1>1, <1>3 DEF AuthDoes
  <2>3. v \in (i + 1)..(Len(s) + 1) /\ \A x \in (i + 1)..(v - 1) : s[x] \in Gap
    BY <1>1, <2>2 DEF Behind
  <2> DEFINE e == m.end
  <2> HIDE DEF e
  <2>4. MasksOnly(Match(e, Kept(s, i, v) \o tail), s, i)
    BY <2>1, <2>2, <2>3, MasksValue DEF e
  <2> QED
    BY <2>1, <2>4 DEF e, m
<1> QED
  BY <1>2, <1>3

(* When the bearer rule finds something.                                   *)
BearerFound(s, i) ==
    LET start == Skip(s, i + 1, Space)
        end == Skip(s, start, Credential)
    IN  /\ At(s, i) = "bearer" /\ Boundary(s, i) /\ start > i + 1
        /\ \E j \in start..(end - 1) : s[j] \in {"long", "jwt", "key"}

(* What the simple rules find, and what they put out.                      *)
LEMMA BearerTokenMasks ==
  ASSUME NEW s \in Seq(Lexemes), Lexed(s), NEW i \in 1..Len(s)
  PROVE  /\ MasksOnly(BearerToken(s, i), s, i)
         /\ BearerToken(s, i).end = i => ~BearerFound(s, i)
<1> DEFINE start == Skip(s, i + 1, Space)
           end == Skip(s, start, Credential)
           m == BearerToken(s, i)
<1>1. m = IF BearerFound(s, i) THEN Match(end, <<"TOKEN">>) ELSE NoMatch(i)
  BY DEF BearerToken, BearerFound
<1>2. CASE ~BearerFound(s, i)
  BY <1>1, <1>2, NothingMasks
<1>3. CASE BearerFound(s, i)
  <2>1. /\ At(s, i) = "bearer" /\ start > i + 1
        /\ \E j \in start..(end - 1) : s[j] \in {"long", "jwt", "key"}
    BY <1>3 DEF BearerFound
  <2>2. Len(s) \in Nat /\ i + 1 \in 1..(Len(s) + 1) /\ s[i] = "bearer"
    BY <2>1, AtIs
  <2>3. start \in (i + 1)..(Len(s) + 1)
    BY <2>2, SkipPasses
  <2> HIDE DEF start
  <2>4. start \in 1..(Len(s) + 1)
    BY <2>2, <2>3
  <2>5. /\ end \in start..(Len(s) + 1)
        /\ \A x \in start..(end - 1) : s[x] \in Credential
        /\ end <= Len(s) => s[end] \notin Credential
    BY <2>4, SkipPasses
  <2> HIDE DEF end
  <2>6. PICK j \in start..(end - 1) : s[j] \in {"long", "jwt", "key"}
    BY <2>1
  <2>7. j = end - 1
    <3> SUFFICES ASSUME j + 1 \in start..(end - 1) PROVE FALSE
      BY <2>3, <2>4, <2>5
    <3>1. j + 1 \in 2..Len(s) /\ (j + 1) - 1 = j
      BY <2>2, <2>3, <2>5
    <3>2. s[j + 1] \in Words \cup {"n"} /\ s[j] \in Words \cup {"at"}
      BY <2>5, <2>6 DEF Credential, Words
    <3> QED
      BY <3>1, <3>2 DEF Lexed
  <2>8. s[end - 1] # "n" /\ end \in (i + 1)..(Len(s) + 1)
    BY <2>2, <2>3, <2>5, <2>6, <2>7
  <2>9. "TOKEN" \in Placeholders /\ s[i] \in Starts
    BY <2>2 DEF Placeholders, Starts, Words
  <2>10. /\ MasksOnly(Match(end, <<"TOKEN">>), s, i)
         /\ Match(end, <<"TOKEN">>).end = end
    BY <2>8, <2>9, MasksWhole
  <2>11. end # i
    BY <2>2, <2>8
  <2> QED
    BY <1>1, <1>3, <2>10, <2>11
<1> QED
  BY <1>2, <1>3

(* A single lexeme goes.                                                   *)
LEMMA OneMasks ==
  ASSUME NEW s \in Seq(Lexemes), NEW i \in 1..Len(s), s[i] \in Words, NEW p \in Placeholders
  PROVE  MasksOnly(Match(i + 1, <<p>>), s, i) /\ Match(i + 1, <<p>>).end = i + 1
<1>1. i + 1 \in (i + 1)..(Len(s) + 1) /\ (i + 1) - 1 = i
  OBVIOUS
<1>2. s[i] \in Starts /\ s[i] # "n"
  BY DEF Starts, Words
<1> DEFINE e == i + 1
<1>3. e \in (i + 1)..(Len(s) + 1) /\ s[e - 1] # "n"
  BY <1>1, <1>2
<1> HIDE DEF e
<1>4. MasksOnly(Match(e, <<p>>), s, i) /\ Match(e, <<p>>).end = e
  BY <1>2, <1>3, MasksWhole
<1> QED
  BY <1>4 DEF e

(* The rule over JWTs masks only,                                          *)
LEMMA JwtMasksOnly ==
  ASSUME NEW s \in Seq(Lexemes), NEW i \in 1..Len(s)
  PROVE  MasksOnly(Jwt(s, i), s, i)
<1>1. At(s, i) = s[i] /\ "jwt" \in Words /\ "TOKEN" \in Placeholders
  BY DEF At, Words, Placeholders
<1> QED
  BY <1>1, OneMasks, NothingMasks DEF Jwt

(* the one over provider keys does and leaves none at a boundary,          *)
LEMMA ProviderKeyMasks ==
  ASSUME NEW s \in Seq(Lexemes), NEW i \in 1..Len(s)
  PROVE  /\ MasksOnly(ProviderKey(s, i), s, i)
         /\ ProviderKey(s, i).end = i => ~(s[i] = "key" /\ Boundary(s, i))
<1>1. At(s, i) = s[i] /\ "key" \in Words /\ "TOKEN" \in Placeholders /\ i + 1 # i
  BY DEF At, Words, Placeholders
<1> QED
  BY <1>1, OneMasks, NothingMasks DEF ProviderKey

(* the one over IPv6 addresses does,                                       *)
LEMMA IPv6MasksOnly ==
  ASSUME NEW s \in Seq(Lexemes), NEW i \in 1..Len(s)
  PROVE  MasksOnly(IPv6(s, i), s, i)
<1>1. At(s, i) = s[i] /\ {"ip6", "full6"} \subseteq Words /\ "IP" \in Placeholders
  BY DEF At, Words, Placeholders
<1> QED
  BY <1>1, OneMasks, NothingMasks DEF IPv6

(* the one over IPv4 addresses does and leaves none at a boundary,         *)
LEMMA IPv4Masks ==
  ASSUME NEW s \in Seq(Lexemes), Lexed(s), NEW i \in 1..Len(s)
  PROVE  /\ MasksOnly(IPv4(s, i), s, i)
         /\ IPv4(s, i).end = i => ~(s[i] = "ip4" /\ Boundary(s, i))
<1>1. At(s, i) = s[i] /\ "ip4" \in Words /\ "IP" \in Placeholders /\ i + 1 # i
  BY DEF At, Words, Placeholders
<1>2. s[i] = "ip4" => At(s, i + 1) \notin Words
  <2> SUFFICES ASSUME s[i] = "ip4", At(s, i + 1) \in Words PROVE FALSE
    OBVIOUS
  <2>1. i + 1 \in 2..Len(s) /\ s[i + 1] \in Words /\ (i + 1) - 1 = i
    BY DEF At, Words
  <2> QED
    BY <1>1, <2>1 DEF Lexed
<1> QED
  BY <1>1, <1>2, OneMasks, NothingMasks DEF IPv4

(* and the one over email addresses does.                                  *)
LEMMA EmailMasksOnly ==
  ASSUME NEW s \in Seq(Lexemes), NEW i \in 1..Len(s)
  PROVE  MasksOnly(Email(s, i), s, i)
<1> DEFINE at == Skip(s, i, LocalPart)
<1>1. CASE At(s, at) # "email"
  BY <1>1, NothingMasks DEF Email
<1>2. CASE At(s, at) = "email"
  <2>1. Email(s, i) = Match(at + 1, <<"EMAIL">>)
    BY <1>2 DEF Email
  <2>2. i \in 1..(Len(s) + 1) /\ Len(s) \in Nat
    OBVIOUS
  <2>3. at \in i..(Len(s) + 1) /\ \A x \in i..(at - 1) : s[x] \in LocalPart
    BY <2>2, SkipPasses
  <2>4. at \in 1..Len(s) /\ s[at] = "email"
    BY <1>2, AtIs
  <2> HIDE DEF at
  <2>5. s[i] \in Starts
    <3>1. i = at \/ i \in i..(at - 1)
      BY <2>3
    <3> QED
      BY <2>3, <2>4, <3>1 DEF LocalPart, Credential, Starts, Words
  <2> DEFINE e == at + 1
  <2>6. e \in (i + 1)..(Len(s) + 1) /\ s[e - 1] # "n"
    BY <2>3, <2>4
  <2> HIDE DEF e
  <2>7. MasksOnly(Match(e, <<"EMAIL">>), s, i)
    <3>1. "EMAIL" \in Placeholders
      BY DEF Placeholders
    <3> QED
      BY <2>5, <2>6, <3>1, MasksWhole
  <2> QED
    BY <2>1, <2>7 DEF e
<1> QED
  BY <1>1, <1>2

(* What the secret rule does, by the value.                                *)
SecretDoes(m, s, i, v) ==
    \/ m.end = i /\ ~(s[i] = "pass" /\ Boundary(s, i) /\ At(s, v) \in SecretValue)
    \/ /\ s[i] = "pass"
       /\ v \in (i + 2)..Len(s) /\ s[v] \in SecretValue
       /\ m.end = Skip(s, v, SecretValue)
       /\ m.end \in (v + 1)..(Len(s) + 1)
       /\ m.end <= Len(s) => s[m.end] \notin SecretValue
       /\ m = Match(m.end, Kept(s, i, v) \o <<"TOKEN">>)

(* That is all the secret rule ever does,                                  *)
LEMMA SecretDoesIt ==
  ASSUME NEW s \in Seq(Lexemes), NEW i \in 1..Len(s)
  PROVE  SecretDoes(Secret(s, i), s, i, PassValue(s, i))
<1> DEFINE sep == AfterSep(s, Optional(s, i + 1, "quote"))
           value == PassValue(s, i)
           end == Skip(s, value, SecretValue)
           m == Secret(s, i)
<1>1. m = IF At(s, i) = "pass" /\ Boundary(s, i) /\ sep > 0 /\ end > value
          THEN Match(end, Kept(s, i, value) \o <<"TOKEN">>) ELSE NoMatch(i)
  BY DEF Secret, PassValue
<1>2. Behind(s, i, value) /\ Behind(s, i, sep) /\ Len(s) \in Nat /\ At(s, i) = s[i]
  BY PassValueIs DEF At
<1>3. value = Optional(s, sep, "quote")
  BY DEF PassValue
<1>4. "end" \notin SecretValue /\ At(s, 0) = "end"
  BY DEF SecretValue, Lexemes, Words, Marks, Placeholders, At
<1> HIDE DEF sep, value
<1>5. sep = 0 => value = 0
  BY <1>3, <1>4 DEF Optional
<1>6. sep # 0 => sep > 0 /\ value \in (i + 2)..(Len(s) + 1)
  <2> SUFFICES ASSUME sep # 0 PROVE sep > 0 /\ value \in (i + 2)..(Len(s) + 1)
    OBVIOUS
  <2>1. sep \in (i + 2)..(Len(s) + 1)
    BY <1>2 DEF Behind
  <2>2. sep \in 0..(Len(s) + 1)
    BY <1>2, <2>1
  <2>3. MayPass(s, sep, value)
    BY <1>3, <2>2, OptionalPasses
  <2>4. value # 0
    BY <2>1, <2>3 DEF MayPass
  <2> QED
    BY <1>2, <2>1, <2>4 DEF Behind
<1>7. ASSUME sep # 0
      PROVE  /\ end \in value..(Len(s) + 1)
             /\ end <= Len(s) => s[end] \notin SecretValue
             /\ end > value <=> At(s, value) \in SecretValue
  <2>1. value \in 1..(Len(s) + 1) /\ value \in Int
    BY <1>2, <1>6, <1>7
  <2>2. /\ end \in value..(Len(s) + 1)
        /\ \A x \in value..(end - 1) : s[x] \in SecretValue
        /\ end <= Len(s) => s[end] \notin SecretValue
    BY <2>1, SkipPasses
  <2>3. At(s, value) = IF value <= Len(s) THEN s[value] ELSE "end"
    BY <2>1, AtReads
  <2> HIDE DEF end
  <2>4. end > value => At(s, value) \in SecretValue
    BY <1>2, <2>1, <2>2, <2>3
  <2>5. end = value => At(s, value) \notin SecretValue
    BY <1>2, <1>4, <2>1, <2>2, <2>3
  <2> QED
    BY <1>2, <2>1, <2>2, <2>4, <2>5
<1>8. CASE s[i] = "pass" /\ Boundary(s, i) /\ At(s, value) \in SecretValue
  <2>1. sep # 0
    BY <1>4, <1>5, <1>8
  <2>2. end > value /\ sep > 0
    BY <1>6, <1>7, <1>8, <2>1
  <2>3. m = Match(end, Kept(s, i, value) \o <<"TOKEN">>)
    BY <1>1, <1>2, <1>8, <2>2
  <2>4. m.end = end
    BY <2>3 DEF Match
  <2>5. /\ value \in (i + 2)..(Len(s) + 1)
        /\ end \in value..(Len(s) + 1)
        /\ end <= Len(s) => s[end] \notin SecretValue
    BY <1>6, <1>7, <2>1
  <2>6. end = Skip(s, value, SecretValue)
    OBVIOUS
  <2> HIDE DEF m, end
  <2>7. value \in (i + 2)..Len(s) /\ s[value] \in SecretValue /\ end \in (value + 1)..(Len(s) + 1)
    BY <1>2, <1>8, <2>2, <2>5 DEF At
  <2> QED
    BY <1>8, <2>3, <2>4, <2>5, <2>6, <2>7 DEF SecretDoes, m, value
<1>9. CASE ~(s[i] = "pass" /\ Boundary(s, i) /\ At(s, value) \in SecretValue)
  <2>1. ~(At(s, i) = "pass" /\ Boundary(s, i) /\ sep > 0 /\ end > value)
    BY <1>2, <1>7, <1>9
  <2>2. m = NoMatch(i)
    BY <1>1, <2>1
  <2>3. m.end = i
    BY <2>2 DEF NoMatch
  <2> HIDE DEF m, end
  <2> QED
    BY <1>9, <2>3 DEF SecretDoes, m, value
<1> QED
  BY <1>8, <1>9

(* so it masks only, and its placeholder is all that is left of a value.   *)
LEMMA SecretMasks ==
  ASSUME NEW s \in Seq(Lexemes), NEW i \in 1..Len(s)
  PROVE  /\ MasksOnly(Secret(s, i), s, i)
         /\ Secret(s, i).end # i => Masks(Secret(s, i), s, i, PassValue(s, i), <<"TOKEN">>)
<1> DEFINE m == Secret(s, i)
           v == PassValue(s, i)
<1>1. SecretDoes(m, s, i, v) /\ Behind(s, i, v) /\ Len(s) \in Nat
  BY SecretDoesIt, PassValueIs
<1> HIDE DEF m, v
<1>2. CASE m.end = i
  BY <1>2 DEF MasksOnly, m
<1>3. CASE m.end # i
  <2> DEFINE e == m.end
  <2> HIDE DEF e
  <2>1. /\ s[i] \in {"auth", "pass", "user"}
        /\ v \in (i + 2)..Len(s) /\ e \in (v + 1)..(Len(s) + 1)
        /\ e <= Len(s) => s[e] \notin SecretValue
        /\ m = Match(e, Kept(s, i, v) \o <<"TOKEN">>)
    BY <1>1, <1>3 DEF SecretDoes, e
  <2>2. Words \subseteq SecretValue
    BY DEF SecretValue, Words, Lexemes
  <2>3. v \in (i + 1)..(Len(s) + 1) /\ \A x \in (i + 1)..(v - 1) : s[x] \in Gap
    BY <1>1, <2>1 DEF Behind
  <2>4. TailOf(s, i, v, e, <<"TOKEN">>)
    <3>1. "TOKEN" \in Placeholders
      BY DEF Placeholders
    <3> QED
      BY <3>1, TailOfOne
  <2>5. e <= Len(s) /\ s[e] \in Words => s[e - 1] # "n"
    BY <2>1, <2>2
  <2>6. /\ MasksOnly(Match(e, Kept(s, i, v) \o <<"TOKEN">>), s, i)
        /\ Masks(Match(e, Kept(s, i, v) \o <<"TOKEN">>), s, i, v, <<"TOKEN">>)
    BY <2>1, <2>3, <2>4, <2>5, MasksValue
  <2> QED
    BY <2>1, <2>6 DEF m, v
<1> QED
  BY <1>2, <1>3

(* What the bare-name rule does, by the value.                             *)
NameBareDoes(m, s, i, v) ==
    \/ m.end = i /\ ~(s[i] = "user" /\ Boundary(s, i) /\ At(s, v) \in BareNameStart)
    \/ /\ s[i] = "user"
       /\ v \in (i + 2)..Len(s) /\ s[v] \in BareNameStart
       /\ m.end \in (v + 1)..(Len(s) + 1)
       /\ \A x \in v..(m.end - 1) : s[x] \in BareName
       /\ m.end <= Len(s) => s[m.end] \notin BareName
       /\ m = Match(m.end, Kept(s, i, v) \o <<"NAME">>)

(* That is all the rule over bare names ever does,                         *)
LEMMA NameBareDoesIt ==
  ASSUME NEW s \in Seq(Lexemes), NEW i \in 1..Len(s)
  PROVE  NameBareDoes(NameBare(s, i), s, i, AfterSep(s, i + 1))
<1> DEFINE v == AfterSep(s, i + 1)
           end == Skip(s, v, BareName)
           m == NameBare(s, i)
<1>1. m = IF At(s, i) = "user" /\ Boundary(s, i) /\ At(s, v) \in BareNameStart
          THEN Match(end, Kept(s, i, v) \o <<"NAME">>) ELSE NoMatch(i)
  BY DEF NameBare
<1>2. At(s, i) = s[i] /\ Len(s) \in Nat /\ i + 1 \in 1..(Len(s) + 1)
  BY DEF At
<1>3. "end" \notin BareNameStart /\ BareNameStart \subseteq BareName
  BY DEF BareNameStart, BareName, Lexemes, Words, Marks, Placeholders
<1>4. v # 0 => v \in (i + 2)..(Len(s) + 1)
  <2> SUFFICES ASSUME v # 0 PROVE v \in (i + 2)..(Len(s) + 1)
    OBVIOUS
  <2>1. v \in ((i + 1) + 1)..(Len(s) + 1)
    BY <1>2, GapAhead
  <2> HIDE DEF v
  <2> QED
    BY <2>1
<1> HIDE DEF v
<1>5. CASE s[i] = "user" /\ Boundary(s, i) /\ At(s, v) \in BareNameStart
  <2>1. m = Match(end, Kept(s, i, v) \o <<"NAME">>)
    BY <1>1, <1>2, <1>5
  <2>2. m.end = end
    BY <2>1 DEF Match
  <2>3. v \in 1..Len(s) /\ s[v] \in BareNameStart
    BY <1>3, <1>5 DEF At
  <2>4. v \in 1..(Len(s) + 1) /\ v \in (i + 2)..Len(s)
    BY <1>2, <1>4, <2>3
  <2>5. /\ end \in v..(Len(s) + 1)
        /\ \A x \in v..(end - 1) : s[x] \in BareName
        /\ end <= Len(s) => s[end] \notin BareName
    BY <2>4, SkipPasses
  <2> HIDE DEF m, end
  <2>6. end \in (v + 1)..(Len(s) + 1)
    BY <1>2, <1>3, <2>3, <2>4, <2>5
  <2> QED
    BY <1>5, <2>1, <2>2, <2>3, <2>4, <2>5, <2>6 DEF NameBareDoes, m, v
<1>6. CASE ~(s[i] = "user" /\ Boundary(s, i) /\ At(s, v) \in BareNameStart)
  <2>1. m = NoMatch(i)
    BY <1>1, <1>2, <1>6
  <2>2. m.end = i
    BY <2>1 DEF NoMatch
  <2> HIDE DEF m
  <2> QED
    BY <1>6, <2>2 DEF NameBareDoes, m, v
<1> QED
  BY <1>5, <1>6

(* so it masks only.                                                       *)
LEMMA NameBareMasks ==
  ASSUME NEW s \in Seq(Lexemes), NEW i \in 1..Len(s)
  PROVE  /\ MasksOnly(NameBare(s, i), s, i)
         /\ NameBare(s, i).end # i => Masks(NameBare(s, i), s, i, AfterSep(s, i + 1), <<"NAME">>)
<1> DEFINE m == NameBare(s, i)
           v == AfterSep(s, i + 1)
<1>1. NameBareDoes(m, s, i, v) /\ Len(s) \in Nat
  BY NameBareDoesIt
<1>2. v # 0 => \A x \in (i + 1)..(v - 1) : s[x] \in Gap
  <2>1. i + 1 \in 1..(Len(s) + 1)
    OBVIOUS
  <2> QED
    BY <2>1, GapAhead
<1> HIDE DEF m, v
<1>3. CASE m.end = i
  BY <1>3 DEF MasksOnly, m
<1>4. CASE m.end # i
  <2> DEFINE e == m.end
  <2> HIDE DEF e
  <2>1. /\ s[i] \in {"auth", "pass", "user"}
        /\ v \in (i + 2)..Len(s) /\ e \in (v + 1)..(Len(s) + 1)
        /\ e <= Len(s) => s[e] \notin BareName
        /\ m = Match(e, Kept(s, i, v) \o <<"NAME">>)
    BY <1>1, <1>4 DEF NameBareDoes, e
  <2>2. Words \subseteq BareName
    BY DEF BareName, Words, Lexemes
  <2>3. v \in (i + 1)..(Len(s) + 1) /\ \A x \in (i + 1)..(v - 1) : s[x] \in Gap
    BY <1>1, <1>2, <2>1
  <2>4. TailOf(s, i, v, e, <<"NAME">>)
    <3>1. "NAME" \in Placeholders
      BY DEF Placeholders
    <3> QED
      BY <3>1, TailOfOne
  <2>5. e <= Len(s) /\ s[e] \in Words => s[e - 1] # "n"
    BY <2>1, <2>2
  <2>6. /\ MasksOnly(Match(e, Kept(s, i, v) \o <<"NAME">>), s, i)
        /\ Masks(Match(e, Kept(s, i, v) \o <<"NAME">>), s, i, v, <<"NAME">>)
    BY <2>1, <2>3, <2>4, <2>5, MasksValue
  <2> QED
    BY <2>1, <2>6 DEF m, v
<1> QED
  BY <1>3, <1>4

(* What the quoted-name rule does, by the opening quote.                   *)
QuotedFound(s, i, open) ==
    /\ s[i] = "user" /\ Boundary(s, i)
    /\ At(s, open) = "quote" /\ At(s, Skip(s, open + 1, QuotedName)) = "quote"
    /\ Skip(s, open + 1, QuotedName) > open + 1
    /\ s[open + 1] \notin Placeholders

ShortName(s, open) == Skip(s, open + 1, QuotedName) - open - 1 <= MaxName

NameQuotedDoes(m, s, i, open) ==
    \/ m.end = i /\ ~(QuotedFound(s, i, open) /\ ShortName(s, open))
    \/ /\ QuotedFound(s, i, open)
       /\ open \in (i + 2)..Len(s)
       /\ m.end \in (open + 3)..(Len(s) + 1)
       /\ \A x \in (open + 1)..(m.end - 2) : s[x] \in QuotedName
       /\ s[m.end - 1] = "quote"
       /\ m = Match(m.end, Kept(s, i, open + 1) \o <<"NAME", "quote">>)

NameOpens(s, i) == AfterSep(s, Optional(s, i + 1, "quote"))

(* That is all the rule over quoted names ever does,                       *)
LEMMA NameQuotedDoesIt ==
  ASSUME NEW s \in Seq(Lexemes), NEW i \in 1..Len(s)
  PROVE  NameQuotedDoes(NameQuoted(s, i), s, i, NameOpens(s, i))
<1> DEFINE open == NameOpens(s, i)
           close == Skip(s, open + 1, QuotedName)
           m == NameQuoted(s, i)
<1>1. At(s, i) = s[i] /\ Len(s) \in Nat
  BY DEF At
<1>2. m = IF /\ At(s, i) = "user" /\ Boundary(s, i)
             /\ At(s, open) = "quote" /\ At(s, close) = "quote"
             /\ close - open - 1 \in 1..MaxName /\ s[open + 1] \notin Placeholders
          THEN Match(close + 1, Kept(s, i, open + 1) \o <<"NAME", "quote">>)
          ELSE NoMatch(i)
  BY DEF NameQuoted, NameOpens
<1>3. Behind(s, i, open)
  BY PassValueIs DEF NameOpens
<1> HIDE DEF open, m
<1>4. /\ QuotedFound(s, i, open) /\ ShortName(s, open) =>
             m = Match(close + 1, Kept(s, i, open + 1) \o <<"NAME", "quote">>)
      /\ ~(QuotedFound(s, i, open) /\ ShortName(s, open)) => m = NoMatch(i)
  <2> DEFINE d == close - open - 1
  <2>1. CASE At(s, open) = "quote" /\ At(s, close) = "quote"
    <3>1. open \in Int /\ close \in Int
      <4> HIDE DEF close
      <4> QED
        BY <2>1, AtIs
    <3> HIDE DEF close
    <3>2. (d \in 1..MaxName) <=> (close > open + 1 /\ d <= MaxName)
      BY <3>1, MaxNameAssumption
    <3> HIDE DEF d
    <3>3. QuotedFound(s, i, open) <=> /\ s[i] = "user" /\ Boundary(s, i)
                                      /\ close > open + 1 /\ s[open + 1] \notin Placeholders
      BY <2>1 DEF QuotedFound, close
    <3>4. ShortName(s, open) <=> d <= MaxName
      BY DEF ShortName, d, close
    <3> QED
      BY <1>1, <1>2, <2>1, <3>2, <3>3, <3>4 DEF d
  <2>2. CASE ~(At(s, open) = "quote" /\ At(s, close) = "quote")
    BY <1>2, <2>2 DEF QuotedFound
  <2> QED
    BY <2>1, <2>2
<1>5. CASE QuotedFound(s, i, open) /\ ShortName(s, open)
  <2>1. m = Match(close + 1, Kept(s, i, open + 1) \o <<"NAME", "quote">>)
    BY <1>4, <1>5
  <2>2. m.end = close + 1
    BY <2>1 DEF Match
  <2>3. At(s, open) = "quote" /\ At(s, close) = "quote" /\ close > open + 1
    BY <1>5 DEF QuotedFound
  <2>4. open \in 1..Len(s) /\ close \in 1..Len(s) /\ s[close] = "quote"
    BY <2>3, AtIs
  <2>5. open \in (i + 2)..Len(s) /\ open + 1 \in 1..(Len(s) + 1)
    BY <1>1, <1>3, <2>4 DEF Behind
  <2>6. \A x \in (open + 1)..(close - 1) : s[x] \in QuotedName
    BY <2>5, SkipPasses
  <2> HIDE DEF m, close
  <2> DEFINE e == close + 1
  <2>7. /\ e \in (open + 3)..(Len(s) + 1) /\ e - 1 = close /\ e - 2 = close - 1
    BY <1>1, <2>3, <2>4, <2>5
  <2> HIDE DEF e
  <2>8. m.end = e /\ m = Match(e, Kept(s, i, open + 1) \o <<"NAME", "quote">>)
    BY <2>1, <2>2 DEF e
  <2> QED
    BY <1>5, <2>4, <2>5, <2>6, <2>7, <2>8 DEF NameQuotedDoes, m, open
<1>6. CASE ~(QuotedFound(s, i, open) /\ ShortName(s, open))
  <2>1. m = NoMatch(i)
    BY <1>4, <1>6
  <2>2. m.end = i
    BY <2>1 DEF NoMatch
  <2> HIDE DEF m
  <2> QED
    BY <1>6, <2>2 DEF NameQuotedDoes, m, open
<1> QED
  BY <1>5, <1>6

(* so it masks only, and the closing quote is put back.                    *)
LEMMA NameQuotedMasks ==
  ASSUME NEW s \in Seq(Lexemes), NEW i \in 1..Len(s)
  PROVE  /\ MasksOnly(NameQuoted(s, i), s, i)
         /\ NameQuoted(s, i).end # i => Masks(NameQuoted(s, i), s, i, NameOpens(s, i) + 1, <<"NAME", "quote">>)
<1> DEFINE m == NameQuoted(s, i)
           open == NameOpens(s, i)
           tail == <<"NAME", "quote">>
<1>1. NameQuotedDoes(m, s, i, open) /\ Behind(s, i, open) /\ Len(s) \in Nat
  BY NameQuotedDoesIt, PassValueIs DEF NameOpens
<1> HIDE DEF m, open
<1>2. CASE m.end = i
  BY <1>2 DEF MasksOnly, m
<1>3. CASE m.end # i
  <2> DEFINE e == m.end
             v == open + 1
  <2>1. /\ s[i] = "user" /\ At(s, open) = "quote"
        /\ open \in (i + 2)..Len(s) /\ e \in (open + 3)..(Len(s) + 1)
        /\ s[e - 1] = "quote"
        /\ m = Match(e, Kept(s, i, v) \o tail)
    BY <1>1, <1>3 DEF NameQuotedDoes, QuotedFound
  <2>2. s[open] = "quote"
    BY <2>1, AtIs
  <2> HIDE DEF e
  <2>3. \A x \in (i + 1)..(open - 1) : s[x] \in Gap
    BY <1>1, <2>1 DEF Behind
  <2>4. /\ v \in (i + 1)..(Len(s) + 1) /\ v - 1 = open
        /\ \A x \in (i + 1)..(v - 1) : s[x] \in Gap
    BY <1>1, <2>1, <2>2, <2>3 DEF Gap
  <2>5. e \in (v + 1)..(Len(s) + 1) /\ v > i
    BY <1>1, <2>1
  <2> HIDE DEF v
  <2>6. TailOf(s, i, v, e, tail)
    <3>1. /\ tail \in Seq(Lexemes) /\ Len(tail) = 2
          /\ tail[1] \in Placeholders /\ tail[2] = "quote"
      BY DEF Placeholders, Lexemes, Marks
    <3> HIDE DEF tail
    <3> QED
      BY <2>2, <2>4, <2>5, <3>1 DEF TailOf
  <2> HIDE DEF tail
  <2>7. s[i] \in {"auth", "pass", "user"} /\ (e <= Len(s) /\ s[e] \in Words => s[e - 1] # "n")
    BY <2>1
  <2>8. /\ MasksOnly(Match(e, Kept(s, i, v) \o tail), s, i)
        /\ Masks(Match(e, Kept(s, i, v) \o tail), s, i, v, tail)
    BY <2>4, <2>5, <2>6, <2>7, MasksValue
  <2> QED
    BY <2>1, <2>8 DEF m, v, open, tail
<1> QED
  BY <1>2, <1>3

-----------------------------------------------------------------------------
(***************************************************************************)
(* What a masking pass keeps of a text.                                    *)
(***************************************************************************)

MaskingPass(match, s, t, stops, at) ==
    /\ s \in Seq(Lexemes) /\ t \in Seq(Lexemes)
    /\ Lexed(s)
    /\ Masking(match, s)
    /\ Pass(match, s, t, stops, at)

(* At a stop a lexeme is copied, or a match is replaced.                   *)
Copies(match, s, t, stops, at, j) ==
    /\ match[j].end = j
    /\ After(match, j) = j + 1
    /\ j + 1 \in stops /\ at[j + 1] = at[j] + 1
    /\ at[j] + 1 \in 1..Len(t) /\ t[at[j] + 1] = s[j]

Replaces(match, s, t, stops, at, j, v, tail) ==
    /\ Masks(match[j], s, j, v, tail)
    /\ After(match, j) = match[j].end
    /\ match[j].end \in stops
    /\ at[match[j].end] = at[j] + (v - j) + Len(tail)
    /\ at[j] + (v - j) + Len(tail) <= Len(t)
    /\ \A x \in 1..(v - j) : t[at[j] + x] = s[j + x - 1]
    /\ \A y \in 1..Len(tail) : t[at[j] + (v - j) + y] = tail[y]

(* What a text read in two parts has where.                                *)
LEMMA JoinReads ==
  ASSUME NEW X, NEW s \in Seq(X), NEW u \in Seq(X)
  PROVE  /\ Len(s \o u) = Len(s) + Len(u)
         /\ \A x \in 1..Len(s) : (s \o u)[x] = s[x]
         /\ \A y \in 1..Len(u) : (s \o u)[Len(s) + y] = u[y]
<1>1. /\ Len(s \o u) = Len(s) + Len(u)
      /\ \A i \in 1..(Len(s) + Len(u)) : (s \o u)[i] = IF i <= Len(s) THEN s[i] ELSE u[i - Len(s)]
      /\ Len(s) \in Nat /\ Len(u) \in Nat
  BY ConcatProperties
<1>2. ASSUME NEW x \in 1..Len(s) PROVE (s \o u)[x] = s[x]
  <2>1. x \in 1..(Len(s) + Len(u)) /\ x <= Len(s)
    BY <1>1
  <2> QED
    BY <1>1, <2>1
<1>3. ASSUME NEW y \in 1..Len(u) PROVE (s \o u)[Len(s) + y] = u[y]
  <2>1. /\ Len(s) + y \in 1..(Len(s) + Len(u)) /\ ~(Len(s) + y <= Len(s))
        /\ (Len(s) + y) - Len(s) = y
    BY <1>1
  <2> QED
    BY <1>1, <2>1
<1> QED
  BY <1>1, <1>2, <1>3

(* What is kept of a match is what stands there.                           *)
LEMMA KeptReads ==
  ASSUME NEW X, NEW s \in Seq(X), NEW j \in 1..Len(s), NEW v \in j..(Len(s) + 1)
  PROVE  /\ Kept(s, j, v) \in Seq(X)
         /\ Len(Kept(s, j, v)) = v - j
         /\ \A x \in 1..(v - j) : Kept(s, j, v)[x] = s[j + x - 1]
<1>1. Len(s) \in Nat /\ j \in Nat /\ v \in Nat
  OBVIOUS
<1>2. CASE v = j
  BY <1>1, <1>2 DEF Kept
<1>3. CASE v # j
  <2>1. v - 1 \in j..Len(s)
    BY <1>1, <1>3
  <2> DEFINE w == v - 1
  <2> HIDE DEF w
  <2>2. w \in j..Len(s) /\ j \in 1..(Len(s) + 1)
    BY <1>1, <2>1 DEF w
  <2>3. /\ SubSeq(s, j, w) \in Seq(X)
        /\ Len(SubSeq(s, j, w)) = w - j + 1
        /\ \A x \in 1..(w - j + 1) : SubSeq(s, j, w)[x] = s[j + x - 1]
    BY <2>2
  <2>4. w - j + 1 = v - j
    BY <1>1 DEF w
  <2> QED
    BY <2>3, <2>4 DEF Kept, w
<1> QED
  BY <1>2, <1>3

(* What a match puts out stands in the outcome where its stop says.        *)
LEMMA MatchStands ==
  ASSUME NEW match, NEW s, NEW t, NEW stops, NEW at, MaskingPass(match, s, t, stops, at),
         NEW j \in stops, j <= Len(s), NEW v, NEW tail, Masks(match[j], s, j, v, tail)
  PROVE  Replaces(match, s, t, stops, at, j, v, tail)
<1> DEFINE put == Put(match, s, j)
           m == match[j]
           kept == Kept(s, j, v)
<1>1. /\ s \in Seq(Lexemes) /\ t \in Seq(Lexemes)
      /\ Pass(match, s, t, stops, at)
  BY DEF MaskingPass
<1>2. Len(s) \in Nat /\ Len(t) \in Nat /\ j \in 1..Len(s)
  BY <1>1 DEF Pass
<1>3. /\ at[j] \in Nat
      /\ After(match, j) \in stops
      /\ at[After(match, j)] = at[j] + Len(put)
      /\ Stands(t, at[j], put)
  BY <1>1 DEF Pass
<1>4. /\ m.end \in (j + 1)..(Len(s) + 1) /\ v \in j..(m.end - 1)
      /\ m.out = Kept(s, j, v) \o tail /\ tail \in Seq(Lexemes)
  BY DEF Masks, TailOf
<1>5. m.end # j
  BY <1>2, <1>4
<1>6. After(match, j) = m.end /\ put = m.out
  BY <1>5 DEF After, Put
<1>7. kept \in Seq(Lexemes) /\ Len(kept) = v - j /\ \A x \in 1..(v - j) : kept[x] = s[j + x - 1]
  <2>1. v \in j..(Len(s) + 1)
    BY <1>2, <1>4
  <2> QED
    BY <1>1, <1>2, <2>1, KeptReads
<1> HIDE DEF put, kept
<1>8. /\ Len(put) = Len(kept) + Len(tail)
      /\ \A x \in 1..Len(kept) : put[x] = kept[x]
      /\ \A y \in 1..Len(tail) : put[Len(kept) + y] = tail[y]
  <2>1. put = kept \o tail
    BY <1>4, <1>6 DEF kept
  <2>2. /\ Len(kept \o tail) = Len(kept) + Len(tail)
        /\ \A x \in 1..Len(kept) : (kept \o tail)[x] = kept[x]
        /\ \A y \in 1..Len(tail) : (kept \o tail)[Len(kept) + y] = tail[y]
    <3>1. kept \in Seq(Lexemes) /\ tail \in Seq(Lexemes)
      BY <1>4, <1>7
    <3> QED
      BY <3>1, JoinReads
  <2> QED
    BY <2>1, <2>2
<1>9. v - j \in Nat /\ Len(tail) \in Nat
  BY <1>2, <1>4
<1>10. at[j] + Len(put) <= Len(t) /\ \A x \in 1..Len(put) : t[at[j] + x] = put[x]
  BY <1>3 DEF Stands
<1>11. ASSUME NEW x \in 1..(v - j) PROVE t[at[j] + x] = s[j + x - 1]
  <2>1. x \in 1..Len(put) /\ x \in 1..Len(kept)
    BY <1>7, <1>8, <1>9
  <2> QED
    BY <1>7, <1>8, <1>10, <2>1
<1>12. ASSUME NEW y \in 1..Len(tail) PROVE t[at[j] + (v - j) + y] = tail[y]
  <2>1. (v - j) + y \in 1..Len(put) /\ at[j] + ((v - j) + y) = at[j] + (v - j) + y
    BY <1>3, <1>7, <1>8, <1>9
  <2> QED
    BY <1>7, <1>8, <1>10, <2>1
<1>13. /\ at[m.end] = at[j] + (v - j) + Len(tail)
       /\ at[j] + (v - j) + Len(tail) <= Len(t)
  BY <1>3, <1>6, <1>7, <1>8, <1>9, <1>10
<1> QED
  BY <1>3, <1>6, <1>11, <1>12, <1>13 DEF Replaces

(* At every stop a pass copies a lexeme or replaces a match.               *)
LEMMA StopDoes ==
  ASSUME NEW match, NEW s, NEW t, NEW stops, NEW at, MaskingPass(match, s, t, stops, at),
         NEW j \in stops, j <= Len(s)
  PROVE  \/ Copies(match, s, t, stops, at, j)
         \/ \E v, tail : Replaces(match, s, t, stops, at, j, v, tail)
<1> DEFINE put == Put(match, s, j)
           m == match[j]
<1>1. Masking(match, s) /\ Pass(match, s, t, stops, at) /\ s \in Seq(Lexemes)
  BY DEF MaskingPass
<1>2. j \in 1..Len(s)
  BY <1>1 DEF Pass
<1>3. MasksOnly(m, s, j)
  BY <1>1, <1>2 DEF Masking
<1>4. CASE m.end = j
  <2>1. /\ at[j] \in Nat
        /\ After(match, j) \in stops
        /\ at[After(match, j)] = at[j] + Len(put)
        /\ Stands(t, at[j], put)
    BY <1>1 DEF Pass
  <2>2. After(match, j) = j + 1 /\ put = <<s[j]>>
    BY <1>4 DEF After, Put
  <2>3. Len(put) = 1 /\ put[1] = s[j]
    BY <2>2
  <2> HIDE DEF put
  <2>4. at[j] + 1 <= Len(t) /\ t[at[j] + 1] = s[j]
    BY <2>1, <2>3 DEF Stands
  <2>5. Len(t) \in Nat
    BY DEF MaskingPass
  <2> QED
    BY <1>2, <1>4, <2>1, <2>2, <2>3, <2>4, <2>5 DEF Copies
<1>5. CASE m.end # j
  BY <1>3, <1>5, MatchStands DEF MasksOnly
<1> QED
  BY <1>4, <1>5

(* What is seen at a stop is what was there, or a placeholder for what     *)
(* starts a match.                                                         *)
Seen(s, t, j, k) ==
    \/ At(t, k) = At(s, j)
    \/ j \in 1..Len(s) /\ s[j] \in Starts /\ At(t, k) \in Placeholders

(* Behind every stop the outcome shows what the text does, or what is put  *)
(* out for it.                                                             *)
LEMMA StopSees ==
  ASSUME NEW match, NEW s, NEW t, NEW stops, NEW at, MaskingPass(match, s, t, stops, at),
         NEW j \in stops
  PROVE  /\ Seen(s, t, j, at[j] + 1)
         /\ at[j] + 1 \in 1..(Len(t) + 1) /\ j \in 1..(Len(s) + 1)
<1>1. /\ s \in Seq(Lexemes) /\ t \in Seq(Lexemes) /\ at[j] \in Nat
      /\ j \in 1..(Len(s) + 1) /\ Len(s) \in Nat /\ Len(t) \in Nat
      /\ j = Len(s) + 1 => at[j] = Len(t)
  BY DEF MaskingPass, Pass
<1>2. CASE j = Len(s) + 1
  <2>1. At(s, j) = "end" /\ At(t, at[j] + 1) = "end"
    BY <1>1, <1>2, AtReads
  <2> QED
    BY <1>1, <1>2, <2>1 DEF Seen
<1>3. CASE j # Len(s) + 1
  <2>1. j \in 1..Len(s) /\ j <= Len(s) /\ At(s, j) = s[j]
    BY <1>1, <1>3 DEF At
  <2>2. CASE Copies(match, s, t, stops, at, j)
    <3>1. at[j] + 1 \in 1..Len(t) /\ t[at[j] + 1] = s[j]
      BY <2>2 DEF Copies
    <3>2. At(t, at[j] + 1) = s[j]
      BY <1>1, <3>1 DEF At
    <3> QED
      BY <1>1, <2>1, <3>1, <3>2 DEF Seen
  <2>3. ASSUME NEW v, NEW tail, Replaces(match, s, t, stops, at, j, v, tail)
        PROVE  Seen(s, t, j, at[j] + 1) /\ at[j] + 1 \in 1..(Len(t) + 1)
    <3>1. /\ v \in j..(match[j].end - 1) /\ match[j].end \in (j + 1)..(Len(s) + 1)
          /\ Len(tail) \in 1..2 /\ tail[1] \in Placeholders /\ s[j] \in Starts
      BY <2>3 DEF Replaces, Masks, TailOf
    <3>2. at[j] + (v - j) + Len(tail) <= Len(t)
      BY <2>3 DEF Replaces
    <3>3. at[j] + 1 \in 1..Len(t) /\ v - j \in Nat
      <4> DEFINE a == at[j]
                 l == Len(tail)
                 d == v - j
                 n == Len(t)
      <4>1. a \in Nat /\ l \in 1..2 /\ d \in Nat /\ n \in Nat /\ a + d + l <= n
        BY <1>1, <3>1, <3>2
      <4> HIDE DEF a, l, d, n
      <4>2. a + 1 \in 1..n
        BY <4>1
      <4> QED
        BY <4>1, <4>2 DEF a, d, n
    <3>4. At(t, at[j] + 1) = t[at[j] + 1]
      BY <1>1, <3>3 DEF At
    <3>5. CASE v = j
      <4>1. 1 \in 1..Len(tail) /\ at[j] + (v - j) + 1 = at[j] + 1
        BY <1>1, <3>1, <3>5
      <4>2. t[at[j] + 1] = tail[1]
        BY <2>3, <4>1 DEF Replaces
      <4> QED
        BY <1>1, <2>1, <3>1, <3>3, <3>4, <4>2 DEF Seen
    <3>6. CASE v # j
      <4>1. 1 \in 1..(v - j) /\ j + 1 - 1 = j
        <5>1. v \in Int /\ j \in Int
          BY <1>1, <3>1
        <5> QED
          BY <3>3, <3>6, <5>1
      <4>2. t[at[j] + 1] = s[j]
        BY <2>3, <4>1 DEF Replaces
      <4> QED
        BY <1>1, <2>1, <3>3, <3>4, <4>2 DEF Seen
    <3> QED
      BY <3>5, <3>6
  <2> QED
    BY <1>1, <2>1, <2>2, <2>3, StopDoes
<1> QED
  BY <1>2, <1>3

(* Every word of the outcome is one of the text, at a stop, unless it is    *)
(* what a credential left of an address.                                   *)
LEMMA WordsStand ==
  ASSUME NEW match, NEW s, NEW t, NEW stops, NEW at, MaskingPass(match, s, t, stops, at),
         NEW k \in 1..Len(t), t[k] \in Starts
  PROVE  \/ \E j \in stops :
               /\ j <= Len(s) /\ k = at[j] + 1 /\ s[j] = t[k]
               /\ \/ Copies(match, s, t, stops, at, j)
                  \/ \E v, tail : v > j /\ Replaces(match, s, t, stops, at, j, v, tail)
         \/ k > 1 /\ t[k - 1] \in Placeholders /\ t[k] = "ip6"
<1>1. /\ s \in Seq(Lexemes) /\ t \in Seq(Lexemes)
      /\ Len(s) \in Nat /\ Len(t) \in Nat
      /\ stops \subseteq 1..(Len(s) + 1) /\ at \in [stops -> Nat]
  <2>1. s \in Seq(Lexemes) /\ t \in Seq(Lexemes) /\ Pass(match, s, t, stops, at)
    BY DEF MaskingPass
  <2>2. stops \subseteq 1..(Len(s) + 1) /\ at \in [stops -> Nat]
    BY <2>1 DEF Pass
  <2> QED
    BY <2>1, <2>2
<1>2. PICK j \in stops : j <= Len(s) /\ \E x \in 1..Len(Put(match, s, j)) : k = at[j] + x
  BY DEF MaskingPass, Pass
<1>3. PICK x \in 1..Len(Put(match, s, j)) : k = at[j] + x
  BY <1>2
<1>4. Starts \cap (Gap \cup Placeholders \cup {"quote", "at"}) = {}
  BY DEF Starts, Gap, Space, Placeholders, Words
<1>5. CASE Copies(match, s, t, stops, at, j)
  <2>1. Put(match, s, j) = <<s[j]>>
    BY <1>5 DEF Copies, Put
  <2>2. x = 1
    BY <1>3, <2>1
  <2>3. t[k] = s[j]
    BY <1>3, <1>5, <2>2 DEF Copies
  <2> QED
    BY <1>2, <1>3, <1>5, <2>2, <2>3
<1>6. ASSUME NEW v, NEW tail, Replaces(match, s, t, stops, at, j, v, tail)
      PROVE  \/ k = at[j] + 1 /\ s[j] = t[k] /\ v > j
             \/ k > 1 /\ t[k - 1] \in Placeholders /\ t[k] = "ip6"
  <2>1. /\ v \in j..(match[j].end - 1) /\ match[j].end \in (j + 1)..(Len(s) + 1)
        /\ \A p \in (j + 1)..(v - 1) : s[p] \in Gap
        /\ TailOf(s, j, v, match[j].end, tail)
    BY <1>6 DEF Replaces, Masks
  <2>2. /\ tail \in Seq(Lexemes) /\ Len(tail) \in 1..2 /\ tail[1] \in Placeholders
        /\ Len(tail) = 2 => tail[2] \in {"quote", "at", "ip6"}
    BY <2>1 DEF TailOf
  <2>3. at[j] \in Nat /\ j \in Nat /\ v \in Nat /\ v - j \in Nat /\ Len(tail) \in Nat
    BY <1>1, <2>1, <2>2
  <2>4. x <= (v - j) + Len(tail)
    <3>1. Put(match, s, j) = Kept(s, j, v) \o tail
      <4>1. match[j].end # j
        BY <1>1, <2>1
      <4> QED
        BY <1>6, <4>1 DEF Put, Replaces, Masks
    <3>2. Kept(s, j, v) \in Seq(Lexemes) /\ Len(Kept(s, j, v)) = v - j
      <4>1. v \in j..(Len(s) + 1) /\ j \in 1..Len(s)
        BY <1>1, <1>2, <2>1
      <4> QED
        BY <1>1, <4>1, KeptReads
    <3> DEFINE kept == Kept(s, j, v)
    <3> HIDE DEF kept
    <3>3. kept \in Seq(Lexemes) /\ Len(kept) = v - j /\ Put(match, s, j) = kept \o tail
      BY <3>1, <3>2 DEF kept
    <3>4. Len(kept \o tail) = (v - j) + Len(tail)
      BY <2>2, <3>3, JoinReads
    <3> QED
      BY <1>3, <2>3, <3>3, <3>4
  <2>5. CASE x <= v - j
    <3>1. x \in 1..(v - j)
      BY <2>3, <2>5
    <3>2. t[k] = s[j + x - 1]
      BY <1>3, <1>6, <3>1 DEF Replaces
    <3>3. x = 1
      <4> SUFFICES ASSUME x # 1 PROVE FALSE
        OBVIOUS
      <4>1. j + x - 1 \in (j + 1)..(v - 1)
        BY <2>3, <3>1
      <4> QED
        BY <1>4, <2>1, <3>2, <4>1
    <3>4. s[j] = t[k] /\ v > j
      BY <2>3, <2>5, <3>2, <3>3
    <3> QED
      BY <1>3, <3>3, <3>4
  <2>6. CASE x > v - j
    <3> DEFINE y == x - (v - j)
    <3>1. y \in 1..Len(tail) /\ k = at[j] + (v - j) + y
      BY <1>3, <2>3, <2>4, <2>6
    <3> HIDE DEF y
    <3>2. t[k] = tail[y]
      BY <1>6, <3>1 DEF Replaces
    <3>3. y = 2 /\ Len(tail) = 2
      BY <1>4, <2>2, <3>1, <3>2
    <3>4. tail[2] = "ip6" /\ t[k] = "ip6"
      BY <1>4, <2>2, <3>2, <3>3
    <3>5. 1 \in 1..Len(tail) /\ k - 1 = at[j] + (v - j) + 1 /\ k > 1
      BY <2>3, <3>1, <3>3
    <3>6. t[k - 1] = tail[1]
      BY <1>6, <3>5 DEF Replaces
    <3> QED
      BY <2>2, <3>4, <3>5, <3>6
  <2> QED
    BY <2>3, <2>5, <2>6
<1> QED
  BY <1>2, <1>5, <1>6, StopDoes

(* The lengths and the stops of a pass.                                    *)
LEMMA PassSizes ==
  ASSUME NEW match, NEW s, NEW t, NEW stops, NEW at, MaskingPass(match, s, t, stops, at)
  PROVE  /\ s \in Seq(Lexemes) /\ t \in Seq(Lexemes) /\ Lexed(s)
         /\ Len(s) \in Nat /\ Len(t) \in Nat
         /\ \A j \in stops : j \in 1..(Len(s) + 1) /\ at[j] \in Nat
         /\ \A j \in stops : j > 1 => \E i \in stops : i <= Len(s) /\ After(match, i) = j
<1>1. /\ s \in Seq(Lexemes) /\ t \in Seq(Lexemes) /\ Lexed(s)
      /\ Pass(match, s, t, stops, at)
  BY DEF MaskingPass
<1>2. /\ stops \subseteq 1..(Len(s) + 1) /\ at \in [stops -> Nat]
      /\ \A j \in stops : j > 1 => \E i \in stops : i <= Len(s) /\ After(match, i) = j
  BY <1>1 DEF Pass
<1> QED
  BY <1>1, <1>2

(* The n of a newline still stands before a word that does.                *)
LEMMA EscapeStays ==
  ASSUME NEW match, NEW s, NEW t, NEW stops, NEW at, MaskingPass(match, s, t, stops, at),
         NEW j \in stops, j > 1, j <= Len(s), s[j] \in Words, s[j - 1] = "n"
  PROVE  at[j] \in 1..Len(t) /\ t[at[j]] = "n"
<1>1. /\ Len(s) \in Nat /\ Len(t) \in Nat
      /\ \A i \in stops : i \in 1..(Len(s) + 1) /\ at[i] \in Nat
  BY PassSizes
<1>2. PICK i \in stops : i <= Len(s) /\ After(match, i) = j
  BY PassSizes
<1>3. CASE Copies(match, s, t, stops, at, i)
  <2>1. j = i + 1 /\ at[j] = at[i] + 1 /\ at[i] + 1 \in 1..Len(t) /\ t[at[i] + 1] = s[i]
    BY <1>2, <1>3 DEF Copies
  <2>2. j - 1 = i
    BY <1>1, <2>1
  <2> QED
    BY <2>1, <2>2
<1>4. ASSUME NEW v, NEW tail, Replaces(match, s, t, stops, at, i, v, tail) PROVE FALSE
  <2>1. match[i].end = j
    BY <1>2, <1>4 DEF Replaces
  <2>2. match[i].end <= Len(s) /\ s[match[i].end] \in Words => s[match[i].end - 1] # "n"
    BY <1>4 DEF Replaces, Masks
  <2> QED
    BY <2>1, <2>2
<1> QED
  BY <1>2, <1>3, <1>4, StopDoes

(* So a word that has no word before it in the outcome had none.           *)
LEMMA BoundaryWas ==
  ASSUME NEW match, NEW s, NEW t, NEW stops, NEW at, MaskingPass(match, s, t, stops, at),
         NEW j \in stops, j <= Len(s), s[j] \in Words, Boundary(t, at[j] + 1)
  PROVE  Boundary(s, j)
<1>1. /\ Len(s) \in Nat /\ Len(t) \in Nat /\ j \in 1..Len(s) /\ at[j] \in Nat
      /\ s \in Seq(Lexemes) /\ Lexed(s)
  BY PassSizes
<1> SUFFICES ASSUME ~Boundary(s, j) PROVE FALSE
  OBVIOUS
<1>2. At(s, j - 1) \in WordEnds
  BY DEF Boundary
<1>3. "end" \notin WordEnds
  BY DEF WordEnds, Words
<1>4. j - 1 \in 1..Len(s) /\ s[j - 1] \in WordEnds
  BY <1>2, <1>3 DEF At
<1>5. j \in 2..Len(s)
  BY <1>1, <1>4
<1>6. s[j - 1] = "n"
  BY <1>1, <1>4, <1>5 DEF Lexed, WordEnds
<1>7. at[j] \in 1..Len(t) /\ t[at[j]] = "n"
  BY <1>5, <1>6, EscapeStays
<1>8. (at[j] + 1) - 1 = at[j]
  BY <1>1
<1>9. At(t, (at[j] + 1) - 1) = "n"
  BY <1>7, <1>8 DEF At
<1> QED
  BY <1>9 DEF Boundary, WordEnds

(* A pass keeps a text lexed.                                              *)
LEMMA LexedStays ==
  ASSUME NEW match, NEW s, NEW t, NEW stops, NEW at, MaskingPass(match, s, t, stops, at)
  PROVE  Lexed(t)
<1>1. /\ Len(s) \in Nat /\ Len(t) \in Nat
      /\ \A i \in stops : i \in 1..(Len(s) + 1) /\ at[i] \in Nat
      /\ Lexed(s)
  BY PassSizes
<1> SUFFICES ASSUME NEW k \in 2..Len(t), t[k] \in Words \cup {"n"},
                    t[k - 1] \in Words \cup {"at"}
             PROVE  FALSE
  BY DEF Lexed
<1>2. (Words \cup {"at"}) \cap (Placeholders \cup {"quote"}) = {}
  BY DEF Words, Placeholders
<1>3. k \in 1..Len(t) /\ t[k] \in Starts
  BY DEF Starts
<1>4. PICK j \in stops : j <= Len(s) /\ k = at[j] + 1 /\ s[j] = t[k]
  BY <1>2, <1>3, WordsStand
<1>5. j \in 1..Len(s) /\ at[j] = k - 1 /\ j > 1
  <2>1. j \in 1..Len(s) /\ at[j] = k - 1
    BY <1>1, <1>4
  <2>2. at[1] = 0
    BY DEF MaskingPass, Pass
  <2> QED
    BY <1>1, <2>1, <2>2
<1>6. PICK i \in stops : i <= Len(s) /\ After(match, i) = j
  BY <1>5, PassSizes
<1>7. j \in 2..Len(s) /\ s[j - 1] \notin Words \cup {"at"}
  <2>1. j \in 2..Len(s) /\ s[j] \in Words \cup {"n"}
    BY <1>1, <1>4, <1>5
  <2> QED
    BY <1>1, <2>1 DEF Lexed
<1>8. CASE Copies(match, s, t, stops, at, i)
  <2>1. j = i + 1 /\ at[j] = at[i] + 1 /\ t[at[i] + 1] = s[i]
    BY <1>6, <1>8 DEF Copies
  <2>2. j - 1 = i
    BY <1>1, <2>1
  <2> QED
    BY <1>5, <1>7, <2>1, <2>2
<1>9. ASSUME NEW v, NEW tail, Replaces(match, s, t, stops, at, i, v, tail) PROVE FALSE
  <2>1. /\ match[i].end = j
        /\ at[j] = at[i] + (v - i) + Len(tail)
        /\ \A y \in 1..Len(tail) : t[at[i] + (v - i) + y] = tail[y]
    BY <1>6, <1>9 DEF Replaces
  <2>2. TailOf(s, i, v, j, tail)
    BY <1>9, <2>1 DEF Replaces, Masks
  <2>3. Len(tail) \in 1..Len(tail) /\ t[at[j]] = tail[Len(tail)]
    <3>1. Len(tail) \in 1..2
      BY <2>2 DEF TailOf
    <3>2. Len(tail) \in 1..Len(tail)
      <4> DEFINE l == Len(tail)
      <4>1. l \in 1..2
        BY <3>1
      <4> HIDE DEF l
      <4>2. l \in 1..l
        BY <4>1
      <4> QED
        BY <4>2 DEF l
    <3> QED
      BY <2>1, <3>2
  <2>4. \/ tail[Len(tail)] \in Placeholders \cup {"quote"}
        \/ s[j - 1] \in Words
    BY <2>2 DEF TailOf
  <2> QED
    BY <1>2, <1>5, <1>7, <2>3, <2>4
<1> QED
  BY <1>6, <1>8, <1>9, StopDoes

(* Nothing starts in a gap: it is copied as it stands.                     *)
LEMMA NotStartCopied ==
  ASSUME NEW match, NEW s, NEW t, NEW stops, NEW at, MaskingPass(match, s, t, stops, at),
         NEW j \in stops, j <= Len(s), s[j] \notin Starts
  PROVE  Copies(match, s, t, stops, at, j)
BY StopDoes DEF Replaces, Masks

(* What is between a key and its value is copied.                          *)
LEMMA GapCopied ==
  ASSUME NEW match, NEW s, NEW t, NEW stops, NEW at, MaskingPass(match, s, t, stops, at),
         NEW i \in stops, NEW e \in i..(Len(s) + 1), \A x \in i..(e - 1) : s[x] \in Gap
  PROVE  /\ e \in stops /\ at[e] = at[i] + (e - i)
         /\ \A x \in i..(e - 1) : t[at[i] + 1 + (x - i)] = s[x]
<1>1. /\ Len(s) \in Nat /\ i \in 1..(Len(s) + 1) /\ at[i] \in Nat
  BY PassSizes
<1>2. Gap \cap Starts = {}
  BY DEF Gap, Space, Starts, Words
<1> DEFINE m == e - i
           Ok(d) == /\ i + d \in stops /\ at[i + d] = at[i] + d
                    /\ \A x \in 0..(d - 1) : t[at[i] + 1 + x] = s[i + x]
           Bad == {d \in 0..m : ~Ok(d)}
<1>3. m \in Nat /\ i + m = e
  BY <1>1
<1> HIDE DEF m
<1>4. 0 \notin Bad
  BY <1>1
<1>5. \A d \in 1..m : d \in Bad => d - 1 \in Bad
  <2> SUFFICES ASSUME NEW d \in 1..m, d - 1 \notin Bad PROVE Ok(d)
    OBVIOUS
  <2> DEFINE p == i + (d - 1)
  <2>1. Ok(d - 1)
    <3>1. d - 1 \in 0..m
      BY <1>3
    <3> QED
      BY <3>1
  <2>2. p \in i..(e - 1) /\ p <= Len(s) /\ p + 1 = i + d
    BY <1>1, <1>3
  <2>3. p \in stops /\ at[p] = at[i] + (d - 1)
    BY <2>1
  <2> HIDE DEF p
  <2>4. s[p] \in Gap
    BY <2>2
  <2>5. Copies(match, s, t, stops, at, p)
    BY <1>2, <2>2, <2>3, <2>4, NotStartCopied
  <2>6. /\ p + 1 \in stops /\ at[p + 1] = at[p] + 1 /\ t[at[p] + 1] = s[p]
    BY <2>5 DEF Copies
  <2>7. at[i + d] = at[i] + d /\ at[p] + 1 = at[i] + 1 + (d - 1)
    <3>1. d \in Nat
      BY <1>3
    <3>2. at[i + d] = at[p] + 1
      BY <2>2, <2>6
    <3>3. at[p] + 1 = at[i] + 1 + (d - 1) /\ at[p] + 1 = at[i] + d
      <4> DEFINE a == at[i]
                 b == at[p]
      <4>1. a \in Nat /\ b = a + (d - 1)
        BY <1>1, <2>3
      <4> HIDE DEF a, b
      <4>2. b + 1 = a + 1 + (d - 1) /\ b + 1 = a + d
        BY <3>1, <4>1
      <4> QED
        BY <4>2 DEF a, b
    <3> QED
      BY <3>2, <3>3
  <2>8. ASSUME NEW x \in 0..(d - 1) PROVE t[at[i] + 1 + x] = s[i + x]
    <3>1. CASE x = d - 1
      BY <2>6, <2>7, <3>1 DEF p
    <3>2. CASE x # d - 1
      <4>1. x \in 0..((d - 1) - 1)
        BY <3>2
      <4> QED
        BY <2>1, <4>1
    <3> QED
      BY <3>1, <3>2
  <2> QED
    BY <2>2, <2>6, <2>7, <2>8
<1>6. Bad = {}
  <2>1. Bad \subseteq 0..m
    OBVIOUS
  <2> HIDE DEF Bad
  <2> QED
    BY <1>3, <1>4, <1>5, <2>1, LoopKeeps
<1>7. Ok(m)
  <2>1. m \in 0..m
    BY <1>3
  <2> QED
    BY <1>6, <2>1
<1>8. ASSUME NEW x \in i..(e - 1) PROVE t[at[i] + 1 + (x - i)] = s[x]
  <2>1. x - i \in 0..(m - 1) /\ i + (x - i) = x
    BY <1>1, <1>3
  <2> QED
    BY <1>7, <2>1
<1>9. e \in stops /\ at[e] = at[i] + (e - i)
  BY <1>3, <1>7 DEF m
<1> QED
  BY <1>8, <1>9

(* The same space is skipped.                                              *)
LEMMA SpaceAlike ==
  ASSUME NEW match, NEW s, NEW t, NEW stops, NEW at, MaskingPass(match, s, t, stops, at),
         NEW i \in stops
  PROVE  LET e == Skip(s, i, Space)
         IN  e \in stops /\ at[e] = at[i] + (e - i) /\ Skip(t, at[i] + 1, Space) = at[e] + 1
<1> DEFINE e == Skip(s, i, Space)
           k == at[i] + 1
           f == at[e] + 1
<1>1. /\ s \in Seq(Lexemes) /\ t \in Seq(Lexemes)
      /\ Len(s) \in Nat /\ Len(t) \in Nat /\ i \in 1..(Len(s) + 1) /\ at[i] \in Nat
  BY PassSizes
<1>2. /\ e \in i..(Len(s) + 1)
      /\ \A x \in i..(e - 1) : s[x] \in Space
      /\ e <= Len(s) => s[e] \notin Space
  BY <1>1, SkipPasses
<1> HIDE DEF e
<1>3. /\ e \in stops /\ at[e] = at[i] + (e - i)
      /\ \A x \in i..(e - 1) : t[at[i] + 1 + (x - i)] = s[x]
  <2>1. \A x \in i..(e - 1) : s[x] \in Gap
    BY <1>2 DEF Gap
  <2> QED
    BY <1>2, <2>1, GapCopied
<1>4. /\ Seen(s, t, e, at[e] + 1) /\ at[e] + 1 \in 1..(Len(t) + 1)
      /\ k \in 1..(Len(t) + 1)
  BY <1>3, StopSees
<1>5. f \in k..(Len(t) + 1) /\ f = k + (e - i)
  BY <1>1, <1>2, <1>3, <1>4
<1>6. ASSUME NEW y \in k..(f - 1) PROVE t[y] \in Space
  <2> DEFINE x == i + (y - k)
             a == at[i]
  <2>1. x \in i..(e - 1) /\ at[i] + 1 + (x - i) = y
    <3>1. a \in Nat /\ k = a + 1
      BY <1>1
    <3> HIDE DEF a, k, f
    <3>2. x \in i..(e - 1) /\ a + 1 + (x - i) = y
      BY <1>1, <1>2, <1>5, <3>1
    <3> QED
      BY <3>2 DEF a
  <2> HIDE DEF x, k, f
  <2> QED
    BY <1>2, <1>3, <2>1
<1>7. f <= Len(t) => t[f] \notin Space
  <2> SUFFICES ASSUME f <= Len(t), t[f] \in Space PROVE FALSE
    OBVIOUS
  <2>1. At(t, f) = t[f]
    BY <1>1, <1>4 DEF At
  <2>2. Space \cap Placeholders = {} /\ "end" \notin Space
    BY DEF Space, Placeholders
  <2>3. At(s, e) \in Space
    BY <1>4, <2>1, <2>2 DEF Seen
  <2> QED
    BY <1>1, <1>2, <2>2, <2>3 DEF At
<1> HIDE DEF k, f
<1>8. Skip(t, k, Space) = f
  BY <1>1, <1>4, <1>5, <1>6, <1>7, SkipEndsAt
<1> QED
  BY <1>3, <1>8 DEF e, k, f

(* The same quote is there, or none.                                       *)
LEMMA QuoteAlike ==
  ASSUME NEW match, NEW s, NEW t, NEW stops, NEW at, MaskingPass(match, s, t, stops, at),
         NEW i \in stops
  PROVE  LET e == Optional(s, i, "quote")
         IN  /\ e \in stops /\ at[e] = at[i] + (e - i)
             /\ Optional(t, at[i] + 1, "quote") = at[e] + 1
<1> DEFINE e == Optional(s, i, "quote")
           k == at[i] + 1
<1>1. /\ Len(s) \in Nat /\ i \in 1..(Len(s) + 1) /\ at[i] \in Nat
      /\ Seen(s, t, i, k)
  BY PassSizes, StopSees
<1>2. "quote" \notin Placeholders \cup Starts
  BY DEF Placeholders, Starts, Words
<1>3. CASE At(s, i) = "quote"
  <2>1. i \in 1..Len(s) /\ s[i] = "quote"
    BY <1>3 DEF At
  <2>2. Copies(match, s, t, stops, at, i)
    BY <1>2, <2>1, NotStartCopied
  <2>3. i + 1 \in stops /\ at[i + 1] = at[i] + 1
    BY <2>2 DEF Copies
  <2>4. At(t, k) = "quote"
    BY <1>1, <1>2, <1>3, <2>1 DEF Seen
  <2>5. e = i + 1 /\ Optional(t, k, "quote") = k + 1
    BY <1>3, <2>4 DEF Optional
  <2>6. k + 1 = at[i + 1] + 1 /\ (i + 1) - i = 1
    BY <1>1, <2>3
  <2> QED
    BY <2>3, <2>5, <2>6
<1>4. CASE At(s, i) # "quote"
  <2>1. At(t, k) # "quote"
    BY <1>1, <1>2, <1>4 DEF Seen
  <2>2. e = i /\ Optional(t, k, "quote") = k
    BY <1>4, <2>1 DEF Optional
  <2>3. i - i = 0 /\ at[i] + 0 = at[i]
    BY <1>1
  <2> QED
    BY <2>2, <2>3
<1> QED
  BY <1>3, <1>4

(* The same separator is there, or none.                                   *)
LEMMA SepAlike ==
  ASSUME NEW match, NEW s, NEW t, NEW stops, NEW at, MaskingPass(match, s, t, stops, at),
         NEW i \in stops
  PROVE  \/ AfterSep(s, i) = 0 /\ AfterSep(t, at[i] + 1) = 0
         \/ /\ AfterSep(s, i) \in stops
            /\ at[AfterSep(s, i)] = at[i] + (AfterSep(s, i) - i)
            /\ AfterSep(t, at[i] + 1) = at[AfterSep(s, i)] + 1
<1> DEFINE q == Skip(s, i, Space)
           k == at[i] + 1
           r == at[q] + 1
           e == Skip(s, q + 1, Space)
<1>1. /\ Len(s) \in Nat /\ Len(t) \in Nat /\ i \in 1..(Len(s) + 1) /\ at[i] \in Nat
      /\ s \in Seq(Lexemes)
  BY PassSizes
<1>2. q \in stops /\ at[q] = at[i] + (q - i) /\ Skip(t, k, Space) = r
  BY SpaceAlike
<1>3. /\ AfterSep(s, i) = IF At(s, q) = "sep" THEN e ELSE 0
      /\ AfterSep(t, k) = IF At(t, r) = "sep" THEN Skip(t, r + 1, Space) ELSE 0
  <2> HIDE DEF k, r
  <2> QED
    BY <1>2 DEF AfterSep
<1> HIDE DEF q
<1>4. Seen(s, t, q, r)
  BY <1>2, StopSees
<1>5. "sep" \notin Placeholders \cup Starts
  BY DEF Placeholders, Starts, Words
<1>6. CASE At(s, q) = "sep"
  <2>1. q \in 1..Len(s) /\ s[q] = "sep"
    BY <1>6 DEF At
  <2>2. Copies(match, s, t, stops, at, q)
    BY <1>2, <1>5, <2>1, NotStartCopied
  <2>3. q + 1 \in stops /\ at[q + 1] = at[q] + 1
    BY <2>2 DEF Copies
  <2>4. At(t, r) = "sep"
    BY <1>4, <1>5, <1>6, <2>1 DEF Seen
  <2>5. r + 1 = at[q + 1] + 1
    BY <2>3
  <2>6. /\ e \in stops /\ at[e] = at[q + 1] + (e - (q + 1))
        /\ Skip(t, at[q + 1] + 1, Space) = at[e] + 1
    BY <2>3, SpaceAlike
  <2>7. at[e] = at[i] + (e - i)
    <3>1. e \in Int /\ q \in Int
      BY <1>1, <1>2, <2>6, PassSizes
    <3> HIDE DEF e
    <3> QED
      BY <1>1, <1>2, <2>3, <2>6, <3>1
  <2> HIDE DEF e
  <2> QED
    BY <1>3, <1>6, <2>4, <2>5, <2>6, <2>7
<1>7. CASE At(s, q) # "sep"
  <2>1. At(t, r) # "sep"
    BY <1>4, <1>5, <1>7 DEF Seen
  <2> QED
    BY <1>3, <1>7, <2>1
<1> QED
  BY <1>6, <1>7

-----------------------------------------------------------------------------
(***************************************************************************)
(* What a rule no longer finds, none of the passes brings back.            *)
(***************************************************************************)

AuthFound(s, i) == s[i] = "auth" /\ At(s, AuthValue(s, i)) \in Credential \cup Torn

(* What is copied of a key that finds no value finds none.                 *)
LEMMA AuthAlike ==
  ASSUME NEW match, NEW s, NEW t, NEW stops, NEW at, MaskingPass(match, s, t, stops, at),
         NEW j \in stops, Copies(match, s, t, stops, at, j),
         At(s, AuthValue(s, j)) \notin Credential \cup Torn
  PROVE  At(t, AuthValue(t, at[j] + 1)) \notin Credential \cup Torn
<1>1. "end" \notin Credential \cup Torn /\ Placeholders \cap (Credential \cup Torn) = {}
  BY DEF Credential, Torn, Words, Placeholders
<1>2. j + 1 \in stops /\ at[j + 1] = at[j] + 1
  BY DEF Copies
<1> DEFINE b == Skip(s, j + 1, Space)
           c == Optional(s, b, "quote")
           d == AfterSep(s, c)
           e == Optional(s, d, "quote")
           k == at[j] + 1
<1>3. b \in stops /\ Skip(t, at[j + 1] + 1, Space) = at[b] + 1
  BY <1>2, SpaceAlike
<1> HIDE DEF b
<1>4. c \in stops /\ Optional(t, at[b] + 1, "quote") = at[c] + 1
  BY <1>3, QuoteAlike
<1> HIDE DEF c
<1>5. \/ d = 0 /\ AfterSep(t, at[c] + 1) = 0
      \/ d \in stops /\ AfterSep(t, at[c] + 1) = at[d] + 1
  BY <1>4, SepAlike
<1>6. k + 1 = at[j + 1] + 1
  BY <1>2
<1> HIDE DEF d, k
<1>7. AuthValue(t, k) = Optional(t, AfterSep(t, at[c] + 1), "quote")
  BY <1>3, <1>4, <1>6 DEF AuthValue
<1>8. CASE d = 0 /\ AfterSep(t, at[c] + 1) = 0
  <2>1. At(t, 0) = "end"
    <3>1. t \in Seq(Lexemes) /\ 0 \in Int
      BY PassSizes
    <3> QED
      BY <3>1, AtReads
  <2>2. AuthValue(t, k) = 0
    BY <1>7, <1>8, <2>1 DEF Optional
  <2> QED
    BY <1>1, <2>1, <2>2 DEF k
<1>9. CASE d \in stops /\ AfterSep(t, at[c] + 1) = at[d] + 1
  <2>1. e \in stops /\ Optional(t, at[d] + 1, "quote") = at[e] + 1
    BY <1>9, QuoteAlike
  <2>2. AuthValue(s, j) = e
    BY DEF AuthValue, b, c, d
  <2> HIDE DEF e
  <2>3. Seen(s, t, e, at[e] + 1)
    BY <2>1, StopSees
  <2>4. AuthValue(t, k) = at[e] + 1
    BY <1>7, <1>9, <2>1
  <2> QED
    BY <1>1, <2>2, <2>3, <2>4 DEF Seen, k
<1> QED
  BY <1>5, <1>8, <1>9

(* The values of authorization headers stay masked.                        *)
LEMMA AuthStays ==
  ASSUME NEW match, NEW s, NEW t, NEW stops, NEW at, MaskingPass(match, s, t, stops, at),
         \A j \in 1..Len(s) : match[j].end = j => ~AuthFound(s, j)
  PROVE  \A k \in 1..Len(t) : ~AuthFound(t, k)
<1> SUFFICES ASSUME NEW k \in 1..Len(t), AuthFound(t, k) PROVE FALSE
  OBVIOUS
<1>1. /\ s \in Seq(Lexemes) /\ t \in Seq(Lexemes)
      /\ Len(s) \in Nat /\ Len(t) \in Nat
      /\ \A j \in stops : j \in 1..(Len(s) + 1) /\ at[j] \in Nat
  BY PassSizes
<1>2. t[k] = "auth" /\ At(t, AuthValue(t, k)) \in Credential \cup Torn /\ t[k] \in Starts
  BY DEF AuthFound, Starts, Words
<1>3. PICK j \in stops :
         /\ j <= Len(s) /\ k = at[j] + 1 /\ s[j] = t[k]
         /\ \/ Copies(match, s, t, stops, at, j)
            \/ \E v, tail : v > j /\ Replaces(match, s, t, stops, at, j, v, tail)
  BY <1>2, WordsStand
<1>4. j \in 1..Len(s)
  BY <1>1, <1>3
<1>5. CASE Copies(match, s, t, stops, at, j)
  <2>1. ~AuthFound(s, j)
    BY <1>4, <1>5 DEF Copies
  <2>2. At(s, AuthValue(s, j)) \notin Credential \cup Torn
    BY <1>2, <1>3, <2>1 DEF AuthFound
  <2> QED
    BY <1>2, <1>3, <1>5, <2>2, AuthAlike
<1>6. ASSUME NEW v, NEW tail, v > j, Replaces(match, s, t, stops, at, j, v, tail) PROVE FALSE
  <2> DEFINE w == AuthValue(t, k)
             p == k + (v - j)
  <2>1. Behind(t, k, w)
    BY <1>1, AuthValueIs
  <2>2. "end" \notin Credential \cup Torn /\ (Placeholders \cup Gap) \cap (Credential \cup Torn) = {}
        /\ Placeholders \cap Gap = {}
    BY DEF Credential, Torn, Words, Placeholders, Gap, Space
  <2>3. /\ v \in j..(match[j].end - 1) /\ match[j].end \in (j + 1)..(Len(s) + 1)
        /\ \A x \in (j + 1)..(v - 1) : s[x] \in Gap
        /\ Len(tail) \in 1..2 /\ tail[1] \in Placeholders
    BY <1>6 DEF Replaces, Masks, TailOf
  <2>4. v - j \in Nat \ {0} /\ j \in Nat /\ v \in Nat
    BY <1>4, <1>6, <2>3
  <2>5. t[p] \in Placeholders
    <3>1. 1 \in 1..Len(tail)
      BY <2>3
    <3>2. t[at[j] + (v - j) + 1] = tail[1]
      BY <1>6, <3>1 DEF Replaces
    <3>3. p = at[j] + (v - j) + 1
      BY <1>1, <1>3, <2>4
    <3> QED
      BY <2>3, <3>2, <3>3
  <2>6. ASSUME NEW y \in (k + 1)..(p - 1) PROVE t[y] \in Gap
    <3> DEFINE x == y - at[j]
           a == at[j]
    <3>1. a \in Nat /\ k = a + 1 /\ y \in Int
      BY <1>1, <1>3
    <3>4. y >= k + 1 /\ y <= k + (v - j) - 1
      BY <2>4
    <3> HIDE DEF a
    <3>5. x = y - a
      BY DEF a
    <3> HIDE DEF x
    <3>6. x \in 1..(v - j) /\ a + x = y /\ j + x - 1 \in (j + 1)..(v - 1)
      BY <2>4, <3>1, <3>4, <3>5
    <3>2. x \in 1..(v - j) /\ at[j] + x = y /\ j + x - 1 \in (j + 1)..(v - 1)
      BY <3>6 DEF a
    <3> HIDE DEF x
    <3>3. t[at[j] + x] = s[j + x - 1]
      BY <1>6, <3>2 DEF Replaces
    <3> QED
      BY <2>3, <3>2, <3>3
  <2> HIDE DEF w, p
  <2>7. p \in Nat /\ p > k
    BY <2>4 DEF p
  <2>8. At(t, w) \in Credential \cup Torn
    BY <1>2 DEF w
  <2>9. w \in (k + 2)..(Len(t) + 1) /\ \A x \in (k + 1)..(w - 1) : t[x] \in Gap
    <3>1. w # 0
      BY <2>2, <2>8 DEF At
    <3> QED
      BY <2>1, <3>1 DEF Behind
  <2>10. w \in 1..Len(t) /\ t[w] \in Credential \cup Torn
    BY <2>2, <2>8 DEF At
  <2>11. ~(p < w)
    BY <2>2, <2>5, <2>7, <2>9
  <2>12. w # p
    BY <2>2, <2>5, <2>10
  <2>13. w \in (k + 1)..(p - 1)
    BY <2>7, <2>9, <2>11, <2>12
  <2> QED
    BY <2>2, <2>6, <2>10, <2>13
<1> QED
  BY <1>3, <1>5, <1>6

(* So do keys and addresses of a shape of their own.                       *)
LEMMA ShapeStays ==
  ASSUME NEW match, NEW s, NEW t, NEW stops, NEW at, MaskingPass(match, s, t, stops, at),
         NEW c \in {"key", "ip4"},
         \A j \in 1..Len(s) : match[j].end = j => ~(s[j] = c /\ Boundary(s, j))
  PROVE  \A k \in 1..Len(t) : ~(t[k] = c /\ Boundary(t, k))
<1> SUFFICES ASSUME NEW k \in 1..Len(t), t[k] = c, Boundary(t, k) PROVE FALSE
  OBVIOUS
<1>1. c \in Words /\ c \in Starts /\ c \notin {"auth", "pass", "user", "ip6"}
  BY DEF Words, Starts
<1>2. PICK j \in stops :
         /\ j <= Len(s) /\ k = at[j] + 1 /\ s[j] = t[k]
         /\ \/ Copies(match, s, t, stops, at, j)
            \/ \E v, tail : v > j /\ Replaces(match, s, t, stops, at, j, v, tail)
  BY <1>1, WordsStand
<1>3. j \in 1..Len(s)
  BY <1>2, PassSizes
<1>4. Boundary(s, j)
  BY <1>1, <1>2, BoundaryWas
<1>5. match[j].end = j
  <2>1. ASSUME NEW v, NEW tail, v > j, Replaces(match, s, t, stops, at, j, v, tail) PROVE FALSE
    BY <1>1, <1>2, <2>1 DEF Replaces, Masks
  <2> QED
    BY <1>2, <2>1 DEF Copies
<1> QED
  BY <1>2, <1>3, <1>4, <1>5

(* A run of credential characters that is seen in the outcome was there.   *)
LEMMA RunWas ==
  ASSUME NEW match, NEW s, NEW t, NEW stops, NEW at, MaskingPass(match, s, t, stops, at),
         NEW i \in stops, NEW m \in Nat,
         at[i] + 1 + m <= Len(t),
         \A d \in 0..m : t[at[i] + 1 + d] \in Credential
  PROVE  \A d \in 0..m : i + d \in 1..Len(s) /\ s[i + d] = t[at[i] + 1 + d]
<1>1. /\ Len(s) \in Nat /\ Len(t) \in Nat
      /\ \A j \in stops : j \in 1..(Len(s) + 1) /\ at[j] \in Nat
  BY PassSizes
<1>2. Credential \cap (Placeholders \cup Gap) = {} /\ "end" \notin Credential
  BY DEF Credential, Words, Torn, Placeholders, Gap, Space
<1> DEFINE Ok(d) == i + d \in stops /\ at[i + d] = at[i] + d
           Bad == {d \in 0..m : ~Ok(d)}
<1>3. ASSUME NEW d \in 0..m, Ok(d)
      PROVE  i + d \in 1..Len(s) /\ s[i + d] = t[at[i] + 1 + d]
  <2> DEFINE p == i + d
  <2>1. p \in stops /\ at[p] + 1 = at[i] + 1 + d
    BY <1>1, <1>3
  <2> HIDE DEF p
  <2>2. Seen(s, t, p, at[p] + 1) /\ at[p] + 1 \in 1..(Len(t) + 1)
    BY <2>1, StopSees
  <2>3. at[p] + 1 <= Len(t)
    BY <1>1, <2>1
  <2>4. At(t, at[p] + 1) = t[at[i] + 1 + d] /\ t[at[i] + 1 + d] \in Credential
    BY <1>1, <2>1, <2>2, <2>3 DEF At
  <2>5. At(s, p) = t[at[i] + 1 + d]
    BY <1>2, <2>2, <2>4 DEF Seen
  <2>6. p \in 1..Len(s) /\ s[p] = t[at[i] + 1 + d]
    <3>1. s \in Seq(Lexemes) /\ t[at[i] + 1 + d] # "end"
      BY <1>2, <2>4, PassSizes
    <3> QED
      BY <2>5, <3>1, AtIs
  <2> QED
    BY <2>6 DEF p
<1>4. 0 \notin Bad
  BY <1>1
<1>5. \A d \in 1..m : d \in Bad => d - 1 \in Bad
  <2> SUFFICES ASSUME NEW d \in 1..m, d - 1 \notin Bad PROVE Ok(d)
    OBVIOUS
  <2> DEFINE p == i + (d - 1)
  <2>1. d - 1 \in 0..m /\ Ok(d - 1)
    OBVIOUS
  <2>2. p \in 1..Len(s) /\ s[p] = t[at[i] + 1 + (d - 1)]
    BY <1>3, <2>1
  <2>3. p \in stops /\ at[p] = at[i] + (d - 1) /\ p + 1 = i + d /\ at[i] \in Nat
    BY <1>1, <2>1
  <2> HIDE DEF p
  <2>4. CASE Copies(match, s, t, stops, at, p)
    <3>1. p + 1 \in stops /\ at[p + 1] = at[p] + 1
      BY <2>4 DEF Copies
    <3>2. at[p + 1] = at[i] + d
      BY <2>3, <3>1
    <3> QED
      BY <2>3, <3>1, <3>2
  <2>5. ASSUME NEW v, NEW tail, Replaces(match, s, t, stops, at, p, v, tail) PROVE FALSE
    <3>1. /\ v \in p..(match[p].end - 1) /\ match[p].end \in (p + 1)..(Len(s) + 1)
          /\ \A x \in (p + 1)..(v - 1) : s[x] \in Gap
          /\ Len(tail) \in 1..2 /\ tail[1] \in Placeholders
      BY <2>5 DEF Replaces, Masks, TailOf
    <3>2. v - p \in Nat /\ p \in Nat /\ v \in Nat /\ 1 \in 1..Len(tail)
      BY <2>2, <3>1
    <3>3. t[at[p] + (v - p) + 1] = tail[1]
      BY <2>5, <3>2 DEF Replaces
    <3>4. /\ at[i] + 1 + (d - 1) = at[p] + 1 /\ at[i] + 1 + d = at[p] + 2
          /\ d - 1 \in 0..m /\ d \in 0..m /\ at[p] \in Nat
      BY <2>3
    <3>5. t[at[p] + 1] \in Credential /\ t[at[p] + 2] \in Credential
      BY <3>4
    <3>6. CASE v = p
      <4>1. at[p] + (v - p) + 1 = at[p] + 1
        BY <3>2, <3>4, <3>6
      <4> QED
        BY <1>2, <3>1, <3>3, <3>5, <4>1
    <3>7. CASE v = p + 1
      <4>1. at[p] + (v - p) + 1 = at[p] + 2
        BY <3>2, <3>4, <3>7
      <4> QED
        BY <1>2, <3>1, <3>3, <3>5, <4>1
    <3>8. CASE v > p + 1
      <4>1. 2 \in 1..(v - p) /\ p + 2 - 1 = p + 1 /\ p + 1 \in (p + 1)..(v - 1)
        BY <3>2, <3>8
      <4>2. t[at[p] + 2] = s[p + 1]
        BY <2>5, <4>1 DEF Replaces
      <4> QED
        BY <1>2, <3>1, <3>5, <4>1, <4>2
    <3> QED
      BY <3>1, <3>2, <3>6, <3>7, <3>8
  <2> QED
    BY <2>2, <2>3, <2>4, <2>5, StopDoes
<1>6. Bad = {}
  <2>1. Bad \subseteq 0..m
    OBVIOUS
  <2> HIDE DEF Bad
  <2> QED
    BY <1>4, <1>5, <2>1, LoopKeeps
<1> QED
  BY <1>3, <1>6

(* So do opaque tokens behind the scheme word.                             *)
LEMMA BearerStays ==
  ASSUME NEW match, NEW s, NEW t, NEW stops, NEW at, MaskingPass(match, s, t, stops, at),
         \A j \in 1..Len(s) : match[j].end = j => ~BearerFound(s, j)
  PROVE  \A k \in 1..Len(t) : ~BearerFound(t, k)
<1> SUFFICES ASSUME NEW k \in 1..Len(t), BearerFound(t, k) PROVE FALSE
  OBVIOUS
<1>1. /\ s \in Seq(Lexemes) /\ t \in Seq(Lexemes)
      /\ Len(s) \in Nat /\ Len(t) \in Nat
      /\ \A j \in stops : j \in 1..(Len(s) + 1) /\ at[j] \in Nat
  BY PassSizes
<1> DEFINE start == Skip(t, k + 1, Space)
           end == Skip(t, start, Credential)
<1>2. /\ t[k] = "bearer" /\ Boundary(t, k) /\ start > k + 1
      /\ \E y \in start..(end - 1) : t[y] \in {"long", "jwt", "key"}
  BY DEF BearerFound, At
<1>3. PICK y \in start..(end - 1) : t[y] \in {"long", "jwt", "key"}
  BY <1>2
<1>4. "bearer" \in Words /\ "bearer" \in Starts
  BY DEF Words, Starts
<1>5. PICK j \in stops :
         /\ j <= Len(s) /\ k = at[j] + 1 /\ s[j] = t[k]
         /\ \/ Copies(match, s, t, stops, at, j)
            \/ \E v, tail : v > j /\ Replaces(match, s, t, stops, at, j, v, tail)
  BY <1>2, <1>4, WordsStand
<1>6. Copies(match, s, t, stops, at, j)
  <2>1. ASSUME NEW v, NEW tail, v > j, Replaces(match, s, t, stops, at, j, v, tail) PROVE FALSE
    BY <1>2, <1>5, <2>1 DEF Replaces, Masks
  <2> QED
    BY <1>5, <2>1
<1>7. j \in 1..Len(s) /\ match[j].end = j /\ j + 1 \in stops /\ at[j + 1] = at[j] + 1
  BY <1>1, <1>5, <1>6 DEF Copies
<1>8. Boundary(s, j)
  BY <1>2, <1>4, <1>5, BoundaryWas
<1> DEFINE b == Skip(s, j + 1, Space)
<1>9. b \in stops /\ at[b] = at[j + 1] + (b - (j + 1)) /\ start = at[b] + 1
  <2>1. k + 1 = at[j + 1] + 1
    BY <1>5, <1>7
  <2> QED
    BY <1>7, <2>1, SpaceAlike
<1>10. b \in (j + 1)..(Len(s) + 1)
  <2>1. j + 1 \in 1..(Len(s) + 1)
    BY <1>1, <1>7
  <2> QED
    BY <1>1, <2>1, SkipPasses
<1> HIDE DEF b, start
<1>11. start \in 1..(Len(t) + 1)
  BY <1>1, <1>9, StopSees
<1>12. end \in start..(Len(t) + 1) /\ \A x \in start..(end - 1) : t[x] \in Credential
  BY <1>1, <1>11, SkipPasses
<1> HIDE DEF end
<1> DEFINE m == y - start
<1>13. m \in Nat /\ at[b] + 1 + m = y /\ y <= Len(t)
  BY <1>1, <1>3, <1>9, <1>11, <1>12, SMTT(30)
<1>14. ASSUME NEW d \in 0..m PROVE t[at[b] + 1 + d] \in Credential
  <2>1. at[b] + 1 + d = start + d
    BY <1>9
  <2>2. start \in Int /\ end \in Int /\ y \in start..(end - 1)
    BY <1>1, <1>3, <1>11, <1>12
  <2>3. start + d \in start..(end - 1)
    BY <2>2
  <2> QED
    BY <1>12, <2>1, <2>3
<1> HIDE DEF m
<1>15. \A d \in 0..m : b + d \in 1..Len(s) /\ s[b + d] = t[at[b] + 1 + d]
  <2>1. b \in stops /\ m \in Nat
    BY <1>9, <1>13
  <2>2. at[b] + 1 + m <= Len(t)
    BY <1>13
  <2> QED
    BY <1>14, <2>1, <2>2, RunWas, SMTT(30)
<1> DEFINE e == Skip(s, b, Credential)
<1>16. b \in 1..(Len(s) + 1)
  BY <1>7, <1>10
<1>17. e \in b..(Len(s) + 1) /\ (e <= Len(s) => s[e] \notin Credential)
  BY <1>1, <1>16, SkipPasses
<1> HIDE DEF e
<1>18. m \in 0..m /\ b + m \in 1..Len(s) /\ s[b + m] \in {"long", "jwt", "key"}
  BY <1>3, <1>13, <1>15
<1>19. b + m < e
  <2> SUFFICES ASSUME e <= b + m PROVE FALSE
    BY <1>13, <1>16, <1>17
  <2>1. e - b \in 0..m /\ b + (e - b) = e
    BY <1>13, <1>16, <1>17
  <2>2. e \in 1..Len(s) /\ s[e] \in Credential
    BY <1>14, <1>15, <2>1
  <2> QED
    BY <1>17, <2>2
<1>20. b > j + 1
  <2> DEFINE a == at[j]
             c == at[j + 1]
             f == at[b]
  <2>1. /\ a \in Nat /\ k = a + 1 /\ c = a + 1 /\ f = c + (b - (j + 1)) /\ start = f + 1
        /\ start > k + 1 /\ b \in (j + 1)..(Len(s) + 1) /\ j \in Nat /\ Len(s) \in Nat
    BY <1>1, <1>2, <1>5, <1>7, <1>9, <1>10
  <2> HIDE DEF a, c, f
  <2> QED
    BY <2>1
<1>21. BearerFound(s, j)
  <2>1. At(s, j) = "bearer"
    BY <1>2, <1>5, <1>7 DEF At
  <2>2. \E x \in b..(e - 1) : s[x] \in {"long", "jwt", "key"}
    <3>1. b + m \in b..(e - 1)
      BY <1>13, <1>16, <1>17, <1>19
    <3> QED
      BY <1>18, <3>1
  <2> QED
    BY <1>8, <1>20, <2>1, <2>2 DEF BearerFound, b, e
<1> QED
  BY <1>7, <1>21

-----------------------------------------------------------------------------
(***************************************************************************)
(* A key that is kept stands where it stood before its value.              *)
(***************************************************************************)

(* What s has from i up to u stands in t from k on.                        *)
Same(s, t, i, k, u) ==
    \A x \in i..(u - 1) : k + (x - i) \in 1..Len(t) /\ t[k + (x - i)] = s[x]

(* The separator of a stretch that stands elsewhere is where it was in it. *)
LEMMA SepShifts ==
  ASSUME NEW s \in Seq(Lexemes), NEW t \in Seq(Lexemes),
         NEW i \in 1..(Len(s) + 1), NEW k \in 1..(Len(t) + 1),
         NEW u, u = AfterSep(s, i), u # 0,
         Same(s, t, i, k, u),
         k + (u - i) \in 1..Len(t), t[k + (u - i)] \notin Space
  PROVE  AfterSep(t, k) = k + (u - i)
<1>1. PICK q : Separates(s, i, q, u)
  BY AfterSepFinds
<1>2. /\ q \in i..Len(s) /\ s[q] = "sep"
      /\ \A x \in i..(q - 1) : s[x] \in Space
      /\ u \in (q + 1)..(Len(s) + 1)
      /\ \A x \in (q + 1)..(u - 1) : s[x] \in Space
      /\ Len(s) \in Nat /\ Len(t) \in Nat
  BY <1>1 DEF Separates
<1> DEFINE r == k + (q - i)
           w == k + (u - i)
<1>3. r \in k..Len(t) /\ t[r] = "sep"
  <2>1. q \in i..(u - 1)
    BY <1>2
  <2>2. r \in 1..Len(t) /\ t[r] = s[q]
    BY <2>1 DEF Same
  <2>3. r >= k
    BY <1>2
  <2> QED
    BY <1>2, <2>2, <2>3
<1>4. w \in (r + 1)..(Len(t) + 1) /\ (w <= Len(t) => t[w] \notin Space)
  BY <1>2
<1>5. ASSUME NEW y \in k..(w - 1), y # r PROVE t[y] \in Space
  <2> DEFINE x == i + (y - k)
  <2>1. x \in i..(u - 1) /\ k + (x - i) = y /\ x # q
    BY <1>2, <1>5, SMTT(30)
  <2> HIDE DEF x
  <2>2. x \in i..(q - 1) \/ x \in (q + 1)..(u - 1)
    BY <1>2, <2>1
  <2>3. t[y] = s[x]
    BY <2>1 DEF Same
  <2> QED
    BY <1>2, <2>2, <2>3
<1>6. (\A y \in k..(r - 1) : t[y] \in Space) /\ (\A y \in (r + 1)..(w - 1) : t[y] \in Space)
  <2>1. r \in Int /\ w \in Int
    BY <1>2
  <2>2. \A y \in k..(r - 1) : y \in k..(w - 1) /\ y # r
    BY <1>3, <1>4, <2>1
  <2>3. \A y \in (r + 1)..(w - 1) : y \in k..(w - 1) /\ y # r
    BY <1>3, <1>4, <2>1
  <2> HIDE DEF r, w
  <2> QED
    BY <1>5, <2>2, <2>3
<1> HIDE DEF r, w
<1>7. Separates(t, k, r, w)
  BY <1>3, <1>4, <1>6 DEF Separates
<1> QED
  BY <1>7, AfterSepIsAt DEF w

(* So is what may be a quote behind it.                                    *)
LEMMA OpensShifts ==
  ASSUME NEW s \in Seq(Lexemes), NEW t \in Seq(Lexemes),
         NEW j \in 1..Len(s), NEW k \in 1..Len(t),
         NEW u, u = NameOpens(s, j), u # 0,
         Same(s, t, j, k, u),
         k + (u - j) \in 1..Len(t), t[k + (u - j)] \notin Space
  PROVE  NameOpens(t, k) = k + (u - j)
<1> DEFINE a == Optional(s, j + 1, "quote")
           b == Optional(t, k + 1, "quote")
<1>1. /\ Len(s) \in Nat /\ Len(t) \in Nat /\ j + 1 \in 0..(Len(s) + 1)
      /\ u = AfterSep(s, a) /\ NameOpens(t, k) = AfterSep(t, b)
  BY DEF NameOpens
<1>2. a = j + 1 \/ (a = j + 2 /\ j + 1 \in 1..Len(s) /\ s[j + 1] = "quote")
  <2>1. MayPass(s, j + 1, a)
    BY <1>1, OptionalPasses
  <2>2. (j + 1) + 1 = j + 2
    OBVIOUS
  <2> HIDE DEF a
  <2> QED
    BY <2>1, <2>2 DEF MayPass
<1>3. a \in 1..(Len(s) + 1) /\ a \in {j + 1, j + 2}
  BY <1>1, <1>2
<1>4. u \in (a + 1)..(Len(s) + 1)
  <2> HIDE DEF a
  <2>1. AfterSep(s, a) # 0
    BY <1>1
  <2> QED
    BY <1>1, <1>3, <2>1, GapAhead
<1>5. k + 1 \in 1..Len(t) /\ t[k + 1] = s[j + 1] /\ j + 1 \in 1..Len(s)
  <2>1. j + 1 \in j..(u - 1) /\ k + ((j + 1) - j) = k + 1 /\ j + 1 \in 1..Len(s)
    BY <1>1, <1>3, <1>4, SMTT(30)
  <2> QED
    BY <2>1 DEF Same
<1>6. b = k + (a - j)
  <2>1. At(t, k + 1) = At(s, j + 1)
    BY <1>5 DEF At
  <2>2. CASE At(s, j + 1) = "quote"
    BY <2>1, <2>2 DEF Optional
  <2>3. CASE At(s, j + 1) # "quote"
    BY <2>1, <2>3 DEF Optional
  <2> QED
    BY <2>2, <2>3
<1> HIDE DEF a, b
<1>7. Same(s, t, a, b, u)
  <2> SUFFICES ASSUME NEW x \in a..(u - 1)
               PROVE  b + (x - a) \in 1..Len(t) /\ t[b + (x - a)] = s[x]
    BY DEF Same
  <2>1. x \in j..(u - 1) /\ b + (x - a) = k + (x - j)
    BY <1>3, <1>4, <1>6
  <2> QED
    BY <2>1 DEF Same
<1>8. b + (u - a) = k + (u - j) /\ b \in 1..(Len(t) + 1)
  BY <1>1, <1>3, <1>4, <1>5, <1>6, SMTT(30)
<1>9. AfterSep(t, b) = b + (u - a)
  BY <1>1, <1>3, <1>7, <1>8, SepShifts
<1> QED
  BY <1>1, <1>8, <1>9

(* The value of a secret-named key is the placeholder alone.               *)
SecretDone(s, i) ==
    s[i] = "pass" /\ Boundary(s, i) /\ At(s, PassValue(s, i)) \in SecretValue =>
        At(s, PassValue(s, i)) = "TOKEN" /\ At(s, PassValue(s, i) + 1) \notin SecretValue

(* It still is behind a key that is copied,                                *)
LEMMA SecretAlike ==
  ASSUME NEW match, NEW s, NEW t, NEW stops, NEW at, MaskingPass(match, s, t, stops, at),
         NEW j \in stops, Copies(match, s, t, stops, at, j),
         At(s, PassValue(s, j)) \in SecretValue =>
             /\ At(s, PassValue(s, j)) = "TOKEN"
             /\ At(s, PassValue(s, j) + 1) \notin SecretValue
  PROVE  SecretDone(t, at[j] + 1)
<1>1. /\ Starts \subseteq SecretValue /\ "end" \notin SecretValue
      /\ Starts \cap Placeholders = {} /\ "TOKEN" \in Placeholders
  BY DEF SecretValue, Starts, Lexemes, Words, Placeholders, Marks
<1>2. /\ j + 1 \in stops /\ at[j + 1] = at[j] + 1
      /\ \A i \in stops : i \in 1..(Len(s) + 1) /\ at[i] \in Nat
  BY PassSizes DEF Copies
<1> DEFINE c == Optional(s, j + 1, "quote")
           d == AfterSep(s, c)
           e == Optional(s, d, "quote")
           k == at[j] + 1
<1>3. c \in stops /\ Optional(t, at[j + 1] + 1, "quote") = at[c] + 1
  BY <1>2, QuoteAlike
<1> HIDE DEF c
<1>4. \/ d = 0 /\ AfterSep(t, at[c] + 1) = 0
      \/ d \in stops /\ AfterSep(t, at[c] + 1) = at[d] + 1
  BY <1>3, SepAlike
<1>5. k + 1 = at[j + 1] + 1
  BY <1>2
<1> HIDE DEF d, k
<1>6. PassValue(t, k) = Optional(t, AfterSep(t, at[c] + 1), "quote")
  BY <1>3, <1>5 DEF PassValue
<1>7. CASE d = 0 /\ AfterSep(t, at[c] + 1) = 0
  <2>1. At(t, 0) = "end"
    <3>1. t \in Seq(Lexemes) /\ 0 \in Int
      BY PassSizes
    <3> QED
      BY <3>1, AtReads
  <2>2. PassValue(t, k) = 0
    BY <1>6, <1>7, <2>1 DEF Optional
  <2> QED
    BY <1>1, <2>1, <2>2 DEF k, SecretDone
<1>8. CASE d \in stops /\ AfterSep(t, at[c] + 1) = at[d] + 1
  <2>1. e \in stops /\ Optional(t, at[d] + 1, "quote") = at[e] + 1
    BY <1>8, QuoteAlike
  <2>2. PassValue(s, j) = e
    BY DEF PassValue, c, d
  <2> HIDE DEF e
  <2>3. Seen(s, t, e, at[e] + 1)
    BY <2>1, StopSees
  <2>4. PassValue(t, k) = at[e] + 1
    BY <1>6, <1>8, <2>1
  <2> SUFFICES ASSUME At(t, at[e] + 1) \in SecretValue
               PROVE  At(t, at[e] + 1) = "TOKEN" /\ At(t, (at[e] + 1) + 1) \notin SecretValue
    BY <2>4 DEF SecretDone, k
  <2>5. At(s, e) \in SecretValue
    <3>1. ASSUME e \in 1..Len(s), s[e] \in Starts PROVE At(s, e) \in SecretValue
      BY <1>1, <3>1 DEF At
    <3> QED
      BY <2>3, <3>1 DEF Seen
  <2>6. At(s, e) = "TOKEN" /\ At(s, e + 1) \notin SecretValue
    BY <2>2, <2>5
  <2>7. e \in 1..Len(s) /\ s[e] = "TOKEN"
    <3>1. s \in Seq(Lexemes)
      BY PassSizes
    <3> QED
      BY <2>6, <3>1, AtIs
  <2>8. Copies(match, s, t, stops, at, e)
    BY <1>1, <2>1, <2>7, NotStartCopied
  <2>9. e + 1 \in stops /\ at[e + 1] = at[e] + 1 /\ t[at[e] + 1] = "TOKEN" /\ at[e] + 1 \in 1..Len(t)
    BY <2>7, <2>8 DEF Copies
  <2>10. Seen(s, t, e + 1, at[e + 1] + 1)
    BY <2>9, StopSees
  <2>11. ~(e + 1 \in 1..Len(s) /\ s[e + 1] \in Starts)
    BY <1>1, <2>6 DEF At
  <2>12. At(t, at[e + 1] + 1) \notin SecretValue
    BY <2>6, <2>10, <2>11 DEF Seen
  <2>13. At(t, at[e] + 1) = "TOKEN"
    BY <2>9 DEF At
  <2> QED
    BY <2>9, <2>12, <2>13
<1> QED
  BY <1>4, <1>7, <1>8

(* What is kept stands in the outcome, and the placeholder behind it.      *)
LEMMA KeptStands ==
  ASSUME NEW match, NEW s, NEW t, NEW stops, NEW at, MaskingPass(match, s, t, stops, at),
         NEW j \in stops, NEW v, NEW tail, Replaces(match, s, t, stops, at, j, v, tail)
  PROVE  LET k == at[j] + 1
             w == k + (v - j)
         IN  /\ Same(s, t, j, k, v)
             /\ k \in 1..Len(t) /\ w \in 1..Len(t)
             /\ w = at[j] + (v - j) + 1
             /\ t[w] = tail[1]
<1> DEFINE k == at[j] + 1
           w == k + (v - j)
           a == at[j]
           l == Len(tail)
<1>1. /\ Len(s) \in Nat /\ Len(t) \in Nat /\ a \in Nat /\ j \in Nat
      /\ \A i \in stops : i \in 1..(Len(s) + 1) /\ at[i] \in Nat
  BY PassSizes
<1>2. /\ match[j].end \in (j + 1)..(Len(s) + 1) /\ v \in j..(match[j].end - 1)
      /\ l \in 1..2
  BY DEF Replaces, Masks, TailOf
<1>3. /\ a + (v - j) + l <= Len(t)
      /\ \A x \in 1..(v - j) : t[a + x] = s[j + x - 1]
      /\ \A y \in 1..l : t[a + (v - j) + y] = tail[y]
  BY DEF Replaces
<1>4. v \in Nat /\ v >= j
  BY <1>1, <1>2
<1>5. k = a + 1 /\ w = k + (v - j)
  OBVIOUS
<1> HIDE DEF k, w, a, l
<1>6. k \in 1..Len(t) /\ w \in 1..Len(t) /\ w = a + (v - j) + 1 /\ 1 \in 1..l
  <2>1. /\ Len(t) \in Nat /\ a \in Nat /\ j \in Nat /\ v \in Nat /\ v >= j
        /\ l \in 1..2 /\ a + (v - j) + l <= Len(t)
    BY <1>1, <1>2, <1>3, <1>4
  <2> DEFINE n == Len(t)
             d == v - j
  <2>2. n \in Nat /\ d \in Nat /\ a + d + l <= n /\ w = k + d
    BY <1>5, <2>1
  <2> HIDE DEF n, d
  <2>3. k \in 1..n /\ w \in 1..n /\ w = a + d + 1 /\ 1 \in 1..l
    BY <1>5, <2>1, <2>2
  <2> QED
    BY <2>3 DEF n, d
<1>7. t[w] = tail[1]
  BY <1>3, <1>6
<1>8. Same(s, t, j, k, v)
  <2> SUFFICES ASSUME NEW x \in j..(v - 1)
               PROVE  k + (x - j) \in 1..Len(t) /\ t[k + (x - j)] = s[x]
    BY DEF Same
  <2> DEFINE y == x - j + 1
  <2>1. y \in 1..(v - j) /\ a + y = k + (x - j) /\ j + y - 1 = x /\ k + (x - j) \in 1..Len(t)
    BY <1>1, <1>4, <1>5, <1>6
  <2> HIDE DEF y
  <2> QED
    BY <1>3, <2>1
<1> QED
  BY <1>6, <1>7, <1>8 DEF k, w, a

(* and is behind one whose value has just been masked.                     *)
LEMMA SecretMasked ==
  ASSUME NEW match, NEW s, NEW t, NEW stops, NEW at, MaskingPass(match, s, t, stops, at),
         NEW j \in stops, j <= Len(s), match[j] = Secret(s, j), match[j].end # j
  PROVE  SecretDone(t, at[j] + 1)
<1> DEFINE v == PassValue(s, j)
           u == NameOpens(s, j)
           k == at[j] + 1
           w == k + (v - j)
           tail == <<"TOKEN">>
<1>1. /\ s \in Seq(Lexemes) /\ t \in Seq(Lexemes) /\ Len(s) \in Nat /\ Len(t) \in Nat
      /\ \A i \in stops : i \in 1..(Len(s) + 1) /\ at[i] \in Nat
  BY PassSizes
<1>2. j \in 1..Len(s) /\ at[j] \in Nat
  BY <1>1
<1>3. /\ v \in (j + 2)..Len(s)
      /\ match[j].end \in (v + 1)..(Len(s) + 1)
      /\ match[j].end <= Len(s) => s[match[j].end] \notin SecretValue
  BY <1>1, <1>2, SecretDoesIt DEF SecretDoes
<1>4. Masks(match[j], s, j, v, tail)
  BY <1>1, <1>2, SecretMasks
<1> HIDE DEF v, tail
<1>5. Replaces(match, s, t, stops, at, j, v, tail)
  BY <1>2, <1>4, MatchStands
<1>6. Len(tail) = 1 /\ tail[1] = "TOKEN"
  BY DEF tail
<1>7. /\ match[j].end \in stops
      /\ at[match[j].end] = at[j] + (v - j) + 1
      /\ at[j] + (v - j) + 1 <= Len(t)
      /\ \A x \in 1..(v - j) : t[at[j] + x] = s[j + x - 1]
      /\ t[at[j] + (v - j) + 1] = "TOKEN"
  BY <1>5, <1>6 DEF Replaces
<1>8. /\ Same(s, t, j, k, v)
      /\ w \in 1..Len(t) /\ w = at[j] + (v - j) + 1 /\ t[w] = "TOKEN" /\ k \in 1..Len(t)
  BY <1>5, <1>6, KeptStands
<1>10. v = Optional(s, u, "quote")
  BY DEF v, PassValue, NameOpens
<1>11. Behind(s, j, u)
  BY <1>1, <1>2, PassValueIs DEF NameOpens
<1>12. u \in (j + 2)..(Len(s) + 1) /\ (v = u \/ (v = u + 1 /\ u <= Len(s) /\ s[u] = "quote"))
  <2>1. u # 0
    <3> SUFFICES ASSUME u = 0 PROVE FALSE
      OBVIOUS
    <3>1. At(s, 0) = "end"
      BY <1>1, AtReads
    <3>2. v = 0
      BY <1>10, <3>1 DEF Optional
    <3> QED
      BY <1>2, <1>3, <3>2
  <2> HIDE DEF u
  <2>2. u \in (j + 2)..(Len(s) + 1)
    BY <1>11, <2>1 DEF Behind
  <2>3. MayPass(s, u, v)
    <3>1. u \in 0..(Len(s) + 1)
      BY <1>2, <2>2
    <3> QED
      BY <1>1, <1>10, <3>1, OptionalPasses
  <2> QED
    BY <2>2, <2>3 DEF MayPass
<1> HIDE DEF u, k, w
<1>13. w = k + (v - j)
  BY DEF w
<1>14. Placeholders \cap (Space \cup {"quote"}) = {} /\ "TOKEN" \in Placeholders /\ "quote" \notin Space
  BY DEF Placeholders, Space
<1>15. Same(s, t, j, k, u)
  <2>1. \A x \in j..(u - 1) : x \in j..(v - 1)
    BY <1>2, <1>12
  <2> QED
    BY <1>8, <2>1 DEF Same
<1>16. k + (u - j) \in 1..Len(t) /\ t[k + (u - j)] = IF v = u THEN "TOKEN" ELSE "quote"
  <2>1. CASE v = u
    BY <1>8, <1>13, <2>1
  <2>2. CASE v = u + 1 /\ s[u] = "quote"
    <3>1. u \in j..(v - 1) /\ v # u
      BY <1>2, <1>12, <2>2
    <3> QED
      BY <1>8, <2>2, <3>1 DEF Same
  <2> QED
    BY <1>12, <2>1, <2>2
<1>17. NameOpens(t, k) = k + (u - j)
  <2>1. u # 0 /\ t[k + (u - j)] \notin Space
    BY <1>2, <1>12, <1>14, <1>16
  <2>2. u = NameOpens(s, j)
    BY DEF u
  <2> QED
    BY <1>1, <1>2, <1>8, <1>15, <1>16, <2>1, <2>2, OpensShifts
<1>18. PassValue(t, k) = w
  <2>1. PassValue(t, k) = Optional(t, NameOpens(t, k), "quote")
    BY DEF PassValue, NameOpens
  <2>2. At(t, k + (u - j)) = IF v = u THEN "TOKEN" ELSE "quote"
    BY <1>16 DEF At
  <2>3. PassValue(t, k) = IF v = u THEN k + (u - j) ELSE (k + (u - j)) + 1
    BY <1>17, <2>1, <2>2 DEF Optional
  <2> QED
    BY <1>2, <1>8, <1>12, <1>13, <2>3
<1> DEFINE e == match[j].end
<1>19. Seen(s, t, e, at[e] + 1) /\ at[e] + 1 = w + 1
  BY <1>7, <1>8, StopSees
<1>20. At(s, e) \notin SecretValue /\ ~(e \in 1..Len(s) /\ s[e] \in Starts)
  <2>1. "end" \notin SecretValue /\ Starts \subseteq SecretValue
    BY DEF SecretValue, Starts, Lexemes, Words, Placeholders, Marks
  <2> QED
    BY <1>1, <1>3, <2>1 DEF At
<1>21. At(t, w + 1) \notin SecretValue
  BY <1>19, <1>20 DEF Seen
<1>22. At(t, w) = "TOKEN"
  BY <1>8 DEF At
<1> QED
  BY <1>18, <1>21, <1>22 DEF SecretDone, k

(* What is kept begins with the key.                                       *)
LEMMA KeptFirst ==
  ASSUME NEW s \in Seq(Lexemes), NEW j \in 1..Len(s), NEW m, NEW v, NEW tail,
         Masks(m, s, j, v, tail), v > j
  PROVE  m.out[1] = s[j]
<1>1. /\ m.end \in (j + 1)..(Len(s) + 1) /\ v \in j..(m.end - 1)
      /\ m.out = Kept(s, j, v) \o tail /\ tail \in Seq(Lexemes)
  BY DEF Masks, TailOf
<1> DEFINE kept == Kept(s, j, v)
<1>2. /\ kept \in Seq(Lexemes) /\ Len(kept) = v - j
      /\ \A x \in 1..(v - j) : kept[x] = s[j + x - 1]
  <2>1. v \in j..(Len(s) + 1)
    BY <1>1
  <2> QED
    BY <2>1, KeptReads
<1>3. 1 \in 1..(v - j) /\ j + 1 - 1 = j
  BY <1>1
<1> HIDE DEF kept
<1>4. (kept \o tail)[1] = kept[1]
  BY <1>1, <1>2, <1>3, JoinReads
<1> QED
  BY <1>1, <1>2, <1>3, <1>4 DEF kept

(* So the values of secret-named keys stay masked.                         *)
LEMMA SecretStays ==
  ASSUME NEW match, NEW s, NEW t, NEW stops, NEW at, MaskingPass(match, s, t, stops, at),
         \A j \in 1..Len(s) :
            /\ match[j].end = j => SecretDone(s, j)
            /\ match[j].end # j => \/ match[j] = Secret(s, j)
                                   \/ s[j] # "pass"
                                   \/ match[j].out[1] # "pass"
  PROVE  \A k \in 1..Len(t) : SecretDone(t, k)
<1> SUFFICES ASSUME NEW k \in 1..Len(t), t[k] = "pass", Boundary(t, k)
             PROVE  SecretDone(t, k)
  BY DEF SecretDone
<1>1. "pass" \in Words /\ "pass" \in Starts
  BY DEF Words, Starts
<1>2. PICK j \in stops :
         /\ j <= Len(s) /\ k = at[j] + 1 /\ s[j] = t[k]
         /\ \/ Copies(match, s, t, stops, at, j)
            \/ \E v, tail : v > j /\ Replaces(match, s, t, stops, at, j, v, tail)
  BY <1>1, WordsStand
<1>3. j \in 1..Len(s) /\ s \in Seq(Lexemes)
  BY <1>2, PassSizes
<1>4. Boundary(s, j)
  BY <1>1, <1>2, BoundaryWas
<1>5. CASE Copies(match, s, t, stops, at, j)
  <2>1. SecretDone(s, j)
    BY <1>3, <1>5 DEF Copies
  <2> QED
    BY <1>2, <1>4, <1>5, <2>1, SecretAlike DEF SecretDone
<1>6. ASSUME NEW v, NEW tail, v > j, Replaces(match, s, t, stops, at, j, v, tail)
      PROVE  SecretDone(t, k)
  <2>1. Masks(match[j], s, j, v, tail)
    BY <1>6 DEF Replaces
  <2>2. match[j].out[1] = "pass"
    BY <1>2, <1>3, <1>6, <2>1, KeptFirst
  <2>3. match[j].end # j
    <3>1. match[j].end \in (j + 1)..(Len(s) + 1)
      BY <2>1 DEF Masks
    <3> QED
      BY <1>3, <3>1
  <2>4. match[j] = Secret(s, j)
    BY <1>2, <1>3, <2>2, <2>3
  <2> QED
    BY <1>2, <2>3, <2>4, SecretMasked
<1> QED
  BY <1>2, <1>5, <1>6

(* A name ends at a newline: none goes with it.                            *)
LEMMA NamesEndAtNewlines ==
  ASSUME NEW s \in Seq(Lexemes), NEW j \in 1..Len(s), NEW m,
         m \in {NameQuoted(s, j), NameBare(s, j)}, m.end # j
  PROVE  \E v, tail : Masks(m, s, j, v, tail) /\ \A x \in v..(m.end - 1) : s[x] # "nl"
<1>1. CASE m = NameQuoted(s, j)
  <2> DEFINE o == NameOpens(s, j)
             tail == <<"NAME", "quote">>
  <2>1. NameQuotedDoes(m, s, j, o) /\ Masks(m, s, j, o + 1, tail)
    BY <1>1, NameQuotedDoesIt, NameQuotedMasks
  <2> HIDE DEF o, tail
  <2>2. /\ o \in (j + 2)..Len(s) /\ m.end \in (o + 3)..(Len(s) + 1)
        /\ \A x \in (o + 1)..(m.end - 2) : s[x] \in QuotedName
        /\ s[m.end - 1] = "quote"
    BY <2>1 DEF NameQuotedDoes
  <2>3. ASSUME NEW x \in (o + 1)..(m.end - 1) PROVE s[x] # "nl"
    <3>1. x \in (o + 1)..(m.end - 2) \/ x = m.end - 1
      BY <2>2
    <3> QED
      BY <2>2, <3>1 DEF QuotedName
  <2> QED
    BY <2>1, <2>3
<1>2. CASE m = NameBare(s, j)
  <2> DEFINE v == AfterSep(s, j + 1)
             tail == <<"NAME">>
  <2>1. NameBareDoes(m, s, j, v) /\ Masks(m, s, j, v, tail)
    BY <1>2, NameBareDoesIt, NameBareMasks
  <2> HIDE DEF v, tail
  <2>2. \A x \in v..(m.end - 1) : s[x] \in BareName
    BY <2>1 DEF NameBareDoes
  <2> QED
    BY <2>1, <2>2 DEF BareName
<1> QED
  BY <1>1, <1>2

(* The pass masks names, and no quoted one is left out.                    *)
MasksNames(match, s) ==
    \A j \in 1..Len(s) :
        /\ match[j].end = j => ~QuotedFound(s, j, NameOpens(s, j))
        /\ match[j].end # j => match[j] \in {NameQuoted(s, j), NameBare(s, j)}

(* Where a pass is when it puts out a quote: at, or behind, a quote.       *)
QuoteFrom(s, t, at, match, i, y) ==
    \E q \in i..(After(match, i) - 1) :
        /\ s[q] = "quote"
        /\ \A c \in i..(q - 1) : s[c] = "nl" => \E z \in (at[i] + 1)..(y - 1) : t[z] = "nl"

(* Every quote of the outcome is one of the text or closes a masked name.  *)
LEMMA QuoteIsFrom ==
  ASSUME NEW match, NEW s, NEW t, NEW stops, NEW at, MaskingPass(match, s, t, stops, at),
         MasksNames(match, s),
         NEW i \in stops, i <= Len(s), NEW x \in 1..Len(Put(match, s, i)),
         t[at[i] + x] = "quote"
  PROVE  QuoteFrom(s, t, at, match, i, at[i] + x)
<1>1. /\ s \in Seq(Lexemes) /\ t \in Seq(Lexemes) /\ Len(s) \in Nat /\ Len(t) \in Nat
      /\ i \in 1..Len(s) /\ at[i] \in Nat
  BY PassSizes
<1>2. CASE match[i].end = i
  <2>1. Put(match, s, i) = <<s[i]>> /\ After(match, i) = i + 1
    BY <1>2 DEF Put, After
  <2>2. x = 1
    BY <2>1
  <2>3. s[i] = "quote"
    <3>1. Stands(t, at[i], Put(match, s, i))
      BY DEF MaskingPass, Pass
    <3>2. t[at[i] + x] = Put(match, s, i)[x]
      BY <3>1 DEF Stands
    <3> QED
      BY <2>1, <2>2, <3>2
  <2>4. i \in i..(After(match, i) - 1) /\ i..(i - 1) = {}
    BY <1>1, <2>1
  <2> QED
    BY <2>3, <2>4 DEF QuoteFrom
<1>3. CASE match[i].end # i
  <2> DEFINE m == match[i]
  <2>1. PICK v, tail : Masks(m, s, i, v, tail) /\ \A c \in v..(m.end - 1) : s[c] # "nl"
    <3>1. m \in {NameQuoted(s, i), NameBare(s, i)}
      BY <1>1, <1>3 DEF MasksNames
    <3> QED
      BY <1>1, <1>3, <3>1, NamesEndAtNewlines
  <2>2. Replaces(match, s, t, stops, at, i, v, tail)
    BY <1>1, <2>1, MatchStands
  <2>3. /\ After(match, i) = m.end
        /\ \A z \in 1..(v - i) : t[at[i] + z] = s[i + z - 1]
        /\ \A z \in 1..Len(tail) : t[at[i] + (v - i) + z] = tail[z]
    BY <2>2 DEF Replaces
  <2>4. /\ m.end \in (i + 1)..(Len(s) + 1) /\ v \in i..(m.end - 1)
        /\ m.out = Kept(s, i, v) \o tail
        /\ TailOf(s, i, v, m.end, tail)
    BY <2>1 DEF Masks
  <2>5. /\ tail \in Seq(Lexemes) /\ Len(tail) \in 1..2 /\ tail[1] \in Placeholders
        /\ Len(tail) = 2 /\ tail[2] = "quote" => v > i /\ s[v - 1] = "quote"
    BY <2>4 DEF TailOf
  <2>6. x <= (v - i) + Len(tail)
    <3> DEFINE kept == Kept(s, i, v)
    <3>1. kept \in Seq(Lexemes) /\ Len(kept) = v - i
      <4>1. v \in i..(Len(s) + 1)
        BY <1>1, <2>4
      <4> QED
        BY <1>1, <4>1, KeptReads
    <3>2. Put(match, s, i) = kept \o tail
      BY <1>3, <2>4 DEF Put
    <3> HIDE DEF kept
    <3>3. Len(kept \o tail) = (v - i) + Len(tail)
      BY <2>5, <3>1, JoinReads
    <3> QED
      BY <3>2, <3>3
  <2> DEFINE e == m.end
  <2> HIDE DEF m, e
  <2>9. /\ i \in Nat /\ e \in Nat /\ v \in Nat /\ x \in Nat \ {0}
        /\ i <= v /\ v <= e - 1 /\ After(match, i) = e
    <3> DEFINE n == Len(s)
    <3>1. /\ i \in Nat /\ n \in Nat
          /\ e \in (i + 1)..(n + 1) /\ v \in i..(e - 1) /\ After(match, i) = e
      BY <1>1, <2>3, <2>4 DEF e
    <3>2. x \in Nat \ {0}
      OBVIOUS
    <3> HIDE DEF n
    <3> QED
      BY <3>1, <3>2
  <2>7. CASE x <= v - i
    <3> DEFINE q == i + x - 1
    <3>1. q \in i..(v - 1) /\ x \in 1..(v - i) /\ v - 1 <= e - 1
      BY <2>7, <2>9
    <3>2. s[q] = "quote"
      BY <2>3, <3>1
    <3>3. ASSUME NEW c \in i..(q - 1), s[c] = "nl"
          PROVE  \E z \in (at[i] + 1)..((at[i] + x) - 1) : t[z] = "nl"
      <4> DEFINE z == c - i + 1
                 a == at[i]
      <4>1. z \in 1..(v - i) /\ i + z - 1 = c /\ z < x
        BY <2>9, <3>1
      <4>2. t[at[i] + z] = "nl"
        BY <2>3, <3>3, <4>1
      <4>3. a \in Nat
        BY <1>1
      <4> HIDE DEF a, z
      <4>4. a + z \in (a + 1)..((a + x) - 1)
        BY <4>1, <4>3
      <4> QED
        BY <4>2, <4>4 DEF a
    <3>4. q \in i..(After(match, i) - 1)
      BY <2>9, <3>1
    <3> HIDE DEF q
    <3> QED
      BY <3>2, <3>3, <3>4 DEF QuoteFrom
  <2>8. CASE x > v - i
    <3> DEFINE y == x - (v - i)
    <3>1. y \in 1..Len(tail) /\ at[i] + x = at[i] + (v - i) + y
      <4> DEFINE a == at[i]
                 l == Len(tail)
      <4>1. a \in Nat /\ l \in Nat /\ x \in Nat /\ v - i \in Nat /\ x <= (v - i) + l /\ x > v - i
        BY <1>1, <2>4, <2>5, <2>6, <2>8
      <4> HIDE DEF a, l
      <4>2. y \in 1..l /\ a + x = a + (v - i) + y
        BY <4>1
      <4> QED
        BY <4>2 DEF a, l
    <3> HIDE DEF y
    <3>2. tail[y] = "quote"
      BY <2>3, <3>1
    <3>3. v > i /\ s[v - 1] = "quote"
      <4>1. "quote" \notin Placeholders
        BY DEF Placeholders
      <4>2. y # 1
        BY <2>5, <3>2, <4>1
      <4>3. Len(tail) = 2 /\ y = 2
        <5> DEFINE l == Len(tail)
        <5>1. l \in 1..2 /\ y \in 1..l
          BY <2>5, <3>1
        <5> HIDE DEF l
        <5>2. l = 2 /\ y = 2
          BY <4>2, <5>1
        <5> QED
          BY <5>2 DEF l
      <4> QED
        BY <2>5, <3>2, <4>3
    <3> DEFINE q == v - 1
    <3>4. q \in i..(v - 1) /\ q <= e - 1
      <4>1. v > i
        BY <3>3
      <4> QED
        BY <2>9, <4>1
    <3>5. ASSUME NEW c \in i..(q - 1), s[c] = "nl"
          PROVE  \E z \in (at[i] + 1)..((at[i] + x) - 1) : t[z] = "nl"
      <4> DEFINE z == c - i + 1
                 a == at[i]
      <4>1. z \in 1..(v - i) /\ i + z - 1 = c /\ z < x
        BY <2>8, <2>9, <3>4
      <4>2. t[at[i] + z] = "nl"
        BY <2>3, <3>5, <4>1
      <4>3. a \in Nat
        BY <1>1
      <4> HIDE DEF a, z
      <4>4. a + z \in (a + 1)..((a + x) - 1)
        BY <4>1, <4>3
      <4> QED
        BY <4>2, <4>4 DEF a
    <3>6. q \in i..(After(match, i) - 1)
      BY <2>9, <3>4
    <3> QED
      BY <3>3, <3>5, <3>6 DEF QuoteFrom
  <2> QED
    BY <1>1, <2>4, <2>7, <2>8 DEF m
<1> QED
  BY <1>2, <1>3

(* Every newline stays.                                                    *)
LEMMA NewlineStays ==
  ASSUME NEW match, NEW s, NEW t, NEW stops, NEW at, MaskingPass(match, s, t, stops, at),
         MasksNames(match, s),
         NEW i \in stops, i <= Len(s), NEW c \in i..(After(match, i) - 1), s[c] = "nl"
  PROVE  \E z \in (at[i] + 1)..at[After(match, i)] : t[z] = "nl"
<1>1. /\ s \in Seq(Lexemes) /\ t \in Seq(Lexemes) /\ Len(s) \in Nat /\ Len(t) \in Nat
      /\ i \in 1..Len(s) /\ at[i] \in Nat
  BY PassSizes
<1>2. CASE match[i].end = i
  <2>1. After(match, i) = i + 1
    BY <1>2 DEF After
  <2>2. c = i
    BY <1>1, <2>1
  <2>3. ASSUME NEW v, NEW tail, Replaces(match, s, t, stops, at, i, v, tail) PROVE FALSE
    <3>1. match[i].end \in (i + 1)..(Len(s) + 1)
      BY <2>3 DEF Replaces, Masks
    <3> QED
      BY <1>1, <1>2, <3>1
  <2>4. Copies(match, s, t, stops, at, i)
    BY <2>3, StopDoes
  <2>5. at[After(match, i)] = at[i] + 1 /\ t[at[i] + 1] = "nl"
    BY <2>1, <2>2, <2>4 DEF Copies
  <2>6. at[i] + 1 \in (at[i] + 1)..(at[i] + 1)
    BY <1>1
  <2> QED
    BY <2>5, <2>6
<1>3. CASE match[i].end # i
  <2> DEFINE m == match[i]
             e == m.end
  <2>1. PICK v, tail : Masks(m, s, i, v, tail) /\ \A x \in v..(m.end - 1) : s[x] # "nl"
    <3>1. m \in {NameQuoted(s, i), NameBare(s, i)}
      BY <1>1, <1>3 DEF MasksNames
    <3> QED
      BY <1>1, <1>3, <3>1, NamesEndAtNewlines
  <2>2. Replaces(match, s, t, stops, at, i, v, tail)
    BY <1>1, <2>1, MatchStands
  <2>3. /\ After(match, i) = e
        /\ at[e] = at[i] + (v - i) + Len(tail)
        /\ \A z \in 1..(v - i) : t[at[i] + z] = s[i + z - 1]
    BY <2>2 DEF Replaces
  <2>4. e \in (i + 1)..(Len(s) + 1) /\ v \in i..(e - 1) /\ Len(tail) \in 1..2
    BY <2>1 DEF Masks, TailOf
  <2>5. c \in i..(e - 1) /\ ~(c \in v..(e - 1))
    BY <2>1, <2>3
  <2> HIDE DEF m, e
  <2>6. c \in i..(v - 1)
    BY <1>1, <2>4, <2>5
  <2> DEFINE z == c - i + 1
             a == at[i]
             l == Len(tail)
             b == at[e]
  <2>7. z \in 1..(v - i) /\ i + z - 1 = c
    BY <1>1, <2>4, <2>6
  <2>8. t[at[i] + z] = "nl"
    BY <2>3, <2>7
  <2>9. a \in Nat /\ l \in 1..2 /\ b = a + (v - i) + l
    BY <1>1, <2>3, <2>4
  <2> HIDE DEF a, l, b, z
  <2>10. a + z \in (a + 1)..b
    BY <1>1, <2>4, <2>7, <2>9
  <2> QED
    BY <2>3, <2>8, <2>10 DEF a, b
<1> QED
  BY <1>2, <1>3

(* Stops are in the order of what they put out.                            *)
LEMMA StopsInOrder ==
  ASSUME NEW match, NEW s, NEW t, NEW stops, NEW at, MaskingPass(match, s, t, stops, at),
         NEW i \in stops, NEW j \in stops
  PROVE  /\ i < j => After(match, i) <= j /\ at[After(match, i)] <= at[j] /\ at[i] <= at[j]
         /\ i <= Len(s) => /\ After(match, i) \in stops
                           /\ at[After(match, i)] = at[i] + Len(Put(match, s, i))
                           /\ at[i] <= at[After(match, i)]
                           /\ Len(Put(match, s, i)) \in Nat
<1>1. /\ Pass(match, s, t, stops, at)
      /\ Len(s) \in Nat /\ \A x \in stops : x \in 1..(Len(s) + 1) /\ at[x] \in Nat
      /\ s \in Seq(Lexemes)
  BY PassSizes DEF MaskingPass
<1>2. ASSUME NEW x \in stops, x <= Len(s)
      PROVE  /\ After(match, x) \in stops
             /\ at[After(match, x)] = at[x] + Len(Put(match, s, x))
             /\ at[x] <= at[After(match, x)]
             /\ Len(Put(match, s, x)) \in Nat
  <2>1. After(match, x) \in stops /\ at[After(match, x)] = at[x] + Len(Put(match, s, x))
    BY <1>1, <1>2 DEF Pass
  <2>2. Len(Put(match, s, x)) \in Nat
    <3>1. CASE Copies(match, s, t, stops, at, x)
      <4>1. Put(match, s, x) = <<s[x]>>
        BY <3>1 DEF Copies, Put
      <4>2. Len(<<s[x]>>) = 1
        OBVIOUS
      <4> QED
        BY <4>1, <4>2
    <3>2. ASSUME NEW v, NEW tail, Replaces(match, s, t, stops, at, x, v, tail)
          PROVE  Len(Put(match, s, x)) \in Nat
      <4> DEFINE kept == Kept(s, x, v)
      <4>1. /\ match[x].end \in (x + 1)..(Len(s) + 1) /\ v \in x..(match[x].end - 1)
            /\ match[x].out = kept \o tail /\ tail \in Seq(Lexemes)
        BY <3>2 DEF Replaces, Masks, TailOf
      <4>2. x \in 1..Len(s) /\ v \in x..(Len(s) + 1) /\ match[x].end # x
        BY <1>1, <1>2, <4>1
      <4>3. kept \in Seq(Lexemes)
        BY <1>1, <4>2, KeptReads
      <4>4. Put(match, s, x) = kept \o tail
        BY <4>1, <4>2 DEF Put
      <4> HIDE DEF kept
      <4>5. Len(kept \o tail) = Len(kept) + Len(tail) /\ Len(kept) \in Nat /\ Len(tail) \in Nat
        BY <4>1, <4>3, JoinReads
      <4> QED
        BY <4>4, <4>5
    <3> QED
      BY <1>2, <3>1, <3>2, StopDoes
  <2>3. at[x] \in Nat
    BY <1>1
  <2> DEFINE l == Len(Put(match, s, x))
             a == at[x]
             b == at[After(match, x)]
  <2>4. l \in Nat /\ a \in Nat /\ b = a + l
    BY <2>1, <2>2, <2>3
  <2> HIDE DEF l, a, b
  <2>5. a <= b
    BY <2>4
  <2> QED
    BY <2>1, <2>2, <2>5 DEF a, b
<1>3. ASSUME i < j
      PROVE  After(match, i) <= j /\ at[After(match, i)] <= at[j] /\ at[i] <= at[j]
  <2>1. After(match, i) <= j /\ at[After(match, i)] <= at[j]
    BY <1>1, <1>3 DEF Pass
  <2>2. i <= Len(s)
    BY <1>1, <1>3
  <2>3. at[i] <= at[After(match, i)] /\ After(match, i) \in stops
    BY <1>2, <2>2
  <2>4. at[i] \in Nat /\ at[After(match, i)] \in Nat /\ at[j] \in Nat
    BY <1>1, <2>3
  <2> QED
    BY <2>1, <2>3, <2>4
<1> QED
  BY <1>2, <1>3

(* Where no quote ended the line, none does.                               *)
LEMMA ClosesAlike ==
  ASSUME NEW match, NEW s, NEW t, NEW stops, NEW at, MaskingPass(match, s, t, stops, at),
         MasksNames(match, s),
         NEW p \in stops, At(s, Skip(s, p, QuotedName)) # "quote"
  PROVE  At(t, Skip(t, at[p] + 1, QuotedName)) # "quote"
<1> DEFINE close == Skip(s, p, QuotedName)
           y == Skip(t, at[p] + 1, QuotedName)
<1> SUFFICES ASSUME At(t, y) = "quote" PROVE FALSE
  OBVIOUS
<1>1. /\ s \in Seq(Lexemes) /\ t \in Seq(Lexemes) /\ Len(s) \in Nat /\ Len(t) \in Nat
      /\ \A j \in stops : j \in 1..(Len(s) + 1) /\ at[j] \in Nat
  BY PassSizes
<1>2. /\ close \in p..(Len(s) + 1)
      /\ \A x \in p..(close - 1) : s[x] \in QuotedName
      /\ close <= Len(s) => s[close] \notin QuotedName
  BY <1>1, SkipPasses
<1>3. /\ y \in (at[p] + 1)..(Len(t) + 1)
      /\ \A x \in (at[p] + 1)..(y - 1) : t[x] \in QuotedName
  <2>1. at[p] + 1 \in 1..(Len(t) + 1)
    BY StopSees
  <2> QED
    BY <1>1, <2>1, SkipPasses
<1>4. y \in 1..Len(t) /\ t[y] = "quote"
  BY <1>1, AtIs
<1>5. close <= Len(s) => s[close] = "nl"
  <2> HIDE DEF close
  <2> SUFFICES ASSUME close <= Len(s) PROVE s[close] = "nl"
    OBVIOUS
  <2>1. close \in 1..Len(s) /\ s[close] \in Lexemes /\ s[close] \notin QuotedName
    BY <1>1, <1>2
  <2>2. s[close] # "quote"
    BY <2>1 DEF At, close
  <2> QED
    BY <2>1, <2>2 DEF QuotedName
<1> HIDE DEF close, y
<1>6. PICK i \in stops : i <= Len(s) /\ \E x \in 1..Len(Put(match, s, i)) : y = at[i] + x
  BY <1>4 DEF MaskingPass, Pass
<1>7. PICK x \in 1..Len(Put(match, s, i)) : y = at[i] + x
  BY <1>6
<1>8. QuoteFrom(s, t, at, match, i, y)
  BY <1>4, <1>6, <1>7, QuoteIsFrom
<1>9. PICK q \in i..(After(match, i) - 1) :
         /\ s[q] = "quote"
         /\ \A c \in i..(q - 1) : s[c] = "nl" => \E z \in (at[i] + 1)..(y - 1) : t[z] = "nl"
  BY <1>8 DEF QuoteFrom
<1>10. /\ After(match, i) \in stops /\ at[i] < y /\ y <= at[After(match, i)]
       /\ at[i] \in Nat /\ at[p] \in Nat /\ i \in 1..Len(s)
  <2> DEFINE l == Len(Put(match, s, i))
             a == at[i]
             b == at[After(match, i)]
  <2>1. /\ After(match, i) \in stops /\ b = a + l /\ a \in Nat /\ l \in Nat
        /\ x \in 1..l /\ y = a + x /\ b \in Nat
    BY <1>1, <1>6, <1>7, StopsInOrder
  <2> HIDE DEF l, a, b
  <2>2. a < y /\ y <= b
    BY <2>1
  <2> QED
    BY <1>1, <1>6, <2>1, <2>2 DEF a, b
(* The quote is behind p, hence behind the newline,                        *)
<1>11. ~(i < p)
  <2> SUFFICES ASSUME i < p PROVE FALSE
    OBVIOUS
  <2>1. at[After(match, i)] <= at[p]
    BY StopsInOrder
  <2>2. at[After(match, i)] \in Nat
    BY <1>1, <1>10
  <2> QED
    <3> DEFINE b == at[After(match, i)]
               c == at[p]
    <3>1. /\ b \in Nat /\ c \in Nat /\ b <= c /\ y <= b
          /\ y \in (c + 1)..(Len(t) + 1) /\ Len(t) \in Nat
      BY <1>1, <1>3, <1>10, <2>1, <2>2
    <3> HIDE DEF b, c
    <3> QED
      BY <3>1
<1>12. q \in Nat /\ q >= p /\ q < After(match, i) /\ After(match, i) \in 1..(Len(s) + 1) /\ p \in Nat
  <2> DEFINE e == After(match, i)
  <2>3. q \in i..(e - 1)
    OBVIOUS
  <2>4. e \in 1..(Len(s) + 1) /\ i \in 1..(Len(s) + 1) /\ p \in 1..(Len(s) + 1)
    <3>1. e \in stops
      BY <1>10
    <3> HIDE DEF e
    <3> QED
      BY <1>1, <3>1
  <2> HIDE DEF e
  <2>1. e \in 1..(Len(s) + 1) /\ i \in Nat /\ p \in Nat /\ q \in i..(e - 1)
    BY <2>3, <2>4
  <2>2. q \in Nat /\ q >= p /\ q < e
    BY <1>1, <1>11, <2>1
  <2> QED
    BY <2>1, <2>2 DEF e
<1>13. close < q /\ close \in 1..Len(s) /\ s[close] = "nl"
  <2>1. ~(q < close)
    <3> SUFFICES ASSUME q < close PROVE FALSE
      OBVIOUS
    <3>1. q \in p..(close - 1)
      BY <1>2, <1>12
    <3> QED
      BY <1>2, <1>9, <3>1 DEF QuotedName
  <2>2. close <= Len(s)
    BY <1>1, <1>2, <1>12, <2>1
  <2> QED
    BY <1>1, <1>2, <1>5, <1>9, <1>12, <2>1, <2>2
(* which is in the outcome between the two.                                *)
<1>14. \E z \in (at[p] + 1)..(y - 1) : t[z] = "nl"
  <2>1. PICK j \in stops : j <= Len(s) /\ j <= close /\ close < After(match, j)
    <3>1. PICK j \in stops : j <= close /\ close < After(match, j)
      BY <1>13 DEF MaskingPass, Pass
    <3> QED
      BY <1>1, <1>13, <3>1
  <2>2. ~(j < p)
    <3> SUFFICES ASSUME j < p PROVE FALSE
      OBVIOUS
    <3>1. After(match, j) <= p /\ After(match, j) \in 1..(Len(s) + 1)
      BY <1>1, <2>1, StopsInOrder
    <3> QED
      BY <1>2, <1>12, <1>13, <2>1, <3>1
  <2>3. at[p] <= at[j] /\ at[j] \in Nat /\ j \in Nat
    <3>1. CASE j = p
      BY <1>1, <3>1
    <3>2. CASE j # p
      <4>1. p < j
        <5>1. p \in Nat /\ j \in Nat
          BY <1>1
        <5> QED
          BY <2>2, <3>2, <5>1
      <4>2. at[p] <= at[j]
        BY <4>1, StopsInOrder
      <4> QED
        BY <1>1, <4>2
    <3> QED
      BY <3>1, <3>2
  <2>4. CASE j = i
    <3>1. close \in i..(q - 1)
      BY <1>12, <1>13, <2>1, <2>4
    <3>2. PICK z \in (at[i] + 1)..(y - 1) : t[z] = "nl"
      BY <1>9, <1>13, <3>1
    <3> HIDE DEF close
    <3>3. z \in (at[p] + 1)..(y - 1)
      BY <1>4, <1>10, <2>3, <2>4
    <3> QED
      BY <3>2, <3>3
  <2>5. CASE i < j
    <3>1. After(match, i) <= j
      BY <2>5, StopsInOrder
    <3> QED
      BY <1>12, <1>13, <2>1, <2>3, <3>1
  <2>6. CASE j < i
    <3>1. PICK z \in (at[j] + 1)..at[After(match, j)] : t[z] = "nl"
      <4>1. close \in j..(After(match, j) - 1)
        <5>1. After(match, j) \in stops
          BY <2>1, StopsInOrder
        <5>2. After(match, j) \in Nat /\ close \in Nat /\ j \in Nat
          BY <1>1, <1>13, <5>1
        <5> QED
          BY <2>1, <5>2
      <4> QED
        BY <1>13, <2>1, <4>1, NewlineStays
    <3>2. at[After(match, j)] <= at[i] /\ at[After(match, j)] \in Nat
      <4>1. After(match, j) \in stops
        BY <2>1, StopsInOrder
      <4> QED
        BY <1>1, <2>6, <4>1, StopsInOrder
    <3>3. z \in (at[p] + 1)..(y - 1)
      BY <1>4, <1>10, <2>3, <3>2, SMTT(30)
    <3> QED
      BY <3>1, <3>3
  <2> QED
    BY <1>10, <2>3, <2>4, <2>5, <2>6
<1> QED
  BY <1>3, <1>14 DEF QuotedName

(* A quoted name that has just been masked is not found again,             *)
LEMMA QuotedMasked ==
  ASSUME NEW match, NEW s, NEW t, NEW stops, NEW at, MaskingPass(match, s, t, stops, at),
         NEW j \in stops, j <= Len(s), match[j] = NameQuoted(s, j), match[j].end # j
  PROVE  ~QuotedFound(t, at[j] + 1, NameOpens(t, at[j] + 1))
<1> DEFINE o == NameOpens(s, j)
           k == at[j] + 1
           tail == <<"NAME", "quote">>
<1>1. /\ s \in Seq(Lexemes) /\ t \in Seq(Lexemes) /\ j \in 1..Len(s)
  BY PassSizes
<1>2. o \in (j + 2)..Len(s) /\ s[o] = "quote"
  <2>1. QuotedFound(s, j, o) /\ o \in (j + 2)..Len(s)
    BY <1>1, NameQuotedDoesIt DEF NameQuotedDoes
  <2> HIDE DEF o
  <2> QED
    BY <1>1, <2>1 DEF QuotedFound, At
<1>3. Masks(match[j], s, j, o + 1, tail)
  BY <1>1, NameQuotedMasks
<1> HIDE DEF tail
<1>4. Replaces(match, s, t, stops, at, j, o + 1, tail)
  BY <1>3, MatchStands
<1> HIDE DEF o
<1>5. /\ Same(s, t, j, k, o + 1)
      /\ k \in 1..Len(t) /\ k + ((o + 1) - j) \in 1..Len(t)
      /\ t[k + ((o + 1) - j)] = tail[1]
  BY <1>4, KeptStands
<1>6. k + (o - j) \in 1..Len(t) /\ t[k + (o - j)] = "quote"
  <2>1. o \in j..((o + 1) - 1)
    BY <1>1, <1>2
  <2> QED
    BY <1>2, <1>5, <2>1 DEF Same
<1>7. Same(s, t, j, k, o)
  <2>1. \A x \in j..(o - 1) : x \in j..((o + 1) - 1)
    BY <1>2
  <2> QED
    BY <1>5, <2>1 DEF Same
<1>8. NameOpens(t, k) = k + (o - j)
  <2>1. "quote" \notin Space /\ o # 0 /\ o = NameOpens(s, j)
    BY <1>1, <1>2 DEF Space, o
  <2> QED
    BY <1>1, <1>5, <1>6, <1>7, <2>1, OpensShifts
<1>9. (k + (o - j)) + 1 = k + ((o + 1) - j)
  BY <1>1, <1>2, <1>5, SMTT(30)
<1>10. tail[1] \in Placeholders
  BY DEF tail, Placeholders
<1> HIDE DEF k
<1>11. ~QuotedFound(t, k, NameOpens(t, k))
  BY <1>5, <1>8, <1>9, <1>10 DEF QuotedFound
<1> QED
  BY <1>11 DEF k

(* nor is a bare one, by either rule.                                      *)
LEMMA BareMasked ==
  ASSUME NEW match, NEW s, NEW t, NEW stops, NEW at, MaskingPass(match, s, t, stops, at),
         NEW j \in stops, j <= Len(s), match[j] = NameBare(s, j), match[j].end # j
  PROVE  /\ At(t, NameOpens(t, at[j] + 1)) = "NAME"
         /\ At(t, AfterSep(t, (at[j] + 1) + 1)) = "NAME"
<1> DEFINE v == AfterSep(s, j + 1)
           k == at[j] + 1
           w == k + (v - j)
           tail == <<"NAME">>
<1>1. /\ s \in Seq(Lexemes) /\ t \in Seq(Lexemes) /\ j \in 1..Len(s)
      /\ Len(s) \in Nat /\ Len(t) \in Nat
  BY PassSizes
<1>2. v \in (j + 2)..Len(s)
  BY <1>1, NameBareDoesIt DEF NameBareDoes
<1>3. Masks(match[j], s, j, v, tail)
  BY <1>1, NameBareMasks
<1> HIDE DEF tail
<1>4. Replaces(match, s, t, stops, at, j, v, tail)
  BY <1>3, MatchStands
<1> HIDE DEF v
<1>5. Same(s, t, j, k, v) /\ k \in 1..Len(t) /\ w \in 1..Len(t) /\ t[w] = tail[1]
  BY <1>4, KeptStands
<1>6. t[w] = "NAME" /\ "NAME" \notin Space
  BY <1>5 DEF tail, Space
<1>7. Same(s, t, j + 1, k + 1, v)
  <2> SUFFICES ASSUME NEW x \in (j + 1)..(v - 1)
               PROVE  (k + 1) + (x - (j + 1)) \in 1..Len(t) /\ t[(k + 1) + (x - (j + 1))] = s[x]
    BY DEF Same
  <2>1. x \in j..(v - 1) /\ (k + 1) + (x - (j + 1)) = k + (x - j)
    BY <1>1, <1>2, <1>5, SMTT(30)
  <2> QED
    BY <1>5, <2>1 DEF Same
<1>8. AfterSep(t, k + 1) = w
  <2>1. (k + 1) + (v - (j + 1)) = w /\ j + 1 \in 1..(Len(s) + 1) /\ k + 1 \in 1..(Len(t) + 1)
        /\ v # 0 /\ v = AfterSep(s, j + 1)
    <3>1. v = AfterSep(s, j + 1)
      BY DEF v
    <3> HIDE DEF k
    <3>2. (k + 1) + (v - (j + 1)) = k + (v - j) /\ j + 1 \in 1..(Len(s) + 1)
          /\ k + 1 \in 1..(Len(t) + 1) /\ v # 0
      BY <1>1, <1>2, <1>5
    <3> QED
      BY <3>1, <3>2
  <2> HIDE DEF w, k
  <2> QED
    BY <1>1, <1>5, <1>6, <1>7, <2>1, SepShifts, SMTT(30)
<1>9. At(s, j + 1) # "quote" /\ j + 1 \in j..(v - 1)
  <2>1. PICK q : Separates(s, j + 1, q, v)
    <3>1. j + 1 \in 1..(Len(s) + 1) /\ AfterSep(s, j + 1) # 0
      BY <1>1, <1>2 DEF v
    <3> QED
      BY <1>1, <3>1, AfterSepFinds DEF v
  <2>2. /\ q \in (j + 1)..Len(s) /\ s[q] = "sep"
        /\ \A x \in (j + 1)..(q - 1) : s[x] \in Space
    BY <2>1 DEF Separates
  <2>3. s[j + 1] \in Space \cup {"sep"} /\ j + 1 \in 1..Len(s)
    <3>1. j + 1 = q \/ j + 1 \in (j + 1)..(q - 1)
      BY <1>1, <2>2
    <3> QED
      BY <1>1, <2>2, <3>1
  <2>4. j + 1 \in j..(v - 1)
    BY <1>1, <1>2
  <2> QED
    BY <2>3, <2>4 DEF At, Space
<1>10. At(t, k + 1) # "quote"
  <2>1. k + ((j + 1) - j) = k + 1 /\ j + 1 \in 1..Len(s)
    BY <1>1, <1>2, <1>5
  <2>2. k + 1 \in 1..Len(t) /\ t[k + 1] = s[j + 1]
    BY <1>5, <1>9, <2>1 DEF Same
  <2> QED
    BY <1>9, <2>1, <2>2 DEF At
<1>11. NameOpens(t, k) = w
  BY <1>8, <1>10 DEF NameOpens, Optional
<1>12. At(t, w) = "NAME"
  BY <1>5, <1>6 DEF At
<1> QED
  BY <1>8, <1>11, <1>12 DEF k

(* Behind a key that is copied no quoted name is found that was not.       *)
LEMMA QuotedAlike ==
  ASSUME NEW match, NEW s, NEW t, NEW stops, NEW at, MaskingPass(match, s, t, stops, at),
         MasksNames(match, s),
         NEW j \in stops, Copies(match, s, t, stops, at, j),
         QuotedFound(t, at[j] + 1, NameOpens(t, at[j] + 1)), s[j] = "user", Boundary(s, j)
  PROVE  QuotedFound(s, j, NameOpens(s, j))
<1> DEFINE c == Optional(s, j + 1, "quote")
           o == NameOpens(s, j)
           k == at[j] + 1
<1>1. /\ s \in Seq(Lexemes) /\ t \in Seq(Lexemes) /\ Len(s) \in Nat /\ Len(t) \in Nat
      /\ \A i \in stops : i \in 1..(Len(s) + 1) /\ at[i] \in Nat
  BY PassSizes
<1>2. j + 1 \in stops /\ at[j + 1] = at[j] + 1
  BY DEF Copies
<1>3. c \in stops /\ Optional(t, at[j + 1] + 1, "quote") = at[c] + 1
  BY <1>2, QuoteAlike
<1>4. o = AfterSep(s, c)
  BY DEF NameOpens
<1> HIDE DEF c, o, k
<1>5. NameOpens(t, k) = AfterSep(t, at[c] + 1)
  BY <1>2, <1>3 DEF NameOpens, k
<1>6. At(t, NameOpens(t, k)) = "quote"
  BY DEF QuotedFound, k
<1>7. o \in stops /\ NameOpens(t, k) = at[o] + 1
  <2>1. At(t, 0) # "quote"
    BY <1>1, AtReads
  <2>2. NameOpens(t, k) # 0
    BY <1>6, <2>1
  <2> QED
    BY <1>3, <1>4, <1>5, <2>2, SepAlike
<1>8. At(s, o) = "quote"
  <2>1. Seen(s, t, o, at[o] + 1)
    BY <1>7, StopSees
  <2>2. "quote" \notin Placeholders
    BY DEF Placeholders
  <2> QED
    BY <1>6, <1>7, <2>1, <2>2 DEF Seen
<1>9. o \in 1..Len(s) /\ s[o] = "quote"
  BY <1>1, <1>8, AtIs
<1> DEFINE p == o + 1
           b == at[o] + 1
<1>10. p \in stops /\ at[p] = b
  <2>1. "quote" \notin Starts
    BY DEF Starts, Words
  <2>2. Copies(match, s, t, stops, at, o)
    BY <1>7, <1>9, <2>1, NotStartCopied
  <2> QED
    BY <2>2 DEF Copies
<1>11. /\ At(t, Skip(t, b + 1, QuotedName)) = "quote"
       /\ Skip(t, b + 1, QuotedName) > b + 1
       /\ t[b + 1] \notin Placeholders
  BY <1>7 DEF QuotedFound, k
<1> HIDE DEF p, b
<1>12. At(s, Skip(s, p, QuotedName)) = "quote"
  BY <1>10, <1>11, ClosesAlike
<1>13. Seen(s, t, p, b + 1) /\ b + 1 \in 1..(Len(t) + 1) /\ p \in 1..(Len(s) + 1)
  BY <1>10, StopSees
<1>14. b + 1 <= Len(t) /\ t[b + 1] \in QuotedName
  <2>1. /\ Skip(t, b + 1, QuotedName) \in (b + 1)..(Len(t) + 1)
        /\ \A x \in (b + 1)..(Skip(t, b + 1, QuotedName) - 1) : t[x] \in QuotedName
    BY <1>1, <1>13, SkipPasses
  <2> DEFINE e == Skip(t, b + 1, QuotedName)
  <2>2. e > b + 1 /\ e \in (b + 1)..(Len(t) + 1) /\ \A x \in (b + 1)..(e - 1) : t[x] \in QuotedName
    BY <1>11, <2>1
  <2> HIDE DEF e
  <2>3. b + 1 \in 1..(Len(t) + 1) /\ Len(t) \in Nat
    BY <1>1, <1>13
  <2>4. b + 1 \in (b + 1)..(e - 1) /\ b + 1 <= Len(t)
    BY <2>2, <2>3
  <2> QED
    BY <2>2, <2>4
<1>15. p \in 1..Len(s) /\ s[p] = t[b + 1]
  <2>1. At(t, b + 1) = t[b + 1]
    BY <1>13, <1>14 DEF At
  <2>2. At(s, p) = t[b + 1] /\ t[b + 1] # "end"
    <3>1. "end" \notin QuotedName
      BY DEF QuotedName, Lexemes, Words, Marks, Placeholders
    <3> QED
      BY <1>11, <1>13, <1>14, <2>1, <3>1 DEF Seen
  <2> QED
    BY <1>1, <2>2, AtIs
<1>16. s[p] \in QuotedName /\ s[p] \notin Placeholders
  BY <1>11, <1>14, <1>15
<1>17. Skip(s, p, QuotedName) > p
  <2> DEFINE e == Skip(s, p, QuotedName)
  <2>1. e \in p..(Len(s) + 1) /\ (e <= Len(s) => s[e] \notin QuotedName)
    BY <1>1, <1>13, SkipPasses
  <2> HIDE DEF e
  <2>2. e > p
    BY <1>1, <1>15, <1>16, <2>1
  <2> QED
    BY <2>2 DEF e
<1> QED
  BY <1>8, <1>12, <1>16, <1>17 DEF QuotedFound, p, o

(* So quoted names stay masked.                                            *)
LEMMA NameQuotedStays ==
  ASSUME NEW match, NEW s, NEW t, NEW stops, NEW at, MaskingPass(match, s, t, stops, at),
         MasksNames(match, s)
  PROVE  \A k \in 1..Len(t) : ~QuotedFound(t, k, NameOpens(t, k))
<1> SUFFICES ASSUME NEW k \in 1..Len(t), QuotedFound(t, k, NameOpens(t, k)) PROVE FALSE
  OBVIOUS
<1>1. t[k] = "user" /\ Boundary(t, k) /\ At(t, NameOpens(t, k)) = "quote"
  BY DEF QuotedFound
<1>2. "user" \in Words /\ "user" \in Starts
  BY DEF Words, Starts
<1>3. PICK j \in stops :
         /\ j <= Len(s) /\ k = at[j] + 1 /\ s[j] = t[k]
         /\ \/ Copies(match, s, t, stops, at, j)
            \/ \E v, tail : v > j /\ Replaces(match, s, t, stops, at, j, v, tail)
  BY <1>1, <1>2, WordsStand
<1>4. j \in 1..Len(s)
  BY <1>3, PassSizes
<1>5. Boundary(s, j)
  BY <1>1, <1>2, <1>3, BoundaryWas
<1>6. CASE Copies(match, s, t, stops, at, j)
  <2>1. QuotedFound(s, j, NameOpens(s, j))
    BY <1>1, <1>3, <1>5, <1>6, QuotedAlike
  <2>2. match[j].end = j
    BY <1>6 DEF Copies
  <2> QED
    BY <1>4, <2>1, <2>2 DEF MasksNames
<1>7. CASE match[j].end # j
  <2>1. match[j] = NameQuoted(s, j) \/ match[j] = NameBare(s, j)
    BY <1>4, <1>7 DEF MasksNames
  <2>2. CASE match[j] = NameQuoted(s, j)
    BY <1>3, <1>7, <2>2, QuotedMasked
  <2>3. CASE match[j] = NameBare(s, j)
    <3>1. At(t, NameOpens(t, k)) = "NAME"
      BY <1>3, <1>7, <2>3, BareMasked
    <3> QED
      BY <1>1, <3>1
  <2> QED
    BY <2>1, <2>2, <2>3
<1>8. ASSUME NEW v, NEW tail, Replaces(match, s, t, stops, at, j, v, tail) PROVE match[j].end # j
  <2>1. match[j].end \in (j + 1)..(Len(s) + 1)
    BY <1>8 DEF Replaces, Masks
  <2> QED
    BY <1>4, <2>1
<1> QED
  BY <1>3, <1>6, <1>7, <1>8

(* When the rule for bare names finds something.                           *)
BareFound(s, i) == s[i] = "user" /\ Boundary(s, i) /\ At(s, AfterSep(s, i + 1)) \in BareNameStart

(* After its own pass none is found.                                       *)
LEMMA NameBareStays ==
  ASSUME NEW match, NEW s, NEW t, NEW stops, NEW at, MaskingPass(match, s, t, stops, at),
         \A j \in 1..Len(s) : match[j] = NameBare(s, j)
  PROVE  \A k \in 1..Len(t) : ~BareFound(t, k)
<1> SUFFICES ASSUME NEW k \in 1..Len(t), BareFound(t, k) PROVE FALSE
  OBVIOUS
<1> DEFINE w == AfterSep(t, k + 1)
<1>1. t[k] = "user" /\ Boundary(t, k) /\ At(t, w) \in BareNameStart
  BY DEF BareFound
<1>2. /\ "user" \in Words /\ "user" \in Starts /\ "end" \notin BareNameStart
      /\ Placeholders \cap BareNameStart = {} /\ "NAME" \in Placeholders
  BY DEF Words, Starts, BareNameStart, BareName, Placeholders, Lexemes, Marks
<1>3. PICK j \in stops :
         /\ j <= Len(s) /\ k = at[j] + 1 /\ s[j] = t[k]
         /\ \/ Copies(match, s, t, stops, at, j)
            \/ \E v, tail : v > j /\ Replaces(match, s, t, stops, at, j, v, tail)
  BY <1>1, <1>2, WordsStand
<1>4. j \in 1..Len(s) /\ s \in Seq(Lexemes) /\ t \in Seq(Lexemes)
  BY <1>3, PassSizes
<1>5. Boundary(s, j)
  BY <1>1, <1>2, <1>3, BoundaryWas
<1> HIDE DEF w
<1>6. CASE Copies(match, s, t, stops, at, j)
  <2> DEFINE v == AfterSep(s, j + 1)
  <2>1. j + 1 \in stops /\ at[j + 1] = k /\ match[j].end = j
    BY <1>3, <1>6 DEF Copies
  <2>2. \/ v = 0 /\ w = 0
        \/ v \in stops /\ w = at[v] + 1
    BY <2>1, SepAlike DEF w
  <2> HIDE DEF v
  <2>3. w # 0
    <3>1. At(t, 0) = "end"
      BY <1>4, AtReads
    <3> QED
      BY <1>1, <1>2, <3>1
  <2>4. Seen(s, t, v, w)
    BY <2>2, <2>3, StopSees
  <2>5. At(s, v) \in BareNameStart
    BY <1>1, <1>2, <2>4 DEF Seen
  <2>6. NameBareDoes(match[j], s, j, v)
    BY <1>4, NameBareDoesIt DEF v
  <2>7. j + 1 # j /\ (match[j].end \in (v + 1)..(Len(s) + 1) /\ v \in (j + 2)..Len(s) => match[j].end # j)
    BY <1>4
  <2> QED
    BY <1>1, <1>3, <1>5, <2>1, <2>5, <2>6, <2>7 DEF NameBareDoes
<1>7. CASE match[j].end # j
  <2>1. At(t, w) = "NAME"
    BY <1>3, <1>4, <1>7, BareMasked DEF w
  <2> QED
    BY <1>1, <1>2, <2>1
<1>8. ASSUME NEW v, NEW tail, Replaces(match, s, t, stops, at, j, v, tail) PROVE match[j].end # j
  <2>1. match[j].end \in (j + 1)..(Len(s) + 1)
    BY <1>8 DEF Replaces, Masks
  <2> QED
    BY <1>4, <2>1
<1> QED
  BY <1>3, <1>6, <1>7, <1>8

-----------------------------------------------------------------------------
(***************************************************************************)
(* The passes, one after the other.                                        *)
(***************************************************************************)

(* A pass whose matches mask only is a masking pass.                       *)
LEMMA RewritingMasks ==
  ASSUME NEW s \in Seq(Lexemes), Lexed(s), NEW match,
         \A i \in 1..Len(s) : Fits(match[i], Lexemes) /\ MasksOnly(match[i], s, i)
  PROVE  LET t == Rewriting(match, s)[Len(s)].out
         IN  /\ t \in Seq(Lexemes) /\ Lexed(t)
             /\ \E stops, at : MaskingPass(match, s, t, stops, at)
<1> DEFINE t == Rewriting(match, s)[Len(s)].out
<1>1. PutsOut(match, s, Lexemes)
  <2> SUFFICES ASSUME NEW i \in 1..Len(s)
               PROVE  /\ match[i].end \in Int /\ match[i].out \in Seq(Lexemes)
                      /\ match[i].end = i => s[i] \in Lexemes
    BY DEF PutsOut
  <2>1. Fits(match[i], Lexemes)
    OBVIOUS
  <2> QED
    BY <2>1 DEF Fits
<1>2. Advances(match, s)
  <2> SUFFICES ASSUME NEW i \in 1..Len(s) PROVE match[i].end \in i..(Len(s) + 1)
    BY DEF Advances
  <2>1. MasksOnly(match[i], s, i)
    OBVIOUS
  <2>2. match[i].end = i \/ match[i].end \in (i + 1)..(Len(s) + 1)
    BY <2>1 DEF MasksOnly, Masks
  <2> QED
    BY <2>2
<1>3. t \in Seq(Lexemes)
  BY <1>1, RewritingIs
<1>4. PICK stops, at : Pass(match, s, t, stops, at)
  BY <1>1, <1>2, PassIs
<1> HIDE DEF t
<1>5. Masking(match, s)
  BY DEF Masking
<1>6. MaskingPass(match, s, t, stops, at)
  BY <1>3, <1>4, <1>5 DEF MaskingPass
<1>7. Lexed(t)
  BY <1>6, LexedStays
<1> QED
  BY <1>3, <1>6, <1>7 DEF t

(* A pass that puts out of every match what it finds changes nothing.      *)
LEMMA RewritingSame ==
  ASSUME NEW X, NEW s \in Seq(X), NEW match, PutsOut(match, s, X), Advances(match, s),
         \A i \in 1..Len(s) : match[i].end = i \/ match[i].out = Kept(s, i, match[i].end)
  PROVE  Rewriting(match, s)[Len(s)].out = s
<1> DEFINE t == Rewriting(match, s)[Len(s)].out
           n == Len(s)
<1>1. t \in Seq(X)
  BY RewritingIs
<1>2. PICK stops, at : Pass(match, s, t, stops, at)
  BY PassIs
<1> HIDE DEF t
<1>3. n \in Nat /\ Len(t) \in Nat
  BY <1>1
<1>4. /\ \A j \in stops : j \in 1..(n + 1) /\ at[j] \in Nat
      /\ 1 \in stops /\ at[1] = 0
      /\ \A j \in stops : j <= n =>
             /\ After(match, j) \in stops
             /\ at[After(match, j)] = at[j] + Len(Put(match, s, j))
             /\ Stands(t, at[j], Put(match, s, j))
      /\ \A j \in stops : j = n + 1 => at[j] = Len(t)
      /\ \A j \in stops : j > 1 => \E i \in stops : i <= n /\ After(match, i) = j
      /\ \A c \in 1..n : \E j \in stops : j <= c /\ c < After(match, j)
  <2>1. /\ stops \subseteq 1..(n + 1) /\ at \in [stops -> Nat]
        /\ 1 \in stops /\ at[1] = 0
        /\ \A j \in stops : j <= n =>
               /\ After(match, j) \in stops
               /\ at[After(match, j)] = at[j] + Len(Put(match, s, j))
               /\ Stands(t, at[j], Put(match, s, j))
        /\ \A j \in stops : j = n + 1 => at[j] = Len(t)
        /\ \A j \in stops : j > 1 => \E i \in stops : i <= n /\ After(match, i) = j
        /\ \A c \in 1..n : \E j \in stops : j <= c /\ c < After(match, j)
    BY <1>2 DEF Pass
  <2>2. \A j \in stops : j \in 1..(n + 1) /\ at[j] \in Nat
    BY <2>1
  <2> QED
    BY <2>1, <2>2
<1>5. ASSUME NEW j \in 1..n
      PROVE  /\ After(match, j) \in (j + 1)..(n + 1)
             /\ Len(Put(match, s, j)) = After(match, j) - j
             /\ \A x \in 1..(After(match, j) - j) : Put(match, s, j)[x] = s[j + x - 1]
  <2>1. CASE match[j].end = j
    <3>1. After(match, j) = j + 1 /\ Put(match, s, j) = <<s[j]>>
      BY <2>1 DEF After, Put
    <3>2. (j + 1) - j = 1 /\ j + 1 - 1 = j /\ Len(<<s[j]>>) = 1 /\ <<s[j]>>[1] = s[j]
      OBVIOUS
    <3>3. j + 1 \in (j + 1)..(n + 1)
      BY <1>3
    <3> QED
      BY <3>1, <3>2, <3>3
  <2>2. CASE match[j].end # j
    <3> DEFINE e == match[j].end
    <3>1. e \in j..(n + 1)
      BY DEF Advances
    <3>2. After(match, j) = e /\ Put(match, s, j) = Kept(s, j, e)
      BY <2>2 DEF After, Put
    <3>3. e # j
      BY <2>2
    <3> HIDE DEF e
    <3>4. /\ Len(Kept(s, j, e)) = e - j
          /\ \A x \in 1..(e - j) : Kept(s, j, e)[x] = s[j + x - 1]
      BY <3>1, KeptReads
    <3>5. e \in (j + 1)..(n + 1)
      BY <1>3, <3>1, <3>3
    <3> QED
      BY <3>2, <3>4, <3>5
  <2> QED
    BY <2>1, <2>2
<1> HIDE DEF n
<1>6. \A j \in stops : at[j] = j - 1
  <2> DEFINE Bad == {j \in stops : at[j] # j - 1}
  <2> SUFFICES ASSUME Bad # {} PROVE FALSE
    OBVIOUS
  <2>1. Bad \subseteq Nat
    BY <1>4
  <2> HIDE DEF Bad
  <2>2. PICK j \in Bad : \A y \in Bad : j <= y
    BY <2>1, FirstOf
  <2>3. j \in stops /\ at[j] # j - 1 /\ j > 1
    <3>1. j \in stops /\ at[j] # j - 1
      BY DEF Bad
    <3>2. j # 1
      BY <1>4, <3>1
    <3> QED
      BY <1>3, <1>4, <3>1, <3>2
  <2>4. PICK i \in stops : i <= n /\ After(match, i) = j
    BY <1>4, <2>3
  <2>5. i \in 1..n
    BY <1>3, <1>4, <2>4
  <2>6. i < j /\ at[j] = at[i] + (j - i)
    <3>1. at[j] = at[i] + Len(Put(match, s, i))
      BY <1>4, <2>4
    <3>2. j \in (i + 1)..(n + 1) /\ Len(Put(match, s, i)) = j - i
      BY <1>5, <2>4, <2>5
    <3> QED
      BY <2>5, <3>1, <3>2
  <2>7. at[i] = i - 1
    <3>1. i \notin Bad
      BY <2>1, <2>2, <2>5, <2>6
    <3> QED
      BY <3>1 DEF Bad
  <2>8. i \in Nat /\ j \in Nat
    BY <1>3, <1>4, <2>3, <2>5
  <2> QED
    BY <2>3, <2>6, <2>7, <2>8
<1>7. Len(t) = n
  <2>1. n + 1 \in stops
    <3>1. CASE n = 0
      BY <1>4, <3>1
    <3>2. CASE n # 0
      <4>1. n \in 1..n
        BY <1>3, <3>2
      <4>2. PICK j \in stops : j <= n /\ n < After(match, j)
        BY <1>4, <4>1
      <4>3. After(match, j) \in stops /\ After(match, j) \in 1..(n + 1)
        BY <1>4, <4>2
      <4>4. After(match, j) = n + 1
        BY <1>3, <4>2, <4>3
      <4> QED
        BY <4>3, <4>4
    <3> QED
      BY <3>1, <3>2
  <2>2. at[n + 1] = Len(t)
    BY <1>4, <2>1
  <2> QED
    BY <1>3, <1>6, <2>1, <2>2
<1>8. ASSUME NEW c \in 1..n PROVE t[c] = s[c]
  <2>1. PICK j \in stops : j <= c /\ c < After(match, j)
    BY <1>4
  <2>2. j \in 1..n /\ j <= n
    BY <1>3, <1>4, <2>1
  <2>3. Stands(t, at[j], Put(match, s, j)) /\ at[j] = j - 1
    BY <1>4, <1>6, <2>2
  <2>4. /\ After(match, j) \in (j + 1)..(n + 1)
        /\ Len(Put(match, s, j)) = After(match, j) - j
        /\ \A x \in 1..(After(match, j) - j) : Put(match, s, j)[x] = s[j + x - 1]
    BY <1>5, <2>2
  <2> DEFINE x == c - j + 1
             e == After(match, j)
  <2>5. e \in (j + 1)..(n + 1) /\ c < e /\ j <= c
    BY <2>1, <2>4
  <2> HIDE DEF e
  <2>6. x \in 1..(e - j) /\ (j - 1) + x = c /\ j + x - 1 = c
    BY <1>3, <2>2, <2>5
  <2> HIDE DEF x
  <2>7. t[(j - 1) + x] = Put(match, s, j)[x]
    BY <2>3, <2>4, <2>6 DEF Stands, e
  <2>8. Put(match, s, j)[x] = s[j + x - 1]
    BY <2>4, <2>6 DEF e
  <2> QED
    BY <2>6, <2>7, <2>8
<1>9. t = s
  <2>1. Len(t) = Len(s) /\ \A c \in 1..Len(t) : t[c] = s[c]
    BY <1>7, <1>8 DEF n
  <2> QED
    BY <1>1, <2>1, SeqEqual
<1> QED
  BY <1>9 DEF t

(* Two texts that are lexed are when joined, unless a word would grow.     *)
LEMMA JoinLexed ==
  ASSUME NEW a \in Seq(Lexemes), NEW b \in Seq(Lexemes), Lexed(a), Lexed(b),
         Len(a) > 0 /\ Len(b) > 0 /\ b[1] \in Words \cup {"n"} => a[Len(a)] \notin Words \cup {"at"}
  PROVE  Lexed(a \o b)
<1> DEFINE c == a \o b
           m == Len(a)
           n == Len(b)
<1>1. /\ Len(c) = m + n /\ m \in Nat /\ n \in Nat
      /\ \A x \in 1..m : c[x] = a[x]
      /\ \A y \in 1..n : c[m + y] = b[y]
  BY JoinReads
<1> SUFFICES ASSUME NEW i \in 2..Len(c), c[i] \in Words \cup {"n"}
             PROVE  c[i - 1] \notin Words \cup {"at"}
  BY DEF Lexed
<1> HIDE DEF c
<1>2. CASE i <= m
  <2>1. i \in 2..m /\ i \in 1..m /\ i - 1 \in 1..m
    BY <1>1, <1>2
  <2>2. c[i] = a[i] /\ c[i - 1] = a[i - 1]
    BY <1>1, <2>1
  <2> QED
    BY <2>1, <2>2 DEF Lexed
<1>3. CASE i = m + 1
  <2>1. m \in 1..m /\ 1 \in 1..n /\ i - 1 = m /\ i = m + 1
    BY <1>1, <1>3
  <2>2. c[i] = b[1] /\ c[i - 1] = a[m]
    BY <1>1, <2>1
  <2> QED
    BY <1>1, <2>1, <2>2
<1>4. CASE i > m + 1
  <2> DEFINE y == i - m
  <2>1. y \in 2..n /\ y \in 1..n /\ y - 1 \in 1..n /\ m + y = i /\ m + (y - 1) = i - 1
    BY <1>1, <1>4
  <2> HIDE DEF y
  <2>2. c[m + y] = b[y] /\ c[m + (y - 1)] = b[y - 1]
    BY <1>1, <2>1
  <2>3. c[i] = b[y] /\ c[i - 1] = b[y - 1]
    BY <2>1, <2>2
  <2> QED
    BY <2>1, <2>3 DEF Lexed
<1> QED
  BY <1>1, <1>2, <1>3, <1>4, SMTT(30)

(* The payload of a text that is lexed is.                                 *)
LEMMA PayloadLexed ==
  ASSUME NEW s \in Seq(Words \cup Marks), Lexed(s)
  PROVE  Lexed(Payload(s))
<1> DEFINE n == Len(s)
           code == Encoding(s)
           W == Words \cup {"at"}
           Ok(i) == /\ Lexed(code[i])
                    /\ Len(code[i]) > 0 /\ code[i][Len(code[i])] \in W => i \in 1..n /\ s[i] \in W
           Bad == {i \in 0..n : ~Ok(i)}
<1>1. n \in Nat /\ s \in Seq(Lexemes)
  <2>1. Words \cup Marks \subseteq Lexemes
    BY DEF Lexemes
  <2> QED
    BY <2>1
<1>2. /\ \A i \in 0..n : code[i] \in Seq(Lexemes)
      /\ code[0] = <<>>
      /\ \A i \in 1..n : code[i] = code[i - 1] \o Escape(s[i])
  <2>1. {"bs", "n", "quote"} \subseteq Lexemes
    BY DEF Lexemes, Marks
  <2> QED
    BY <1>1, <2>1, EncodingIs
<1>3. Encode(s) = code[n]
  BY DEF Encode
<1> HIDE DEF code
<1>4. 0 \notin Bad
  <2>1. Len(<<>>) = 0 /\ Lexed(<<>>)
    BY DEF Lexed
  <2> QED
    BY <1>2, <2>1
<1>5. \A i \in 1..n : i \in Bad => i - 1 \in Bad
  <2> SUFFICES ASSUME NEW i \in 1..n, i - 1 \notin Bad PROVE Ok(i)
    OBVIOUS
  <2>1. i - 1 \in 0..n /\ i \in 0..n /\ Ok(i - 1)
    <3>1. i - 1 \in 0..n /\ i \in 0..n
      BY <1>1
    <3> HIDE DEF Ok
    <3> QED
      BY <3>1
  <2> DEFINE a == code[i - 1]
             b == Escape(s[i])
             l == b[Len(b)]
  <2>2. a \in Seq(Lexemes) /\ code[i] = a \o b
    BY <1>2, <2>1
  <2>3. s[i] \in Words \cup Marks /\ "n" \notin Words \cup Marks
    BY DEF Words, Marks
  <2>4. /\ b \in Seq(Lexemes) /\ Len(b) \in 1..2 /\ Lexed(b)
        /\ b[1] \in Words \cup {"n"} => s[i] \in Words
        /\ l \in W => s[i] \in W
    <3>1. "bs" \notin W \cup {"n"} /\ "n" \notin W /\ "quote" \notin W /\ {"bs", "n", "quote"} \subseteq Lexemes
      BY DEF Words, Lexemes, Marks
    <3>2. CASE s[i] = "nl"
      <4>1. b = <<"bs", "n">>
        BY <3>2 DEF Escape
      <4>2. Len(b) = 2 /\ b[1] = "bs" /\ b[2] = "n" /\ b \in Seq(Lexemes)
        BY <3>1, <4>1
      <4> HIDE DEF b, W
      <4>3. Lexed(b)
        BY <3>1, <4>2 DEF Lexed, W
      <4>4. b[1] \notin Words \cup {"n"} /\ l \notin W
        BY <3>1, <4>2 DEF W
      <4> QED
        BY <4>2, <4>3, <4>4
    <3>3. CASE s[i] = "quote"
      <4>1. b = <<"bs", "quote">>
        BY <3>3 DEF Escape
      <4>2. Len(b) = 2 /\ b[1] = "bs" /\ b[2] = "quote" /\ b \in Seq(Lexemes)
        BY <3>1, <4>1
      <4> HIDE DEF b, W
      <4>3. Lexed(b)
        BY <3>1, <4>2 DEF Lexed, W
      <4>4. b[1] \notin Words \cup {"n"} /\ l \notin W
        BY <3>1, <4>2 DEF W
      <4> QED
        BY <4>2, <4>3, <4>4
    <3>4. CASE s[i] # "nl" /\ s[i] # "quote"
      <4>1. b = <<s[i]>>
        BY <3>4 DEF Escape
      <4>2. Len(b) = 1 /\ b[1] = s[i] /\ b \in Seq(Lexemes)
        BY <1>1, <4>1
      <4> HIDE DEF b, W
      <4>3. Lexed(b)
        BY <4>2 DEF Lexed
      <4> QED
        BY <2>3, <4>2, <4>3
    <3> QED
      BY <3>2, <3>3, <3>4
  <2> HIDE DEF b, W, l
  <2>5. Len(a) > 0 /\ b[1] \in Words \cup {"n"} => a[Len(a)] \notin W
    <3> SUFFICES ASSUME Len(a) > 0, b[1] \in Words \cup {"n"}, a[Len(a)] \in W PROVE FALSE
      OBVIOUS
    <3>1. s[i] \in Words
      BY <2>4
    <3>2. i - 1 \in 1..n /\ s[i - 1] \in W
      BY <2>1
    <3>3. i \in 2..n
      BY <1>1, <3>2
    <3> QED
      BY <3>1, <3>2, <3>3 DEF Lexed, W
  <2>6. Lexed(a)
    BY <2>1
  <2> HIDE DEF a, Ok
  <2>7. Lexed(a \o b)
    BY <2>2, <2>4, <2>5, <2>6, JoinLexed DEF W
  <2>8. (a \o b)[Len(a \o b)] = l
    <3>1. /\ Len(a \o b) = Len(a) + Len(b) /\ Len(b) \in 1..Len(b)
          /\ \A y \in 1..Len(b) : (a \o b)[Len(a) + y] = b[y]
      <4>1. Len(b) \in 1..Len(b)
        <5> DEFINE k == Len(b)
        <5>1. k \in 1..2
          BY <2>4
        <5> HIDE DEF k
        <5>2. k \in 1..k
          BY <5>1
        <5> QED
          BY <5>2 DEF k
      <4> QED
        BY <2>2, <2>4, <4>1, JoinReads
    <3> QED
      BY <3>1 DEF l
  <2> QED
    BY <2>2, <2>4, <2>7, <2>8 DEF Ok
<1>6. Bad = {}
  <2>1. Bad \subseteq 0..n
    OBVIOUS
  <2> HIDE DEF Bad
  <2> QED
    BY <1>1, <1>4, <1>5, <2>1, LoopKeeps
<1>7. Lexed(Encode(s)) /\ Encode(s) \in Seq(Lexemes)
  <2>1. n \in 0..n
    BY <1>1
  <2>2. n \notin Bad
    BY <1>6
  <2> QED
    BY <1>2, <1>3, <2>1, <2>2
<1> DEFINE e == Encode(s)
<1> HIDE DEF e
<1>8. /\ Open \in Seq(Lexemes) /\ Len(Open) = 6 /\ Open[6] = "quote" /\ Lexed(Open)
      /\ Close \in Seq(Lexemes) /\ Close[1] = "quote" /\ Lexed(Close)
  <2>1. {"lbrace", "rbrace", "quote", "word", "sep", "comma"} \subseteq Lexemes
    BY DEF Lexemes, Words, Marks
  <2>2. {"quote", "lbrace", "sep", "comma", "rbrace"} \cap (Words \cup {"n", "at"}) = {}
    BY DEF Words
  <2>3. Open \in Seq(Lexemes) /\ Len(Open) = 6 /\ Open[6] = "quote" /\ Close \in Seq(Lexemes) /\ Close[1] = "quote"
    BY <2>1 DEF Open, Close
  <2>4. Lexed(Open)
    <3> SUFFICES ASSUME NEW i \in 2..6, Open[i] \in Words \cup {"n"}
                 PROVE  Open[i - 1] \notin Words \cup {"at"}
      BY <2>3 DEF Lexed
    <3>1. /\ Open[1] = "lbrace" /\ Open[2] = "quote" /\ Open[3] = "word"
          /\ Open[4] = "quote" /\ Open[5] = "sep" /\ Open[6] = "quote"
      BY DEF Open
    <3>2. i = 3
      BY <2>2, <3>1
    <3> QED
      BY <2>2, <3>1, <3>2
  <2>5. Lexed(Close)
    <3>1. /\ Len(Close) = 10
          /\ Close[1] = "quote" /\ Close[2] = "comma" /\ Close[3] = "quote"
          /\ Close[4] = "word" /\ Close[5] = "quote" /\ Close[6] = "sep"
          /\ Close[7] = "quote" /\ Close[8] = "word" /\ Close[9] = "quote" /\ Close[10] = "rbrace"
      BY DEF Close
    <3> SUFFICES ASSUME NEW i \in 2..10, Close[i] \in Words \cup {"n"}
                 PROVE  Close[i - 1] \notin Words \cup {"at"}
      BY <3>1 DEF Lexed
    <3>2. i \in {4, 8}
      BY <2>2, <3>1
    <3> QED
      BY <2>2, <3>1, <3>2
  <2> QED
    BY <2>3, <2>4, <2>5
<1>9. "quote" \notin Words \cup {"n", "at"}
  BY DEF Words
<1>10. Lexed(Open \o e) /\ Open \o e \in Seq(Lexemes)
  <2>1. Lexed(Open \o e)
    BY <1>7, <1>8, <1>9, JoinLexed DEF e
  <2> QED
    BY <1>7, <1>8, <2>1, JoinReads DEF e
<1>11. Lexed((Open \o e) \o Close)
  BY <1>8, <1>9, <1>10, JoinLexed
<1> QED
  BY <1>11 DEF Payload, e

(* What the rules of a pass find nothing of, or no long one.               *)
HeadersGone(s) == \A i \in 1..Len(s) : ~AuthFound(s, i)
BearersGone(s) == \A i \in 1..Len(s) : ~BearerFound(s, i)
KeysGone(s) == \A i \in 1..Len(s) : ~(s[i] = "key" /\ Boundary(s, i))
SecretsGone(s) == \A i \in 1..Len(s) : SecretDone(s, i)
TokensGone(s) == HeadersGone(s) /\ BearersGone(s) /\ KeysGone(s) /\ SecretsGone(s)
AddressesGone(s) == \A i \in 1..Len(s) : ~(s[i] = "ip4" /\ Boundary(s, i))
QuotedGone(s) == \A i \in 1..Len(s) : ~QuotedFound(s, i, NameOpens(s, i))
ShortNames(s) == \A i \in 1..Len(s) : QuotedFound(s, i, NameOpens(s, i)) => ShortName(s, NameOpens(s, i))
BareGone(s) == \A i \in 1..Len(s) : ~BareFound(s, i)

(* Where the authorization rule matches nothing no header is.              *)
LEMMA AuthHeaderLeaves ==
  ASSUME NEW s \in Seq(Lexemes), NEW i \in 1..Len(s), AuthHeader(s, i).end = i
  PROVE  ~AuthFound(s, i)
<1> DEFINE m == AuthHeader(s, i)
           v == AuthValue(s, i)
<1>1. AuthDoes(m, s, i, v) /\ Behind(s, i, v) /\ m.end = i
  BY AuthHeaderDoes, AuthValueIs
<1>2. i \in Nat /\ Len(s) \in Nat
  OBVIOUS
<1> HIDE DEF m, v
<1>3. ~(v \in 1..Len(s) /\ m.end \in (v + 1)..(Len(s) + 1))
  <2> SUFFICES ASSUME v \in 1..Len(s), m.end \in (v + 1)..(Len(s) + 1) PROVE FALSE
    OBVIOUS
  <2>1. v \in (i + 2)..(Len(s) + 1)
    BY <1>1 DEF Behind
  <2> QED
    BY <1>1, <1>2, <2>1
<1>4. ~(s[i] = "auth" /\ At(s, v) \in Credential \cup Torn)
  BY <1>1, <1>3 DEF AuthDoes
<1> QED
  BY <1>4 DEF AuthFound, v

(* Where the rule over secrets matches nothing none is.                    *)
LEMMA SecretLeaves ==
  ASSUME NEW s \in Seq(Lexemes), NEW i \in 1..Len(s), Secret(s, i).end = i
  PROVE  SecretDone(s, i)
<1> DEFINE m == Secret(s, i)
           v == PassValue(s, i)
<1>1. SecretDoes(m, s, i, v) /\ m.end = i /\ i \in Nat /\ Len(s) \in Nat
  BY SecretDoesIt
<1> HIDE DEF m, v
<1>2. ~(v \in (i + 2)..Len(s) /\ m.end \in (v + 1)..(Len(s) + 1))
  BY <1>1
<1>3. ~(s[i] = "pass" /\ Boundary(s, i) /\ At(s, v) \in SecretValue)
  BY <1>1, <1>2 DEF SecretDoes
<1> QED
  BY <1>3 DEF SecretDone, v

(* What the other rules put out for a match is no key of a secret.         *)
LEMMA EmailLeaves ==
  ASSUME NEW s, NEW i, Email(s, i).end # i
  PROVE  Email(s, i).out[1] # "pass"
BY DEF Email, NoMatch, Match

(* The addresses                                                           *)
LEMMA IPv6Leaves ==
  ASSUME NEW s \in Seq(Lexemes), NEW i \in 1..Len(s), IPv6(s, i).end # i
  PROVE  s[i] # "pass"
BY DEF IPv6, NoMatch, At

(* of both kinds                                                           *)
LEMMA IPv4Leaves ==
  ASSUME NEW s \in Seq(Lexemes), NEW i \in 1..Len(s), IPv4(s, i).end # i
  PROVE  s[i] # "pass"
BY DEF IPv4, NoMatch, At

(* are none, nor is what names a person, which is quoted or                *)
LEMMA NameQuotedLeaves ==
  ASSUME NEW s \in Seq(Lexemes), NEW i \in 1..Len(s)
  PROVE  /\ NameQuoted(s, i).end # i => s[i] # "pass"
         /\ NameQuoted(s, i).end = i =>
                ~(QuotedFound(s, i, NameOpens(s, i)) /\ ShortName(s, NameOpens(s, i)))
<1> DEFINE m == NameQuoted(s, i)
           o == NameOpens(s, i)
<1>1. NameQuotedDoes(m, s, i, o) /\ i \in Nat /\ Len(s) \in Nat
  BY NameQuotedDoesIt
<1> HIDE DEF m, o
<1>2. o \in (i + 2)..Len(s) /\ m.end \in (o + 3)..(Len(s) + 1) => m.end # i
  BY <1>1
<1>3. /\ m.end # i => s[i] # "pass"
      /\ m.end = i => ~(QuotedFound(s, i, o) /\ ShortName(s, o))
  BY <1>1, <1>2 DEF NameQuotedDoes, QuotedFound
<1> QED
  BY <1>3 DEF m, o

(* not.                                                                    *)
LEMMA NameBareLeaves ==
  ASSUME NEW s \in Seq(Lexemes), NEW i \in 1..Len(s), NameBare(s, i).end # i
  PROVE  s[i] # "pass"
BY NameBareDoesIt DEF NameBareDoes

(* Tokens stay masked by any pass that leaves secret-named keys alone.     *)
LEMMA TokensStay ==
  ASSUME NEW match, NEW s, NEW t, NEW stops, NEW at, MaskingPass(match, s, t, stops, at),
         TokensGone(s),
         \A j \in 1..Len(s) : match[j].end # j => s[j] # "pass" \/ match[j].out[1] # "pass"
  PROVE  TokensGone(t)
<1>1. HeadersGone(t)
  BY AuthStays DEF TokensGone, HeadersGone
<1>2. BearersGone(t)
  BY BearerStays DEF TokensGone, BearersGone
<1>3. KeysGone(t)
  BY ShapeStays DEF TokensGone, KeysGone
<1>4. SecretsGone(t)
  BY SecretStays DEF TokensGone, SecretsGone
<1> QED
  BY <1>1, <1>2, <1>3, <1>4 DEF TokensGone

(* The authorization rule leaves no header,                                *)
LEMMA AfterAuthHeader ==
  ASSUME NEW s \in Seq(Lexemes), Lexed(s)
  PROVE  LET t == Rewrite(AuthHeader, s)
         IN  t \in Seq(Lexemes) /\ Lexed(t) /\ HeadersGone(t)
<1> DEFINE match == [i \in DOMAIN s |-> AuthHeader(s, i)]
           t == Rewriting(match, s)[Len(s)].out
<1>1. {"AUTH", "at", "ip6"} \subseteq Lexemes
  BY DEF Lexemes, Placeholders, Marks, Words
<1>2. \A i \in 1..Len(s) : match[i] = AuthHeader(s, i)
  OBVIOUS
<1>3. t = Rewrite(AuthHeader, s)
  BY DEF Rewrite
<1> HIDE DEF match
<1>4. \A i \in 1..Len(s) : Fits(match[i], Lexemes) /\ MasksOnly(match[i], s, i)
  BY <1>1, <1>2, AuthHeaderFits, AuthHeaderMasks
<1>5. /\ t \in Seq(Lexemes) /\ Lexed(t)
      /\ \E stops, at : MaskingPass(match, s, t, stops, at)
  BY <1>4, RewritingMasks
<1>6. PICK stops, at : MaskingPass(match, s, t, stops, at)
  BY <1>5
<1> HIDE DEF t
<1>7. HeadersGone(t)
  BY <1>2, <1>6, AuthStays, AuthHeaderLeaves DEF HeadersGone
<1> QED
  BY <1>3, <1>5, <1>7

(* the bearer rule none and no opaque token behind the scheme word,        *)
LEMMA AfterBearerToken ==
  ASSUME NEW s \in Seq(Lexemes), Lexed(s), HeadersGone(s)
  PROVE  LET t == Rewrite(BearerToken, s)
         IN  t \in Seq(Lexemes) /\ Lexed(t) /\ HeadersGone(t) /\ BearersGone(t)
<1> DEFINE match == [i \in DOMAIN s |-> BearerToken(s, i)]
           t == Rewriting(match, s)[Len(s)].out
<1>1. {"TOKEN"} \subseteq Lexemes
  BY DEF Lexemes, Placeholders, Marks, Words
<1>2. \A i \in 1..Len(s) : match[i] = BearerToken(s, i)
  OBVIOUS
<1>3. t = Rewrite(BearerToken, s)
  BY DEF Rewrite
<1> HIDE DEF match
<1>4. \A i \in 1..Len(s) : Fits(match[i], Lexemes) /\ MasksOnly(match[i], s, i)
  BY <1>1, <1>2, BearerTokenFits, BearerTokenMasks
<1>5. /\ t \in Seq(Lexemes) /\ Lexed(t)
      /\ \E stops, at : MaskingPass(match, s, t, stops, at)
  BY <1>4, RewritingMasks
<1>6. PICK stops, at : MaskingPass(match, s, t, stops, at)
  BY <1>5
<1> HIDE DEF t
<1>7. HeadersGone(t)
  BY <1>6, AuthStays DEF HeadersGone
<1>8. BearersGone(t)
  BY <1>2, <1>6, BearerStays, BearerTokenMasks DEF BearersGone
<1> QED
  BY <1>3, <1>5, <1>7, <1>8

(* nor does the one over JWTs bring one back,                              *)
LEMMA AfterJwt ==
  ASSUME NEW s \in Seq(Lexemes), Lexed(s), HeadersGone(s), BearersGone(s)
  PROVE  LET t == Rewrite(Jwt, s)
         IN  t \in Seq(Lexemes) /\ Lexed(t) /\ HeadersGone(t) /\ BearersGone(t)
<1> DEFINE match == [i \in DOMAIN s |-> Jwt(s, i)]
           t == Rewriting(match, s)[Len(s)].out
<1>1. {"TOKEN"} \subseteq Lexemes
  BY DEF Lexemes, Placeholders, Marks, Words
<1>2. \A i \in 1..Len(s) : match[i] = Jwt(s, i)
  OBVIOUS
<1>3. t = Rewrite(Jwt, s)
  BY DEF Rewrite
<1> HIDE DEF match
<1>4. \A i \in 1..Len(s) : Fits(match[i], Lexemes) /\ MasksOnly(match[i], s, i)
  BY <1>1, <1>2, JwtFits, JwtMasksOnly
<1>5. /\ t \in Seq(Lexemes) /\ Lexed(t)
      /\ \E stops, at : MaskingPass(match, s, t, stops, at)
  BY <1>4, RewritingMasks
<1>6. PICK stops, at : MaskingPass(match, s, t, stops, at)
  BY <1>5
<1> HIDE DEF t
<1>7. HeadersGone(t)
  BY <1>6, AuthStays DEF HeadersGone
<1>8. BearersGone(t)
  BY <1>6, BearerStays DEF BearersGone
<1> QED
  BY <1>3, <1>5, <1>7, <1>8

(* nor the one over keys, which leaves none at a boundary,                 *)
LEMMA AfterProviderKey ==
  ASSUME NEW s \in Seq(Lexemes), Lexed(s), HeadersGone(s), BearersGone(s)
  PROVE  LET t == Rewrite(ProviderKey, s)
         IN  t \in Seq(Lexemes) /\ Lexed(t) /\ HeadersGone(t) /\ BearersGone(t) /\ KeysGone(t)
<1> DEFINE match == [i \in DOMAIN s |-> ProviderKey(s, i)]
           t == Rewriting(match, s)[Len(s)].out
<1>1. {"TOKEN"} \subseteq Lexemes
  BY DEF Lexemes, Placeholders, Marks, Words
<1>2. \A i \in 1..Len(s) : match[i] = ProviderKey(s, i)
  OBVIOUS
<1>3. t = Rewrite(ProviderKey, s)
  BY DEF Rewrite
<1> HIDE DEF match
<1>4. \A i \in 1..Len(s) : Fits(match[i], Lexemes) /\ MasksOnly(match[i], s, i)
  BY <1>1, <1>2, ProviderKeyFits, ProviderKeyMasks
<1>5. /\ t \in Seq(Lexemes) /\ Lexed(t)
      /\ \E stops, at : MaskingPass(match, s, t, stops, at)
  BY <1>4, RewritingMasks
<1>6. PICK stops, at : MaskingPass(match, s, t, stops, at)
  BY <1>5
<1> HIDE DEF t
<1>7. HeadersGone(t)
  BY <1>6, AuthStays DEF HeadersGone
<1>8. BearersGone(t)
  BY <1>6, BearerStays DEF BearersGone
<1>9. KeysGone(t)
  BY <1>2, <1>6, ShapeStays, ProviderKeyMasks DEF KeysGone
<1> QED
  BY <1>3, <1>5, <1>7, <1>8, <1>9

(* nor the one over secrets, which leaves none of their values.            *)
LEMMA AfterSecret ==
  ASSUME NEW s \in Seq(Lexemes), Lexed(s), HeadersGone(s), BearersGone(s), KeysGone(s)
  PROVE  LET t == Rewrite(Secret, s)
         IN  t \in Seq(Lexemes) /\ Lexed(t) /\ HeadersGone(t) /\ BearersGone(t) /\ KeysGone(t) /\ TokensGone(t)
<1> DEFINE match == [i \in DOMAIN s |-> Secret(s, i)]
           t == Rewriting(match, s)[Len(s)].out
<1>1. {"TOKEN"} \subseteq Lexemes
  BY DEF Lexemes, Placeholders, Marks, Words
<1>2. \A i \in 1..Len(s) : match[i] = Secret(s, i)
  OBVIOUS
<1>3. t = Rewrite(Secret, s)
  BY DEF Rewrite
<1> HIDE DEF match
<1>4. \A i \in 1..Len(s) : Fits(match[i], Lexemes) /\ MasksOnly(match[i], s, i)
  BY <1>1, <1>2, SecretFits, SecretMasks
<1>5. /\ t \in Seq(Lexemes) /\ Lexed(t)
      /\ \E stops, at : MaskingPass(match, s, t, stops, at)
  BY <1>4, RewritingMasks
<1>6. PICK stops, at : MaskingPass(match, s, t, stops, at)
  BY <1>5
<1> HIDE DEF t
<1>7. HeadersGone(t)
  BY <1>6, AuthStays DEF HeadersGone
<1>8. BearersGone(t)
  BY <1>6, BearerStays DEF BearersGone
<1>9. KeysGone(t)
  BY <1>6, ShapeStays DEF KeysGone
<1>10. \A j \in 1..Len(s) : match[j].end = j => SecretDone(s, j)
  BY <1>2, SecretLeaves
<1>11. SecretsGone(t)
  BY <1>2, <1>6, <1>10, SecretStays DEF SecretsGone
<1>12. TokensGone(t)
  BY <1>7, <1>8, <1>9, <1>11 DEF TokensGone
<1> QED
  BY <1>3, <1>5, <1>7, <1>8, <1>9, <1>10, <1>11, <1>12

(* No later rule brings a token back: not the one over addresses,          *)
LEMMA AfterEmail ==
  ASSUME NEW s \in Seq(Lexemes), Lexed(s), TokensGone(s)
  PROVE  LET t == Rewrite(Email, s)
         IN  t \in Seq(Lexemes) /\ Lexed(t) /\ TokensGone(t)
<1> DEFINE match == [i \in DOMAIN s |-> Email(s, i)]
           t == Rewriting(match, s)[Len(s)].out
<1>1. {"EMAIL"} \subseteq Lexemes
  BY DEF Lexemes, Placeholders, Marks, Words
<1>2. \A i \in 1..Len(s) : match[i] = Email(s, i)
  OBVIOUS
<1>3. t = Rewrite(Email, s)
  BY DEF Rewrite
<1> HIDE DEF match
<1>4. \A i \in 1..Len(s) : Fits(match[i], Lexemes) /\ MasksOnly(match[i], s, i)
  BY <1>1, <1>2, EmailFits, EmailMasksOnly
<1>5. /\ t \in Seq(Lexemes) /\ Lexed(t)
      /\ \E stops, at : MaskingPass(match, s, t, stops, at)
  BY <1>4, RewritingMasks
<1>6. PICK stops, at : MaskingPass(match, s, t, stops, at)
  BY <1>5
<1> HIDE DEF t
<1>7. \A j \in 1..Len(s) : match[j].end # j => s[j] # "pass" \/ match[j].out[1] # "pass"
  BY <1>2, EmailLeaves
<1>8. TokensGone(t)
  BY <1>6, <1>7, TokensStay
<1> QED
  BY <1>3, <1>5, <1>7, <1>8

(* not the one over IPv6 addresses,                                        *)
LEMMA AfterIPv6 ==
  ASSUME NEW s \in Seq(Lexemes), Lexed(s), TokensGone(s)
  PROVE  LET t == Rewrite(IPv6, s)
         IN  t \in Seq(Lexemes) /\ Lexed(t) /\ TokensGone(t)
<1> DEFINE match == [i \in DOMAIN s |-> IPv6(s, i)]
           t == Rewriting(match, s)[Len(s)].out
<1>1. {"IP"} \subseteq Lexemes
  BY DEF Lexemes, Placeholders, Marks, Words
<1>2. \A i \in 1..Len(s) : match[i] = IPv6(s, i)
  OBVIOUS
<1>3. t = Rewrite(IPv6, s)
  BY DEF Rewrite
<1> HIDE DEF match
<1>4. \A i \in 1..Len(s) : Fits(match[i], Lexemes) /\ MasksOnly(match[i], s, i)
  BY <1>1, <1>2, IPv6Fits, IPv6MasksOnly
<1>5. /\ t \in Seq(Lexemes) /\ Lexed(t)
      /\ \E stops, at : MaskingPass(match, s, t, stops, at)
  BY <1>4, RewritingMasks
<1>6. PICK stops, at : MaskingPass(match, s, t, stops, at)
  BY <1>5
<1> HIDE DEF t
<1>7. \A j \in 1..Len(s) : match[j].end # j => s[j] # "pass" \/ match[j].out[1] # "pass"
  BY <1>2, IPv6Leaves
<1>8. TokensGone(t)
  BY <1>6, <1>7, TokensStay
<1> QED
  BY <1>3, <1>5, <1>7, <1>8

(* not the one over IPv4 addresses, which leaves none at a boundary,       *)
LEMMA AfterIPv4 ==
  ASSUME NEW s \in Seq(Lexemes), Lexed(s), TokensGone(s)
  PROVE  LET t == Rewrite(IPv4, s)
         IN  t \in Seq(Lexemes) /\ Lexed(t) /\ TokensGone(t) /\ AddressesGone(t)
<1> DEFINE match == [i \in DOMAIN s |-> IPv4(s, i)]
           t == Rewriting(match, s)[Len(s)].out
<1>1. {"IP"} \subseteq Lexemes
  BY DEF Lexemes, Placeholders, Marks, Words
<1>2. \A i \in 1..Len(s) : match[i] = IPv4(s, i)
  OBVIOUS
<1>3. t = Rewrite(IPv4, s)
  BY DEF Rewrite
<1> HIDE DEF match
<1>4. \A i \in 1..Len(s) : Fits(match[i], Lexemes) /\ MasksOnly(match[i], s, i)
  BY <1>1, <1>2, IPv4Fits, IPv4Masks
<1>5. /\ t \in Seq(Lexemes) /\ Lexed(t)
      /\ \E stops, at : MaskingPass(match, s, t, stops, at)
  BY <1>4, RewritingMasks
<1>6. PICK stops, at : MaskingPass(match, s, t, stops, at)
  BY <1>5
<1> HIDE DEF t
<1>7. \A j \in 1..Len(s) : match[j].end # j => s[j] # "pass" \/ match[j].out[1] # "pass"
  BY <1>2, IPv4Leaves
<1>8. TokensGone(t)
  BY <1>6, <1>7, TokensStay
<1>9. AddressesGone(t)
  BY <1>2, <1>6, ShapeStays, IPv4Masks DEF AddressesGone
<1> QED
  BY <1>3, <1>5, <1>7, <1>8, <1>9

(* not the one over quoted names, which leaves none where all are short,   *)
LEMMA AfterNameQuoted ==
  ASSUME NEW s \in Seq(Lexemes), Lexed(s), TokensGone(s), AddressesGone(s), ShortNames(s)
  PROVE  LET t == Rewrite(NameQuoted, s)
         IN  t \in Seq(Lexemes) /\ Lexed(t) /\ TokensGone(t) /\ AddressesGone(t) /\ QuotedGone(t)
<1> DEFINE match == [i \in DOMAIN s |-> NameQuoted(s, i)]
           t == Rewriting(match, s)[Len(s)].out
<1>1. {"NAME", "quote"} \subseteq Lexemes
  BY DEF Lexemes, Placeholders, Marks, Words
<1>2. \A i \in 1..Len(s) : match[i] = NameQuoted(s, i)
  OBVIOUS
<1>3. t = Rewrite(NameQuoted, s)
  BY DEF Rewrite
<1> HIDE DEF match
<1>4. \A i \in 1..Len(s) : Fits(match[i], Lexemes) /\ MasksOnly(match[i], s, i)
  BY <1>1, <1>2, NameQuotedFits, NameQuotedMasks
<1>5. /\ t \in Seq(Lexemes) /\ Lexed(t)
      /\ \E stops, at : MaskingPass(match, s, t, stops, at)
  BY <1>4, RewritingMasks
<1>6. PICK stops, at : MaskingPass(match, s, t, stops, at)
  BY <1>5
<1> HIDE DEF t
<1>7. \A j \in 1..Len(s) : match[j].end # j => s[j] # "pass" \/ match[j].out[1] # "pass"
  BY <1>2, NameQuotedLeaves
<1>8. TokensGone(t)
  BY <1>6, <1>7, TokensStay
<1>9. AddressesGone(t)
  BY <1>6, ShapeStays DEF AddressesGone
<1>10. MasksNames(match, s)
  BY <1>2, NameQuotedLeaves DEF MasksNames, ShortNames
<1>11. QuotedGone(t)
  BY <1>6, <1>10, NameQuotedStays DEF QuotedGone
<1> QED
  BY <1>3, <1>5, <1>7, <1>8, <1>9, <1>10, <1>11

(* and not the one over bare names, which leaves neither.                  *)
LEMMA AfterNameBare ==
  ASSUME NEW s \in Seq(Lexemes), Lexed(s), TokensGone(s), AddressesGone(s), QuotedGone(s)
  PROVE  LET t == Rewrite(NameBare, s)
         IN  t \in Seq(Lexemes) /\ Lexed(t) /\ TokensGone(t) /\ AddressesGone(t) /\ QuotedGone(t) /\ BareGone(t)
<1> DEFINE match == [i \in DOMAIN s |-> NameBare(s, i)]
           t == Rewriting(match, s)[Len(s)].out
<1>1. {"NAME"} \subseteq Lexemes
  BY DEF Lexemes, Placeholders, Marks, Words
<1>2. \A i \in 1..Len(s) : match[i] = NameBare(s, i)
  OBVIOUS
<1>3. t = Rewrite(NameBare, s)
  BY DEF Rewrite
<1> HIDE DEF match
<1>4. \A i \in 1..Len(s) : Fits(match[i], Lexemes) /\ MasksOnly(match[i], s, i)
  BY <1>1, <1>2, NameBareFits, NameBareMasks
<1>5. /\ t \in Seq(Lexemes) /\ Lexed(t)
      /\ \E stops, at : MaskingPass(match, s, t, stops, at)
  BY <1>4, RewritingMasks
<1>6. PICK stops, at : MaskingPass(match, s, t, stops, at)
  BY <1>5
<1> HIDE DEF t
<1>7. \A j \in 1..Len(s) : match[j].end # j => s[j] # "pass" \/ match[j].out[1] # "pass"
  BY <1>2, NameBareLeaves
<1>8. TokensGone(t)
  BY <1>6, <1>7, TokensStay
<1>9. AddressesGone(t)
  BY <1>6, ShapeStays DEF AddressesGone
<1>10. MasksNames(match, s)
  BY <1>2 DEF MasksNames, QuotedGone
<1>11. QuotedGone(t)
  BY <1>6, <1>10, NameQuotedStays DEF QuotedGone
<1>12. BareGone(t)
  BY <1>2, <1>6, NameBareStays DEF BareGone
<1> QED
  BY <1>3, <1>5, <1>7, <1>8, <1>9, <1>10, <1>11, <1>12

-----------------------------------------------------------------------------
(***************************************************************************)
(* A text that is scrubbed.                                                *)
(***************************************************************************)

(* What a pass leaves.                                                     *)
Scrubbed(s) ==
    /\ s \in Seq(Masked) /\ Lexed(s)
    /\ TokensGone(s) /\ AddressesGone(s) /\ QuotedGone(s) /\ BareGone(s)

(* A match that puts out what it finds.                                    *)
SameMatch(m, s, i) == m.end = i \/ m.out = Kept(s, i, m.end)

(* Its lexemes.                                                            *)
LEMMA ScrubbedLexemes ==
  ASSUME NEW s, Scrubbed(s)
  PROVE  /\ s \in Seq(Lexemes)
         /\ \A i \in 1..Len(s) : s[i] \notin {"email", "jwt", "ip6", "full6"}
<1>1. s \in Seq(Masked)
  BY DEF Scrubbed
<1>2. Masked \subseteq Lexemes /\ Masked \cap {"email", "jwt", "ip6", "full6"} = {}
  BY DEF Masked
<1> HIDE DEF Masked
<1>3. \A i \in 1..Len(s) : s[i] \in Masked
  BY <1>1
<1>4. s \in Seq(Lexemes)
  BY <1>1, <1>2
<1> QED
  BY <1>2, <1>3, <1>4

(* A pass whose matches mask only, and put out what they find, changes     *)
(* nothing.                                                                *)
LEMMA SamePass ==
  ASSUME NEW s \in Seq(Lexemes), NEW match,
         \A i \in 1..Len(s) : /\ Fits(match[i], Lexemes) /\ MasksOnly(match[i], s, i)
                              /\ SameMatch(match[i], s, i)
  PROVE  Rewriting(match, s)[Len(s)].out = s
<1>1. PutsOut(match, s, Lexemes)
  <2> SUFFICES ASSUME NEW i \in 1..Len(s)
               PROVE  /\ match[i].end \in Int /\ match[i].out \in Seq(Lexemes)
                      /\ match[i].end = i => s[i] \in Lexemes
    BY DEF PutsOut
  <2>1. Fits(match[i], Lexemes)
    OBVIOUS
  <2> QED
    BY <2>1 DEF Fits
<1>2. Advances(match, s)
  <2> SUFFICES ASSUME NEW i \in 1..Len(s) PROVE match[i].end \in i..(Len(s) + 1)
    BY DEF Advances
  <2>1. MasksOnly(match[i], s, i)
    OBVIOUS
  <2>2. match[i].end = i \/ match[i].end \in (i + 1)..(Len(s) + 1)
    BY <2>1 DEF MasksOnly, Masks
  <2> QED
    BY <2>2
<1>3. \A i \in 1..Len(s) : match[i].end = i \/ match[i].out = Kept(s, i, match[i].end)
  BY DEF SameMatch
<1> QED
  BY <1>1, <1>2, <1>3, RewritingSame

(* A secret that is masked already is masked once more, by itself.         *)
LEMMA SecretSame ==
  ASSUME NEW s \in Seq(Lexemes), NEW i \in 1..Len(s), SecretDone(s, i)
  PROVE  SameMatch(Secret(s, i), s, i)
<1> DEFINE m == Secret(s, i)
           v == PassValue(s, i)
<1>1. SecretDoes(m, s, i, v) /\ Len(s) \in Nat
  BY SecretDoesIt
<1>2. m.end = i \/ Boundary(s, i)
  BY DEF Secret, NoMatch
<1>3. At(s, v) \in SecretValue /\ s[i] = "pass" /\ Boundary(s, i) =>
          At(s, v) = "TOKEN" /\ At(s, v + 1) \notin SecretValue
  BY DEF SecretDone
<1> HIDE DEF m, v
<1> SUFFICES ASSUME m.end # i PROVE m.out = Kept(s, i, m.end)
  BY DEF SameMatch, m
<1>4. /\ s[i] = "pass" /\ v \in (i + 2)..Len(s) /\ s[v] \in SecretValue
      /\ m.end = Skip(s, v, SecretValue)
      /\ m.out = Kept(s, i, v) \o <<"TOKEN">>
  BY <1>1 DEF SecretDoes, Match
<1>5. v \in 1..Len(s) /\ v + 1 \in v..(Len(s) + 1) /\ v \in i..(Len(s) + 1)
      /\ v + 1 \in i..(Len(s) + 1) /\ v \in 1..(Len(s) + 1)
  BY <1>1, <1>4
<1>6. At(s, v) = s[v]
  BY <1>5 DEF At
<1>7. s[v] = "TOKEN" /\ At(s, v + 1) \notin SecretValue
  BY <1>2, <1>3, <1>4, <1>6
<1>8. v + 1 <= Len(s) => s[v + 1] \notin SecretValue
  BY <1>1, <1>5, <1>7 DEF At
<1>9. \A x \in v..((v + 1) - 1) : s[x] \in SecretValue
  <2>1. \A x \in v..((v + 1) - 1) : x = v
    BY <1>5
  <2> QED
    BY <1>4, <2>1
<1>10. m.end = v + 1
  BY <1>4, <1>5, <1>8, <1>9, SkipEndsAt
<1>11. /\ Kept(s, i, v) \in Seq(Lexemes) /\ Len(Kept(s, i, v)) = v - i
       /\ \A x \in 1..(v - i) : Kept(s, i, v)[x] = s[i + x - 1]
  BY <1>5, KeptReads
<1>12. /\ Kept(s, i, v + 1) \in Seq(Lexemes) /\ Len(Kept(s, i, v + 1)) = (v + 1) - i
       /\ \A x \in 1..((v + 1) - i) : Kept(s, i, v + 1)[x] = s[i + x - 1]
  BY <1>5, KeptReads, ZenonT(30)
<1> DEFINE a == Kept(s, i, v)
           b == Kept(s, i, v + 1)
           tok == <<"TOKEN">>
<1>13. tok \in Seq(Lexemes) /\ Len(tok) = 1 /\ tok[1] = "TOKEN" /\ a \in Seq(Lexemes)
  BY <1>11 DEF Lexemes, Placeholders
<1>14. a \o tok \in Seq(Lexemes)
  BY <1>13
<1> HIDE DEF a, b, tok
<1>15. /\ Len(a \o tok) = Len(a) + Len(tok)
       /\ \A x \in 1..Len(a) : (a \o tok)[x] = a[x]
       /\ \A y \in 1..Len(tok) : (a \o tok)[Len(a) + y] = tok[y]
  <2>1. a \in Seq(Lexemes) /\ tok \in Seq(Lexemes)
    BY <1>13
  <2> HIDE DEF a, tok
  <2> QED
    BY <2>1, JoinReads
<1>16. Len(a \o tok) = Len(b) /\ Len(b) = (v - i) + 1 /\ v - i \in Nat /\ Len(a) = v - i
  BY <1>4, <1>11, <1>12, <1>13, <1>15 DEF a, b
<1>17. ASSUME NEW x \in 1..Len(b) PROVE (a \o tok)[x] = b[x]
  <2>1. b[x] = s[i + x - 1]
    BY <1>12, <1>16 DEF b
  <2>2. CASE x \in 1..(v - i)
    BY <1>11, <1>15, <1>16, <2>1, <2>2 DEF a
  <2>3. CASE x = (v - i) + 1
    <3>1. (a \o tok)[x] = "TOKEN"
      BY <1>13, <1>15, <1>16, <2>3
    <3>2. i + x - 1 = v
      BY <1>5, <2>3
    <3> QED
      BY <1>7, <2>1, <3>1, <3>2
  <2> QED
    BY <1>16, <2>2, <2>3
<1>18. a \o tok = b
  <2>1. b \in Seq(Lexemes)
    BY <1>12 DEF b
  <2> HIDE DEF a, b, tok
  <2> QED
    BY <1>14, <1>16, <1>17, <2>1, SeqEqual
<1> QED
  BY <1>4, <1>10, <1>18 DEF a, b, tok

(* The rules find nothing in a scrubbed text but masked secrets.           *)
LEMMA RulesAreIdle ==
  ASSUME NEW s, Scrubbed(s), NEW i \in 1..Len(s)
  PROVE  /\ SameMatch(AuthHeader(s, i), s, i)
         /\ SameMatch(BearerToken(s, i), s, i)
         /\ SameMatch(Jwt(s, i), s, i)
         /\ SameMatch(ProviderKey(s, i), s, i)
         /\ SameMatch(Secret(s, i), s, i)
         /\ SameMatch(Email(s, i), s, i)
         /\ SameMatch(IPv6(s, i), s, i)
         /\ SameMatch(IPv4(s, i), s, i)
         /\ SameMatch(NameQuoted(s, i), s, i)
         /\ SameMatch(NameBare(s, i), s, i)
<1>1. /\ s \in Seq(Lexemes) /\ s[i] \notin {"email", "jwt", "ip6", "full6"} /\ At(s, i) = s[i]
      /\ \A x \in 1..Len(s) : s[x] # "email"
  BY ScrubbedLexemes DEF At
<1>2. /\ TokensGone(s) /\ AddressesGone(s) /\ QuotedGone(s) /\ BareGone(s)
  BY DEF Scrubbed
<1>3. SameMatch(NoMatch(i), s, i)
  BY DEF NoMatch, SameMatch
<1>4. SameMatch(AuthHeader(s, i), s, i)
  <2>1. AuthDoes(AuthHeader(s, i), s, i, AuthValue(s, i))
    BY <1>1, AuthHeaderDoes
  <2>2. ~AuthFound(s, i)
    BY <1>2 DEF TokensGone, HeadersGone
  <2> QED
    BY <2>1, <2>2 DEF AuthDoes, AuthFound, SameMatch, At
<1>5. SameMatch(BearerToken(s, i), s, i)
  <2>1. ~BearerFound(s, i)
    BY <1>2 DEF TokensGone, BearersGone
  <2>2. BearerToken(s, i) = NoMatch(i)
    BY <2>1 DEF BearerToken, BearerFound
  <2> QED
    BY <1>3, <2>2
<1>6. SameMatch(Jwt(s, i), s, i)
  BY <1>1, <1>3 DEF Jwt
<1>7. SameMatch(ProviderKey(s, i), s, i)
  <2>1. ~(s[i] = "key" /\ Boundary(s, i))
    BY <1>2 DEF TokensGone, KeysGone
  <2> QED
    BY <1>1, <1>3, <2>1 DEF ProviderKey
<1>8. SameMatch(Secret(s, i), s, i)
  <2>1. SecretDone(s, i)
    BY <1>2 DEF TokensGone, SecretsGone
  <2> QED
    BY <1>1, <2>1, SecretSame
<1>9. SameMatch(Email(s, i), s, i)
  <2>1. At(s, Skip(s, i, LocalPart)) # "email"
    BY <1>1 DEF At
  <2> QED
    BY <1>3, <2>1 DEF Email
<1>10. SameMatch(IPv6(s, i), s, i)
  BY <1>1, <1>3 DEF IPv6
<1>11. SameMatch(IPv4(s, i), s, i)
  <2>1. ~(s[i] = "ip4" /\ Boundary(s, i))
    BY <1>2 DEF AddressesGone
  <2> QED
    BY <1>1, <1>3, <2>1 DEF IPv4
<1>12. SameMatch(NameQuoted(s, i), s, i)
  <2>1. NameQuotedDoes(NameQuoted(s, i), s, i, NameOpens(s, i))
    BY <1>1, NameQuotedDoesIt
  <2>2. ~QuotedFound(s, i, NameOpens(s, i))
    BY <1>2 DEF QuotedGone
  <2> QED
    BY <2>1, <2>2 DEF NameQuotedDoes, SameMatch
<1>13. SameMatch(NameBare(s, i), s, i)
  <2>1. ~BareFound(s, i)
    BY <1>2 DEF BareGone
  <2>2. NameBare(s, i) = NoMatch(i)
    BY <1>1, <2>1 DEF NameBare, BareFound
  <2> QED
    BY <1>3, <2>2
<1> QED
  BY <1>4, <1>5, <1>6, <1>7, <1>8, <1>9, <1>10, <1>11, <1>12, <1>13

(* So no pass changes a scrubbed text,                                     *)
LEMMA PassesAreIdle ==
  ASSUME NEW s, Scrubbed(s)
  PROVE  /\ Rewrite(AuthHeader, s) = s
         /\ Rewrite(BearerToken, s) = s
         /\ Rewrite(Jwt, s) = s
         /\ Rewrite(ProviderKey, s) = s
         /\ Rewrite(Secret, s) = s
         /\ Rewrite(Email, s) = s
         /\ Rewrite(IPv6, s) = s
         /\ Rewrite(IPv4, s) = s
         /\ Rewrite(NameQuoted, s) = s
         /\ Rewrite(NameBare, s) = s
<1>1. /\ s \in Seq(Lexemes) /\ Lexed(s)
      /\ {"AUTH", "TOKEN", "EMAIL", "IP", "NAME", "at", "ip6", "quote"} \subseteq Lexemes
  BY ScrubbedLexemes DEF Scrubbed, Lexemes, Placeholders, Marks, Words
<1>2. Rewrite(AuthHeader, s) = s
  <2> DEFINE match == [i \in DOMAIN s |-> AuthHeader(s, i)]
  <2>1. \A i \in 1..Len(s) : match[i] = AuthHeader(s, i)
    OBVIOUS
  <2>2. Rewrite(AuthHeader, s) = Rewriting(match, s)[Len(s)].out
    BY DEF Rewrite
  <2> HIDE DEF match
  <2>3. \A i \in 1..Len(s) : Fits(match[i], Lexemes) /\ MasksOnly(match[i], s, i)
    BY <1>1, <2>1, AuthHeaderFits, AuthHeaderMasks
  <2>4. \A i \in 1..Len(s) : SameMatch(match[i], s, i)
    BY <2>1, RulesAreIdle
  <2> QED
    BY <1>1, <2>2, <2>3, <2>4, SamePass
<1>3. Rewrite(BearerToken, s) = s
  <2> DEFINE match == [i \in DOMAIN s |-> BearerToken(s, i)]
  <2>1. \A i \in 1..Len(s) : match[i] = BearerToken(s, i)
    OBVIOUS
  <2>2. Rewrite(BearerToken, s) = Rewriting(match, s)[Len(s)].out
    BY DEF Rewrite
  <2> HIDE DEF match
  <2>3. \A i \in 1..Len(s) : Fits(match[i], Lexemes) /\ MasksOnly(match[i], s, i)
    BY <1>1, <2>1, BearerTokenFits, BearerTokenMasks
  <2>4. \A i \in 1..Len(s) : SameMatch(match[i], s, i)
    BY <2>1, RulesAreIdle
  <2> QED
    BY <1>1, <2>2, <2>3, <2>4, SamePass
<1>4. Rewrite(Jwt, s) = s
  <2> DEFINE match == [i \in DOMAIN s |-> Jwt(s, i)]
  <2>1. \A i \in 1..Len(s) : match[i] = Jwt(s, i)
    OBVIOUS
  <2>2. Rewrite(Jwt, s) = Rewriting(match, s)[Len(s)].out
    BY DEF Rewrite
  <2> HIDE DEF match
  <2>3. \A i \in 1..Len(s) : Fits(match[i], Lexemes) /\ MasksOnly(match[i], s, i)
    BY <1>1, <2>1, JwtFits, JwtMasksOnly
  <2>4. \A i \in 1..Len(s) : SameMatch(match[i], s, i)
    BY <2>1, RulesAreIdle
  <2> QED
    BY <1>1, <2>2, <2>3, <2>4, SamePass
<1>5. Rewrite(ProviderKey, s) = s
  <2> DEFINE match == [i \in DOMAIN s |-> ProviderKey(s, i)]
  <2>1. \A i \in 1..Len(s) : match[i] = ProviderKey(s, i)
    OBVIOUS
  <2>2. Rewrite(ProviderKey, s) = Rewriting(match, s)[Len(s)].out
    BY DEF Rewrite
  <2> HIDE DEF match
  <2>3. \A i \in 1..Len(s) : Fits(match[i], Lexemes) /\ MasksOnly(match[i], s, i)
    BY <1>1, <2>1, ProviderKeyFits, ProviderKeyMasks
  <2>4. \A i \in 1..Len(s) : SameMatch(match[i], s, i)
    BY <2>1, RulesAreIdle
  <2> QED
    BY <1>1, <2>2, <2>3, <2>4, SamePass
<1>6. Rewrite(Secret, s) = s
  <2> DEFINE match == [i \in DOMAIN s |-> Secret(s, i)]
  <2>1. \A i \in 1..Len(s) : match[i] = Secret(s, i)
    OBVIOUS
  <2>2. Rewrite(Secret, s) = Rewriting(match, s)[Len(s)].out
    BY DEF Rewrite
  <2> HIDE DEF match
  <2>3. \A i \in 1..Len(s) : Fits(match[i], Lexemes) /\ MasksOnly(match[i], s, i)
    BY <1>1, <2>1, SecretFits, SecretMasks
  <2>4. \A i \in 1..Len(s) : SameMatch(match[i], s, i)
    BY <2>1, RulesAreIdle
  <2> QED
    BY <1>1, <2>2, <2>3, <2>4, SamePass
<1>7. Rewrite(Email, s) = s
  <2> DEFINE match == [i \in DOMAIN s |-> Email(s, i)]
  <2>1. \A i \in 1..Len(s) : match[i] = Email(s, i)
    OBVIOUS
  <2>2. Rewrite(Email, s) = Rewriting(match, s)[Len(s)].out
    BY DEF Rewrite
  <2> HIDE DEF match
  <2>3. \A i \in 1..Len(s) : Fits(match[i], Lexemes) /\ MasksOnly(match[i], s, i)
    BY <1>1, <2>1, EmailFits, EmailMasksOnly
  <2>4. \A i \in 1..Len(s) : SameMatch(match[i], s, i)
    BY <2>1, RulesAreIdle
  <2> QED
    BY <1>1, <2>2, <2>3, <2>4, SamePass
<1>8. Rewrite(IPv6, s) = s
  <2> DEFINE match == [i \in DOMAIN s |-> IPv6(s, i)]
  <2>1. \A i \in 1..Len(s) : match[i] = IPv6(s, i)
    OBVIOUS
  <2>2. Rewrite(IPv6, s) = Rewriting(match, s)[Len(s)].out
    BY DEF Rewrite
  <2> HIDE DEF match
  <2>3. \A i \in 1..Len(s) : Fits(match[i], Lexemes) /\ MasksOnly(match[i], s, i)
    BY <1>1, <2>1, IPv6Fits, IPv6MasksOnly
  <2>4. \A i \in 1..Len(s) : SameMatch(match[i], s, i)
    BY <2>1, RulesAreIdle
  <2> QED
    BY <1>1, <2>2, <2>3, <2>4, SamePass
<1>9. Rewrite(IPv4, s) = s
  <2> DEFINE match == [i \in DOMAIN s |-> IPv4(s, i)]
  <2>1. \A i \in 1..Len(s) : match[i] = IPv4(s, i)
    OBVIOUS
  <2>2. Rewrite(IPv4, s) = Rewriting(match, s)[Len(s)].out
    BY DEF Rewrite
  <2> HIDE DEF match
  <2>3. \A i \in 1..Len(s) : Fits(match[i], Lexemes) /\ MasksOnly(match[i], s, i)
    BY <1>1, <2>1, IPv4Fits, IPv4Masks
  <2>4. \A i \in 1..Len(s) : SameMatch(match[i], s, i)
    BY <2>1, RulesAreIdle
  <2> QED
    BY <1>1, <2>2, <2>3, <2>4, SamePass
<1>10. Rewrite(NameQuoted, s) = s
  <2> DEFINE match == [i \in DOMAIN s |-> NameQuoted(s, i)]
  <2>1. \A i \in 1..Len(s) : match[i] = NameQuoted(s, i)
    OBVIOUS
  <2>2. Rewrite(NameQuoted, s) = Rewriting(match, s)[Len(s)].out
    BY DEF Rewrite
  <2> HIDE DEF match
  <2>3. \A i \in 1..Len(s) : Fits(match[i], Lexemes) /\ MasksOnly(match[i], s, i)
    BY <1>1, <2>1, NameQuotedFits, NameQuotedMasks
  <2>4. \A i \in 1..Len(s) : SameMatch(match[i], s, i)
    BY <2>1, RulesAreIdle
  <2> QED
    BY <1>1, <2>2, <2>3, <2>4, SamePass
<1>11. Rewrite(NameBare, s) = s
  <2> DEFINE match == [i \in DOMAIN s |-> NameBare(s, i)]
  <2>1. \A i \in 1..Len(s) : match[i] = NameBare(s, i)
    OBVIOUS
  <2>2. Rewrite(NameBare, s) = Rewriting(match, s)[Len(s)].out
    BY DEF Rewrite
  <2> HIDE DEF match
  <2>3. \A i \in 1..Len(s) : Fits(match[i], Lexemes) /\ MasksOnly(match[i], s, i)
    BY <1>1, <2>1, NameBareFits, NameBareMasks
  <2>4. \A i \in 1..Len(s) : SameMatch(match[i], s, i)
    BY <2>1, RulesAreIdle
  <2> QED
    BY <1>1, <2>2, <2>3, <2>4, SamePass
<1> QED
  BY <1>2, <1>3, <1>4, <1>5, <1>6, <1>7, <1>8, <1>9, <1>10, <1>11

(* and the whole of them does not.                                         *)
LEMMA ScrubbedStays ==
  ASSUME NEW s, Scrubbed(s)
  PROVE  ScrubString(s) = s
<1>1. RedactTokens(s) = s
  BY PassesAreIdle DEF RedactTokens
<1>2. RedactEmails(s) = s /\ RedactIPs(s) = s /\ RedactNames(s) = s
  BY PassesAreIdle DEF RedactEmails, RedactIPs, RedactNames
<1> QED
  BY <1>1, <1>2 DEF ScrubString

-----------------------------------------------------------------------------
(***************************************************************************)
(* What is stored and what is filed.                                       *)
(***************************************************************************)

(* Before anything is stored the invariant holds.                          *)
LEMMA TextStart == Init => TextIInv
<1> SUFFICES ASSUME Init PROVE TextIInv
  OBVIOUS
<1>1. <<>> \in Seq(Masked)
  OBVIOUS
<1> QED
  BY <1>1 DEF Init, TextIInv, Nothing, Published

(* What the sink stores of any report has been masked.                     *)
LEMMA StoreStep == TextIInv /\ Store => TextIInv'
<1> SUFFICES ASSUME TextIInv, Store PROVE TextIInv'
  OBVIOUS
<1>1. report \in Seq(Lexemes)
  <2>1. report \in Seq(Words \cup Marks)
    BY ReportsAssumption DEF TextIInv
  <2>2. Words \cup Marks \subseteq Lexemes
    BY DEF Lexemes
  <2> QED
    BY <2>1, <2>2
<1>2. Payload(report) \in Seq(Lexemes)
  <2>1. {"lbrace", "rbrace", "quote", "word", "sep", "comma", "bs", "n"} \subseteq Lexemes
    BY DEF Lexemes, Words, Marks
  <2> QED
    BY <1>1, <2>1, PayloadIs
<1>3. stored' \in Seq(Masked)
  BY <1>2, ScrubIs DEF Store
<1>4. report' \in Reports
  BY DEF Store, TextIInv
<1>5. ~Published'
  BY DEF Store, TextIInv, Published, Stored
<1> QED
  BY <1>3, <1>4, <1>5 DEF TextIInv

(* What the run files is an issue of what was stored.                      *)
LEMMA PublishStep == TextIInv /\ Publish => TextIInv'
<1> SUFFICES ASSUME TextIInv, Publish PROVE TextIInv'
  OBVIOUS
<1>1. UNCHANGED <<report, stored>> /\ Stored
  BY DEF Publish, Stored
<1>2. \E head \in TableHeads \cup {RawHead} :
         \/ issue' = FormatIssue(head, stored)
         \/ Parses(stored) /\ issue' = FormatIssue(head, Decoded(stored))
  BY DEF Publish
<1>3. report' \in Reports /\ stored' \in Seq(Masked) /\ Stored'
  BY <1>1 DEF TextIInv, Stored
<1>4. \E head \in TableHeads \cup {RawHead} :
         \/ issue' = FormatIssue(head, stored')
         \/ Parses(stored') /\ issue' = FormatIssue(head, Decoded(stored'))
  BY <1>1, <1>2
<1> QED
  BY <1>3, <1>4 DEF TextIInv

(* The invariant of the text on its way, of every clear text: what is      *)
(* stored has no lexeme of a shape, and the issue shows that or what it    *)
(* decodes to.                                                             *)
THEOREM TextInductive == Spec => []TextIInv
<1>1. TextIInv /\ UNCHANGED vars => TextIInv'
  BY DEF TextIInv, vars, Published, Stored
<1>2. TextIInv /\ [Next]_vars => TextIInv'
  BY <1>1, StoreStep, PublishStep DEF Next
<1> QED
  BY <1>2, TextStart, PTL DEF Spec

-----------------------------------------------------------------------------
(***************************************************************************)
(* The theorems.                                                           *)
(***************************************************************************)

(* Every issue is one of a text without shapes, behind some head.          *)
LEMMA FiledIs ==
  ASSUME TextIInv, Published
  PROVE  \E head \in Nat, text \in Seq(Masked) : issue = FormatIssue(head, text)
<1>1. PICK head \in TableHeads \cup {RawHead} :
         \/ issue = FormatIssue(head, stored)
         \/ Parses(stored) /\ issue = FormatIssue(head, Decoded(stored))
  BY DEF TextIInv
<1>2. head \in Nat /\ stored \in Seq(Masked)
  BY HeadsAssumption DEF TextIInv
<1>3. Parses(stored) => Decoded(stored) \in Seq(Masked)
  <2>1. "nl" \in Masked
    BY DEF Masked, Lexemes, Marks
  <2> QED
    BY <1>2, <2>1, DecodedIs
<1> QED
  BY <1>1, <1>2, <1>3

(* The runes of such an issue.                                             *)
LEMMA RunesAre ==
  LET X == Masked \cup {"head", "foot", "mark"}
  IN  /\ HasLayout(X)
      /\ \A text \in Seq(Masked) : text \in Seq(X)
      /\ {"email", "jwt", "ip6", "full6"} \cap X = {}
<1> DEFINE X == Masked \cup {"head", "foot", "mark"}
<1>1. HasLayout(X)
  BY DEF HasLayout, Masked, Lexemes, Marks
<1>2. Masked \subseteq X /\ {"email", "jwt", "ip6", "full6"} \cap X = {}
  BY DEF Masked
<1>3. \A text \in Seq(Masked) : text \in Seq(X)
  <2> HIDE DEF X
  <2> QED
    BY <1>2
<1> QED
  BY <1>1, <1>2, <1>3

(* No text, however many backticks it has and wherever it is cut, closes   *)
(* the fence of its issue (format.go:142-144).                             *)
THEOREM TheFenceHolds == Spec => []NothingClosesTheFence
<1>1. TextIInv => NothingClosesTheFence
  <2> DEFINE X == Masked \cup {"head", "foot", "mark"}
  <2> SUFFICES ASSUME TextIInv, Published PROVE NothingClosesTheFence
    BY DEF NothingClosesTheFence
  <2>1. PICK head \in Nat, text \in Seq(Masked) : issue = FormatIssue(head, text)
    BY FiledIs
  <2>2. HasLayout(X) /\ text \in Seq(X)
    BY RunesAre
  <2> HIDE DEF X
  <2> QED
    BY <2>1, <2>2, NothingElseCloses
<1> QED
  BY <1>1, TextInductive, PTL

(* No body is too long, and the fence and footer are there whenever they   *)
(* have room, for any limit, footer, marker and head (format.go:85-113).   *)
THEOREM TheTailIsKept == Spec => []TailSurvives
<1>1. TextIInv => TailSurvives
  <2> DEFINE X == Masked \cup {"head", "foot", "mark"}
  <2> SUFFICES ASSUME TextIInv, Published PROVE TailSurvives
    BY DEF TailSurvives
  <2>1. PICK head \in Nat, text \in Seq(Masked) : issue = FormatIssue(head, text)
    BY FiledIs
  <2>2. HasLayout(X) /\ text \in Seq(X)
    BY RunesAre
  <2> HIDE DEF X
  <2> QED
    BY <2>1, <2>2, TailIsKept
<1> QED
  BY <1>1, TextInductive, PTL

(* No email or IPv6 address and no JWT that a clear text has, written      *)
(* without escapes, is whole in its issue, whatever the other rules made   *)
(* of the payload (scrub.go:118-127, 149-157, 188-189).                    *)
THEOREM NoShapeIsShown == Spec => []ShapesAreMasked
<1>1. TextIInv => ShapesAreMasked
  <2> DEFINE X == Masked \cup {"head", "foot", "mark"}
  <2> SUFFICES ASSUME TextIInv, Published
               PROVE  {"email", "jwt", "ip6", "full6"}
                        \cap {issue.shown[i] : i \in DOMAIN issue.shown} = {}
    BY DEF ShapesAreMasked
  <2>1. PICK head \in Nat, text \in Seq(Masked) : issue = FormatIssue(head, text)
    BY FiledIs
  <2>2. HasLayout(X) /\ text \in Seq(X) /\ {"email", "jwt", "ip6", "full6"} \cap X = {}
    BY RunesAre
  <2> HIDE DEF X
  <2>3. issue.shown \in Seq(X)
    BY <2>1, <2>2, BodyIs
  <2>4. \A i \in DOMAIN issue.shown : issue.shown[i] \in X
    BY <2>3
  <2> QED
    BY <2>2, <2>4
<1> QED
  BY <1>1, TextInductive, PTL

(* What is stored is the report's payload, scrubbed once.                  *)
ScrubbedOnce == report \in Reports /\ (Stored => stored = ScrubString(Payload(report)))

(* It is in every state.                                                   *)
LEMMA StoredIsScrubbed == Spec => []ScrubbedOnce
<1>1. Init => ScrubbedOnce
  BY DEF Init, ScrubbedOnce, Stored
<1>2. ScrubbedOnce /\ [Next]_vars => ScrubbedOnce'
  <2> SUFFICES ASSUME ScrubbedOnce, [Next]_vars PROVE ScrubbedOnce'
    OBVIOUS
  <2>1. CASE Store
    BY <2>1 DEF Store, ScrubbedOnce, Stored
  <2>2. CASE Publish
    BY <2>2 DEF Publish, ScrubbedOnce, Stored
  <2>3. CASE UNCHANGED vars
    BY <2>3 DEF vars, ScrubbedOnce, Stored
  <2> QED
    BY <2>1, <2>2, <2>3 DEF Next
<1> QED
  BY <1>1, <1>2, PTL DEF Spec

=============================================================================
