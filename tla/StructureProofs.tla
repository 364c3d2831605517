--------------------------- MODULE StructureProofs ---------------------------
(***************************************************************************)
(* A scrubbed payload is a payload still, and scrubbing it again changes   *)
(* nothing: proofs about ReportText and Scrub, for reports of any length.  *)
(*                                                                         *)
(* The first rests on where the matches end: in the one string field, and  *)
(* never between a backslash and what it escapes.  The texts that          *)
(* StructureSurvives excludes are those of which that is not so.  The      *)
(* second rests on the quotes: in a payload none of them can open a name   *)
(* too long for its rule.                                                  *)
(***************************************************************************)
EXTENDS ReportTextProofs

-----------------------------------------------------------------------------
(***************************************************************************)
(* The payload, while it is scrubbed.                                      *)
(***************************************************************************)

(* Where the field ends, and what stands in it: no newline, no brace, and  *)
(* each backslash with what it escapes.                                    *)
FieldEnd(s) == Len(s) - 10

FieldAt(s, i) ==
    /\ s[i] \notin {"nl", "lbrace", "rbrace"}
    /\ s[i] = "bs" => i < FieldEnd(s) /\ s[i + 1] \in {"n", "quote"}
    /\ s[i] \in {"n", "quote"} => i > 7 /\ s[i - 1] = "bs"

(* A payload that is one yet.                                              *)
Framed(s) ==
    /\ s \in Seq(Lexemes) /\ Lexed(s) /\ Len(s) >= 16
    /\ \A i \in 1..6 : s[i] = Open[i]
    /\ \A i \in 1..10 : s[FieldEnd(s) + i] = Close[i]
    /\ \A i \in 7..FieldEnd(s) : FieldAt(s, i)

(* The matches of a pass stay in the field and tear no escape.             *)
InField(match, s) ==
    \A j \in 1..Len(s) : match[j].end # j =>
        /\ j \in 7..FieldEnd(s) /\ match[j].end <= FieldEnd(s) + 1
        /\ s[j] # "n" /\ s[match[j].end - 1] # "bs"

(* Where the field and its neighbours are.                                 *)
LEMMA FrameIs ==
  ASSUME NEW s, Framed(s)
  PROVE  /\ s \in Seq(Lexemes) /\ Lexed(s) /\ Len(s) \in Nat /\ Len(s) >= 16
         /\ FieldEnd(s) \in Nat /\ FieldEnd(s) >= 6 /\ FieldEnd(s) + 10 = Len(s) /\ FieldEnd(s) \in 6..Len(s)
         /\ \A i \in 7..FieldEnd(s) : FieldAt(s, i)
         /\ s[FieldEnd(s) + 1] = "quote" /\ s[FieldEnd(s) + 2] = "comma"
         /\ FieldEnd(s) + 1 \in 7..Len(s) /\ FieldEnd(s) + 2 \in 7..Len(s)
<1>1. /\ s \in Seq(Lexemes) /\ Lexed(s) /\ Len(s) >= 16
      /\ \A i \in 7..FieldEnd(s) : FieldAt(s, i)
      /\ \A i \in 1..10 : s[FieldEnd(s) + i] = Close[i]
  BY DEF Framed
<1>2. Len(s) \in Nat
  BY <1>1
<1>3. FieldEnd(s) \in Nat /\ FieldEnd(s) >= 6 /\ FieldEnd(s) + 10 = Len(s)
  BY <1>1, <1>2 DEF FieldEnd
<1>4. s[FieldEnd(s) + 1] = Close[1] /\ s[FieldEnd(s) + 2] = Close[2]
  BY <1>1
<1>5. Close[1] = "quote" /\ Close[2] = "comma"
  BY DEF Close
<1>6. FieldEnd(s) + 1 \in 7..Len(s) /\ FieldEnd(s) + 2 \in 7..Len(s) /\ FieldEnd(s) \in 6..Len(s)
  BY <1>2, <1>3
<1> QED
  BY <1>1, <1>2, <1>3, <1>4, <1>5, <1>6

(* Outside of it there is no word but the plain one.                       *)
LEMMA WordsInField ==
  ASSUME NEW s, Framed(s), NEW i \in 1..Len(s), s[i] \in (Words \cup {"n", "bs"}) \ {"word"}
  PROVE  i \in 7..FieldEnd(s)
<1>1. /\ \A k \in 1..6 : s[k] = Open[k]
      /\ \A k \in 1..10 : s[FieldEnd(s) + k] = Close[k]
  BY DEF Framed
<1>2. FieldEnd(s) \in Nat /\ FieldEnd(s) + 10 = Len(s)
  BY FrameIs
<1>3. /\ \A k \in 1..6 : Open[k] \notin (Words \cup {"n", "bs"}) \ {"word"}
      /\ \A k \in 1..10 : Close[k] \notin (Words \cup {"n", "bs"}) \ {"word"}
  BY DEF Open, Close, Words
<1>4. i \notin 1..6
  BY <1>1, <1>3
<1>5. \A k \in 1..10 : i # FieldEnd(s) + k
  BY <1>1, <1>3
<1>6. ASSUME i > FieldEnd(s) PROVE FALSE
  <2> DEFINE k == i - FieldEnd(s)
  <2>1. k \in 1..10 /\ i = FieldEnd(s) + k
    BY <1>2, <1>6
  <2> QED
    BY <1>5, <2>1
<1> QED
  BY <1>2, <1>4, <1>6

(* In the field there is no quote between a key and its value, and what is *)
(* between them goes no further than the closing one.                      *)
LEMMA GapInField ==
  ASSUME NEW s, Framed(s), NEW j \in 7..FieldEnd(s), s[j] # "bs", NEW v \in (j + 1)..(Len(s) + 1),
         \A x \in (j + 1)..(v - 1) : s[x] \in Gap
  PROVE  /\ \A x \in (j + 1)..(v - 1) : x <= FieldEnd(s) => s[x] \in {"sp", "sep"}
         /\ v <= FieldEnd(s) + 2
         /\ s[v] \notin {"comma"} => v <= FieldEnd(s) + 1
         /\ s[v] \notin {"comma", "quote"} => v <= FieldEnd(s)
         /\ v <= FieldEnd(s) => s[v] \notin {"n", "quote"}
<1>1. /\ FieldEnd(s) \in Nat /\ FieldEnd(s) >= 6 /\ FieldEnd(s) + 10 = Len(s)
      /\ \A i \in 7..FieldEnd(s) : FieldAt(s, i)
      /\ s[FieldEnd(s) + 1] = "quote" /\ s[FieldEnd(s) + 2] = "comma"
  BY FrameIs
<1>2. "comma" \notin Gap /\ "bs" \notin Gap /\ Gap = {"sp", "nl", "quote", "sep"}
  BY DEF Gap, Space
<1>3. v <= FieldEnd(s) + 2
  <2> SUFFICES ASSUME v > FieldEnd(s) + 2 PROVE FALSE
    BY <1>1
  <2>1. FieldEnd(s) + 2 \in (j + 1)..(v - 1)
    BY <1>1
  <2> QED
    BY <1>1, <1>2, <2>1
<1>4. s[v] # "comma" => v <= FieldEnd(s) + 1
  BY <1>1, <1>3
<1>5. s[v] \notin {"comma", "quote"} => v <= FieldEnd(s)
  BY <1>1, <1>4
<1>6. ASSUME NEW x \in (j + 1)..v, x <= FieldEnd(s) PROVE s[x] \notin {"n", "quote"}
  <2> SUFFICES ASSUME s[x] \in {"n", "quote"} PROVE FALSE
    OBVIOUS
  <2>1. x \in 7..FieldEnd(s) /\ x - 1 \in j..(v - 1) /\ (x - 1 = j \/ x - 1 \in (j + 1)..(v - 1))
    BY <1>1, <1>6
  <2>2. s[x - 1] = "bs"
    BY <1>1, <2>1 DEF FieldAt
  <2> QED
    BY <1>2, <2>1, <2>2
<1>7. ASSUME NEW x \in (j + 1)..(v - 1), x <= FieldEnd(s) PROVE s[x] \in {"sp", "sep"}
  <2>1. x \in 7..FieldEnd(s) /\ x \in (j + 1)..v
    BY <1>1, <1>7
  <2>2. s[x] # "nl"
    BY <1>1, <2>1 DEF FieldAt
  <2> QED
    BY <1>2, <1>6, <1>7, <2>1, <2>2
<1>8. v \in (j + 1)..v
  BY <1>1
<1> QED
  BY <1>3, <1>4, <1>5, <1>6, <1>7, <1>8

(* A stop without a match is copied.                                       *)
LEMMA StopCopies ==
  ASSUME NEW match, NEW s, NEW t, NEW stops, NEW at, MaskingPass(match, s, t, stops, at),
         NEW j \in stops, j <= Len(s), match[j].end = j
  PROVE  Copies(match, s, t, stops, at, j)
<1>1. j \in 1..(Len(s) + 1)
  BY PassSizes
<1>2. ASSUME NEW v, NEW tail, Replaces(match, s, t, stops, at, j, v, tail) PROVE FALSE
  <2>1. match[j].end \in (j + 1)..(Len(s) + 1)
    BY <1>2 DEF Replaces, Masks
  <2> QED
    BY <1>1, <2>1
<1> QED
  BY <1>2, StopDoes

(* Where nothing matches all is copied.                                    *)
LEMMA StretchCopied ==
  ASSUME NEW match, NEW s, NEW t, NEW stops, NEW at, MaskingPass(match, s, t, stops, at),
         NEW i \in stops, NEW n \in Nat, i + n <= Len(s) + 1,
         \A d \in 0..(n - 1) : match[i + d].end = i + d
  PROVE  /\ \A d \in 0..n : i + d \in stops /\ at[i + d] = at[i] + d
         /\ \A d \in 0..(n - 1) : t[at[i] + d + 1] = s[i + d]
<1> DEFINE Ok(d) == i + d \in stops /\ at[i + d] = at[i] + d
           Bad == {d \in 0..n : ~Ok(d)}
<1>1. Len(s) \in Nat /\ i \in 1..(Len(s) + 1) /\ at[i] \in Nat
  BY PassSizes
<1>2. ASSUME NEW d \in 0..(n - 1), Ok(d) PROVE Ok(d + 1) /\ t[at[i] + d + 1] = s[i + d]
  <2>1. i + d \in stops /\ i + d <= Len(s) /\ at[i + d] = at[i] + d
    BY <1>1, <1>2
  <2>2. match[i + d].end = i + d
    OBVIOUS
  <2>3. Copies(match, s, t, stops, at, i + d)
    BY <2>1, <2>2, StopCopies
  <2>4. (i + d) + 1 = i + (d + 1) /\ (at[i] + d) + 1 = at[i] + (d + 1)
    BY <1>1
  <2>5. (i + d) + 1 \in stops /\ at[(i + d) + 1] = at[i + d] + 1 /\ t[at[i + d] + 1] = s[i + d]
    BY <2>3 DEF Copies
  <2> QED
    BY <2>1, <2>4, <2>5
<1>3. 0 \notin Bad
  <2>1. i + 0 = i /\ at[i] + 0 = at[i]
    BY <1>1
  <2> QED
    BY <2>1
<1>4. \A d \in 1..n : d \in Bad => d - 1 \in Bad
  <2> SUFFICES ASSUME NEW d \in 1..n, d - 1 \notin Bad PROVE d \notin Bad
    OBVIOUS
  <2>1. d - 1 \in 0..(n - 1) /\ d - 1 \in 0..n /\ (d - 1) + 1 = d
    OBVIOUS
  <2>2. Ok(d - 1)
    BY <2>1
  <2> HIDE DEF Ok
  <2>3. Ok((d - 1) + 1)
    BY <1>2, <2>1, <2>2
  <2> QED
    BY <2>1, <2>3
<1>5. Bad \subseteq 0..n
  OBVIOUS
<1> HIDE DEF Bad
<1>6. Bad = {}
  BY <1>3, <1>4, <1>5, LoopKeeps
<1>7. \A d \in 0..n : Ok(d)
  <2> HIDE DEF Ok
  <2> QED
    BY <1>6 DEF Bad
<1>8. \A d \in 0..(n - 1) : t[at[i] + d + 1] = s[i + d]
  <2> HIDE DEF Ok
  <2>1. \A d \in 0..(n - 1) : d \in 0..n
    OBVIOUS
  <2> QED
    BY <1>2, <1>7, <2>1
<1> QED
  BY <1>7, <1>8

(* The field begins and ends at stops, and what is around it is copied.    *)
LEMMA FieldStands ==
  ASSUME NEW match, NEW s, NEW t, NEW stops, NEW at, MaskingPass(match, s, t, stops, at),
         Framed(s), InField(match, s)
  PROVE  /\ 7 \in stops /\ at[7] = 6
         /\ FieldEnd(s) + 1 \in stops /\ at[FieldEnd(s) + 1] = FieldEnd(t)
         /\ FieldEnd(t) \in Nat /\ FieldEnd(t) >= 6 /\ Len(t) >= 16
         /\ \A i \in 1..6 : t[i] = Open[i]
         /\ \A i \in 1..10 : t[FieldEnd(t) + i] = Close[i]
<1> DEFINE e == FieldEnd(s) + 1
<1>1. /\ Len(s) \in Nat /\ Len(t) \in Nat
      /\ \A j \in stops : j \in 1..(Len(s) + 1) /\ at[j] \in Nat
  BY PassSizes
<1>2. FieldEnd(s) \in Nat /\ FieldEnd(s) >= 6 /\ FieldEnd(s) + 10 = Len(s)
  BY FrameIs
<1>3. /\ \A i \in 1..6 : s[i] = Open[i]
      /\ \A i \in 1..10 : s[FieldEnd(s) + i] = Close[i]
  BY DEF Framed
<1>4. /\ 1 \in stops /\ at[1] = 0
      /\ \A j \in stops : j = Len(s) + 1 => at[j] = Len(t)
      /\ \A c \in 1..Len(s) : \E j \in stops : j <= c /\ c < After(match, j)
  BY DEF MaskingPass, Pass
<1>5. \A j \in 1..Len(s) : j < 7 \/ j >= e => match[j].end = j
  <2> SUFFICES ASSUME NEW j \in 1..Len(s), j < 7 \/ j >= e, match[j].end # j PROVE FALSE
    OBVIOUS
  <2>1. j \in 7..FieldEnd(s)
    BY DEF InField
  <2> QED
    BY <1>2, <2>1
<1>6. 7 \in stops /\ at[7] = 6 /\ \A d \in 0..5 : t[d + 1] = s[d + 1]
  <2>1. \A d \in 0..(6 - 1) : match[1 + d].end = 1 + d
    <3> SUFFICES ASSUME NEW d \in 0..(6 - 1) PROVE match[1 + d].end = 1 + d
      OBVIOUS
    <3>1. 1 + d \in 1..Len(s) /\ 1 + d < 7
      BY <1>2
    <3> QED
      BY <1>5, <3>1
  <2>2. 1 + 6 <= Len(s) + 1 /\ 6 \in Nat
    BY <1>2
  <2>3. /\ \A d \in 0..6 : 1 + d \in stops /\ at[1 + d] = at[1] + d
        /\ \A d \in 0..(6 - 1) : t[at[1] + d + 1] = s[1 + d]
    <3> DEFINE i == 1
               n == 6
    <3>1. i \in stops /\ n \in Nat /\ i + n <= Len(s) + 1
      BY <1>4, <2>2
    <3>2. \A d \in 0..(n - 1) : match[i + d].end = i + d
      BY <2>1
    <3> HIDE DEF i, n
    <3>3. /\ \A d \in 0..n : i + d \in stops /\ at[i + d] = at[i] + d
          /\ \A d \in 0..(n - 1) : t[at[i] + d + 1] = s[i + d]
      BY <3>1, <3>2, StretchCopied
    <3> QED
      BY <3>3 DEF i, n
  <2>4. 1 + 6 \in stops /\ at[1 + 6] = at[1] + 6
    BY <2>3
  <2>5. \A d \in 0..5 : t[d + 1] = s[d + 1]
    <3> SUFFICES ASSUME NEW d \in 0..5 PROVE t[d + 1] = s[d + 1]
      OBVIOUS
    <3>1. d \in 0..(6 - 1) /\ at[1] + d + 1 = d + 1 /\ 1 + d = d + 1
      BY <1>4
    <3> QED
      BY <2>3, <3>1
  <2> QED
    BY <1>4, <2>4, <2>5
<1>7. e \in stops
  <2>1. e \in 1..Len(s)
    BY <1>2
  <2>2. PICK j \in stops : j <= e /\ e < After(match, j)
    BY <1>4, <2>1
  <2>3. j \in 1..Len(s)
    BY <1>1, <2>1, <2>2
  <2>4. match[j].end = j
    <3> SUFFICES ASSUME match[j].end # j PROVE FALSE
      OBVIOUS
    <3>1. match[j].end <= e /\ After(match, j) = match[j].end
      BY <2>3 DEF InField, After
    <3>2. After(match, j) \in stops
      BY <2>2, <2>3, StopsInOrder
    <3> QED
      BY <1>1, <2>1, <2>2, <3>1, <3>2
  <2>5. After(match, j) = j + 1
    BY <2>4 DEF After
  <2>6. j = e
    BY <2>1, <2>2, <2>3, <2>5
  <2> QED
    BY <2>6
<1>8. /\ at[e] + 10 = Len(t)
      /\ \A d \in 0..9 : t[at[e] + d + 1] = s[e + d]
  <2>1. \A d \in 0..(10 - 1) : match[e + d].end = e + d
    <3> SUFFICES ASSUME NEW d \in 0..(10 - 1) PROVE match[e + d].end = e + d
      OBVIOUS
    <3>1. e + d \in 1..Len(s) /\ e + d >= e
      BY <1>2
    <3> HIDE DEF e
    <3> QED
      BY <1>5, <3>1
  <2>2. e + 10 <= Len(s) + 1 /\ 10 \in Nat /\ e + 10 = Len(s) + 1
    BY <1>2
  <2> HIDE DEF e
  <2>3. /\ \A d \in 0..10 : e + d \in stops /\ at[e + d] = at[e] + d
        /\ \A d \in 0..(10 - 1) : t[at[e] + d + 1] = s[e + d]
    BY <1>7, <2>1, <2>2, StretchCopied
  <2>4. e + 10 \in stops /\ at[e + 10] = at[e] + 10
    BY <2>3
  <2>5. \A d \in 0..9 : d \in 0..(10 - 1)
    OBVIOUS
  <2> QED
    BY <1>4, <2>2, <2>3, <2>4, <2>5
<1>9. at[e] \in Nat /\ at[e] = FieldEnd(t)
  <2> HIDE DEF e
  <2>1. at[e] \in Nat
    BY <1>1, <1>7
  <2> QED
    <3>1. at[e] + 10 = Len(t)
      BY <1>8
    <3>2. FieldEnd(t) = Len(t) - 10
      BY DEF FieldEnd
    <3> QED
      BY <2>1, <3>1, <3>2
<1>10. at[7] <= at[e]
  <2>1. 7 = e \/ 7 < e
    BY <1>2
  <2> HIDE DEF e
  <2>2. CASE 7 = e
    BY <1>6, <2>2
  <2>3. CASE 7 < e
    <3> DEFINE i == 7
    <3>1. i \in stops /\ e \in stops /\ i < e
      BY <1>6, <1>7, <2>3
    <3> HIDE DEF i
    <3>2. at[i] <= at[e]
      BY <3>1, StopsInOrder
    <3> QED
      BY <3>2 DEF i
  <2> QED
    BY <2>1, <2>2, <2>3
<1>11. FieldEnd(t) \in Nat /\ FieldEnd(t) >= 6 /\ Len(t) >= 16
  BY <1>1, <1>6, <1>8, <1>9, <1>10
<1>12. ASSUME NEW i \in 1..6 PROVE t[i] = Open[i]
  <2>1. i - 1 \in 0..5 /\ (i - 1) + 1 = i
    OBVIOUS
  <2>2. t[(i - 1) + 1] = s[(i - 1) + 1]
    BY <1>6, <2>1
  <2> QED
    BY <1>3, <2>1, <2>2
<1>13. ASSUME NEW i \in 1..10 PROVE t[FieldEnd(t) + i] = Close[i]
  <2>1. i - 1 \in 0..9 /\ at[e] + (i - 1) + 1 = FieldEnd(t) + i /\ e + (i - 1) = FieldEnd(s) + i
    BY <1>2, <1>9
  <2>2. t[at[e] + (i - 1) + 1] = s[e + (i - 1)]
    BY <1>8, <2>1
  <2> QED
    BY <1>3, <2>1, <2>2
<1> QED
  BY <1>6, <1>7, <1>9, <1>11, <1>12, <1>13

(* What stands in the field after a pass comes of a stop in it.            *)
LEMMA FieldComesFrom ==
  ASSUME NEW match, NEW s, NEW t, NEW stops, NEW at, MaskingPass(match, s, t, stops, at),
         Framed(s), InField(match, s), NEW y \in 7..FieldEnd(t)
  PROVE  \E i \in stops :
            /\ i \in 7..FieldEnd(s) /\ i <= Len(s) /\ at[i] \in Nat /\ at[i] >= 6
            /\ \/ Copies(match, s, t, stops, at, i) /\ y = at[i] + 1
               \/ \E v, tail, x : /\ Replaces(match, s, t, stops, at, i, v, tail)
                                  /\ x \in 1..((v - i) + Len(tail)) /\ y = at[i] + x
<1>1. /\ Len(s) \in Nat /\ Len(t) \in Nat
      /\ \A j \in stops : j \in 1..(Len(s) + 1) /\ at[j] \in Nat
  BY PassSizes
<1>2. /\ 7 \in stops /\ at[7] = 6 /\ FieldEnd(s) + 1 \in stops /\ at[FieldEnd(s) + 1] = FieldEnd(t)
      /\ FieldEnd(t) \in Nat
  BY FieldStands
<1>3. FieldEnd(s) \in Nat /\ FieldEnd(s) >= 6 /\ FieldEnd(s) + 10 = Len(s)
  BY FrameIs
<1>4. y \in 1..Len(t)
  BY <1>1, <1>2 DEF FieldEnd
<1>5. PICK i \in stops : i <= Len(s) /\ \E x \in 1..Len(Put(match, s, i)) : y = at[i] + x
  BY <1>4 DEF MaskingPass, Pass
<1>6. PICK x \in 1..Len(Put(match, s, i)) : y = at[i] + x
  BY <1>5
<1>7. /\ After(match, i) \in stops /\ at[After(match, i)] = at[i] + Len(Put(match, s, i))
      /\ Len(Put(match, s, i)) \in Nat
  BY <1>5, StopsInOrder
<1> DEFINE a == at[i]
           b == at[After(match, i)]
           e == FieldEnd(s) + 1
<1>8. a \in Nat /\ b \in Nat /\ y > a /\ y <= b /\ i \in Nat
  BY <1>1, <1>6, <1>7
<1>9. ~(i < 7)
  <2> SUFFICES ASSUME i < 7 PROVE FALSE
    OBVIOUS
  <2> DEFINE k == 7
  <2>1. k \in stops /\ i < k
    BY <1>2
  <2> HIDE DEF k
  <2>2. at[After(match, i)] <= at[k]
    BY <2>1, StopsInOrder
  <2>3. b <= 6
    BY <1>2, <2>2 DEF k
  <2> HIDE DEF b
  <2> QED
    BY <1>8, <2>3
<1>10. ~(i >= e)
  <2> SUFFICES ASSUME i >= e PROVE FALSE
    OBVIOUS
  <2>1. at[e] <= a
    <3>1. e = i \/ e < i
      BY <1>3, <1>8
    <3>2. at[e] \in Nat /\ e \in stops
      BY <1>1, <1>2
    <3> HIDE DEF e
    <3>3. CASE e < i
      BY <3>2, <3>3, StopsInOrder
    <3>4. CASE e = i
      BY <3>2, <3>4
    <3> QED
      BY <3>1, <3>3, <3>4
  <2>2. FieldEnd(t) <= a
    BY <1>2, <2>1
  <2> HIDE DEF a
  <2> QED
    BY <1>2, <1>8, <2>2
<1>11. i \in 7..FieldEnd(s)
  BY <1>3, <1>8, <1>9, <1>10
<1>12. at[i] >= 6
  <2> DEFINE k == 7
  <2>1. k \in stops /\ (k = i \/ k < i)
    BY <1>2, <1>11
  <2> HIDE DEF k
  <2>2. at[k] <= at[i]
    <3>1. CASE k = i
      BY <1>1, <2>1, <3>1
    <3>2. CASE k < i
      BY <2>1, <3>2, StopsInOrder
    <3> QED
      BY <2>1, <3>1, <3>2
  <2> QED
    BY <1>2, <2>2 DEF k
<1>13. CASE Copies(match, s, t, stops, at, i)
  <2>1. Len(Put(match, s, i)) = 1
    BY <1>13 DEF Copies, Put
  <2>2. y = at[i] + 1
    BY <1>6, <2>1
  <2> QED
    BY <1>1, <1>5, <1>11, <1>12, <1>13, <2>2
<1>14. ASSUME NEW v, NEW tail, Replaces(match, s, t, stops, at, i, v, tail)
       PROVE  x \in 1..((v - i) + Len(tail))
  <2>1. /\ at[match[i].end] = at[i] + (v - i) + Len(tail) /\ After(match, i) = match[i].end
    BY <1>14 DEF Replaces
  <2>2. v \in i..(match[i].end - 1) /\ match[i].end \in (i + 1)..(Len(s) + 1) /\ Len(tail) \in 1..2
    BY <1>14 DEF Replaces, Masks, TailOf
  <2>3. b = at[i] + (v - i) + Len(tail)
    BY <2>1
  <2> DEFINE l == Len(tail)
  <2>4. v \in Int /\ l \in Nat /\ x \in Nat /\ x >= 1 /\ y = a + x /\ b = a + (v - i) + l
    BY <1>6, <1>7, <1>8, <2>2, <2>3
  <2> HIDE DEF a, b, l
  <2>5. x \in 1..((v - i) + l)
    BY <1>8, <2>4
  <2> QED
    BY <2>5 DEF l
<1>15. CASE \E v, tail : Replaces(match, s, t, stops, at, i, v, tail)
  BY <1>1, <1>5, <1>6, <1>11, <1>12, <1>14, <1>15
<1> QED
  BY <1>5, <1>13, <1>15, StopDoes

(* A match in the field keeps no quote and puts none out.                  *)
LEMMA MatchInField ==
  ASSUME NEW match, NEW s, Framed(s), InField(match, s), s \in Seq(Lexemes),
         NEW i \in 1..Len(s), NEW v, NEW tail, Masks(match[i], s, i, v, tail)
  PROVE  /\ i \in 7..FieldEnd(s) /\ v \in i..FieldEnd(s)
         /\ match[i].end \in (v + 1)..(FieldEnd(s) + 1)
         /\ s[i] \in Words /\ s[match[i].end - 1] # "bs"
         /\ \A x \in (i + 1)..(v - 1) : s[x] \in {"sp", "sep"}
         /\ \A y \in 1..Len(tail) : tail[y] \in Placeholders \cup {"at", "ip6"}
         /\ Len(tail) \in 1..2
<1>1. /\ match[i].end \in (i + 1)..(Len(s) + 1) /\ v \in i..(match[i].end - 1)
      /\ TailOf(s, i, v, match[i].end, tail)
      /\ s[i] \in Starts /\ \A x \in (i + 1)..(v - 1) : s[x] \in Gap
  BY DEF Masks
<1>2. FieldEnd(s) \in Nat /\ FieldEnd(s) >= 6 /\ FieldEnd(s) + 10 = Len(s)
  BY FrameIs
<1>3. match[i].end # i
  BY <1>1
<1>4. /\ i \in 7..FieldEnd(s) /\ match[i].end <= FieldEnd(s) + 1 /\ s[i] # "n"
      /\ s[match[i].end - 1] # "bs"
  BY <1>3 DEF InField
<1>5. s[i] \in Words /\ s[i] # "bs" /\ s[i] # "quote"
  BY <1>1, <1>4 DEF Starts, Words
<1>6. v \in i..FieldEnd(s) /\ match[i].end \in (v + 1)..(FieldEnd(s) + 1)
  BY <1>1, <1>2, <1>4
<1>7. \A x \in (i + 1)..(v - 1) : s[x] \in {"sp", "sep"}
  <2>1. CASE v = i
    BY <1>4, <2>1
  <2>2. CASE v # i
    <3>1. v \in (i + 1)..(Len(s) + 1)
      BY <1>2, <1>4, <1>6, <2>2
    <3>2. \A x \in (i + 1)..(v - 1) : x <= FieldEnd(s) => s[x] \in {"sp", "sep"}
      BY <1>1, <1>4, <1>5, <3>1, GapInField
    <3>3. \A x \in (i + 1)..(v - 1) : x <= FieldEnd(s)
      BY <1>2, <1>4, <1>6
    <3> QED
      BY <3>2, <3>3
  <2> QED
    BY <2>1, <2>2
<1>8. v > i => s[v - 1] # "quote"
  <2> SUFFICES ASSUME v > i PROVE s[v - 1] # "quote"
    OBVIOUS
  <2>1. v - 1 = i \/ v - 1 \in (i + 1)..(v - 1)
    BY <1>4, <1>6
  <2> QED
    BY <1>5, <1>7, <2>1
<1>9. /\ Len(tail) \in 1..2 /\ tail[1] \in Placeholders
      /\ Len(tail) = 2 => tail[2] \in {"at", "ip6"}
  BY <1>1, <1>8 DEF TailOf
<1>10. \A y \in 1..Len(tail) : tail[y] \in Placeholders \cup {"at", "ip6"}
  <2> SUFFICES ASSUME NEW y \in 1..Len(tail) PROVE tail[y] \in Placeholders \cup {"at", "ip6"}
    OBVIOUS
  <2> DEFINE l == Len(tail)
  <2>1. l \in 1..2 /\ y \in 1..l
    BY <1>9
  <2> HIDE DEF l
  <2>2. y = 1 \/ (y = 2 /\ l = 2)
    BY <2>1
  <2> QED
    BY <1>9, <2>2 DEF l
<1> QED
  BY <1>4, <1>5, <1>6, <1>7, <1>9, <1>10

(* Every stop puts something out.                                          *)
LEMMA StopsApart ==
  ASSUME NEW match, NEW s, NEW t, NEW stops, NEW at, MaskingPass(match, s, t, stops, at),
         NEW i \in stops, NEW j \in stops, i < j
  PROVE  at[i] < at[j]
<1>1. Len(s) \in Nat /\ \A x \in stops : x \in 1..(Len(s) + 1) /\ at[x] \in Nat
  BY PassSizes
<1>2. i <= Len(s)
  BY <1>1
<1>3. After(match, i) \in stops /\ at[After(match, i)] <= at[j]
  BY <1>2, StopsInOrder
<1>4. at[i] < at[After(match, i)]
  <2>1. CASE Copies(match, s, t, stops, at, i)
    <3>1. at[After(match, i)] = at[i] + 1
      BY <2>1 DEF Copies
    <3> QED
      BY <1>1, <3>1
  <2>2. ASSUME NEW v, NEW tail, Replaces(match, s, t, stops, at, i, v, tail)
        PROVE  at[i] < at[After(match, i)]
    <3>1. /\ v \in i..(match[i].end - 1) /\ match[i].end \in (i + 1)..(Len(s) + 1)
          /\ Len(tail) \in 1..2
          /\ at[After(match, i)] = at[i] + (v - i) + Len(tail)
      BY <2>2 DEF Replaces, Masks, TailOf
    <3> DEFINE a == at[i]
               b == at[After(match, i)]
               l == Len(tail)
    <3>2. a \in Nat /\ v \in Int /\ v >= i /\ i \in Int /\ l \in 1..2 /\ b = a + (v - i) + l
      BY <1>1, <3>1
    <3> HIDE DEF a, b, l
    <3>3. a < b
      BY <3>2
    <3> QED
      BY <3>3 DEF a, b
  <2> QED
    BY <1>2, <2>1, <2>2, StopDoes
<1> QED
  BY <1>1, <1>3, <1>4

(* What puts out the same place is the same stop.                          *)
LEMMA SameStop ==
  ASSUME NEW match, NEW s, NEW t, NEW stops, NEW at, MaskingPass(match, s, t, stops, at),
         NEW i \in stops, NEW j \in stops, at[i] = at[j]
  PROVE  i = j
<1>1. i \in Int /\ j \in Int /\ at[i] \in Nat
  BY PassSizes
<1>2. ~(i < j) /\ ~(j < i)
  BY <1>1, StopsApart
<1> QED
  BY <1>1, <1>2

(* An escape is copied whole.                                              *)
LEMMA EscapeCopied ==
  ASSUME NEW match, NEW s, NEW t, NEW stops, NEW at, MaskingPass(match, s, t, stops, at),
         Framed(s), InField(match, s), NEW i \in stops, i \in 7..FieldEnd(s), s[i] = "bs",
         Copies(match, s, t, stops, at, i)
  PROVE  /\ t[at[i] + 2] = s[i + 1] /\ s[i + 1] \in {"n", "quote"}
         /\ i + 2 \in stops /\ at[i + 2] = at[i] + 2 /\ at[i] + 2 <= FieldEnd(t)
<1>1. /\ FieldEnd(s) \in Nat /\ FieldEnd(s) + 10 = Len(s) /\ Len(s) \in Nat
      /\ \A k \in 7..FieldEnd(s) : FieldAt(s, k)
  BY FrameIs
<1>2. i < FieldEnd(s) /\ s[i + 1] \in {"n", "quote"}
  BY <1>1 DEF FieldAt
<1>3. i + 1 \in stops /\ at[i + 1] = at[i] + 1 /\ at[i] \in Nat
  BY PassSizes DEF Copies
<1>4. i + 1 \in 1..Len(s) /\ i + 1 <= Len(s)
  BY <1>1, <1>2
<1>5. match[i + 1].end = i + 1
  <2> SUFFICES ASSUME match[i + 1].end # i + 1 PROVE FALSE
    OBVIOUS
  <2>1. s[i + 1] # "n"
    BY <1>4 DEF InField
  <2>2. MasksOnly(match[i + 1], s, i + 1)
    BY <1>4 DEF MaskingPass, Masking
  <2>3. s[i + 1] \in Starts
    BY <2>2 DEF MasksOnly, Masks
  <2> QED
    BY <1>2, <2>1, <2>3 DEF Starts, Words
<1>6. Copies(match, s, t, stops, at, i + 1)
  BY <1>3, <1>4, <1>5, StopCopies
<1>7. /\ (i + 1) + 1 \in stops /\ at[(i + 1) + 1] = at[i + 1] + 1
      /\ t[at[i + 1] + 1] = s[i + 1]
  BY <1>6 DEF Copies
<1>8. (i + 1) + 1 = i + 2 /\ at[i + 1] + 1 = at[i] + 2
  BY <1>1, <1>3
<1>9. FieldEnd(s) + 1 \in stops /\ at[FieldEnd(s) + 1] = FieldEnd(t) /\ FieldEnd(t) \in Nat
  BY FieldStands
<1>10. at[i + 2] <= at[FieldEnd(s) + 1]
  <2> DEFINE e == FieldEnd(s) + 1
             k == i + 2
  <2>1. k \in stops /\ e \in stops /\ (k < e \/ k = e) /\ at[k] \in Nat
    BY <1>1, <1>2, <1>3, <1>7, <1>8, <1>9
  <2> HIDE DEF e, k
  <2>2. at[k] <= at[e]
    <3>1. CASE k < e
      BY <2>1, <3>1, StopsInOrder
    <3>2. CASE k = e
      BY <2>1, <3>2
    <3> QED
      BY <2>1, <3>1, <3>2
  <2> QED
    BY <2>2 DEF e, k
<1> QED
  BY <1>2, <1>7, <1>8, <1>9, <1>10

(* What follows a backslash follows it still.                              *)
LEMMA EscapedCopied ==
  ASSUME NEW match, NEW s, NEW t, NEW stops, NEW at, MaskingPass(match, s, t, stops, at),
         Framed(s), InField(match, s), NEW i \in stops, i \in 7..FieldEnd(s),
         s[i] \in {"n", "quote"}
  PROVE  at[i] >= 7 /\ t[at[i]] = "bs"
<1>1. /\ FieldEnd(s) \in Nat /\ FieldEnd(s) + 10 = Len(s) /\ Len(s) \in Nat
      /\ \A k \in 7..FieldEnd(s) : FieldAt(s, k)
  BY FrameIs
<1>2. i > 7 /\ s[i - 1] = "bs"
  BY <1>1 DEF FieldAt
<1>3. \A x \in stops : x \in 1..(Len(s) + 1) /\ at[x] \in Nat
  BY PassSizes
<1>4. PICK p \in stops : p <= Len(s) /\ After(match, p) = i
  BY <1>2, PassSizes
<1>5. match[p].end = p
  <2> SUFFICES ASSUME match[p].end # p PROVE FALSE
    OBVIOUS
  <2>1. match[p].end = i
    BY <1>4 DEF After
  <2>2. p \in 1..Len(s)
    BY <1>3, <1>4
  <2>3. s[i - 1] # "bs"
    BY <2>1, <2>2 DEF InField
  <2> QED
    BY <1>2, <2>3
<1>6. Copies(match, s, t, stops, at, p)
  BY <1>4, <1>5, StopCopies
<1>7. After(match, p) = p + 1 /\ at[p + 1] = at[p] + 1 /\ t[at[p] + 1] = s[p]
  BY <1>6 DEF Copies
<1>8. p + 1 = i /\ i - 1 = p /\ p >= 7
  BY <1>2, <1>3, <1>4, <1>7
<1>9. at[i] = at[p] + 1 /\ t[at[i]] = "bs" /\ at[p] \in Nat
  BY <1>2, <1>3, <1>7, <1>8
<1>10. at[p] >= 6
  <2> DEFINE k == 7
  <2>1. k \in stops /\ (k < p \/ k = p) /\ at[k] = 6
    BY <1>3, <1>8, FieldStands
  <2> HIDE DEF k
  <2>2. at[k] <= at[p] \/ at[k] = at[p]
    BY <2>1, StopsInOrder
  <2> QED
    BY <1>9, <2>1, <2>2
<1> QED
  BY <1>9, <1>10

(* A payload whose matches stay in the field is one afterwards.            *)
LEMMA FramedStays ==
  ASSUME NEW match, NEW s, NEW t, NEW stops, NEW at, MaskingPass(match, s, t, stops, at),
         Framed(s), InField(match, s)
  PROVE  Framed(t)
<1>1. /\ FieldEnd(t) \in Nat /\ Len(t) >= 16
      /\ \A i \in 1..6 : t[i] = Open[i]
      /\ \A i \in 1..10 : t[FieldEnd(t) + i] = Close[i]
  BY FieldStands
<1>2. t \in Seq(Lexemes) /\ Lexed(t) /\ s \in Seq(Lexemes)
  BY LexedStays, PassSizes
<1>3. \A k \in 7..FieldEnd(s) : FieldAt(s, k)
  BY FrameIs
<1>4. ASSUME NEW y \in 7..FieldEnd(t) PROVE FieldAt(t, y)
  <2>1. PICK i \in stops :
            /\ i \in 7..FieldEnd(s) /\ i <= Len(s) /\ at[i] \in Nat /\ at[i] >= 6
            /\ \/ Copies(match, s, t, stops, at, i) /\ y = at[i] + 1
               \/ \E v, tail, x : /\ Replaces(match, s, t, stops, at, i, v, tail)
                                  /\ x \in 1..((v - i) + Len(tail)) /\ y = at[i] + x
    BY FieldComesFrom
  <2>2. CASE Copies(match, s, t, stops, at, i) /\ y = at[i] + 1
    <3>1. t[y] = s[i]
      BY <2>2 DEF Copies
    <3>2. s[i] \notin {"nl", "lbrace", "rbrace"}
      BY <1>3, <2>1 DEF FieldAt
    <3>3. s[i] = "bs" => y < FieldEnd(t) /\ t[y + 1] \in {"n", "quote"}
      <4> SUFFICES ASSUME s[i] = "bs" PROVE y < FieldEnd(t) /\ t[y + 1] \in {"n", "quote"}
        OBVIOUS
      <4>1. t[at[i] + 2] \in {"n", "quote"} /\ at[i] + 2 <= FieldEnd(t)
        BY <2>1, <2>2, EscapeCopied
      <4>2. y + 1 = at[i] + 2 /\ y \in Nat
        BY <2>1, <2>2
      <4>3. y + 1 <= FieldEnd(t) /\ t[y + 1] \in {"n", "quote"} /\ FieldEnd(t) \in Nat
        BY <1>1, <4>1, <4>2

      <4> QED
        BY <4>2, <4>3
    <3>4. s[i] \in {"n", "quote"} => y > 7 /\ t[y - 1] = "bs"
      <4> SUFFICES ASSUME s[i] \in {"n", "quote"} PROVE y > 7 /\ t[y - 1] = "bs"
        OBVIOUS
      <4>1. at[i] >= 7 /\ t[at[i]] = "bs"
        BY <2>1, EscapedCopied
      <4>2. y - 1 = at[i]
        BY <2>1, <2>2
      <4> QED
        BY <2>1, <2>2, <4>1, <4>2
    <3> QED
      BY <3>1, <3>2, <3>3, <3>4 DEF FieldAt
  <2>3. ASSUME NEW v, NEW tail, NEW x, Replaces(match, s, t, stops, at, i, v, tail),
               x \in 1..((v - i) + Len(tail)), y = at[i] + x
        PROVE  FieldAt(t, y)
    <3> DEFINE Plain == Words \cup {"sp", "sep"} \cup Placeholders \cup {"at", "ip6"}
    <3>1. i \in 1..Len(s) /\ Masks(match[i], s, i, v, tail) /\ i \in Nat
      <4>1. i \in 1..(Len(s) + 1) /\ Len(s) \in Nat
        BY PassSizes
      <4> QED
        BY <2>1, <2>3, <4>1 DEF Replaces
    <3>2. /\ v \in i..FieldEnd(s) /\ s[i] \in Words
          /\ \A z \in (i + 1)..(v - 1) : s[z] \in {"sp", "sep"}
          /\ \A z \in 1..Len(tail) : tail[z] \in Placeholders \cup {"at", "ip6"}
          /\ Len(tail) \in 1..2
      BY <1>2, <3>1, MatchInField
    <3>3. /\ \A z \in 1..(v - i) : t[at[i] + z] = s[i + z - 1]
          /\ \A z \in 1..Len(tail) : t[at[i] + (v - i) + z] = tail[z]
      BY <2>3 DEF Replaces
    <3>4. ASSUME x <= v - i PROVE t[y] \in Plain
      <4>1. x \in 1..(v - i)
        BY <2>3, <3>2, <3>4
      <4>2. t[y] = s[i + x - 1]
        BY <2>3, <3>3, <4>1
      <4>3. i + x - 1 = i \/ i + x - 1 \in (i + 1)..(v - 1)
        BY <3>1, <3>2, <4>1
      <4> QED
        BY <3>2, <4>2, <4>3
    <3>5. ASSUME ~(x <= v - i) PROVE t[y] \in Plain
      <4> DEFINE z == x - (v - i)
                 l == Len(tail)
                 a == at[i]
      <4>1. l \in 1..2 /\ x \in 1..((v - i) + l) /\ v \in Int /\ i \in Int /\ a \in Nat
        BY <2>1, <2>3, <3>1, <3>2
      <4> HIDE DEF l, a
      <4>2. z \in 1..l /\ a + (v - i) + z = a + x
        BY <3>5, <4>1
      <4> HIDE DEF z
      <4>3. t[y] = tail[z] /\ z \in 1..Len(tail)
        BY <2>3, <3>3, <4>2 DEF l, a
      <4> QED
        BY <3>2, <4>3
    <3>6. t[y] \in Plain
      <4> HIDE DEF Plain
      <4>1. CASE x <= v - i
        BY <3>4, <4>1
      <4> QED
        BY <3>4, <3>5
    <3>7. Plain \cap {"nl", "lbrace", "rbrace", "bs", "n", "quote"} = {}
      BY DEF Words, Placeholders
    <3> HIDE DEF Plain
    <3> QED
      BY <3>6, <3>7 DEF FieldAt
  <2> QED
    BY <2>1, <2>2, <2>3
<1> QED
  BY <1>1, <1>2, <1>4 DEF Framed

-----------------------------------------------------------------------------
(***************************************************************************)
(* What the frame rests on: no address behind an escape, and a comma       *)
(* behind every name.                                                      *)
(***************************************************************************)

(* No address stands behind the n of a newline.                            *)
NoMail(s) == \A i \in 2..Len(s) : s[i] = "email" => s[i - 1] # "n"

(* Behind a name that is assigned a comma follows in the field.            *)
UserEnds(s) ==
    \A i \in 7..FieldEnd(s) :
        s[i] = "user" /\ Boundary(s, i) /\ AfterSep(s, i + 1) # 0 =>
            \E c \in AfterSep(s, i + 1)..FieldEnd(s) : s[c] = "comma"

(* No match takes in a comma, or starts at such a key.                     *)
Commaless(match, s) ==
    \A j \in 1..Len(s) : match[j].end # j => \A x \in j..(match[j].end - 1) : s[x] # "comma"

Spares(match, s, key) == \A j \in 1..Len(s) : match[j].end # j => s[j] # key

(* Some stop looks at each position, and none behind a stop before it.     *)
LEMMA StopOver ==
  ASSUME NEW match, NEW s, NEW t, NEW stops, NEW at, MaskingPass(match, s, t, stops, at),
         NEW lo \in stops, NEW c \in lo..Len(s)
  PROVE  \E j \in stops : j \in lo..c /\ c < After(match, j) /\ j <= Len(s)
<1>1. Len(s) \in Nat /\ \A x \in stops : x \in 1..(Len(s) + 1) /\ at[x] \in Nat
  BY PassSizes
<1>2. c \in 1..Len(s)
  BY <1>1
<1>3. PICK j \in stops : j <= c /\ c < After(match, j)
  BY <1>2 DEF MaskingPass, Pass
<1>4. j <= Len(s) /\ j \in Nat
  BY <1>1, <1>2, <1>3
<1>5. ~(j < lo)
  <2> SUFFICES ASSUME j < lo PROVE FALSE
    OBVIOUS
  <2>1. After(match, j) <= lo
    BY <1>3, StopsInOrder
  <2>2. After(match, j) \in Nat
    <3>1. After(match, j) \in stops
      BY <1>3, <1>4, StopsInOrder
    <3> QED
      BY <1>1, <3>1
  <2> QED
    BY <1>1, <1>3, <2>1, <2>2
<1>6. j \in lo..c
  BY <1>1, <1>2, <1>3, <1>4, <1>5
<1> QED
  BY <1>3, <1>4, <1>6

(* A word that no match keeps is copied where it stands.                   *)
LEMMA WordWas ==
  ASSUME NEW match, NEW s, NEW t, NEW stops, NEW at, MaskingPass(match, s, t, stops, at),
         NEW k \in 1..Len(t), t[k] \in Starts \ {"ip6"}, t[k] \in {"auth", "pass", "user"} => Spares(match, s, t[k])
  PROVE  \E j \in stops : /\ j \in 1..Len(s) /\ j <= Len(s) /\ k = at[j] + 1 /\ s[j] = t[k]
                          /\ Copies(match, s, t, stops, at, j)
<1>1. Len(s) \in Nat /\ \A x \in stops : x \in 1..(Len(s) + 1) /\ at[x] \in Nat
  BY PassSizes
<1>2. PICK j \in stops :
               /\ j <= Len(s) /\ k = at[j] + 1 /\ s[j] = t[k]
               /\ \/ Copies(match, s, t, stops, at, j)
                  \/ \E v, tail : v > j /\ Replaces(match, s, t, stops, at, j, v, tail)
  BY WordsStand
<1>3. j \in 1..Len(s)
  BY <1>1, <1>2
<1>4. ASSUME NEW v, NEW tail, v > j, Replaces(match, s, t, stops, at, j, v, tail) PROVE FALSE
  <2>1. s[j] \in {"auth", "pass", "user"} /\ match[j].end \in (j + 1)..(Len(s) + 1)
    BY <1>4 DEF Replaces, Masks
  <2>2. match[j].end # j
    BY <1>1, <1>3, <2>1
  <2> QED
    BY <1>2, <1>3, <2>1, <2>2 DEF Spares
<1> QED
  BY <1>2, <1>3, <1>4

(* No address comes to stand behind such an n.                             *)
LEMMA NoMailStays ==
  ASSUME NEW match, NEW s, NEW t, NEW stops, NEW at, MaskingPass(match, s, t, stops, at),
         NoMail(s)
  PROVE  NoMail(t)
<1> SUFFICES ASSUME NEW k \in 2..Len(t), t[k] = "email", t[k - 1] = "n" PROVE FALSE
  BY DEF NoMail
<1>1. /\ Len(s) \in Nat /\ Len(t) \in Nat
      /\ \A x \in stops : x \in 1..(Len(s) + 1) /\ at[x] \in Nat
  BY PassSizes
<1>2. k \in 1..Len(t) /\ k - 1 \in 1..Len(t)
  BY <1>1
<1>3. t[k] \in Starts \ {"ip6"} /\ t[k] \notin {"auth", "pass", "user"}
      /\ t[k - 1] \in Starts \ {"ip6"} /\ t[k - 1] \notin {"auth", "pass", "user"}
  BY DEF Starts, Words
<1>4. PICK j \in stops : j \in 1..Len(s) /\ k = at[j] + 1 /\ s[j] = t[k]
  BY <1>2, <1>3, WordWas
<1>5. PICK i \in stops : /\ i \in 1..Len(s) /\ k - 1 = at[i] + 1 /\ s[i] = t[k - 1]
                         /\ Copies(match, s, t, stops, at, i)
  BY <1>2, <1>3, WordWas
<1>6. i + 1 \in stops /\ at[i + 1] = at[i] + 1
  BY <1>5 DEF Copies
<1>7. at[i + 1] = at[j]
  BY <1>1, <1>4, <1>5, <1>6
<1>8. i + 1 = j
  BY <1>6, <1>7, SameStop
<1>9. j \in 2..Len(s) /\ j - 1 = i
  BY <1>4, <1>5, <1>8
<1> QED
  BY <1>4, <1>5, <1>9 DEF NoMail

(* A key that is assigned was assigned the same.                           *)
LEMMA KeyWas ==
  ASSUME NEW match, NEW s, NEW t, NEW stops, NEW at, MaskingPass(match, s, t, stops, at),
         NEW k \in 1..Len(t), t[k] \in {"pass", "user"}, Spares(match, s, t[k]),
         Boundary(t, k), AfterSep(t, k + 1) # 0
  PROVE  \E j \in stops : /\ j \in 1..Len(s) /\ k = at[j] + 1 /\ s[j] = t[k] /\ Boundary(s, j)
                          /\ AfterSep(s, j + 1) # 0 /\ AfterSep(s, j + 1) \in stops
                          /\ AfterSep(s, j + 1) > j
                          /\ AfterSep(t, k + 1) = at[AfterSep(s, j + 1)] + 1
<1>1. t[k] \in Starts \ {"ip6"} /\ t[k] \in Words
  BY DEF Starts, Words
<1>2. PICK j \in stops : /\ j \in 1..Len(s) /\ j <= Len(s) /\ k = at[j] + 1 /\ s[j] = t[k]
                         /\ Copies(match, s, t, stops, at, j)
  BY <1>1, WordWas
<1>3. s \in Seq(Lexemes) /\ Len(s) \in Nat /\ \A x \in stops : x \in 1..(Len(s) + 1)
  BY PassSizes
<1>4. j + 1 \in stops /\ at[j + 1] + 1 = k + 1
  BY <1>2 DEF Copies
<1>5. Boundary(s, j)
  BY <1>1, <1>2, BoundaryWas
<1>6. \/ AfterSep(s, j + 1) = 0 /\ AfterSep(t, at[j + 1] + 1) = 0
      \/ /\ AfterSep(s, j + 1) \in stops
         /\ AfterSep(t, at[j + 1] + 1) = at[AfterSep(s, j + 1)] + 1
  BY <1>4, SepAlike
<1>7. AfterSep(s, j + 1) \in stops /\ AfterSep(t, k + 1) = at[AfterSep(s, j + 1)] + 1
  BY <1>4, <1>6
<1>8. AfterSep(s, j + 1) # 0 /\ AfterSep(s, j + 1) > j
  <2>1. j + 1 \in 1..(Len(s) + 1)
    BY <1>2, <1>3
  <2>2. AfterSep(s, j + 1) # 0
    BY <1>3, <1>7
  <2>3. AfterSep(s, j + 1) \in ((j + 1) + 1)..(Len(s) + 1)
    BY <1>3, <2>1, <2>2, GapAhead
  <2> QED
    BY <1>2, <1>3, <2>2, <2>3
<1> QED
  BY <1>2, <1>5, <1>7, <1>8

(* A comma that no match takes in is copied.                               *)
LEMMA CommaCopied ==
  ASSUME NEW match, NEW s, NEW t, NEW stops, NEW at, MaskingPass(match, s, t, stops, at),
         Commaless(match, s), NEW c \in 1..Len(s), s[c] = "comma"
  PROVE  c \in stops /\ Copies(match, s, t, stops, at, c)
<1>1. Len(s) \in Nat /\ \A x \in stops : x \in 1..(Len(s) + 1) /\ at[x] \in Nat
  BY PassSizes
<1>2. PICK j \in stops : j <= c /\ c < After(match, j)
  BY DEF MaskingPass, Pass
<1>3. j \in 1..Len(s) /\ j <= Len(s)
  BY <1>1, <1>2
<1>4. match[j].end = j
  <2> SUFFICES ASSUME match[j].end # j PROVE FALSE
    OBVIOUS
  <2>1. After(match, j) = match[j].end /\ After(match, j) \in Int
    <3>1. After(match, j) \in stops
      BY <1>3, StopsInOrder
    <3> QED
      BY <1>1, <3>1 DEF After
  <2>2. c \in j..(match[j].end - 1)
    BY <1>2, <1>3, <2>1
  <2> QED
    BY <1>3, <2>2 DEF Commaless
<1>5. j = c
  BY <1>2, <1>3, <1>4 DEF After
<1> QED
  BY <1>3, <1>4, <1>5, StopCopies

(* A name still ends where it did.                                         *)
LEMMA UserEndsStays ==
  ASSUME NEW match, NEW s, NEW t, NEW stops, NEW at, MaskingPass(match, s, t, stops, at),
         Framed(s), InField(match, s), Commaless(match, s), Spares(match, s, "user"), UserEnds(s)
  PROVE  UserEnds(t)
<1> SUFFICES ASSUME NEW k \in 7..FieldEnd(t), t[k] = "user", Boundary(t, k), AfterSep(t, k + 1) # 0
             PROVE  \E c \in AfterSep(t, k + 1)..FieldEnd(t) : t[c] = "comma"
  BY DEF UserEnds
<1>1. /\ Len(s) \in Nat /\ Len(t) \in Nat
      /\ \A x \in stops : x \in 1..(Len(s) + 1) /\ at[x] \in Nat
  BY PassSizes
<1>2. FieldEnd(s) \in Nat /\ FieldEnd(s) + 10 = Len(s)
  BY FrameIs
<1>3. FieldEnd(t) \in Nat /\ FieldEnd(s) + 1 \in stops /\ at[FieldEnd(s) + 1] = FieldEnd(t)
  BY FieldStands
<1>4. k \in 1..Len(t)
  BY <1>1, <1>3 DEF FieldEnd
<1>5. PICK j \in stops : /\ j \in 1..Len(s) /\ k = at[j] + 1 /\ s[j] = t[k] /\ Boundary(s, j)
                         /\ AfterSep(s, j + 1) # 0 /\ AfterSep(s, j + 1) \in stops
                         /\ AfterSep(s, j + 1) > j
                         /\ AfterSep(t, k + 1) = at[AfterSep(s, j + 1)] + 1
  BY <1>4, KeyWas
<1>6. j \in 7..FieldEnd(s)
  <2>1. s[j] \in (Words \cup {"n", "bs"}) \ {"word"}
    BY <1>5 DEF Words
  <2> QED
    BY <1>5, <2>1, WordsInField
<1>7. PICK c \in AfterSep(s, j + 1)..FieldEnd(s) : s[c] = "comma"
  BY <1>5, <1>6 DEF UserEnds
<1> DEFINE v == AfterSep(s, j + 1)
<1>8. v \in stops /\ v \in 1..(Len(s) + 1) /\ AfterSep(t, k + 1) = at[v] + 1 /\ at[v] \in Nat
  BY <1>1, <1>5
<1> HIDE DEF v
<1>9. c \in v..FieldEnd(s) /\ c \in 1..Len(s)
  BY <1>2, <1>7, <1>8 DEF v
<1>10. c \in stops /\ Copies(match, s, t, stops, at, c)
  BY <1>7, <1>9, CommaCopied
<1>11. c + 1 \in stops /\ at[c + 1] = at[c] + 1 /\ t[at[c] + 1] = "comma" /\ at[c] \in Nat
  BY <1>1, <1>7, <1>10 DEF Copies
<1>12. at[v] <= at[c]
  <2>1. v < c \/ v = c
    BY <1>8, <1>9
  <2>2. CASE v < c
    BY <1>8, <1>10, <2>2, StopsInOrder
  <2>3. CASE v = c
    BY <1>11, <2>3
  <2> QED
    BY <2>1, <2>2, <2>3
<1>13. at[c + 1] <= FieldEnd(t)
  <2> DEFINE e == FieldEnd(s) + 1
             d == c + 1
  <2>1. d \in stops /\ e \in stops /\ (d < e \/ d = e) /\ at[e] = FieldEnd(t)
    BY <1>2, <1>3, <1>9, <1>11
  <2> HIDE DEF e, d
  <2>2. ASSUME d < e PROVE at[d] <= FieldEnd(t)
    BY <2>1, <2>2, StopsInOrder
  <2>3. ASSUME d = e PROVE at[d] <= FieldEnd(t)
    BY <1>3, <2>1, <2>3
  <2>4. at[d] <= FieldEnd(t)
    BY <2>1, <2>2, <2>3
  <2> QED
    BY <2>4 DEF d
<1>14. at[c] + 1 \in (at[v] + 1)..FieldEnd(t)
  BY <1>3, <1>8, <1>11, <1>12, <1>13
<1> QED
  BY <1>8, <1>11, <1>14

-----------------------------------------------------------------------------
(***************************************************************************)
(* And no quote that a secret runs into.                                   *)
(***************************************************************************)

(* A secret does not end here: no comma, and no space but what the bearer  *)
(* rule takes with the scheme word.                                        *)
Through(s, k) == s[k] # "comma" /\ (s[k] = "sp" => BehindScheme(s, k))

(* Between a secret-named key that is assigned and a quote behind it there *)
(* is something that ends the secret.                                      *)
SecretsEnd(s) ==
    \A i, q \in 7..FieldEnd(s) :
        /\ s[i] = "pass" /\ Boundary(s, i) /\ AfterSep(s, i + 1) # 0
        /\ q >= AfterSep(s, i + 1) /\ s[q] = "bs" /\ s[q + 1] = "quote"
        => \E k \in AfterSep(s, i + 1)..(q - 1) : ~Through(s, k)

(* The matches of a pass take in nothing that ends one.                    *)
Quiet(match, s) ==
    \A j \in 1..Len(s) : match[j].end # j =>
        \E v, tail : /\ Masks(match[j], s, j, v, tail)
                     /\ \A x \in v..(match[j].end - 1) : Through(s, x)

(* What is put out for a match.                                            *)
PutIs(s, t, a, j, v, tail) ==
    /\ v > j => t[a + 1] = s[j] /\ s[j] \in {"auth", "pass", "user"}
    /\ v = j => t[a + 1] \in Placeholders
    /\ \A x \in (j + 1)..(v - 1) : t[a + 1 + (x - j)] = s[x] /\ s[x] \in Gap
    /\ \A x \in 1..((v - j) + Len(tail)) :
           t[a + x] \in Starts \cup Gap \cup Placeholders \cup {"at", "ip6"}

(* It is.                                                                  *)
LEMMA ReplacedIs ==
  ASSUME NEW match, NEW s, NEW t, NEW stops, NEW at, NEW j \in 1..Len(s), NEW v, NEW tail,
         Replaces(match, s, t, stops, at, j, v, tail), at[j] \in Nat
  PROVE  PutIs(s, t, at[j], j, v, tail)
<1>1. /\ match[j].end \in (j + 1)..(Len(s) + 1) /\ v \in j..(match[j].end - 1)
      /\ TailOf(s, j, v, match[j].end, tail)
      /\ s[j] \in Starts /\ \A x \in (j + 1)..(v - 1) : s[x] \in Gap
      /\ v > j => s[j] \in {"auth", "pass", "user"}
  BY DEF Replaces, Masks
<1>2. /\ \A x \in 1..(v - j) : t[at[j] + x] = s[j + x - 1]
      /\ \A y \in 1..Len(tail) : t[at[j] + (v - j) + y] = tail[y]
  BY DEF Replaces
<1>3. /\ Len(tail) \in 1..2 /\ tail[1] \in Placeholders
      /\ Len(tail) = 2 => tail[2] \in {"quote", "at", "ip6"}
  BY <1>1 DEF TailOf
<1> DEFINE a == at[j]
           l == Len(tail)
<1>4. a \in Nat /\ l \in 1..2 /\ v \in Int /\ j \in Int /\ v >= j
  BY <1>1, <1>3
<1> HIDE DEF a, l
<1>5. v > j => t[a + 1] = s[j]
  <2> SUFFICES ASSUME v > j PROVE t[a + 1] = s[j]
    OBVIOUS
  <2> DEFINE x == 1
  <2>1. x \in 1..(v - j) /\ j + x - 1 = j
    BY <1>4
  <2> HIDE DEF x
  <2>2. t[a + x] = s[j]
    BY <1>2, <2>1 DEF a
  <2> QED
    BY <2>2 DEF x
<1>6. v = j => t[a + 1] \in Placeholders
  <2> SUFFICES ASSUME v = j PROVE t[a + 1] \in Placeholders
    OBVIOUS
  <2> DEFINE y == 1
  <2>1. y \in 1..l /\ a + (v - j) + y = a + y
    BY <1>4
  <2> HIDE DEF y
  <2>2. t[a + y] = tail[y]
    BY <1>2, <2>1 DEF a, l
  <2> QED
    BY <1>3, <2>2 DEF y
<1>7. ASSUME NEW x \in (j + 1)..(v - 1) PROVE t[a + 1 + (x - j)] = s[x] /\ s[x] \in Gap
  <2> DEFINE z == x - j + 1
  <2>1. z \in 1..(v - j) /\ j + z - 1 = x /\ a + z = a + 1 + (x - j)
    BY <1>4
  <2> HIDE DEF z
  <2>2. t[a + z] = s[j + z - 1]
    BY <1>2, <2>1 DEF a
  <2> QED
    BY <1>1, <2>1, <2>2
<1>8. ASSUME NEW x \in 1..((v - j) + l)
      PROVE  t[a + x] \in Starts \cup Gap \cup Placeholders \cup {"at", "ip6"}
  <2>1. CASE x <= v - j
    <3>1. x \in 1..(v - j) /\ (j + x - 1 = j \/ j + x - 1 \in (j + 1)..(v - 1))
      BY <1>4, <2>1
    <3>2. t[a + x] = s[j + x - 1]
      BY <1>2, <3>1 DEF a
    <3>3. s[j + x - 1] \in Starts \cup Gap
      BY <1>1, <3>1
    <3> QED
      BY <3>2, <3>3
  <2>2. CASE ~(x <= v - j)
    <3> DEFINE y == x - (v - j)
    <3>1. y \in 1..l /\ a + (v - j) + y = a + x /\ (y = 1 \/ (y = 2 /\ l = 2))
      BY <1>4, <2>2
    <3> HIDE DEF y
    <3>2. t[a + x] = tail[y]
      BY <1>2, <3>1 DEF a, l
    <3>3. tail[y] \in Placeholders \cup {"quote", "at", "ip6"}
      BY <1>3, <3>1 DEF l
    <3> QED
      BY <3>2, <3>3 DEF Gap
  <2> QED
    BY <2>1, <2>2
<1> QED
  BY <1>1, <1>5, <1>6, <1>7, <1>8 DEF a, l, PutIs

(* Every backslash was one.                                                *)
LEMMA BackslashWas ==
  ASSUME NEW match, NEW s, NEW t, NEW stops, NEW at, MaskingPass(match, s, t, stops, at),
         Framed(s), InField(match, s), NEW y \in 7..FieldEnd(t), t[y] = "bs"
  PROVE  \E i \in stops : /\ i \in 7..FieldEnd(s) /\ y = at[i] + 1 /\ s[i] = "bs"
                          /\ Copies(match, s, t, stops, at, i)
<1>1. PICK i \in stops :
            /\ i \in 7..FieldEnd(s) /\ i <= Len(s) /\ at[i] \in Nat /\ at[i] >= 6
            /\ \/ Copies(match, s, t, stops, at, i) /\ y = at[i] + 1
               \/ \E v, tail, x : /\ Replaces(match, s, t, stops, at, i, v, tail)
                                  /\ x \in 1..((v - i) + Len(tail)) /\ y = at[i] + x
  BY FieldComesFrom
<1>2. ASSUME NEW v, NEW tail, NEW x, Replaces(match, s, t, stops, at, i, v, tail),
             x \in 1..((v - i) + Len(tail)), y = at[i] + x
      PROVE  FALSE
  <2>1. i \in 1..Len(s)
    BY <1>1, PassSizes
  <2>2. Replaces(match, s, t, stops, at, i, v, tail) /\ at[i] \in Nat
    BY <1>1, <1>2
  <2>3. PutIs(s, t, at[i], i, v, tail)
    BY <2>1, <2>2, ReplacedIs
  <2>4. t[y] \in Starts \cup Gap \cup Placeholders \cup {"at", "ip6"}
    BY <1>2, <2>3 DEF PutIs
  <2> QED
    BY <2>4 DEF Starts, Words, Gap, Space, Placeholders
<1>3. Copies(match, s, t, stops, at, i) /\ y = at[i] + 1
  BY <1>1, <1>2
<1> QED
  BY <1>1, <1>3 DEF Copies

(* Space behind the scheme word was behind it.                             *)
LEMMA SchemeWas ==
  ASSUME NEW match, NEW s, NEW t, NEW stops, NEW at, MaskingPass(match, s, t, stops, at),
         NEW j \in stops, j <= Len(s), BehindScheme(t, at[j] + 1)
  PROVE  BehindScheme(s, j)
<1>1. /\ Len(s) \in Nat /\ Len(t) \in Nat
      /\ \A x \in stops : x \in 1..(Len(s) + 1) /\ at[x] \in Nat
  BY PassSizes
<1>2. PICK b \in 1..((at[j] + 1) - 1) :
           t[b] = "bearer" /\ \A l \in (b + 1)..(at[j] + 1) : t[l] = "sp"
  BY DEF BehindScheme
<1>3. at[j] <= Len(t) /\ at[j] \in Nat /\ b <= at[j] /\ b \in 1..Len(t)
  <2>1. at[j] + 1 \in 1..(Len(t) + 1)
    BY StopSees
  <2> QED
    BY <1>1, <1>2, <2>1
<1>4. t[b] \in Starts \ {"ip6"} /\ t[b] \notin {"auth", "pass", "user"}
  BY <1>2 DEF Starts, Words
<1>5. PICK i \in stops : /\ i \in 1..Len(s) /\ b = at[i] + 1 /\ s[i] = t[b]
                         /\ Copies(match, s, t, stops, at, i)
  BY <1>3, <1>4, WordWas
<1>6. i + 1 \in stops /\ at[i + 1] = b
  BY <1>5 DEF Copies
<1>7. i < j
  <2>1. i # j /\ ~(j < i)
    <3>1. at[i] < at[j]
      BY <1>1, <1>3, <1>5
    <3>2. j < i => at[j] < at[i]
      BY StopsApart
    <3> QED
      BY <1>1, <3>1, <3>2
  <2> QED
    BY <1>1, <2>1
<1>8. ASSUME NEW x \in (i + 1)..j PROVE s[x] = "sp"
  <2>1. x \in (i + 1)..Len(s)
    BY <1>1, <1>5, <1>8
  <2>2. PICK p \in stops : p \in (i + 1)..x /\ x < After(match, p) /\ p <= Len(s)
    BY <1>6, <2>1, StopOver
  <2>3. b <= at[p] /\ at[p] <= at[j]
    <3> DEFINE k == i + 1
    <3>1. k \in stops /\ at[k] = b /\ (k < p \/ k = p) /\ (p < j \/ p = j)
      BY <1>1, <1>5, <1>6, <1>8, <2>2
    <3> HIDE DEF k
    <3>2. k < p => at[k] <= at[p]
      BY <2>2, <3>1, StopsInOrder
    <3>3. p < j => at[p] <= at[j]
      BY <2>2, StopsInOrder
    <3> QED
      BY <1>1, <1>3, <2>2, <3>1, <3>2, <3>3
  <2>4. at[p] + 1 \in (b + 1)..(at[j] + 1) /\ at[p] \in Nat /\ p \in 1..Len(s)
    BY <1>1, <1>3, <2>2, <2>3
  <2>5. t[at[p] + 1] = "sp"
    BY <1>2, <2>4
  <2>6. ASSUME NEW v, NEW tail, Replaces(match, s, t, stops, at, p, v, tail) PROVE FALSE
    <3>1. v >= p
      BY <2>4, <2>6 DEF Replaces, Masks
    <3>4. p \in 1..Len(s) /\ at[p] \in Nat
      BY <2>4
    <3>5. PutIs(s, t, at[p], p, v, tail)
      BY <2>6, <3>4, ReplacedIs
    <3>2. /\ v > p => t[at[p] + 1] = s[p] /\ s[p] \in {"auth", "pass", "user"}
          /\ v = p => t[at[p] + 1] \in Placeholders
      BY <3>5 DEF PutIs
    <3>3. v \in Int /\ p \in Int
      BY <2>4, <2>6 DEF Replaces, Masks
    <3> QED
      BY <2>5, <3>1, <3>2, <3>3 DEF Placeholders
  <2>7. Copies(match, s, t, stops, at, p)
    BY <2>2, <2>6, StopDoes
  <2>8. s[p] = "sp" /\ After(match, p) = p + 1
    BY <2>5, <2>7 DEF Copies
  <2>9. x = p
    BY <2>1, <2>2, <2>8
  <2> QED
    BY <2>8, <2>9
<1>9. i \in 1..(j - 1) /\ s[i] = "bearer"
  BY <1>1, <1>2, <1>5, <1>7
<1> QED
  BY <1>8, <1>9 DEF BehindScheme

(* Space between a key that is kept and its value is not behind it.        *)
LEMMA KeptNotBehind ==
  ASSUME NEW match, NEW s, NEW t, NEW stops, NEW at, NEW j \in 1..Len(s), NEW v, NEW tail,
         Replaces(match, s, t, stops, at, j, v, tail), at[j] \in Nat,
         NEW x \in (j + 1)..(v - 1)
  PROVE  ~BehindScheme(t, at[j] + 1 + (x - j))
<1> DEFINE a == at[j]
           p == a + 1 + (x - j)
<1> SUFFICES ASSUME BehindScheme(t, p) PROVE FALSE
  OBVIOUS
<1>1. v \in Int /\ j \in Int /\ x \in Int /\ a \in Nat
  BY DEF Replaces, Masks
<1>7. v > j
  BY <1>1
<1>2. /\ t[a + 1] \in {"auth", "pass", "user"}
      /\ \A z \in (j + 1)..(v - 1) : t[a + 1 + (z - j)] \in Gap
  <2>1. /\ v > j => t[at[j] + 1] = s[j] /\ s[j] \in {"auth", "pass", "user"}
        /\ \A z \in (j + 1)..(v - 1) : t[at[j] + 1 + (z - j)] = s[z] /\ s[z] \in Gap
    BY ReplacedIs DEF PutIs
  <2> QED
    BY <1>7, <2>1
<1>3. PICK b \in 1..(p - 1) : t[b] = "bearer" /\ \A l \in (b + 1)..p : t[l] = "sp"
  BY DEF BehindScheme
<1> HIDE DEF a
<1>4. CASE b < a + 1
  <2>1. a + 1 \in (b + 1)..p
    BY <1>1, <1>4
  <2>2. t[a + 1] = "sp"
    BY <1>3, <2>1
  <2> QED
    BY <1>2, <2>2
<1>5. CASE b = a + 1
  BY <1>2, <1>3, <1>5
<1>6. CASE b > a + 1
  <2> DEFINE z == b - (a + 1) + j
  <2>1. z \in (j + 1)..(v - 1) /\ a + 1 + (z - j) = b
    BY <1>1, <1>6
  <2> HIDE DEF z
  <2>2. t[b] \in Gap
    BY <1>2, <2>1
  <2> QED
    BY <1>3, <2>2 DEF Gap, Space
<1> QED
  BY <1>1, <1>4, <1>5, <1>6

(* What let a secret through in the outcome let it through in the text.    *)
LEMMA ThroughWas ==
  ASSUME NEW match, NEW s, NEW t, NEW stops, NEW at, MaskingPass(match, s, t, stops, at),
         Quiet(match, s), NEW v \in stops, NEW i \in stops, i <= Len(s),
         \A k \in (at[v] + 1)..at[i] : Through(t, k),
         NEW x \in v..(i - 1)
  PROVE  Through(s, x)
<1>1. /\ Len(s) \in Nat /\ Len(t) \in Nat
      /\ \A y \in stops : y \in 1..(Len(s) + 1) /\ at[y] \in Nat
  BY PassSizes
<1>2. x \in v..Len(s) /\ x \in Int /\ x < i
  BY <1>1
<1>3. PICK p \in stops : p \in v..x /\ x < After(match, p) /\ p <= Len(s)
  BY <1>2, StopOver
<1>4. at[v] <= at[p] /\ After(match, p) \in stops /\ at[After(match, p)] <= at[i]
      /\ p \in 1..Len(s) /\ at[p] \in Nat
  <2>1. p < i /\ (v < p \/ v = p) /\ p \in 1..Len(s) /\ at[p] \in Nat
    BY <1>1, <1>2, <1>3
  <2>2. v < p => at[v] <= at[p]
    BY StopsInOrder
  <2>3. After(match, p) \in stops
    BY <1>3, StopsInOrder
  <2>4. at[After(match, p)] <= at[i]
    BY <2>1, StopsInOrder
  <2>5. at[v] <= at[p]
    BY <1>1, <2>1, <2>2
  <2> QED
    BY <2>1, <2>3, <2>4, <2>5
<1>5. CASE match[p].end = p
  <2>1. Copies(match, s, t, stops, at, p)
    BY <1>3, <1>5, StopCopies
  <2>2. /\ After(match, p) = p + 1 /\ at[p + 1] = at[p] + 1
        /\ at[p] + 1 \in 1..Len(t) /\ t[at[p] + 1] = s[p]
    BY <2>1 DEF Copies
  <2>3. x = p
    BY <1>2, <1>3, <2>2
  <2>4. at[p] + 1 \in (at[v] + 1)..at[i]
    <3>1. at[v] \in Nat /\ at[i] \in Nat /\ at[p] + 1 <= at[i]
      BY <1>1, <1>4, <2>2
    <3> QED
      BY <1>4, <3>1
  <2>5. Through(t, at[p] + 1)
    BY <2>4
  <2>6. s[p] # "comma" /\ (s[p] = "sp" => BehindScheme(t, at[p] + 1))
    BY <2>2, <2>5 DEF Through
  <2>7. s[p] = "sp" => BehindScheme(s, p)
    BY <1>3, <2>6, SchemeWas
  <2> QED
    BY <2>3, <2>6, <2>7 DEF Through
<1>6. CASE match[p].end # p
  <2>1. PICK w, tail : /\ Masks(match[p], s, p, w, tail)
                       /\ \A y \in w..(match[p].end - 1) : Through(s, y)
    BY <1>4, <1>6 DEF Quiet
  <2>2. Replaces(match, s, t, stops, at, p, w, tail)
    BY <1>3, <2>1, MatchStands
  <2>3. /\ After(match, p) = match[p].end
        /\ at[match[p].end] = at[p] + (w - p) + Len(tail)
    BY <2>2 DEF Replaces
  <2>4. /\ match[p].end \in (p + 1)..(Len(s) + 1) /\ w \in p..(match[p].end - 1)
        /\ s[p] \in Starts /\ \A y \in (p + 1)..(w - 1) : s[y] \in Gap
        /\ Len(tail) \in 1..2
    BY <2>1 DEF Masks, TailOf
  <2>5. PutIs(s, t, at[p], p, w, tail)
    BY <1>4, <2>2, ReplacedIs
  <2>6. CASE x >= w
    <3>1. x \in w..(match[p].end - 1)
      BY <1>1, <1>2, <1>3, <2>3, <2>4, <2>6
    <3> QED
      BY <2>1, <3>1
  <2>7. CASE x = p
    BY <2>4, <2>7 DEF Through, Starts, Words
  <2>8. CASE x < w /\ x # p
    <3>1. x \in (p + 1)..(w - 1)
      BY <1>1, <1>2, <1>3, <2>4, <2>8
    <3>2. s[x] # "comma"
      BY <2>4, <3>1 DEF Gap, Space
    <3>3. s[x] # "sp"
      <4> SUFFICES ASSUME s[x] = "sp" PROVE FALSE
        OBVIOUS
      <4> DEFINE a == at[p]
                 l == Len(tail)
                 k == a + 1 + (x - p)
      <4>1. t[k] = "sp"
        BY <2>5, <3>1 DEF PutIs
      <4>2. at[v] \in Nat /\ at[i] \in Nat /\ a + (w - p) + l <= at[i] /\ at[v] <= a
        BY <1>1, <1>4, <2>3
      <4>3. l \in 1..2 /\ a \in Nat /\ w \in Int /\ p \in Int /\ x \in Int /\ x > p /\ x < w
        BY <1>2, <1>4, <2>4, <3>1
      <4> HIDE DEF a, l
      <4>4. k \in (at[v] + 1)..at[i]
        BY <4>2, <4>3
      <4>5. Through(t, k)
        BY <4>4
      <4>6. BehindScheme(t, k)
        BY <4>1, <4>5 DEF Through
      <4>7. ~BehindScheme(t, at[p] + 1 + (x - p))
        BY <1>4, <2>2, <3>1, KeptNotBehind
      <4> QED
        BY <4>6, <4>7 DEF a
    <3> QED
      BY <3>2, <3>3 DEF Through
  <2> QED
    BY <1>2, <1>4, <2>4, <2>6, <2>7, <2>8
<1> QED
  BY <1>5, <1>6

(* So what ends the secrets ends them still.                               *)
LEMMA SecretsEndStays ==
  ASSUME NEW match, NEW s, NEW t, NEW stops, NEW at, MaskingPass(match, s, t, stops, at),
         Framed(s), InField(match, s), Quiet(match, s), Spares(match, s, "pass"), SecretsEnd(s)
  PROVE  SecretsEnd(t)
<1> SUFFICES ASSUME NEW k \in 7..FieldEnd(t), NEW q \in 7..FieldEnd(t),
                    t[k] = "pass", Boundary(t, k), AfterSep(t, k + 1) # 0,
                    q >= AfterSep(t, k + 1), t[q] = "bs", t[q + 1] = "quote",
                    \A x \in AfterSep(t, k + 1)..(q - 1) : Through(t, x)
             PROVE  FALSE
  BY DEF SecretsEnd
<1>1. /\ Len(s) \in Nat /\ Len(t) \in Nat
      /\ \A x \in stops : x \in 1..(Len(s) + 1) /\ at[x] \in Nat
  BY PassSizes
<1>2. FieldEnd(s) \in Nat /\ FieldEnd(s) + 10 = Len(s)
  BY FrameIs
<1>3. k \in 1..Len(t)
  <2>1. FieldEnd(t) \in Nat
    BY FieldStands
  <2> QED
    BY <1>1, <2>1 DEF FieldEnd
<1>4. PICK j \in stops : /\ j \in 1..Len(s) /\ k = at[j] + 1 /\ s[j] = t[k] /\ Boundary(s, j)
                         /\ AfterSep(s, j + 1) # 0 /\ AfterSep(s, j + 1) \in stops
                         /\ AfterSep(s, j + 1) > j
                         /\ AfterSep(t, k + 1) = at[AfterSep(s, j + 1)] + 1
  BY <1>3, KeyWas
<1>5. j \in 7..FieldEnd(s)
  <2>1. s[j] \in (Words \cup {"n", "bs"}) \ {"word"}
    BY <1>4 DEF Words
  <2> QED
    BY <1>4, <2>1, WordsInField
<1>6. PICK i \in stops : /\ i \in 7..FieldEnd(s) /\ q = at[i] + 1 /\ s[i] = "bs"
                         /\ Copies(match, s, t, stops, at, i)
  BY BackslashWas
<1>7. s[i + 1] = "quote"
  <2>1. t[at[i] + 2] = s[i + 1]
    BY <1>6, EscapeCopied
  <2>2. q + 1 = at[i] + 2
    BY <1>1, <1>6
  <2> QED
    BY <2>1, <2>2
<1> DEFINE v == AfterSep(s, j + 1)
<1>14. v \in stops /\ AfterSep(t, k + 1) = at[v] + 1
  BY <1>4
<1> HIDE DEF v
<1>8. v \in stops /\ AfterSep(t, k + 1) = at[v] + 1 /\ v \in 1..(Len(s) + 1) /\ at[v] \in Nat
      /\ at[i] \in Nat /\ i \in Int
  BY <1>1, <1>6, <1>14
<1>9. at[v] <= at[i]
  BY <1>6, <1>8
<1>10. i >= v
  <2> SUFFICES ASSUME i < v PROVE FALSE
    BY <1>8
  <2>1. at[i] < at[v]
    BY <1>6, <1>8, StopsApart
  <2> QED
    BY <1>8, <1>9, <2>1
<1>11. \A x \in (at[v] + 1)..at[i] : Through(t, x)
  <2>1. q - 1 = at[i]
    BY <1>6, <1>8
  <2> QED
    BY <1>8, <2>1
<1>12. \A x \in v..(i - 1) : Through(s, x)
  <2>1. i <= Len(s)
    BY <1>2, <1>6
  <2> QED
    BY <1>6, <1>8, <1>11, <2>1, ThroughWas
<1>13. \E x \in v..(i - 1) : ~Through(s, x)
  BY <1>4, <1>5, <1>6, <1>7, <1>10 DEF SecretsEnd, v
<1> QED
  BY <1>12, <1>13

-----------------------------------------------------------------------------
(***************************************************************************)
(* What the rules take.                                                    *)
(***************************************************************************)

(* What the rules over tokens and addresses take: credentials, and space   *)
(* behind the scheme word.                                                 *)
CredentialTaken(m, s, j) ==
    \E v, tail :
        /\ Masks(m, s, j, v, tail)
        /\ \A x \in v..(m.end - 1) :
               \/ s[x] \in Credential \cup Torn
               \/ s[x] \in Space /\ s[v] = "bearer" /\ \A y \in (v + 1)..x : s[y] \in Space

TokenKeys == {"auth", "bearer", "jwt", "key", "email", "ip4", "ip6", "full6"}

TokenMatch(m, s, j) == m.end # j => s[j] \in TokenKeys /\ CredentialTaken(m, s, j)

(* The authorization rule does.                                            *)
LEMMA AuthHeaderTakes ==
  ASSUME NEW s \in Seq(Lexemes), NEW i \in 1..Len(s)
  PROVE  TokenMatch(AuthHeader(s, i), s, i)
<1> DEFINE value == AuthValue(s, i)
           scheme == Skip(s, value + 1, Space)
           start == IF /\ At(s, value) = "bearer"
                       /\ scheme > value + 1
                       /\ At(s, scheme) \in Credential \cup Torn
                    THEN scheme ELSE value
           end == Skip(s, start, Credential)
           rest == <<"AUTH", Remainder(s[end])>>
           m == AuthHeader(s, i)
<1>1. m =
        IF At(s, i) # "auth" \/ At(s, start) \notin Credential \cup Torn
        THEN NoMatch(i)
        ELSE IF At(s, end) \in Torn
             THEN Match(end + 1, Kept(s, i, value) \o rest)
             ELSE Match(end, Kept(s, i, value) \o <<"AUTH">>)
  BY Zenon DEF AuthHeader, value, scheme, start, end, rest, AuthValue
<1>2. AuthDoes(m, s, i, value) /\ Behind(s, i, value) /\ Len(s) \in Nat
  BY AuthHeaderDoes, AuthValueIs
<1>3. "end" \notin Credential \cup Torn /\ "end" \notin Torn
  BY DEF Credential, Torn, Words
<1> HIDE DEF value
<1>4. At(s, start) \in Credential \cup Torn => start \in 1..Len(s) /\ s[start] \in Credential \cup Torn
  <2> HIDE DEF start
  <2> QED
    BY <1>3 DEF At
<1>5. start = value \/ (start = scheme /\ scheme > value + 1 /\ At(s, value) = "bearer")
  BY Zenon
<1>6. start \in 1..Len(s) => /\ end \in start..(Len(s) + 1)
                             /\ \A x \in start..(end - 1) : s[x] \in Credential
  <2> HIDE DEF start
  <2>1. start \in 1..Len(s) => start \in 1..(Len(s) + 1)
    BY <1>2
  <2> QED
    BY <2>1, SkipPasses
<1>7. value \in 1..Len(s) => \A x \in (value + 1)..(scheme - 1) : s[x] \in Space
  <2> SUFFICES ASSUME value \in 1..Len(s) PROVE \A x \in (value + 1)..(scheme - 1) : s[x] \in Space
    OBVIOUS
  <2> DEFINE k == value + 1
  <2>1. k \in 1..(Len(s) + 1)
    BY <1>2
  <2> HIDE DEF k
  <2>2. \A x \in k..(Skip(s, k, Space) - 1) : s[x] \in Space
    BY <2>1, SkipPasses
  <2> QED
    BY <2>2 DEF k
<1>8. At(s, end) \in Torn => s[end] \in Torn
  <2> HIDE DEF end
  <2> QED
    BY <1>3 DEF At
<1> SUFFICES ASSUME m.end # i PROVE s[i] = "auth" /\ CredentialTaken(m, s, i)
  BY DEF TokenMatch, TokenKeys, m
<1>9. At(s, start) \in Credential \cup Torn /\ (m.end = end \/ (m.end = end + 1 /\ s[end] \in Torn))
  <2> HIDE DEF start, end, rest, scheme
  <2>1. NoMatch(i).end = i
    BY DEF NoMatch
  <2>2. ~(At(s, i) # "auth" \/ At(s, start) \notin Credential \cup Torn)
    BY <1>1, <2>1
  <2>3. \/ m = Match(end + 1, Kept(s, i, value) \o rest) /\ At(s, end) \in Torn
        \/ m = Match(end, Kept(s, i, value) \o <<"AUTH">>)
    BY <1>1, <2>2
  <2> HIDE DEF m
  <2> QED
    BY <1>8, <2>2, <2>3 DEF Match
<1> HIDE DEF m, start, end, scheme, rest
<1>10. PICK tail : TailOf(s, i, value, m.end, tail) /\ m = Match(m.end, Kept(s, i, value) \o tail)
  BY <1>2 DEF AuthDoes
<1>11. /\ s[i] = "auth" /\ s[i] \in {"auth", "pass", "user"}
       /\ value \in 1..Len(s) /\ m.end \in (value + 1)..(Len(s) + 1)
       /\ m.end <= Len(s) /\ s[m.end] \in Words => s[m.end - 1] # "n"
       /\ s[value] \in Credential \cup Torn
  BY <1>2 DEF AuthDoes
<1>12. value \in (i + 1)..(Len(s) + 1) /\ \A x \in (i + 1)..(value - 1) : s[x] \in Gap
  BY <1>2, <1>11 DEF Behind
<1>13. Masks(m, s, i, value, tail)
  <2> DEFINE e == m.end
  <2> HIDE DEF e
  <2>1. Masks(Match(e, Kept(s, i, value) \o tail), s, i, value, tail)
    BY <1>10, <1>11, <1>12, MasksValue DEF e
  <2> QED
    BY <1>10, <2>1 DEF e
<1>14. start \in 1..Len(s) /\ s[start] \in Credential \cup Torn
  BY <1>4, <1>9
<1>15. end \in start..(Len(s) + 1) /\ \A x \in start..(end - 1) : s[x] \in Credential
  BY <1>6, <1>14
<1>16. ASSUME NEW x \in value..(m.end - 1)
       PROVE  \/ s[x] \in Credential \cup Torn
              \/ s[x] \in Space /\ s[value] = "bearer" /\ \A y \in (value + 1)..x : s[y] \in Space
  <2>1. x \in Int /\ x >= value /\ (x < end \/ (x = end /\ s[end] \in Torn))
    BY <1>9, <1>11, <1>14, <1>15, <1>16
  <2>2. CASE x = end /\ s[end] \in Torn
    BY <2>2
  <2>3. CASE x < end /\ x >= start
    <3>1. x \in start..(end - 1)
      BY <1>14, <1>15, <2>1, <2>3
    <3> QED
      BY <1>15, <3>1
  <2>4. CASE x < start
    <3>6. start # value
      BY <1>11, <1>14, <2>1, <2>4
    <3>1. start = scheme /\ At(s, value) = "bearer"
      BY <1>5, <3>6, Zenon
    <3>2. s[value] = "bearer"
      BY <1>11, <3>1 DEF At
    <3>3. \A y \in (value + 1)..x : s[y] \in Space
      <4>1. \A y \in (value + 1)..x : y \in (value + 1)..(scheme - 1)
        BY <1>11, <1>14, <2>1, <2>4, <3>1
      <4> QED
        BY <1>7, <1>11, <4>1
    <3>4. CASE x = value
      BY <1>11, <3>4
    <3>5. CASE x # value
      <4>1. x \in (value + 1)..x
        BY <1>11, <2>1, <3>5
      <4> QED
        BY <3>2, <3>3, <4>1
    <3> QED
      BY <3>4, <3>5
  <2> QED
    BY <1>14, <1>15, <2>1, <2>2, <2>3, <2>4
<1> QED
  BY <1>11, <1>13, <1>16 DEF CredentialTaken

(* One that takes a match whole does when it takes nothing else.           *)
LEMMA WholeTaken ==
  ASSUME NEW s \in Seq(Lexemes), NEW i \in 1..Len(s), s[i] \in TokenKeys,
         NEW end \in (i + 1)..(Len(s) + 1), end <= Len(s) /\ s[end] \in Words => s[end - 1] # "n",
         NEW p \in Placeholders,
         \A x \in i..(end - 1) :
               \/ s[x] \in Credential \cup Torn
               \/ s[x] \in Space /\ s[i] = "bearer" /\ \A y \in (i + 1)..x : s[y] \in Space
  PROVE  TokenMatch(Match(end, <<p>>), s, i)
<1> DEFINE m == Match(end, <<p>>)
<1>1. m.end = end
  BY DEF Match
<1>2. s[i] \in Starts
  BY DEF TokenKeys, Starts, Words
<1>3. Masks(m, s, i, i, <<p>>)
  BY <1>2, MasksWhole
<1> HIDE DEF m
<1>4. CredentialTaken(m, s, i)
  BY <1>1, <1>3 DEF CredentialTaken
<1> QED
  BY <1>4 DEF TokenMatch, m

(* The bearer rule takes the scheme word, space and a credential.          *)
LEMMA BearerTokenTakes ==
  ASSUME NEW s \in Seq(Lexemes), Lexed(s), NEW i \in 1..Len(s)
  PROVE  TokenMatch(BearerToken(s, i), s, i)
<1> DEFINE start == Skip(s, i + 1, Space)
           end == Skip(s, start, Credential)
           m == BearerToken(s, i)
<1>1. m = IF BearerFound(s, i) THEN Match(end, <<"TOKEN">>) ELSE NoMatch(i)
  BY DEF BearerToken, BearerFound
<1>2. CASE ~BearerFound(s, i)
  BY <1>1, <1>2 DEF TokenMatch, NoMatch
<1>3. CASE BearerFound(s, i)
  <2>1. /\ At(s, i) = "bearer" /\ start > i + 1
        /\ \E j \in start..(end - 1) : s[j] \in {"long", "jwt", "key"}
    BY <1>3 DEF BearerFound
  <2>2. Len(s) \in Nat /\ i + 1 \in 1..(Len(s) + 1) /\ s[i] = "bearer"
    BY <2>1, AtIs
  <2>3. start \in (i + 1)..(Len(s) + 1) /\ \A x \in (i + 1)..(start - 1) : s[x] \in Space
    BY <2>2, SkipPasses
  <2> HIDE DEF start
  <2>4. start \in 1..(Len(s) + 1)
    BY <2>2, <2>3
  <2>5. /\ end \in start..(Len(s) + 1)
        /\ \A x \in start..(end - 1) : s[x] \in Credential
        /\ end <= Len(s) => s[end] \notin Credential
    BY <2>4, SkipPasses
  <2> HIDE DEF end
  <2>6. PICK j \in start..(end - 1) : s[j] \in {"long", "jwt", "key"}
    BY <2>1
  <2>7. j = end - 1
    <3> SUFFICES ASSUME j + 1 \in start..(end - 1) PROVE FALSE
      BY <2>3, <2>4, <2>5
    <3>1. j + 1 \in 2..Len(s) /\ (j + 1) - 1 = j
      BY <2>2, <2>3, <2>5
    <3>2. s[j + 1] \in Words \cup {"n"} /\ s[j] \in Words \cup {"at"}
      BY <2>5, <2>6 DEF Credential, Words
    <3> QED
      BY <3>1, <3>2 DEF Lexed
  <2>8. s[end - 1] # "n" /\ end \in (i + 1)..(Len(s) + 1)
    BY <2>2, <2>3, <2>5, <2>6, <2>7
  <2>9. "TOKEN" \in Placeholders /\ s[i] \in TokenKeys
    BY <2>2 DEF Placeholders, TokenKeys
  <2>10. ASSUME NEW x \in i..(end - 1)
         PROVE  \/ s[x] \in Credential \cup Torn
                \/ s[x] \in Space /\ s[i] = "bearer" /\ \A y \in (i + 1)..x : s[y] \in Space
    <3>1. CASE x = i
      BY <2>2, <3>1 DEF Credential, Words, Torn
    <3>2. CASE x # i /\ x < start
      <4>1. x \in (i + 1)..(start - 1) /\ \A y \in (i + 1)..x : y \in (i + 1)..(start - 1)
        BY <2>3, <2>10, <3>2
      <4> QED
        BY <2>2, <2>3, <4>1
    <3>3. CASE x >= start
      <4>1. x \in start..(end - 1)
        BY <2>3, <2>10, <3>3
      <4> QED
        BY <2>5, <4>1
    <3> QED
      BY <2>3, <2>10, <3>1, <3>2, <3>3
  <2> QED
    BY <1>1, <1>3, <2>8, <2>9, <2>10, WholeTaken
<1> QED
  BY <1>2, <1>3

(* A rule over one lexeme takes that.                                      *)
LEMMA OneTaken ==
  ASSUME NEW s \in Seq(Lexemes), NEW i \in 1..Len(s), s[i] \in TokenKeys, NEW p \in Placeholders
  PROVE  TokenMatch(Match(i + 1, <<p>>), s, i)
<1>1. TokenKeys \subseteq Credential \cup Torn /\ "n" \notin TokenKeys
  BY DEF TokenKeys, Credential, Torn, Words
<1> DEFINE e == i + 1
<1>2. e \in (i + 1)..(Len(s) + 1) /\ e - 1 = i /\ \A x \in i..(e - 1) : x = i
  OBVIOUS
<1> HIDE DEF e
<1>3. \A x \in i..(e - 1) : s[x] \in Credential \cup Torn
  BY <1>1, <1>2
<1>4. s[e - 1] # "n"
  BY <1>1, <1>2
<1>5. TokenMatch(Match(e, <<p>>), s, i)
  BY <1>2, <1>3, <1>4, WholeTaken
<1> QED
  BY <1>5 DEF e

(* So do the rules over JWTs, provider keys and addresses.                 *)
LEMMA OnesTake ==
  ASSUME NEW s \in Seq(Lexemes), NEW i \in 1..Len(s)
  PROVE  /\ TokenMatch(Jwt(s, i), s, i)
         /\ TokenMatch(ProviderKey(s, i), s, i)
         /\ TokenMatch(IPv6(s, i), s, i)
         /\ TokenMatch(IPv4(s, i), s, i)
<1>1. At(s, i) = s[i] /\ {"jwt", "key", "ip6", "full6", "ip4"} \subseteq TokenKeys /\ {"TOKEN", "IP"} \subseteq Placeholders
  BY DEF At, TokenKeys, Placeholders
<1>2. TokenMatch(NoMatch(i), s, i)
  BY DEF NoMatch, TokenMatch
<1>3. s[i] \in TokenKeys => TokenMatch(Match(i + 1, <<"TOKEN">>), s, i) /\ TokenMatch(Match(i + 1, <<"IP">>), s, i)
  BY <1>1, OneTaken
<1> QED
  BY <1>1, <1>2, <1>3 DEF Jwt, ProviderKey, IPv6, IPv4

(* The rule over email addresses takes no more where none stands behind    *)
(* the n of a newline.                                                     *)
LEMMA EmailTakes ==
  ASSUME NEW s \in Seq(Lexemes), Lexed(s), NoMail(s), NEW i \in 1..Len(s)
  PROVE  TokenMatch(Email(s, i), s, i)
<1> DEFINE at == Skip(s, i, LocalPart)
<1>1. CASE At(s, at) # "email"
  BY <1>1 DEF Email, NoMatch, TokenMatch
<1>2. CASE At(s, at) = "email"
  <2>1. Email(s, i) = Match(at + 1, <<"EMAIL">>)
    BY <1>2 DEF Email
  <2>2. i \in 1..(Len(s) + 1) /\ Len(s) \in Nat
    OBVIOUS
  <2>3. at \in i..(Len(s) + 1) /\ \A x \in i..(at - 1) : s[x] \in LocalPart
    BY <2>2, SkipPasses
  <2>4. at \in 1..Len(s) /\ s[at] = "email"
    BY <1>2, AtIs
  <2> HIDE DEF at
  <2>5. at = i
    <3> SUFFICES ASSUME at # i PROVE FALSE
      OBVIOUS
    <3>1. at \in 2..Len(s) /\ at - 1 \in i..(at - 1)
      BY <2>2, <2>3, <2>4
    <3>2. s[at - 1] \in LocalPart /\ s[at] \in Words
      BY <2>3, <2>4, <3>1 DEF Words
    <3>3. s[at - 1] \notin Words
      BY <3>1, <3>2 DEF Lexed
    <3>4. s[at - 1] # "n"
      BY <2>4, <3>1 DEF NoMail
    <3> QED
      BY <3>2, <3>3, <3>4 DEF LocalPart, Credential
  <2>6. s[i] \in TokenKeys /\ "EMAIL" \in Placeholders
    BY <2>4, <2>5 DEF TokenKeys, Placeholders
  <2> QED
    BY <2>1, <2>5, <2>6, OneTaken
<1> QED
  BY <1>1, <1>2

(* A value without a quote or a comma begins and ends in the field.        *)
LEMMA ValueInField ==
  ASSUME NEW s, Framed(s), NEW j \in 7..FieldEnd(s), NEW m, NEW v, NEW tail, Masks(m, s, j, v, tail),
         \A x \in v..(m.end - 1) : s[x] \notin {"quote", "comma"}
  PROVE  v \in j..FieldEnd(s) /\ m.end \in (v + 1)..(FieldEnd(s) + 1)
<1>1. /\ FieldEnd(s) \in Nat /\ FieldEnd(s) + 10 = Len(s) /\ Len(s) \in Nat
      /\ s[FieldEnd(s) + 1] = "quote"
  BY FrameIs
<1>2. /\ m.end \in (j + 1)..(Len(s) + 1) /\ v \in j..(m.end - 1)
      /\ s[j] \in Starts /\ \A x \in (j + 1)..(v - 1) : s[x] \in Gap
  BY DEF Masks
<1>3. s[j] # "bs"
  BY <1>2 DEF Starts, Words
<1>4. v \in v..(m.end - 1)
  BY <1>2
<1>5. s[v] \notin {"quote", "comma"}
  BY <1>4
<1>6. v <= FieldEnd(s)
  <2>1. CASE v = j
    BY <2>1
  <2>2. CASE v # j
    <3>1. v \in (j + 1)..(Len(s) + 1)
      BY <1>1, <1>2, <2>2
    <3> QED
      BY <1>2, <1>3, <1>5, <3>1, GapInField
  <2> QED
    BY <2>1, <2>2
<1>7. ~(m.end > FieldEnd(s) + 1)
  <2> SUFFICES ASSUME m.end > FieldEnd(s) + 1 PROVE FALSE
    OBVIOUS
  <2>1. FieldEnd(s) + 1 \in v..(m.end - 1)
    BY <1>1, <1>2, <1>6
  <2> QED
    BY <1>1, <2>1
<1> QED
  BY <1>1, <1>2, <1>6, <1>7

(* A pass of one of the rules over tokens and addresses stays in the field *)
(* and leaves alone what ends a name or a secret.                          *)
TokenPass(match, s) == \A j \in 1..Len(s) : TokenMatch(match[j], s, j)

Settled(match, s) ==
    /\ InField(match, s) /\ Commaless(match, s)
    /\ Quiet(match, s) /\ Spares(match, s, "pass") /\ Spares(match, s, "user")

(* Nothing else is in what they take.                                      *)
LEMMA TokenPassSettled ==
  ASSUME NEW s, Framed(s), NEW match, TokenPass(match, s)
  PROVE  Settled(match, s)
<1>1. /\ FieldEnd(s) \in Nat /\ FieldEnd(s) + 10 = Len(s) /\ Len(s) \in Nat
      /\ \A i \in 7..FieldEnd(s) : FieldAt(s, i)
  BY FrameIs
<1>2. ASSUME NEW j \in 1..Len(s), match[j].end # j
      PROVE  /\ j \in 7..FieldEnd(s) /\ match[j].end <= FieldEnd(s) + 1
             /\ s[j] \notin {"n", "pass", "user"} /\ s[match[j].end - 1] # "bs"
             /\ \A x \in j..(match[j].end - 1) : s[x] # "comma"
             /\ \E v, tail : /\ Masks(match[j], s, j, v, tail)
                             /\ \A x \in v..(match[j].end - 1) : Through(s, x)
  <2> DEFINE m == match[j]
  <2>1. s[j] \in TokenKeys /\ CredentialTaken(m, s, j)
    BY <1>2 DEF TokenPass, TokenMatch
  <2> HIDE DEF m
  <2>2. s[j] \in (Words \cup {"n", "bs"}) \ {"word"} /\ s[j] \notin {"n", "pass", "user"}
    BY <2>1 DEF TokenKeys, Words
  <2>3. j \in 7..FieldEnd(s)
    BY <2>2, WordsInField
  <2>4. PICK v, tail :
        /\ Masks(m, s, j, v, tail)
        /\ \A x \in v..(m.end - 1) :
               \/ s[x] \in Credential \cup Torn
               \/ s[x] \in Space /\ s[v] = "bearer" /\ \A y \in (v + 1)..x : s[y] \in Space
    BY <2>1 DEF CredentialTaken
  <2>5. \A x \in v..(m.end - 1) : s[x] \notin {"quote", "comma", "bs"}
    <3>1. Credential \cup Torn \cup Space \subseteq Lexemes \ {"quote", "comma", "bs"}
      BY DEF Credential, Torn, Space, Words, Lexemes, Marks
    <3> QED
      BY <2>4, <3>1
  <2>6. v \in j..FieldEnd(s) /\ m.end \in (v + 1)..(FieldEnd(s) + 1)
    BY <2>3, <2>4, <2>5, ValueInField
  <2>7. s[m.end - 1] # "bs"
    <3>1. m.end - 1 \in v..(m.end - 1)
      BY <2>6
    <3> QED
      BY <2>5, <3>1
  <2>8. \A x \in j..(m.end - 1) : s[x] # "comma"
    <3> SUFFICES ASSUME NEW x \in j..(m.end - 1) PROVE s[x] # "comma"
      OBVIOUS
    <3>1. x = j \/ x \in (j + 1)..(v - 1) \/ x \in v..(m.end - 1)
      BY <2>3, <2>6
    <3>2. \A y \in (j + 1)..(v - 1) : s[y] \in Gap
      BY <2>4 DEF Masks
    <3>3. s[j] # "comma"
      BY <2>1 DEF TokenKeys
    <3> QED
      BY <2>5, <3>1, <3>2, <3>3 DEF Gap, Space
  <2>9. ASSUME NEW x \in v..(m.end - 1) PROVE Through(s, x)
    <3>1. s[x] # "comma"
      BY <2>5
    <3>2. s[x] = "sp" => BehindScheme(s, x)
      <4> SUFFICES ASSUME s[x] = "sp" PROVE BehindScheme(s, x)
        OBVIOUS
      <4>1. "sp" \notin Credential \cup Torn
        BY DEF Credential, Torn, Words
      <4>2. s[v] = "bearer" /\ \A y \in (v + 1)..x : s[y] \in Space
        BY <2>4, <4>1
      <4>3. v # x
        BY <4>2
      <4>4. v \in 1..(x - 1) /\ \A y \in (v + 1)..x : y \in 7..FieldEnd(s)
        <5>1. v \in Int /\ x \in Int /\ x >= v /\ x <= FieldEnd(s) /\ v >= 7
          BY <1>1, <2>3, <2>6
        <5> QED
          BY <1>1, <4>3, <5>1
      <4>5. \A y \in (v + 1)..x : s[y] = "sp"
        BY <1>1, <4>2, <4>4 DEF FieldAt, Space
      <4> QED
        BY <4>2, <4>4, <4>5 DEF BehindScheme
    <3> QED
      BY <3>1, <3>2 DEF Through
  <2>10. m.end <= FieldEnd(s) + 1
    BY <2>6
  <2> QED
    BY <2>2, <2>3, <2>4, <2>7, <2>8, <2>9, <2>10 DEF m
<1>3. InField(match, s)
  BY <1>2 DEF InField
<1>4. Commaless(match, s)
  BY <1>2 DEF Commaless
<1>5. Quiet(match, s)
  BY <1>2 DEF Quiet
<1>6. Spares(match, s, "pass") /\ Spares(match, s, "user")
  BY <1>2 DEF Spares
<1> QED
  BY <1>3, <1>4, <1>5, <1>6 DEF Settled

(* The rule over secrets stays in the field where secrets end.             *)
LEMMA SecretInField ==
  ASSUME NEW s, Framed(s), SecretsEnd(s), NEW match,
         \A i \in 1..Len(s) : match[i] = Secret(s, i)
  PROVE  InField(match, s) /\ Commaless(match, s) /\ Spares(match, s, "user")
<1>1. /\ s \in Seq(Lexemes) /\ FieldEnd(s) \in Nat /\ FieldEnd(s) + 10 = Len(s) /\ Len(s) \in Nat
      /\ \A i \in 7..FieldEnd(s) : FieldAt(s, i)
      /\ s[FieldEnd(s) + 1] = "quote" /\ s[FieldEnd(s) + 2] = "comma"
  BY FrameIs
<1>2. ASSUME NEW j \in 1..Len(s), match[j].end # j
      PROVE  /\ j \in 7..FieldEnd(s) /\ match[j].end <= FieldEnd(s) + 1
             /\ s[j] = "pass" /\ s[match[j].end - 1] # "bs"
             /\ \A x \in j..(match[j].end - 1) : s[x] # "comma"
  <2> DEFINE m == match[j]
             v == PassValue(s, j)
  <2>1. m = Secret(s, j) /\ m.end # j
    BY <1>2
  <2>2. SecretDoes(m, s, j, v) /\ Masks(m, s, j, v, <<"TOKEN">>)
    BY <1>1, <2>1, SecretDoesIt, SecretMasks
  <2>10. Boundary(s, j)
    BY <2>1 DEF Secret, NoMatch
  <2> HIDE DEF m
  <2>3. /\ s[j] = "pass" /\ v \in (j + 2)..Len(s) /\ s[v] \in SecretValue
        /\ m.end = Skip(s, v, SecretValue) /\ m.end \in (v + 1)..(Len(s) + 1)
        /\ m.end <= Len(s) => s[m.end] \notin SecretValue
    BY <2>1, <2>2 DEF SecretDoes
  <2>4. \A x \in v..(m.end - 1) : s[x] \in SecretValue
    <3> HIDE DEF v
    <3>1. v \in 1..(Len(s) + 1)
      BY <1>1, <2>3
    <3> QED
      BY <1>1, <2>3, <3>1, SkipPasses
  <2>5. s[j] \in (Words \cup {"n", "bs"}) \ {"word"}
    BY <2>3 DEF Words
  <2>6. j \in 7..FieldEnd(s)
    BY <2>5, WordsInField
  <2>7. \A x \in v..(m.end - 1) : s[x] \notin {"quote", "comma"}
    BY <2>4 DEF SecretValue
  <2>8. v \in j..FieldEnd(s) /\ m.end \in (v + 1)..(FieldEnd(s) + 1)
    <3> HIDE DEF v
    <3> QED
      BY <2>2, <2>6, <2>7, ValueInField
  <2>9. v = AfterSep(s, j + 1)
    <3>1. s[j + 1] # "quote" \/ j + 1 = FieldEnd(s) + 1
      <4> SUFFICES ASSUME s[j + 1] = "quote", j + 1 # FieldEnd(s) + 1 PROVE FALSE
        OBVIOUS
      <4>1. j + 1 \in 7..FieldEnd(s) /\ (j + 1) - 1 = j
        BY <1>1, <2>6
      <4>2. s[j] = "bs"
        BY <1>1, <4>1 DEF FieldAt
      <4> QED
        BY <2>3, <4>2
    <3>2. j + 1 # FieldEnd(s) + 1
      BY <1>1, <2>3, <2>6, <2>8
    <3>3. At(s, j + 1) # "quote"
      BY <1>1, <3>1, <3>2 DEF At
    <3>4. Optional(s, j + 1, "quote") = j + 1
      BY <3>3 DEF Optional
    <3>5. v = AfterSep(s, j + 1) \/ s[v - 1] = "quote"
      <4> DEFINE w == AfterSep(s, j + 1)
      <4>1. v = Optional(s, w, "quote")
        BY <3>4 DEF PassValue
      <4> HIDE DEF w, v
      <4>2. v = w \/ (v = w + 1 /\ At(s, w) = "quote")
        BY <4>1 DEF Optional
      <4>3. At(s, w) = "quote" => s[w] = "quote" /\ w \in Int
        BY <1>1, AtIs
      <4>4. v = w + 1 /\ At(s, w) = "quote" => s[v - 1] = "quote"
        BY <4>3
      <4> QED
        BY <4>2, <4>4 DEF w
    <3>6. s[v - 1] # "quote"
      <4> HIDE DEF v
      <4>1. v \in (j + 1)..(Len(s) + 1) /\ v - 1 \in (j + 1)..(v - 1) /\ v - 1 <= FieldEnd(s)
        BY <1>1, <2>3, <2>6, <2>8
      <4>2. \A x \in (j + 1)..(v - 1) : s[x] \in Gap
        BY <2>2 DEF Masks
      <4>3. s[j] # "bs"
        BY <2>3
      <4>4. \A x \in (j + 1)..(v - 1) : x <= FieldEnd(s) => s[x] \in {"sp", "sep"}
        BY <2>6, <4>1, <4>2, <4>3, GapInField
      <4> QED
        BY <4>1, <4>4
    <3> QED
      BY <3>5, <3>6
  <2> HIDE DEF v
  <2>11. s[m.end - 1] # "bs"
    <3> SUFFICES ASSUME s[m.end - 1] = "bs" PROVE FALSE
      OBVIOUS
    <3> DEFINE q == m.end - 1
    <3>1. q \in 7..FieldEnd(s) /\ q + 1 = m.end /\ q >= v /\ m.end <= Len(s) /\ q \in v..(m.end - 1)
      BY <1>1, <2>6, <2>8
    <3> HIDE DEF q
    <3>2. s[q] = "bs"
      BY DEF q
    <3>3. s[q + 1] \in {"n", "quote"}
      BY <1>1, <3>1, <3>2 DEF FieldAt
    <3>4. "n" \in SecretValue
      BY DEF SecretValue, Lexemes
    <3>5. s[q + 1] = "quote"
      BY <2>3, <3>1, <3>3, <3>4
    <3>6. v # 0
      BY <2>3
    <3>7. PICK k \in v..(q - 1) : ~Through(s, k)
      BY <2>3, <2>6, <2>9, <2>10, <3>1, <3>2, <3>5, <3>6 DEF SecretsEnd
    <3>8. k \in v..(m.end - 1)
      BY <2>8, <3>1
    <3>9. s[k] \in SecretValue
      BY <2>4, <3>8
    <3> QED
      BY <3>7, <3>9 DEF Through, SecretValue
  <2>12. \A x \in j..(m.end - 1) : s[x] # "comma"
    <3> SUFFICES ASSUME NEW x \in j..(m.end - 1) PROVE s[x] # "comma"
      OBVIOUS
    <3>1. x = j \/ x \in (j + 1)..(v - 1) \/ x \in v..(m.end - 1)
      BY <2>6, <2>8
    <3>2. \A y \in (j + 1)..(v - 1) : s[y] \in Gap
      BY <2>2 DEF Masks
    <3> QED
      BY <2>3, <2>7, <3>1, <3>2 DEF Gap, Space
  <2>13. m.end <= FieldEnd(s) + 1
    BY <2>8
  <2> QED
    BY <2>3, <2>6, <2>11, <2>12, <2>13 DEF m
<1>3. InField(match, s)
  BY <1>2 DEF InField
<1>4. Commaless(match, s)
  BY <1>2 DEF Commaless
<1>5. Spares(match, s, "user")
  BY <1>2 DEF Spares
<1> QED
  BY <1>3, <1>4, <1>5

(* Behind a key in the field no quote may be passed over.                  *)
LEMMA NoQuoteBehind ==
  ASSUME NEW s, Framed(s), NEW j \in 7..FieldEnd(s), s[j] # "bs", AfterSep(s, Optional(s, j + 1, "quote")) # 0
  PROVE  Optional(s, j + 1, "quote") = j + 1 /\ j + 1 \in 7..FieldEnd(s)
<1>1. /\ s \in Seq(Lexemes) /\ FieldEnd(s) \in Nat /\ FieldEnd(s) + 10 = Len(s) /\ Len(s) \in Nat
      /\ \A i \in 7..FieldEnd(s) : FieldAt(s, i)
      /\ s[FieldEnd(s) + 1] = "quote" /\ s[FieldEnd(s) + 2] = "comma"
  BY FrameIs
<1>2. j + 1 # FieldEnd(s) + 1
  <2> SUFFICES ASSUME j + 1 = FieldEnd(s) + 1 PROVE FALSE
    OBVIOUS
  <2> DEFINE k == FieldEnd(s) + 2
  <2>1. At(s, j + 1) = "quote"
    BY <1>1 DEF At
  <2>2. Optional(s, j + 1, "quote") = k
    BY <1>1, <2>1 DEF Optional
  <2>3. k \in 1..(Len(s) + 1) /\ k \in 1..Len(s) /\ s[k] = "comma"
    BY <1>1
  <2> HIDE DEF k
  <2>4. "comma" \notin Space
    BY DEF Space
  <2>5. Skip(s, k, Space) = k
    <3>1. k \in Nat
      BY <2>3
    <3> QED
      BY <1>1, <2>3, <2>4, <3>1, SkipIs
  <2>6. At(s, k) # "sep"
    BY <2>3 DEF At
  <2>7. AfterSep(s, k) = 0
    BY <2>5, <2>6 DEF AfterSep
  <2> QED
    BY <2>2, <2>7
<1>3. j + 1 \in 7..FieldEnd(s)
  BY <1>1, <1>2
<1>4. s[j + 1] # "quote"
  <2> SUFFICES ASSUME s[j + 1] = "quote" PROVE FALSE
    OBVIOUS
  <2>1. (j + 1) - 1 = j
    OBVIOUS
  <2> QED
    BY <1>1, <1>3, <2>1 DEF FieldAt
<1>5. At(s, j + 1) # "quote"
  BY <1>1, <1>3, <1>4 DEF At
<1> QED
  BY <1>3, <1>5 DEF Optional

(* In the field no name is quoted: its quotes are escaped, and the closing *)
(* one follows no name.                                                    *)
LEMMA NoNameQuoted ==
  ASSUME NEW s, Framed(s), UserEnds(s), NEW j \in 1..Len(s)
  PROVE  NameQuoted(s, j).end = j
<1>1. /\ s \in Seq(Lexemes) /\ FieldEnd(s) \in Nat /\ FieldEnd(s) + 10 = Len(s) /\ Len(s) \in Nat
      /\ \A i \in 7..FieldEnd(s) : FieldAt(s, i)
  BY FrameIs
<1> DEFINE open == NameOpens(s, j)
<1>2. NameQuotedDoes(NameQuoted(s, j), s, j, open)
  BY <1>1, NameQuotedDoesIt
<1> HIDE DEF open
<1> SUFFICES ASSUME QuotedFound(s, j, open), open \in (j + 2)..Len(s) PROVE FALSE
  BY <1>2 DEF NameQuotedDoes
<1>3. s[j] = "user" /\ Boundary(s, j) /\ At(s, open) = "quote"
  BY DEF QuotedFound
<1>4. j \in 7..FieldEnd(s)
  <2>1. s[j] \in (Words \cup {"n", "bs"}) \ {"word"}
    BY <1>3 DEF Words
  <2> QED
    BY <2>1, WordsInField
<1>5. open # 0 /\ s[open] = "quote"
  BY <1>3 DEF At
<1>6. Optional(s, j + 1, "quote") = j + 1 /\ j + 1 \in 7..FieldEnd(s)
  BY <1>3, <1>4, <1>5, NoQuoteBehind DEF open, NameOpens
<1>7. open = AfterSep(s, j + 1)
  BY <1>6 DEF open, NameOpens
<1>8. \A x \in (j + 1)..(open - 1) : s[x] \in Gap
  <2>1. j + 1 \in 1..(Len(s) + 1)
    OBVIOUS
  <2>2. AfterSep(s, j + 1) # 0
    BY <1>5, <1>7
  <2> QED
    BY <1>1, <1>7, <2>1, <2>2, GapAhead
<1>9. \/ open > FieldEnd(s)
      \/ FALSE
  <2> SUFFICES ASSUME ~(open > FieldEnd(s)) PROVE FALSE
    OBVIOUS
  <2>1. open <= FieldEnd(s) /\ open \in (j + 1)..(Len(s) + 1)
    BY <1>1
  <2>2. s[j] # "bs"
    BY <1>3
  <2>3. s[open] \notin {"n", "quote"}
    BY <1>4, <1>8, <2>1, <2>2, GapInField
  <2> QED
    BY <1>5, <2>3
<1>10. \E c \in open..FieldEnd(s) : s[c] = "comma"
  BY <1>3, <1>4, <1>5, <1>7 DEF UserEnds
<1> QED
  BY <1>1, <1>9, <1>10

(* A bare name stays in the field where one ends.                          *)
LEMMA NameBareInField ==
  ASSUME NEW s, Framed(s), UserEnds(s), NEW match,
         \A i \in 1..Len(s) : match[i] = NameBare(s, i)
  PROVE  InField(match, s)
<1>1. /\ s \in Seq(Lexemes) /\ FieldEnd(s) \in Nat /\ FieldEnd(s) + 10 = Len(s) /\ Len(s) \in Nat
      /\ \A i \in 7..FieldEnd(s) : FieldAt(s, i)
  BY FrameIs
<1>2. ASSUME NEW j \in 1..Len(s), match[j].end # j
      PROVE  /\ j \in 7..FieldEnd(s) /\ match[j].end <= FieldEnd(s) + 1
             /\ s[j] # "n" /\ s[match[j].end - 1] # "bs"
  <2> DEFINE m == match[j]
             v == AfterSep(s, j + 1)
  <2>1. m = NameBare(s, j) /\ m.end # j
    BY <1>2
  <2>2. NameBareDoes(m, s, j, v)
    BY <1>1, <2>1, NameBareDoesIt
  <2>10. Boundary(s, j)
    BY <2>1 DEF NameBare, NoMatch
  <2> HIDE DEF m, v
  <2>3. /\ s[j] = "user" /\ v \in (j + 2)..Len(s)
        /\ m.end \in (v + 1)..(Len(s) + 1)
        /\ \A x \in v..(m.end - 1) : s[x] \in BareName
        /\ m.end <= Len(s) => s[m.end] \notin BareName
    BY <2>1, <2>2 DEF NameBareDoes
  <2>5. s[j] \in (Words \cup {"n", "bs"}) \ {"word"}
    BY <2>3 DEF Words
  <2>6. j \in 7..FieldEnd(s)
    BY <2>5, WordsInField
  <2>7. PICK c \in v..FieldEnd(s) : s[c] = "comma"
    <3>1. v # 0
      BY <2>3
    <3> QED
      BY <2>3, <2>6, <2>10, <3>1 DEF UserEnds, v
  <2>8. m.end <= c
    <3> SUFFICES ASSUME ~(m.end <= c) PROVE FALSE
      OBVIOUS
    <3>1. c \in v..(m.end - 1)
      BY <2>3, <2>7
    <3>2. s[c] \in BareName
      BY <2>3, <3>1
    <3> QED
      BY <2>7, <3>2 DEF BareName
  <2>9. m.end <= FieldEnd(s) /\ m.end \in Int /\ v \in Int /\ m.end > v /\ v > j /\ j \in Int
    BY <1>1, <2>3, <2>6, <2>7, <2>8
  <2>11. s[m.end - 1] # "bs"
    <3> SUFFICES ASSUME s[m.end - 1] = "bs" PROVE FALSE
      OBVIOUS
    <3> DEFINE q == m.end - 1
    <3>1. q \in 7..FieldEnd(s) /\ q + 1 = m.end /\ m.end <= Len(s)
      BY <1>1, <2>6, <2>9
    <3> HIDE DEF q
    <3>2. s[q] = "bs"
      BY DEF q
    <3>3. s[q + 1] \in {"n", "quote"}
      BY <1>1, <3>1, <3>2 DEF FieldAt
    <3>4. {"n", "quote"} \subseteq BareName
      BY DEF BareName, Lexemes, Marks
    <3> QED
      BY <2>3, <3>1, <3>3, <3>4
  <2>12. m.end <= FieldEnd(s) + 1
    BY <1>1, <2>9
  <2> QED
    BY <2>3, <2>6, <2>11, <2>12 DEF m
<1> QED
  BY <1>2 DEF InField

-----------------------------------------------------------------------------
(***************************************************************************)
(* The passes keep the frame, and a framed payload parses.                 *)
(***************************************************************************)

(* What holds of the payload through all the passes but those over names.  *)
Kempt(s) == Framed(s) /\ NoMail(s) /\ UserEnds(s)

(* A pass over tokens or addresses keeps it.                               *)
LEMMA KemptStays ==
  ASSUME NEW s, Kempt(s), NEW match, TokenPass(match, s),
         \A i \in 1..Len(s) : Fits(match[i], Lexemes) /\ MasksOnly(match[i], s, i)
  PROVE  LET t == Rewriting(match, s)[Len(s)].out
         IN  Kempt(t) /\ (SecretsEnd(s) => SecretsEnd(t))
<1> DEFINE t == Rewriting(match, s)[Len(s)].out
<1>1. Framed(s) /\ NoMail(s) /\ UserEnds(s) /\ s \in Seq(Lexemes) /\ Lexed(s)
  BY DEF Kempt, Framed
<1>2. \E stops, at : MaskingPass(match, s, t, stops, at)
  BY <1>1, RewritingMasks
<1>3. PICK stops, at : MaskingPass(match, s, t, stops, at)
  BY <1>2
<1> HIDE DEF t
<1>4. /\ InField(match, s) /\ Commaless(match, s) /\ Quiet(match, s)
      /\ Spares(match, s, "pass") /\ Spares(match, s, "user")
  BY <1>1, TokenPassSettled DEF Settled
<1>5. Framed(t)
  BY <1>1, <1>3, <1>4, FramedStays
<1>6. NoMail(t)
  BY <1>1, <1>3, NoMailStays
<1>7. UserEnds(t)
  BY <1>1, <1>3, <1>4, UserEndsStays
<1>8. SecretsEnd(s) => SecretsEnd(t)
  BY <1>1, <1>3, <1>4, SecretsEndStays
<1> QED
  BY <1>5, <1>6, <1>7, <1>8 DEF Kempt, t

(* The rules over tokens do,                                               *)
LEMMA TokensKempt ==
  ASSUME NEW s, Kempt(s), SecretsEnd(s)
  PROVE  /\ Kempt(Rewrite(AuthHeader, s)) /\ SecretsEnd(Rewrite(AuthHeader, s))
         /\ Kempt(Rewrite(BearerToken, s)) /\ SecretsEnd(Rewrite(BearerToken, s))
         /\ Kempt(Rewrite(Jwt, s)) /\ SecretsEnd(Rewrite(Jwt, s))
         /\ Kempt(Rewrite(ProviderKey, s)) /\ SecretsEnd(Rewrite(ProviderKey, s))
<1>1. s \in Seq(Lexemes) /\ Lexed(s)
  BY DEF Kempt, Framed
<1>2. {"AUTH", "at", "ip6", "TOKEN"} \subseteq Lexemes
  BY DEF Lexemes, Placeholders, Marks, Words
<1>3. Kempt(Rewrite(AuthHeader, s)) /\ SecretsEnd(Rewrite(AuthHeader, s))
  <2> DEFINE match == [i \in DOMAIN s |-> AuthHeader(s, i)]
  <2>1. \A i \in 1..Len(s) : match[i] = AuthHeader(s, i)
    BY <1>1
  <2>2. Rewriting(match, s)[Len(s)].out = Rewrite(AuthHeader, s)
    BY DEF Rewrite
  <2> HIDE DEF match
  <2>3. \A i \in 1..Len(s) : Fits(match[i], Lexemes) /\ MasksOnly(match[i], s, i)
    BY <1>1, <1>2, <2>1, AuthHeaderFits, AuthHeaderMasks
  <2>4. TokenPass(match, s)
    BY <1>1, <2>1, AuthHeaderTakes DEF TokenPass
  <2> QED
    BY <2>2, <2>3, <2>4, KemptStays
<1>4. Kempt(Rewrite(BearerToken, s)) /\ SecretsEnd(Rewrite(BearerToken, s))
  <2> DEFINE match == [i \in DOMAIN s |-> BearerToken(s, i)]
  <2>1. \A i \in 1..Len(s) : match[i] = BearerToken(s, i)
    BY <1>1
  <2>2. Rewriting(match, s)[Len(s)].out = Rewrite(BearerToken, s)
    BY DEF Rewrite
  <2> HIDE DEF match
  <2>3. \A i \in 1..Len(s) : Fits(match[i], Lexemes) /\ MasksOnly(match[i], s, i)
    BY <1>1, <1>2, <2>1, BearerTokenFits, BearerTokenMasks
  <2>4. TokenPass(match, s)
    BY <1>1, <2>1, BearerTokenTakes DEF TokenPass
  <2> QED
    BY <2>2, <2>3, <2>4, KemptStays
<1>5. Kempt(Rewrite(Jwt, s)) /\ SecretsEnd(Rewrite(Jwt, s))
  <2> DEFINE match == [i \in DOMAIN s |-> Jwt(s, i)]
  <2>1. \A i \in 1..Len(s) : match[i] = Jwt(s, i)
    BY <1>1
  <2>2. Rewriting(match, s)[Len(s)].out = Rewrite(Jwt, s)
    BY DEF Rewrite
  <2> HIDE DEF match
  <2>3. \A i \in 1..Len(s) : Fits(match[i], Lexemes) /\ MasksOnly(match[i], s, i)
    BY <1>1, <1>2, <2>1, JwtFits, JwtMasksOnly
  <2>4. TokenPass(match, s)
    BY <1>1, <2>1, OnesTake DEF TokenPass
  <2> QED
    BY <2>2, <2>3, <2>4, KemptStays
<1>6. Kempt(Rewrite(ProviderKey, s)) /\ SecretsEnd(Rewrite(ProviderKey, s))
  <2> DEFINE match == [i \in DOMAIN s |-> ProviderKey(s, i)]
  <2>1. \A i \in 1..Len(s) : match[i] = ProviderKey(s, i)
    BY <1>1
  <2>2. Rewriting(match, s)[Len(s)].out = Rewrite(ProviderKey, s)
    BY DEF Rewrite
  <2> HIDE DEF match
  <2>3. \A i \in 1..Len(s) : Fits(match[i], Lexemes) /\ MasksOnly(match[i], s, i)
    BY <1>1, <1>2, <2>1, ProviderKeyFits, ProviderKeyMasks
  <2>4. TokenPass(match, s)
    BY <1>1, <2>1, OnesTake DEF TokenPass
  <2> QED
    BY <2>2, <2>3, <2>4, KemptStays
<1> QED
  BY <1>3, <1>4, <1>5, <1>6

(* those over addresses do,                                                *)
LEMMA AddressesKempt ==
  ASSUME NEW s, Kempt(s)
  PROVE  /\ Kempt(Rewrite(Email, s)) /\ Kempt(Rewrite(IPv6, s)) /\ Kempt(Rewrite(IPv4, s))
<1>1. s \in Seq(Lexemes) /\ Lexed(s) /\ NoMail(s)
  BY DEF Kempt, Framed
<1>2. {"EMAIL", "IP"} \subseteq Lexemes
  BY DEF Lexemes, Placeholders, Marks, Words
<1>3. Kempt(Rewrite(Email, s))
  <2> DEFINE match == [i \in DOMAIN s |-> Email(s, i)]
  <2>1. \A i \in 1..Len(s) : match[i] = Email(s, i)
    BY <1>1
  <2>2. Rewriting(match, s)[Len(s)].out = Rewrite(Email, s)
    BY DEF Rewrite
  <2> HIDE DEF match
  <2>3. \A i \in 1..Len(s) : Fits(match[i], Lexemes) /\ MasksOnly(match[i], s, i)
    BY <1>1, <1>2, <2>1, EmailFits, EmailMasksOnly
  <2>4. TokenPass(match, s)
    BY <1>1, <2>1, EmailTakes DEF TokenPass
  <2> QED
    BY <2>2, <2>3, <2>4, KemptStays
<1>4. Kempt(Rewrite(IPv6, s))
  <2> DEFINE match == [i \in DOMAIN s |-> IPv6(s, i)]
  <2>1. \A i \in 1..Len(s) : match[i] = IPv6(s, i)
    BY <1>1
  <2>2. Rewriting(match, s)[Len(s)].out = Rewrite(IPv6, s)
    BY DEF Rewrite
  <2> HIDE DEF match
  <2>3. \A i \in 1..Len(s) : Fits(match[i], Lexemes) /\ MasksOnly(match[i], s, i)
    BY <1>1, <1>2, <2>1, IPv6Fits, IPv6MasksOnly
  <2>4. TokenPass(match, s)
    BY <1>1, <2>1, OnesTake DEF TokenPass
  <2> QED
    BY <2>2, <2>3, <2>4, KemptStays
<1>5. Kempt(Rewrite(IPv4, s))
  <2> DEFINE match == [i \in DOMAIN s |-> IPv4(s, i)]
  <2>1. \A i \in 1..Len(s) : match[i] = IPv4(s, i)
    BY <1>1
  <2>2. Rewriting(match, s)[Len(s)].out = Rewrite(IPv4, s)
    BY DEF Rewrite
  <2> HIDE DEF match
  <2>3. \A i \in 1..Len(s) : Fits(match[i], Lexemes) /\ MasksOnly(match[i], s, i)
    BY <1>1, <1>2, <2>1, IPv4Fits, IPv4Masks
  <2>4. TokenPass(match, s)
    BY <1>1, <2>1, OnesTake DEF TokenPass
  <2> QED
    BY <2>2, <2>3, <2>4, KemptStays
<1> QED
  BY <1>3, <1>4, <1>5

(* and the one over secrets, where each ends before a quote.               *)
LEMMA SecretKempt ==
  ASSUME NEW s, Kempt(s), SecretsEnd(s)
  PROVE  Kempt(Rewrite(Secret, s))
<1> DEFINE match == [i \in DOMAIN s |-> Secret(s, i)]
           t == Rewriting(match, s)[Len(s)].out
<1>1. s \in Seq(Lexemes) /\ Lexed(s) /\ Framed(s) /\ NoMail(s) /\ UserEnds(s)
  BY DEF Kempt, Framed
<1>2. "TOKEN" \in Lexemes
  BY DEF Lexemes, Placeholders, Marks, Words
<1>3. \A i \in 1..Len(s) : match[i] = Secret(s, i)
  BY <1>1
<1>4. t = Rewrite(Secret, s)
  BY DEF Rewrite
<1> HIDE DEF match
<1>5. \A i \in 1..Len(s) : Fits(match[i], Lexemes) /\ MasksOnly(match[i], s, i)
  BY <1>1, <1>2, <1>3, SecretFits, SecretMasks
<1>6. \E stops, at : MaskingPass(match, s, t, stops, at)
  BY <1>1, <1>5, RewritingMasks
<1>7. PICK stops, at : MaskingPass(match, s, t, stops, at)
  BY <1>6
<1> HIDE DEF t
<1>8. InField(match, s) /\ Commaless(match, s) /\ Spares(match, s, "user")
  BY <1>1, <1>3, SecretInField
<1>9. Framed(t)
  BY <1>1, <1>7, <1>8, FramedStays
<1>10. NoMail(t)
  BY <1>1, <1>7, NoMailStays
<1>11. UserEnds(t)
  BY <1>1, <1>7, <1>8, UserEndsStays
<1> QED
  BY <1>4, <1>9, <1>10, <1>11 DEF Kempt

(* The rules over names keep the frame: no name is quoted,                 *)
LEMMA QuotedKempt ==
  ASSUME NEW s, Kempt(s)
  PROVE  Rewrite(NameQuoted, s) = s
<1> DEFINE match == [i \in DOMAIN s |-> NameQuoted(s, i)]
<1>1. s \in Seq(Lexemes) /\ Lexed(s) /\ Framed(s) /\ UserEnds(s)
  BY DEF Kempt, Framed
<1>2. {"NAME", "quote"} \subseteq Lexemes
  BY DEF Lexemes, Placeholders, Marks, Words
<1>3. \A i \in 1..Len(s) : match[i] = NameQuoted(s, i) /\ match[i].end = i
  BY <1>1, NoNameQuoted
<1>4. Rewriting(match, s)[Len(s)].out = Rewrite(NameQuoted, s)
  BY DEF Rewrite
<1> HIDE DEF match
<1>5. \A i \in 1..Len(s) : Fits(match[i], Lexemes)
  BY <1>1, <1>2, <1>3, NameQuotedFits
<1>6. PutsOut(match, s, Lexemes)
  BY <1>1, <1>5 DEF PutsOut, Fits
<1>7. Advances(match, s)
  BY <1>1, <1>3 DEF Advances
<1> QED
  BY <1>1, <1>3, <1>4, <1>6, <1>7, RewritingSame

(* and one that is not ends at a comma.                                    *)
LEMMA BareKempt ==
  ASSUME NEW s, Kempt(s)
  PROVE  Framed(Rewrite(NameBare, s))
<1> DEFINE match == [i \in DOMAIN s |-> NameBare(s, i)]
           t == Rewriting(match, s)[Len(s)].out
<1>1. s \in Seq(Lexemes) /\ Lexed(s) /\ Framed(s) /\ UserEnds(s)
  BY DEF Kempt, Framed
<1>2. "NAME" \in Lexemes
  BY DEF Lexemes, Placeholders, Marks, Words
<1>3. \A i \in 1..Len(s) : match[i] = NameBare(s, i)
  BY <1>1
<1>4. t = Rewrite(NameBare, s)
  BY DEF Rewrite
<1> HIDE DEF match
<1>5. \A i \in 1..Len(s) : Fits(match[i], Lexemes) /\ MasksOnly(match[i], s, i)
  BY <1>1, <1>2, <1>3, NameBareFits, NameBareMasks
<1>6. \E stops, at : MaskingPass(match, s, t, stops, at)
  BY <1>1, <1>5, RewritingMasks
<1>7. PICK stops, at : MaskingPass(match, s, t, stops, at)
  BY <1>6
<1> HIDE DEF t
<1>8. InField(match, s)
  BY <1>1, <1>3, NameBareInField
<1> QED
  BY <1>1, <1>4, <1>7, <1>8, FramedStays

(* So the scrub keeps the frame.                                           *)
LEMMA ScrubFramed ==
  ASSUME NEW s, Kempt(s), SecretsEnd(s)
  PROVE  Framed(ScrubString(s))
<1>1. Kempt(RedactTokens(s))
  BY TokensKempt, SecretKempt DEF RedactTokens
<1>2. Kempt(RedactIPs(RedactEmails(RedactTokens(s))))
  BY <1>1, AddressesKempt DEF RedactIPs, RedactEmails
<1> QED
  BY <1>2, QuotedKempt, BareKempt DEF ScrubString, RedactNames

(* The inside of a payload is its field.                                   *)
LEMMA InsideIs ==
  ASSUME NEW s, Framed(s)
  PROVE  /\ Inside(s) \in Seq(Lexemes) /\ Len(Inside(s)) = FieldEnd(s) - 6
         /\ \A i \in 1..(FieldEnd(s) - 6) : Inside(s)[i] = s[6 + i]
<1>1. s \in Seq(Lexemes) /\ Len(s) \in Nat /\ FieldEnd(s) \in Nat /\ FieldEnd(s) >= 6 /\ FieldEnd(s) + 10 = Len(s)
  BY FrameIs
<1>2. Len(Open) = 6 /\ Len(Close) = 10
  BY DEF Open, Close
<1>3. Inside(s) = SubSeq(s, 7, FieldEnd(s))
  BY <1>1, <1>2 DEF Inside, FieldEnd
<1> DEFINE l == FieldEnd(s)
           k == 7
<1>4. k \in 1..(Len(s) + 1) /\ l \in (k - 1)..Len(s) /\ k = 7 /\ l - k + 1 = l - 6
  BY <1>1
<1> HIDE DEF l, k
<1>5. /\ SubSeq(s, k, l) \in Seq(Lexemes)
      /\ Len(SubSeq(s, k, l)) = IF k <= l THEN l - k + 1 ELSE 0
      /\ \A i \in 1..(l - k + 1) : SubSeq(s, k, l)[i] = s[k + i - 1]
  BY <1>1, <1>4, SubSeqProperties
<1>6. Len(SubSeq(s, k, l)) = l - 6
  BY <1>1, <1>4, <1>5
<1>7. \A i \in 1..(l - 6) : k + i - 1 = 6 + i
  BY <1>4
<1> QED
  BY <1>3, <1>4, <1>5, <1>6, <1>7 DEF k, l

(* Its escapes are all the reader meets.                                   *)
LEMMA FieldReads ==
  ASSUME NEW s, Framed(s)
  PROVE  Read(Inside(s)).valid /\ ~Read(Inside(s)).escaped
<1> DEFINE u == Inside(s)
           n == FieldEnd(s) - 6
           read == Reading(u)
<1>1. /\ FieldEnd(s) \in Nat /\ FieldEnd(s) >= 6
      /\ \A i \in 7..FieldEnd(s) : FieldAt(s, i)
  BY FrameIs
<1>2. u \in Seq(Lexemes) /\ Len(u) = n /\ \A i \in 1..n : u[i] = s[6 + i]
  BY InsideIs
<1>3. "nl" \in Lexemes
  BY DEF Lexemes, Marks
<1> HIDE DEF u
<1>4. /\ read[0] = [text |-> <<>>, escaped |-> FALSE, valid |-> TRUE]
      /\ \A i \in 1..n : read[i] = ReadStep(u, read[i - 1], i)
      /\ \A i \in 0..n :
             read[i] \in [text : Seq(Lexemes), escaped : BOOLEAN, valid : BOOLEAN]
  BY <1>2, <1>3, ReadingIs
<1>5. n \in Nat /\ 0 \in 0..n /\ n \in 0..n
  BY <1>1
<1> HIDE DEF read, n
<1> DEFINE Ok(i) == read[i].valid /\ (read[i].escaped <=> i > 0 /\ u[i] = "bs")
           Bad == {i \in 0..n : ~Ok(i)}
<1>6. 0 \notin Bad
  BY <1>4
<1>7. \A i \in 1..n :
          /\ u[i] \notin {"nl"}
          /\ u[i] = "bs" => i < n /\ u[i + 1] \in {"n", "quote"}
          /\ u[i] \in {"n", "quote"} => i > 1 /\ u[i - 1] = "bs"
  <2> SUFFICES ASSUME NEW i \in 1..n
               PROVE  /\ u[i] \notin {"nl"}
                      /\ u[i] = "bs" => i < n /\ u[i + 1] \in {"n", "quote"}
                      /\ u[i] \in {"n", "quote"} => i > 1 /\ u[i - 1] = "bs"
    OBVIOUS
  <2> DEFINE k == 6 + i
  <2>1. /\ k \in 7..FieldEnd(s) /\ k = 6 + i
        /\ i > 1 => i - 1 \in 1..n /\ 6 + (i - 1) = k - 1
        /\ i < n => i + 1 \in 1..n /\ 6 + (i + 1) = k + 1
        /\ k < FieldEnd(s) => i < n
        /\ k > 7 => i > 1
    BY <1>1, <1>5 DEF n
  <2> HIDE DEF k
  <2>2. u[i] = s[k] /\ (i > 1 => u[i - 1] = s[k - 1]) /\ (i < n => u[i + 1] = s[k + 1])
    BY <1>2, <2>1
  <2>3. FieldAt(s, k)
    BY <1>1, <2>1
  <2> QED
    BY <2>1, <2>2, <2>3 DEF FieldAt
<1>8. \A i \in 1..n : i \in Bad => i - 1 \in Bad
  <2> SUFFICES ASSUME NEW i \in 1..n, i - 1 \notin Bad PROVE Ok(i)
    OBVIOUS
  <2>1. i - 1 \in 0..n /\ i \in Nat
    BY <1>5
  <2>2. Ok(i - 1)
    <3> HIDE DEF Ok
    <3> QED
      BY <2>1
  <2> DEFINE p == read[i - 1]
  <2>3. read[i] = ReadStep(u, p, i)
    BY <1>4
  <2>4. p.valid /\ (p.escaped <=> i - 1 > 0 /\ u[i - 1] = "bs") /\ p.escaped \in BOOLEAN
    BY <1>4, <2>1, <2>2
  <2> HIDE DEF p
  <2>5. CASE p.escaped
    <3>1. i - 1 \in 1..n /\ u[i - 1] = "bs" /\ (i - 1) + 1 = i
      BY <2>1, <2>4, <2>5
    <3>2. u[i] \in {"n", "quote"}
      <4> DEFINE h == i - 1
      <4>1. h \in 1..n /\ u[h] = "bs" /\ h + 1 = i
        BY <3>1
      <4> HIDE DEF h
      <4> QED
        BY <1>5, <1>7, <4>1
    <3> QED
      <4>1. read[i] = [text |-> Append(p.text, IF u[i] = "n" THEN "nl" ELSE u[i]),
                       escaped |-> FALSE, valid |-> p.valid /\ u[i] \in {"n", "quote"}]
        BY <2>3, <2>5 DEF ReadStep
      <4>2. read[i].escaped = FALSE /\ read[i].valid = (p.valid /\ u[i] \in {"n", "quote"})
        BY <4>1
      <4>3. read[i].valid /\ ~read[i].escaped /\ u[i] # "bs"
        BY <2>4, <3>2, <4>2
      <4> QED
        BY <4>3
  <2>6. CASE ~p.escaped
    <3>1. u[i] \notin {"nl", "quote"}
      <4> SUFFICES ASSUME u[i] = "quote" PROVE FALSE
        BY <1>5, <1>7, <2>1
      <4>1. i > 1 /\ u[i - 1] = "bs"
        BY <1>5, <1>7, <2>1
      <4> QED
        BY <2>1, <2>4, <2>6, <4>1
    <3> QED
      <4>1. CASE u[i] = "bs"
        <5>1. read[i] = [text |-> p.text, escaped |-> TRUE, valid |-> p.valid]
          BY <2>3, <2>6, <4>1 DEF ReadStep
        <5>2. read[i].escaped = TRUE /\ read[i].valid = p.valid
          BY <5>1
        <5>3. read[i].valid /\ read[i].escaped /\ i > 0
          BY <1>5, <2>4, <5>2
        <5> QED
          BY <4>1, <5>3
      <4>2. CASE u[i] # "bs"
        <5>1. read[i] = [text |-> Append(p.text, u[i]), escaped |-> FALSE,
                         valid |-> p.valid /\ u[i] \notin {"quote", "nl"}]
          BY <2>3, <2>6, <4>2 DEF ReadStep
        <5>2. read[i].escaped = FALSE /\ read[i].valid = (p.valid /\ u[i] \notin {"quote", "nl"})
          BY <5>1
        <5>3. read[i].valid /\ ~read[i].escaped
          BY <2>4, <3>1, <5>2
        <5> QED
          BY <4>2, <5>3
      <4> QED
        BY <4>1, <4>2
  <2> QED
    BY <2>5, <2>6
<1>9. Bad = {}
  <2>1. Bad \subseteq 0..n
    OBVIOUS
  <2> HIDE DEF Bad
  <2> QED
    BY <1>5, <1>6, <1>8, <2>1, LoopKeeps
<1>10. Ok(n)
  BY <1>5, <1>9
<1>11. ~(n > 0 /\ u[n] = "bs")
  BY <1>5, <1>7
<1> QED
  BY <1>2, <1>10, <1>11 DEF Read, read, u

(* Texts that begin alike have the same beginning,                         *)
LEMMA Heads ==
  ASSUME NEW X, NEW a \in Seq(X), NEW b \in Seq(X), Len(a) <= Len(b),
         \A i \in 1..Len(a) : a[i] = b[i]
  PROVE  SubSeq(a, 1, Len(a)) = SubSeq(b, 1, Len(a))
<1> DEFINE n == Len(a)
           k == 1
<1>1. n \in Nat /\ Len(b) \in Nat /\ n <= Len(b)
  OBVIOUS
<1>2. k \in 1..(n + 1) /\ k \in 1..(Len(b) + 1) /\ n \in (k - 1)..n /\ n \in (k - 1)..Len(b)
      /\ n - k + 1 = n /\ k = 1 /\ n = Len(a) /\ (~(k <= n) => n = 0)
  BY <1>1
<1> HIDE DEF k, n
<1>3. /\ SubSeq(a, k, n) \in Seq(X)
      /\ Len(SubSeq(a, k, n)) = IF k <= n THEN n - k + 1 ELSE 0
      /\ \A i \in 1..(n - k + 1) : SubSeq(a, k, n)[i] = a[k + i - 1]
  BY <1>2, SubSeqProperties
<1>4. /\ SubSeq(b, k, n) \in Seq(X)
      /\ Len(SubSeq(b, k, n)) = IF k <= n THEN n - k + 1 ELSE 0
      /\ \A i \in 1..(n - k + 1) : SubSeq(b, k, n)[i] = b[k + i - 1]
  BY <1>2, SubSeqProperties
<1>5. Len(SubSeq(a, k, n)) = n /\ Len(SubSeq(b, k, n)) = n
  BY <1>2, <1>3, <1>4
<1>6. ASSUME NEW i \in 1..n PROVE SubSeq(a, k, n)[i] = SubSeq(b, k, n)[i]
  <2>1. k + i - 1 = i /\ i \in 1..(n - k + 1)
    BY <1>1, <1>2
  <2>2. a[i] = b[i]
    BY <1>2
  <2> QED
    BY <1>3, <1>4, <2>1, <2>2
<1>7. SubSeq(a, k, n) = SubSeq(b, k, n)
  BY <1>3, <1>4, <1>5, <1>6, SeqEqual
<1> QED
  BY <1>2, <1>7

(* and one reversed has its lexemes from behind.                           *)
LEMMA ReverseIs ==
  ASSUME NEW X, NEW s \in Seq(X)
  PROVE  /\ Reverse(s) \in Seq(X) /\ Len(Reverse(s)) = Len(s)
         /\ \A i \in 1..Len(s) : Reverse(s)[i] = s[(Len(s) - i) + 1]
<1> DEFINE n == Len(s)
<1>1. n \in Nat
  OBVIOUS
<1>2. \A i \in 1..n : s[(n - i) + 1] \in X
  <2> SUFFICES ASSUME NEW i \in 1..n PROVE s[(n - i) + 1] \in X
    OBVIOUS
  <2>1. (n - i) + 1 \in 1..n
    BY <1>1
  <2> QED
    BY <2>1
<1>3. Reverse(s) = [i \in 1..n |-> s[(n - i) + 1]]
  BY DEF Reverse
<1> HIDE DEF n
<1>4. Reverse(s) \in Seq(X)
  BY <1>1, <1>2, <1>3
<1>5. Len(Reverse(s)) = n
  BY <1>1, <1>3
<1> QED
  BY <1>3, <1>4, <1>5 DEF n

(* Whatever is framed parses.                                              *)
LEMMA FramedParses ==
  ASSUME NEW s, Framed(s)
  PROVE  Parses(s)
<1>1. s \in Seq(Lexemes) /\ Len(s) \in Nat /\ Len(s) >= 16 /\ FieldEnd(s) + 10 = Len(s) /\ FieldEnd(s) \in Nat
  BY FrameIs
<1>2. (\A i \in 1..6 : s[i] = Open[i]) /\ (\A i \in 1..10 : s[FieldEnd(s) + i] = Close[i])
  BY DEF Framed
<1>3. Len(Open) = 6 /\ Len(Close) = 10 /\ Open \in Seq(Lexemes) /\ Close \in Seq(Lexemes)
  <2>1. {"lbrace", "rbrace", "quote", "word", "sep", "comma"} \subseteq Lexemes
    BY DEF Lexemes, Words, Marks
  <2> QED
    BY <2>1 DEF Open, Close
<1>4. IsPrefix(Open, s)
  <2>1. Len(Open) <= Len(s) /\ \A i \in 1..Len(Open) : Open[i] = s[i]
    <3>1. \A i \in 1..6 : Open[i] = s[i]
      BY <1>2
    <3>2. 1..Len(Open) = 1..6 /\ Len(Open) <= Len(s)
      BY <1>1, <1>3
    <3> QED
      BY <3>1, <3>2
  <2>2. SubSeq(Open, 1, Len(Open)) = SubSeq(s, 1, Len(Open))
    BY <1>1, <1>3, <2>1, Heads
  <2> QED
    BY <2>1, <2>2 DEF IsPrefix
<1>5. IsSuffix(Close, s)
  <2> DEFINE r == Reverse(s)
             c == Reverse(Close)
  <2>1. r \in Seq(Lexemes) /\ Len(r) = Len(s) /\ \A i \in 1..Len(s) : r[i] = s[(Len(s) - i) + 1]
    BY <1>1, ReverseIs
  <2>2. c \in Seq(Lexemes) /\ Len(c) = 10 /\ \A i \in 1..10 : c[i] = Close[(10 - i) + 1]
    <3>1. c \in Seq(Lexemes) /\ Len(c) = Len(Close)
      BY <1>3, ReverseIs
    <3>2. \A i \in 1..Len(Close) : c[i] = Close[(Len(Close) - i) + 1]
      BY <1>3, ReverseIs
    <3> HIDE DEF c
    <3> QED
      BY <1>3, <3>1, <3>2
  <2> HIDE DEF r, c
  <2>3. ASSUME NEW i \in 1..10 PROVE c[i] = r[i]
    <3> DEFINE k == (10 - i) + 1
    <3>1. k \in 1..10 /\ FieldEnd(s) + k = (Len(s) - i) + 1 /\ i \in 1..Len(s)
      BY <1>1
    <3>2. c[i] = Close[k]
      BY <2>2
    <3> HIDE DEF k
    <3> QED
      BY <1>2, <2>1, <3>1, <3>2
  <2>4. SubSeq(c, 1, Len(c)) = SubSeq(r, 1, Len(c)) /\ Len(c) <= Len(r)
    BY <1>1, <2>1, <2>2, <2>3, Heads
  <2> QED
    BY <2>4 DEF IsSuffix, IsPrefix, r, c
<1> QED
  BY <1>1, <1>3, <1>4, <1>5, FieldReads DEF Parses

-----------------------------------------------------------------------------
(***************************************************************************)
(* The payload of a report, lexeme by lexeme.                              *)
(***************************************************************************)

(* Where the lexeme j of the report lies in its payload: behind at[j].     *)
Lies(r, s, at, j) ==
    /\ r[j] \in {"nl", "quote"} =>
           /\ at[j + 1] = at[j] + 2 /\ s[at[j] + 1] = "bs"
           /\ s[at[j] + 2] = IF r[j] = "nl" THEN "n" ELSE "quote"
    /\ r[j] \notin {"nl", "quote"} => at[j + 1] = at[j] + 1 /\ s[at[j] + 1] = r[j]

Laid(r, s, at) ==
    /\ r \in Seq(Words \cup Marks) /\ s \in Seq(Lexemes) /\ Len(s) >= 16
    /\ \A i \in 1..6 : s[i] = Open[i]
    /\ \A i \in 1..10 : s[FieldEnd(s) + i] = Close[i]
    /\ at \in [1..(Len(r) + 1) -> Nat] /\ at[1] = 6 /\ at[Len(r) + 1] = FieldEnd(s)
    /\ \A j \in 1..Len(r) : Lies(r, s, at, j)

(* It lies there.                                                          *)
LEMMA PayloadLaid ==
  ASSUME NEW r \in Seq(Words \cup Marks)
  PROVE  \E at : Laid(r, Payload(r), at)
<1> DEFINE n == Len(r)
           code == Encoding(r)
           e == Encode(r)
           p == Payload(r)
           at == [j \in 1..(n + 1) |-> 6 + Len(code[j - 1])]
<1>1. n \in Nat /\ r \in Seq(Lexemes) /\ {"bs", "n", "quote"} \subseteq Lexemes
  <2>1. Words \cup Marks \subseteq Lexemes /\ {"bs", "n", "quote"} \subseteq Lexemes
    BY DEF Lexemes, Marks
  <2> QED
    BY <2>1
<1>2. /\ \A i \in 0..n : code[i] \in Seq(Lexemes)
      /\ code[0] = <<>>
      /\ \A i \in 1..n : code[i] = code[i - 1] \o Escape(r[i])
  BY <1>1, EncodingIs
<1>3. e = code[n]
  BY DEF Encode
<1> HIDE DEF code, n
<1> DEFINE Ok(m) == \A i \in 0..m : Stands(code[m], 0, code[i])
           Bad == {m \in 0..n : ~Ok(m)}
<1>4. ASSUME NEW m \in 0..n PROVE Stands(code[m], 0, code[m])
  <2>1. code[m] \in Seq(Lexemes)
    BY <1>2
  <2> QED
    BY <2>1 DEF Stands
<1>5. ASSUME NEW m \in 1..n
      PROVE  /\ Escape(r[m]) \in Seq(Lexemes) /\ Len(Escape(r[m])) \in 1..2
             /\ Stands(code[m], 0, code[m - 1])
             /\ Stands(code[m], Len(code[m - 1]), Escape(r[m]))
             /\ Len(code[m]) = Len(code[m - 1]) + Len(Escape(r[m]))
  <2>1. m - 1 \in 0..n /\ m \in 0..n /\ r[m] \in Lexemes
    BY <1>1 DEF n
  <2>2. Escape(r[m]) \in Seq(Lexemes) /\ Len(Escape(r[m])) \in 1..2
    BY <1>1, <2>1 DEF Escape
  <2>3. code[m - 1] \in Seq(Lexemes) /\ code[m] = code[m - 1] \o Escape(r[m])
    BY <1>2, <2>1
  <2> QED
    BY <2>2, <2>3, Joined
<1>6. \A m \in 1..n : m \in Bad => m - 1 \in Bad
  <2> SUFFICES ASSUME NEW m \in 1..n, m - 1 \notin Bad, NEW i \in 0..m
               PROVE  Stands(code[m], 0, code[i])
    OBVIOUS
  <2>1. m - 1 \in 0..n /\ m \in 0..n
    BY <1>1
  <2>2. CASE i = m
    BY <1>4, <2>1, <2>2
  <2>3. CASE i # m
    <3>1. i \in 0..(m - 1) /\ i \in 0..n
      BY <1>1, <2>3
    <3>2. Stands(code[m - 1], 0, code[i])
      BY <2>1, <3>1
    <3>3. Stands(code[m], 0, code[m - 1])
      BY <1>5
    <3>4. code[m] \in Seq(Lexemes) /\ code[m - 1] \in Seq(Lexemes) /\ code[i] \in Seq(Lexemes)
      BY <1>2, <2>1, <3>1
    <3>5. Stands(code[m], 0 + 0, code[i])
      BY <3>2, <3>3, <3>4, StandsWithin
    <3>6. 0 + 0 = 0
      OBVIOUS
    <3> QED
      BY <3>5, <3>6
  <2> QED
    BY <2>2, <2>3
<1>7. 0 \notin Bad
  <2>1. Ok(0)
    <3> SUFFICES ASSUME NEW i \in 0..0 PROVE Stands(code[0], 0, code[i])
      OBVIOUS
    <3>1. i = 0 /\ 0 \in 0..n
      BY <1>1
    <3> QED
      BY <1>4, <3>1
  <2> QED
    BY <2>1
<1>8. \A i \in 0..n : Stands(e, 0, code[i])
  <2>1. Bad \subseteq 0..n
    OBVIOUS
  <2>2. Bad = {}
    <3> HIDE DEF Bad
    <3> QED
      BY <1>1, <1>6, <1>7, <2>1, LoopKeeps
  <2>3. n \in 0..n
    BY <1>1
  <2>4. Ok(n)
    BY <2>2, <2>3
  <2> QED
    BY <1>3, <2>4
<1> HIDE DEF Ok, Bad
<1>9. /\ Open \in Seq(Lexemes) /\ Len(Open) = 6 /\ Close \in Seq(Lexemes) /\ Len(Close) = 10
  <2>1. {"lbrace", "rbrace", "quote", "word", "sep", "comma"} \subseteq Lexemes
    BY DEF Lexemes, Words, Marks
  <2> QED
    BY <2>1 DEF Open, Close
<1>10. e \in Seq(Lexemes)
  <2>1. n \in 0..n
    BY <1>1
  <2> QED
    BY <1>2, <1>3, <2>1
<1> DEFINE oe == Open \o e
<1>11. /\ oe \in Seq(Lexemes) /\ Len(oe) = 6 + Len(e)
       /\ Stands(oe, 0, Open) /\ Stands(oe, 6, e)
  BY <1>9, <1>10, Joined
<1>12. p = oe \o Close
  BY DEF Payload
<1> HIDE DEF oe, e, p
<1>13. /\ p \in Seq(Lexemes) /\ Len(p) = 6 + Len(e) + 10
       /\ Stands(p, 0, oe) /\ Stands(p, 6 + Len(e), Close)
  <2>1. /\ p \in Seq(Lexemes) /\ Len(p) = Len(oe) + Len(Close)
        /\ Stands(p, 0, oe) /\ Stands(p, Len(oe), Close)
    BY <1>9, <1>11, <1>12, Joined
  <2> QED
    BY <1>9, <1>11, <2>1
<1>14. Stands(p, 0, Open) /\ Stands(p, 6, e)
  <2>1. Stands(p, 0 + 0, Open)
    BY <1>9, <1>11, <1>13, StandsWithin
  <2>2. Stands(p, 0 + 6, e)
    BY <1>10, <1>11, <1>13, StandsWithin
  <2>3. 0 + 0 = 0 /\ 0 + 6 = 6
    OBVIOUS
  <2> QED
    BY <2>1, <2>2, <2>3
<1>15. Len(e) \in Nat /\ FieldEnd(p) = 6 + Len(e) /\ Len(p) >= 16
  <2>1. Len(e) \in Nat
    BY <1>10
  <2> QED
    BY <1>13, <2>1 DEF FieldEnd
<1>16. /\ \A i \in 1..6 : p[i] = Open[i]
       /\ \A i \in 1..10 : p[FieldEnd(p) + i] = Close[i]
  <2>1. \A i \in 1..6 : p[0 + i] = Open[i]
    BY <1>9, <1>14 DEF Stands
  <2>2. \A i \in 1..10 : p[(6 + Len(e)) + i] = Close[i]
    BY <1>9, <1>13 DEF Stands
  <2>3. \A i \in 1..6 : 0 + i = i
    OBVIOUS
  <2> QED
    BY <1>15, <2>1, <2>2, <2>3
<1>17. at \in [1..(n + 1) -> Nat] /\ at[1] = 6 /\ at[n + 1] = FieldEnd(p)
  <2>1. \A j \in 1..(n + 1) : Len(code[j - 1]) \in Nat
    <3> SUFFICES ASSUME NEW j \in 1..(n + 1) PROVE Len(code[j - 1]) \in Nat
      OBVIOUS
    <3>1. j - 1 \in 0..n
      BY <1>1
    <3>2. code[j - 1] \in Seq(Lexemes)
      BY <1>2, <3>1
    <3> QED
      BY <3>2
  <2>2. 1 \in 1..(n + 1) /\ n + 1 \in 1..(n + 1) /\ 1 - 1 = 0 /\ (n + 1) - 1 = n /\ Len(<<>>) = 0
    BY <1>1
  <2>3. at[1] = 6 + Len(code[0]) /\ at[n + 1] = 6 + Len(code[n])
    BY <2>2
  <2>4. at \in [1..(n + 1) -> Nat]
    BY <2>1
  <2> QED
    BY <1>2, <1>3, <1>15, <2>2, <2>3, <2>4
<1>18. ASSUME NEW j \in 1..n PROVE Lies(r, p, at, j)
  <2>1. /\ j \in 1..(n + 1) /\ j + 1 \in 1..(n + 1) /\ (j + 1) - 1 = j
        /\ j - 1 \in 0..n /\ j \in 0..n
    BY <1>1
  <2> DEFINE a == Len(code[j - 1])
             x == Escape(r[j])
  <2>2. at[j] = 6 + a /\ at[j + 1] = 6 + Len(code[j])
    BY <2>1
  <2>3. code[j - 1] \in Seq(Lexemes) /\ code[j] \in Seq(Lexemes)
    BY <1>2, <2>1
  <2>4. a \in Nat /\ Len(code[j]) = a + Len(x) /\ x \in Seq(Lexemes) /\ Len(x) \in 1..2
    <3>1. a \in Nat
      BY <2>3
    <3> HIDE DEF a, x
    <3> QED
      BY <1>5, <3>1 DEF a, x
  <2>5. Stands(e, 0 + a, x)
    <3>1. Stands(code[j], a, x) /\ Stands(e, 0, code[j])
      BY <1>5, <1>8, <2>1
    <3> HIDE DEF a, x
    <3> QED
      BY <1>10, <2>3, <2>4, <3>1, StandsWithin
  <2> HIDE DEF a
  <2>6. Stands(p, 6 + a, x)
    <3>1. 0 + a = a
      BY <2>4
    <3>2. Stands(e, a, x)
      BY <2>5, <3>1
    <3> HIDE DEF x
    <3> QED
      BY <1>10, <1>13, <1>14, <2>4, <3>2, StandsWithin
  <2> DEFINE o == at[j]
  <2>7. o = 6 + a /\ at[j + 1] = o + Len(x) /\ \A k \in 1..Len(x) : p[o + k] = x[k]
    <3>1. \A k \in 1..Len(x) : p[6 + a + k] = x[k]
      BY <2>6 DEF Stands
    <3> HIDE DEF x, at
    <3>2. Len(x) \in Nat
      BY <2>4
    <3>3. o = 6 + a /\ at[j + 1] = o + Len(x)
      BY <2>2, <2>4, <3>2
    <3> QED
      BY <3>1, <3>3
  <2> HIDE DEF o, at
  <2>8. CASE r[j] = "nl"
    <3>1. Len(x) = 2 /\ x[1] = "bs" /\ x[2] = "n"
      BY <2>8 DEF Escape
    <3> HIDE DEF x
    <3>2. at[j + 1] = o + 2 /\ p[o + 1] = "bs" /\ p[o + 2] = "n"
      BY <2>7, <3>1
    <3> QED
      BY <2>8, <3>2 DEF Lies, o
  <2>9. CASE r[j] = "quote"
    <3>1. Len(x) = 2 /\ x[1] = "bs" /\ x[2] = "quote"
      BY <2>9 DEF Escape
    <3> HIDE DEF x
    <3>2. at[j + 1] = o + 2 /\ p[o + 1] = "bs" /\ p[o + 2] = "quote"
      BY <2>7, <3>1
    <3> QED
      BY <2>9, <3>2 DEF Lies, o
  <2>10. CASE r[j] \notin {"nl", "quote"}
    <3>1. Len(x) = 1 /\ x[1] = r[j]
      BY <2>10 DEF Escape
    <3> HIDE DEF x
    <3>2. at[j + 1] = o + 1 /\ p[o + 1] = r[j]
      BY <2>7, <3>1
    <3> QED
      BY <2>10, <3>2 DEF Lies, o
  <2> QED
    BY <2>8, <2>9, <2>10
<1> HIDE DEF at
<1>19. Laid(r, p, at)
  BY <1>13, <1>15, <1>16, <1>17, <1>18 DEF Laid, n
<1> QED
  BY <1>19 DEF p

(* One lexeme behind the other.                                            *)
LEMMA LaidInOrder ==
  ASSUME NEW r, NEW s, NEW at, Laid(r, s, at)
  PROVE  /\ Len(r) \in Nat /\ FieldEnd(s) \in Nat /\ FieldEnd(s) >= 6
         /\ \A j, k \in 1..(Len(r) + 1) : j <= k => at[j] + (k - j) <= at[k]
         /\ \A j \in 1..(Len(r) + 1) : at[j] \in Nat /\ at[j] >= 6 /\ at[j] <= FieldEnd(s)
<1> DEFINE n == Len(r)
<1>1. /\ n \in Nat /\ at \in [1..(n + 1) -> Nat] /\ at[1] = 6 /\ at[n + 1] = FieldEnd(s)
      /\ \A j \in 1..n : Lies(r, s, at, j)
  <2>1. r \in Seq(Words \cup Marks)
    BY DEF Laid
  <2>2. n \in Nat
    BY <2>1
  <2> QED
    BY <2>2 DEF Laid
<1> HIDE DEF n
<1>2. \A j \in 1..n : at[j + 1] >= at[j] + 1 /\ at[j] \in Nat /\ at[j + 1] \in Nat
  <2> SUFFICES ASSUME NEW j \in 1..n PROVE at[j + 1] >= at[j] + 1 /\ at[j] \in Nat /\ at[j + 1] \in Nat
    OBVIOUS
  <2>1. j \in 1..(n + 1) /\ j + 1 \in 1..(n + 1)
    BY <1>1
  <2>2. at[j + 1] = at[j] + 2 \/ at[j + 1] = at[j] + 1
    BY <1>1 DEF Lies
  <2> QED
    BY <1>1, <2>1, <2>2
<1> DEFINE Ok(k) == \A j \in 1..(k + 1) : at[j] + ((k + 1) - j) <= at[k + 1]
           Bad == {k \in 0..n : ~Ok(k)}
<1>3. 0 \notin Bad
  <2>1. Ok(0)
    <3> SUFFICES ASSUME NEW j \in 1..(0 + 1) PROVE at[j] + ((0 + 1) - j) <= at[0 + 1]
      OBVIOUS
    <3>1. j = 1
      OBVIOUS
    <3> QED
      BY <1>1, <3>1
  <2> QED
    BY <2>1
<1>4. \A k \in 1..n : k \in Bad => k - 1 \in Bad
  <2> SUFFICES ASSUME NEW k \in 1..n, k - 1 \notin Bad, NEW j \in 1..(k + 1)
               PROVE  at[j] + ((k + 1) - j) <= at[k + 1]
    OBVIOUS
  <2>1. k - 1 \in 0..n /\ k \in Nat /\ at[k + 1] \in Nat /\ at[k] \in Nat /\ at[k + 1] >= at[k] + 1
    BY <1>1, <1>2
  <2>2. CASE j = k + 1
    BY <2>1, <2>2
  <2>3. CASE j # k + 1
    <3>1. j \in 1..((k - 1) + 1) /\ (k - 1) + 1 = k /\ j \in 1..n
      BY <1>1, <2>1, <2>3
    <3>2. at[j] + (((k - 1) + 1) - j) <= at[(k - 1) + 1]
      BY <2>1, <3>1
    <3>3. at[j] + (k - j) <= at[k]
      BY <3>1, <3>2
    <3>4. at[j] \in Nat
      BY <1>2, <3>1
    <3> QED
      BY <2>1, <3>1, <3>3, <3>4
  <2> QED
    BY <2>2, <2>3
<1>5. Bad = {}
  <2>1. Bad \subseteq 0..n
    OBVIOUS
  <2> HIDE DEF Bad
  <2> QED
    BY <1>1, <1>3, <1>4, <2>1, LoopKeeps
<1>6. ASSUME NEW j \in 1..(n + 1), NEW k \in 1..(n + 1), j <= k
      PROVE  at[j] + (k - j) <= at[k]
  <2> DEFINE h == k - 1
  <2>1. h \in 0..n /\ h + 1 = k /\ j \in 1..(h + 1)
    BY <1>1, <1>6
  <2> HIDE DEF h
  <2>2. at[j] + ((h + 1) - j) <= at[h + 1]
    BY <1>5, <2>1
  <2> QED
    BY <2>1, <2>2
<1>7. FieldEnd(s) \in Nat /\ FieldEnd(s) >= 6
  <2>1. 1 \in 1..(n + 1) /\ n + 1 \in 1..(n + 1) /\ 1 <= n + 1
    BY <1>1
  <2>2. at[1] + ((n + 1) - 1) <= at[n + 1] /\ at[n + 1] \in Nat
    BY <1>1, <1>6, <2>1
  <2> QED
    BY <1>1, <2>2
<1>8. ASSUME NEW j \in 1..(n + 1) PROVE at[j] \in Nat /\ at[j] >= 6 /\ at[j] <= FieldEnd(s)
  <2>1. 1 \in 1..(n + 1) /\ n + 1 \in 1..(n + 1) /\ 1 <= j /\ j <= n + 1
    BY <1>1
  <2>2. at[1] + (j - 1) <= at[j] /\ at[j] + ((n + 1) - j) <= at[n + 1]
    BY <1>6, <2>1
  <2>3. at[j] \in Nat
    BY <1>1
  <2> QED
    BY <1>1, <1>7, <2>1, <2>2, <2>3
<1> QED
  BY <1>1, <1>6, <1>7, <1>8 DEF n

(* Nothing else is in the field.                                           *)
LEMMA LaidAll ==
  ASSUME NEW r, NEW s, NEW at, Laid(r, s, at), NEW i \in 7..FieldEnd(s)
  PROVE  \E j \in 1..Len(r) :
            \/ /\ i = at[j] + 1
               /\ \/ r[j] \notin {"nl", "quote"} /\ s[i] = r[j] /\ at[j + 1] = i
                  \/ r[j] \in {"nl", "quote"} /\ s[i] = "bs" /\ at[j + 1] = i + 1
            \/ /\ i = at[j] + 2 /\ r[j] \in {"nl", "quote"} /\ at[j + 1] = i
               /\ s[i] = (IF r[j] = "nl" THEN "n" ELSE "quote") /\ s[i - 1] = "bs"
<1> DEFINE n == Len(r)
           Behind1 == {k \in 1..(n + 1) : i <= at[k]}
<1>1. /\ n \in Nat /\ FieldEnd(s) \in Nat /\ at[1] = 6 /\ at[n + 1] = FieldEnd(s)
      /\ \A k \in 1..(n + 1) : at[k] \in Nat
      /\ \A j \in 1..n : Lies(r, s, at, j)
  BY LaidInOrder DEF Laid
<1> HIDE DEF n
<1>2. n + 1 \in Behind1 /\ Behind1 \subseteq Nat
  BY <1>1
<1>3. PICK k \in Behind1 : \A y \in Behind1 : k <= y
  <2> HIDE DEF Behind1
  <2> QED
    BY <1>2, FirstOf
<1>4. k \in 1..(n + 1) /\ i <= at[k]
  OBVIOUS
<1>5. k # 1
  BY <1>1, <1>4
<1> DEFINE j == k - 1
<1>6. j \in 1..n /\ j + 1 = k /\ j \in 1..(n + 1) /\ j < k
  BY <1>1, <1>4, <1>5
<1> HIDE DEF j
<1>7. ~(i <= at[j])
  BY <1>3, <1>6
<1>8. at[j] \in Nat /\ at[j + 1] \in Nat /\ i <= at[j + 1] /\ at[j] < i
  BY <1>1, <1>4, <1>6, <1>7
<1>9. Lies(r, s, at, j)
  BY <1>1, <1>6
<1>10. CASE r[j] \notin {"nl", "quote"}
  <2>1. at[j + 1] = at[j] + 1 /\ s[at[j] + 1] = r[j]
    BY <1>9, <1>10 DEF Lies
  <2>2. i = at[j] + 1
    BY <1>8, <2>1
  <2> QED
    BY <1>6, <1>10, <2>1, <2>2 DEF n
<1>11. CASE r[j] \in {"nl", "quote"}
  <2>1. /\ at[j + 1] = at[j] + 2 /\ s[at[j] + 1] = "bs"
        /\ s[at[j] + 2] = IF r[j] = "nl" THEN "n" ELSE "quote"
    BY <1>9, <1>11 DEF Lies
  <2>2. i = at[j] + 1 \/ (i = at[j] + 2 /\ i - 1 = at[j] + 1)
    BY <1>8, <2>1
  <2>3. i = at[j] + 1 => at[j + 1] = i + 1
    BY <1>8, <2>1
  <2> QED
    BY <1>6, <1>11, <2>1, <2>2, <2>3 DEF n
<1> QED
  BY <1>10, <1>11

(* The payload is framed when it is lexed.                                 *)
LEMMA LaidFramed ==
  ASSUME NEW r, NEW s, NEW at, Laid(r, s, at), Lexed(s)
  PROVE  Framed(s)
<1>1. /\ r \in Seq(Words \cup Marks) /\ s \in Seq(Lexemes) /\ Len(s) >= 16
      /\ \A i \in 1..6 : s[i] = Open[i]
      /\ \A i \in 1..10 : s[FieldEnd(s) + i] = Close[i]
      /\ \A j \in 1..Len(r) : Lies(r, s, at, j)
  BY DEF Laid
<1>2. /\ FieldEnd(s) \in Nat /\ Len(r) \in Nat
      /\ \A j \in 1..(Len(r) + 1) : at[j] \in Nat /\ at[j] >= 6 /\ at[j] <= FieldEnd(s)
  BY LaidInOrder
<1>3. ASSUME NEW i \in 7..FieldEnd(s) PROVE FieldAt(s, i)
  <2>1. PICK j \in 1..Len(r) :
            \/ /\ i = at[j] + 1
               /\ \/ r[j] \notin {"nl", "quote"} /\ s[i] = r[j] /\ at[j + 1] = i
                  \/ r[j] \in {"nl", "quote"} /\ s[i] = "bs" /\ at[j + 1] = i + 1
            \/ /\ i = at[j] + 2 /\ r[j] \in {"nl", "quote"} /\ at[j + 1] = i
               /\ s[i] = (IF r[j] = "nl" THEN "n" ELSE "quote") /\ s[i - 1] = "bs"
    BY LaidAll
  <2>2. j \in 1..(Len(r) + 1) /\ j + 1 \in 1..(Len(r) + 1)
    BY <1>2
  <2>3. at[j] \in Nat /\ at[j] >= 6 /\ at[j + 1] \in Nat /\ at[j + 1] <= FieldEnd(s) /\ i \in Nat
    BY <1>2, <2>2
  <2>4. CASE i = at[j] + 1 /\ r[j] \notin {"nl", "quote"} /\ s[i] = r[j]
    <3>1. s[i] \in (Words \cup Marks) \ {"nl", "quote"}
      BY <1>1, <2>4
    <3>2. s[i] \notin {"nl", "lbrace", "rbrace", "bs", "n", "quote"}
      BY <3>1 DEF Words, Marks
    <3> QED
      BY <3>2 DEF FieldAt
  <2>5. CASE i = at[j] + 1 /\ r[j] \in {"nl", "quote"} /\ s[i] = "bs" /\ at[j + 1] = i + 1
    <3>1. i < FieldEnd(s) /\ at[j] + 2 = i + 1
      BY <1>2, <2>3, <2>5
    <3>2. s[at[j] + 2] \in {"n", "quote"}
      BY <1>1, <2>5 DEF Lies
    <3>3. s[i + 1] \in {"n", "quote"}
      BY <3>1, <3>2
    <3> QED
      BY <2>5, <3>1, <3>3 DEF FieldAt
  <2>6. CASE /\ i = at[j] + 2 /\ r[j] \in {"nl", "quote"}
             /\ s[i] = (IF r[j] = "nl" THEN "n" ELSE "quote") /\ s[i - 1] = "bs"
    <3>1. i > 7 /\ s[i] \in {"n", "quote"}
      BY <2>3, <2>6
    <3> QED
      BY <2>6, <3>1 DEF FieldAt
  <2> QED
    BY <2>1, <2>4, <2>5, <2>6
<1> QED
  BY <1>1, <1>3 DEF Framed

(* An address lies behind a newline where one is in the report.            *)
LEMMA LaidNoMail ==
  ASSUME NEW r, NEW s, NEW at, Laid(r, s, at), Framed(s), ~AddressAtLineStart(r)
  PROVE  NoMail(s)
<1> SUFFICES ASSUME NEW i \in 2..Len(s), s[i] = "email", s[i - 1] = "n" PROVE FALSE
  BY DEF NoMail
<1>1. /\ FieldEnd(s) \in Nat /\ Len(r) \in Nat /\ Len(s) \in Nat
      /\ \A j, k \in 1..(Len(r) + 1) : j <= k => at[j] + (k - j) <= at[k]
      /\ \A j \in 1..(Len(r) + 1) : at[j] \in Nat
  BY LaidInOrder, FrameIs
<1>2. i \in 7..FieldEnd(s) /\ i - 1 \in 7..FieldEnd(s)
  <2> DEFINE h == i - 1
  <2>1. i \in 1..Len(s) /\ h \in 1..Len(s) /\ s[h] = "n"
    BY <1>1
  <2> HIDE DEF h
  <2>2. {"email", "n"} \subseteq (Words \cup {"n", "bs"}) \ {"word"}
    BY DEF Words
  <2>3. i \in 7..FieldEnd(s) /\ h \in 7..FieldEnd(s)
    BY <2>1, <2>2, WordsInField
  <2> QED
    BY <2>3 DEF h
<1>3. PICK j \in 1..Len(r) : r[j] = "email" /\ i = at[j] + 1
  BY <1>2, LaidAll
<1>4. PICK k \in 1..Len(r) : r[k] = "nl" /\ at[k + 1] = i - 1
  <2> DEFINE h == i - 1
  <2>1. h \in 7..FieldEnd(s) /\ s[h] = "n"
    BY <1>2
  <2> HIDE DEF h
  <2>2. PICK k \in 1..Len(r) :
            \/ /\ h = at[k] + 1
               /\ \/ r[k] \notin {"nl", "quote"} /\ s[h] = r[k] /\ at[k + 1] = h
                  \/ r[k] \in {"nl", "quote"} /\ s[h] = "bs" /\ at[k + 1] = h + 1
            \/ /\ h = at[k] + 2 /\ r[k] \in {"nl", "quote"} /\ at[k + 1] = h
               /\ s[h] = (IF r[k] = "nl" THEN "n" ELSE "quote") /\ s[h - 1] = "bs"
    BY <2>1, LaidAll
  <2>3. r[k] # "n"
    <3>1. r[k] \in Words \cup Marks
      BY DEF Laid
    <3> QED
      BY <3>1 DEF Words, Marks
  <2>4. r[k] = "nl" /\ at[k + 1] = h
    BY <2>1, <2>2, <2>3
  <2> QED
    BY <2>4 DEF h
<1>5. k + 1 = j
  <2>1. j \in 1..(Len(r) + 1) /\ k + 1 \in 1..(Len(r) + 1) /\ at[j] = at[k + 1] /\ at[j] \in Nat
    BY <1>1, <1>3, <1>4
  <2> DEFINE h == k + 1
  <2>2. h \in 1..(Len(r) + 1) /\ at[j] = at[h] /\ h \in Int /\ j \in Int
    BY <2>1
  <2> HIDE DEF h
  <2>3. ~(j < h) /\ ~(h < j)
    BY <1>1, <2>1, <2>2
  <2> QED
    BY <2>2, <2>3 DEF h
<1>6. j \in 2..Len(r) /\ r[j - 1] = "nl"
  BY <1>1, <1>3, <1>4, <1>5
<1> QED
  BY <1>3, <1>6 DEF AddressAtLineStart

(* Where a key and the value it is assigned lie.                           *)
KeyLies(r, s, at, i, j) ==
    /\ i = at[j] + 1 /\ AssignsTo(r, j, s[i])
    /\ Assigns(r, j) \in 1..(Len(r) + 1)
    /\ \A k \in Assigns(r, j)..Len(r) : at[k] + 1 >= AfterSep(s, i + 1)
    /\ \A k \in 1..Len(r) :
           r[k] \notin Space /\ at[k] + 1 >= AfterSep(s, i + 1) => k >= Assigns(r, j)

(* They are the report's.                                                  *)
LEMMA KeyIsLaid ==
  ASSUME NEW r, NEW s, NEW at, Laid(r, s, at), Framed(s),
         NEW i \in 7..FieldEnd(s), s[i] \in {"pass", "user"}, Boundary(s, i), AfterSep(s, i + 1) # 0
  PROVE  \E j \in 1..Len(r) : KeyLies(r, s, at, i, j)
<1> DEFINE n == Len(r)
           v == AfterSep(s, i + 1)
<1>1. /\ FieldEnd(s) \in Nat /\ FieldEnd(s) >= 6 /\ n \in Nat /\ Len(s) \in Nat /\ FieldEnd(s) + 10 = Len(s)
      /\ \A j, k \in 1..(n + 1) : j <= k => at[j] + (k - j) <= at[k]
      /\ \A j \in 1..(n + 1) : at[j] \in Nat /\ at[j] >= 6 /\ at[j] <= FieldEnd(s)
      /\ s \in Seq(Lexemes) /\ i \in Nat /\ s[FieldEnd(s) + 1] = "quote"
  <2>1. /\ n \in Nat /\ FieldEnd(s) \in Nat /\ FieldEnd(s) >= 6
        /\ \A j, k \in 1..(n + 1) : j <= k => at[j] + (k - j) <= at[k]
        /\ \A j \in 1..(n + 1) : at[j] \in Nat /\ at[j] >= 6 /\ at[j] <= FieldEnd(s)
    BY LaidInOrder
  <2>2. /\ Len(s) \in Nat /\ FieldEnd(s) + 10 = Len(s)
        /\ s \in Seq(Lexemes) /\ s[FieldEnd(s) + 1] = "quote"
    BY FrameIs
  <2>3. i \in Nat
    BY <2>1
  <2> QED
    BY <2>1, <2>2, <2>3
<1>0. /\ n \in Nat /\ Len(s) \in Nat /\ FieldEnd(s) \in Nat /\ i \in Nat /\ i >= 7 /\ i <= FieldEnd(s)
      /\ FieldEnd(s) + 10 = Len(s)
  BY <1>1
<1>2. r \in Seq(Words \cup Marks) /\ \A j \in 1..n : Lies(r, s, at, j)
  BY DEF Laid
<1>3. PICK j \in 1..n : r[j] = s[i] /\ i = at[j] + 1 /\ at[j + 1] = i
  BY LaidAll
<1>4. j > 1 => r[j - 1] # "nl"
  <2> SUFFICES ASSUME j > 1, r[j - 1] = "nl" PROVE FALSE
    OBVIOUS
  <2> DEFINE h == j - 1
  <2>1. h \in 1..n /\ h + 1 = j /\ r[h] = "nl" /\ h \in 1..(n + 1)
    <3> HIDE DEF n
    <3> QED
      BY <1>0
  <2> HIDE DEF h
  <2>2. at[j] = at[h] + 2 /\ s[at[h] + 2] = "n"
    BY <1>2, <2>1 DEF Lies
  <2>3. s[i - 1] = "n" /\ i - 1 \in 1..Len(s)
    <3>1. i = at[j] + 1 /\ at[h] \in Nat
      BY <1>1, <1>3, <2>1
    <3>2. i - 1 = at[h] + 2
      BY <2>2, <3>1
    <3> QED
      BY <1>0, <2>2, <3>2
  <2>4. At(s, i - 1) = "n"
    BY <1>1, <2>3 DEF At
  <2> QED
    BY <2>4 DEF Boundary, WordEnds
<1>5. PICK q : Separates(s, i + 1, q, v)
  <2>1. i + 1 \in 1..(Len(s) + 1)
    BY <1>1
  <2> QED
    BY <1>1, <2>1, AfterSepFinds
<1>6. /\ q \in (i + 1)..Len(s) /\ s[q] = "sep" /\ \A x \in (i + 1)..(q - 1) : s[x] \in Space
      /\ v \in (q + 1)..(Len(s) + 1) /\ \A x \in (q + 1)..(v - 1) : s[x] \in Space
      /\ q \in Nat /\ v \in Nat
  <2>1. /\ q \in (i + 1)..Len(s) /\ s[q] = "sep" /\ \A x \in (i + 1)..(q - 1) : s[x] \in Space
        /\ v \in (q + 1)..(Len(s) + 1) /\ \A x \in (q + 1)..(v - 1) : s[x] \in Space
    BY <1>5 DEF Separates
  <2> HIDE DEF v
  <2> QED
    BY <1>1, <2>1
<1> HIDE DEF v, n
<1>7. q \in 7..FieldEnd(s)
  <2> SUFFICES ASSUME q > FieldEnd(s) PROVE FALSE
    BY <1>1, <1>6
  <2>1. q = FieldEnd(s) + 1 \/ FieldEnd(s) + 1 \in (i + 1)..(q - 1)
    BY <1>1, <1>6
  <2>2. "quote" \notin Space
    BY DEF Space
  <2> QED
    BY <1>1, <1>6, <2>1, <2>2
<1>8. PICK m \in 1..n : r[m] = "sep" /\ q = at[m] + 1 /\ at[m + 1] = q
  <2>1. \E m \in 1..Len(r) :
            \/ /\ q = at[m] + 1
               /\ \/ r[m] \notin {"nl", "quote"} /\ s[q] = r[m] /\ at[m + 1] = q
                  \/ r[m] \in {"nl", "quote"} /\ s[q] = "bs" /\ at[m + 1] = q + 1
            \/ /\ q = at[m] + 2 /\ r[m] \in {"nl", "quote"} /\ at[m + 1] = q
               /\ s[q] = (IF r[m] = "nl" THEN "n" ELSE "quote") /\ s[q - 1] = "bs"
    BY <1>7, LaidAll
  <2> QED
    BY <1>6, <2>1 DEF n
<1>9. ASSUME NEW a \in 1..(n + 1), NEW b \in 1..(n + 1), at[a] < at[b] PROVE a < b
  <2> SUFFICES ASSUME b <= a PROVE FALSE
    BY <1>1
  <2>1. at[b] + (a - b) <= at[a]
    BY <1>1
  <2> QED
    BY <1>1, <1>9, <2>1
<1>10. j < m /\ j \in 1..(n + 1) /\ m \in 1..(n + 1) /\ j + 1 \in 1..(n + 1) /\ m + 1 \in 1..(n + 1)
  <2>1. j \in 1..(n + 1) /\ m \in 1..(n + 1) /\ j + 1 \in 1..(n + 1) /\ m + 1 \in 1..(n + 1)
    BY <1>1
  <2>2. at[j] < at[m]
    <3>1. at[j] \in Nat /\ at[m] \in Nat
      BY <1>1, <2>1
    <3>2. i = at[j] + 1 /\ q = at[m] + 1 /\ q > i
      <4>1. q > i
        BY <1>0, <1>6
      <4> QED
        BY <1>3, <1>8, <4>1
    <3> QED
      BY <3>1, <3>2
  <2> QED
    BY <1>9, <2>1, <2>2
<1>11. \A a \in 1..n : s[at[a] + 1] \in Space => r[a] = s[at[a] + 1]
  <2>1. "bs" \notin Space
    BY DEF Space
  <2> QED
    BY <1>2, <2>1 DEF Lies
<1>12. \A x \in (j + 1)..(m - 1) : r[x] \in Space
  <2> SUFFICES ASSUME NEW x \in (j + 1)..(m - 1) PROVE r[x] \in Space
    OBVIOUS
  <2>1. x \in 1..n /\ x \in 1..(n + 1) /\ j + 1 <= x /\ x <= m
    BY <1>1, <1>10
  <2> DEFINE h == j + 1
  <2>2. h \in 1..(n + 1) /\ at[h] = i /\ h <= x
    BY <1>3, <1>10, <2>1
  <2> HIDE DEF h
  <2>3. at[h] + (x - h) <= at[x] /\ at[x] + (m - x) <= at[m]
    BY <1>1, <1>10, <2>1, <2>2
  <2>4. at[x] \in Nat /\ at[m] \in Nat /\ x < m
    BY <1>1, <1>10, <2>1
  <2>5. at[x] + 1 \in (i + 1)..(q - 1)
    <3>1. x \in Int /\ m \in Int /\ h \in Int
      BY <2>1, <2>2
    <3>2. i <= at[x] /\ at[x] < at[m]
      BY <2>2, <2>3, <2>4, <3>1
    <3>3. q = at[m] + 1
      BY <1>8
    <3> DEFINE a == at[x]
               e == at[m]
    <3>4. a \in Nat /\ e \in Nat /\ i <= a /\ a < e /\ q = e + 1
      BY <2>4, <3>2, <3>3
    <3> HIDE DEF a, e
    <3>5. a + 1 \in (i + 1)..(q - 1)
      BY <1>0, <3>4
    <3> QED
      BY <3>5 DEF a
  <2> QED
    BY <1>6, <1>11, <2>1, <2>5
<1> DEFINE w == Skip(r, m + 1, Space)
<1>13. /\ w \in (m + 1)..(n + 1)
       /\ \A x \in (m + 1)..(w - 1) : r[x] \in Space
       /\ w <= n => r[w] \notin Space
  BY <1>2, <1>10, SkipPasses DEF n
<1> HIDE DEF w
<1>14. Assigns(r, j) = w
  <2>1. m \in (j + 1)..n /\ j + 1 \in 1..(n + 1)
    BY <1>1, <1>10
  <2>2. Separates(r, j + 1, m, w)
    BY <1>8, <1>12, <1>13, <2>1 DEF Separates, n
  <2> QED
    BY <1>2, <2>1, <2>2, AfterSepIsAt DEF n, Assigns
<1>15. w \in Nat /\ w > 0 /\ w \in 1..(n + 1)
  BY <1>1, <1>10, <1>13
<1>16. AssignsTo(r, j, s[i])
  BY <1>3, <1>4, <1>14, <1>15 DEF AssignsTo
<1>17. ASSUME NEW k \in w..n PROVE at[k] + 1 >= v
  <2> SUFFICES ASSUME at[k] + 1 < v PROVE FALSE
    <3>1. k \in 1..(n + 1)
      BY <1>1, <1>15
    <3> QED
      BY <1>1, <1>6, <3>1
  <2>1. w \in 1..n /\ w \in 1..(n + 1) /\ k \in 1..(n + 1) /\ w <= k /\ w <= n
    BY <1>1, <1>15
  <2>2. at[w] + (k - w) <= at[k] /\ at[w] \in Nat /\ at[k] \in Nat
    BY <1>1, <2>1
  <2> DEFINE h == m + 1
  <2>3. h \in 1..(n + 1) /\ at[h] = q /\ h <= w /\ h \in Int
    BY <1>1, <1>8, <1>10, <1>13
  <2> HIDE DEF h
  <2>4. at[h] + (w - h) <= at[w]
    BY <1>1, <2>1, <2>3
  <2>5. at[w] + 1 \in (q + 1)..(v - 1)
    <3>1. w \in Int /\ k \in Int
      BY <1>15
    <3>4. q + (w - h) <= at[w] /\ h \in Int /\ h <= w /\ q \in Nat
      BY <1>6, <2>3, <2>4
    <3>5. q <= at[w]
      BY <2>2, <3>1, <3>4
    <3>6. at[w] <= at[k]
      BY <2>1, <2>2, <3>1
    <3>2. at[w] <= at[k] /\ q <= at[w]
      BY <3>5, <3>6
    <3>3. q \in Nat /\ v \in Nat
      BY <1>6
    <3> QED
      BY <2>2, <3>2, <3>3
  <2>6. s[at[w] + 1] \in Space
    BY <1>6, <2>5
  <2> QED
    BY <1>11, <1>13, <2>1, <2>6
<1>18. ASSUME NEW k \in 1..n, r[k] \notin Space, at[k] + 1 >= v PROVE k >= w
  <2> SUFFICES ASSUME k < w PROVE FALSE
    BY <1>1, <1>15
  <2>1. k \notin (m + 1)..(w - 1) /\ k \in 1..(n + 1) /\ k \in Int
    BY <1>1, <1>13, <1>18
  <2>2. k <= m
    BY <1>1, <1>15, <2>1
  <2>3. at[k] + (m - k) <= at[m] /\ at[k] \in Nat /\ at[m] \in Nat
    BY <1>1, <1>10, <2>1, <2>2
  <2>4. at[k] + 1 <= q /\ q < v
    <3>1. k \in Int /\ m \in Int
      BY <2>1
    <3>2. at[k] <= at[m]
      BY <2>2, <2>3, <3>1
    <3>3. q = at[m] + 1 /\ q \in Nat /\ v \in Nat /\ v \in (q + 1)..(Len(s) + 1)
      BY <1>6, <1>8
    <3>4. q < v
      BY <1>0, <3>3
    <3>5. at[k] + 1 <= q
      BY <2>3, <3>2, <3>3
    <3> QED
      BY <3>4, <3>5
  <2> QED
    <3>1. v \in Nat /\ q \in Nat
      BY <1>6
    <3> QED
      BY <1>18, <2>3, <2>4, <3>1
<1>19. KeyLies(r, s, at, i, j)
  BY <1>3, <1>14, <1>15, <1>16, <1>17, <1>18 DEF KeyLies, n, v
<1> QED
  BY <1>19 DEF n

(* A name that does not run into the end of the report ends in the field.  *)
LEMMA LaidUserEnds ==
  ASSUME NEW r, NEW s, NEW at, Laid(r, s, at), Framed(s), ~NameAtTheEnd(r)
  PROVE  UserEnds(s)
<1> SUFFICES ASSUME NEW i \in 7..FieldEnd(s), s[i] = "user", Boundary(s, i), AfterSep(s, i + 1) # 0
             PROVE  \E c \in AfterSep(s, i + 1)..FieldEnd(s) : s[c] = "comma"
  BY DEF UserEnds
<1>1. PICK j \in 1..Len(r) : KeyLies(r, s, at, i, j)
  BY KeyIsLaid
<1>2. /\ AssignsTo(r, j, "user") /\ Assigns(r, j) \in 1..(Len(r) + 1)
      /\ \A k \in Assigns(r, j)..Len(r) : at[k] + 1 >= AfterSep(s, i + 1)
  BY <1>1 DEF KeyLies
<1>3. PICK c \in Assigns(r, j)..Len(r) : r[c] = "comma"
  BY <1>2 DEF NameAtTheEnd
<1>4. /\ Len(r) \in Nat /\ FieldEnd(s) \in Nat
      /\ \A k \in 1..(Len(r) + 1) : at[k] \in Nat /\ at[k] >= 6 /\ at[k] <= FieldEnd(s)
  BY LaidInOrder
<1> DEFINE w == Assigns(r, j)
           v == AfterSep(s, i + 1)
<1>5. w \in 1..(Len(r) + 1) /\ c \in w..Len(r) /\ at[c] + 1 >= v
  BY <1>2, <1>3
<1>6. v \in Nat
  <2>1. s \in Seq(Lexemes) /\ FieldEnd(s) + 10 = Len(s) /\ Len(s) \in Nat
    BY FrameIs
  <2>2. i + 1 \in 0..(Len(s) + 1)
    BY <1>4, <2>1
  <2>3. AfterSep(s, i + 1) \in 0..(Len(s) + 1)
    BY <2>1, <2>2, AfterSepIs
  <2> QED
    BY <2>1, <2>3
<1> HIDE DEF w, v
<1>7. c \in 1..Len(r) /\ c \in 1..(Len(r) + 1) /\ c + 1 \in 1..(Len(r) + 1)
  BY <1>4, <1>5
<1>8. Lies(r, s, at, c)
  BY <1>7 DEF Laid
<1>9. at[c + 1] = at[c] + 1 /\ s[at[c] + 1] = "comma"
  BY <1>3, <1>8 DEF Lies
<1>10. at[c] + 1 \in v..FieldEnd(s)
  <2>1. at[c] \in Nat /\ at[c + 1] <= FieldEnd(s)
    BY <1>4, <1>7
  <2>2. at[c] + 1 >= v
    BY <1>5
  <2>3. at[c] + 1 <= FieldEnd(s)
    BY <1>9, <2>1
  <2> QED
    BY <1>4, <1>6, <2>1, <2>2, <2>3
<1> QED
  BY <1>9, <1>10 DEF v

(* A scheme word lies where one is in the report.                          *)
LEMMA SchemeIsLaid ==
  ASSUME NEW r, NEW s, NEW at, Laid(r, s, at), Framed(s), NEW k \in 1..Len(r),
         r[k] = "sp", BehindScheme(s, at[k] + 1)
  PROVE  BehindScheme(r, k)
<1>1. /\ Len(r) \in Nat /\ FieldEnd(s) \in Nat /\ Len(s) \in Nat /\ FieldEnd(s) + 10 = Len(s)
      /\ \A a, b \in 1..(Len(r) + 1) : a <= b => at[a] + (b - a) <= at[b]
      /\ \A a \in 1..(Len(r) + 1) : at[a] \in Nat /\ at[a] >= 6 /\ at[a] <= FieldEnd(s)
  BY LaidInOrder, FrameIs
<1>2. \A a \in 1..Len(r) : Lies(r, s, at, a)
  BY DEF Laid
<1>3. k \in 1..(Len(r) + 1) /\ at[k] \in Nat /\ at[k] <= FieldEnd(s) /\ k \in Nat
  BY <1>1
<1> DEFINE p == at[k] + 1
<1>4. PICK b \in 1..(p - 1) : s[b] = "bearer" /\ \A l \in (b + 1)..p : s[l] = "sp"
  BY DEF BehindScheme
<1>5. p \in Nat /\ p <= FieldEnd(s) + 1 /\ p - 1 = at[k]
  <2> DEFINE y == at[k]
  <2>1. y \in Nat /\ y <= FieldEnd(s) /\ FieldEnd(s) \in Nat
    BY <1>1, <1>3
  <2> HIDE DEF y
  <2>2. y + 1 \in Nat /\ y + 1 <= FieldEnd(s) + 1 /\ (y + 1) - 1 = y
    BY <2>1
  <2> QED
    BY <2>2 DEF y
<1> HIDE DEF p
<1>6. b \in 7..FieldEnd(s)
  <2>1. b \in 1..Len(s)
    BY <1>1, <1>5
  <2>2. "bearer" \in (Words \cup {"n", "bs"}) \ {"word"}
    BY DEF Words
  <2> QED
    BY <1>4, <2>1, <2>2, WordsInField
<1>7. PICK j \in 1..Len(r) : r[j] = "bearer" /\ b = at[j] + 1 /\ at[j + 1] = b
  BY <1>4, <1>6, LaidAll
<1>8. j \in 1..(Len(r) + 1) /\ j + 1 \in 1..(Len(r) + 1) /\ at[j] \in Nat /\ j \in Nat
  BY <1>1
<1>9. b <= at[k] /\ b \in Nat
  BY <1>3, <1>5, <1>6
<1>10. j < k
  <2> SUFFICES ASSUME k <= j PROVE FALSE
    BY <1>3, <1>8
  <2>1. at[k] + (j - k) <= at[j]
    BY <1>1, <1>3, <1>8
  <2>2. at[k] <= at[j]
    BY <1>3, <1>8, <2>1
  <2>3. b = at[j] + 1
    BY <1>7
  <2> QED
    BY <1>3, <1>8, <1>9, <2>2, <2>3
<1>11. ASSUME NEW l \in (j + 1)..k PROVE r[l] = "sp"
  <2> DEFINE h == j + 1
  <2>1. l \in 1..Len(r) /\ l \in 1..(Len(r) + 1) /\ h <= l /\ l <= k /\ h \in 1..(Len(r) + 1) /\ at[h] = b
        /\ h \in Nat /\ l \in Nat
    <3>1. at[h] = b /\ h \in 1..(Len(r) + 1) /\ h = j + 1
      BY <1>7, <1>8
    <3> HIDE DEF h
    <3>2. Len(r) \in Nat
      BY <1>1
    <3> QED
      BY <1>3, <1>8, <3>1, <3>2
  <2> HIDE DEF h
  <2>2. at[h] + (l - h) <= at[l] /\ at[l] + (k - l) <= at[k] /\ at[l] \in Nat
    BY <1>1, <1>3, <2>1
  <2>3. b <= at[l]
    BY <1>9, <2>1, <2>2
  <2>4. at[l] <= at[k]
    BY <1>3, <2>1, <2>2
  <2>5. at[l] + 1 \in (b + 1)..p
    BY <1>3, <1>5, <1>9, <2>2, <2>3, <2>4
  <2>6. s[at[l] + 1] = "sp"
    BY <1>4, <2>5 DEF p
  <2> QED
    BY <1>2, <2>1, <2>6 DEF Lies
<1>12. j \in 1..(k - 1)
  BY <1>3, <1>8, <1>10
<1> QED
  BY <1>7, <1>11, <1>12 DEF BehindScheme

(* A secret that no quote ends has what ends it before any.                *)
LEMMA LaidSecretsEnd ==
  ASSUME NEW r, NEW s, NEW at, Laid(r, s, at), Framed(s), ~SecretAtQuote(r)
  PROVE  SecretsEnd(s)
<1> SUFFICES ASSUME NEW i \in 7..FieldEnd(s), NEW q \in 7..FieldEnd(s),
                    s[i] = "pass", Boundary(s, i), AfterSep(s, i + 1) # 0,
                    q >= AfterSep(s, i + 1), s[q] = "bs", s[q + 1] = "quote"
             PROVE  \E k \in AfterSep(s, i + 1)..(q - 1) : ~Through(s, k)
  BY DEF SecretsEnd
<1>1. PICK j \in 1..Len(r) : KeyLies(r, s, at, i, j)
  BY KeyIsLaid
<1> DEFINE w == Assigns(r, j)
           v == AfterSep(s, i + 1)
<1>2. /\ AssignsTo(r, j, "pass") /\ w \in 1..(Len(r) + 1)
      /\ \A k \in w..Len(r) : at[k] + 1 >= v
      /\ \A k \in 1..Len(r) : r[k] \notin Space /\ at[k] + 1 >= v => k >= w
  BY <1>1 DEF KeyLies
<1>3. /\ Len(r) \in Nat /\ FieldEnd(s) \in Nat
      /\ \A a, b \in 1..(Len(r) + 1) : a <= b => at[a] + (b - a) <= at[b]
      /\ \A k \in 1..(Len(r) + 1) : at[k] \in Nat /\ at[k] >= 6 /\ at[k] <= FieldEnd(s)
  BY LaidInOrder
<1>4. v \in Nat
  <2>1. s \in Seq(Lexemes) /\ FieldEnd(s) + 10 = Len(s) /\ Len(s) \in Nat
    BY FrameIs
  <2>2. i + 1 \in 0..(Len(s) + 1)
    BY <1>3, <2>1
  <2>3. AfterSep(s, i + 1) \in 0..(Len(s) + 1)
    BY <2>1, <2>2, AfterSepIs
  <2> QED
    BY <2>1, <2>3
<1>5. PICK m \in 1..Len(r) : r[m] = "quote" /\ q = at[m] + 1
  <2>1. PICK m \in 1..Len(r) :
            \/ /\ q = at[m] + 1
               /\ \/ r[m] \notin {"nl", "quote"} /\ s[q] = r[m] /\ at[m + 1] = q
                  \/ r[m] \in {"nl", "quote"} /\ s[q] = "bs" /\ at[m + 1] = q + 1
            \/ /\ q = at[m] + 2 /\ r[m] \in {"nl", "quote"} /\ at[m + 1] = q
               /\ s[q] = (IF r[m] = "nl" THEN "n" ELSE "quote") /\ s[q - 1] = "bs"
    BY LaidAll
  <2>2. r[m] # "bs" /\ Lies(r, s, at, m)
    <3>1. r[m] \in Words \cup Marks /\ Lies(r, s, at, m)
      BY DEF Laid
    <3> QED
      BY <3>1 DEF Words, Marks
  <2>3. q = at[m] + 1 /\ r[m] \in {"nl", "quote"}
    BY <2>1, <2>2
  <2>4. at[m] \in Nat /\ q + 1 = at[m] + 2
    <3>1. m \in 1..(Len(r) + 1)
      BY <1>3
    <3>2. at[m] \in Nat
      BY <1>3, <3>1
    <3> QED
      BY <2>3, <3>2
  <2>5. r[m] # "nl"
    BY <2>2, <2>4 DEF Lies
  <2> QED
    BY <2>3, <2>5
<1>6. m \in w..Len(r)
  <2>1. "quote" \notin Space
    BY DEF Space
  <2>2. m >= w
    BY <1>2, <1>5, <2>1
  <2> QED
    BY <1>2, <1>3, <2>2
<1>7. PICK k \in w..(m - 1) : r[k] = "comma" \/ (r[k] = "sp" /\ ~BehindScheme(r, k))
  <2>1. ~ \A k \in w..(m - 1) : r[k] # "comma" /\ (r[k] = "sp" => BehindScheme(r, k))
    <3>1. AssignsTo(r, j, "pass") /\ r[m] = "quote" /\ m \in w..Len(r) /\ j \in DOMAIN r
      <4>1. r \in Seq(Words \cup Marks)
        BY DEF Laid
      <4> QED
        BY <1>2, <1>5, <1>6, <4>1
    <3> QED
      BY <3>1 DEF SecretAtQuote
  <2> QED
    BY <2>1
<1> HIDE DEF w, v
<1>8. k \in 1..Len(r) /\ k \in w..Len(r) /\ k \in 1..(Len(r) + 1) /\ m \in 1..(Len(r) + 1) /\ k < m
      /\ k \in Nat /\ m \in Nat
  BY <1>2, <1>3, <1>6
<1> DEFINE p == at[k] + 1
<1>9. s[p] = r[k] /\ at[k] \in Nat /\ at[m] \in Nat
  <2>1. Lies(r, s, at, k)
    BY <1>8 DEF Laid
  <2>2. r[k] \notin {"nl", "quote"}
    BY <1>7
  <2> QED
    BY <1>3, <1>8, <2>1, <2>2 DEF Lies
<1>10. at[k] + (m - k) <= at[m]
  BY <1>3, <1>8
<1>11. p >= v
  BY <1>2, <1>8
<1>12. p \in v..(q - 1)
  <2>1. at[k] < at[m]
    BY <1>8, <1>9, <1>10
  <2>2. at[k] + 1 <= q - 1 /\ q \in Nat
    <3>1. q = at[m] + 1
      BY <1>5
    <3> QED
      BY <1>9, <2>1, <3>1
  <2> QED
    BY <1>4, <1>9, <1>11, <2>2
<1>13. ~Through(s, p)
  <2>1. CASE r[k] = "comma"
    BY <1>9, <2>1 DEF Through
  <2>2. CASE r[k] = "sp" /\ ~BehindScheme(r, k)
    <3>1. ~BehindScheme(s, p)
      BY <1>8, <2>2, SchemeIsLaid
    <3> HIDE DEF p
    <3> QED
      BY <1>9, <2>2, <3>1 DEF Through
  <2> QED
    BY <1>7, <2>1, <2>2
<1> HIDE DEF p
<1> QED
  BY <1>12, <1>13 DEF v

(* What is made of any other report is scrubbed and framed still.          *)
LEMMA PayloadFramed ==
  ASSUME NEW r \in Seq(Words \cup Marks), Lexed(r),
         ~(AddressAtLineStart(r) \/ NameAtTheEnd(r) \/ SecretAtQuote(r))
  PROVE  Kempt(Payload(r)) /\ SecretsEnd(Payload(r))
<1> DEFINE s == Payload(r)
<1>1. PICK at : Laid(r, s, at)
  BY PayloadLaid
<1>2. Lexed(s)
  BY PayloadLexed
<1> HIDE DEF s
<1>3. Framed(s)
  BY <1>1, <1>2, LaidFramed
<1>4. NoMail(s)
  BY <1>1, <1>3, LaidNoMail
<1>5. UserEnds(s)
  BY <1>1, <1>3, LaidUserEnds
<1>6. SecretsEnd(s)
  BY <1>1, <1>3, LaidSecretsEnd
<1> QED
  BY <1>3, <1>4, <1>5, <1>6 DEF Kempt, s

(* So the stored payload parses.                                           *)
LEMMA StoredParses ==
  ASSUME NEW r \in Seq(Words \cup Marks), Lexed(r),
         ~(AddressAtLineStart(r) \/ NameAtTheEnd(r) \/ SecretAtQuote(r))
  PROVE  Parses(ScrubString(Payload(r)))
BY PayloadFramed, ScrubFramed, FramedParses

-----------------------------------------------------------------------------
(***************************************************************************)
(* A field without escapes: the passes do to the payload what they do to   *)
(* the field.                                                              *)
(***************************************************************************)

(* What a match in the field alone does in the payload.                    *)
Moved(m, inner) == m.end = 6 + inner.end /\ m.out = inner.out

(* One more lexeme is put out.                                             *)
OneCopied(done, i, X) ==
    /\ done[i - 1].out \in Seq(X) /\ done[i].out \in Seq(X) /\ done[i].next = i + 1
    /\ Len(done[i].out) = Len(done[i - 1].out) + 1
    /\ \A x \in 1..Len(done[i - 1].out) : done[i].out[x] = done[i - 1].out[x]

(* What a pass does before the field and behind it: it copies.             *)
LEMMA CopyStep ==
  ASSUME NEW X, NEW s \in Seq(X), NEW match, PutsOut(match, s, X), NEW i \in 1..Len(s),
         match[i].end = i, NEW done, Unfolds(done, match, s, X), done[i - 1].next = i
  PROVE  OneCopied(done, i, X)
<1>1. /\ done \in [0..Len(s) -> [next : Int, out : Seq(X)]]
      /\ done[i] = IF i < done[i - 1].next THEN done[i - 1]
                   ELSE [next |-> After(match, i), out |-> done[i - 1].out \o Put(match, s, i)]
  BY DEF Unfolds
<1>2. i - 1 \in 0..Len(s) /\ i \in 0..Len(s) /\ i \in Int
  OBVIOUS
<1>3. done[i - 1] \in [next : Int, out : Seq(X)]
  BY <1>1, <1>2
<1>4. After(match, i) = i + 1 /\ Put(match, s, i) = <<s[i]>> /\ s[i] \in X
  BY DEF After, Put
<1> DEFINE a == done[i - 1].out
           b == <<s[i]>>
<1>5. done[i].next = i + 1 /\ done[i].out = a \o b
  BY <1>1, <1>2, <1>4
<1>6. a \in Seq(X) /\ b \in Seq(X) /\ Len(b) = 1
  BY <1>3, <1>4
<1> HIDE DEF a, b
<1>7. /\ a \o b \in Seq(X) /\ Len(a \o b) = Len(a) + Len(b)
      /\ \A x \in 1..Len(a) : (a \o b)[x] = a[x]
  BY <1>6, JoinReads, Joined
<1> QED
  BY <1>5, <1>6, <1>7 DEF a, OneCopied

(* A pass that stays in the field does there what it does to the field.    *)
LEMMA PassInside ==
  ASSUME NEW s, Framed(s), NEW match, PutsOut(match, s, Lexemes), InField(match, s),
         NEW b \in Seq(Lexemes), Len(b) = FieldEnd(s) - 6, \A i \in 1..Len(b) : b[i] = s[6 + i],
         NEW inner, PutsOut(inner, b, Lexemes), Advances(inner, b),
         \A i \in 1..Len(b) : Moved(match[6 + i], inner[i])
  PROVE  LET t == Rewriting(match, s)[Len(s)].out
             u == Rewriting(inner, b)[Len(b)].out
         IN  /\ u \in Seq(Lexemes) /\ Len(t) = Len(u) + 16
             /\ \A i \in 1..Len(u) : t[6 + i] = u[i]
<1> DEFINE ds == Rewriting(match, s)
           db == Rewriting(inner, b)
           n == Len(b)
<1>1. /\ s \in Seq(Lexemes) /\ Len(s) \in Nat /\ n \in Nat /\ FieldEnd(s) = 6 + n /\ Len(s) = n + 16
  BY FrameIs
<1>2. Unfolds(ds, match, s, Lexemes) /\ Unfolds(db, inner, b, Lexemes)
  BY <1>1, RewritingUnfolds
<1>0. s \in Seq(Lexemes) /\ PutsOut(match, s, Lexemes)
  BY <1>1
<1> HIDE DEF ds, db, n
<1>3. \A i \in 1..Len(s) : i <= 6 \/ i > 6 + n => match[i].end = i
  BY <1>1 DEF InField
<1>4. /\ ds \in [0..Len(s) -> [next : Int, out : Seq(Lexemes)]]
      /\ ds[0] = [next |-> 1, out |-> <<>>]
      /\ \A i \in 1..Len(s) :
             ds[i] = IF i < ds[i - 1].next THEN ds[i - 1]
                     ELSE [next |-> After(match, i), out |-> ds[i - 1].out \o Put(match, s, i)]
  BY <1>2 DEF Unfolds
<1>5. /\ db \in [0..n -> [next : Int, out : Seq(Lexemes)]]
      /\ db[0] = [next |-> 1, out |-> <<>>]
      /\ \A i \in 1..n :
             db[i] = IF i < db[i - 1].next THEN db[i - 1]
                     ELSE [next |-> After(inner, i), out |-> db[i - 1].out \o Put(inner, b, i)]
  BY <1>2 DEF Unfolds, n
<1>6. ds[6].next = 7 /\ ds[6].out \in Seq(Lexemes) /\ Len(ds[6].out) = 6
  <2> DEFINE Ok(i) == ds[i].next = i + 1 /\ ds[i].out \in Seq(Lexemes) /\ Len(ds[i].out) = i
             Bad == {i \in 0..6 : ~Ok(i)}
  <2>1. 0 \notin Bad
    BY <1>4
  <2>2. \A i \in 1..6 : i \in Bad => i - 1 \in Bad
    <3> SUFFICES ASSUME NEW i \in 1..6, i - 1 \notin Bad PROVE Ok(i)
      OBVIOUS
    <3>1. i - 1 \in 0..6 /\ (i - 1) + 1 = i
      OBVIOUS
    <3>2. ds[i - 1].next = i /\ Len(ds[i - 1].out) = i - 1
      BY <3>1
    <3>3. i \in 1..Len(s) /\ i <= 6 /\ match[i].end = i
      BY <1>1, <1>3
    <3>4. /\ ds[i].out \in Seq(Lexemes) /\ ds[i].next = i + 1
          /\ Len(ds[i].out) = Len(ds[i - 1].out) + 1
      <4>1. ds[i - 1].next = i
        BY <3>2
      <4>2. i \in 1..Len(s)
        BY <3>3
      <4>3. match[i].end = i
        BY <3>3
      <4>4. Unfolds(ds, match, s, Lexemes)
        BY <1>2
      <4>5. s \in Seq(Lexemes)
        BY <1>1
      <4>6. OneCopied(ds, i, Lexemes)
        BY <4>1, <4>2, <4>3, <4>4, <4>5, CopyStep
      <4> QED
        BY <4>6 DEF OneCopied
    <3> QED
      BY <3>2, <3>4
  <2>3. Bad = {}
    <3>1. Bad \subseteq 0..6 /\ 6 \in Nat
      OBVIOUS
    <3> HIDE DEF Bad
    <3> QED
      BY <2>1, <2>2, <3>1, LoopKeeps
  <2>4. Ok(6)
    <3>1. 6 \in 0..6
      OBVIOUS
    <3>2. 6 \notin Bad
      BY <2>3
    <3> QED
      BY <3>1, <3>2
  <2> QED
    BY <2>4
<1> DEFINE o == ds[6].out
<1>7. o \in Seq(Lexemes) /\ Len(o) = 6 /\ ds[6].next = 7
  BY <1>6
<1> HIDE DEF o
<1>8. ds[6 + n].next = 6 + db[n].next /\ ds[6 + n].out = o \o db[n].out
  <2> DEFINE Ok(i) == ds[6 + i].next = 6 + db[i].next /\ ds[6 + i].out = o \o db[i].out
             Bad == {i \in 0..n : ~Ok(i)}
  <2>1. 0 \notin Bad
    <3>1. 6 + 0 = 6 /\ 6 + 1 = 7 /\ db[0].next = 1 /\ db[0].out = <<>>
      BY <1>5
    <3>2. o \o <<>> = o
      BY <1>7
    <3>3. Ok(0)
      BY <1>7, <3>1, <3>2 DEF o
    <3> QED
      BY <3>3
  <2>2. \A i \in 1..n : i \in Bad => i - 1 \in Bad
    <3> SUFFICES ASSUME NEW i \in 1..n, i - 1 \notin Bad PROVE Ok(i)
      OBVIOUS
    <3>1. i - 1 \in 0..n
      BY <1>1
    <3>2. ds[6 + (i - 1)].next = 6 + db[i - 1].next /\ ds[6 + (i - 1)].out = o \o db[i - 1].out
      BY <3>1
    <3> DEFINE y == 6 + i
               p == ds[y - 1]
               q == db[i - 1]
    <3>3. y \in 1..Len(s) /\ y = 6 + i /\ y - 1 = 6 + (i - 1) /\ i \in Int
      BY <1>1
    <3>4. q \in [next : Int, out : Seq(Lexemes)]
      BY <1>5, <3>1
    <3>5. /\ ds[y] = IF y < p.next THEN p
                     ELSE [next |-> After(match, y), out |-> p.out \o Put(match, s, y)]
          /\ db[i] = IF i < q.next THEN q
                     ELSE [next |-> After(inner, i), out |-> q.out \o Put(inner, b, i)]
      BY <1>4, <1>5, <3>3
    <3>6. p.next = 6 + q.next /\ p.out = o \o q.out
      BY <3>2, <3>3
    <3> HIDE DEF p, q
    <3>7. match[y].end = 6 + inner[i].end /\ match[y].out = inner[i].out /\ b[i] = s[y]
      BY DEF Moved, n
    <3>8. inner[i].end \in Int /\ Put(inner, b, i) \in Seq(Lexemes)
      <4>1. /\ inner[i].end \in Int /\ inner[i].out \in Seq(Lexemes)
            /\ inner[i].end = i => b[i] \in Lexemes
        BY DEF PutsOut, n
      <4> QED
        BY <4>1 DEF Put
    <3> HIDE DEF y
    <3>9. After(match, y) = 6 + After(inner, i) /\ Put(match, s, y) = Put(inner, b, i)
      <4>1. match[y].end = y <=> inner[i].end = i
        BY <3>3, <3>7, <3>8
      <4> QED
        BY <3>3, <3>7, <4>1 DEF After, Put
    <3>10. CASE i < q.next
      <4>1. y < p.next
        BY <3>3, <3>4, <3>6, <3>10
      <4>2. ds[y] = p /\ db[i] = q
        BY <3>5, <3>10, <4>1
      <4> QED
        BY <3>6, <4>2 DEF y
    <3>11. CASE ~(i < q.next)
      <4>1. ~(y < p.next)
        BY <3>3, <3>4, <3>6, <3>11
      <4>2. /\ ds[y] = [next |-> After(match, y), out |-> p.out \o Put(match, s, y)]
            /\ db[i] = [next |-> After(inner, i), out |-> q.out \o Put(inner, b, i)]
        BY <3>5, <3>11, <4>1
      <4>3. (o \o q.out) \o Put(inner, b, i) = o \o (q.out \o Put(inner, b, i))
        <5>1. q.out \in Seq(Lexemes)
          BY <3>4
        <5>2. o \in Seq(Lexemes)
          BY <1>7
        <5>3. Put(inner, b, i) \in Seq(Lexemes)
          BY <3>8
        <5> DEFINE e == Put(inner, b, i)
                   f == q.out
        <5>4. e \in Seq(Lexemes) /\ f \in Seq(Lexemes)
          BY <5>1, <5>3
        <5> HIDE DEF e, f
        <5>5. (o \o f) \o e = o \o (f \o e)
          BY <5>2, <5>4
        <5> QED
          BY <5>5 DEF e, f
      <4>4. ds[y].next = 6 + db[i].next /\ ds[y].out = o \o db[i].out
        <5>1. ds[y].next = After(match, y) /\ ds[y].out = p.out \o Put(match, s, y)
          BY <4>2
        <5>2. db[i].next = After(inner, i) /\ db[i].out = q.out \o Put(inner, b, i)
          BY <4>2
        <5> QED
          BY <3>6, <3>9, <4>3, <5>1, <5>2
      <4> QED
        BY <4>4 DEF y
    <3> QED
      BY <3>10, <3>11
  <2>3. Bad = {}
    <3>1. Bad \subseteq 0..n
      OBVIOUS
    <3> HIDE DEF Bad
    <3> QED
      BY <1>1, <2>1, <2>2, <3>1, LoopKeeps
  <2>4. n \in 0..n
    BY <1>1
  <2>5. Ok(n)
    BY <2>3, <2>4
  <2> QED
    BY <2>5
<1>9. db[n].next = n + 1
  <2> DEFINE Ok(i) == db[i].next >= i + 1 /\ db[i].next <= n + 1
             Bad == {i \in 0..n : ~Ok(i)}
  <2>1. 0 \notin Bad
    BY <1>1, <1>5
  <2>2. \A i \in 1..n : i \in Bad => i - 1 \in Bad
    <3> SUFFICES ASSUME NEW i \in 1..n, i - 1 \notin Bad PROVE Ok(i)
      OBVIOUS
    <3> DEFINE q == db[i - 1]
    <3>1. i - 1 \in 0..n /\ i \in Int
      BY <1>1
    <3>2. q.next >= (i - 1) + 1 /\ q.next <= n + 1
      BY <3>1
    <3>3. db[i] = IF i < q.next THEN q
                  ELSE [next |-> After(inner, i), out |-> q.out \o Put(inner, b, i)]
      BY <1>5
    <3>4. q.next \in Int
      BY <1>5, <3>1
    <3> HIDE DEF q
    <3>5. inner[i].end \in i..(n + 1)
      BY DEF Advances, n
    <3>6. After(inner, i) >= i + 1 /\ After(inner, i) <= n + 1
      BY <1>1, <3>1, <3>5 DEF After
    <3>7. CASE i < q.next
      BY <3>1, <3>2, <3>3, <3>4, <3>7
    <3>8. CASE ~(i < q.next)
      <4>1. db[i].next = After(inner, i)
        BY <3>3, <3>8
      <4> QED
        BY <3>6, <4>1
    <3> QED
      BY <3>7, <3>8
  <2>3. Bad = {}
    <3>1. Bad \subseteq 0..n
      OBVIOUS
    <3> HIDE DEF Bad
    <3> QED
      BY <1>1, <2>1, <2>2, <3>1, LoopKeeps
  <2>4. n \in 0..n
    BY <1>1
  <2>5. Ok(n) /\ db[n].next \in Int
    BY <1>5, <2>3, <2>4
  <2> QED
    BY <1>1, <2>5
<1> DEFINE u == db[n].out
           w == o \o u
<1>10. u \in Seq(Lexemes)
  <2>1. n \in 0..n
    BY <1>1
  <2> QED
    BY <1>5, <2>1
<1> HIDE DEF u
<1>11. /\ w \in Seq(Lexemes) /\ Len(w) = 6 + Len(u) /\ Len(u) \in Nat
       /\ \A x \in 1..Len(u) : w[6 + x] = u[x]
  <2>1. /\ w \in Seq(Lexemes) /\ Len(w) = Len(o) + Len(u)
        /\ \A x \in 1..Len(u) : w[Len(o) + x] = u[x]
    <3>1. w \in Seq(Lexemes) /\ Len(w) = Len(o) + Len(u)
      BY <1>7, <1>10, Joined
    <3>2. \A x \in 1..Len(u) : w[Len(o) + x] = u[x]
      <4>1. o \in Seq(Lexemes)
        BY <1>7
      <4>2. \A x \in 1..Len(u) : (o \o u)[Len(o) + x] = u[x]
        BY <1>10, <4>1, JoinReads
      <4> QED
        BY <4>2
    <3> QED
      BY <3>1, <3>2
  <2> QED
    BY <1>7, <1>10, <2>1
<1>12. ds[6 + n].next = (6 + n) + 1 /\ ds[6 + n].out = w
  BY <1>1, <1>8, <1>9 DEF u
<1> HIDE DEF w
<1>13. /\ Len(ds[(6 + n) + 10].out) = Len(w) + 10
       /\ \A x \in 1..Len(w) : ds[(6 + n) + 10].out[x] = w[x]
  <2> DEFINE l == 6 + n
             Ok(k) == /\ ds[l + k].next = (l + k) + 1
                      /\ Len(ds[l + k].out) = Len(w) + k
                      /\ \A x \in 1..Len(w) : ds[l + k].out[x] = w[x]
             Bad == {k \in 0..10 : ~Ok(k)}
  <2>1. l \in Nat /\ l + 10 = Len(s) /\ Len(w) \in Nat /\ l = 6 + n
    BY <1>1, <1>11
  <2>2. 0 \notin Bad
    <3>1. l + 0 = l /\ Len(w) + 0 = Len(w)
      BY <2>1
    <3>2. Ok(0)
      BY <1>12, <3>1
    <3> QED
      BY <3>2
  <2> HIDE DEF l
  <2>3. \A k \in 1..10 : k \in Bad => k - 1 \in Bad
    <3> SUFFICES ASSUME NEW k \in 1..10, k - 1 \notin Bad PROVE Ok(k)
      OBVIOUS
    <3>1. k - 1 \in 0..10
      OBVIOUS
    <3>2. /\ ds[l + (k - 1)].next = (l + (k - 1)) + 1
          /\ Len(ds[l + (k - 1)].out) = Len(w) + (k - 1)
          /\ \A x \in 1..Len(w) : ds[l + (k - 1)].out[x] = w[x]
      BY <3>1
    <3> DEFINE y == l + k
    <3>3. /\ y \in 1..Len(s) /\ l + (k - 1) = y - 1 /\ (y - 1) + 1 = y /\ y > 6 + n
          /\ (l + (k - 1)) + 1 = y
      BY <1>1, <2>1
    <3> HIDE DEF y
    <3>4. /\ ds[y - 1].next = y /\ Len(ds[y - 1].out) = Len(w) + (k - 1)
          /\ \A x \in 1..Len(w) : ds[y - 1].out[x] = w[x]
      BY <3>2, <3>3
    <3>5. match[y].end = y
      BY <1>3, <3>3
    <3>6. /\ ds[y].next = y + 1
          /\ Len(ds[y].out) = Len(ds[y - 1].out) + 1
          /\ \A x \in 1..Len(ds[y - 1].out) : ds[y].out[x] = ds[y - 1].out[x]
      <4>1. ds[y - 1].next = y
        BY <3>4
      <4>2. y \in 1..Len(s)
        BY <3>3
      <4>4. Unfolds(ds, match, s, Lexemes)
        BY <1>2
      <4>5. s \in Seq(Lexemes)
        BY <1>1
      <4>6. OneCopied(ds, y, Lexemes)
        BY <3>5, <4>1, <4>2, <4>4, <4>5, CopyStep
      <4> QED
        BY <4>6 DEF OneCopied
    <3>7. Len(ds[y].out) = Len(w) + k /\ \A x \in 1..Len(w) : x \in 1..Len(ds[y - 1].out)
      <4>1. Len(ds[y - 1].out) = Len(w) + (k - 1) /\ Len(ds[y].out) = Len(ds[y - 1].out) + 1
        BY <3>4, <3>6
      <4>2. (Len(w) + (k - 1)) + 1 = Len(w) + k /\ Len(w) + (k - 1) >= Len(w) /\ Len(w) + (k - 1) \in Nat
        BY <2>1
      <4> QED
        BY <2>1, <4>1, <4>2
    <3>8. \A x \in 1..Len(w) : ds[y].out[x] = w[x]
      BY <3>4, <3>6, <3>7
    <3> QED
      BY <3>6, <3>7, <3>8 DEF y
  <2>4. Bad = {}
    <3>1. Bad \subseteq 0..10 /\ 10 \in Nat
      OBVIOUS
    <3> HIDE DEF Bad
    <3> QED
      BY <2>2, <2>3, <3>1, LoopKeeps
  <2>5. Ok(10)
    BY <2>4
  <2> QED
    BY <2>5 DEF l
<1> DEFINE t == ds[Len(s)].out
<1>14. Len(t) = Len(w) + 10 /\ \A x \in 1..Len(w) : t[x] = w[x]
  <2>1. (6 + n) + 10 = Len(s)
    BY <1>1
  <2> QED
    BY <1>13, <2>1
<1> HIDE DEF t
<1>15. Len(t) = Len(u) + 16 /\ \A x \in 1..Len(u) : t[6 + x] = u[x]
  <2>1. \A x \in 1..Len(u) : 6 + x \in 1..Len(w)
    BY <1>11
  <2> QED
    BY <1>11, <1>14, <2>1
<1> QED
  BY <1>10, <1>15 DEF u, t, ds, db, n

(* b is the field of the payload s, and has no escapes.                    *)
Inner(s, b) ==
    /\ Framed(s) /\ b \in Seq(Lexemes) /\ Len(b) = FieldEnd(s) - 6
    /\ \A i \in 1..Len(b) :
           b[i] = s[6 + i] /\ b[i] \notin {"quote", "nl", "bs", "n", "lbrace", "rbrace"}

(* Where they are.                                                         *)
LEMMA InnerIs ==
  ASSUME NEW s, NEW b, Inner(s, b)
  PROVE  /\ s \in Seq(Lexemes) /\ b \in Seq(Lexemes) /\ Len(b) \in Nat /\ Len(s) \in Nat
         /\ FieldEnd(s) = 6 + Len(b) /\ Len(s) = Len(b) + 16
         /\ \A i \in 1..Len(b) : b[i] = s[6 + i] /\ b[i] # "quote"
         /\ s[6] = "quote" /\ s[Len(b) + 7] = "quote" /\ s[Len(b) + 8] = "comma"
<1>1. /\ Framed(s) /\ b \in Seq(Lexemes) /\ Len(b) = FieldEnd(s) - 6
      /\ \A i \in 1..Len(b) : b[i] = s[6 + i] /\ b[i] # "quote"
  BY DEF Inner
<1>2. /\ s \in Seq(Lexemes) /\ Len(s) \in Nat /\ FieldEnd(s) \in Nat /\ FieldEnd(s) >= 6
      /\ FieldEnd(s) + 10 = Len(s)
      /\ s[FieldEnd(s) + 1] = "quote" /\ s[FieldEnd(s) + 2] = "comma"
  BY <1>1, FrameIs
<1>3. Len(b) \in Nat /\ FieldEnd(s) = 6 + Len(b) /\ Len(s) = Len(b) + 16
  BY <1>1, <1>2
<1>4. FieldEnd(s) + 1 = Len(b) + 7 /\ FieldEnd(s) + 2 = Len(b) + 8
  BY <1>3
<1>5. s[6] = "quote"
  <2>1. s[6] = Open[6] /\ Open[6] = "quote"
    BY <1>1 DEF Framed, Open
  <2> QED
    BY <2>1
<1> QED
  BY <1>1, <1>2, <1>3, <1>4, <1>5

(* What the rules see in the payload they see in the field,                *)
LEMMA AtInner ==
  ASSUME NEW s, NEW b, Inner(s, b), NEW i \in 1..(Len(b) + 1)
  PROVE  /\ At(b, i) = IF i <= Len(b) THEN b[i] ELSE "end"
         /\ At(s, 6 + i) = IF i <= Len(b) THEN b[i] ELSE "quote"
         /\ i <= Len(b) => b[i] \in Lexemes \ {"quote"}
<1>1. /\ s \in Seq(Lexemes) /\ b \in Seq(Lexemes) /\ Len(b) \in Nat /\ Len(s) \in Nat
      /\ Len(s) = Len(b) + 16
      /\ \A k \in 1..Len(b) : b[k] = s[6 + k] /\ b[k] # "quote"
      /\ s[Len(b) + 7] = "quote"
  BY InnerIs
<1>2. i \in Int /\ i >= 1 /\ i <= Len(b) + 1 /\ 6 + i \in Int /\ 6 + i >= 1 /\ 6 + i <= Len(s)
  BY <1>1
<1>3. At(b, i) = IF i >= 1 /\ i <= Len(b) THEN b[i] ELSE "end"
  BY <1>1, <1>2, AtReads
<1>4. At(s, 6 + i) = s[6 + i]
  BY <1>1, <1>2 DEF At
<1>5. CASE i <= Len(b)
  <2>1. i \in 1..Len(b)
    BY <1>2, <1>5
  <2>2. b[i] \in Lexemes
    BY <1>1, <2>1
  <2> QED
    BY <1>1, <1>2, <1>3, <1>4, <1>5, <2>1, <2>2
<1>6. CASE ~(i <= Len(b))
  <2>1. 6 + i = Len(b) + 7
    BY <1>1, <1>2, <1>6
  <2> QED
    BY <1>1, <1>3, <1>4, <1>6, <2>1
<1> QED
  BY <1>5, <1>6

(* but for where both end.                                                 *)
LEMMA SeenInner ==
  ASSUME NEW s, NEW b, Inner(s, b), NEW i \in 1..(Len(b) + 1), NEW C, C \subseteq Lexemes \ {"quote"}
  PROVE  /\ At(s, 6 + i) \in C <=> At(b, i) \in C
         /\ At(b, i) \in C => i \in 1..Len(b) /\ At(s, 6 + i) = At(b, i) /\ At(b, i) = b[i] /\ s[6 + i] = b[i]
<1>1. /\ At(b, i) = IF i <= Len(b) THEN b[i] ELSE "end"
      /\ At(s, 6 + i) = IF i <= Len(b) THEN b[i] ELSE "quote"
  BY AtInner
<1>2. "end" \notin C /\ "quote" \notin C
  BY DEF Lexemes, Words, Marks, Placeholders
<1>3. Len(b) \in Nat /\ \A k \in 1..Len(b) : b[k] = s[6 + k]
  BY InnerIs
<1>4. i <= Len(b) => i \in 1..Len(b)
  BY <1>3
<1> QED
  BY <1>1, <1>2, <1>3, <1>4

(* They skip the same,                                                     *)
LEMMA SkipInner ==
  ASSUME NEW s, NEW b, Inner(s, b), NEW i \in 1..(Len(b) + 1), NEW C, "quote" \notin C
  PROVE  /\ Skip(s, 6 + i, C) = 6 + Skip(b, i, C)
         /\ Skip(b, i, C) \in i..(Len(b) + 1)
<1>1. /\ s \in Seq(Lexemes) /\ b \in Seq(Lexemes) /\ Len(b) \in Nat /\ Len(s) \in Nat
      /\ Len(s) = Len(b) + 16
      /\ \A k \in 1..Len(b) : b[k] = s[6 + k]
      /\ s[Len(b) + 7] = "quote"
  BY InnerIs
<1> DEFINE e == Skip(b, i, C)
           y == 6 + i
           z == 6 + e
<1>2. /\ e \in i..(Len(b) + 1)
      /\ \A x \in i..(e - 1) : b[x] \in C
      /\ e <= Len(b) => b[e] \notin C
  BY <1>1, SkipPasses
<1> HIDE DEF e
<1>3. i \in Int /\ i >= 1 /\ e \in Int /\ e >= i /\ e <= Len(b) + 1
  BY <1>1, <1>2
<1>4. y \in 1..(Len(s) + 1) /\ z \in y..(Len(s) + 1) /\ y = 6 + i /\ z = 6 + e
  BY <1>1, <1>3
<1>5. ASSUME NEW x \in y..(z - 1) PROVE s[x] \in C
  <2> DEFINE k == x - 6
  <2>1. k \in i..(e - 1) /\ k \in 1..Len(b) /\ 6 + k = x
    BY <1>1, <1>3
  <2> HIDE DEF k, y, z
  <2>2. b[k] = s[6 + k] /\ b[k] \in C
    BY <1>1, <1>2, <2>1
  <2> QED
    BY <2>1, <2>2
<1>6. s[z] \notin C
  <2>1. CASE e <= Len(b)
    <3>1. e \in 1..Len(b)
      BY <1>3, <2>1
    <3> QED
      BY <1>1, <1>2, <2>1, <3>1
  <2>2. CASE ~(e <= Len(b))
    <3>1. z = Len(b) + 7
      BY <1>1, <1>3, <2>2
    <3> QED
      BY <1>1, <3>1
  <2> QED
    BY <2>1, <2>2
<1> HIDE DEF y, z
<1>7. Skip(s, y, C) = z
  BY <1>1, <1>4, <1>5, <1>6, SkipEndsAt
<1> QED
  BY <1>2, <1>7 DEF y, z, e

(* A position of the field as one of the payload, and none as none.        *)
Up(v) == IF v = 0 THEN 0 ELSE 6 + v

(* find the same separators,                                               *)
LEMMA SepInner ==
  ASSUME NEW s, NEW b, Inner(s, b), NEW i \in 1..(Len(b) + 1)
  PROVE  /\ AfterSep(s, 6 + i) = Up(AfterSep(b, i))
         /\ AfterSep(b, i) = 0 \/ AfterSep(b, i) \in (i + 1)..(Len(b) + 1)
<1> DEFINE q == Skip(b, i, Space)
           v == Skip(b, q + 1, Space)
<1>1. Len(b) \in Nat /\ "quote" \notin Space
  BY InnerIs DEF Space
<1>2. Skip(s, 6 + i, Space) = 6 + q /\ q \in i..(Len(b) + 1)
  BY <1>1, SkipInner
<1> HIDE DEF q
<1>3. AfterSep(b, i) = IF At(b, q) = "sep" THEN v ELSE 0
  BY DEF AfterSep, q
<1>4. AfterSep(s, 6 + i) = IF At(s, 6 + q) = "sep" THEN Skip(s, (6 + q) + 1, Space) ELSE 0
  BY <1>2 DEF AfterSep
<1>5. q \in 1..(Len(b) + 1) /\ q \in Int /\ q >= i
  BY <1>1, <1>2
<1>6. {"sep"} \subseteq Lexemes \ {"quote"}
  BY DEF Lexemes, Marks
<1>7. /\ At(s, 6 + q) = "sep" <=> At(b, q) = "sep"
      /\ At(b, q) = "sep" => q \in 1..Len(b)
  <2>1. /\ At(s, 6 + q) \in {"sep"} <=> At(b, q) \in {"sep"}
        /\ At(b, q) \in {"sep"} => q \in 1..Len(b)
    BY <1>5, <1>6, SeenInner
  <2> QED
    BY <2>1
<1>8. CASE At(b, q) = "sep"
  <2>1. q + 1 \in 1..(Len(b) + 1)
    BY <1>1, <1>7, <1>8
  <2> DEFINE k == q + 1
  <2>2. (6 + q) + 1 = 6 + k /\ k \in 1..(Len(b) + 1) /\ k = q + 1
    BY <1>5, <2>1
  <2> HIDE DEF k
  <2>3. Skip(s, 6 + k, Space) = 6 + Skip(b, k, Space) /\ Skip(b, k, Space) \in k..(Len(b) + 1)
    BY <1>1, <2>2, SkipInner
  <2>4. Skip(s, (6 + q) + 1, Space) = 6 + v /\ v \in (q + 1)..(Len(b) + 1)
    BY <2>2, <2>3
  <2> HIDE DEF v
  <2>5. v # 0 /\ v \in (i + 1)..(Len(b) + 1)
    BY <1>1, <1>5, <2>4
  <2> QED
    BY <1>3, <1>4, <1>7, <1>8, <2>4, <2>5 DEF Up
<1>9. CASE At(b, q) # "sep"
  BY <1>3, <1>4, <1>7, <1>9 DEF Up
<1> QED
  BY <1>8, <1>9

(* the quote behind the field being no part of one,                        *)
LEMMA QuoteInner ==
  ASSUME NEW s, NEW b, Inner(s, b), NEW i \in 1..(Len(b) + 1)
  PROVE  /\ Optional(b, i, "quote") = i
         /\ AfterSep(s, Optional(s, 6 + i, "quote")) = Up(AfterSep(b, i))
         /\ i <= Len(b) => Optional(s, 6 + i, "quote") = 6 + i
         /\ i = Len(b) + 1 => Optional(s, 6 + i, "quote") = Len(b) + 8
<1>1. /\ At(b, i) = IF i <= Len(b) THEN b[i] ELSE "end"
      /\ At(s, 6 + i) = IF i <= Len(b) THEN b[i] ELSE "quote"
      /\ i <= Len(b) => b[i] \in Lexemes \ {"quote"}
  BY AtInner
<1>2. /\ s \in Seq(Lexemes) /\ Len(b) \in Nat /\ Len(s) \in Nat /\ Len(s) = Len(b) + 16
      /\ s[Len(b) + 8] = "comma"
  BY InnerIs
<1>3. Optional(b, i, "quote") = i
  BY <1>1 DEF Optional
<1>4. AfterSep(s, 6 + i) = Up(AfterSep(b, i))
  BY SepInner
<1>5. CASE i <= Len(b)
  <2>1. Optional(s, 6 + i, "quote") = 6 + i
    BY <1>1, <1>5 DEF Optional
  <2>2. i # Len(b) + 1
    BY <1>2, <1>5
  <2> QED
    BY <1>3, <1>4, <2>1, <2>2
<1>6. CASE ~(i <= Len(b))
  <2>1. i = Len(b) + 1
    BY <1>2, <1>6
  <2>2. At(b, i) = "end" /\ At(s, 6 + i) = "quote"
    BY <1>1, <1>6
  <2> DEFINE c == Len(b) + 8
  <2>3. Optional(s, 6 + i, "quote") = c /\ c \in 1..Len(s) /\ c \in 1..(Len(s) + 1) /\ s[c] = "comma"
    <3>1. Optional(s, 6 + i, "quote") = (6 + i) + 1
      BY <2>2 DEF Optional
    <3>2. (6 + i) + 1 = c /\ c \in 1..Len(s) /\ c \in 1..(Len(s) + 1)
      BY <1>2, <2>1
    <3> QED
      BY <1>2, <3>1, <3>2
  <2>4. AfterSep(s, c) = 0
    <3>1. "comma" \notin Space
      BY DEF Space
    <3>2. c \in Nat
      BY <1>2
    <3> HIDE DEF c
    <3>3. Skip(s, c, Space) = c
      BY <1>2, <2>3, <3>1, <3>2, SkipIs
    <3>4. At(s, c) = "comma"
      BY <1>2, <2>3 DEF At
    <3> QED
      BY <3>3, <3>4 DEF AfterSep
  <2>5. AfterSep(b, i) = 0
    <3>1. Len(b) \in Nat /\ b \in Seq(Lexemes)
      BY InnerIs
    <3>2. Skip(b, i, Space) = i
      <4>1. i \in i..(Len(b) + 1) /\ ~(i <= Len(b)) /\ i..(i - 1) = {}
        BY <1>2, <1>6
      <4> QED
        BY <3>1, <4>1, SkipEndsAt
    <3> QED
      BY <2>2, <3>2 DEF AfterSep
  <2>6. Up(0) = 0
    BY DEF Up
  <2> QED
    BY <1>3, <1>6, <2>1, <2>3, <2>4, <2>5, <2>6
<1> QED
  BY <1>5, <1>6

(* and keep the same.                                                      *)
LEMMA KeptInner ==
  ASSUME NEW s, NEW b, Inner(s, b), NEW i \in 1..Len(b), NEW v \in i..(Len(b) + 1)
  PROVE  Kept(s, 6 + i, 6 + v) = Kept(b, i, v)
<1>1. /\ s \in Seq(Lexemes) /\ b \in Seq(Lexemes) /\ Len(b) \in Nat /\ Len(s) \in Nat
      /\ Len(s) = Len(b) + 16
      /\ \A k \in 1..Len(b) : b[k] = s[6 + k]
  BY InnerIs
<1> DEFINE y == 6 + i
           z == 6 + v
<1>2. y \in 1..Len(s) /\ z \in y..(Len(s) + 1) /\ z - y = v - i /\ v \in Int /\ i \in Int /\ i >= 1 /\ v <= Len(b) + 1
      /\ y = 6 + i /\ v >= i
  BY <1>1
<1> HIDE DEF y, z
<1>3. /\ Kept(s, y, z) \in Seq(Lexemes) /\ Len(Kept(s, y, z)) = z - y
      /\ \A x \in 1..(z - y) : Kept(s, y, z)[x] = s[y + x - 1]
  <2>1. s \in Seq(Lexemes) /\ y \in 1..Len(s) /\ z \in y..(Len(s) + 1)
    BY <1>1, <1>2
  <2> QED
    BY <2>1, KeptReads
<1>4. /\ Kept(b, i, v) \in Seq(Lexemes) /\ Len(Kept(b, i, v)) = v - i
      /\ \A x \in 1..(v - i) : Kept(b, i, v)[x] = b[i + x - 1]
  <2>1. b \in Seq(Lexemes)
    BY <1>1
  <2> QED
    BY <2>1, KeptReads
<1>5. ASSUME NEW x \in 1..(v - i) PROVE Kept(s, y, z)[x] = Kept(b, i, v)[x]
  <2> DEFINE k == i + x - 1
  <2>1. k \in 1..Len(b) /\ y + x - 1 = 6 + k
    BY <1>1, <1>2
  <2> HIDE DEF k
  <2>2. b[k] = s[6 + k]
    BY <1>1, <2>1
  <2>3. Kept(s, y, z)[x] = s[y + x - 1] /\ Kept(b, i, v)[x] = b[k]
    BY <1>2, <1>3, <1>4 DEF k
  <2> QED
    BY <2>1, <2>2, <2>3
<1>6. Kept(s, y, z) = Kept(b, i, v)
  BY <1>2, <1>3, <1>4, <1>5, SeqEqual
<1> QED
  BY <1>6 DEF y, z

(* A word begins where it does.                                            *)
LEMMA BoundaryInner ==
  ASSUME NEW s, NEW b, Inner(s, b), NEW i \in 1..Len(b)
  PROVE  Boundary(s, 6 + i) <=> Boundary(b, i)
<1>1. /\ s \in Seq(Lexemes) /\ b \in Seq(Lexemes) /\ Len(b) \in Nat /\ Len(s) \in Nat
      /\ Len(s) = Len(b) + 16 /\ s[6] = "quote"
  BY InnerIs
<1>2. "quote" \notin WordEnds /\ "end" \notin WordEnds
  BY DEF WordEnds, Words
<1>3. CASE i = 1
  <2>1. (6 + i) - 1 = 6 /\ i - 1 = 0 /\ 6 \in 1..Len(s) /\ 0 \notin 1..Len(b)
    BY <1>1, <1>3
  <2>2. At(s, (6 + i) - 1) = "quote" /\ At(b, i - 1) = "end"
    BY <1>1, <2>1 DEF At
  <2> QED
    BY <1>2, <2>2 DEF Boundary
<1>4. CASE i # 1
  <2> DEFINE k == i - 1
  <2>1. k \in 1..(Len(b) + 1) /\ k <= Len(b) /\ (6 + i) - 1 = 6 + k
    BY <1>1, <1>4
  <2> HIDE DEF k
  <2>2. At(b, k) = b[k] /\ At(s, 6 + k) = b[k]
    BY <2>1, AtInner
  <2> QED
    BY <2>1, <2>2 DEF Boundary, k
<1> QED
  BY <1>3, <1>4

(* No rule that finds nothing in the one finds anything in the other.      *)
LEMMA NothingMoved ==
  ASSUME NEW i \in Nat
  PROVE  Moved(NoMatch(6 + i), NoMatch(i))
BY DEF Moved, NoMatch

(* The classes have no quote.                                              *)
LEMMA Quoteless ==
  /\ Credential \cup Torn \subseteq Lexemes \ {"quote"} /\ Credential \subseteq Lexemes \ {"quote"}
  /\ Torn \subseteq Lexemes \ {"quote"} /\ "quote" \notin Space /\ "quote" \notin Credential
  /\ "quote" \notin LocalPart /\ "quote" \notin SecretValue /\ "quote" \notin BareNameStart
  /\ "comma" \notin Credential \cup Torn /\ "comma" \notin SecretValue /\ "comma" \notin BareName
  /\ Words \subseteq Lexemes \ {"quote"} /\ BareNameStart \subseteq Lexemes \ {"quote"}
  /\ "end" \notin Lexemes /\ BareNameStart \subseteq BareName
BY DEF Credential, Torn, Lexemes, Words, Marks, Placeholders, Space, LocalPart, SecretValue,
       BareNameStart, BareName

(* The authorization rule finds what it finds in the field.                *)
LEMMA AuthHeaderInner ==
  ASSUME NEW s, NEW b, Inner(s, b), NEW i \in 1..Len(b)
  PROVE  Moved(AuthHeader(s, 6 + i), AuthHeader(b, i))
<1> DEFINE y == 6 + i
           Value(t, k) == Optional(t, AfterSep(t, Optional(t, Skip(t, k + 1, Space), "quote")), "quote")
           Scheme(t, k) == Skip(t, Value(t, k) + 1, Space)
           Start(t, k) == IF /\ At(t, Value(t, k)) = "bearer"
                             /\ Scheme(t, k) > Value(t, k) + 1
                             /\ At(t, Scheme(t, k)) \in Credential \cup Torn
                          THEN Scheme(t, k) ELSE Value(t, k)
           End(t, k) == Skip(t, Start(t, k), Credential)
           vs == Value(s, y)
           vb == Value(b, i)
<1>1. /\ s \in Seq(Lexemes) /\ b \in Seq(Lexemes) /\ Len(b) \in Nat /\ Len(s) \in Nat
      /\ Len(s) = Len(b) + 16 /\ s[Len(b) + 8] = "comma"
  BY InnerIs
<1>2. \A t, k : AuthHeader(t, k) =
          IF At(t, k) # "auth" \/ At(t, Start(t, k)) \notin Credential \cup Torn
          THEN NoMatch(k)
          ELSE IF At(t, End(t, k)) \in Torn
               THEN Match(End(t, k) + 1, Kept(t, k, Value(t, k)) \o <<"AUTH", Remainder(t[End(t, k)])>>)
               ELSE Match(End(t, k), Kept(t, k, Value(t, k)) \o <<"AUTH">>)
  BY DEF AuthHeader
<1>3. /\ Credential \cup Torn \subseteq Lexemes \ {"quote"} /\ Torn \subseteq Lexemes \ {"quote"}
      /\ "quote" \notin Space /\ "quote" \notin Credential /\ "comma" \notin Credential \cup Torn
      /\ "end" \notin Credential \cup Torn
  BY Quoteless
<1>4. i \in 1..(Len(b) + 1) /\ i + 1 \in 1..(Len(b) + 1) /\ i \in Nat /\ y + 1 = 6 + (i + 1)
  BY <1>1
<1> DEFINE w == AfterSep(b, Skip(b, i + 1, Space))
<1>5. /\ vb = Optional(b, w, "quote") /\ vs = Optional(s, Up(w), "quote")
      /\ w = 0 \/ w \in (i + 1)..(Len(b) + 1)
  <2> DEFINE k == i + 1
             g == Skip(b, k, Space)
  <2>1. k \in 1..(Len(b) + 1) /\ y + 1 = 6 + k
    BY <1>4
  <2>2. Skip(s, 6 + k, Space) = 6 + g /\ g \in k..(Len(b) + 1)
    <3> HIDE DEF k
    <3> QED
      BY <1>3, <2>1, SkipInner
  <2> HIDE DEF g
  <2>3. g \in 1..(Len(b) + 1) /\ g \in (i + 1)..(Len(b) + 1)
    BY <1>4, <2>2
  <2>4. Optional(b, g, "quote") = g /\ AfterSep(s, Optional(s, 6 + g, "quote")) = Up(AfterSep(b, g))
    BY <2>3, QuoteInner
  <2>5. AfterSep(b, g) = 0 \/ AfterSep(b, g) \in (g + 1)..(Len(b) + 1)
    BY <2>3, SepInner
  <2>6. AfterSep(b, g) = 0 \/ AfterSep(b, g) \in (i + 1)..(Len(b) + 1)
    BY <1>4, <2>3, <2>5
  <2>7. vb = Optional(b, AfterSep(b, g), "quote")
    BY <2>4 DEF g
  <2>8. vs = Optional(s, Up(AfterSep(b, g)), "quote")
    <3>1. vs = Optional(s, AfterSep(s, Optional(s, Skip(s, 6 + k, Space), "quote")), "quote")
      BY <2>1
    <3> QED
      BY <2>2, <2>4, <3>1
  <2> QED
    BY <2>6, <2>7, <2>8 DEF g
<1> HIDE DEF w
<1>6. CASE w = 0
  <2>1. At(b, 0) = "end" /\ At(s, 0) = "end" /\ Up(w) = 0
    <3>1. 0 \notin 1..Len(b) /\ 0 \notin 1..Len(s)
      OBVIOUS
    <3> QED
      BY <1>1, <1>6, <3>1 DEF At, Up
  <2>2. vb = 0 /\ vs = 0
    BY <1>5, <1>6, <2>1 DEF Optional
  <2> HIDE DEF Value
  <2>3. Start(b, i) = 0 /\ Start(s, y) = 0
    BY <2>1, <2>2
  <2> HIDE DEF Start
  <2>4. AuthHeader(b, i) = NoMatch(i) /\ AuthHeader(s, y) = NoMatch(y)
    BY <1>2, <1>3, <2>1, <2>3
  <2> QED
    BY <1>4, <2>4, NothingMoved
<1>7. CASE w = Len(b) + 1
  <2>1. w \in 1..(Len(b) + 1) /\ Up(w) = 6 + w /\ ~(w <= Len(b))
    BY <1>1, <1>7 DEF Up
  <2>2. vb = w /\ vs = Len(b) + 8
    BY <1>5, <1>7, <2>1, QuoteInner
  <2>3. At(b, w) = "end"
    BY <2>1, AtInner
  <2>4. At(s, Len(b) + 8) = "comma"
    <3>1. Len(b) + 8 \in 1..Len(s)
      BY <1>1
    <3> QED
      BY <1>1, <3>1 DEF At
  <2> HIDE DEF Value
  <2>5. Start(b, i) = w /\ Start(s, y) = Len(b) + 8
    BY <2>2, <2>3, <2>4
  <2> HIDE DEF Start
  <2>6. AuthHeader(b, i) = NoMatch(i) /\ AuthHeader(s, y) = NoMatch(y)
    BY <1>2, <1>3, <2>3, <2>4, <2>5
  <2> QED
    BY <1>4, <2>6, NothingMoved
<1>8. CASE w # 0 /\ w # Len(b) + 1
  <2>1. w \in (i + 1)..Len(b) /\ w \in 1..Len(b) /\ w \in 1..(Len(b) + 1) /\ Up(w) = 6 + w /\ w <= Len(b)
        /\ w + 1 \in 1..(Len(b) + 1) /\ (6 + w) + 1 = 6 + (w + 1) /\ w \in Nat
    BY <1>1, <1>4, <1>5, <1>8 DEF Up
  <2>2. vb = w /\ vs = 6 + w
    BY <1>5, <2>1, QuoteInner
  <2> HIDE DEF Value
  <2> DEFINE e == Scheme(b, i)
  <2>3. e = Skip(b, w + 1, Space) /\ Scheme(s, y) = Skip(s, (6 + w) + 1, Space)
    BY <2>2
  <2>4. Scheme(s, y) = 6 + e /\ e \in (w + 1)..(Len(b) + 1)
    <3> DEFINE k == w + 1
    <3>1. k \in 1..(Len(b) + 1) /\ (6 + w) + 1 = 6 + k
      BY <2>1
    <3> HIDE DEF k
    <3>2. Skip(s, 6 + k, Space) = 6 + Skip(b, k, Space) /\ Skip(b, k, Space) \in k..(Len(b) + 1)
      BY <1>3, <3>1, SkipInner
    <3> QED
      BY <2>3, <3>1, <3>2 DEF k
  <2> HIDE DEF Scheme
  <2>5. e \in 1..(Len(b) + 1) /\ e \in Nat
    BY <1>1, <2>1, <2>4
  <2> DEFINE a == Start(b, i)
  <2>6. Start(s, y) = 6 + a /\ a \in w..(Len(b) + 1)
    <3>1. At(s, 6 + w) = At(b, w)
      BY <2>1, AtInner
    <3>2. At(s, 6 + e) \in Credential \cup Torn <=> At(b, e) \in Credential \cup Torn
      BY <1>3, <2>5, SeenInner
    <3>3. 6 + e > (6 + w) + 1 <=> e > w + 1
      BY <2>1, <2>5
    <3>4. Start(s, y) = (IF At(b, w) = "bearer" /\ e > w + 1 /\ At(b, e) \in Credential \cup Torn
                         THEN 6 + e ELSE 6 + w)
      BY <2>2, <2>4, <3>1, <3>2, <3>3
    <3>5. a = (IF At(b, w) = "bearer" /\ e > w + 1 /\ At(b, e) \in Credential \cup Torn
               THEN e ELSE w)
      BY <2>2
    <3>6. e \in w..(Len(b) + 1) /\ w \in w..(Len(b) + 1)
      BY <1>1, <2>1, <2>4, <2>5
    <3> QED
      BY <3>4, <3>5, <3>6
  <2> HIDE DEF Start
  <2>7. a \in 1..(Len(b) + 1)
    BY <1>1, <2>1, <2>6
  <2> DEFINE z == End(b, i)
  <2>8. End(s, y) = 6 + z /\ z \in a..(Len(b) + 1)
    <3> HIDE DEF a
    <3>1. Skip(s, 6 + a, Credential) = 6 + Skip(b, a, Credential) /\ Skip(b, a, Credential) \in a..(Len(b) + 1)
      BY <1>3, <2>7, SkipInner
    <3> QED
      BY <2>6, <3>1 DEF a
  <2> HIDE DEF a, End
  <2>9. z \in 1..(Len(b) + 1) /\ z \in Nat
    BY <1>1, <2>7, <2>8
  <2> HIDE DEF z
  <2>10. At(s, 6 + a) \in Credential \cup Torn <=> At(b, a) \in Credential \cup Torn
    BY <1>3, <2>7, SeenInner
  <2>11. /\ At(s, 6 + z) \in Torn <=> At(b, z) \in Torn
         /\ At(b, z) \in Torn => s[6 + z] = b[z]
    BY <1>3, <2>9, SeenInner
  <2>12. At(s, y) = At(b, i)
    <3>1. i <= Len(b)
      BY <1>4
    <3> QED
      BY <1>4, <3>1, AtInner
  <2>13. Kept(s, y, 6 + w) = Kept(b, i, w)
    <3>1. w \in i..(Len(b) + 1)
      BY <1>4, <2>1
    <3> QED
      BY <3>1, KeptInner
  <2> DEFINE k == Kept(b, i, w)
  <2>14. AuthHeader(b, i) =
           IF At(b, i) # "auth" \/ At(b, a) \notin Credential \cup Torn THEN NoMatch(i)
           ELSE IF At(b, z) \in Torn THEN Match(z + 1, k \o <<"AUTH", Remainder(b[z])>>)
                ELSE Match(z, k \o <<"AUTH">>)
    BY <1>2, <2>2 DEF a, z
  <2>15. AuthHeader(s, y) =
           IF At(b, i) # "auth" \/ At(b, a) \notin Credential \cup Torn THEN NoMatch(y)
           ELSE IF At(b, z) \in Torn THEN Match((6 + z) + 1, k \o <<"AUTH", Remainder(b[z])>>)
                ELSE Match(6 + z, k \o <<"AUTH">>)
    <3>1. AuthHeader(s, y) =
           IF At(s, y) # "auth" \/ At(s, 6 + a) \notin Credential \cup Torn THEN NoMatch(y)
           ELSE IF At(s, 6 + z) \in Torn THEN Match((6 + z) + 1, Kept(s, y, 6 + w) \o <<"AUTH", Remainder(s[6 + z])>>)
                ELSE Match(6 + z, Kept(s, y, 6 + w) \o <<"AUTH">>)
      BY <1>2, <2>2, <2>6, <2>8 DEF a, z
    <3> HIDE DEF y, k
    <3> QED
      BY <2>10, <2>11, <2>12, <2>13, <3>1 DEF k
  <2> HIDE DEF k
  <2>16. (6 + z) + 1 = 6 + (z + 1)
    BY <2>9
  <2>17. Moved(NoMatch(y), NoMatch(i))
    BY <1>4, NothingMoved
  <2>18. Moved(Match((6 + z) + 1, k \o <<"AUTH", Remainder(b[z])>>), Match(z + 1, k \o <<"AUTH", Remainder(b[z])>>))
    BY <2>16 DEF Moved, Match
  <2>19. Moved(Match(6 + z, k \o <<"AUTH">>), Match(z, k \o <<"AUTH">>))
    BY DEF Moved, Match
  <2> QED
    BY <2>14, <2>15, <2>17, <2>18, <2>19
<1> QED
  BY <1>5, <1>6, <1>7, <1>8

(* So does the bearer rule,                                                *)
LEMMA BearerTokenInner ==
  ASSUME NEW s, NEW b, Inner(s, b), NEW i \in 1..Len(b)
  PROVE  Moved(BearerToken(s, 6 + i), BearerToken(b, i))
<1> DEFINE y == 6 + i
           a == Skip(b, i + 1, Space)
           z == Skip(b, a, Credential)
           S3 == {"long", "jwt", "key"}
<1>1. Len(b) \in Nat /\ \A k \in 1..Len(b) : b[k] = s[6 + k]
  BY InnerIs
<1>2. "quote" \notin Space /\ "quote" \notin Credential
  BY Quoteless
<1>3. i \in 1..(Len(b) + 1) /\ i <= Len(b) /\ i \in Nat
  BY <1>1
<1>4. Skip(s, y + 1, Space) = 6 + a /\ a \in (i + 1)..(Len(b) + 1)
  <2> DEFINE k == i + 1
  <2>1. k \in 1..(Len(b) + 1) /\ y + 1 = 6 + k
    BY <1>1, <1>3
  <2> HIDE DEF k, y
  <2>2. Skip(s, 6 + k, Space) = 6 + Skip(b, k, Space) /\ Skip(b, k, Space) \in k..(Len(b) + 1)
    BY <1>2, <2>1, SkipInner
  <2> QED
    BY <2>1, <2>2 DEF k
<1> HIDE DEF a
<1>5. a \in 1..(Len(b) + 1) /\ a \in Nat
  BY <1>1, <1>3, <1>4
<1>6. Skip(s, 6 + a, Credential) = 6 + z /\ z \in a..(Len(b) + 1)
  BY <1>2, <1>5, SkipInner
<1> HIDE DEF z, S3
<1>7. (\E j \in (6 + a)..((6 + z) - 1) : s[j] \in S3) <=> \E j \in a..(z - 1) : b[j] \in S3
  <2>0. z \in Nat /\ z <= Len(b) + 1
    BY <1>1, <1>5, <1>6
  <2>1. ASSUME NEW j \in a..(z - 1), b[j] \in S3 PROVE \E k \in (6 + a)..((6 + z) - 1) : s[k] \in S3
    <3>1. j \in 1..Len(b) /\ 6 + j \in (6 + a)..((6 + z) - 1)
      BY <1>1, <1>5, <2>0
    <3>2. b[j] = s[6 + j]
      BY <1>1, <3>1
    <3> QED
      BY <2>1, <3>1, <3>2
  <2>2. ASSUME NEW k \in (6 + a)..((6 + z) - 1), s[k] \in S3 PROVE \E j \in a..(z - 1) : b[j] \in S3
    <3> DEFINE j == k - 6
    <3>1. j \in 1..Len(b) /\ j \in a..(z - 1) /\ 6 + j = k
      BY <1>1, <1>5, <2>0
    <3> HIDE DEF j
    <3>2. b[j] = s[6 + j]
      BY <1>1, <3>1
    <3> QED
      BY <2>2, <3>1, <3>2
  <2> QED
    BY <2>1, <2>2
<1>8. At(s, y) = At(b, i) /\ (Boundary(s, y) <=> Boundary(b, i))
  <2>1. At(s, 6 + i) = At(b, i)
    BY <1>3, AtInner
  <2> QED
    BY <2>1, BoundaryInner
<1>9. 6 + a > y + 1 <=> a > i + 1
  BY <1>3, <1>5
<1>10. BearerToken(b, i) = IF /\ At(b, i) = "bearer" /\ Boundary(b, i) /\ a > i + 1
                              /\ \E j \in a..(z - 1) : b[j] \in S3
                           THEN Match(z, <<"TOKEN">>) ELSE NoMatch(i)
  BY DEF BearerToken, a, z, S3
<1>11. BearerToken(s, y) = IF /\ At(s, y) = "bearer" /\ Boundary(s, y) /\ 6 + a > y + 1
                              /\ \E j \in (6 + a)..((6 + z) - 1) : s[j] \in S3
                           THEN Match(6 + z, <<"TOKEN">>) ELSE NoMatch(y)
  BY <1>4, <1>6 DEF BearerToken, S3
<1>12. Moved(NoMatch(y), NoMatch(i))
  BY <1>3, NothingMoved
<1>13. Moved(Match(6 + z, <<"TOKEN">>), Match(z, <<"TOKEN">>))
  BY DEF Moved, Match
<1> HIDE DEF y
<1> QED
  BY <1>7, <1>8, <1>9, <1>10, <1>11, <1>12, <1>13 DEF y

(* those over single words and over addresses,                             *)
LEMMA OnesInner ==
  ASSUME NEW s, NEW b, Inner(s, b), NEW i \in 1..Len(b)
  PROVE  /\ Moved(Jwt(s, 6 + i), Jwt(b, i))
         /\ Moved(ProviderKey(s, 6 + i), ProviderKey(b, i))
         /\ Moved(IPv6(s, 6 + i), IPv6(b, i))
         /\ Moved(IPv4(s, 6 + i), IPv4(b, i))
<1> DEFINE y == 6 + i
<1>1. Len(b) \in Nat /\ i \in Nat /\ i \in 1..(Len(b) + 1) /\ i <= Len(b)
      /\ i + 1 \in 1..(Len(b) + 1) /\ y + 1 = 6 + (i + 1)
  BY InnerIs
<1>2. At(s, y) = At(b, i) /\ (Boundary(s, y) <=> Boundary(b, i))
  <2>1. At(s, 6 + i) = At(b, i)
    BY <1>1, AtInner
  <2> QED
    BY <2>1, BoundaryInner
<1>3. At(s, y + 1) \in Words <=> At(b, i + 1) \in Words
  <2> DEFINE k == i + 1
  <2>1. k \in 1..(Len(b) + 1) /\ y + 1 = 6 + k
    BY <1>1
  <2> HIDE DEF k, y
  <2>2. At(s, 6 + k) \in Words <=> At(b, k) \in Words
    BY <2>1, Quoteless, SeenInner
  <2> QED
    BY <2>1, <2>2 DEF k
<1>4. Moved(NoMatch(y), NoMatch(i))
  BY <1>1, NothingMoved
<1>5. \A x : Moved(Match(y + 1, x), Match(i + 1, x))
  BY <1>1 DEF Moved, Match
<1> HIDE DEF y
<1>6. Moved(Jwt(s, y), Jwt(b, i))
  BY <1>2, <1>4, <1>5 DEF Jwt
<1>7. Moved(ProviderKey(s, y), ProviderKey(b, i))
  BY <1>2, <1>4, <1>5 DEF ProviderKey
<1>8. Moved(IPv6(s, y), IPv6(b, i))
  BY <1>2, <1>4, <1>5 DEF IPv6
<1>9. Moved(IPv4(s, y), IPv4(b, i))
  BY <1>2, <1>3, <1>4, <1>5 DEF IPv4
<1> QED
  BY <1>6, <1>7, <1>8, <1>9 DEF y

(* the email one too,                                                      *)
LEMMA EmailInner ==
  ASSUME NEW s, NEW b, Inner(s, b), NEW i \in 1..Len(b)
  PROVE  Moved(Email(s, 6 + i), Email(b, i))
<1> DEFINE y == 6 + i
           a == Skip(b, i, LocalPart)
<1>1. Len(b) \in Nat /\ i \in Nat /\ i \in 1..(Len(b) + 1)
  BY InnerIs
<1>2. Skip(s, y, LocalPart) = 6 + a /\ a \in i..(Len(b) + 1)
  BY <1>1, Quoteless, SkipInner
<1> HIDE DEF a
<1>3. a \in 1..(Len(b) + 1) /\ a \in Nat
  BY <1>1, <1>2
<1>4. At(s, 6 + a) = "email" <=> At(b, a) = "email"
  <2>1. {"email"} \subseteq Lexemes \ {"quote"}
    BY DEF Lexemes, Words
  <2>2. At(s, 6 + a) \in {"email"} <=> At(b, a) \in {"email"}
    BY <1>3, <2>1, SeenInner
  <2> QED
    BY <2>2
<1>5. Moved(NoMatch(y), NoMatch(i))
  BY <1>1, NothingMoved
<1>6. (6 + a) + 1 = 6 + (a + 1)
  BY <1>3
<1>7. Moved(Match((6 + a) + 1, <<"EMAIL">>), Match(a + 1, <<"EMAIL">>))
  BY <1>6 DEF Moved, Match
<1>8. Email(b, i) = IF At(b, a) = "email" THEN Match(a + 1, <<"EMAIL">>) ELSE NoMatch(i)
  BY DEF Email, a
<1>9. Email(s, y) = IF At(s, 6 + a) = "email" THEN Match((6 + a) + 1, <<"EMAIL">>) ELSE NoMatch(y)
  BY <1>2 DEF Email
<1> HIDE DEF y
<1> QED
  BY <1>4, <1>5, <1>7, <1>8, <1>9 DEF y

(* the one over secrets                                                    *)
LEMMA SecretInner ==
  ASSUME NEW s, NEW b, Inner(s, b), NEW i \in 1..Len(b)
  PROVE  Moved(Secret(s, 6 + i), Secret(b, i))
<1> DEFINE y == 6 + i
           Sep(t, k) == AfterSep(t, Optional(t, k + 1, "quote"))
           Value(t, k) == Optional(t, Sep(t, k), "quote")
           End(t, k) == Skip(t, Value(t, k), SecretValue)
           w == AfterSep(b, i + 1)
<1>1. /\ s \in Seq(Lexemes) /\ b \in Seq(Lexemes) /\ Len(b) \in Nat /\ Len(s) \in Nat
      /\ Len(s) = Len(b) + 16 /\ s[Len(b) + 8] = "comma"
  BY InnerIs
<1>2. \A t, k : Secret(t, k) =
          IF At(t, k) = "pass" /\ Boundary(t, k) /\ Sep(t, k) > 0 /\ End(t, k) > Value(t, k)
          THEN Match(End(t, k), Kept(t, k, Value(t, k)) \o <<"TOKEN">>) ELSE NoMatch(k)
  BY DEF Secret
<1>3. i \in 1..(Len(b) + 1) /\ i \in Nat /\ i <= Len(b) /\ i + 1 \in 1..(Len(b) + 1) /\ y + 1 = 6 + (i + 1)
  BY <1>1
<1>4. /\ Sep(b, i) = w /\ Sep(s, y) = Up(w)
      /\ w = 0 \/ w \in (i + 2)..(Len(b) + 1)
  <2> DEFINE k == i + 1
  <2>1. k \in 1..(Len(b) + 1) /\ y + 1 = 6 + k /\ k + 1 = i + 2
    BY <1>3
  <2> HIDE DEF k, y
  <2>2. Optional(b, k, "quote") = k /\ AfterSep(s, Optional(s, 6 + k, "quote")) = Up(AfterSep(b, k))
    BY <2>1, QuoteInner
  <2>3. AfterSep(b, k) = 0 \/ AfterSep(b, k) \in (k + 1)..(Len(b) + 1)
    BY <2>1, SepInner
  <2> QED
    BY <2>1, <2>2, <2>3 DEF k
<1> HIDE DEF w
<1>5. At(s, y) = At(b, i) /\ (Boundary(s, y) <=> Boundary(b, i))
  <2>1. At(s, 6 + i) = At(b, i)
    BY <1>3, AtInner
  <2> QED
    BY <2>1, BoundaryInner
<1>6. Moved(NoMatch(y), NoMatch(i))
  BY <1>3, NothingMoved
<1>7. CASE w = 0
  <2>1. ~(Sep(b, i) > 0) /\ ~(Sep(s, y) > 0)
    BY <1>4, <1>7 DEF Up
  <2> HIDE DEF Sep, Value, End
  <2>2. Secret(b, i) = NoMatch(i) /\ Secret(s, y) = NoMatch(y)
    BY <1>2, <2>1
  <2> QED
    BY <1>6, <2>2
<1>8. CASE w = Len(b) + 1
  <2>1. w \in 1..(Len(b) + 1) /\ Up(w) = 6 + w /\ ~(w <= Len(b)) /\ w \in Nat
    BY <1>1, <1>8 DEF Up
  <2> HIDE DEF Sep
  <2> DEFINE c == Len(b) + 8
  <2>2. Value(b, i) = w /\ Value(s, y) = c
    <3>1. Optional(b, w, "quote") = w /\ Optional(s, 6 + w, "quote") = c
      BY <1>8, <2>1, QuoteInner
    <3> QED
      BY <1>4, <2>1, <3>1
  <2> HIDE DEF Value
  <2>3. End(b, i) = w
    <3>1. w..(w - 1) = {} /\ w \in w..(Len(b) + 1)
      BY <2>1
    <3>2. Skip(b, w, SecretValue) = w
      BY <1>1, <2>1, <3>1, SkipEndsAt
    <3> QED
      BY <2>2, <3>2
  <2>4. End(s, y) = c
    <3>1. c \in 1..Len(s) /\ c \in Nat /\ s[c] = "comma"
      BY <1>1
    <3> HIDE DEF c
    <3>2. "comma" \notin SecretValue
      BY Quoteless
    <3>3. Skip(s, c, SecretValue) = c
      BY <1>1, <3>1, <3>2, SkipIs
    <3> QED
      BY <2>2, <3>3
  <2>5. ~(End(b, i) > Value(b, i)) /\ ~(End(s, y) > Value(s, y))
    BY <1>1, <2>1, <2>2, <2>3, <2>4
  <2> HIDE DEF End
  <2>6. Secret(b, i) = NoMatch(i) /\ Secret(s, y) = NoMatch(y)
    BY <1>2, <2>5
  <2> QED
    BY <1>6, <2>6
<1>9. CASE w # 0 /\ w # Len(b) + 1
  <2>1. w \in (i + 2)..Len(b) /\ w \in 1..(Len(b) + 1) /\ Up(w) = 6 + w /\ w <= Len(b) /\ w \in Nat /\ w > 0
        /\ w \in i..(Len(b) + 1) /\ 6 + w > 0
    BY <1>1, <1>3, <1>4, <1>9 DEF Up
  <2> HIDE DEF Sep
  <2>2. Value(b, i) = w /\ Value(s, y) = 6 + w
    <3>1. Optional(b, w, "quote") = w /\ Optional(s, 6 + w, "quote") = 6 + w
      BY <2>1, QuoteInner
    <3> QED
      BY <1>4, <2>1, <3>1
  <2> HIDE DEF Value
  <2> DEFINE z == Skip(b, w, SecretValue)
  <2>3. End(b, i) = z /\ End(s, y) = 6 + z /\ z \in w..(Len(b) + 1)
    <3>1. Skip(s, 6 + w, SecretValue) = 6 + Skip(b, w, SecretValue) /\ Skip(b, w, SecretValue) \in w..(Len(b) + 1)
      BY <2>1, Quoteless, SkipInner
    <3> QED
      BY <2>2, <3>1
  <2> HIDE DEF z, End
  <2>4. 6 + z > 6 + w <=> z > w
    BY <1>1, <2>1, <2>3
  <2>5. Kept(s, y, 6 + w) = Kept(b, i, w)
    BY <2>1, KeptInner
  <2> DEFINE k == Kept(b, i, w)
  <2>6. Secret(b, i) = IF At(b, i) = "pass" /\ Boundary(b, i) /\ z > w
                       THEN Match(z, k \o <<"TOKEN">>) ELSE NoMatch(i)
    BY <1>2, <1>4, <2>1, <2>2, <2>3
  <2>7. Secret(s, y) = IF At(s, y) = "pass" /\ Boundary(s, y) /\ 6 + z > 6 + w
                       THEN Match(6 + z, Kept(s, y, 6 + w) \o <<"TOKEN">>) ELSE NoMatch(y)
    <3>1. Sep(s, y) > 0
      BY <1>4, <2>1
    <3> HIDE DEF y
    <3> QED
      BY <1>2, <2>2, <2>3, <3>1
  <2>8. Moved(Match(6 + z, k \o <<"TOKEN">>), Match(z, k \o <<"TOKEN">>))
    BY DEF Moved, Match
  <2>9. Secret(s, y) = IF At(b, i) = "pass" /\ Boundary(b, i) /\ z > w
                       THEN Match(6 + z, k \o <<"TOKEN">>) ELSE NoMatch(y)
    <3> HIDE DEF y
    <3>1. (At(s, y) = "pass" /\ Boundary(s, y) /\ 6 + z > 6 + w) <=> (At(b, i) = "pass" /\ Boundary(b, i) /\ z > w)
      BY <1>5, <2>4
    <3> QED
      BY <2>5, <2>7, <3>1 DEF k
  <2> HIDE DEF y, k
  <2>10. CASE At(b, i) = "pass" /\ Boundary(b, i) /\ z > w
    <3>1. Secret(b, i) = Match(z, k \o <<"TOKEN">>) /\ Secret(s, y) = Match(6 + z, k \o <<"TOKEN">>)
      BY <2>6, <2>9, <2>10
    <3> QED
      BY <2>8, <3>1 DEF y
  <2>11. CASE ~(At(b, i) = "pass" /\ Boundary(b, i) /\ z > w)
    <3>1. Secret(b, i) = NoMatch(i) /\ Secret(s, y) = NoMatch(y)
      BY <2>6, <2>9, <2>11
    <3> QED
      BY <1>6, <3>1 DEF y
  <2> QED
    BY <2>10, <2>11
<1> QED
  BY <1>4, <1>7, <1>8, <1>9

(* and the one over names, where a comma is behind each.                   *)
LEMMA NameBareInner ==
  ASSUME NEW s, NEW b, Inner(s, b), UserEnds(s), NEW i \in 1..Len(b)
  PROVE  Moved(NameBare(s, 6 + i), NameBare(b, i))
<1> DEFINE y == 6 + i
           w == AfterSep(b, i + 1)
<1>1. /\ s \in Seq(Lexemes) /\ b \in Seq(Lexemes) /\ Len(b) \in Nat /\ Len(s) \in Nat
      /\ Len(s) = Len(b) + 16 /\ FieldEnd(s) = 6 + Len(b)
      /\ \A k \in 1..Len(b) : b[k] = s[6 + k]
  BY InnerIs
<1>2. i \in 1..(Len(b) + 1) /\ i \in Nat /\ i <= Len(b) /\ i + 1 \in 1..(Len(b) + 1) /\ y + 1 = 6 + (i + 1)
  BY <1>1
<1>3. AfterSep(s, y + 1) = Up(w) /\ (w = 0 \/ w \in (i + 2)..(Len(b) + 1))
  <2> DEFINE k == i + 1
  <2>1. k \in 1..(Len(b) + 1) /\ y + 1 = 6 + k /\ k + 1 = i + 2
    BY <1>2
  <2> HIDE DEF k, y
  <2>2. AfterSep(s, 6 + k) = Up(AfterSep(b, k)) /\ (AfterSep(b, k) = 0 \/ AfterSep(b, k) \in (k + 1)..(Len(b) + 1))
    BY <2>1, SepInner
  <2> QED
    BY <2>1, <2>2 DEF k
<1> HIDE DEF w
<1>4. At(s, y) = At(b, i) /\ (Boundary(s, y) <=> Boundary(b, i))
  <2>1. At(s, 6 + i) = At(b, i)
    BY <1>2, AtInner
  <2> QED
    BY <2>1, BoundaryInner
<1>5. Moved(NoMatch(y), NoMatch(i))
  BY <1>2, NothingMoved
<1>6. /\ NameBare(b, i) = IF At(b, i) = "user" /\ Boundary(b, i) /\ At(b, w) \in BareNameStart
                          THEN Match(Skip(b, w, BareName), Kept(b, i, w) \o <<"NAME">>) ELSE NoMatch(i)
      /\ NameBare(s, y) = IF At(s, y) = "user" /\ Boundary(s, y) /\ At(s, Up(w)) \in BareNameStart
                          THEN Match(Skip(s, Up(w), BareName), Kept(s, y, Up(w)) \o <<"NAME">>) ELSE NoMatch(y)
  BY <1>3 DEF NameBare, w
<1>7. CASE w = 0
  <2>1. At(b, w) = "end" /\ At(s, Up(w)) = "end"
    <3>1. 0 \notin 1..Len(b) /\ 0 \notin 1..Len(s)
      OBVIOUS
    <3> QED
      BY <1>1, <1>7, <3>1 DEF At, Up
  <2>2. "end" \notin BareNameStart
    BY Quoteless
  <2> HIDE DEF y
  <2> QED
    BY <1>5, <1>6, <2>1, <2>2 DEF y
<1>8. CASE w # 0 /\ ~(At(b, i) = "user" /\ Boundary(b, i) /\ At(b, w) \in BareNameStart)
  <2>1. w \in 1..(Len(b) + 1) /\ Up(w) = 6 + w
    BY <1>1, <1>2, <1>3, <1>8 DEF Up
  <2>2. At(s, 6 + w) \in BareNameStart <=> At(b, w) \in BareNameStart
    BY <2>1, Quoteless, SeenInner
  <2> HIDE DEF y
  <2> QED
    BY <1>4, <1>5, <1>6, <1>8, <2>1, <2>2 DEF y
<1>9. CASE w # 0 /\ At(b, i) = "user" /\ Boundary(b, i) /\ At(b, w) \in BareNameStart
  <2>1. w \in 1..(Len(b) + 1) /\ Up(w) = 6 + w /\ w \in Nat /\ w >= i
    BY <1>1, <1>2, <1>3, <1>9 DEF Up
  <2>2. At(s, 6 + w) \in BareNameStart /\ w \in 1..Len(b)
    BY <1>9, <2>1, Quoteless, SeenInner
  <2> DEFINE z == Skip(b, w, BareName)
  <2>3. /\ z \in w..(Len(b) + 1)
        /\ \A x \in w..(z - 1) : b[x] \in BareName
        /\ z <= Len(b) => b[z] \notin BareName
    BY <1>1, <2>1, SkipPasses
  <2> HIDE DEF z
  <2>4. \E c \in w..Len(b) : b[c] = "comma"
    <3>1. y \in 7..FieldEnd(s) /\ s[y] = "user" /\ Boundary(s, y) /\ AfterSep(s, y + 1) = 6 + w /\ 6 + w # 0
      <4>1. s[y] = "user"
        <5>1. b[i] = s[y] /\ At(b, i) = b[i]
          BY <1>1, <1>2, AtInner
        <5> QED
          BY <1>9, <5>1
      <4> QED
        BY <1>1, <1>2, <1>3, <1>4, <1>9, <2>1, <4>1
    <3> HIDE DEF y
    <3>2. PICK d \in (6 + w)..FieldEnd(s) : s[d] = "comma"
      BY <3>1 DEF UserEnds
    <3> DEFINE c == d - 6
    <3>3. c \in w..Len(b) /\ c \in 1..Len(b) /\ 6 + c = d
      BY <1>1, <2>1
    <3> HIDE DEF c
    <3>4. b[c] = s[6 + c]
      BY <1>1, <3>3
    <3> QED
      BY <3>2, <3>3, <3>4
  <2>5. z \in w..Len(b)
    <3>1. PICK c \in w..Len(b) : b[c] = "comma"
      BY <2>4
    <3>2. "comma" \notin BareName
      BY Quoteless
    <3>3. c \notin w..(z - 1)
      BY <2>3, <3>1, <3>2
    <3> QED
      BY <1>1, <2>1, <2>3, <3>3
  <2>6. Skip(s, 6 + w, BareName) = 6 + z
    <3> DEFINE g == 6 + w
               h == 6 + z
    <3>1. g \in 1..(Len(s) + 1) /\ h \in g..(Len(s) + 1) /\ z \in Nat /\ z <= Len(b) /\ z \in 1..Len(b)
      BY <1>1, <2>1, <2>5
    <3>2. s[h] \notin BareName
      BY <1>1, <2>3, <3>1
    <3>3. ASSUME NEW x \in g..(h - 1) PROVE s[x] \in BareName
      <4> DEFINE k == x - 6
      <4>1. k \in w..(z - 1) /\ k \in 1..Len(b) /\ 6 + k = x
        BY <1>1, <2>1, <3>1
      <4> HIDE DEF k, g, h
      <4>2. b[k] = s[6 + k] /\ b[k] \in BareName
        BY <1>1, <2>3, <4>1
      <4> QED
        BY <4>1, <4>2
    <3> HIDE DEF g, h
    <3>4. Skip(s, g, BareName) = h
      BY <1>1, <3>1, <3>2, <3>3, SkipEndsAt
    <3> QED
      BY <3>4 DEF g, h
  <2>7. Kept(s, y, 6 + w) = Kept(b, i, w)
    <3>1. w \in i..(Len(b) + 1)
      BY <2>1
    <3> QED
      BY <3>1, KeptInner
  <2>8. NameBare(b, i) = Match(z, Kept(b, i, w) \o <<"NAME">>)
    BY <1>6, <1>9 DEF z
  <2>9. NameBare(s, y) = Match(6 + z, Kept(b, i, w) \o <<"NAME">>)
    <3>1. At(s, y) = "user" /\ Boundary(s, y) /\ At(s, Up(w)) \in BareNameStart
      BY <1>4, <1>9, <2>1, <2>2
    <3> HIDE DEF y
    <3> QED
      BY <1>6, <2>1, <2>6, <2>7, <3>1
  <2>10. Moved(Match(6 + z, Kept(b, i, w) \o <<"NAME">>), Match(z, Kept(b, i, w) \o <<"NAME">>))
    BY DEF Moved, Match
  <2> HIDE DEF y
  <2> QED
    BY <2>8, <2>9, <2>10 DEF y
<1> QED
  BY <1>7, <1>8, <1>9

(* What a text without escapes is made of, masked or not.                  *)
Plain == Lexemes \ {"quote", "nl", "bs", "n", "lbrace", "rbrace"}

(* A field without escapes is.                                             *)
LEMMA InnerPlain ==
  ASSUME NEW s, NEW b, Inner(s, b)
  PROVE  b \in Seq(Plain) /\ Lexed(b)
<1>1. /\ b \in Seq(Lexemes) /\ Len(b) \in Nat /\ Len(s) \in Nat /\ Len(s) = Len(b) + 16
      /\ \A i \in 1..Len(b) : b[i] = s[6 + i]
  BY InnerIs
<1>2. \A i \in 1..Len(b) : b[i] \in Plain
  <2> SUFFICES ASSUME NEW i \in 1..Len(b) PROVE b[i] \in Plain
    OBVIOUS
  <2>1. b[i] \notin {"quote", "nl", "bs", "n", "lbrace", "rbrace"}
    BY DEF Inner
  <2>2. b[i] \in Lexemes
    BY <1>1
  <2> QED
    BY <2>1, <2>2 DEF Plain
<1>3. b \in Seq(Plain)
  <2> DEFINE n == Len(b)
  <2>1. b \in [1..n -> Lexemes] /\ n \in Nat
    BY <1>1
  <2>2. \A i \in 1..n : b[i] \in Plain
    BY <1>2
  <2> HIDE DEF n
  <2>3. b \in [1..n -> Plain]
    BY <2>1, <2>2
  <2> QED
    BY <2>1, <2>3
<1>4. Lexed(s)
  BY DEF Inner, Framed
<1>5. Lexed(b)
  <2> SUFFICES ASSUME NEW i \in 2..Len(b), b[i] \in Words \cup {"n"}
               PROVE  b[i - 1] \notin Words \cup {"at"}
    BY DEF Lexed
  <2> DEFINE y == 6 + i
             k == i - 1
  <2>1. y \in 2..Len(s) /\ i \in 1..Len(b) /\ k \in 1..Len(b) /\ y - 1 = 6 + k /\ y = 6 + i /\ k = i - 1
    BY <1>1
  <2> HIDE DEF y, k
  <2>2. b[i] = s[y] /\ b[k] = s[y - 1]
    BY <1>1, <2>1
  <2>3. s[y] \in Words \cup {"n"} => s[y - 1] \notin Words \cup {"at"}
    BY <1>4, <2>1 DEF Lexed
  <2>4. b[k] \notin Words \cup {"at"}
    BY <2>2, <2>3
  <2> QED
    BY <2>1, <2>4
<1> QED
  BY <1>3, <1>5

(* A pass that stays in the field leaves there what it makes of the field. *)
LEMMA InnerPass ==
  ASSUME NEW s, NEW b, Inner(s, b), NEW match, NEW inner,
         \A i \in 1..Len(s) : Fits(match[i], Lexemes), InField(match, s),
         \A i \in 1..Len(b) : Fits(inner[i], Plain) /\ MasksOnly(inner[i], b, i),
         \A i \in 1..Len(b) : Moved(match[6 + i], inner[i]),
         Framed(Rewriting(match, s)[Len(s)].out)
  PROVE  Inner(Rewriting(match, s)[Len(s)].out, Rewriting(inner, b)[Len(b)].out)
<1> DEFINE t == Rewriting(match, s)[Len(s)].out
           u == Rewriting(inner, b)[Len(b)].out
<1>1. /\ s \in Seq(Lexemes) /\ b \in Seq(Lexemes) /\ Len(b) \in Nat /\ Len(s) \in Nat
      /\ \A i \in 1..Len(b) : b[i] = s[6 + i]
  BY InnerIs
<1>2. b \in Seq(Plain) /\ Plain \subseteq Lexemes
  BY InnerPlain DEF Plain
<1>3. Framed(s) /\ Len(b) = FieldEnd(s) - 6
  BY DEF Inner
<1>4. PutsOut(match, s, Lexemes)
  BY <1>1 DEF PutsOut, Fits
<1>5. PutsOut(inner, b, Plain)
  <2> SUFFICES ASSUME NEW i \in 1..Len(b)
               PROVE  inner[i].end \in Int /\ inner[i].out \in Seq(Plain) /\ b[i] \in Plain
    BY DEF PutsOut
  <2>1. Fits(inner[i], Plain)
    OBVIOUS
  <2>2. b[i] \in Plain
    BY <1>2
  <2> QED
    BY <2>1, <2>2 DEF Fits
<1>6. PutsOut(inner, b, Lexemes)
  <2> SUFFICES ASSUME NEW i \in 1..Len(b)
               PROVE  inner[i].end \in Int /\ inner[i].out \in Seq(Lexemes) /\ b[i] \in Lexemes
    BY DEF PutsOut
  <2>1. inner[i].end \in Int /\ inner[i].out \in Seq(Plain)
    BY <1>5 DEF PutsOut
  <2>2. inner[i].out \in Seq(Lexemes)
    <3> DEFINE o == inner[i].out
    <3> HIDE DEF o
    <3>1. o \in Seq(Plain) => o \in Seq(Lexemes)
      BY <1>2
    <3> QED
      BY <2>1, <3>1 DEF o
  <2>3. b[i] \in Lexemes
    BY <1>1
  <2> QED
    BY <2>1, <2>2, <2>3
<1>7. Advances(inner, b)
  <2> SUFFICES ASSUME NEW i \in 1..Len(b) PROVE inner[i].end \in i..(Len(b) + 1)
    BY DEF Advances
  <2>1. MasksOnly(inner[i], b, i)
    OBVIOUS
  <2>2. inner[i].end = i \/ inner[i].end \in (i + 1)..(Len(b) + 1)
    BY <2>1 DEF MasksOnly, Masks
  <2> QED
    BY <1>1, <2>2
<1>8. u \in Seq(Plain)
  BY <1>2, <1>5, RewritingIs
<1>9. /\ u \in Seq(Lexemes) /\ Len(t) = Len(u) + 16
      /\ \A i \in 1..Len(u) : t[6 + i] = u[i]
  BY <1>1, <1>3, <1>4, <1>6, <1>7, PassInside
<1>10. Framed(t)
  OBVIOUS
<1> HIDE DEF t, u
<1>11. Len(u) = FieldEnd(t) - 6
  BY <1>9 DEF FieldEnd
<1>12. \A i \in 1..Len(u) : u[i] \notin {"quote", "nl", "bs", "n", "lbrace", "rbrace"}
  BY <1>8 DEF Plain
<1> QED
  BY <1>9, <1>10, <1>11, <1>12 DEF Inner, t, u

(* The passes over tokens do to the payload what they do to the field,     *)
LEMMA TokensInner ==
  ASSUME NEW s, NEW b, Inner(s, b), Kempt(s), SecretsEnd(s)
  PROVE  /\ Inner(Rewrite(AuthHeader, s), Rewrite(AuthHeader, b))
         /\ Inner(Rewrite(BearerToken, s), Rewrite(BearerToken, b))
         /\ Inner(Rewrite(Jwt, s), Rewrite(Jwt, b))
         /\ Inner(Rewrite(ProviderKey, s), Rewrite(ProviderKey, b))
         /\ Inner(Rewrite(Secret, s), Rewrite(Secret, b))
<1>1. /\ s \in Seq(Lexemes) /\ b \in Seq(Lexemes) /\ b \in Seq(Plain) /\ Lexed(s) /\ Lexed(b)
      /\ Len(b) \in Nat /\ Len(s) \in Nat /\ Len(s) = Len(b) + 16
  BY InnerIs, InnerPlain DEF Kempt, Framed
<1>2. Framed(s)
  BY DEF Kempt
<1>3. {"AUTH", "TOKEN", "EMAIL", "IP", "NAME", "at", "ip6"} \subseteq Plain /\ Plain \subseteq Lexemes
      /\ {"AUTH", "TOKEN", "EMAIL", "IP", "NAME", "at", "ip6"} \subseteq Lexemes
  BY DEF Plain, Lexemes, Placeholders, Words
<1>4. Inner(Rewrite(AuthHeader, s), Rewrite(AuthHeader, b))
  <2> DEFINE match == [i \in DOMAIN s |-> AuthHeader(s, i)]
             own == [i \in DOMAIN b |-> AuthHeader(b, i)]
  <2>1. \A i \in 1..Len(s) : match[i] = AuthHeader(s, i)
    BY <1>1
  <2>2. \A i \in 1..Len(b) : own[i] = AuthHeader(b, i)
    BY <1>1
  <2>3. /\ Rewriting(match, s)[Len(s)].out = Rewrite(AuthHeader, s)
        /\ Rewriting(own, b)[Len(b)].out = Rewrite(AuthHeader, b)
    BY DEF Rewrite
  <2> HIDE DEF match, own
  <2>4. \A i \in 1..Len(s) : Fits(match[i], Lexemes)
    BY <1>1, <1>3, <2>1, AuthHeaderFits
  <2>5. \A i \in 1..Len(b) : Fits(own[i], Plain) /\ MasksOnly(own[i], b, i)
    BY <1>1, <1>3, <2>2, AuthHeaderFits, AuthHeaderMasks
  <2>6. \A i \in 1..Len(b) : Moved(match[6 + i], own[i])
    <3> SUFFICES ASSUME NEW i \in 1..Len(b) PROVE Moved(match[6 + i], own[i])
      OBVIOUS
    <3> DEFINE y == 6 + i
    <3>1. y \in 1..Len(s)
      BY <1>1
    <3>2. Moved(AuthHeader(s, y), AuthHeader(b, i))
      BY AuthHeaderInner
    <3> HIDE DEF y
    <3>3. match[y] = AuthHeader(s, y) /\ own[i] = AuthHeader(b, i)
      BY <2>1, <2>2, <3>1
    <3> QED
      BY <3>2, <3>3 DEF y
  <2>7. InField(match, s)
    <3>1. TokenPass(match, s)
      BY <1>1, <2>1, AuthHeaderTakes DEF TokenPass
    <3> QED
      BY <1>2, <3>1, TokenPassSettled DEF Settled
  <2>8. Framed(Rewrite(AuthHeader, s))
    BY TokensKempt DEF Kempt
  <2> QED
    BY <2>3, <2>4, <2>5, <2>6, <2>7, <2>8, InnerPass
<1>5. Inner(Rewrite(BearerToken, s), Rewrite(BearerToken, b))
  <2> DEFINE match == [i \in DOMAIN s |-> BearerToken(s, i)]
             own == [i \in DOMAIN b |-> BearerToken(b, i)]
  <2>1. \A i \in 1..Len(s) : match[i] = BearerToken(s, i)
    BY <1>1
  <2>2. \A i \in 1..Len(b) : own[i] = BearerToken(b, i)
    BY <1>1
  <2>3. /\ Rewriting(match, s)[Len(s)].out = Rewrite(BearerToken, s)
        /\ Rewriting(own, b)[Len(b)].out = Rewrite(BearerToken, b)
    BY DEF Rewrite
  <2> HIDE DEF match, own
  <2>4. \A i \in 1..Len(s) : Fits(match[i], Lexemes)
    BY <1>1, <1>3, <2>1, BearerTokenFits
  <2>5. \A i \in 1..Len(b) : Fits(own[i], Plain) /\ MasksOnly(own[i], b, i)
    BY <1>1, <1>3, <2>2, BearerTokenFits, BearerTokenMasks
  <2>6. \A i \in 1..Len(b) : Moved(match[6 + i], own[i])
    <3> SUFFICES ASSUME NEW i \in 1..Len(b) PROVE Moved(match[6 + i], own[i])
      OBVIOUS
    <3> DEFINE y == 6 + i
    <3>1. y \in 1..Len(s)
      BY <1>1
    <3>2. Moved(BearerToken(s, y), BearerToken(b, i))
      BY BearerTokenInner
    <3> HIDE DEF y
    <3>3. match[y] = BearerToken(s, y) /\ own[i] = BearerToken(b, i)
      BY <2>1, <2>2, <3>1
    <3> QED
      BY <3>2, <3>3 DEF y
  <2>7. InField(match, s)
    <3>1. TokenPass(match, s)
      BY <1>1, <2>1, BearerTokenTakes DEF TokenPass
    <3> QED
      BY <1>2, <3>1, TokenPassSettled DEF Settled
  <2>8. Framed(Rewrite(BearerToken, s))
    BY TokensKempt DEF Kempt
  <2> QED
    BY <2>3, <2>4, <2>5, <2>6, <2>7, <2>8, InnerPass
<1>6. Inner(Rewrite(Jwt, s), Rewrite(Jwt, b))
  <2> DEFINE match == [i \in DOMAIN s |-> Jwt(s, i)]
             own == [i \in DOMAIN b |-> Jwt(b, i)]
  <2>1. \A i \in 1..Len(s) : match[i] = Jwt(s, i)
    BY <1>1
  <2>2. \A i \in 1..Len(b) : own[i] = Jwt(b, i)
    BY <1>1
  <2>3. /\ Rewriting(match, s)[Len(s)].out = Rewrite(Jwt, s)
        /\ Rewriting(own, b)[Len(b)].out = Rewrite(Jwt, b)
    BY DEF Rewrite
  <2> HIDE DEF match, own
  <2>4. \A i \in 1..Len(s) : Fits(match[i], Lexemes)
    BY <1>1, <1>3, <2>1, JwtFits
  <2>5. \A i \in 1..Len(b) : Fits(own[i], Plain) /\ MasksOnly(own[i], b, i)
    BY <1>1, <1>3, <2>2, JwtFits, JwtMasksOnly
  <2>6. \A i \in 1..Len(b) : Moved(match[6 + i], own[i])
    <3> SUFFICES ASSUME NEW i \in 1..Len(b) PROVE Moved(match[6 + i], own[i])
      OBVIOUS
    <3> DEFINE y == 6 + i
    <3>1. y \in 1..Len(s)
      BY <1>1
    <3>2. Moved(Jwt(s, y), Jwt(b, i))
      BY OnesInner
    <3> HIDE DEF y
    <3>3. match[y] = Jwt(s, y) /\ own[i] = Jwt(b, i)
      BY <2>1, <2>2, <3>1
    <3> QED
      BY <3>2, <3>3 DEF y
  <2>7. InField(match, s)
    <3>1. TokenPass(match, s)
      BY <1>1, <2>1, OnesTake DEF TokenPass
    <3> QED
      BY <1>2, <3>1, TokenPassSettled DEF Settled
  <2>8. Framed(Rewrite(Jwt, s))
    BY TokensKempt DEF Kempt
  <2> QED
    BY <2>3, <2>4, <2>5, <2>6, <2>7, <2>8, InnerPass
<1>7. Inner(Rewrite(ProviderKey, s), Rewrite(ProviderKey, b))
  <2> DEFINE match == [i \in DOMAIN s |-> ProviderKey(s, i)]
             own == [i \in DOMAIN b |-> ProviderKey(b, i)]
  <2>1. \A i \in 1..Len(s) : match[i] = ProviderKey(s, i)
    BY <1>1
  <2>2. \A i \in 1..Len(b) : own[i] = ProviderKey(b, i)
    BY <1>1
  <2>3. /\ Rewriting(match, s)[Len(s)].out = Rewrite(ProviderKey, s)
        /\ Rewriting(own, b)[Len(b)].out = Rewrite(ProviderKey, b)
    BY DEF Rewrite
  <2> HIDE DEF match, own
  <2>4. \A i \in 1..Len(s) : Fits(match[i], Lexemes)
    BY <1>1, <1>3, <2>1, ProviderKeyFits
  <2>5. \A i \in 1..Len(b) : Fits(own[i], Plain) /\ MasksOnly(own[i], b, i)
    BY <1>1, <1>3, <2>2, ProviderKeyFits, ProviderKeyMasks
  <2>6. \A i \in 1..Len(b) : Moved(match[6 + i], own[i])
    <3> SUFFICES ASSUME NEW i \in 1..Len(b) PROVE Moved(match[6 + i], own[i])
      OBVIOUS
    <3> DEFINE y == 6 + i
    <3>1. y \in 1..Len(s)
      BY <1>1
    <3>2. Moved(ProviderKey(s, y), ProviderKey(b, i))
      BY OnesInner
    <3> HIDE DEF y
    <3>3. match[y] = ProviderKey(s, y) /\ own[i] = ProviderKey(b, i)
      BY <2>1, <2>2, <3>1
    <3> QED
      BY <3>2, <3>3 DEF y
  <2>7. InField(match, s)
    <3>1. TokenPass(match, s)
      BY <1>1, <2>1, OnesTake DEF TokenPass
    <3> QED
      BY <1>2, <3>1, TokenPassSettled DEF Settled
  <2>8. Framed(Rewrite(ProviderKey, s))
    BY TokensKempt DEF Kempt
  <2> QED
    BY <2>3, <2>4, <2>5, <2>6, <2>7, <2>8, InnerPass
<1>8. Inner(Rewrite(Secret, s), Rewrite(Secret, b))
  <2> DEFINE match == [i \in DOMAIN s |-> Secret(s, i)]
             own == [i \in DOMAIN b |-> Secret(b, i)]
  <2>1. \A i \in 1..Len(s) : match[i] = Secret(s, i)
    BY <1>1
  <2>2. \A i \in 1..Len(b) : own[i] = Secret(b, i)
    BY <1>1
  <2>3. /\ Rewriting(match, s)[Len(s)].out = Rewrite(Secret, s)
        /\ Rewriting(own, b)[Len(b)].out = Rewrite(Secret, b)
    BY DEF Rewrite
  <2> HIDE DEF match, own
  <2>4. \A i \in 1..Len(s) : Fits(match[i], Lexemes)
    BY <1>1, <1>3, <2>1, SecretFits
  <2>5. \A i \in 1..Len(b) : Fits(own[i], Plain) /\ MasksOnly(own[i], b, i)
    BY <1>1, <1>3, <2>2, SecretFits, SecretMasks
  <2>6. \A i \in 1..Len(b) : Moved(match[6 + i], own[i])
    <3> SUFFICES ASSUME NEW i \in 1..Len(b) PROVE Moved(match[6 + i], own[i])
      OBVIOUS
    <3> DEFINE y == 6 + i
    <3>1. y \in 1..Len(s)
      BY <1>1
    <3>2. Moved(Secret(s, y), Secret(b, i))
      BY SecretInner
    <3> HIDE DEF y
    <3>3. match[y] = Secret(s, y) /\ own[i] = Secret(b, i)
      BY <2>1, <2>2, <3>1
    <3> QED
      BY <3>2, <3>3 DEF y
  <2>7. InField(match, s)
    BY <1>1, <1>2, <2>1, SecretInField
  <2>8. Framed(Rewrite(Secret, s))
    BY SecretKempt DEF Kempt
  <2> QED
    BY <2>3, <2>4, <2>5, <2>6, <2>7, <2>8, InnerPass
<1> QED
  BY <1>4, <1>5, <1>6, <1>7, <1>8

(* and so do those over addresses,                                         *)
LEMMA AddressesInner ==
  ASSUME NEW s, NEW b, Inner(s, b), Kempt(s)
  PROVE  /\ Inner(Rewrite(Email, s), Rewrite(Email, b))
         /\ Inner(Rewrite(IPv6, s), Rewrite(IPv6, b))
         /\ Inner(Rewrite(IPv4, s), Rewrite(IPv4, b))
<1>1. /\ s \in Seq(Lexemes) /\ b \in Seq(Lexemes) /\ b \in Seq(Plain) /\ Lexed(s) /\ Lexed(b)
      /\ Len(b) \in Nat /\ Len(s) \in Nat /\ Len(s) = Len(b) + 16
  BY InnerIs, InnerPlain DEF Kempt, Framed
<1>2. Framed(s) /\ NoMail(s)
  BY DEF Kempt
<1>3. {"AUTH", "TOKEN", "EMAIL", "IP", "NAME", "at", "ip6"} \subseteq Plain /\ Plain \subseteq Lexemes
      /\ {"AUTH", "TOKEN", "EMAIL", "IP", "NAME", "at", "ip6"} \subseteq Lexemes
  BY DEF Plain, Lexemes, Placeholders, Words
<1>4. Inner(Rewrite(Email, s), Rewrite(Email, b))
  <2> DEFINE match == [i \in DOMAIN s |-> Email(s, i)]
             own == [i \in DOMAIN b |-> Email(b, i)]
  <2>1. \A i \in 1..Len(s) : match[i] = Email(s, i)
    BY <1>1
  <2>2. \A i \in 1..Len(b) : own[i] = Email(b, i)
    BY <1>1
  <2>3. /\ Rewriting(match, s)[Len(s)].out = Rewrite(Email, s)
        /\ Rewriting(own, b)[Len(b)].out = Rewrite(Email, b)
    BY DEF Rewrite
  <2> HIDE DEF match, own
  <2>4. \A i \in 1..Len(s) : Fits(match[i], Lexemes)
    BY <1>1, <1>3, <2>1, EmailFits
  <2>5. \A i \in 1..Len(b) : Fits(own[i], Plain) /\ MasksOnly(own[i], b, i)
    BY <1>1, <1>3, <2>2, EmailFits, EmailMasksOnly
  <2>6. \A i \in 1..Len(b) : Moved(match[6 + i], own[i])
    <3> SUFFICES ASSUME NEW i \in 1..Len(b) PROVE Moved(match[6 + i], own[i])
      OBVIOUS
    <3> DEFINE y == 6 + i
    <3>1. y \in 1..Len(s)
      BY <1>1
    <3>2. Moved(Email(s, y), Email(b, i))
      BY EmailInner
    <3> HIDE DEF y
    <3>3. match[y] = Email(s, y) /\ own[i] = Email(b, i)
      BY <2>1, <2>2, <3>1
    <3> QED
      BY <3>2, <3>3 DEF y
  <2>7. InField(match, s)
    <3>1. TokenPass(match, s)
      BY <1>1, <1>2, <2>1, EmailTakes DEF TokenPass
    <3> QED
      BY <1>2, <3>1, TokenPassSettled DEF Settled
  <2>8. Framed(Rewrite(Email, s))
    BY AddressesKempt DEF Kempt
  <2> QED
    BY <2>3, <2>4, <2>5, <2>6, <2>7, <2>8, InnerPass
<1>5. Inner(Rewrite(IPv6, s), Rewrite(IPv6, b))
  <2> DEFINE match == [i \in DOMAIN s |-> IPv6(s, i)]
             own == [i \in DOMAIN b |-> IPv6(b, i)]
  <2>1. \A i \in 1..Len(s) : match[i] = IPv6(s, i)
    BY <1>1
  <2>2. \A i \in 1..Len(b) : own[i] = IPv6(b, i)
    BY <1>1
  <2>3. /\ Rewriting(match, s)[Len(s)].out = Rewrite(IPv6, s)
        /\ Rewriting(own, b)[Len(b)].out = Rewrite(IPv6, b)
    BY DEF Rewrite
  <2> HIDE DEF match, own
  <2>4. \A i \in 1..Len(s) : Fits(match[i], Lexemes)
    BY <1>1, <1>3, <2>1, IPv6Fits
  <2>5. \A i \in 1..Len(b) : Fits(own[i], Plain) /\ MasksOnly(own[i], b, i)
    BY <1>1, <1>3, <2>2, IPv6Fits, IPv6MasksOnly
  <2>6. \A i \in 1..Len(b) : Moved(match[6 + i], own[i])
    <3> SUFFICES ASSUME NEW i \in 1..Len(b) PROVE Moved(match[6 + i], own[i])
      OBVIOUS
    <3> DEFINE y == 6 + i
    <3>1. y \in 1..Len(s)
      BY <1>1
    <3>2. Moved(IPv6(s, y), IPv6(b, i))
      BY OnesInner
    <3> HIDE DEF y
    <3>3. match[y] = IPv6(s, y) /\ own[i] = IPv6(b, i)
      BY <2>1, <2>2, <3>1
    <3> QED
      BY <3>2, <3>3 DEF y
  <2>7. InField(match, s)
    <3>1. TokenPass(match, s)
      BY <1>1, <2>1, OnesTake DEF TokenPass
    <3> QED
      BY <1>2, <3>1, TokenPassSettled DEF Settled
  <2>8. Framed(Rewrite(IPv6, s))
    BY AddressesKempt DEF Kempt
  <2> QED
    BY <2>3, <2>4, <2>5, <2>6, <2>7, <2>8, InnerPass
<1>6. Inner(Rewrite(IPv4, s), Rewrite(IPv4, b))
  <2> DEFINE match == [i \in DOMAIN s |-> IPv4(s, i)]
             own == [i \in DOMAIN b |-> IPv4(b, i)]
  <2>1. \A i \in 1..Len(s) : match[i] = IPv4(s, i)
    BY <1>1
  <2>2. \A i \in 1..Len(b) : own[i] = IPv4(b, i)
    BY <1>1
  <2>3. /\ Rewriting(match, s)[Len(s)].out = Rewrite(IPv4, s)
        /\ Rewriting(own, b)[Len(b)].out = Rewrite(IPv4, b)
    BY DEF Rewrite
  <2> HIDE DEF match, own
  <2>4. \A i \in 1..Len(s) : Fits(match[i], Lexemes)
    BY <1>1, <1>3, <2>1, IPv4Fits
  <2>5. \A i \in 1..Len(b) : Fits(own[i], Plain) /\ MasksOnly(own[i], b, i)
    BY <1>1, <1>3, <2>2, IPv4Fits, IPv4Masks
  <2>6. \A i \in 1..Len(b) : Moved(match[6 + i], own[i])
    <3> SUFFICES ASSUME NEW i \in 1..Len(b) PROVE Moved(match[6 + i], own[i])
      OBVIOUS
    <3> DEFINE y == 6 + i
    <3>1. y \in 1..Len(s)
      BY <1>1
    <3>2. Moved(IPv4(s, y), IPv4(b, i))
      BY OnesInner
    <3> HIDE DEF y
    <3>3. match[y] = IPv4(s, y) /\ own[i] = IPv4(b, i)
      BY <2>1, <2>2, <3>1
    <3> QED
      BY <3>2, <3>3 DEF y
  <2>7. InField(match, s)
    <3>1. TokenPass(match, s)
      BY <1>1, <2>1, OnesTake DEF TokenPass
    <3> QED
      BY <1>2, <3>1, TokenPassSettled DEF Settled
  <2>8. Framed(Rewrite(IPv4, s))
    BY AddressesKempt DEF Kempt
  <2> QED
    BY <2>3, <2>4, <2>5, <2>6, <2>7, <2>8, InnerPass
<1> QED
  BY <1>4, <1>5, <1>6

(* the last over bare names,                                               *)
LEMMA BareInner ==
  ASSUME NEW s, NEW b, Inner(s, b), Kempt(s)
  PROVE  Inner(Rewrite(NameBare, s), Rewrite(NameBare, b))
<1>1. /\ s \in Seq(Lexemes) /\ b \in Seq(Lexemes) /\ b \in Seq(Plain) /\ Lexed(s) /\ Lexed(b)
      /\ Len(b) \in Nat /\ Len(s) \in Nat /\ Len(s) = Len(b) + 16
  BY InnerIs, InnerPlain DEF Kempt, Framed
<1>2. Framed(s) /\ UserEnds(s)
  BY DEF Kempt
<1>3. {"AUTH", "TOKEN", "EMAIL", "IP", "NAME", "at", "ip6"} \subseteq Plain /\ Plain \subseteq Lexemes
      /\ {"AUTH", "TOKEN", "EMAIL", "IP", "NAME", "at", "ip6"} \subseteq Lexemes
  BY DEF Plain, Lexemes, Placeholders, Words
<1>4. Inner(Rewrite(NameBare, s), Rewrite(NameBare, b))
  <2> DEFINE match == [i \in DOMAIN s |-> NameBare(s, i)]
             own == [i \in DOMAIN b |-> NameBare(b, i)]
  <2>1. \A i \in 1..Len(s) : match[i] = NameBare(s, i)
    BY <1>1
  <2>2. \A i \in 1..Len(b) : own[i] = NameBare(b, i)
    BY <1>1
  <2>3. /\ Rewriting(match, s)[Len(s)].out = Rewrite(NameBare, s)
        /\ Rewriting(own, b)[Len(b)].out = Rewrite(NameBare, b)
    BY DEF Rewrite
  <2> HIDE DEF match, own
  <2>4. \A i \in 1..Len(s) : Fits(match[i], Lexemes)
    BY <1>1, <1>3, <2>1, NameBareFits
  <2>5. \A i \in 1..Len(b) : Fits(own[i], Plain) /\ MasksOnly(own[i], b, i)
    BY <1>1, <1>3, <2>2, NameBareFits, NameBareMasks
  <2>6. \A i \in 1..Len(b) : Moved(match[6 + i], own[i])
    <3> SUFFICES ASSUME NEW i \in 1..Len(b) PROVE Moved(match[6 + i], own[i])
      OBVIOUS
    <3> DEFINE y == 6 + i
    <3>1. y \in 1..Len(s)
      BY <1>1
    <3>2. Moved(NameBare(s, y), NameBare(b, i))
      BY <1>2, NameBareInner
    <3> HIDE DEF y
    <3>3. match[y] = NameBare(s, y) /\ own[i] = NameBare(b, i)
      BY <2>1, <2>2, <3>1
    <3> QED
      BY <3>2, <3>3 DEF y
  <2>7. InField(match, s)
    BY <1>2, <2>1, NameBareInField
  <2>8. Framed(Rewrite(NameBare, s))
    BY BareKempt
  <2> QED
    BY <2>3, <2>4, <2>5, <2>6, <2>7, <2>8, InnerPass
<1> QED
  BY <1>4

(* and the one over quoted names finds none in either.                     *)
LEMMA NothingQuoted ==
  ASSUME NEW s, NEW b, Inner(s, b)
  PROVE  Rewrite(NameQuoted, b) = b
<1> DEFINE own == [i \in DOMAIN b |-> NameQuoted(b, i)]
<1>1. /\ b \in Seq(Lexemes) /\ Len(b) \in Nat
      /\ \A i \in 1..Len(b) : b[i] # "quote"
  BY InnerIs
<1>2. \A i \in 1..Len(b) : own[i] = NameQuoted(b, i)
  BY <1>1
<1>3. Rewriting(own, b)[Len(b)].out = Rewrite(NameQuoted, b)
  BY DEF Rewrite
<1> HIDE DEF own
<1>4. \A j : At(b, j) # "quote"
  <2> SUFFICES ASSUME NEW j PROVE At(b, j) # "quote"
    OBVIOUS
  <2>1. DOMAIN b = 1..Len(b)
    BY <1>1
  <2> QED
    BY <1>1, <2>1 DEF At
<1>5. \A i \in 1..Len(b) : NameQuoted(b, i) = NoMatch(i)
  BY <1>4 DEF NameQuoted
<1>6. \A i \in 1..Len(b) : own[i].end = i /\ Fits(own[i], Lexemes)
  BY <1>2, <1>5, NoMatchIs
<1>7. PutsOut(own, b, Lexemes)
  BY <1>1, <1>6 DEF PutsOut, Fits
<1>8. Advances(own, b)
  BY <1>1, <1>6 DEF Advances
<1> QED
  BY <1>1, <1>3, <1>6, <1>7, <1>8, RewritingSame

(* So the scrub of a payload is, in the field, the scrub of the field.     *)
LEMMA ScrubInner ==
  ASSUME NEW s, NEW b, Inner(s, b), Kempt(s), SecretsEnd(s)
  PROVE  Inner(ScrubString(s), ScrubString(b))
<1> DEFINE s1 == Rewrite(AuthHeader, s)
           b1 == Rewrite(AuthHeader, b)
           s2 == Rewrite(BearerToken, s1)
           b2 == Rewrite(BearerToken, b1)
           s3 == Rewrite(Jwt, s2)
           b3 == Rewrite(Jwt, b2)
           s4 == Rewrite(ProviderKey, s3)
           b4 == Rewrite(ProviderKey, b3)
           s5 == Rewrite(Secret, s4)
           b5 == Rewrite(Secret, b4)
           s6 == Rewrite(Email, s5)
           b6 == Rewrite(Email, b5)
           s7 == Rewrite(IPv6, s6)
           b7 == Rewrite(IPv6, b6)
           s8 == Rewrite(IPv4, s7)
           b8 == Rewrite(IPv4, b7)
<1>1. Kempt(s1) /\ SecretsEnd(s1) /\ Inner(s1, b1)
  BY TokensKempt, TokensInner
<1> HIDE DEF s1, b1
<1>2. Kempt(s2) /\ SecretsEnd(s2) /\ Inner(s2, b2)
  BY <1>1, TokensKempt, TokensInner
<1> HIDE DEF s2, b2
<1>3. Kempt(s3) /\ SecretsEnd(s3) /\ Inner(s3, b3)
  BY <1>2, TokensKempt, TokensInner
<1> HIDE DEF s3, b3
<1>4. Kempt(s4) /\ SecretsEnd(s4) /\ Inner(s4, b4)
  BY <1>3, TokensKempt, TokensInner
<1> HIDE DEF s4, b4
<1>5. Kempt(s5) /\ Inner(s5, b5)
  BY <1>4, SecretKempt, TokensInner
<1> HIDE DEF s5, b5
<1>6. Kempt(s6) /\ Inner(s6, b6)
  BY <1>5, AddressesKempt, AddressesInner
<1> HIDE DEF s6, b6
<1>7. Kempt(s7) /\ Inner(s7, b7)
  BY <1>6, AddressesKempt, AddressesInner
<1> HIDE DEF s7, b7
<1>8. Kempt(s8) /\ Inner(s8, b8)
  BY <1>7, AddressesKempt, AddressesInner
<1> HIDE DEF s8, b8
<1>9. Rewrite(NameQuoted, s8) = s8 /\ Rewrite(NameQuoted, b8) = b8
  BY <1>8, QuotedKempt, NothingQuoted
<1>10. Inner(Rewrite(NameBare, s8), Rewrite(NameBare, b8))
  BY <1>8, BareInner
<1>11. ScrubString(s) = Rewrite(NameBare, s8) /\ ScrubString(b) = Rewrite(NameBare, b8)
  BY <1>9 DEF ScrubString, RedactTokens, RedactEmails, RedactIPs, RedactNames,
              s1, s2, s3, s4, s5, s6, s7, s8, b1, b2, b3, b4, b5, b6, b7, b8
<1> QED
  BY <1>10, <1>11

-----------------------------------------------------------------------------
(***************************************************************************)
(* What is read of it.                                                     *)
(***************************************************************************)

(* A literal without escapes is read as it stands.                         *)
LEMMA PlainReads ==
  ASSUME NEW s \in Seq(Lexemes), \A i \in 1..Len(s) : s[i] # "bs"
  PROVE  Read(s).text = s
<1> DEFINE n == Len(s)
           read == Reading(s)
<1>1. n \in Nat /\ "nl" \in Lexemes
  BY DEF Lexemes, Marks
<1>2. /\ read[0] = [text |-> <<>>, escaped |-> FALSE, valid |-> TRUE]
      /\ \A i \in 1..n : read[i] = ReadStep(s, read[i - 1], i)
      /\ \A i \in 0..n : read[i] \in [text : Seq(Lexemes), escaped : BOOLEAN, valid : BOOLEAN]
  BY <1>1, ReadingIs
<1> HIDE DEF read
<1> DEFINE Ok(i) == /\ read[i].escaped = FALSE /\ Len(read[i].text) = i
                    /\ \A k \in 1..i : read[i].text[k] = s[k]
           Bad == {i \in 0..n : ~Ok(i)}
<1>3. Ok(0)
  BY <1>2
<1>4. ASSUME NEW i \in 1..n, Ok(i - 1) PROVE Ok(i)
  <2> DEFINE p == i - 1
             prev == read[p]
  <2>1. i \in Nat /\ p \in 0..n /\ p + 1 = i /\ p \in Nat
    BY <1>1
  <2>2. Ok(p)
    BY <1>4
  <2>3. prev \in [text : Seq(Lexemes), escaped : BOOLEAN, valid : BOOLEAN]
    BY <1>2, <2>1
  <2>4. read[i] = ReadStep(s, prev, i)
    BY <1>2
  <2>5. prev.escaped = FALSE /\ prev.text \in Seq(Lexemes) /\ Len(prev.text) = p
        /\ \A k \in 1..p : prev.text[k] = s[k]
    BY <2>2, <2>3
  <2>6. s[i] # "bs" /\ s[i] \in Lexemes
    BY <1>1
  <2> HIDE DEF prev
  <2>7. read[i] = [text |-> Append(prev.text, s[i]), escaped |-> FALSE,
                   valid |-> prev.valid /\ s[i] \notin {"quote", "nl"}]
    BY <2>4, <2>5, <2>6 DEF ReadStep
  <2> DEFINE w == Append(prev.text, s[i])
  <2>8. read[i].escaped = FALSE /\ read[i].text = w
    BY <2>7
  <2> HIDE DEF p
  <2>9. Len(w) = i /\ w[i] = s[i] /\ \A k \in 1..p : w[k] = s[k]
    <3> DEFINE v == prev.text
               x == s[i]
    <3>1. v \in Seq(Lexemes) /\ x \in Lexemes /\ Len(v) = p /\ p + 1 = i
      BY <2>1, <2>5, <2>6
    <3> HIDE DEF v, x
    <3>2. Len(Append(v, x)) = i /\ Append(v, x)[i] = x /\ \A k \in 1..p : Append(v, x)[k] = v[k]
      BY <2>1, <3>1
    <3> QED
      BY <2>5, <3>2 DEF v, x
  <2> HIDE DEF w
  <2>10. \A k \in 1..i : k = i \/ k \in 1..p
    BY <2>1
  <2> QED
    BY <2>8, <2>9, <2>10
<1>5. Bad = {}
  <2>1. \A i \in 1..n : i \in Bad => i - 1 \in Bad
    <3> SUFFICES ASSUME NEW i \in 1..n, i \in Bad, i - 1 \notin Bad PROVE FALSE
      OBVIOUS
    <3>1. i - 1 \in 0..n
      BY <1>1
    <3>2. Ok(i - 1) /\ ~Ok(i)
      BY <3>1
    <3> HIDE DEF Ok
    <3> QED
      BY <1>4, <3>2
  <2>2. Bad \subseteq 0..n /\ 0 \notin Bad
    <3> HIDE DEF Ok
    <3> QED
      BY <1>3
  <2> HIDE DEF Bad
  <2> QED
    BY <1>1, <2>1, <2>2, LoopKeeps
<1>6. Ok(n)
  <2> HIDE DEF Ok
  <2> QED
    BY <1>1, <1>5
<1>7. read[n].text \in Seq(Lexemes)
  BY <1>1, <1>2
<1>8. read[n].text = s
  <2> DEFINE w == read[n].text
  <2> HIDE DEF w
  <2>1. w \in Seq(Lexemes) /\ Len(w) = Len(s) /\ \A k \in 1..Len(s) : w[k] = s[k]
    BY <1>6, <1>7 DEF w
  <2>2. w = s
    BY <2>1, SeqEqual
  <2> QED
    BY <2>2 DEF w
<1> QED
  BY <1>8 DEF Read, read, n

(* So what is read from the payload is its field.                          *)
LEMMA InnerDecoded ==
  ASSUME NEW s, NEW b, Inner(s, b)
  PROVE  Decoded(s) = b
<1>1. /\ Framed(s) /\ b \in Seq(Lexemes) /\ Len(b) = FieldEnd(s) - 6
      /\ \A i \in 1..Len(b) : b[i] = s[6 + i] /\ b[i] # "bs"
  BY DEF Inner
<1> DEFINE u == Inside(s)
<1>2. /\ u \in Seq(Lexemes) /\ Len(u) = FieldEnd(s) - 6
      /\ \A i \in 1..(FieldEnd(s) - 6) : u[i] = s[6 + i]
  BY <1>1, InsideIs
<1> HIDE DEF u
<1>3. u \in Seq(Lexemes) /\ b \in Seq(Lexemes) /\ Len(u) = Len(b) /\ \A i \in 1..Len(b) : u[i] = b[i]
  BY <1>1, <1>2
<1>4. u = b
  BY <1>3, SeqEqual
<1>5. Read(b).text = b
  BY <1>1, PlainReads
<1> QED
  BY <1>4, <1>5 DEF Decoded, u

(* A report without newlines and quotes lies in its payload as it is.      *)
LEMMA PayloadInner ==
  ASSUME NEW r \in Seq(Words \cup Marks), Framed(Payload(r)),
         \A i \in 1..Len(r) : r[i] \notin {"nl", "quote"}
  PROVE  Inner(Payload(r), r)
<1> DEFINE s == Payload(r)
           n == Len(r)
<1>1. PICK at : Laid(r, s, at)
  BY PayloadLaid
<1>2. Framed(s)
  OBVIOUS
<1> HIDE DEF s
<1>3. r \in Seq(Lexemes) /\ n \in Nat
  <2>1. Words \cup Marks \subseteq Lexemes
    BY DEF Lexemes
  <2> QED
    BY <2>1
<1>4. /\ at \in [1..(n + 1) -> Nat] /\ at[1] = 6 /\ at[n + 1] = FieldEnd(s)
      /\ \A j \in 1..n : Lies(r, s, at, j)
  BY <1>1 DEF Laid
<1>5. \A j \in 1..n : at[j + 1] = at[j] + 1 /\ s[at[j] + 1] = r[j]
  BY <1>4 DEF Lies
<1> DEFINE Bad == {i \in 0..n : at[i + 1] # 6 + i}
<1>6. Bad = {}
  <2>1. \A i \in 1..n : i \in Bad => i - 1 \in Bad
    <3> SUFFICES ASSUME NEW i \in 1..n, i - 1 \notin Bad PROVE at[i + 1] = 6 + i
      OBVIOUS
    <3>1. i - 1 \in 0..n /\ (i - 1) + 1 = i /\ i \in Nat
      BY <1>3
    <3>2. at[i] = 6 + (i - 1)
      BY <3>1
    <3> QED
      BY <1>5, <3>1, <3>2
  <2>2. Bad \subseteq 0..n /\ 0 \notin Bad
    BY <1>4
  <2> HIDE DEF Bad
  <2> QED
    BY <1>3, <2>1, <2>2, LoopKeeps
<1>7. \A i \in 0..n : at[i + 1] = 6 + i
  BY <1>6
<1>8. Len(r) = FieldEnd(s) - 6
  BY <1>3, <1>4, <1>7
<1>9. ASSUME NEW i \in 1..n
      PROVE  r[i] = s[6 + i] /\ r[i] \notin {"quote", "nl", "bs", "n", "lbrace", "rbrace"}
  <2>1. i - 1 \in 0..n /\ (i - 1) + 1 = i /\ i \in Nat
    BY <1>3
  <2>2. at[i] = 6 + (i - 1)
    BY <1>7, <2>1
  <2>3. at[i] + 1 = 6 + i
    BY <2>1, <2>2
  <2>4. r[i] \in Words \cup Marks /\ r[i] \notin {"nl", "quote"}
    OBVIOUS
  <2>5. r[i] \notin {"quote", "nl", "bs", "n", "lbrace", "rbrace"}
    BY <2>4 DEF Words, Marks
  <2> QED
    BY <1>5, <2>3, <2>5
<1>10. Inner(s, r)
  BY <1>2, <1>3, <1>8, <1>9 DEF Inner
<1> QED
  BY <1>10 DEF s

-----------------------------------------------------------------------------
(***************************************************************************)
(* The theorem.                                                            *)
(***************************************************************************)

(* The structure of every clear text, of any length, survives the scrub,   *)
(* but for the three kinds StructureSurvives names, an address behind an   *)
(* escape of letters and digits, \t as well as \n, among them: the stored  *)
(* payload parses, and where nothing is escaped the field is the text,     *)
(* scrubbed (scrub.go:17-28).                                              *)
THEOREM TheStructureIsKept == Spec => []StructureSurvives
<1>1. ScrubbedOnce => StructureSurvives
  <2> SUFFICES ASSUME ScrubbedOnce, Stored,
                      ~ (AddressAtLineStart(report) \/ NameAtTheEnd(report) \/ SecretAtQuote(report))
               PROVE  /\ Parses(stored)
                      /\ {"nl", "quote"} \cap {report[i] : i \in DOMAIN report} = {} =>
                             Decoded(stored) = ScrubString(report)
    BY DEF StructureSurvives
  <2>1. report \in Seq(Words \cup Marks) /\ Lexed(report)
    BY ReportsAssumption, LexedAssumption DEF ScrubbedOnce
  <2>2. stored = ScrubString(Payload(report))
    BY DEF ScrubbedOnce
  <2>3. Parses(stored)
    BY <2>1, <2>2, StoredParses
  <2>4. ASSUME {"nl", "quote"} \cap {report[i] : i \in DOMAIN report} = {}
        PROVE  Decoded(stored) = ScrubString(report)
    <3>1. Kempt(Payload(report)) /\ SecretsEnd(Payload(report))
      BY <2>1, PayloadFramed
    <3>2. \A i \in 1..Len(report) : report[i] \notin {"nl", "quote"}
      <4>1. DOMAIN report = 1..Len(report)
        BY <2>1
      <4> QED
        BY <2>4, <4>1
    <3>3. Framed(Payload(report))
      BY <3>1 DEF Kempt
    <3>4. Inner(Payload(report), report)
      BY <2>1, <3>2, <3>3, PayloadInner
    <3>5. Inner(stored, ScrubString(report))
      BY <2>2, <3>1, <3>4, ScrubInner
    <3> QED
      BY <3>5, InnerDecoded
  <2> QED
    BY <2>3, <2>4
<1> QED
  BY <1>1, StoredIsScrubbed, PTL

-----------------------------------------------------------------------------
(***************************************************************************)
(* A second pass.  A quoted name that is too long for its rule would stay, *)
(* and be in the way of the rule over bare names; in a payload the only    *)
(* one there can be has one lexeme, the comma behind the field.            *)
(***************************************************************************)

(* A quote that follows space or a colon belongs to a key that is no name, *)
(* or ends the field.                                                      *)
Belongs(s, i) ==
    \/ s[i - 1] = "sep" /\ (i > 2 => s[i - 2] = "quote") /\ (i > 3 => s[i - 3] # "user")
    \/ i + 2 <= Len(s) /\ s[i + 1] = "comma" /\ s[i + 2] = "quote"

QuotesBelong(s) ==
    \A i \in 2..Len(s) : s[i] = "quote" /\ s[i - 1] \in Space \cup {"sep"} => Belongs(s, i)

(* A match that takes neither quote nor comma.                             *)
Sparing(m, s, j, v, tail) ==
    Masks(m, s, j, v, tail) /\ \A x \in v..(m.end - 1) : s[x] \notin {"quote", "comma"}

NoneTaken(m, s, j) == m.end # j => \E v, tail : Sparing(m, s, j, v, tail)

(* What a match ends in, seen from behind it.                              *)
LastOf(t, k) == t[k] \in Placeholders \cup {"at", "ip6", "quote"}

(* What stands at k in the outcome is what stood at i in the text.         *)
Comes(match, s, t, stops, at, k, i) ==
    /\ i \in 1..Len(s) /\ t[k] = s[i]
    /\ \E j \in stops :
          /\ j <= Len(s)
          /\ \/ Copies(match, s, t, stops, at, j) /\ i = j /\ k = at[j] + 1
             \/ \E v, tail : /\ Replaces(match, s, t, stops, at, j, v, tail)
                             /\ Sparing(match[j], s, j, v, tail)
                             /\ i \in j..(v - 1) /\ k = at[j] + (i - j) + 1

(* A pass that takes neither.                                              *)
SparingPass(match, s, t, stops, at) ==
    /\ MaskingPass(match, s, t, stops, at)
    /\ \A j \in 1..Len(s) : NoneTaken(match[j], s, j)

(* At every stop it copies, or replaces neither.                           *)
LEMMA StopSpares ==
  ASSUME NEW match, NEW s, NEW t, NEW stops, NEW at, SparingPass(match, s, t, stops, at),
         NEW j \in stops, j <= Len(s)
  PROVE  \/ Copies(match, s, t, stops, at, j)
         \/ \E v, tail : /\ Replaces(match, s, t, stops, at, j, v, tail)
                         /\ Sparing(match[j], s, j, v, tail)
<1>1. MaskingPass(match, s, t, stops, at) /\ \A i \in 1..Len(s) : NoneTaken(match[i], s, i)
  BY DEF SparingPass
<1>2. j \in 1..Len(s)
  BY <1>1, PassSizes
<1>3. CASE match[j].end = j
  BY <1>1, <1>3, StopCopies
<1>4. CASE match[j].end # j
  <2>1. PICK v, tail : Sparing(match[j], s, j, v, tail)
    BY <1>1, <1>2, <1>4 DEF NoneTaken
  <2>2. Masks(match[j], s, j, v, tail)
    BY <2>1 DEF Sparing
  <2>3. Replaces(match, s, t, stops, at, j, v, tail)
    BY <1>1, <2>2, MatchStands
  <2> QED
    BY <2>1, <2>3
<1> QED
  BY <1>3, <1>4

(* The sizes of a match that is replaced, and what is put out last.        *)
LEMMA ReplacedSizes ==
  ASSUME NEW match, NEW s, NEW t, NEW stops, NEW at, SparingPass(match, s, t, stops, at),
         NEW j \in stops, j <= Len(s), NEW v, NEW tail,
         Replaces(match, s, t, stops, at, j, v, tail)
  PROVE  /\ j \in 1..Len(s) /\ at[j] \in Nat /\ v \in j..(match[j].end - 1)
         /\ match[j].end \in (j + 1)..(Len(s) + 1)
         /\ Len(tail) \in 1..2 /\ v - j \in Nat
         /\ at[match[j].end] = at[j] + (v - j) + Len(tail)
         /\ tail[1] \in Placeholders
         /\ Len(tail) = 2 => tail[2] \in {"at", "ip6", "quote"}
         /\ LastOf(t, at[match[j].end])
<1>1. j \in 1..Len(s) /\ at[j] \in Nat
  BY PassSizes DEF SparingPass
<1>2. /\ v \in j..(match[j].end - 1) /\ match[j].end \in (j + 1)..(Len(s) + 1)
      /\ TailOf(s, j, v, match[j].end, tail)
  BY DEF Replaces, Masks
<1>3. /\ Len(tail) \in 1..2 /\ tail[1] \in Placeholders
      /\ Len(tail) = 2 => tail[2] \in {"at", "ip6", "quote"}
  BY <1>2 DEF TailOf
<1>4. at[match[j].end] = at[j] + (v - j) + Len(tail)
  BY DEF Replaces
<1>5. v - j \in Nat
  BY <1>1, <1>2
<1>6. t[at[j] + (v - j) + Len(tail)] = tail[Len(tail)]
  <2>1. Len(tail) \in 1..Len(tail)
    BY <1>3
  <2> QED
    BY <2>1 DEF Replaces
<1>7. LastOf(t, at[match[j].end])
  BY <1>3, <1>4, <1>6 DEF LastOf
<1> QED
  BY <1>1, <1>2, <1>3, <1>4, <1>5, <1>7

(* Whatever stands in the outcome stood in the text, or is put out behind  *)
(* what a match keeps; a quote is not the first that is.                   *)
LEMMA ComesFrom ==
  ASSUME NEW match, NEW s, NEW t, NEW stops, NEW at, SparingPass(match, s, t, stops, at),
         NEW k \in 1..Len(t)
  PROVE  \/ \E i : Comes(match, s, t, stops, at, k, i)
         \/ t[k] # "quote"
         \/ k > 1 /\ t[k - 1] \in Placeholders
<1>1. MaskingPass(match, s, t, stops, at) /\ Len(s) \in Nat
  BY PassSizes DEF SparingPass
<1>2. PICK j \in stops : j <= Len(s) /\ \E x \in 1..Len(Put(match, s, j)) : k = at[j] + x
  BY <1>1 DEF MaskingPass, Pass
<1>3. PICK x \in 1..Len(Put(match, s, j)) : k = at[j] + x
  BY <1>2
<1>4. j \in 1..Len(s) /\ at[j] \in Nat
  BY <1>1, <1>2, PassSizes
<1>5. CASE Copies(match, s, t, stops, at, j)
  <2>1. Put(match, s, j) = <<s[j]>>
    BY <1>5 DEF Copies, Put
  <2>2. x = 1
    BY <1>3, <2>1
  <2>3. t[k] = s[j] /\ k = at[j] + 1
    BY <1>3, <1>5, <2>2 DEF Copies
  <2>4. Comes(match, s, t, stops, at, k, j)
    BY <1>2, <1>4, <1>5, <2>3 DEF Comes
  <2> QED
    BY <2>4
<1>6. ASSUME NEW v, NEW tail, Replaces(match, s, t, stops, at, j, v, tail),
             Sparing(match[j], s, j, v, tail)
      PROVE  \/ \E i : Comes(match, s, t, stops, at, k, i)
             \/ t[k] # "quote"
             \/ k > 1 /\ t[k - 1] \in Placeholders
  <2>1. /\ v \in j..(match[j].end - 1) /\ match[j].end \in (j + 1)..(Len(s) + 1)
        /\ Len(tail) \in 1..2 /\ v - j \in Nat /\ tail[1] \in Placeholders
        /\ at[match[j].end] = at[j] + (v - j) + Len(tail)
    BY <1>2, <1>6, ReplacedSizes
  <2>2. at[match[j].end] = at[j] + Len(Put(match, s, j)) /\ Len(Put(match, s, j)) \in Nat
    <3>1. After(match, j) = match[j].end
      BY <1>6 DEF Replaces
    <3> QED
      BY <1>1, <1>2, <3>1, StopsInOrder
  <2>3. x <= (v - j) + Len(tail) /\ x \in Nat /\ x >= 1
    <3> DEFINE p == Len(Put(match, s, j))
               l == Len(tail)
               d == v - j
    <3>1. p \in Nat /\ l \in Nat /\ d \in Nat /\ at[j] + d + l = at[j] + p /\ x \in 1..p
      BY <1>3, <2>1, <2>2
    <3> HIDE DEF p, l, d
    <3>2. x <= d + l /\ x \in Nat /\ x >= 1
      BY <1>4, <3>1
    <3> QED
      BY <3>2 DEF l, d
  <2>4. CASE x <= v - j
    <3> DEFINE i == j + x - 1
    <3>1. x \in 1..(v - j) /\ i \in j..(v - 1) /\ k = at[j] + (i - j) + 1 /\ i \in 1..Len(s)
      <4> DEFINE a == at[j]
                 e == match[j].end
      <4>1. /\ a \in Nat /\ k = a + x /\ x \in Nat /\ x >= 1 /\ x <= v - j
            /\ j \in 1..Len(s) /\ v \in j..(e - 1) /\ e \in (j + 1)..(Len(s) + 1)
        BY <1>3, <1>4, <2>1, <2>3, <2>4
      <4> HIDE DEF a, e
      <4>2. x \in 1..(v - j) /\ i \in j..(v - 1) /\ k = a + (i - j) + 1 /\ i \in 1..Len(s)
        BY <1>1, <4>1
      <4> QED
        BY <4>2 DEF a
    <3>2. t[k] = s[i]
      BY <1>3, <1>6, <3>1 DEF Replaces
    <3> HIDE DEF i
    <3>3. Comes(match, s, t, stops, at, k, i)
      BY <1>2, <1>6, <3>1, <3>2 DEF Comes
    <3> QED
      BY <3>3
  <2>5. CASE x > v - j
    <3> DEFINE y == x - (v - j)
               d == v - j
               l == Len(tail)
    <3>1. d \in Nat /\ l \in 1..2 /\ k = at[j] + x /\ x <= d + l /\ x > d
      BY <1>3, <2>1, <2>3, <2>5
    <3>2. y \in 1..Len(tail) /\ k = at[j] + (v - j) + y /\ y \in 1..2 /\ 1 \in 1..Len(tail)
      <4> HIDE DEF d, l
      <4>1. x - d \in 1..l /\ k = at[j] + d + (x - d) /\ x - d \in 1..2 /\ 1 \in 1..l
        BY <1>4, <2>3, <3>1
      <4> QED
        BY <4>1 DEF d, l
    <3> HIDE DEF y, d, l
    <3>3. t[k] = tail[y] /\ t[at[j] + (v - j) + 1] = tail[1]
      BY <1>6, <3>2 DEF Replaces
    <3>4. CASE y = 1
      <4>1. "quote" \notin Placeholders
        BY DEF Placeholders
      <4> QED
        BY <2>1, <3>3, <3>4, <4>1
    <3>5. CASE y = 2
      <4> DEFINE a == at[j]
                 c == v - j
      <4>1. a \in Nat /\ c \in Nat /\ k = a + c + 2
        BY <1>4, <2>1, <3>2, <3>5
      <4> HIDE DEF a, c
      <4>2. k - 1 = a + c + 1 /\ k > 1
        BY <4>1
      <4> QED
        BY <2>1, <3>3, <4>2 DEF a, c
    <3> QED
      BY <3>2, <3>4, <3>5
  <2> QED
    BY <2>1, <2>3, <2>4, <2>5
<1> QED
  BY <1>2, <1>5, <1>6, StopSpares

(* Before what stood there stands what stood before, or the end of a       *)
(* match, which took no quote.                                             *)
LEMMA StopBefore ==
  ASSUME NEW match, NEW s, NEW t, NEW stops, NEW at, SparingPass(match, s, t, stops, at),
         NEW j \in stops, at[j] > 0
  PROVE  \/ Comes(match, s, t, stops, at, at[j], j - 1)
         \/ LastOf(t, at[j]) /\ j > 1 /\ s[j - 1] # "quote"
<1>1. MaskingPass(match, s, t, stops, at) /\ Len(s) \in Nat /\ j \in 1..(Len(s) + 1)
  BY PassSizes DEF SparingPass
<1>2. j > 1
  <2>1. at[1] = 0
    BY <1>1 DEF MaskingPass, Pass
  <2>2. j # 1
    BY <2>1
  <2> QED
    BY <1>1, <2>2
<1>3. PICK i \in stops : i <= Len(s) /\ After(match, i) = j
  BY <1>1, <1>2, PassSizes
<1>4. i \in 1..Len(s) /\ at[i] \in Nat
  BY <1>1, <1>3, PassSizes
<1>5. CASE Copies(match, s, t, stops, at, i)
  <2>1. j = i + 1 /\ at[j] = at[i] + 1 /\ t[at[i] + 1] = s[i]
    BY <1>3, <1>5 DEF Copies
  <2>2. j - 1 = i
    BY <1>4, <2>1
  <2>3. Comes(match, s, t, stops, at, at[j], i)
    BY <1>3, <1>4, <1>5, <2>1 DEF Comes
  <2> QED
    BY <2>2, <2>3
<1>6. ASSUME NEW v, NEW tail, Replaces(match, s, t, stops, at, i, v, tail),
             Sparing(match[i], s, i, v, tail)
      PROVE  LastOf(t, at[j]) /\ s[j - 1] # "quote"
  <2>1. match[i].end = j
    BY <1>3, <1>6 DEF Replaces
  <2>2. v \in i..(match[i].end - 1) /\ LastOf(t, at[match[i].end])
    BY <1>3, <1>6, ReplacedSizes
  <2>3. j - 1 \in v..(match[i].end - 1)
    BY <1>1, <1>4, <2>1, <2>2
  <2> QED
    BY <1>6, <2>1, <2>2, <2>3 DEF Sparing
<1> QED
  BY <1>2, <1>3, <1>5, <1>6, StopSpares

(* So it is anywhere.                                                      *)
LEMMA ComesBefore ==
  ASSUME NEW match, NEW s, NEW t, NEW stops, NEW at, SparingPass(match, s, t, stops, at),
         NEW k \in 2..Len(t), NEW i, Comes(match, s, t, stops, at, k, i)
  PROVE  \/ Comes(match, s, t, stops, at, k - 1, i - 1)
         \/ LastOf(t, k - 1) /\ i > 1 /\ s[i - 1] # "quote"
<1>1. MaskingPass(match, s, t, stops, at) /\ Len(s) \in Nat
  BY PassSizes DEF SparingPass
<1>2. i \in 1..Len(s)
  BY DEF Comes
<1>3. PICK j \in stops :
          /\ j <= Len(s)
          /\ \/ Copies(match, s, t, stops, at, j) /\ i = j /\ k = at[j] + 1
             \/ \E v, tail : /\ Replaces(match, s, t, stops, at, j, v, tail)
                             /\ Sparing(match[j], s, j, v, tail)
                             /\ i \in j..(v - 1) /\ k = at[j] + (i - j) + 1
  BY DEF Comes
<1>4. j \in 1..Len(s) /\ at[j] \in Nat
  BY <1>1, <1>3, PassSizes
<1>5. CASE i = j /\ k = at[j] + 1
  <2>1. at[j] = k - 1 /\ at[j] > 0
    BY <1>4, <1>5
  <2> QED
    BY <1>5, <2>1, StopBefore
<1>6. ASSUME NEW v, NEW tail, Replaces(match, s, t, stops, at, j, v, tail),
             Sparing(match[j], s, j, v, tail), i \in j..(v - 1), k = at[j] + (i - j) + 1, i # j
      PROVE  Comes(match, s, t, stops, at, k - 1, i - 1)
  <2>1. v \in j..(match[j].end - 1)
    BY <1>3, <1>6, ReplacedSizes
  <2> DEFINE w == i - 1
             l == k - 1
  <2>2. /\ w \in j..(v - 1) /\ l = at[j] + (w - j) + 1 /\ w \in 1..Len(s)
        /\ i - j \in 1..(v - j) /\ l = at[j] + (i - j) /\ w = j + (i - j) - 1
    <3> DEFINE n == Len(s)
               a == at[j]
               e == match[j].end
    <3>1. /\ n \in Nat /\ a \in Nat /\ j \in 1..n /\ i \in 1..n /\ v \in j..(e - 1)
          /\ i \in j..(v - 1) /\ k = a + (i - j) + 1 /\ i # j
      BY <1>1, <1>2, <1>4, <1>6, <2>1
    <3> HIDE DEF n, a, e
    <3>2. v \in Int /\ i > j /\ j \in Nat
      BY <3>1
    <3>3. /\ w \in j..(v - 1) /\ l = a + (w - j) + 1 /\ w \in 1..n
          /\ i - j \in 1..(v - j) /\ l = a + (i - j) /\ w = j + (i - j) - 1
      BY <3>1, <3>2
    <3> QED
      BY <3>3 DEF n, a
  <2>3. t[l] = s[w]
    BY <1>6, <2>2 DEF Replaces
  <2> HIDE DEF w, l
  <2>4. Comes(match, s, t, stops, at, l, w)
    BY <1>3, <1>6, <2>2, <2>3 DEF Comes
  <2> QED
    BY <2>4 DEF w, l
<1>7. CASE \E v, tail : /\ Replaces(match, s, t, stops, at, j, v, tail)
                        /\ Sparing(match[j], s, j, v, tail)
                        /\ i \in j..(v - 1) /\ k = at[j] + (i - j) + 1
  <2>1. PICK v, tail : /\ Replaces(match, s, t, stops, at, j, v, tail)
                       /\ Sparing(match[j], s, j, v, tail)
                       /\ i \in j..(v - 1) /\ k = at[j] + (i - j) + 1
    BY <1>7
  <2>2. CASE i = j
    <3>1. k = at[j] + 1
      BY <1>4, <2>1, <2>2
    <3> QED
      BY <1>5, <2>2, <3>1
  <2>3. CASE i # j
    BY <1>6, <2>1, <2>3
  <2> QED
    BY <2>2, <2>3
<1> QED
  BY <1>3, <1>5, <1>7

(* Behind it stands the quote or the comma that stood behind.              *)
LEMMA ComesBehind ==
  ASSUME NEW match, NEW s, NEW t, NEW stops, NEW at, SparingPass(match, s, t, stops, at),
         NEW k \in 1..Len(t), NEW i, Comes(match, s, t, stops, at, k, i),
         i + 1 <= Len(s), s[i + 1] \in {"quote", "comma"}
  PROVE  k + 1 <= Len(t) /\ Comes(match, s, t, stops, at, k + 1, i + 1)
<1>1. /\ MaskingPass(match, s, t, stops, at) /\ Len(s) \in Nat /\ Len(t) \in Nat
  BY PassSizes DEF SparingPass
<1>2. i \in 1..Len(s)
  BY DEF Comes
<1>3. PICK j \in stops :
          /\ j <= Len(s)
          /\ \/ Copies(match, s, t, stops, at, j) /\ i = j /\ k = at[j] + 1
             \/ \E v, tail : /\ Replaces(match, s, t, stops, at, j, v, tail)
                             /\ Sparing(match[j], s, j, v, tail)
                             /\ i \in j..(v - 1) /\ k = at[j] + (i - j) + 1
  BY DEF Comes
<1>4. j \in 1..Len(s) /\ at[j] \in Nat
  BY <1>1, <1>3, PassSizes
<1>5. CASE Copies(match, s, t, stops, at, j) /\ i = j /\ k = at[j] + 1
  <2> DEFINE q == i + 1
  <2>1. q \in stops /\ at[q] = k /\ q <= Len(s) /\ q \in 1..Len(s) /\ s[q] \in {"quote", "comma"}
    BY <1>2, <1>5 DEF Copies
  <2> HIDE DEF q
  <2>2. Copies(match, s, t, stops, at, q)
    <3>1. ASSUME NEW v, NEW tail, Replaces(match, s, t, stops, at, q, v, tail) PROVE FALSE
      <4>1. s[q] \in Starts
        BY <3>1 DEF Replaces, Masks
      <4> QED
        BY <2>1, <4>1 DEF Starts, Words
    <3> QED
      BY <1>1, <2>1, <3>1, StopDoes
  <2>3. at[q] + 1 \in 1..Len(t) /\ t[at[q] + 1] = s[q]
    BY <2>2 DEF Copies
  <2>4. k + 1 <= Len(t) /\ Comes(match, s, t, stops, at, k + 1, q)
    BY <2>1, <2>2, <2>3 DEF Comes
  <2> QED
    BY <2>4 DEF q
<1>6. CASE \E v, tail : /\ Replaces(match, s, t, stops, at, j, v, tail)
                        /\ Sparing(match[j], s, j, v, tail)
                        /\ i \in j..(v - 1) /\ k = at[j] + (i - j) + 1
  <2>1. PICK v, tail : /\ Replaces(match, s, t, stops, at, j, v, tail)
                       /\ Sparing(match[j], s, j, v, tail)
                       /\ i \in j..(v - 1) /\ k = at[j] + (i - j) + 1
    BY <1>6
  <2>2. /\ v \in j..(match[j].end - 1) /\ match[j].end \in (j + 1)..(Len(s) + 1)
        /\ Len(tail) \in 1..2 /\ v - j \in Nat
    BY <1>3, <2>1, ReplacedSizes
  <2>3. i # v - 1
    <3> SUFFICES ASSUME i = v - 1 PROVE FALSE
      OBVIOUS
    <3>1. i + 1 = v /\ v \in v..(match[j].end - 1)
      BY <1>4, <2>2
    <3> QED
      BY <2>1, <3>1 DEF Sparing
  <2> DEFINE w == i + 1
             l == k + 1
             d == w - j + 1
             e == v - j
             b == Len(tail)
  <2>4. /\ w \in j..(v - 1) /\ l = at[j] + (w - j) + 1 /\ w \in 1..Len(s)
        /\ d \in 1..e /\ l = at[j] + d /\ w = j + d - 1
    BY <1>2, <1>4, <2>1, <2>2, <2>3
  <2>5. t[l] = s[w] /\ at[j] + e + b <= Len(t)
    BY <2>1, <2>4 DEF Replaces
  <2>6. l <= Len(t)
    <3>1. e \in Nat /\ b \in 1..2 /\ d \in 1..e /\ l = at[j] + d
      BY <2>2, <2>4
    <3> HIDE DEF l, d, e, b
    <3> QED
      BY <1>1, <1>4, <2>5, <3>1
  <2> HIDE DEF w, l, d, e, b
  <2>7. Comes(match, s, t, stops, at, l, w)
    BY <1>3, <2>1, <2>4, <2>5 DEF Comes
  <2> QED
    BY <2>6, <2>7 DEF w, l
<1> QED
  BY <1>3, <1>5, <1>6

(* So the quotes of a text stay with what they belong to.                  *)
LEMMA QuotesStay ==
  ASSUME NEW match, NEW s, NEW t, NEW stops, NEW at, SparingPass(match, s, t, stops, at),
         QuotesBelong(s)
  PROVE  QuotesBelong(t)
<1>1. Len(s) \in Nat /\ Len(t) \in Nat
  BY PassSizes DEF SparingPass
<1> SUFFICES ASSUME NEW k \in 2..Len(t), t[k] = "quote", t[k - 1] \in Space \cup {"sep"}
             PROVE  Belongs(t, k)
  BY DEF QuotesBelong
<1>2. \A l : LastOf(t, l) => t[l] \notin Space \cup {"sep", "user"}
  BY DEF LastOf, Placeholders, Space
<1>3. PICK i : Comes(match, s, t, stops, at, k, i)
  <2>1. ~(t[k - 1] \in Placeholders)
    BY <1>2 DEF LastOf
  <2>2. k \in 1..Len(t)
    OBVIOUS
  <2> QED
    BY <2>1, <2>2, ComesFrom
<1>4. Comes(match, s, t, stops, at, k - 1, i - 1)
  BY <1>2, <1>3, ComesBefore
<1>5. i \in 2..Len(s) /\ s[i] = "quote" /\ s[i - 1] = t[k - 1]
  BY <1>1, <1>3, <1>4 DEF Comes
<1>6. Belongs(s, i)
  BY <1>5 DEF QuotesBelong
<1>7. CASE s[i - 1] = "sep" /\ (i > 2 => s[i - 2] = "quote") /\ (i > 3 => s[i - 3] # "user")
  <2>1. k > 2 => i > 2 /\ Comes(match, s, t, stops, at, k - 2, i - 2)
    <3> SUFFICES ASSUME k > 2 PROVE i > 2 /\ Comes(match, s, t, stops, at, k - 2, i - 2)
      OBVIOUS
    <3> DEFINE k1 == k - 1
               i1 == i - 1
    <3>1. /\ k1 \in 2..Len(t) /\ k1 - 1 = k - 2 /\ i1 - 1 = i - 2
          /\ i1 > 1 => i > 2
      BY <1>1, <1>5
    <3>2. Comes(match, s, t, stops, at, k1, i1)
      BY <1>4
    <3> HIDE DEF k1, i1
    <3>3. \/ Comes(match, s, t, stops, at, k1 - 1, i1 - 1)
          \/ i1 > 1 /\ s[i1 - 1] # "quote"
      BY <3>1, <3>2, ComesBefore
    <3>4. Comes(match, s, t, stops, at, k - 2, i - 2)
      BY <1>7, <3>1, <3>3
    <3>5. i - 2 \in 1..Len(s)
      BY <3>4 DEF Comes
    <3> QED
      BY <1>5, <3>4, <3>5
  <2>2. k > 2 => t[k - 2] = "quote"
    BY <1>7, <2>1 DEF Comes
  <2>3. k > 3 => t[k - 3] # "user"
    <3> SUFFICES ASSUME k > 3 PROVE t[k - 3] # "user"
      OBVIOUS
    <3> DEFINE k2 == k - 2
               i2 == i - 2
    <3>1. k2 \in 2..Len(t) /\ k2 - 1 = k - 3 /\ i2 - 1 = i - 3
      BY <1>1, <1>5
    <3>2. Comes(match, s, t, stops, at, k2, i2)
      BY <1>1, <2>1
    <3> HIDE DEF k2, i2
    <3>3. \/ Comes(match, s, t, stops, at, k2 - 1, i2 - 1)
          \/ LastOf(t, k2 - 1)
      BY <3>1, <3>2, ComesBefore
    <3>4. CASE Comes(match, s, t, stops, at, k2 - 1, i2 - 1)
      <4>1. i - 3 \in 1..Len(s) /\ t[k - 3] = s[i - 3]
        BY <3>1, <3>4 DEF Comes
      <4>2. i > 3
        BY <1>5, <4>1
      <4> QED
        BY <1>7, <4>1, <4>2
    <3> QED
      BY <1>2, <3>1, <3>3, <3>4
  <2> QED
    BY <1>5, <1>7, <2>2, <2>3 DEF Belongs
<1>8. CASE i + 2 <= Len(s) /\ s[i + 1] = "comma" /\ s[i + 2] = "quote"
  <2> DEFINE k1 == k + 1
             i1 == i + 1
  <2>1. k1 <= Len(t) /\ Comes(match, s, t, stops, at, k1, i1)
    <3>1. k \in 1..Len(t) /\ i + 1 <= Len(s)
      BY <1>1, <1>5, <1>8
    <3> QED
      BY <1>3, <1>8, <3>1, ComesBehind
  <2>2. /\ k1 \in 1..Len(t) /\ i1 + 1 = i + 2 /\ k1 + 1 = k + 2
        /\ t[k1] = "comma"
    BY <1>1, <1>5, <1>8, <2>1 DEF Comes
  <2> HIDE DEF k1, i1
  <2>3. k1 + 1 <= Len(t) /\ Comes(match, s, t, stops, at, k1 + 1, i1 + 1)
    BY <1>8, <2>1, <2>2, ComesBehind
  <2>4. k + 2 <= Len(t) /\ t[k + 2] = "quote"
    BY <1>8, <2>2, <2>3 DEF Comes
  <2> QED
    BY <2>2, <2>4 DEF Belongs, k1
<1> QED
  BY <1>6, <1>7, <1>8 DEF Belongs

(* A name that opens with such a quote has one lexeme.                     *)
LEMMA BelongingNames ==
  ASSUME NEW s \in Seq(Lexemes), QuotesBelong(s)
  PROVE  ShortNames(s)
<1> SUFFICES ASSUME NEW i \in 1..Len(s), QuotedFound(s, i, NameOpens(s, i))
             PROVE  ShortName(s, NameOpens(s, i))
  BY DEF ShortNames
<1> DEFINE a == Optional(s, i + 1, "quote")
           open == NameOpens(s, i)
<1>1. s[i] = "user" /\ At(s, open) = "quote" /\ Len(s) \in Nat
  BY DEF QuotedFound
<1>2. open \in 1..Len(s) /\ s[open] = "quote"
  BY <1>1, AtIs
<1>3. MayPass(s, i + 1, a)
  <2>1. i + 1 \in 0..(Len(s) + 1)
    OBVIOUS
  <2> QED
    BY <2>1, OptionalPasses
<1>4. a \in (i + 1)..(i + 2) /\ a \in 1..(Len(s) + 1) /\ (a = i + 2 => s[i + 1] = "quote")
  BY <1>1, <1>3 DEF MayPass
<1>5. open = AfterSep(s, a)
  BY DEF NameOpens
<1> HIDE DEF a, open
<1>6. PICK q : Separates(s, a, q, open)
  BY <1>2, <1>4, <1>5, AfterSepFinds
<1>7. /\ q \in a..Len(s) /\ s[q] = "sep" /\ open \in (q + 1)..(Len(s) + 1)
      /\ \A x \in a..(q - 1) : s[x] \in Space
      /\ \A x \in (q + 1)..(open - 1) : s[x] \in Space
  BY <1>6 DEF Separates
<1>8. s[open - 1] \in Space \cup {"sep"} /\ (s[open - 1] = "sep" => open - 1 = q)
  <2>1. open - 1 = q \/ open - 1 \in (q + 1)..(open - 1)
    BY <1>4, <1>7
  <2> QED
    BY <1>7, <2>1 DEF Space
<1>9. Belongs(s, open)
  <2>1. open \in 2..Len(s)
    BY <1>2, <1>4, <1>7
  <2> QED
    BY <1>2, <1>8, <2>1 DEF QuotesBelong
<1>10. ASSUME s[open - 1] = "sep", open > 2 => s[open - 2] = "quote", open > 3 => s[open - 3] # "user"
       PROVE  FALSE
  <2>1. q = open - 1 /\ q - 1 = open - 2 /\ open > 2
    BY <1>4, <1>7, <1>8, <1>10
  <2>2. s[q - 1] = "quote"
    BY <1>10, <2>1
  <2>3. q = a
    <3> SUFFICES ASSUME q # a PROVE FALSE
      OBVIOUS
    <3>1. q - 1 \in a..(q - 1)
      BY <1>4, <1>7
    <3> QED
      BY <1>7, <2>2, <3>1 DEF Space
  <2>4. CASE a = i + 1
    BY <1>1, <2>2, <2>3, <2>4
  <2>5. CASE a = i + 2
    <3>1. open = i + 3 /\ i \in Nat /\ i > 0
      BY <1>1, <1>2, <1>7, <2>1, <2>3, <2>5
    <3>2. open - 3 = i /\ open > 3
      BY <3>1
    <3> QED
      BY <1>1, <1>10, <3>2
  <2> QED
    BY <1>4, <2>4, <2>5
<1>11. open + 2 <= Len(s) /\ s[open + 1] = "comma" /\ s[open + 2] = "quote"
  BY <1>9, <1>10 DEF Belongs
<1>12. Skip(s, open + 1, QuotedName) = open + 2
  <2> DEFINE b == open + 1
             e == open + 2
  <2>1. /\ b \in 1..(Len(s) + 1) /\ e \in b..(Len(s) + 1) /\ \A x \in b..(e - 1) : x = open + 1
    BY <1>1, <1>2, <1>11
  <2>2. "comma" \in QuotedName /\ "quote" \notin QuotedName
    BY DEF QuotedName, Lexemes, Marks
  <2>3. (\A x \in b..(e - 1) : s[x] \in QuotedName) /\ (e <= Len(s) => s[e] \notin QuotedName)
    BY <1>11, <2>1, <2>2
  <2> HIDE DEF b, e
  <2>4. Skip(s, b, QuotedName) = e
    BY <2>1, <2>3, SkipEndsAt
  <2> QED
    BY <2>4 DEF b, e
<1>13. (open + 2) - open - 1 <= MaxName
  BY <1>2, MaxNameAssumption
<1> QED
  BY <1>12, <1>13 DEF ShortName, open

(* The rules over tokens and addresses take neither quote nor comma:       *)
(* those that take credentials,                                            *)
LEMMA TokenSpares ==
  ASSUME NEW s, NEW i, NEW m, TokenMatch(m, s, i)
  PROVE  NoneTaken(m, s, i)
<1> SUFFICES ASSUME m.end # i PROVE \E v, tail : Sparing(m, s, i, v, tail)
  BY DEF NoneTaken
<1>1. {"quote", "comma"} \cap (Credential \cup Torn \cup Space) = {}
  BY DEF Credential, Torn, Space, Words
<1>2. PICK v, tail :
          /\ Masks(m, s, i, v, tail)
          /\ \A x \in v..(m.end - 1) :
                 \/ s[x] \in Credential \cup Torn
                 \/ s[x] \in Space /\ s[v] = "bearer" /\ \A y \in (v + 1)..x : s[y] \in Space
  BY DEF TokenMatch, CredentialTaken
<1>3. \A x \in v..(m.end - 1) : s[x] \notin {"quote", "comma"}
  BY <1>1, <1>2
<1> QED
  BY <1>2, <1>3 DEF Sparing

(* that over secrets,                                                      *)
LEMMA SecretSpares ==
  ASSUME NEW s \in Seq(Lexemes), NEW i \in 1..Len(s)
  PROVE  NoneTaken(Secret(s, i), s, i)
<1> DEFINE m == Secret(s, i)
           v == PassValue(s, i)
<1> SUFFICES ASSUME m.end # i PROVE Sparing(m, s, i, v, <<"TOKEN">>)
  BY DEF NoneTaken
<1>1. SecretDoes(m, s, i, v) /\ Masks(m, s, i, v, <<"TOKEN">>)
  BY SecretDoesIt, SecretMasks
<1> HIDE DEF m, v
<1>2. v \in (i + 2)..Len(s) /\ m.end = Skip(s, v, SecretValue)
  BY <1>1 DEF SecretDoes
<1>3. \A x \in v..(m.end - 1) : s[x] \in SecretValue
  <2>1. v \in 1..(Len(s) + 1)
    BY <1>2
  <2> QED
    BY <1>2, <2>1, SkipPasses
<1>4. \A x \in v..(m.end - 1) : s[x] \notin {"quote", "comma"}
  BY <1>3 DEF SecretValue
<1> QED
  BY <1>1, <1>4 DEF Sparing

(* and that over email addresses.                                          *)
LEMMA EmailSpares ==
  ASSUME NEW s \in Seq(Lexemes), NEW i \in 1..Len(s)
  PROVE  NoneTaken(Email(s, i), s, i)
<1> DEFINE at == Skip(s, i, LocalPart)
<1>1. CASE At(s, at) # "email"
  BY <1>1 DEF Email, NoMatch, NoneTaken
<1>2. CASE At(s, at) = "email"
  <2>1. Email(s, i) = Match(at + 1, <<"EMAIL">>)
    BY <1>2 DEF Email
  <2>2. i \in 1..(Len(s) + 1) /\ Len(s) \in Nat
    OBVIOUS
  <2>3. at \in i..(Len(s) + 1) /\ \A x \in i..(at - 1) : s[x] \in LocalPart
    BY <2>2, SkipPasses
  <2>4. at \in 1..Len(s) /\ s[at] = "email"
    BY <1>2, AtIs
  <2> HIDE DEF at
  <2>5. s[i] \in Starts /\ {"quote", "comma"} \cap (LocalPart \cup {"email"}) = {}
    <3>1. i = at \/ i \in i..(at - 1)
      BY <2>3
    <3> QED
      BY <2>3, <2>4, <3>1 DEF LocalPart, Credential, Starts, Words
  <2> DEFINE e == at + 1
             m == Match(e, <<"EMAIL">>)
  <2>6. /\ e \in (i + 1)..(Len(s) + 1) /\ s[e - 1] # "n"
        /\ \A x \in i..(e - 1) : x = at \/ x \in i..(at - 1)
    BY <2>3, <2>4
  <2>7. m.end = e /\ "EMAIL" \in Placeholders
    BY DEF Match, Placeholders
  <2> HIDE DEF e
  <2>8. Masks(m, s, i, i, <<"EMAIL">>)
    BY <2>5, <2>6, <2>7, MasksWhole
  <2> HIDE DEF m
  <2>9. \A x \in i..(m.end - 1) : s[x] \notin {"quote", "comma"}
    BY <2>3, <2>4, <2>5, <2>6, <2>7
  <2>10. NoneTaken(m, s, i)
    BY <2>8, <2>9 DEF NoneTaken, Sparing
  <2> QED
    BY <2>1, <2>10 DEF m, e
<1> QED
  BY <1>1, <1>2

(* So such a pass leaves the quotes with what they belong to,              *)
LEMMA QuotesStayBehind ==
  ASSUME NEW s \in Seq(Lexemes), Lexed(s), QuotesBelong(s), NEW match,
         \A i \in 1..Len(s) : /\ Fits(match[i], Lexemes) /\ MasksOnly(match[i], s, i)
                              /\ NoneTaken(match[i], s, i)
  PROVE  QuotesBelong(Rewriting(match, s)[Len(s)].out)
<1> DEFINE t == Rewriting(match, s)[Len(s)].out
<1>1. PICK stops, at : MaskingPass(match, s, t, stops, at)
  BY RewritingMasks
<1> HIDE DEF t
<1>2. SparingPass(match, s, t, stops, at)
  BY <1>1 DEF SparingPass
<1>3. QuotesBelong(t)
  BY <1>2, QuotesStay
<1> QED
  BY <1>3 DEF t

(* each of the eight.                                                      *)
LEMMA PassesKeepQuotes ==
  ASSUME NEW s \in Seq(Lexemes), Lexed(s), QuotesBelong(s)
  PROVE  /\ QuotesBelong(Rewrite(AuthHeader, s))
         /\ QuotesBelong(Rewrite(BearerToken, s))
         /\ QuotesBelong(Rewrite(Jwt, s))
         /\ QuotesBelong(Rewrite(ProviderKey, s))
         /\ QuotesBelong(Rewrite(Secret, s))
         /\ QuotesBelong(Rewrite(Email, s))
         /\ QuotesBelong(Rewrite(IPv6, s))
         /\ QuotesBelong(Rewrite(IPv4, s))
<1>1. {"AUTH", "TOKEN", "EMAIL", "IP", "at", "ip6"} \subseteq Lexemes
  BY DEF Lexemes, Placeholders, Marks, Words
<1>2. QuotesBelong(Rewrite(AuthHeader, s))
  <2> DEFINE match == [i \in DOMAIN s |-> AuthHeader(s, i)]
  <2>1. \A i \in 1..Len(s) : match[i] = AuthHeader(s, i)
    OBVIOUS
  <2>2. Rewrite(AuthHeader, s) = Rewriting(match, s)[Len(s)].out
    BY DEF Rewrite
  <2> HIDE DEF match
  <2>3. \A i \in 1..Len(s) : Fits(match[i], Lexemes) /\ MasksOnly(match[i], s, i)
    BY <1>1, <2>1, AuthHeaderFits, AuthHeaderMasks
  <2>4. \A i \in 1..Len(s) : NoneTaken(match[i], s, i)
    BY <2>1, AuthHeaderTakes, TokenSpares
  <2> QED
    BY <2>2, <2>3, <2>4, QuotesStayBehind
<1>3. QuotesBelong(Rewrite(BearerToken, s))
  <2> DEFINE match == [i \in DOMAIN s |-> BearerToken(s, i)]
  <2>1. \A i \in 1..Len(s) : match[i] = BearerToken(s, i)
    OBVIOUS
  <2>2. Rewrite(BearerToken, s) = Rewriting(match, s)[Len(s)].out
    BY DEF Rewrite
  <2> HIDE DEF match
  <2>3. \A i \in 1..Len(s) : Fits(match[i], Lexemes) /\ MasksOnly(match[i], s, i)
    BY <1>1, <2>1, BearerTokenFits, BearerTokenMasks
  <2>4. \A i \in 1..Len(s) : NoneTaken(match[i], s, i)
    BY <2>1, BearerTokenTakes, TokenSpares
  <2> QED
    BY <2>2, <2>3, <2>4, QuotesStayBehind
<1>4. QuotesBelong(Rewrite(Jwt, s))
  <2> DEFINE match == [i \in DOMAIN s |-> Jwt(s, i)]
  <2>1. \A i \in 1..Len(s) : match[i] = Jwt(s, i)
    OBVIOUS
  <2>2. Rewrite(Jwt, s) = Rewriting(match, s)[Len(s)].out
    BY DEF Rewrite
  <2> HIDE DEF match
  <2>3. \A i \in 1..Len(s) : Fits(match[i], Lexemes) /\ MasksOnly(match[i], s, i)
    BY <1>1, <2>1, JwtFits, JwtMasksOnly
  <2>4. \A i \in 1..Len(s) : NoneTaken(match[i], s, i)
    BY <2>1, OnesTake, TokenSpares
  <2> QED
    BY <2>2, <2>3, <2>4, QuotesStayBehind
<1>5. QuotesBelong(Rewrite(ProviderKey, s))
  <2> DEFINE match == [i \in DOMAIN s |-> ProviderKey(s, i)]
  <2>1. \A i \in 1..Len(s) : match[i] = ProviderKey(s, i)
    OBVIOUS
  <2>2. Rewrite(ProviderKey, s) = Rewriting(match, s)[Len(s)].out
    BY DEF Rewrite
  <2> HIDE DEF match
  <2>3. \A i \in 1..Len(s) : Fits(match[i], Lexemes) /\ MasksOnly(match[i], s, i)
    BY <1>1, <2>1, ProviderKeyFits, ProviderKeyMasks
  <2>4. \A i \in 1..Len(s) : NoneTaken(match[i], s, i)
    BY <2>1, OnesTake, TokenSpares
  <2> QED
    BY <2>2, <2>3, <2>4, QuotesStayBehind
<1>6. QuotesBelong(Rewrite(Secret, s))
  <2> DEFINE match == [i \in DOMAIN s |-> Secret(s, i)]
  <2>1. \A i \in 1..Len(s) : match[i] = Secret(s, i)
    OBVIOUS
  <2>2. Rewrite(Secret, s) = Rewriting(match, s)[Len(s)].out
    BY DEF Rewrite
  <2> HIDE DEF match
  <2>3. \A i \in 1..Len(s) : Fits(match[i], Lexemes) /\ MasksOnly(match[i], s, i)
    BY <1>1, <2>1, SecretFits, SecretMasks
  <2>4. \A i \in 1..Len(s) : NoneTaken(match[i], s, i)
    BY <2>1, SecretSpares
  <2> QED
    BY <2>2, <2>3, <2>4, QuotesStayBehind
<1>7. QuotesBelong(Rewrite(Email, s))
  <2> DEFINE match == [i \in DOMAIN s |-> Email(s, i)]
  <2>1. \A i \in 1..Len(s) : match[i] = Email(s, i)
    OBVIOUS
  <2>2. Rewrite(Email, s) = Rewriting(match, s)[Len(s)].out
    BY DEF Rewrite
  <2> HIDE DEF match
  <2>3. \A i \in 1..Len(s) : Fits(match[i], Lexemes) /\ MasksOnly(match[i], s, i)
    BY <1>1, <2>1, EmailFits, EmailMasksOnly
  <2>4. \A i \in 1..Len(s) : NoneTaken(match[i], s, i)
    BY <2>1, EmailSpares
  <2> QED
    BY <2>2, <2>3, <2>4, QuotesStayBehind
<1>8. QuotesBelong(Rewrite(IPv6, s))
  <2> DEFINE match == [i \in DOMAIN s |-> IPv6(s, i)]
  <2>1. \A i \in 1..Len(s) : match[i] = IPv6(s, i)
    OBVIOUS
  <2>2. Rewrite(IPv6, s) = Rewriting(match, s)[Len(s)].out
    BY DEF Rewrite
  <2> HIDE DEF match
  <2>3. \A i \in 1..Len(s) : Fits(match[i], Lexemes) /\ MasksOnly(match[i], s, i)
    BY <1>1, <2>1, IPv6Fits, IPv6MasksOnly
  <2>4. \A i \in 1..Len(s) : NoneTaken(match[i], s, i)
    BY <2>1, OnesTake, TokenSpares
  <2> QED
    BY <2>2, <2>3, <2>4, QuotesStayBehind
<1>9. QuotesBelong(Rewrite(IPv4, s))
  <2> DEFINE match == [i \in DOMAIN s |-> IPv4(s, i)]
  <2>1. \A i \in 1..Len(s) : match[i] = IPv4(s, i)
    OBVIOUS
  <2>2. Rewrite(IPv4, s) = Rewriting(match, s)[Len(s)].out
    BY DEF Rewrite
  <2> HIDE DEF match
  <2>3. \A i \in 1..Len(s) : Fits(match[i], Lexemes) /\ MasksOnly(match[i], s, i)
    BY <1>1, <2>1, IPv4Fits, IPv4Masks
  <2>4. \A i \in 1..Len(s) : NoneTaken(match[i], s, i)
    BY <2>1, OnesTake, TokenSpares
  <2> QED
    BY <2>2, <2>3, <2>4, QuotesStayBehind
<1> QED
  BY <1>2, <1>3, <1>4, <1>5, <1>6, <1>7, <1>8, <1>9

(* In a payload every quote does: those of its text are escaped.           *)
LEMMA PayloadBelongs ==
  ASSUME NEW r \in Seq(Words \cup Marks), Lexed(r)
  PROVE  QuotesBelong(Payload(r))
<1> DEFINE s == Payload(r)
<1>1. PICK at : Laid(r, s, at)
  BY PayloadLaid
<1>2. Lexed(s)
  BY PayloadLexed
<1> HIDE DEF s
<1>3. Framed(s)
  BY <1>1, <1>2, LaidFramed
<1>4. /\ \A i \in 1..6 : s[i] = Open[i]
      /\ \A i \in 1..10 : s[FieldEnd(s) + i] = Close[i]
      /\ \A i \in 7..FieldEnd(s) : FieldAt(s, i)
      /\ FieldEnd(s) \in Nat /\ FieldEnd(s) >= 6 /\ FieldEnd(s) + 10 = Len(s)
  BY <1>3, FrameIs DEF Framed
<1>5. s[1] = "lbrace" /\ s[2] = "quote" /\ s[3] = "word" /\ s[4] = "quote" /\ s[5] = "sep" /\ s[6] = "quote"
  BY <1>4 DEF Open
<1> DEFINE e == FieldEnd(s)
<1>6. /\ s[e + 1] = "quote" /\ s[e + 2] = "comma" /\ s[e + 3] = "quote" /\ s[e + 4] = "word"
      /\ s[e + 5] = "quote" /\ s[e + 6] = "sep" /\ s[e + 7] = "quote" /\ s[e + 8] = "word"
      /\ s[e + 9] = "quote" /\ s[e + 10] = "rbrace"
  BY <1>4 DEF Close
<1>7. e \in Nat /\ e >= 6 /\ e + 10 = Len(s)
  BY <1>4
<1>8. \A i \in 7..e : s[i] = "quote" => s[i - 1] = "bs"
  BY <1>4 DEF FieldAt
<1> HIDE DEF e
<1> SUFFICES ASSUME NEW i \in 2..Len(s), s[i] = "quote", s[i - 1] \in Space \cup {"sep"} PROVE Belongs(s, i)
  BY DEF QuotesBelong, s
<1>9. i \in {2, 3, 4, 5, 6} \/ i \in 7..e \/ i \in {e + 1, e + 2, e + 3, e + 4, e + 5, e + 6, e + 7, e + 8, e + 9, e + 10}
  BY <1>7
<1>10. CASE i \in {2, 3, 4, 5, 6}
  <2>1. i = 6 \/ (i = 2 /\ i - 1 = 1) \/ (i = 4 /\ i - 1 = 3)
    BY <1>5, <1>10
  <2>2. i = 6
    BY <1>5, <2>1 DEF Space
  <2>3. i - 1 = 5 /\ i - 2 = 4 /\ i - 3 = 3
    BY <2>2
  <2> QED
    BY <1>5, <2>3 DEF Belongs
<1>11. CASE i \in 7..e
  BY <1>8, <1>11 DEF Space
<1>12. CASE i \in {e + 1, e + 2, e + 3, e + 4, e + 5, e + 6, e + 7, e + 8, e + 9, e + 10}
  <2>1. \/ i = e + 1
        \/ i = e + 3 /\ i - 1 = e + 2
        \/ i = e + 5 /\ i - 1 = e + 4
        \/ i = e + 7
        \/ i = e + 9 /\ i - 1 = e + 8
    BY <1>6, <1>7, <1>12
  <2>2. i = e + 1 \/ i = e + 7
    BY <1>6, <2>1 DEF Space
  <2>3. CASE i = e + 1
    <3>1. i + 1 = e + 2 /\ i + 2 = e + 3 /\ i + 2 <= Len(s)
      BY <1>7, <2>3
    <3> QED
      BY <1>6, <3>1 DEF Belongs
  <2>4. CASE i = e + 7
    <3>1. i - 1 = e + 6 /\ i - 2 = e + 5 /\ i - 3 = e + 4
      BY <1>7, <2>4
    <3> QED
      BY <1>6, <3>1 DEF Belongs
  <2> QED
    BY <2>2, <2>3, <2>4
<1> QED
  BY <1>9, <1>10, <1>11, <1>12

(* A text whose quotes belong to something is scrubbed after one pass,     *)
LEMMA ScrubCleans ==
  ASSUME NEW s \in Seq(Lexemes), Lexed(s), QuotesBelong(s)
  PROVE  Scrubbed(ScrubString(s))
<1> DEFINE t0 == Rewrite(AuthHeader, s)
           t1 == Rewrite(BearerToken, t0)
           t2 == Rewrite(Jwt, t1)
           t3 == Rewrite(ProviderKey, t2)
           t4 == Rewrite(Secret, t3)
           t5 == Rewrite(Email, t4)
           t6 == Rewrite(IPv6, t5)
           t7 == Rewrite(IPv4, t6)
           t8 == Rewrite(NameQuoted, t7)
           t9 == Rewrite(NameBare, t8)
<1>1. t9 = ScrubString(s)
  BY DEF ScrubString, RedactNames, RedactIPs, RedactEmails, RedactTokens
<1>2. t0 \in Seq(Lexemes) /\ Lexed(t0) /\ HeadersGone(t0) /\ QuotesBelong(t0)
  BY AfterAuthHeader, PassesKeepQuotes
<1> HIDE DEF t0
<1>3. /\ t1 \in Seq(Lexemes) /\ Lexed(t1) /\ QuotesBelong(t1)
      /\ HeadersGone(t1) /\ BearersGone(t1)
  BY <1>2, AfterBearerToken, PassesKeepQuotes
<1> HIDE DEF t1
<1>4. /\ t2 \in Seq(Lexemes) /\ Lexed(t2) /\ QuotesBelong(t2)
      /\ HeadersGone(t2) /\ BearersGone(t2)
  BY <1>3, AfterJwt, PassesKeepQuotes
<1> HIDE DEF t2
<1>5. /\ t3 \in Seq(Lexemes) /\ Lexed(t3) /\ QuotesBelong(t3)
      /\ HeadersGone(t3) /\ BearersGone(t3) /\ KeysGone(t3)
  BY <1>4, AfterProviderKey, PassesKeepQuotes
<1> HIDE DEF t3
<1>6. t4 \in Seq(Lexemes) /\ Lexed(t4) /\ TokensGone(t4) /\ QuotesBelong(t4)
  BY <1>5, AfterSecret, PassesKeepQuotes
<1> HIDE DEF t4
<1>7. t5 \in Seq(Lexemes) /\ Lexed(t5) /\ TokensGone(t5) /\ QuotesBelong(t5)
  BY <1>6, AfterEmail, PassesKeepQuotes
<1> HIDE DEF t5
<1>8. t6 \in Seq(Lexemes) /\ Lexed(t6) /\ TokensGone(t6) /\ QuotesBelong(t6)
  BY <1>7, AfterIPv6, PassesKeepQuotes
<1> HIDE DEF t6
<1>9. /\ t7 \in Seq(Lexemes) /\ Lexed(t7) /\ QuotesBelong(t7)
      /\ TokensGone(t7) /\ AddressesGone(t7)
  BY <1>8, AfterIPv4, PassesKeepQuotes
<1> HIDE DEF t7
<1>10. /\ t8 \in Seq(Lexemes) /\ Lexed(t8)
       /\ TokensGone(t8) /\ AddressesGone(t8) /\ QuotedGone(t8)
  BY <1>9, AfterNameQuoted, BelongingNames
<1> HIDE DEF t8
<1>11. /\ Lexed(t9)
       /\ TokensGone(t9) /\ AddressesGone(t9) /\ QuotedGone(t9) /\ BareGone(t9)
  BY <1>10, AfterNameBare
<1> HIDE DEF t9
<1>12. t9 \in Seq(Masked)
  BY <1>1, ScrubIs
<1> QED
  BY <1>1, <1>11, <1>12 DEF Scrubbed

(* The pass is idempotent (scrub.go:32-33) on every lexed text, of any     *)
(* length, in which a quote behind space or a colon either follows the     *)
(* quoted key of a field, not a name-like one, or ends a string.  Without  *)
(* that it is not: a quoted name longer than MaxName, which its rule       *)
(* leaves alone, is masked further by a second pass (scrub.go:245).        *)
THEOREM ScrubIsIdempotent ==
  ASSUME NEW s \in Seq(Lexemes), Lexed(s), QuotesBelong(s)
  PROVE  ScrubString(ScrubString(s)) = ScrubString(s)
BY ScrubCleans, ScrubbedStays

(* Of any report, whatever its text and whatever the bound on a quoted     *)
(* name, a second pass over its stored payload changes nothing: no rule    *)
(* finds a match in what the others left (scrub.go:32-33).                 *)
THEOREM SecondPassChangesNothing == Spec => []ScrubTwiceIsOnce
<1>1. ScrubbedOnce => ScrubTwiceIsOnce
  <2> SUFFICES ASSUME ScrubbedOnce, Stored PROVE ScrubString(stored) = stored
    BY DEF ScrubTwiceIsOnce
  <2>1. report \in Seq(Words \cup Marks) /\ Lexed(report)
    BY ReportsAssumption, LexedAssumption DEF ScrubbedOnce
  <2>2. Words \cup Marks \subseteq Lexemes
    BY DEF Lexemes
  <2>3. Payload(report) \in Seq(Lexemes)
    <3>1. {"lbrace", "rbrace", "quote", "word", "sep", "comma", "bs", "n"} \subseteq Lexemes
      BY DEF Lexemes, Words, Marks
    <3>2. report \in Seq(Lexemes)
      BY <2>1, <2>2
    <3> QED
      BY <3>1, <3>2, PayloadIs
  <2>4. Lexed(Payload(report)) /\ QuotesBelong(Payload(report))
    BY <2>1, PayloadLexed, PayloadBelongs
  <2>5. stored = ScrubString(Payload(report))
    BY DEF ScrubbedOnce
  <2> QED
    BY <2>3, <2>4, <2>5, ScrubIsIdempotent
<1> QED
  BY <1>1, StoredIsScrubbed, PTL
=============================================================================
