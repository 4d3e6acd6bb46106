------------------------- MODULE ComputationsProofs -------------------------
(***************************************************************************)
(* Theorems about the sequential computations, for every input: files,     *)
(* policies, contracts, sessions, ends, probes and agents of any size and  *)
(* number.                                                                 *)
(***************************************************************************)
EXTENDS Computations, FiniteSetTheorems, NaturalsInduction, WellFoundedInduction, TLAPS

LEMMA LeastPlace ==
    ASSUME NEW S \in SUBSET Nat, S # {}
    PROVE  \E m \in S : \A n \in S : m <= n
<1>1. IsWellFoundedOn(OpToRel(<, Nat), Nat)
  BY NatLessThanWellFounded
<1>2. PICK m \in S : \A n \in S : ~ (<<n, m>> \in OpToRel(<, Nat))
  BY <1>1, WFMin
<1>3. \A n \in S : ~(n < m)
  BY <1>2 DEF OpToRel
<1> QED BY <1>3

LEMMA MaxOfTwo ==
    ASSUME NEW a \in Int, NEW b \in Int
    PROVE  Max({a, b}) = IF a >= b THEN a ELSE b
<1>1. CASE a >= b
  <2>1. \A x \in {a, b} : (\A y \in {a, b} : x >= y) => x = a
    BY <1>1
  <2>2. \A y \in {a, b} : a >= y
    BY <1>1
  <2> QED BY <1>1, <2>1, <2>2 DEF Max
<1>2. CASE ~(a >= b)
  <2>1. \A x \in {a, b} : (\A y \in {a, b} : x >= y) => x = b
    BY <1>2
  <2>2. \A y \in {a, b} : b >= y
    BY <1>2
  <2> QED BY <1>2, <2>1, <2>2 DEF Max
<1> QED BY <1>1, <1>2

LEMMA Halves ==
    ASSUME NEW n \in Nat
    PROVE  n \div 2 \in Nat /\ 2 * (n \div 2) <= n /\ n <= 2 * (n \div 2) + 1
OBVIOUS

LEMMA Quotient ==
    ASSUME NEW n \in Nat, NEW d \in Nat \ {0}
    PROVE  n \div d \in Nat /\ (n \div d) * d <= n /\ n < (n \div d) * d + d
OBVIOUS

-----------------------------------------------------------------------------
(* Each property is about one kind of question; the other steps ask        *)
(* another one.                                                            *)

\* What is asked, by each step.
LEMMA Questions ==
    /\ ReadResult => call'.of = "result"
    /\ PurgeOlderThan => call'.of = "purge"
    /\ EndTask => call'.of = "end"
    /\ Check => call'.of = "doctor"
    /\ Delegate => call'.of = "delegate"
<1>1. ReadResult => call'.of = "result"
  BY DEF ReadResult, Ask
<1>2. PurgeOlderThan => call'.of = "purge"
  BY DEF PurgeOlderThan, Ask
<1>3. EndTask => call'.of = "end"
  BY DEF EndTask, Ask
<1>4. Check => call'.of = "doctor"
  BY DEF Check, Ask
<1>5. Delegate => call'.of = "delegate"
  BY DEF Delegate, Ask
<1> QED BY <1>1, <1>2, <1>3, <1>4, <1>5

-----------------------------------------------------------------------------
(* The excerpt of a result.                                                *)

\* A limit that is accepted is shared by the head, the marker and the tail.
LEMMA Room ==
    ASSUME NEW limit \in Int, limit >= MinInline
    PROVE  LET available == Max({0, limit - MarkerLength})
               head == available \div 2
               tail == available - head
           IN  /\ head \in 1 .. limit /\ tail \in 1 .. limit
               /\ head + MarkerLength + tail = limit
               /\ tail - head \in {0, 1}
<1> DEFINE available == Max({0, limit - MarkerLength})
           head == available \div 2
           tail == available - head
<1>1. limit - MarkerLength \in Nat /\ limit - MarkerLength >= 2 /\ MarkerLength \in Nat
  BY LimitsAssumption
<1>2. available = limit - MarkerLength
  BY <1>1, MaxOfTwo
<1> HIDE DEF available
<1>3. head \in Nat /\ 2 * head <= available /\ available <= 2 * head + 1
  BY <1>1, <1>2, Halves
<1> HIDE DEF head
<1>4. head \in 1 .. limit /\ tail \in 1 .. limit /\ head + MarkerLength + tail = limit /\ tail - head \in {0, 1}
  BY <1>1, <1>2, <1>3
<1> QED BY <1>4 DEF head, available

\* Where a character starts and ends, when it is whole.
LEMMA Around ==
    ASSUME NEW n \in Nat, NEW i \in 1 .. n, NEW a \in 1 .. 4, NEW w \in 1 .. 4,
           a <= w, 0 <= i - a, i - a + w <= n
    PROVE  a \in 1 .. w /\ i - a \in 0 .. n /\ i - a + w \in 1 .. n
OBVIOUS

\* Between the characters of a text, before and behind one that is cut.
LEMMA CutBoundaries ==
    ASSUME NEW file, IsText(file), NEW i \in DOMAIN file
    PROVE  /\ file[i].at \in 1 .. file[i].width /\ file[i].width \in 1 .. 4
           /\ i - file[i].at \in 0 .. Len(file) /\ Boundary(file, i - file[i].at)
           /\ i - file[i].at + file[i].width \in 1 .. Len(file)
           /\ Boundary(file, i - file[i].at + file[i].width)
<1> DEFINE start == i - file[i].at
           width == file[i].width
<1>1. /\ \A k \in DOMAIN file : file[k] \in Byte
      /\ DOMAIN file = 1 .. Len(file) /\ Len(file) \in Nat
  BY DEF IsText
<1>2. /\ file[i].at \in 1 .. 4 /\ width \in 1 .. 4 /\ i \in 1 .. Len(file)
      /\ \A k \in DOMAIN file : file[k].at \in 1 .. 4 /\ file[k].width \in 1 .. 4
  BY <1>1 DEF Byte
<1>3. \A k \in DOMAIN file :
        /\ file[k].at <= file[k].width
        /\ 0 <= k - file[k].at /\ k - file[k].at + file[k].width <= Len(file)
        /\ \A j \in 1 .. file[k].width : /\ file[k - file[k].at + j].at = j
                                        /\ file[k - file[k].at + j].width = file[k].width
  BY DEF IsText
<1>4. file[i].at <= width /\ 0 <= start /\ start + width <= Len(file)
  BY <1>3
<1>5. \A j \in 1 .. width : file[start + j].at = j /\ file[start + j].width = width
  BY <1>3
<1>6. Boundary(file, start + width)
  BY <1>2, <1>5 DEF Boundary
<1>7. Boundary(file, start)
  <2> SUFFICES ASSUME start # 0, file[start].at # file[start].width PROVE FALSE
    BY DEF Boundary
  <2> DEFINE before == start - file[start].at
             next == file[start].at + 1
  <2>1. start \in DOMAIN file
    BY <1>1, <1>2, <1>4
  <2>2. file[start].at <= file[start].width /\ file[start].at \in 1 .. 4 /\ file[start].width \in 1 .. 4
    BY <1>2, <1>3, <2>1
  <2>3. next \in 1 .. file[start].width
    BY <2>2
  <2>4. file[before + next].at = next
    BY <1>3, <2>1, <2>3
  <2>5. before + next = start + 1
    BY <1>2, <1>4, <2>2
  <2>6. file[start + 1].at = 1
    BY <1>2, <1>5
  <2> QED BY <2>2, <2>4, <2>5, <2>6
<1>8. /\ file[i].at \in 1 .. width
      /\ start \in 0 .. Len(file) /\ start + width \in 1 .. Len(file)
  BY <1>1, <1>2, <1>4, Around
<1> QED BY <1>2, <1>6, <1>7, <1>8, Zenon

\* The whole characters of the head, and one replacement if one was cut.
LEMMA HeadDecoded ==
    ASSUME NEW file, IsText(file), NEW size \in 1 .. Len(file)
    PROVE  \E left \in 0 .. 3 :
             /\ left <= size /\ Boundary(file, size - left)
             /\ Boundary(file, size) => left = 0
             /\ DecodedHead(file, size)
                  = SubSeq(file, 1, size - left) \o Replacements(IF left = 0 THEN 0 ELSE 1)
<1> DEFINE left == IF file[size].at = file[size].width THEN 0 ELSE file[size].at
<1>1. size \in DOMAIN file /\ size \in Nat /\ size # 0 /\ Len(file) \in Nat
  BY DEF IsText
<1>2. /\ file[size].at \in 1 .. file[size].width /\ file[size].width \in 1 .. 4
      /\ size - file[size].at \in 0 .. Len(file) /\ Boundary(file, size - file[size].at)
  BY <1>1, CutBoundaries
<1>3. left \in 0 .. 3 /\ left <= size
  BY <1>1, <1>2
<1>4. Boundary(file, size) => left = 0
  BY <1>1 DEF Boundary
<1>5. Boundary(file, size - left)
  <2>1. CASE file[size].at = file[size].width
    BY <1>1, <2>1 DEF Boundary
  <2>2. CASE file[size].at # file[size].width
    BY <1>2, <2>2
  <2> QED BY <2>1, <2>2
<1>6. DecodedHead(file, size) = SubSeq(file, 1, size - left) \o Replacements(IF left = 0 THEN 0 ELSE 1)
  BY <1>1 DEF DecodedHead
<1> HIDE DEF left
<1> QED BY <1>3, <1>4, <1>5, <1>6

\* The bytes behind the cut that lack the start of their character.
LEMMA Strays ==
    ASSUME NEW n \in Nat, NEW cut \in Nat, NEW at \in Int, NEW width \in 1 .. 4,
           at \in 1 .. width, cut + 1 - at + width \in 1 .. n
    PROVE  LET strays == IF at = 1 THEN 0 ELSE width - at + 1
           IN  /\ strays \in 0 .. 3 /\ cut + strays <= n
               /\ strays = 0 => cut + 1 - at = cut
               /\ strays # 0 => cut + 1 - at + width = cut + strays
OBVIOUS

\* A replacement for each byte that lacks the start of its character, and the
\* whole characters of the tail.
LEMMA TailDecoded ==
    ASSUME NEW file, IsText(file), NEW size \in 1 .. Len(file), size < Len(file)
    PROVE  \E strays \in 0 .. 3 :
             /\ strays <= size /\ Boundary(file, Len(file) - size + strays)
             /\ Boundary(file, Len(file) - size) => strays = 0
             /\ DecodedTail(file, size)
                  = Replacements(strays) \o SubSeq(file, Len(file) - size + strays + 1, Len(file))
<1> DEFINE cut == Len(file) - size
           next == cut + 1
           at == file[next].at
           width == file[next].width
           strays == IF at = 1 THEN 0 ELSE width - at + 1
<1>1. size \in Nat /\ size # 0 /\ Len(file) \in Nat /\ DOMAIN file = 1 .. Len(file)
  BY DEF IsText
<1>2. cut \in Nat /\ cut # 0 /\ cut + size = Len(file) /\ cut \in DOMAIN file /\ next \in DOMAIN file
  <2> DEFINE n == Len(file)
  <2>1. n \in Nat /\ size \in 1 .. n /\ size < n /\ DOMAIN file = 1 .. n
    BY <1>1
  <2> HIDE DEF n
  <2>2. n - size \in Nat /\ n - size # 0 /\ (n - size) + size = n
        /\ n - size \in 1 .. n /\ (n - size) + 1 \in 1 .. n
    BY <2>1
  <2> QED BY <2>1, <2>2 DEF n
<1>3. DecodedTail(file, size) = Replacements(strays) \o SubSeq(file, cut + strays + 1, Len(file))
  BY <1>1 DEF DecodedTail
<1> HIDE DEF cut
<1>4. /\ at \in 1 .. width /\ width \in 1 .. 4
      /\ Boundary(file, next - at) /\ Boundary(file, next - at + width)
      /\ next - at + width \in 1 .. Len(file)
  <2> HIDE DEF next
  <2> QED BY <1>2, CutBoundaries
<1>5. at \in Int
  BY <1>4
<1> HIDE DEF at, width
<1>6. /\ strays \in 0 .. 3 /\ cut + strays <= Len(file)
      /\ strays = 0 => next - at = cut
      /\ strays # 0 => next - at + width = cut + strays
  BY <1>1, <1>2, <1>4, <1>5, Strays
<1>7. strays = 0 => cut + strays = cut
  BY <1>2
<1>8. strays <= size
  BY <1>1, <1>2, <1>6
<1>9. Boundary(file, cut) => strays = 0
  <2> SUFFICES ASSUME file[cut].at = file[cut].width, at # 1 PROVE FALSE
    BY <1>2 DEF Boundary
  <2> DEFINE start == next - at
             before == at - 1
  <2>1. before \in 1 .. width /\ start + before = cut /\ before < width
    BY <1>2, <1>4, <1>5
  <2>2. file[start + before].at = before /\ file[start + before].width = width
    <3> HIDE DEF next, before
    <3>1. \A j \in 1 .. file[next].width : /\ file[next - file[next].at + j].at = j
                                          /\ file[next - file[next].at + j].width = file[next].width
      BY <1>2 DEF IsText
    <3> QED BY <2>1, <3>1 DEF at, width
  <2> QED BY <1>4, <2>1, <2>2
<1> HIDE DEF strays, next
<1>10. Boundary(file, cut + strays)
  BY <1>4, <1>6, <1>7
<1> QED BY <1>3, <1>6, <1>8, <1>9, <1>10 DEF cut

\* Replacements are characters of three bytes.
LEMMA ReplacementsLength ==
    ASSUME NEW n \in Nat
    PROVE  Replacements(n) \in Seq(Byte) /\ Len(Replacements(n)) = 3 * n
<1>1. 3 * n \in Nat
  OBVIOUS
<1>2. \A i \in 1 .. 3 * n : ((i - 1) % 3) + 1 \in 1 .. 4
  OBVIOUS
<1>3. \A i \in 1 .. 3 * n : [char |-> 0, at |-> ((i - 1) % 3) + 1, width |-> 3] \in Byte
  BY <1>2 DEF Byte
<1> QED BY <1>1, <1>3 DEF Replacements

LEMMA LengthsAdd ==
    ASSUME NEW S, NEW s \in Seq(S), NEW t \in Seq(S)
    PROVE  s \o t \in Seq(S) /\ Len(s \o t) = Len(s) + Len(t)
OBVIOUS

\* The whole characters, the marker, and three bytes for every replacement.
LEMMA ExcerptLength ==
    ASSUME NEW file, IsText(file), NEW head \in 1 .. Len(file), NEW tail \in 1 .. Len(file),
           NEW left \in 0 .. 3, left <= head, NEW strays \in 0 .. 3, strays <= tail,
           NEW limit \in Int, head + MarkerLength + tail = limit
    PROVE  Len((SubSeq(file, 1, head - left) \o Replacements(IF left = 0 THEN 0 ELSE 1))
               \o Marker
               \o (Replacements(strays) \o SubSeq(file, Len(file) - tail + strays + 1, Len(file))))
             <= limit + 8
<1> DEFINE one == IF left = 0 THEN 0 ELSE 1
           first == SubSeq(file, 1, head - left)
           last == SubSeq(file, Len(file) - tail + strays + 1, Len(file))
<1>1. file \in Seq(Byte) /\ Len(file) \in Nat /\ MarkerLength \in Nat
  BY LimitsAssumption DEF IsText
<1>2. /\ first \in Seq(Byte) /\ Len(first) = head - left
      /\ last \in Seq(Byte) /\ Len(last) = tail - strays
  BY <1>1
<1> HIDE DEF first, last
<1>3. Marker \in Seq(Byte) /\ Len(Marker) = MarkerLength
  BY <1>1 DEF Marker, Byte
<1>4. one \in Nat /\ 3 * one - left <= 2
  OBVIOUS
<1> HIDE DEF one
<1>5. /\ Replacements(one) \in Seq(Byte) /\ Len(Replacements(one)) = 3 * one
      /\ Replacements(strays) \in Seq(Byte) /\ Len(Replacements(strays)) = 3 * strays
  <2>1. strays \in Nat
    OBVIOUS
  <2> QED BY <1>4, <2>1, ReplacementsLength, Zenon
<1>6. /\ first \o Replacements(one) \in Seq(Byte)
      /\ Len(first \o Replacements(one)) = Len(first) + Len(Replacements(one))
  BY <1>2, <1>5, LengthsAdd
<1>7. /\ Replacements(strays) \o last \in Seq(Byte)
      /\ Len(Replacements(strays) \o last) = Len(Replacements(strays)) + Len(last)
  BY <1>2, <1>5, LengthsAdd
<1>8. /\ first \o Replacements(one) \o Marker \in Seq(Byte)
      /\ Len(first \o Replacements(one) \o Marker) = Len(first) + Len(Replacements(one)) + Len(Marker)
  <2> DEFINE decoded == first \o Replacements(one)
  <2>1. decoded \in Seq(Byte) /\ Len(decoded) = Len(first) + Len(Replacements(one))
    BY <1>6
  <2> HIDE DEF decoded
  <2>2. decoded \o Marker \in Seq(Byte) /\ Len(decoded \o Marker) = Len(decoded) + Len(Marker)
    BY <1>3, <2>1, LengthsAdd
  <2> QED BY <2>1, <2>2 DEF decoded
<1>9. Len(first \o Replacements(one) \o Marker \o (Replacements(strays) \o last))
        = Len(first) + Len(Replacements(one)) + Len(Marker) + Len(Replacements(strays)) + Len(last)
  <2>1. Len(first \o Replacements(one) \o Marker \o (Replacements(strays) \o last))
          = Len(first \o Replacements(one) \o Marker) + Len(Replacements(strays) \o last)
    BY <1>7, <1>8, LengthsAdd
  <2> QED BY <1>1, <1>2, <1>3, <1>4, <1>5, <1>7, <1>8, <2>1
<1>10. Len(first) + Len(Replacements(one)) + Len(Marker) + Len(Replacements(strays)) + Len(last) <= limit + 8
  BY <1>1, <1>2, <1>3, <1>4, <1>5
<1> QED BY <1>9, <1>10 DEF first, last, one

\* A file that is too long gives an excerpt.
LEMMA ExcerptMade ==
    ASSUME NEW file, IsText(file), NEW limit \in Int, limit >= MinInline, Len(file) > limit
    PROVE  /\ Inline(file, limit).truncated
           /\ Excerpt(Inline(file, limit).text, file, limit)
           /\ Len(Inline(file, limit).text) <= limit + 8
<1> DEFINE available == Max({0, limit - MarkerLength})
           head == available \div 2
           tail == available - head
           text == Inline(file, limit).text
<1>1. Len(file) \in Nat /\ MarkerLength \in Nat \ {0}
  BY LimitsAssumption DEF IsText
<1>2. /\ head \in 1 .. limit /\ tail \in 1 .. limit
      /\ head + MarkerLength + tail = limit
      /\ tail - head \in {0, 1}
  BY Room
<1>3. Inline(file, limit) = [text |-> DecodedHead(file, head) \o Marker \o DecodedTail(file, tail),
                             truncated |-> TRUE]
  BY <1>1 DEF Inline
<1> HIDE DEF head, tail
<1>4. Inline(file, limit).truncated /\ text = DecodedHead(file, head) \o Marker \o DecodedTail(file, tail)
  BY <1>3
<1> HIDE DEF text
<1>5. head \in 1 .. Len(file) /\ tail \in 1 .. Len(file) /\ tail < Len(file)
      /\ head \in Nat \cap 1 .. limit /\ tail \in Nat \cap 1 .. limit
  BY <1>1, <1>2
<1>6. PICK left \in 0 .. 3 :
        /\ left <= head /\ Boundary(file, head - left)
        /\ Boundary(file, head) => left = 0
        /\ DecodedHead(file, head)
             = SubSeq(file, 1, head - left) \o Replacements(IF left = 0 THEN 0 ELSE 1)
  BY <1>5, HeadDecoded
<1>7. PICK strays \in 0 .. 3 :
        /\ strays <= tail /\ Boundary(file, Len(file) - tail + strays)
        /\ Boundary(file, Len(file) - tail) => strays = 0
        /\ DecodedTail(file, tail)
             = Replacements(strays) \o SubSeq(file, Len(file) - tail + strays + 1, Len(file))
  BY <1>5, TailDecoded
<1>8. text = (SubSeq(file, 1, head - left) \o Replacements(IF left = 0 THEN 0 ELSE 1))
             \o Marker
             \o (Replacements(strays) \o SubSeq(file, Len(file) - tail + strays + 1, Len(file)))
  BY <1>4, <1>6, <1>7, Zenon
<1>9. Len(text) <= limit + 8
  BY <1>2, <1>5, <1>6, <1>7, <1>8, ExcerptLength
<1>10. Excerpt(text, file, limit)
  BY <1>2, <1>5, <1>6, <1>7, <1>8, Zenon DEF Excerpt
<1> QED BY <1>4, <1>9, <1>10 DEF text

LEMMA ExcerptFits ==
    ASSUME ReadResult
    PROVE  InlineFits'
<1>1. PICK policy \in Policies, file \in Files :
        /\ PolicyAccepted(policy)
        /\ call' = [of |-> "result", policy |-> policy, file |-> file]
        /\ answer' = Inline(file, policy.inline_result_bytes)
  BY DEF ReadResult, Ask
<1> DEFINE limit == policy.inline_result_bytes
<1>2. limit \in Int /\ limit >= MinInline /\ IsText(file) /\ Len(file) \in Nat
  BY <1>1, NumbersAssumption, LimitsAssumption DEF PolicyAccepted, IsText
<1>3. call'.policy.inline_result_bytes = limit /\ call'.file = file
  BY <1>1
<1>4. CASE Len(file) <= limit
  <2>1. answer' = [text |-> file, truncated |-> FALSE]
    BY <1>1, <1>4 DEF Inline
  <2> QED BY <1>3, <1>4, <2>1, Zenon DEF InlineFits
<1>5. CASE Len(file) > limit
  <2>1. ~(Len(file) <= limit)
    BY <1>2, <1>5
  <2>2. answer'.truncated /\ Excerpt(answer'.text, file, limit) /\ Len(answer'.text) <= limit + 8
    BY <1>1, <1>2, <1>5, ExcerptMade
  <2> HIDE DEF limit
  <2> QED BY <1>3, <2>1, <2>2, Zenon DEF InlineFits
<1> QED BY <1>2, <1>4, <1>5

\* For every accepted policy and a result of any length, the text is the result,
\* or what is read of it fills the limit to the byte; decoding replaces nothing
\* but what a cut goes through, at the price of at most eight bytes.
THEOREM ExcerptsFit == ComputeSpec => []InlineFits
<1>1. Init => InlineFits
  BY DEF Init, InlineFits
<1>2. InlineFits /\ [ComputeNext]_vars => InlineFits'
  <2>1. UNCHANGED vars /\ InlineFits => InlineFits'
    <3> SUFFICES ASSUME call' = call, answer' = answer, InlineFits PROVE InlineFits'
      BY DEF vars
    <3> QED BY Zenon DEF InlineFits
  <2>2. PurgeOlderThan \/ EndTask \/ Check \/ Delegate => InlineFits'
    BY Questions DEF InlineFits
  <2> QED BY <2>1, <2>2, ExcerptFits DEF ComputeNext
<1> QED BY <1>1, <1>2, PTL DEF ComputeSpec

-----------------------------------------------------------------------------
(* The age of what is purged.                                              *)

\* The days that are kept are as long as was asked, and less than one longer.
LEMMA DaysKept ==
    ASSUME NEW seconds \in Nat \ {0}
    PROVE  /\ Retention(seconds) \in Nat
           /\ seconds <= Retention(seconds) * Day
           /\ Retention(seconds) * Day < seconds + Day
<1> DEFINE days == (seconds + Day - 1) \div Day
<1>1. Day \in Nat \ {0} /\ seconds + Day - 1 \in Nat
  BY LimitsAssumption
<1>2. days \in Nat /\ days * Day <= seconds + Day - 1 /\ seconds + Day - 1 < days * Day + Day
  BY <1>1, Quotient
<1> HIDE DEF days
<1>3. days * Day \in Nat /\ seconds <= days * Day /\ days * Day < seconds + Day
  BY <1>1, <1>2
<1>4. days # 0
  BY <1>1, <1>3
<1>5. Retention(seconds) = days
  BY <1>2, <1>4, MaxOfTwo DEF Retention, days
<1> QED BY <1>2, <1>3, <1>5

LEMMA CutoffRight ==
    ASSUME PurgeOlderThan
    PROVE  PurgeKeepsYounger'
<1>1. PICK age \in Ages, asked \in Durations :
        /\ call' = [of |-> "purge", age |-> age, asked |-> asked]
        /\ answer' = TooOld(age, Retention(asked))
  BY DEF PurgeOlderThan, Ask
<1>2. age \in Nat /\ asked \in Nat \ {0} /\ Day \in Nat \ {0}
  BY NumbersAssumption, LimitsAssumption
<1> DEFINE kept == Retention(asked) * Day
<1>3. kept \in Nat /\ asked <= kept /\ kept < asked + Day
  BY <1>2, DaysKept
<1>4. answer' <=> age > kept
  BY <1>1, Zenon DEF TooOld
<1> HIDE DEF kept
<1>5. (age > kept => age > asked) /\ (age >= asked + Day => age > kept)
  BY <1>2, <1>3
<1>6. call'.age = age /\ call'.asked = asked
  BY <1>1
<1> QED BY <1>4, <1>5, <1>6, Zenon DEF PurgeKeepsYounger

\* Rounding a duration up to whole days never makes purge take a run that is
\* too young, nor leave one that is a day too old.
THEOREM CutoffsRight == ComputeSpec => []PurgeKeepsYounger
<1>1. Init => PurgeKeepsYounger
  BY DEF Init, PurgeKeepsYounger
<1>2. PurgeKeepsYounger /\ [ComputeNext]_vars => PurgeKeepsYounger'
  <2>1. UNCHANGED vars /\ PurgeKeepsYounger => PurgeKeepsYounger'
    <3> SUFFICES ASSUME call' = call, answer' = answer, PurgeKeepsYounger PROVE PurgeKeepsYounger'
      BY DEF vars
    <3> QED BY Zenon DEF PurgeKeepsYounger
  <2>2. ReadResult \/ EndTask \/ Check \/ Delegate => PurgeKeepsYounger'
    BY Questions DEF PurgeKeepsYounger
  <2> QED BY <2>1, <2>2, CutoffRight DEF ComputeNext
<1> QED BY <1>1, <1>2, PTL DEF ComputeSpec

-----------------------------------------------------------------------------
(* The end of a task.                                                      *)

\* What a step of EndTask leaves for a property of it.
LEMMA EndOf ==
    ASSUME EndTask
    PROVE  \E file \in OutputFiles, output \in Contracts, session \in Sessions, run \in Ends :
             /\ session # Missing => output.format # "text"
             /\ Contains(file, Undecodable) => output.format = "json"
             /\ call'.file = file /\ call'.output = output
             /\ call'.session = session /\ call'.run = run
             /\ answer' = Conclude(file, output, session, run)
<1>1. PICK file \in OutputFiles, output \in Contracts, session \in Sessions, run \in Ends :
        /\ session # Missing => output.format # "text"
        /\ Contains(file, Undecodable) => output.format = "json"
        /\ call' = [of |-> "end", file |-> file, output |-> output, session |-> session, run |-> run]
        /\ answer' = Conclude(file, output, session, run)
  BY DEF EndTask, Ask
<1>2. call'.file = file /\ call'.output = output /\ call'.session = session /\ call'.run = run
  BY <1>1
<1> QED BY <1>1, <1>2

\* Only bytes that are no text go wrong in a way the parsers do not expect.
LEMMA PartialFound ==
    ASSUME NEW file, NEW output, Contains(file, Undecodable) => output.format = "json"
    PROVE  BestEffortPartial(file, output).error
             = IF Contains(file, Undecodable) THEN "uncaught" ELSE "none"
<1>1. CASE Contains(file, Undecodable)
  <2>1. ReadingError(file, output.format) = "uncaught"
    BY <1>1 DEF ReadingError
  <2>2. ParseOutput(file, output).error = "uncaught"
    BY <1>1, <2>1 DEF ParseOutput, Raises
  <2> QED BY <1>1, <2>2 DEF BestEffortPartial
<1>2. CASE ~Contains(file, Undecodable)
  <2>1. ReadingError(file, output.format) # "uncaught"
    BY <1>2 DEF ReadingError
  <2>2. ReadingError(file, output.format) \in {"none", "protocol"}
    BY <1>2, <2>1 DEF ReadingError
  <2>3. ParseText(file).error \in {"none", "protocol"}
    BY DEF ParseText, Raises
  <2>4. ParseOutput(file, output).error \in {"none", "protocol"}
    BY <2>2, <2>3 DEF ParseOutput, Raises
  <2> QED BY <1>2, <2>4 DEF BestEffortPartial
<1> QED BY <1>1, <1>2

\* The supervisor's order: the session, then the reason, then the exit code.
LEMMA Reasons ==
    ASSUME NEW file, NEW output, NEW session, NEW run \in Ends,
           NEW end, end = Conclude(file, output, session, run)
    PROVE  /\ end.state = "COMPLETED" => run.reason = "none" /\ run.exited
           /\ run.reason # "none" \/ ~run.exited =>
                end = IF EndSession(file, output.format, session, run).error = "mismatch"
                      THEN Fails("FAILED", "PROTOCOL_ERROR", BestEffortPartial(file, output))
                      ELSE Fails(Cause(run).state, Cause(run).code, BestEffortPartial(file, output))
<1> DEFINE found == EndSession(file, output.format, session, run)
           final == ParseOutput(file, output)
           partial == BestEffortPartial(file, output)
<1>1. \A state, code : state # "COMPLETED" => Fails(state, code, partial).state # "COMPLETED"
  BY DEF Fails
<1> HIDE DEF found, final, partial
<1>2. CASE found.error = "mismatch"
  <2>1. end = Fails("FAILED", "PROTOCOL_ERROR", partial)
    BY <1>2 DEF Conclude, found, partial
  <2> QED BY <1>1, <1>2, <2>1 DEF found, partial
<1>3. CASE found.error # "mismatch" /\ run.reason # "none"
  <2>1. end = Fails(ReasonState(run.reason), run.reason, partial)
    BY <1>3 DEF Conclude, found, partial
  <2>2. ReasonState(run.reason) # "COMPLETED"
    BY <1>3, EndsAssumption DEF ReasonState
  <2>3. Cause(run).state = ReasonState(run.reason) /\ Cause(run).code = run.reason
    BY <1>3 DEF Cause
  <2> QED BY <1>1, <1>3, <2>1, <2>2, <2>3 DEF found, partial
<1>4. CASE found.error # "mismatch" /\ run.reason = "none" /\ ~run.exited
  <2>1. end = Fails("FAILED", "NONZERO_EXIT", partial)
    BY <1>4 DEF Conclude, found, partial
  <2>2. Cause(run).state = "FAILED" /\ Cause(run).code = "NONZERO_EXIT"
    BY <1>4 DEF Cause
  <2> QED BY <1>1, <1>4, <2>1, <2>2 DEF found, partial
<1>5. CASE found.error # "mismatch" /\ run.reason = "none" /\ run.exited
  BY <1>5 DEF found
<1> QED BY <1>2, <1>3, <1>4, <1>5

\* A session that was parsed is the only one the lines name.
LEMMA OnlySession ==
    ASSUME NEW file, NEW format, NEW session, ParseSessionId(file, format, session).error = "none"
    PROVE  \E id : /\ SessionCandidates(file, session) = {id}
                   /\ ~IsObject(id)
                   /\ id.text = ParseSessionId(file, format, session).id
<1> DEFINE ids == SessionCandidates(file, session)
<1>1. /\ ids # {} /\ (\A id \in ids : ~IsObject(id)) /\ \A v, w \in ids : v = w
      /\ ParseSessionId(file, format, session) = [error |-> "none", id |-> (CHOOSE id \in ids : TRUE).text]
  BY DEF ParseSessionId, Raises
<1>2. ParseSessionId(file, format, session).id = (CHOOSE id \in ids : TRUE).text
  <2> HIDE DEF ids
  <2> DEFINE chosen == (CHOOSE id \in ids : TRUE).text
  <2>1. ParseSessionId(file, format, session) = [error |-> "none", id |-> chosen]
    BY <1>1
  <2> HIDE DEF chosen
  <2>2. ParseSessionId(file, format, session).id = chosen
    BY <2>1
  <2> QED BY <2>2 DEF chosen
<1> HIDE DEF ids
<1>3. PICK id : id = CHOOSE x \in ids : TRUE
  OBVIOUS
<1>4. id \in ids
  BY <1>1, <1>3
<1>5. ids = {id}
  BY <1>1, <1>4
<1> QED BY <1>1, <1>2, <1>3, <1>4, <1>5 DEF ids

\* Output without broken bytes is read to its end when every line is JSON, and
\* a document is one line.
LEMMA Readable ==
    ASSUME NEW file, file \in Seq(ToSet(file)), NEW format \in {"json", "jsonl"},
           ~Contains(file, Undecodable)
    PROVE  ReadingError(file, format) = "none"
             <=> ~Contains(file, Garbled) /\ (format = "json" => Len(file) = 1 /\ file[1] # Blank)
<1>1. CASE format = "jsonl"
  BY <1>1 DEF ReadingError
<1>2. CASE format = "json"
  <2>1. Len(file) = 1 => (Contains(file, Garbled) <=> file[1] = Garbled)
    BY DEF Contains
  <2>2. ReadingError(file, format) = "none" <=> ~(Len(file) # 1 \/ file[1] \in {Garbled, Blank})
    BY <1>2 DEF ReadingError
  <2> QED BY <1>2, <2>1, <2>2
<1> QED BY <1>1, <1>2

\* The supervisor sees a mismatch exactly when another session was resumed.
LEMMA Mismatches ==
    ASSUME NEW file, file \in Seq(ToSet(file)), NEW format, NEW session, NEW run,
           session # Missing => format \in {"json", "jsonl"},
           ~Contains(file, Undecodable)
    PROVE  EndSession(file, format, session, run).error = "mismatch"
             <=> ResumedAnother(file, format, session, run.native)
<1> DEFINE parsed == ParseSessionId(file, format, session)
           ids == SessionCandidates(file, session)
           named(i) == Lookup(file[i], session.id_field)
<1>1. ids = {named(i) : i \in Naming(file, session)}
  BY DEF SessionCandidates, Naming, ReadJsonValues
<1>2. ASSUME EndSession(file, format, session, run).error = "mismatch"
      PROVE  ResumedAnother(file, format, session, run.native)
  <2>1. parsed.error # "mismatch"
    BY DEF ParseSessionId, ReadingError, Raises
  <2>2. session # Missing /\ parsed.error = "none" /\ run.native # Missing /\ run.native # parsed.id
    <3> HIDE DEF parsed
    <3>1. session # Missing
      BY <1>2 DEF EndSession
    <3>2. EndSession(file, format, session, run)
            = IF parsed.error = "none" /\ run.native \notin {Missing, parsed.id}
              THEN Raises("mismatch") ELSE parsed
      BY <3>1 DEF EndSession, parsed
    <3> QED BY <1>2, <2>1, <3>1, <3>2
  <2>3. ReadingError(file, format) = "none" /\ ~\E id \in ids : id.text = ""
    BY <2>2 DEF ParseSessionId, Raises
  <2>4. PICK id : ids = {id} /\ ~IsObject(id) /\ id.text = parsed.id
    BY <2>2, OnlySession
  <2> HIDE DEF parsed, ids
  <2>5. PICK i \in Naming(file, session) : named(i) = id
    BY <1>1, <2>4
  <2>6. \A j \in Naming(file, session) : named(j) = named(i)
    BY <1>1, <2>4, <2>5
  <2>7. ~IsObject(named(i)) /\ named(i).text \notin {"", run.native}
    BY <2>2, <2>3, <2>4, <2>5
  <2>8. ~Contains(file, Garbled) /\ (format = "json" => Len(file) = 1 /\ file[1] # Blank)
    BY <2>2, <2>3, Readable
  <2> QED BY <2>2, <2>5, <2>6, <2>7, <2>8, Zenon DEF ResumedAnother
<1>3. ASSUME ResumedAnother(file, format, session, run.native)
      PROVE  EndSession(file, format, session, run).error = "mismatch"
  <2>1. /\ session # Missing /\ run.native # Missing
        /\ ~Contains(file, Garbled) /\ (format = "json" => Len(file) = 1 /\ file[1] # Blank)
    BY <1>3 DEF ResumedAnother
  <2>2. PICK i \in Naming(file, session) :
          /\ ~IsObject(named(i)) /\ named(i).text \notin {"", run.native}
          /\ \A j \in Naming(file, session) : named(j) = named(i)
    BY <1>3, Zenon DEF ResumedAnother
  <2>3. ReadingError(file, format) = "none"
    BY <2>1, Readable
  <2>4. PICK id : id = named(i)
    OBVIOUS
  <2> HIDE DEF named
  <2>5. ids = {id}
    BY <1>1, <2>2, <2>4
  <2>6. ~IsObject(id) /\ id.text # "" /\ id.text # run.native
    BY <2>2, <2>4
  <2> HIDE DEF ids
  <2>7. (CHOOSE x \in ids : TRUE) = id
    BY <2>5
  <2> DEFINE chosen == (CHOOSE x \in ids : TRUE).text
  <2>8. parsed = [error |-> "none", id |-> chosen]
    BY <2>3, <2>5, <2>6 DEF ParseSessionId, ids
  <2> HIDE DEF chosen, parsed
  <2>9. parsed.error = "none" /\ parsed.id = chosen
    BY <2>8
  <2>10. chosen = id.text
    BY <2>7 DEF chosen
  <2>11. EndSession(file, format, session, run) = Raises("mismatch")
    BY <2>1, <2>6, <2>9, <2>10 DEF EndSession, parsed
  <2> QED BY <2>11 DEF Raises
<1> QED BY <1>2, <1>3

LEMMA ReasonKept ==
    ASSUME EndTask
    PROVE  ReasonIsTold'
<1>1. PICK file \in OutputFiles, output \in Contracts, session \in Sessions, run \in Ends :
        /\ session # Missing => output.format # "text"
        /\ Contains(file, Undecodable) => output.format = "json"
        /\ call'.file = file /\ call'.output = output
        /\ call'.session = session /\ call'.run = run
        /\ answer' = Conclude(file, output, session, run)
  BY EndOf
<1>2. /\ file \in Seq(ToSet(file))
      /\ session # Missing => output.format \in {"json", "jsonl"}
  BY <1>1, ContractsAssumption DEF OutputAccepted
<1> DEFINE mismatch == EndSession(file, output.format, session, run).error = "mismatch"
           partial == BestEffortPartial(file, output)
<1>3. run.reason # "none" \/ ~run.exited =>
        answer' = IF mismatch THEN Fails("FAILED", "PROTOCOL_ERROR", partial)
                              ELSE Fails(Cause(run).state, Cause(run).code, partial)
  BY <1>1, Reasons
<1>4. partial.error = IF Contains(file, Undecodable) THEN "uncaught" ELSE "none"
  BY <1>1, PartialFound
<1>5. ~Contains(file, Undecodable) => (mismatch <=> ResumedAnother(file, output.format, session, run.native))
  BY <1>2, Mismatches
<1>6. Cause(run) = [state |-> Cause(run).state, code |-> Cause(run).code]
  BY DEF Cause
<1> HIDE DEF mismatch, partial
<1>7. run.reason # "none" \/ ~run.exited =>
        answer' = IF Contains(file, Undecodable) THEN [state |-> "FAILED", code |-> "SPAWN_ERROR"]
                  ELSE IF ResumedAnother(file, output.format, session, run.native)
                  THEN [state |-> "FAILED", code |-> "PROTOCOL_ERROR"]
                  ELSE Cause(run)
  BY <1>3, <1>4, <1>5, <1>6 DEF Fails
<1> QED BY <1>1, <1>7, Zenon DEF ReasonIsTold

\* For every output, contract, session and exit: a task that was stopped, or that
\* exited with an error, says exactly why, but for the two exceptions of the
\* property.
THEOREM ReasonsAreTold == ComputeSpec => []ReasonIsTold
<1>1. Init => ReasonIsTold
  BY DEF Init, ReasonIsTold
<1>2. ReasonIsTold /\ [ComputeNext]_vars => ReasonIsTold'
  <2>1. UNCHANGED vars /\ ReasonIsTold => ReasonIsTold'
    <3> SUFFICES ASSUME call' = call, answer' = answer, ReasonIsTold PROVE ReasonIsTold'
      BY DEF vars
    <3> QED BY Zenon DEF ReasonIsTold
  <2>2. ReadResult \/ PurgeOlderThan \/ Check \/ Delegate => ReasonIsTold'
    BY Questions DEF ReasonIsTold
  <2> QED BY <2>1, <2>2, ReasonKept DEF ComputeNext
<1> QED BY <1>1, <1>2, PTL DEF ComputeSpec

\* The session of a completed task is the one the output was found to name.
LEMMA CompletedSession ==
    ASSUME NEW file, NEW output, NEW session, session # Missing, NEW run \in Ends,
           NEW end, end = Conclude(file, output, session, run), end.state = "COMPLETED"
    PROVE  /\ ParseSessionId(file, output.format, session).error = "none"
           /\ end.session = ParseSessionId(file, output.format, session).id
           /\ run.native \in {Missing, end.session}
<1> DEFINE found == EndSession(file, output.format, session, run)
           final == ParseOutput(file, output)
           partial == BestEffortPartial(file, output)
           parsed == ParseSessionId(file, output.format, session)
<1>1. \A state, code : state # "COMPLETED" => Fails(state, code, partial).state # "COMPLETED"
  BY DEF Fails
<1>2. run.reason = "none" /\ run.exited
  BY Reasons
<1>3. found.error # "mismatch" /\ found.error = "none" /\ final.error = "none"
  <2> HIDE DEF found, final, partial
  <2>1. /\ found.error = "mismatch" => end = Fails("FAILED", "PROTOCOL_ERROR", partial)
        /\ found.error # "none" \/ final.error # "none" => end = Fails("FAILED", "PROTOCOL_ERROR", partial)
    BY <1>2 DEF Conclude, found, final, partial
  <2> QED BY <1>1, <2>1
<1>4. end = [state |-> "COMPLETED", code |-> "none", result |-> final.result, session |-> found.id]
  BY <1>2, <1>3 DEF Conclude
<1>5. end.session = found.id
  <2> HIDE DEF found, final
  <2> QED BY <1>4
<1>6. found = parsed /\ (run.native \in {Missing, parsed.id})
  BY <1>3 DEF EndSession, Raises
<1> QED BY <1>3, <1>5, <1>6

LEMMA SessionKept ==
    ASSUME EndTask
    PROVE  OneSession'
<1>1. PICK file \in OutputFiles, output \in Contracts, session \in Sessions, run \in Ends :
        /\ call'.file = file /\ call'.output = output
        /\ call'.session = session /\ call'.run = run
        /\ answer' = Conclude(file, output, session, run)
  BY EndOf
<1> SUFFICES ASSUME session # Missing, answer'.state = "COMPLETED"
             PROVE  /\ run.native \in {Missing, answer'.session}
                    /\ \E i \in DOMAIN file : file[i] # Blank /\ Matches(file[i], session.id_match)
                    /\ \A i \in DOMAIN file :
                         LET named == Lookup(file[i], session.id_field)
                         IN  /\ file[i] # Blank
                             /\ Matches(file[i], session.id_match)
                             /\ named # Missing
                             => ~IsObject(named) /\ named.text = answer'.session
  BY <1>1 DEF OneSession
<1>2. /\ ParseSessionId(file, output.format, session).error = "none"
      /\ answer'.session = ParseSessionId(file, output.format, session).id
      /\ run.native \in {Missing, answer'.session}
  BY <1>1, CompletedSession
<1>3. PICK id : /\ SessionCandidates(file, session) = {id}
                /\ ~IsObject(id)
                /\ id.text = answer'.session
  BY <1>2, OnlySession
<1>4. \E i \in DOMAIN file : file[i] # Blank /\ Matches(file[i], session.id_match)
  BY <1>3 DEF SessionCandidates, ReadJsonValues
<1>5. ASSUME NEW i \in DOMAIN file, file[i] # Blank, Matches(file[i], session.id_match),
             Lookup(file[i], session.id_field) # Missing
      PROVE  Lookup(file[i], session.id_field) = id
  BY <1>3, <1>5 DEF SessionCandidates, ReadJsonValues
<1> QED BY <1>2, <1>3, <1>4, <1>5

\* No conversation goes on with a session that some line of the output, or the
\* task it continues, contradicts.
THEOREM SessionsAgree == ComputeSpec => []OneSession
<1>1. Init => OneSession
  BY DEF Init, OneSession
<1>2. OneSession /\ [ComputeNext]_vars => OneSession'
  <2>1. UNCHANGED vars /\ OneSession => OneSession'
    <3> SUFFICES ASSUME call' = call, answer' = answer, OneSession PROVE OneSession'
      BY DEF vars
    <3> QED BY Zenon DEF OneSession
  <2>2. ReadResult \/ PurgeOlderThan \/ Check \/ Delegate => OneSession'
    BY Questions DEF OneSession
  <2> QED BY <2>1, <2>2, SessionKept DEF ComputeNext
<1> QED BY <1>1, <1>2, PTL DEF ComputeSpec

-----------------------------------------------------------------------------
(* The result.  An induction on the lines is made of LeastPlace: the least *)
(* line up to which something fails would not be the least.                *)

\* A set that holds zero, and with every number the next one, up to a last, holds all.
LEMMA Upwards ==
    ASSUME NEW last \in Nat, NEW S, 0 \in S,
           \A n \in 0 .. last : n # 0 /\ n - 1 \in S => n \in S
    PROVE  0 .. last \subseteq S
<1> DEFINE out == (0 .. last) \ S
<1>1. SUFFICES ASSUME out # {} PROVE FALSE
  OBVIOUS
<1>2. PICK m \in out : \A n \in out : m <= n
  <2>1. out \in SUBSET Nat
    OBVIOUS
  <2> HIDE DEF out
  <2> QED BY <1>1, <2>1, LeastPlace
<1>3. m \in 0 .. last /\ m # 0 /\ m - 1 \in 0 .. last /\ m - 1 \notin out
  BY <1>2
<1> QED BY <1>2, <1>3

\* The equation of TextsUpTo.
Gathers(texts, file, path, lines, last) ==
  texts = [n \in 0 .. last |->
             IF n = 0 THEN <<>>
             ELSE IF n \in lines THEN Append(texts[n - 1], AsText(Lookup(file[n], path)))
             ELSE texts[n - 1]]

\* What was gathered can be gathered one line further.
LEMMA GatherMore ==
    ASSUME NEW file, NEW path, NEW lines, NEW n \in Nat, n # 0, NEW texts,
           Gathers(texts, file, path, lines, n - 1)
    PROVE  \E more : Gathers(more, file, path, lines, n)
<1> DEFINE next(before) == IF n \in lines THEN Append(before, AsText(Lookup(file[n], path))) ELSE before
           more == [m \in 0 .. n |-> IF m = n THEN next(texts[n - 1]) ELSE texts[m]]
<1>1. DOMAIN texts = 0 .. (n - 1)
  BY DEF Gathers
<1>2. \A m \in 0 .. (n - 1) : more[m] = texts[m]
  OBVIOUS
<1>3. more[n] = next(texts[n - 1]) /\ more[n - 1] = texts[n - 1]
  OBVIOUS
<1>4. \A m \in 0 .. (n - 1) :
        texts[m] = IF m = 0 THEN <<>>
                   ELSE IF m \in lines THEN Append(texts[m - 1], AsText(Lookup(file[m], path)))
                   ELSE texts[m - 1]
  BY DEF Gathers
<1> HIDE DEF more, next
<1>5. \A m \in 0 .. n :
        more[m] = IF m = 0 THEN <<>>
                  ELSE IF m \in lines THEN Append(more[m - 1], AsText(Lookup(file[m], path)))
                  ELSE more[m - 1]
  <2> TAKE m \in 0 .. n
  <2>1. CASE m = n
    BY <1>3, <2>1 DEF next
  <2>2. CASE m # n /\ m = 0
    BY <1>2, <1>4, <2>2
  <2>3. CASE m # n /\ m # 0
    <3>1. m \in 0 .. (n - 1) /\ m - 1 \in 0 .. (n - 1)
      BY <2>3
    <3>2. more[m] = texts[m] /\ more[m - 1] = texts[m - 1]
      BY <1>2, <3>1
    <3> QED BY <1>4, <2>3, <3>1, <3>2
  <2> QED BY <2>1, <2>2, <2>3
<1>6. Gathers(more, file, path, lines, n)
  <2>1. more = [m \in 0 .. n |-> more[m]]
    BY DEF more
  <2> QED BY <1>5, <2>1, Zenon DEF Gathers
<1> QED BY <1>6

\* So the equation has a solution, and TextsUpTo is one.
LEMMA GatherAll ==
    ASSUME NEW file, Len(file) \in Nat, NEW path, NEW lines
    PROVE  Gathers(TextsUpTo(file, path, lines), file, path, lines, Len(file))
<1> DEFINE S == {n \in 0 .. Len(file) : \E texts : Gathers(texts, file, path, lines, n)}
<1>1. 0 \in S
  <2> DEFINE none == [n \in 0 .. 0 |-> <<>>]
  <2>1. Gathers(none, file, path, lines, 0)
    BY DEF Gathers
  <2> QED BY <2>1
<1>2. \A n \in 0 .. Len(file) : n # 0 /\ n - 1 \in S => n \in S
  BY GatherMore
<1>3. Len(file) \in S
  <2>1. 0 .. Len(file) \subseteq S
    BY <1>1, <1>2, Upwards
  <2> QED BY <2>1
<1>4. \E texts : Gathers(texts, file, path, lines, Len(file))
  BY <1>3
<1>5. TextsUpTo(file, path, lines) = CHOOSE texts : Gathers(texts, file, path, lines, Len(file))
  BY DEF TextsUpTo, Gathers
<1> QED BY <1>4, <1>5, Zenon

\* The lines up to one, and how many they are.
UpTo(lines, n) == {j \in lines : j <= n}

LEMMA Counted ==
    ASSUME NEW lines, NEW last \in Nat, lines \subseteq 1 .. last, NEW n \in Nat
    PROVE  /\ IsFiniteSet(UpTo(lines, n)) /\ Cardinality(UpTo(lines, n)) \in Nat
           /\ \A m \in Nat : m <= n => Cardinality(UpTo(lines, m)) <= Cardinality(UpTo(lines, n))
           /\ \A i \in UpTo(lines, n) : Cardinality(UpTo(lines, i)) \in 1 .. Cardinality(UpTo(lines, n))
<1>1. IsFiniteSet(1 .. last)
  BY FS_Interval
<1>2. \A m : UpTo(lines, m) \subseteq 1 .. last
  BY DEF UpTo
<1>3. \A m : IsFiniteSet(UpTo(lines, m)) /\ Cardinality(UpTo(lines, m)) \in Nat
  BY <1>1, <1>2, FS_Subset, FS_CardinalityType
<1>4. ASSUME NEW m \in Nat, m <= n
      PROVE  Cardinality(UpTo(lines, m)) <= Cardinality(UpTo(lines, n))
  <2>1. UpTo(lines, m) \subseteq UpTo(lines, n)
    <3> SUFFICES ASSUME NEW j \in UpTo(lines, m) PROVE j \in UpTo(lines, n)
      OBVIOUS
    <3>1. j \in lines /\ j <= m /\ j \in 1 .. last
      BY DEF UpTo
    <3>2. j <= n
      BY <1>4, <3>1
    <3> QED BY <3>1, <3>2 DEF UpTo
  <2> QED BY <1>3, <2>1, FS_Subset
<1>5. ASSUME NEW i \in UpTo(lines, n)
      PROVE  Cardinality(UpTo(lines, i)) \in 1 .. Cardinality(UpTo(lines, n))
  <2>1. i \in Nat /\ i <= n /\ i \in UpTo(lines, i)
    BY DEF UpTo
  <2>2. Cardinality(UpTo(lines, i)) # 0
    BY <1>3, <2>1, FS_EmptySet
  <2>3. Cardinality(UpTo(lines, i)) <= Cardinality(UpTo(lines, n))
    BY <1>4, <2>1
  <2> QED BY <1>3, <2>2, <2>3
<1> QED BY <1>3, <1>4, <1>5

\* The texts are those of the lines, in their order.
InOrder(texts, lines, text) ==
  /\ texts \in Seq({text[i] : i \in lines})
  /\ Len(texts) = Cardinality(lines)
  /\ \A i \in lines : texts[Cardinality(UpTo(lines, i))] = text[i]

\* What is gathered are the texts of the lines, in their order.
LEMMA Gathered ==
    ASSUME NEW file, Len(file) \in Nat, NEW path, NEW lines, lines \subseteq 1 .. Len(file),
           NEW text, text = [i \in lines |-> AsText(Lookup(file[i], path))],
           NEW texts, texts = TextsUpTo(file, path, lines)[Len(file)]
    PROVE  InOrder(texts, lines, text)
<1> DEFINE last == Len(file)
           t    == TextsUpTo(file, path, lines)
           all  == {text[i] : i \in lines}
           Right(n) == /\ t[n] \in Seq(all)
                       /\ Len(t[n]) = Cardinality(UpTo(lines, n))
                       /\ \A i \in UpTo(lines, n) : t[n][Cardinality(UpTo(lines, i))] = text[i]
           S == {n \in 0 .. last : Right(n)}
<1>1. last \in Nat
  OBVIOUS
<1>2. \A i \in lines : text[i] = AsText(Lookup(file[i], path))
  BY Zenon
<1>3. \A n \in 0 .. last : t[n] = IF n = 0 THEN <<>>
                                  ELSE IF n \in lines THEN Append(t[n - 1], text[n]) ELSE t[n - 1]
  <2>1. Gathers(t, file, path, lines, last)
    BY GatherAll
  <2> HIDE DEF t, last
  <2>2. \A n \in 0 .. last :
          t[n] = IF n = 0 THEN <<>>
                 ELSE IF n \in lines THEN Append(t[n - 1], AsText(Lookup(file[n], path))) ELSE t[n - 1]
    BY <2>1, Zenon DEF Gathers
  <2> QED BY <1>2, <2>2, Zenon
<1>4. \A i \in lines : text[i] \in all
  OBVIOUS
<1> HIDE DEF t, all, last
<1>5. lines \subseteq 1 .. last
  BY DEF last
<1>6. \A j \in lines : j \in Int /\ 1 <= j /\ j <= last
  BY <1>1, <1>5
<1>7. Right(0)
  <2>1. UpTo(lines, 0) = {}
    <3> SUFFICES ASSUME NEW j \in UpTo(lines, 0) PROVE FALSE
      OBVIOUS
    <3>1. j \in lines /\ j <= 0
      BY DEF UpTo
    <3> QED BY <1>6, <3>1
  <2>2. t[0] = <<>>
    BY <1>1, <1>3
  <2>3. t[0] \in Seq(all) /\ Len(t[0]) = 0
    BY <2>2
  <2> QED BY <2>1, <2>3, FS_EmptySet
<1>8. ASSUME NEW n \in 0 .. last, n # 0, Right(n - 1) PROVE Right(n)
  <2> DEFINE before == UpTo(lines, n - 1)
  <2>1. n - 1 \in Nat /\ n \in Nat
    BY <1>1, <1>8
  <2>2. IsFiniteSet(before) /\ Cardinality(before) \in Nat
    BY <1>1, <1>5, <2>1, Counted
  <2>3. \A i \in before : Cardinality(UpTo(lines, i)) \in 1 .. Cardinality(before)
    BY <1>1, <1>5, <2>1, Counted
  <2>4. t[n - 1] \in Seq(all) /\ Len(t[n - 1]) = Cardinality(before)
        /\ \A i \in before : t[n - 1][Cardinality(UpTo(lines, i))] = text[i]
    BY <1>8
  <2>5. CASE n \in lines
    <3>1. UpTo(lines, n) = before \cup {n} /\ n \notin before
      <4>1. \A j \in lines : j <= n <=> j <= n - 1 \/ j = n
        BY <1>6, <2>1
      <4>2. n <= n /\ ~(n <= n - 1)
        BY <2>1
      <4> QED BY <2>5, <4>1, <4>2 DEF UpTo
    <3>2. Cardinality(UpTo(lines, n)) = Cardinality(before) + 1
      BY <2>2, <3>1, FS_AddElement
    <3>3. t[n] = Append(t[n - 1], text[n])
      BY <1>3, <1>8, <2>5
    <3>4. text[n] \in all
      BY <1>4, <2>5
    <3>5. t[n] \in Seq(all) /\ Len(t[n]) = Cardinality(UpTo(lines, n))
      BY <2>2, <2>4, <3>2, <3>3, <3>4
    <3>6. t[n][Cardinality(UpTo(lines, n))] = text[n]
      BY <2>2, <2>4, <3>2, <3>3, <3>4
    <3>7. ASSUME NEW i \in before PROVE t[n][Cardinality(UpTo(lines, i))] = text[i]
      <4>1. Cardinality(UpTo(lines, i)) \in 1 .. Len(t[n - 1])
        BY <2>3, <2>4
      <4>2. t[n][Cardinality(UpTo(lines, i))] = t[n - 1][Cardinality(UpTo(lines, i))]
        BY <2>4, <3>3, <3>4, <4>1
      <4> QED BY <2>4, <4>2
    <3> HIDE DEF before
    <3> QED BY <3>1, <3>5, <3>6, <3>7
  <2>6. CASE n \notin lines
    <3>1. UpTo(lines, n) = before
      <4>1. \A j \in lines : j <= n <=> j <= n - 1 \/ j = n
        BY <1>6, <2>1
      <4> QED BY <2>6, <4>1 DEF UpTo
    <3>2. t[n] = t[n - 1]
      BY <1>3, <1>8, <2>6
    <3> QED BY <2>4, <3>1, <3>2
  <2> QED BY <2>5, <2>6
<1> HIDE DEF Right
<1>9. last \in S
  <2>1. 0 \in S
    BY <1>1, <1>7
  <2>2. \A n \in 0 .. last : n # 0 /\ n - 1 \in S => n \in S
    BY <1>8
  <2> HIDE DEF S
  <2>3. 0 .. last \subseteq S
    BY <1>1, <2>1, <2>2, Upwards
  <2> QED BY <1>1, <2>3
<1>10. Right(last)
  BY <1>9
<1>11. UpTo(lines, last) = lines
  BY <1>6 DEF UpTo
<1>12. /\ t[last] \in Seq(all) /\ Len(t[last]) = Cardinality(lines)
      /\ \A i \in lines : t[last][Cardinality(UpTo(lines, i))] = text[i]
  BY <1>10, <1>11 DEF Right
<1>13. texts = t[last]
  BY DEF t, last
<1>14. \A i \in lines : texts[Cardinality(UpTo(lines, i))] = text[i]
  BY <1>12, <1>13, Zenon
<1> QED BY <1>12, <1>13, <1>14, Zenon DEF all, InOrder
\* The lines of a file.
LEMMA FileLength ==
    ASSUME NEW file \in OutputFiles
    PROVE  Len(file) \in Nat /\ DOMAIN file = 1 .. Len(file)
BY ContractsAssumption

\* What a contract selects.
LEMMA Selections ==
    ASSUME NEW file \in OutputFiles, NEW output, NEW lines,
           lines = {i \in ReadJsonValues(file) : /\ Matches(file[i], output.match)
                                                 /\ Lookup(file[i], output.field) # Missing
                                                 /\ AsText(Lookup(file[i], output.field)) # ""},
           NEW text, text = [i \in lines |-> AsText(Lookup(file[i], output.field))],
           NEW texts, texts = SelectJsonValues(file, output)
    PROVE  lines \subseteq 1 .. Len(file) /\ InOrder(texts, lines, text)
<1>1. Len(file) \in Nat /\ DOMAIN file = 1 .. Len(file)
  BY FileLength
<1>2. lines \subseteq 1 .. Len(file)
  BY <1>1 DEF ReadJsonValues
<1>3. texts = TextsUpTo(file, output.field, lines)[Len(file)]
  BY DEF SelectJsonValues
<1> QED BY <1>1, <1>2, <1>3, Gathered, Zenon

\* A set of lines has a first and a last one.
LEMMA Extremes ==
    ASSUME NEW last \in Nat, NEW lines, lines \subseteq 1 .. last, lines # {}
    PROVE  /\ \E m \in lines : \A j \in lines : m <= j
           /\ \E m \in lines : \A j \in lines : j <= m
<1>1. \E m \in lines : \A j \in lines : m <= j
  <2>1. lines \in SUBSET Nat
    OBVIOUS
  <2> QED BY <2>1, LeastPlace
<1>2. \E m \in lines : \A j \in lines : j <= m
  <2> DEFINE above == {n \in Nat : \A j \in lines : j <= n}
  <2>1. above \in SUBSET Nat /\ last \in above
    OBVIOUS
  <2>2. PICK n \in above : \A k \in above : n <= k
    <3> HIDE DEF above
    <3> QED BY <2>1, LeastPlace
  <2>3. n \in Nat /\ \A j \in lines : j <= n /\ j \in Nat \ {0}
    BY <2>2
  <2>4. n # 0
    <3>1. PICK j : j \in lines
      OBVIOUS
    <3>2. j \in Nat \ {0} /\ j <= n
      BY <2>3, <3>1
    <3> QED BY <2>3, <3>2
  <2>5. n - 1 \in Nat /\ n - 1 \notin above
    BY <2>2, <2>3, <2>4
  <2>6. PICK j \in lines : ~(j <= n - 1)
    BY <2>5
  <2>7. j = n
    BY <2>3, <2>6
  <2> QED BY <2>3, <2>6, <2>7
<1> QED BY <1>1, <1>2

\* What a mode collects of the texts gathered from some lines.
LEMMA Collected ==
    ASSUME NEW last \in Nat, NEW lines, lines \subseteq 1 .. last, NEW texts, NEW text,
           InOrder(texts, lines, text), texts # <<>>,
           NEW mode \in {"first", "last", "concat"}, NEW wanted,
           mode = "concat" => wanted = lines,
           mode = "first" => wanted = {i \in lines : \A j \in lines : i <= j},
           mode = "last" => wanted = {i \in lines : \A j \in lines : j <= i}
    PROVE  wanted # {} /\ InOrder(Collect(texts, mode), wanted, text)
<1>1. /\ texts \in Seq({text[i] : i \in lines}) /\ Len(texts) = Cardinality(lines)
      /\ \A i \in lines : texts[Cardinality(UpTo(lines, i))] = text[i]
  BY Zenon DEF InOrder
<1>2. lines # {}
  BY <1>1, FS_EmptySet
<1>3. \A j \in lines : j \in Nat /\ j <= j
  OBVIOUS
<1>4. CASE mode = "concat"
  <2>1. Collect(texts, mode) = texts
    BY <1>4 DEF Collect
  <2> QED BY <1>2, <1>4, <2>1, Zenon
<1>5. ASSUME NEW m \in lines, wanted = {m}, NEW found, Collect(texts, mode) = <<found>>, found = text[m]
      PROVE  wanted # {} /\ InOrder(Collect(texts, mode), wanted, text)
  <2>1. Cardinality(wanted) = 1
    BY <1>5, FS_Singleton
  <2>2. UpTo(wanted, m) = wanted
    BY <1>3, <1>5 DEF UpTo
  <2> DEFINE got == Collect(texts, mode)
             all == {text[i] : i \in wanted}
  <2>3. got = <<found>> /\ found \in all
    BY <1>5
  <2> HIDE DEF got, all
  <2>4. Len(got) = 1 /\ got[1] = text[m] /\ got \in Seq(all)
    BY <1>5, <2>3
  <2> QED BY <1>5, <2>1, <2>2, <2>4 DEF got, all, InOrder
<1>6. CASE mode = "first"
  <2>1. PICK m \in lines : \A j \in lines : m <= j
    BY <1>2, Extremes
  <2>2. wanted = {m}
    <3>1. ASSUME NEW i \in lines, \A j \in lines : i <= j PROVE i = m
      <4>1. i \in Nat /\ m \in Nat /\ i <= m /\ m <= i
        BY <1>3, <2>1, <3>1
      <4> QED BY <4>1
    <3>2. wanted = {i \in lines : \A j \in lines : i <= j}
      BY <1>6
    <3> QED BY <2>1, <3>1, <3>2
  <2>3. UpTo(lines, m) = {m}
    <3>1. ASSUME NEW j \in lines PROVE j <= m <=> j = m
      <4>1. j \in Nat /\ m \in Nat /\ m <= j
        BY <1>3, <2>1
      <4> QED BY <4>1
    <3> QED BY <3>1 DEF UpTo
  <2>4. Cardinality({m}) = 1
    BY FS_Singleton
  <2>5. texts[1] = text[m]
    BY <1>1, <2>3, <2>4
  <2>6. Collect(texts, mode) = <<texts[1]>>
    BY <1>6 DEF Collect
  <2> QED BY <1>5, <2>2, <2>5, <2>6
<1>7. CASE mode = "last"
  <2>1. PICK m \in lines : \A j \in lines : j <= m
    BY <1>2, Extremes
  <2>2. wanted = {m}
    <3>1. ASSUME NEW i \in lines, \A j \in lines : j <= i PROVE i = m
      <4>1. i \in Nat /\ m \in Nat /\ i <= m /\ m <= i
        BY <1>3, <2>1, <3>1
      <4> QED BY <4>1
    <3>2. wanted = {i \in lines : \A j \in lines : j <= i}
      BY <1>7
    <3> QED BY <2>1, <3>1, <3>2
  <2>3. UpTo(lines, m) = lines
    BY <2>1 DEF UpTo
  <2>4. texts[Len(texts)] = text[m]
    BY <1>1, <2>3
  <2>5. Collect(texts, mode) = <<texts[Len(texts)]>>
    BY <1>7 DEF Collect
  <2> QED BY <1>5, <2>2, <2>4, <2>5
<1> QED BY <1>4, <1>6, <1>7
\* A task is completed with what was parsed, and for an agent without a session
\* in the output it breaks the protocol only if that went wrong.
LEMMA CompletedResult ==
    ASSUME NEW file, NEW output, NEW session, NEW run \in Ends,
           NEW end, end = Conclude(file, output, session, run)
    PROVE  LET final == ParseOutput(file, output)
           IN  /\ end.state = "COMPLETED" => final.error = "none" /\ end.result = final.result
               /\ end.code = "PROTOCOL_ERROR" /\ session = Missing => final.error # "none"
<1> DEFINE found == EndSession(file, output.format, session, run)
           final == ParseOutput(file, output)
           partial == BestEffortPartial(file, output)
<1>1. \A state, code : Fails(state, code, partial) \in
                         {[state |-> state, code |-> code], [state |-> "FAILED", code |-> "SPAWN_ERROR"]}
  BY DEF Fails
<1>2. session = Missing => found.error = "none"
  BY DEF EndSession
<1> HIDE DEF found, final, partial
<1>3. CASE found.error = "mismatch"
  <2>1. end = Fails("FAILED", "PROTOCOL_ERROR", partial)
    BY <1>3 DEF Conclude, found, partial
  <2>2. end.state = "FAILED"
    BY <1>1, <2>1
  <2> QED BY <1>2, <1>3, <2>2
<1>4. CASE found.error # "mismatch" /\ run.reason # "none"
  <2>1. end = Fails(ReasonState(run.reason), run.reason, partial)
    BY <1>4 DEF Conclude, found, partial
  <2>2. ReasonState(run.reason) # "COMPLETED" /\ run.reason # "PROTOCOL_ERROR"
    BY <1>4, EndsAssumption DEF ReasonState
  <2>3. end.state # "COMPLETED" /\ end.code # "PROTOCOL_ERROR"
    BY <1>1, <2>1, <2>2
  <2> QED BY <2>3
<1>5. CASE found.error # "mismatch" /\ run.reason = "none" /\ ~run.exited
  <2>1. end = Fails("FAILED", "NONZERO_EXIT", partial)
    BY <1>5 DEF Conclude, found, partial
  <2>2. end.state # "COMPLETED" /\ end.code # "PROTOCOL_ERROR"
    BY <1>1, <2>1
  <2> QED BY <2>2
<1>6. CASE /\ found.error # "mismatch" /\ run.reason = "none" /\ run.exited
           /\ found.error # "none" \/ final.error # "none"
  <2>1. end = Fails("FAILED", "PROTOCOL_ERROR", partial)
    BY <1>6 DEF Conclude, found, final, partial
  <2>2. end.state = "FAILED"
    BY <1>1, <2>1
  <2> QED BY <1>2, <1>6, <2>2 DEF final
<1>7. CASE /\ run.reason = "none" /\ run.exited
           /\ found.error = "none" /\ final.error = "none"
  <2>1. end = [state |-> "COMPLETED", code |-> "none", result |-> final.result, session |-> found.id]
    BY <1>7 DEF Conclude, found, final
  <2> QED BY <1>7, <2>1 DEF final
<1> QED BY <1>3, <1>4, <1>5, <1>6, <1>7

LEMMA ResultKept ==
    ASSUME EndTask
    PROVE  ResultIsTheMatch'
<1>1. PICK file \in OutputFiles, output \in Contracts, session \in Sessions, run \in Ends :
        /\ Contains(file, Undecodable) => output.format = "json"
        /\ call'.file = file /\ call'.output = output /\ call'.session = session
        /\ answer' = Conclude(file, output, session, run)
  BY EndOf
<1> SUFFICES ASSUME output.format # "text" PROVE ResultIsTheMatch'
  BY <1>1 DEF ResultIsTheMatch
<1> DEFINE final == ParseOutput(file, output)
           bad   == \E i \in DOMAIN file : file[i] \in {Garbled, Undecodable}
           lines == {i \in ReadJsonValues(file) : /\ Matches(file[i], output.match)
                                                  /\ Lookup(file[i], output.field) # Missing
                                                  /\ AsText(Lookup(file[i], output.field)) # ""}
           text  == [i \in lines |-> AsText(Lookup(file[i], output.field))]
           texts == SelectJsonValues(file, output)
<1>2. DOMAIN file = 1 .. Len(file) /\ Len(file) \in Nat
  BY FileLength
<1>3. output.format \in {"json", "jsonl"} /\ output.collect \in {"first", "last", "concat"}
  BY ContractsAssumption DEF OutputAccepted
<1>4. Selected' \subseteq lines /\ (~bad => Selected' = lines)
  BY <1>1 DEF Selected, ReadJsonValues
<1>5. lines \subseteq 1 .. Len(file) /\ InOrder(texts, lines, text)
  BY Selections, Zenon
<1>6. ReadingError(file, output.format) = "none" => ~bad
  <2>1. ReadingError(file, output.format) = "none" /\ output.format = "jsonl" => ~Contains(file, Garbled)
    BY DEF ReadingError
  <2>2. ReadingError(file, output.format) = "none" /\ output.format = "json"
          => ~Contains(file, Undecodable) /\ Len(file) = 1 /\ file[1] # Garbled
    BY DEF ReadingError
  <2> QED BY <1>1, <1>2, <1>3, <2>1, <2>2 DEF Contains
<1>7. ReadingError(file, output.format) # "none"
        => bad \/ (output.format = "json" /\ Len(file) # 1) \/ Selected' = {}
  <2>1. ReadingError(file, output.format) # "none"
          => \/ Contains(file, Undecodable) \/ Contains(file, Garbled)
             \/ output.format = "json" /\ (Len(file) # 1 \/ file[1] \in {Garbled, Blank})
    BY DEF ReadingError
  <2>2. Contains(file, Undecodable) \/ Contains(file, Garbled) => bad
    BY <1>2 DEF Contains
  <2>3. Len(file) = 1 /\ file[1] = Blank => Selected' = {}
    <3>1. Len(file) = 1 /\ file[1] = Blank => \A i \in DOMAIN file : file[i] = Blank
      BY <1>2
    <3> QED BY <1>1, <3>1 DEF Selected
  <2>4. Len(file) = 1 /\ file[1] = Garbled => bad
    BY <1>2
  <2> QED BY <2>1, <2>2, <2>3, <2>4
<1>8. /\ final.error = "none" => /\ ReadingError(file, output.format) = "none" /\ texts # <<>>
                                 /\ final.result = Collect(texts, output.collect)
      /\ final.error # "none" => ReadingError(file, output.format) # "none" \/ texts = <<>>
  BY DEF ParseOutput, Raises
<1> HIDE DEF final, bad, lines, text, texts
<1>9. /\ answer'.state = "COMPLETED" => final.error = "none" /\ answer'.result = final.result
      /\ answer'.code = "PROTOCOL_ERROR" /\ session = Missing => final.error # "none"
  BY <1>1, CompletedResult DEF final
<1>10. ASSUME answer'.state = "COMPLETED"
       PROVE  /\ ~bad /\ Wanted' # {} /\ Len(answer'.result) = Cardinality(Wanted')
              /\ \A i \in Wanted' : answer'.result[Cardinality({j \in Wanted' : j <= i})]
                                      = AsText(Lookup(file[i], output.field))
  <2>1. ~bad /\ texts # <<>> /\ answer'.result = Collect(texts, output.collect)
    BY <1>6, <1>8, <1>9, <1>10
  <2>2. Selected' = lines
    BY <1>4, <2>1
  <2> DEFINE wanted == Wanted'
             mode   == output.collect
  <2>3. /\ mode = "concat" => wanted = lines
        /\ mode = "first" => wanted = {i \in lines : \A j \in lines : i <= j}
        /\ mode = "last" => wanted = {i \in lines : \A j \in lines : j <= i}
    BY <1>1, <2>2 DEF Wanted
  <2>4. mode \in {"first", "last", "concat"}
    BY <1>3
  <2> HIDE DEF wanted, mode
  <2>5. Len(file) \in Nat /\ lines \subseteq 1 .. Len(file) /\ InOrder(texts, lines, text) /\ texts # <<>>
    BY <1>2, <1>5, <2>1
  <2>6. wanted # {} /\ InOrder(Collect(texts, mode), wanted, text)
    BY <2>3, <2>4, <2>5, Collected, Zenon
  <2>7. /\ Len(Collect(texts, mode)) = Cardinality(wanted)
        /\ \A i \in wanted : Collect(texts, mode)[Cardinality({j \in wanted : j <= i})] = text[i]
    BY <2>6, Zenon DEF InOrder, UpTo
  <2>8. wanted \subseteq lines
    BY <2>3, <2>4
  <2>9. \A i \in wanted : text[i] = AsText(Lookup(file[i], output.field))
    BY <2>8 DEF text
  <2> QED BY <2>1, <2>6, <2>9, <2>7, Zenon DEF wanted, mode
<1>11. ASSUME answer'.code = "PROTOCOL_ERROR", session = Missing
       PROVE  Selected' = {} \/ bad \/ (output.format = "json" /\ Len(file) # 1)
  <2>1. ReadingError(file, output.format) # "none" \/ texts = <<>>
    BY <1>8, <1>9, <1>11
  <2>2. texts = <<>> => lines = {}
    <3>1. texts = <<>> => Cardinality(lines) = 0
      BY <1>5 DEF InOrder
    <3>2. IsFiniteSet(lines)
      <4>1. IsFiniteSet(1 .. Len(file))
        BY <1>2, FS_Interval
      <4> QED BY <1>5, <4>1, FS_Subset
    <3> QED BY <3>1, <3>2, FS_EmptySet
  <2> QED BY <1>4, <1>7, <2>1, <2>2
<1> QED BY <1>1, <1>10, <1>11 DEF ResultIsTheMatch, bad

\* A completed task's result is what the contract asks of the output, in order,
\* whatever the output and the contract.
THEOREM ResultsMatch == ComputeSpec => []ResultIsTheMatch
<1>1. Init => ResultIsTheMatch
  BY DEF Init, ResultIsTheMatch
<1>2. ResultIsTheMatch /\ [ComputeNext]_vars => ResultIsTheMatch'
  <2>1. UNCHANGED vars /\ ResultIsTheMatch => ResultIsTheMatch'
    <3> SUFFICES ASSUME call' = call, answer' = answer, ResultIsTheMatch PROVE ResultIsTheMatch'
      BY DEF vars
    <3>1. Selected' = Selected
      BY Zenon DEF Selected
    <3>2. Wanted' = Wanted
      BY <3>1, Zenon DEF Wanted
    <3> QED BY <3>1, <3>2, Zenon DEF ResultIsTheMatch
  <2>2. ReadResult \/ PurgeOlderThan \/ Check \/ Delegate => ResultIsTheMatch'
    <3>1. ReadResult \/ PurgeOlderThan \/ Check \/ Delegate => call'.of # "end"
      BY Questions
    <3>2. ASSUME ReadResult \/ PurgeOlderThan \/ Check \/ Delegate,
                 ~(call'.of = "end" /\ call'.output.format # "text")
          PROVE  ResultIsTheMatch'
      BY <3>2, Zenon DEF ResultIsTheMatch
    <3> QED BY <3>1, <3>2, Zenon
  <2> QED BY <2>1, <2>2, ResultKept DEF ComputeNext
<1> QED BY <1>1, <1>2, PTL DEF ComputeSpec

-----------------------------------------------------------------------------
(* The order of versions.                                                  *)

\* The order and the likeness of versions, of any places: outside a version
\* all parts are zero.
Positive == Nat \ {0}
Earlier(a, b) ==
    \E i \in Positive : Part(a, i) < Part(b, i) /\ \A j \in 1 .. (i - 1) : Part(a, j) = Part(b, j)
Agree(a, b) == \A i \in Positive : Part(a, i) = Part(b, i)

\* A constraint in the tested range.
Is(a, op, b) == Satisfies(a, [op |-> op, bound |-> b])

LEMMA PartIsNumber ==
    ASSUME NEW a \in Seq(Nat), NEW i \in Positive
    PROVE  Part(a, i) \in Nat
BY DEF Part, Positive

LEMMA PlacesSuffice ==
    ASSUME NEW a \in Seq(Nat), NEW b \in Seq(Nat)
    PROVE  (Before(a, b) <=> Earlier(a, b)) /\ (Alike(a, b) <=> Agree(a, b))
<1>1. Places(a, b) \subseteq Positive
  BY DEF Places, Positive
<1>2. \A i \in Positive \ Places(a, b) : Part(a, i) = 0 /\ Part(b, i) = 0
  BY DEF Places, Part
<1>3. ASSUME Before(a, b) PROVE Earlier(a, b)
  <2>1. PICK i \in Places(a, b) : /\ Part(a, i) < Part(b, i)
                                  /\ \A j \in Places(a, b) : j < i => Part(a, j) = Part(b, j)
    BY <1>3 DEF Before
  <2>2. i \in Positive
    BY <1>1
  <2>3. ASSUME NEW j \in 1 .. (i - 1) PROVE Part(a, j) = Part(b, j)
    <3>1. j \in Positive /\ j < i
      BY <2>2 DEF Positive
    <3> QED BY <1>2, <2>1, <3>1
  <2> QED BY <2>1, <2>2, <2>3 DEF Earlier
<1>4. ASSUME Earlier(a, b) PROVE Before(a, b)
  <2>1. PICK i \in Positive : Part(a, i) < Part(b, i) /\ \A j \in 1 .. (i - 1) : Part(a, j) = Part(b, j)
    BY <1>4 DEF Earlier
  <2>2. i \in Places(a, b)
    BY <1>2, <2>1
  <2>3. ASSUME NEW j \in Places(a, b), j < i PROVE Part(a, j) = Part(b, j)
    <3>1. j \in 1 .. (i - 1)
      BY <1>1, <2>3 DEF Positive
    <3> QED BY <2>1, <3>1
  <2> QED BY <2>1, <2>2, <2>3 DEF Before
<1> QED BY <1>1, <1>2, <1>3, <1>4 DEF Alike, Agree

\* What the padded sequences say does not depend on how far they are padded.
LEMMA PaddedOrder ==
    ASSUME NEW a \in Seq(Nat), NEW b \in Seq(Nat), NEW width \in Nat,
           Len(a) <= width, Len(b) <= width
    PROVE  /\ Less(Padded(a, width), Padded(b, width)) <=> Earlier(a, b)
           /\ Padded(a, width) = Padded(b, width) <=> Agree(a, b)
<1>1. /\ DOMAIN Padded(a, width) = 1 .. width /\ DOMAIN Padded(b, width) = 1 .. width
      /\ \A i \in 1 .. width : Padded(a, width)[i] = Part(a, i) /\ Padded(b, width)[i] = Part(b, i)
  BY DEF Padded, Part
<1>2. Len(a) \in Nat /\ Len(b) \in Nat
  OBVIOUS
<1>3. \A i \in Positive \ (1 .. width) : Part(a, i) = 0 /\ Part(b, i) = 0
  BY <1>2 DEF Part, Positive
<1>4. ASSUME Less(Padded(a, width), Padded(b, width)) PROVE Earlier(a, b)
  <2>1. PICK i \in 1 .. width : /\ Part(a, i) < Part(b, i)
                                /\ \A j \in 1 .. (i - 1) : Padded(a, width)[j] = Padded(b, width)[j]
    BY <1>1, <1>4 DEF Less
  <2>2. i \in Positive /\ \A j \in 1 .. (i - 1) : j \in 1 .. width
    BY <2>1 DEF Positive
  <2> QED BY <1>1, <2>1, <2>2 DEF Earlier
<1>5. ASSUME Earlier(a, b) PROVE Less(Padded(a, width), Padded(b, width))
  <2>1. PICK i \in Positive : Part(a, i) < Part(b, i) /\ \A j \in 1 .. (i - 1) : Part(a, j) = Part(b, j)
    BY <1>5 DEF Earlier
  <2>2. i \in 1 .. width
    BY <1>3, <2>1
  <2>3. \A j \in 1 .. (i - 1) : j \in 1 .. width
    BY <2>2
  <2> QED BY <1>1, <2>1, <2>2, <2>3 DEF Less
<1>6. ASSUME Padded(a, width) = Padded(b, width) PROVE Agree(a, b)
  BY <1>1, <1>3, <1>6 DEF Agree
<1>7. ASSUME Agree(a, b) PROVE Padded(a, width) = Padded(b, width)
  <2>1. \A i \in 1 .. width : Part(a, i) = Part(b, i)
    BY <1>7 DEF Agree, Positive
  <2> QED BY <2>1 DEF Padded, Part
<1> QED BY <1>4, <1>5, <1>6, <1>7

\* A constraint says what the order of the parts says.
LEMMA ConstraintsSay ==
    ASSUME NEW a \in Seq(Nat), NEW b \in Seq(Nat)
    PROVE  /\ Is(a, "<", b) <=> Earlier(a, b)
           /\ Is(a, "<=", b) <=> Earlier(a, b) \/ Agree(a, b)
           /\ Is(a, ">", b) <=> Earlier(b, a)
           /\ Is(a, ">=", b) <=> Earlier(b, a) \/ Agree(a, b)
           /\ Is(a, "==", b) <=> Agree(a, b)
<1> DEFINE width == Max({Len(a), Len(b)})
<1>1. width \in Nat /\ Len(a) <= width /\ Len(b) <= width
  <2>1. Len(a) \in Nat /\ Len(b) \in Nat
    OBVIOUS
  <2> QED BY <2>1, MaxOfTwo
<1>2. \A op : Is(a, op, b) <=> Compares(Padded(a, width), op, Padded(b, width))
  BY DEF Is, Satisfies
<1> HIDE DEF width
<1>3. /\ Less(Padded(a, width), Padded(b, width)) <=> Earlier(a, b)
      /\ Less(Padded(b, width), Padded(a, width)) <=> Earlier(b, a)
      /\ Padded(a, width) = Padded(b, width) <=> Agree(a, b)
  BY <1>1, PaddedOrder
<1> QED BY <1>2, <1>3 DEF Compares

LEMMA EarlierIsTotal ==
    ASSUME NEW a \in Seq(Nat), NEW b \in Seq(Nat)
    PROVE  /\ Earlier(a, b) \/ Earlier(b, a) \/ Agree(a, b)
           /\ ~(Earlier(a, b) /\ Earlier(b, a))
           /\ Agree(a, b) => ~Earlier(a, b) /\ ~Earlier(b, a)
<1>1. \A i \in Positive : Part(a, i) \in Nat /\ Part(b, i) \in Nat
  BY PartIsNumber
<1>2. ASSUME ~Agree(a, b) PROVE Earlier(a, b) \/ Earlier(b, a)
  <2> DEFINE S == {i \in Positive : Part(a, i) # Part(b, i)}
  <2>1. S \in SUBSET Nat /\ S # {}
    BY <1>2 DEF Agree, Positive
  <2>2. PICK m \in S : \A n \in S : m <= n
    BY <2>1, LeastPlace
  <2>3. \A j \in 1 .. (m - 1) : j \in Positive /\ j \notin S
    BY <2>2 DEF Positive
  <2>4. m \in Positive /\ Part(a, m) # Part(b, m) /\ \A j \in 1 .. (m - 1) : Part(a, j) = Part(b, j)
    BY <2>2, <2>3
  <2>5. Part(a, m) < Part(b, m) \/ Part(b, m) < Part(a, m)
    BY <1>1, <2>4
  <2> QED BY <2>4, <2>5 DEF Earlier
<1>3. ASSUME Earlier(a, b), Earlier(b, a) PROVE FALSE
  <2>1. PICK i \in Positive : Part(a, i) < Part(b, i) /\ \A k \in 1 .. (i - 1) : Part(a, k) = Part(b, k)
    BY <1>3 DEF Earlier
  <2>2. PICK j \in Positive : Part(b, j) < Part(a, j) /\ \A k \in 1 .. (j - 1) : Part(b, k) = Part(a, k)
    BY <1>3 DEF Earlier
  <2>3. i < j \/ j < i \/ i = j
    BY DEF Positive
  <2>4. i < j => i \in 1 .. (j - 1)
    BY DEF Positive
  <2>5. j < i => j \in 1 .. (i - 1)
    BY DEF Positive
  <2> QED BY <1>1, <2>1, <2>2, <2>3, <2>4, <2>5
<1>4. Agree(a, b) => ~Earlier(a, b) /\ ~Earlier(b, a)
  BY <1>1 DEF Agree, Earlier
<1> QED BY <1>2, <1>3, <1>4

LEMMA EarlierIsTransitive ==
    ASSUME NEW a \in Seq(Nat), NEW b \in Seq(Nat), NEW c \in Seq(Nat), Earlier(a, b), Earlier(b, c)
    PROVE  Earlier(a, c)
<1>1. \A i \in Positive : Part(a, i) \in Nat /\ Part(b, i) \in Nat /\ Part(c, i) \in Nat
  BY PartIsNumber
<1>2. PICK i \in Positive : Part(a, i) < Part(b, i) /\ \A k \in 1 .. (i - 1) : Part(a, k) = Part(b, k)
  BY DEF Earlier
<1>3. PICK j \in Positive : Part(b, j) < Part(c, j) /\ \A k \in 1 .. (j - 1) : Part(b, k) = Part(c, k)
  BY DEF Earlier
<1>4. i \in Nat /\ j \in Nat /\ i >= 1 /\ j >= 1
  BY DEF Positive
<1>5. CASE i < j
  <2>1. i \in 1 .. (j - 1) /\ \A k \in 1 .. (i - 1) : k \in 1 .. (j - 1)
    BY <1>4, <1>5
  <2>2. Part(a, i) < Part(c, i) /\ \A k \in 1 .. (i - 1) : Part(a, k) = Part(c, k)
    BY <1>1, <1>2, <1>3, <2>1
  <2> QED BY <2>2 DEF Earlier
<1>6. CASE j < i
  <2>1. j \in 1 .. (i - 1) /\ \A k \in 1 .. (j - 1) : k \in 1 .. (i - 1)
    BY <1>4, <1>6
  <2>2. Part(a, j) < Part(c, j) /\ \A k \in 1 .. (j - 1) : Part(a, k) = Part(c, k)
    BY <1>1, <1>2, <1>3, <2>1
  <2> QED BY <2>2 DEF Earlier
<1>7. CASE i = j
  <2>1. Part(a, i) < Part(c, i) /\ \A k \in 1 .. (i - 1) : Part(a, k) = Part(c, k)
    BY <1>1, <1>2, <1>3, <1>7
  <2> QED BY <2>1 DEF Earlier
<1> QED BY <1>4, <1>5, <1>6, <1>7

\* Versions of any lengths are in one order, whatever each pair is padded to:
\* of "<", "==" and ">" exactly one holds, "<" goes on from one to the next,
\* and the other two are their complements.
THEOREM VersionsOrdered ==
    /\ \A a, b \in Seq(Nat) :
         /\ Is(a, "<", b) \/ Is(a, "==", b) \/ Is(a, ">", b)
         /\ ~(Is(a, "<", b) /\ Is(a, ">", b))
         /\ Is(a, "==", b) => ~Is(a, "<", b) /\ ~Is(a, ">", b)
         /\ Is(a, "<=", b) <=> ~Is(a, ">", b)
         /\ Is(a, ">=", b) <=> ~Is(a, "<", b)
         /\ Is(a, ">", b) <=> Is(b, "<", a)
    /\ \A a, b, c \in Seq(Nat) :
         /\ Is(a, "<", b) /\ Is(b, "<", c) => Is(a, "<", c)
         /\ Is(a, "==", b) /\ Is(b, "==", c) => Is(a, "==", c)
<1>1. ASSUME NEW a \in Seq(Nat), NEW b \in Seq(Nat), NEW c \in Seq(Nat), Agree(a, b), Agree(b, c)
      PROVE  Agree(a, c)
  BY <1>1 DEF Agree
<1> QED BY <1>1, ConstraintsSay, EarlierIsTotal, EarlierIsTransitive

-----------------------------------------------------------------------------
(* The verdict of the doctor.                                              *)

LEMMA SatisfiedIsMet ==
    ASSUME NEW version \in Seq(Nat), NEW constraint \in VersionConstraints
    PROVE  Satisfies(version, constraint) <=> Met(version, constraint)
<1>1. PICK op \in {"<", "<=", ">", ">=", "=="}, bound \in Seq(Nat) :
        constraint = [op |-> op, bound |-> bound]
  BY DEF VersionConstraints
<1>2. constraint.op = op /\ constraint.bound = bound
  BY <1>1
<1>3. Satisfies(version, constraint) <=> Is(version, op, bound)
  BY <1>1 DEF Is
<1>4. /\ Before(version, bound) <=> Earlier(version, bound)
      /\ Before(bound, version) <=> Earlier(bound, version)
      /\ Alike(version, bound) <=> Agree(version, bound)
  BY PlacesSuffice
<1>5. Is(version, op, bound) <=> \/ op \in {"<", "<="} /\ Earlier(version, bound)
                                 \/ op \in {">", ">="} /\ Earlier(bound, version)
                                 \/ op \in {"<=", "==", ">="} /\ Agree(version, bound)
  BY ConstraintsSay
<1> QED BY <1>2, <1>3, <1>4, <1>5 DEF Met

\* The first constraint that decides exists if one does.
LEMMA RangeVerdict ==
    ASSUME NEW version \in Seq(Nat), NEW range \in Seq(VersionConstraints \cup {Unparsable})
    PROVE  LET read == {i \in DOMAIN range : range[i] # Unparsable}
               met  == {i \in read : Met(version, range[i])}
               verdict == VersionSatisfies(version, range)
           IN  /\ verdict \in {"yes", "no", "unknown"}
               /\ verdict = "yes" <=> version # <<>> /\ met = DOMAIN range
               /\ verdict = "no" => version # <<>> /\ met # read
               /\ version # <<>> /\ read = DOMAIN range /\ met # read => verdict = "no"
<1> DEFINE read == {i \in DOMAIN range : range[i] # Unparsable}
           met == {i \in read : Met(version, range[i])}
           verdict == VersionSatisfies(version, range)
           deciding == {i \in DOMAIN range : range[i] = Unparsable \/ ~Satisfies(version, range[i])}
           first == CHOOSE i \in deciding : \A j \in deciding : i <= j
<1>1. verdict = IF version = <<>> THEN "unknown"
                ELSE IF deciding = {} THEN "yes"
                ELSE IF range[first] = Unparsable THEN "unknown" ELSE "no"
  BY DEF VersionSatisfies
<1>2. \A i \in read : range[i] \in VersionConstraints
  OBVIOUS
<1>3. \A i \in read : Satisfies(version, range[i]) <=> Met(version, range[i])
  BY <1>2, SatisfiedIsMet
<1>4. deciding = DOMAIN range \ met
  BY <1>3
<1>5. ASSUME deciding # {} PROVE first \in deciding
  <2>1. deciding \in SUBSET Nat
    OBVIOUS
  <2> HIDE DEF deciding
  <2>2. \E i \in deciding : \A j \in deciding : i <= j
    BY <1>5, <2>1, LeastPlace
  <2> QED BY <2>2
<1>6. met \subseteq read /\ read \subseteq DOMAIN range
  OBVIOUS
<1>7. \A i \in DOMAIN range : range[i] = Unparsable <=> i \notin read
  OBVIOUS
<1> HIDE DEF read, met, deciding, first, verdict
<1>8. verdict \in {"yes", "no", "unknown"}
  BY <1>1
<1>9. verdict = "yes" <=> version # <<>> /\ met = DOMAIN range
  BY <1>1, <1>4, <1>6
<1>10. verdict = "no" => version # <<>> /\ met # read
  BY <1>1, <1>4, <1>5, <1>6, <1>7
<1>11. version # <<>> /\ read = DOMAIN range /\ met # read => verdict = "no"
  BY <1>1, <1>4, <1>5, <1>6, <1>7
<1> QED BY <1>8, <1>9, <1>10, <1>11 DEF read, met, verdict

\* An agent passes when no probe leaves an error.
LEMMA ErrorsFound ==
    ASSUME NEW probe \in Probes, NEW machine \in Machines
    PROVE  VersionErrors(probe, machine) \cup HelpErrors(probe, machine) = {} <=>
             /\ probe.version_args => machine.version # Failed
             /\ probe.version_regex => probe.version_args /\ machine.version # NoVersion
             /\ probe.help_args => machine.help # Failed
             /\ probe.help_contains # {} =>
                  probe.help_args /\ probe.help_contains \subseteq machine.help
<1>1. probe.version_args \in BOOLEAN /\ probe.version_regex \in BOOLEAN /\ probe.help_args \in BOOLEAN
  BY DoctorAssumption
<1>2. VersionErrors(probe, machine) = {} <=>
        /\ probe.version_args => machine.version # Failed
        /\ probe.version_regex => probe.version_args /\ machine.version # NoVersion
  <2>1. {"unmatched"} # {} /\ {"probe"} # {}
    OBVIOUS
  <2>2. CASE ~probe.version_args
    BY <2>1, <2>2 DEF VersionErrors
  <2>3. CASE probe.version_args /\ machine.version = Failed
    BY <2>1, <2>3 DEF VersionErrors
  <2>4. CASE probe.version_args /\ machine.version # Failed
    BY <2>1, <2>4 DEF VersionErrors
  <2> QED BY <2>2, <2>3, <2>4
<1>3. HelpErrors(probe, machine) = {} <=>
        /\ probe.help_args => machine.help # Failed
        /\ probe.help_contains # {} =>
             probe.help_args /\ probe.help_contains \subseteq machine.help
  <2>1. {"missing"} # {} /\ {"probe"} # {}
    OBVIOUS
  <2>2. CASE ~probe.help_args
    BY <2>1, <2>2 DEF HelpErrors
  <2>3. CASE probe.help_args /\ machine.help = Failed
    BY <2>1, <2>3 DEF HelpErrors
  <2>4. CASE probe.help_args /\ machine.help # Failed
    BY <2>1, <2>4 DEF HelpErrors
  <2> QED BY <2>2, <2>3, <2>4
<1> QED BY <1>2, <1>3

LEMMA VerdictRight ==
    ASSUME Check
    PROVE  DoctorVerdict'
<1>1. PICK probe \in Probes, machine \in Machines :
        /\ call' = [of |-> "doctor", probe |-> probe, machine |-> machine]
        /\ answer' = CheckAgent(probe, machine)
  BY DEF Check, Ask
<1>2. call'.probe = probe /\ call'.machine = machine
  BY <1>1
<1> DEFINE range == probe.tested_versions
           judged == /\ machine.found /\ probe.version_args /\ range # <<>>
                     /\ machine.version \notin {Failed, NoVersion}
           read == {i \in DOMAIN range : range[i] # Unparsable}
           met == {i \in read : Met(machine.version, range[i])}
<1>3. /\ probe.version_args \in BOOLEAN /\ machine.found \in BOOLEAN
      /\ range \in Seq(VersionConstraints \cup {Unparsable})
      /\ machine.version \in Seq(Nat) \cup {Failed, NoVersion}
  BY DoctorAssumption
<1>4. answer'.ok <=> machine.found /\ VersionErrors(probe, machine) \cup HelpErrors(probe, machine) = {}
  BY <1>1 DEF CheckAgent
<1>5. answer'.compatible = IF judged THEN VersionSatisfies(machine.version, range) ELSE "unchecked"
  <2>1. machine.found => answer'.compatible = Compatible(probe, machine)
    BY <1>1 DEF CheckAgent
  <2>2. ~machine.found => answer'.compatible = "unchecked"
    BY <1>1 DEF CheckAgent
  <2> QED BY <2>1, <2>2 DEF Compatible, Version
<1>6. judged => machine.version \in Seq(Nat)
  BY <1>3
<1>7. judged => /\ answer'.compatible \in {"yes", "no", "unknown"}
                /\ answer'.compatible = "yes" <=> machine.version # <<>> /\ met = DOMAIN range
                /\ answer'.compatible = "no" => machine.version # <<>> /\ met # read
                /\ machine.version # <<>> /\ read = DOMAIN range /\ met # read => answer'.compatible = "no"
  BY <1>3, <1>5, <1>6, RangeVerdict
<1>8. answer'.compatible = "unchecked" <=> ~judged
  BY <1>5, <1>7
<1> QED BY <1>2, <1>4, <1>7, <1>8, ErrorsFound DEF DoctorVerdict

\* Whatever an agent's probes and its machine are like, the doctor's verdict is
\* what they amount to.
THEOREM VerdictsRight == ComputeSpec => []DoctorVerdict
<1>1. Init => DoctorVerdict
  BY DEF Init, DoctorVerdict
<1>2. DoctorVerdict /\ [ComputeNext]_vars => DoctorVerdict'
  <2>1. UNCHANGED vars /\ DoctorVerdict => DoctorVerdict'
    <3> SUFFICES ASSUME call' = call, answer' = answer, DoctorVerdict PROVE DoctorVerdict'
      BY DEF vars
    <3> QED BY Zenon DEF DoctorVerdict
  <2>2. ReadResult \/ PurgeOlderThan \/ EndTask \/ Delegate => DoctorVerdict'
    BY Questions DEF DoctorVerdict
  <2> QED BY <2>1, <2>2, VerdictRight DEF ComputeNext
<1> QED BY <1>1, <1>2, PTL DEF ComputeSpec

-----------------------------------------------------------------------------
(* The way of an agent to the worker's command line.                       *)

\* What request.json keeps of an agent is parsed into the same agent.
LEMMA Parsed ==
    ASSUME NEW raw \in Agents
    PROVE  AgentConfig(ToDict(AgentConfig(raw))) = AgentConfig(raw)
<1> DEFINE agent == AgentConfig(raw)
           dict  == ToDict(agent)
           Keys  == {"command", "success_exit_codes", "allow_unrestricted", "input",
                     "output", "session", "modes"}
           modes == [m \in DOMAIN agent.modes |-> [args |-> agent.modes[m]]]
<1>1. agent = [command |-> agent.command, success_exit_codes |-> agent.success_exit_codes,
               allow_unrestricted |-> agent.allow_unrestricted, input |-> agent.input,
               output |-> agent.output, session |-> agent.session, modes |-> agent.modes]
  BY DEF AgentConfig
<1>2. InputConfig(agent.input) = agent.input
  <2>1. agent.input = InputConfig(Field(raw, "input", NoTable))
    BY DEF AgentConfig
  <2> QED BY <2>1 DEF InputConfig, Field
<1>3. OutputConfig(agent.output) = agent.output
  <2>1. agent.output = OutputConfig(Field(raw, "output", NoTable))
    BY DEF AgentConfig
  <2> QED BY <2>1 DEF OutputConfig, Field
<1>4. SessionConfig(agent.session) = agent.session
  <2>1. agent.session = SessionConfig(Field(raw, "session", None))
    BY DEF AgentConfig
  <2>2. agent.session \in SessionTables \cup {None} /\ None \notin SessionTables
    BY AgentsAssumption
  <2>3. CASE agent.session = None
    BY <2>3 DEF SessionConfig
  <2>4. CASE agent.session # None
    <3>1. agent.session = [id_strategy |-> agent.session.id_strategy,
                           new_args |-> agent.session.new_args,
                           resume_args |-> agent.session.resume_args,
                           id_match |-> agent.session.id_match,
                           id_field |-> agent.session.id_field]
      BY <2>2, <2>4 DEF SessionTables
    <3> QED BY <3>1, <2>4 DEF SessionConfig, Field
  <2> QED BY <2>3, <2>4
<1>5. agent.modes = [m \in DOMAIN agent.modes |-> agent.modes[m]]
  BY DEF AgentConfig
<1> HIDE DEF agent
<1>6. dict = [agent EXCEPT !.modes = modes]
  BY DEF ToDict
<1>7. dict = [command |-> agent.command, success_exit_codes |-> agent.success_exit_codes,
              allow_unrestricted |-> agent.allow_unrestricted, input |-> agent.input,
              output |-> agent.output, session |-> agent.session, modes |-> modes]
  BY <1>1, <1>6
<1> HIDE DEF dict, modes
<1>8. /\ dict.command = agent.command
      /\ Field(dict, "success_exit_codes", <<0>>) = agent.success_exit_codes
      /\ Field(dict, "allow_unrestricted", FALSE) = agent.allow_unrestricted
      /\ Field(dict, "input", NoTable) = agent.input
      /\ Field(dict, "output", NoTable) = agent.output
      /\ Field(dict, "session", None) = agent.session
      /\ Field(dict, "modes", NoTable) = modes
  BY <1>7 DEF Field
<1>9. [m \in DOMAIN modes |-> Field(modes[m], "args", <<>>)] = agent.modes
  BY <1>5 DEF modes, Field
<1> QED
  BY <1>1, <1>2, <1>3, <1>4, <1>8, <1>9 DEF AgentConfig, agent, dict

\* A template's places, their number and their words.
LEMMA Words ==
    ASSUME NEW s \in Templates
    PROVE  Len(s) \in Nat /\ DOMAIN s = 1 .. Len(s) /\ \A i \in DOMAIN s : s[i] \in STRING
BY DEF Templates

\* The words of two templates one behind the other are the words of both.
LEMMA Joined ==
    ASSUME NEW s \in Templates, NEW t \in Templates
    PROVE  s \o t \in Templates /\ ToSet(s \o t) = ToSet(s) \cup ToSet(t)
<1>1. s \o t \in Templates
  BY DEF Templates
<1>2. ASSUME NEW i \in DOMAIN s PROVE s[i] \in ToSet(s \o t)
  <2>1. i \in DOMAIN (s \o t) /\ (s \o t)[i] = s[i]
    BY DEF Templates
  <2> QED BY <2>1 DEF ToSet
<1>3. ASSUME NEW i \in DOMAIN t PROVE t[i] \in ToSet(s \o t)
  <2>1. Len(s) + i \in DOMAIN (s \o t) /\ (s \o t)[Len(s) + i] = t[i]
    BY DEF Templates
  <2> QED BY <2>1 DEF ToSet
<1>4. ASSUME NEW i \in DOMAIN (s \o t) PROVE (s \o t)[i] \in ToSet(s) \cup ToSet(t)
  <2>1. CASE i <= Len(s)
    <3>1. i \in DOMAIN s /\ (s \o t)[i] = s[i]
      BY <2>1 DEF Templates
    <3> QED BY <3>1 DEF ToSet
  <2>2. CASE i > Len(s)
    <3>1. i - Len(s) \in DOMAIN t /\ (s \o t)[i] = t[i - Len(s)]
      BY <2>2 DEF Templates
    <3> QED BY <3>1 DEF ToSet
  <2>3. i \in Int /\ Len(s) \in Int
    BY DEF Templates
  <2> QED BY <2>1, <2>2, <2>3
<1> QED BY <1>1, <1>2, <1>3, <1>4 DEF ToSet

\* And so are those of four.
LEMMA FourJoined ==
    ASSUME NEW a \in Templates, NEW b \in Templates, NEW c \in Templates, NEW d \in Templates
    PROVE  /\ a \o b \o c \o d \in Templates
           /\ ToSet(a \o b \o c \o d) = ToSet(a) \cup ToSet(b) \cup ToSet(c) \cup ToSet(d)
<1>1. a \o b \in Templates /\ ToSet(a \o b) = ToSet(a) \cup ToSet(b)
  BY Joined
<1>2. a \o b \o c \in Templates /\ ToSet(a \o b \o c) = ToSet(a \o b) \cup ToSet(c)
  BY <1>1, Joined
<1>3. /\ a \o b \o c \o d \in Templates
      /\ ToSet(a \o b \o c \o d) = ToSet(a \o b \o c) \cup ToSet(d)
  BY <1>2, Joined
<1> QED BY <1>1, <1>2, <1>3

\* An expanded template is one, and holds the value if it held the placeholder.
LEMMA Expanded ==
    ASSUME NEW template \in Templates, NEW placeholder, NEW value \in STRING
    PROVE  /\ Expand(template, placeholder, value) \in Templates
           /\ Holds(template, placeholder) => value \in ToSet(Expand(template, placeholder, value))
<1>1. Expand(template, placeholder, value) \in [1 .. Len(template) -> STRING]
  BY Words DEF Expand
<1>2. Expand(template, placeholder, value) \in Templates
  <2>1. Len(template) \in Nat
    BY Words
  <2> DEFINE n == Len(template)
             f == Expand(template, placeholder, value)
  <2>2. n \in Nat /\ f \in [1 .. n -> STRING]
    BY <1>1, <2>1
  <2> HIDE DEF n, f
  <2>3. f \in Seq(STRING)
    BY <2>2
  <2> QED BY <2>3 DEF f, Templates
<1>3. ASSUME Holds(template, placeholder)
      PROVE  value \in ToSet(Expand(template, placeholder, value))
  <2>1. PICK i \in DOMAIN template : template[i] = placeholder
    BY <1>3 DEF Holds, Contains, Templates
  <2>2. /\ i \in DOMAIN Expand(template, placeholder, value)
        /\ Expand(template, placeholder, value)[i] = value
    BY <2>1 DEF Expand
  <2> QED BY <2>2 DEF ToSet
<1> QED BY <1>2, <1>3

\* Counting through a table of width d row by row, place a * d + b is place b
\* of row a (both from zero), and no place is outside its rows and columns.
LEMMA Product ==
    ASSUME NEW d \in Nat \ {0}, NEW a \in Nat, NEW b \in Nat, b < d
    PROVE  (a * d + b) \div d = a /\ (a * d + b) % d = b
OBVIOUS

LEMMA Grid ==
    ASSUME NEW d \in Nat \ {0}, NEW n \in Nat, NEW k \in 1 .. d * n
    PROVE  ((k - 1) \div d) + 1 \in 1 .. n /\ ((k - 1) % d) + 1 \in 1 .. d
OBVIOUS

LEMMA Columns ==
    ASSUME NEW d \in Nat, NEW n \in Nat, NEW k \in 1 .. d * n
    PROVE  d # 0
OBVIOUS

LEMMA GridPlace ==
    ASSUME NEW d \in Nat \ {0}, NEW n \in Nat, NEW j \in 1 .. n, NEW i \in 1 .. d
    PROVE  (j - 1) * d + i \in 1 .. d * n
OBVIOUS

\* A template that holds {path} yields every path.
LEMMA ExpandedMany ==
    ASSUME NEW template \in Templates, NEW paths \in Templates
    PROVE  /\ ExpandMany(template, paths) \in Templates
           /\ Holds(template, "{path}") => ToSet(paths) \subseteq ToSet(ExpandMany(template, paths))
<1> DEFINE width == Len(template)
           all   == ExpandMany(template, paths)
           word(k) == Expand(template, "{path}", paths[((k - 1) \div width) + 1])
                        [((k - 1) % width) + 1]
<1>1. DOMAIN template = 1 .. width /\ DOMAIN paths = 1 .. Len(paths)
  BY Words
<1>2. width \in Nat /\ Len(paths) \in Nat
  BY Words
<1>3. width * Len(paths) \in Nat
  BY <1>2
<1>4. all = [k \in 1 .. width * Len(paths) |-> word(k)]
  BY DEF ExpandMany
<1>5. ASSUME NEW k \in 1 .. width * Len(paths) PROVE word(k) \in STRING
  <2>1. width # 0
    BY <1>2
  <2>2. /\ ((k - 1) \div width) + 1 \in 1 .. Len(paths)
        /\ ((k - 1) % width) + 1 \in 1 .. width
    BY <1>2, <2>1, Grid
  <2>3. paths[((k - 1) \div width) + 1] \in STRING
    BY <2>2 DEF Templates
  <2>4. Expand(template, "{path}", paths[((k - 1) \div width) + 1]) \in Templates
    BY <2>3, Expanded
  <2>5. DOMAIN Expand(template, "{path}", paths[((k - 1) \div width) + 1]) = 1 .. width
    BY DEF Expand, Templates
  <2> QED BY <2>2, <2>4, <2>5, Words
<1> HIDE DEF word
<1>6. all \in Templates
  BY <1>3, <1>4, <1>5 DEF Templates
<1>7. ASSUME Holds(template, "{path}"), NEW j \in DOMAIN paths
      PROVE  paths[j] \in ToSet(all)
  <2>1. \E i \in 1 .. width : template[i] = "{path}"
    BY <1>7 DEF Holds, Contains
  <2> HIDE DEF width
  <2>2. PICK i \in 1 .. width : template[i] = "{path}"
    BY <2>1
  <2>3. i \in 1 .. width
    BY <2>2
  <2>4. i \in Nat \ {0} /\ i <= width /\ width # 0
    BY <1>2, <2>3
  <2>5. j \in 1 .. Len(paths)
    BY <1>1, <1>7
  <2> DEFINE k == (j - 1) * width + i
  <2>6. k \in 1 .. width * Len(paths)
    BY <1>2, <2>3, <2>4, <2>5, GridPlace
  <2>7. ((k - 1) \div width) + 1 = j /\ ((k - 1) % width) + 1 = i
    <3>1. /\ j \in Nat /\ i \in Nat /\ j - 1 \in Nat /\ i - 1 \in Nat /\ i - 1 < width
          /\ width \in Nat \ {0}
      BY <1>2, <2>4, <2>5
    <3>2. k - 1 = (j - 1) * width + (i - 1)
      BY <3>1
    <3>3. (k - 1) \div width = j - 1 /\ (k - 1) % width = i - 1
      <4>1. /\ ((j - 1) * width + (i - 1)) \div width = j - 1
            /\ ((j - 1) * width + (i - 1)) % width = i - 1
        BY <3>1, Product
      <4> QED BY <3>2, <4>1
    <3> HIDE DEF k
    <3> QED BY <3>1, <3>3
  <2> HIDE DEF k
  <2>8. i \in DOMAIN template
    BY <1>1, <2>2
  <2>9. word(k) = paths[j]
    BY <2>2, <2>7, <2>8 DEF word, Expand
  <2>10. k \in DOMAIN all /\ all[k] = paths[j]
    BY <1>4, <2>6, <2>9
  <2> QED BY <2>10 DEF ToSet
<1>8. Holds(template, "{path}") => ToSet(paths) \subseteq ToSet(all)
  BY <1>7 DEF ToSet
<1> QED BY <1>6, <1>8

\* A template without placeholders but its own has, expanded, none but those of
\* the value, and none of the program's words but the value.
LEMMA ExpandedOnly ==
    ASSUME NEW template \in Templates, NEW placeholder, NEW value, Only(template, {placeholder})
    PROVE  ToSet(Expand(template, placeholder, value)) \cap (Placeholders \cup OwnWords)
             \subseteq {value}
<1> SUFFICES ASSUME NEW i \in DOMAIN template
             PROVE  Expand(template, placeholder, value)[i] \in Placeholders \cup OwnWords
                      => Expand(template, placeholder, value)[i] = value
  BY DEF ToSet, Expand
<1>1. Expand(template, placeholder, value)[i]
        = IF template[i] = placeholder THEN value ELSE template[i]
  BY DEF Expand
<1>2. template[i] \in ToSet(template)
  BY DEF ToSet
<1> QED BY <1>1, <1>2 DEF Only

\* Repeated for each path it has none but those of the paths.
LEMMA ExpandedManyOnly ==
    ASSUME NEW template \in Templates, NEW paths \in Templates, Only(template, {"{path}"})
    PROVE  ToSet(ExpandMany(template, paths)) \cap (Placeholders \cup OwnWords) \subseteq ToSet(paths)
<1> DEFINE width == Len(template)
           row(k) == ((k - 1) \div width) + 1
           col(k) == ((k - 1) % width) + 1
<1>1. width \in Nat /\ Len(paths) \in Nat
  BY Words
<1>2. DOMAIN template = 1 .. width /\ DOMAIN paths = 1 .. Len(paths)
  BY Words
<1>3. ASSUME NEW k \in 1 .. width * Len(paths)
      PROVE  ExpandMany(template, paths)[k] \in Placeholders \cup OwnWords
               => ExpandMany(template, paths)[k] \in ToSet(paths)
  <2>1. width # 0
    <3> HIDE DEF width
    <3> QED BY <1>1, Columns
  <2>2. row(k) \in DOMAIN paths /\ col(k) \in DOMAIN template
    BY <1>1, <1>2, <2>1, Grid
  <2>3. ExpandMany(template, paths)[k] = Expand(template, "{path}", paths[row(k)])[col(k)]
    BY DEF ExpandMany
  <2> HIDE DEF row, col
  <2>4. Expand(template, "{path}", paths[row(k)])[col(k)]
          \in Placeholders \cup OwnWords
          => Expand(template, "{path}", paths[row(k)])[col(k)] = paths[row(k)]
    <3> DEFINE filled == Expand(template, "{path}", paths[row(k)])
    <3>1. col(k) \in DOMAIN filled
      BY <2>2 DEF Expand
    <3>2. ToSet(filled) \cap (Placeholders \cup OwnWords) \subseteq {paths[row(k)]}
      BY ExpandedOnly
    <3> HIDE DEF filled
    <3>3. filled[col(k)] \in ToSet(filled)
      BY <3>1 DEF ToSet
    <3> QED BY <3>2, <3>3 DEF filled
  <2>5. paths[row(k)] \in ToSet(paths)
    BY <2>2 DEF ToSet
  <2> QED BY <2>3, <2>4, <2>5
<1>4. DOMAIN ExpandMany(template, paths) = 1 .. width * Len(paths)
  BY DEF ExpandMany
<1> QED BY <1>3, <1>4 DEF ToSet

\* A command line that can be built for an accepted agent holds its parts.
LEMMA CommandHolds ==
    ASSUME NEW agent, NEW request, NEW native, NEW resume \in BOOLEAN,
           AgentAccepted(agent), ~CannotBuild(agent, request, native, resume),
           agent.command \in Templates, agent.input \in InputTables,
           agent.session \in SessionTables \cup {None},
           \A mode \in DOMAIN agent.modes : agent.modes[mode] \in Templates,
           request.files \in Templates, request.images \in Templates,
           native \in STRING \cup {None}
    PROVE  LET command == BuildCommand(agent, request, native, resume)
               given   == ToSet(command.argv)
           IN  /\ command.stdin = PromptWord \/ PromptWord \in given
               /\ ToSet(request.files) \cup ToSet(request.images) \subseteq given
               /\ agent.input.cwd_args # <<>> => Cwd \in given
               /\ resume => native \in given
               /\ ~resume /\ agent.session # None /\ agent.session.id_strategy = "generated"
                    => native \in given
<1> DEFINE input   == agent.input
           mode    == agent.modes[request.permission]
           cwd     == Expand(input.cwd_args, "{cwd}", Cwd)
           session == SessionArgs(agent, native, resume)
           files   == ExpandMany(input.file_args, request.files)
           images  == ExpandMany(input.image_args, request.images)
           prompt  == IF input.mode = "argv"
                      THEN Expand(<<input.prompt_arg>>, "{prompt}", PromptWord) ELSE <<>>
           command == BuildCommand(agent, request, native, resume)
<1>1. mode \in Templates
  BY DEF CannotBuild
<1>2. /\ input.mode \in STRING /\ input.prompt_arg \in STRING
      /\ input.file_args \in Templates /\ input.image_args \in Templates
      /\ input.cwd_args \in Templates
  BY DEF InputTables
<1>3. /\ PromptWord \in STRING /\ Cwd \in STRING /\ None \notin STRING
  BY AgentsAssumption
<1>4. cwd \in Templates /\ (input.cwd_args # <<>> => Cwd \in ToSet(cwd))
  BY <1>2, <1>3, Expanded DEF AgentAccepted, InputAccepted
<1>5. files \in Templates /\ ToSet(request.files) \subseteq ToSet(files)
  <2>1. CASE request.files = <<>>
    <3>1. ToSet(request.files) = {}
      BY <2>1 DEF ToSet
    <3> QED BY <1>2, <3>1, ExpandedMany
  <2>2. CASE request.files # <<>>
    <3>1. Holds(input.file_args, "{path}")
      BY <2>2 DEF CannotBuild, AgentAccepted, InputAccepted
    <3> QED BY <1>2, <3>1, ExpandedMany
  <2> QED BY <2>1, <2>2
<1>6. images \in Templates /\ ToSet(request.images) \subseteq ToSet(images)
  <2>1. CASE request.images = <<>>
    <3>1. ToSet(request.images) = {}
      BY <2>1 DEF ToSet
    <3> QED BY <1>2, <3>1, ExpandedMany
  <2>2. CASE request.images # <<>>
    <3>1. Holds(input.image_args, "{path}")
      BY <2>2 DEF CannotBuild, AgentAccepted, InputAccepted
    <3> QED BY <1>2, <3>1, ExpandedMany
  <2> QED BY <2>1, <2>2
<1>7. /\ session \in Templates
      /\ resume => native \in ToSet(session)
      /\ ~resume /\ agent.session # None /\ agent.session.id_strategy = "generated"
           => native \in ToSet(session)
  <2>1. CASE resume
    <3>1. agent.session # None /\ native \in STRING
      BY <2>1 DEF CannotBuild
    <3>2. agent.session.resume_args \in Templates /\ Holds(agent.session.resume_args, "{session_id}")
      BY <3>1 DEF SessionTables, AgentAccepted, SessionAccepted
    <3>3. session = Expand(agent.session.resume_args, "{session_id}", native)
      BY <2>1 DEF SessionArgs
    <3> QED BY <2>1, <3>1, <3>2, <3>3, Expanded
  <2>2. CASE ~resume /\ agent.session = None
    <3>1. session = <<>>
      BY <2>2 DEF SessionArgs
    <3> QED BY <2>2, <3>1 DEF Templates
  <2>3. CASE ~resume /\ agent.session # None /\ agent.session.id_strategy = "generated"
    <3>1. native \in STRING
      BY <2>3 DEF CannotBuild
    <3>2. agent.session.new_args \in Templates /\ Holds(agent.session.new_args, "{session_id}")
      BY <2>3 DEF SessionTables, AgentAccepted, SessionAccepted
    <3>3. session = Expand(agent.session.new_args, "{session_id}", native)
      BY <2>3 DEF SessionArgs
    <3> QED BY <2>3, <3>1, <3>2, <3>3, Expanded
  <2>4. CASE ~resume /\ agent.session # None /\ agent.session.id_strategy # "generated"
    <3>1. agent.session.new_args \in Templates
      BY <2>4 DEF SessionTables
    <3>2. session = agent.session.new_args
      BY <2>4 DEF SessionArgs
    <3> QED BY <2>4, <3>1, <3>2
  <2> QED BY <2>1, <2>2, <2>3, <2>4
<1>8. prompt \in Templates /\ (input.mode = "argv" => PromptWord \in ToSet(prompt))
  <2>1. CASE input.mode = "argv"
    <3>1. input.prompt_arg = "{prompt}"
      BY <2>1 DEF AgentAccepted, InputAccepted
    <3>2. <<input.prompt_arg>> \in Templates
      BY <1>2 DEF Templates
    <3>3. Holds(<<input.prompt_arg>>, "{prompt}")
      <4> DEFINE words == <<input.prompt_arg>>
      <4>1. Len(words) = 1
        OBVIOUS
      <4>2. words[1] = "{prompt}"
        BY <3>1
      <4> HIDE DEF words
      <4>3. \E i \in 1 .. Len(words) : words[i] = "{prompt}"
        <5>1. 1 \in 1 .. Len(words)
          BY <4>1
        <5> QED BY <4>2, <5>1
      <4> QED BY <4>3 DEF Holds, Contains, words
    <3> QED BY <1>3, <2>1, <3>2, <3>3, Expanded
  <2>2. CASE input.mode # "argv"
    BY <2>2 DEF Templates
  <2> QED BY <2>1, <2>2
<1>9. /\ command.argv = agent.command \o mode \o cwd \o session \o files \o images \o prompt
      /\ command.stdin = IF input.mode = "argv" THEN None ELSE PromptWord
  BY DEF BuildCommand
<1> HIDE DEF input, mode, cwd, session, files, images, prompt, command
<1> DEFINE front == agent.command \o mode \o cwd \o session \o files \o images
<1>10. /\ front \in Templates
       /\ ToSet(front) = ToSet(agent.command) \cup ToSet(mode) \cup ToSet(cwd)
                            \cup ToSet(session) \cup ToSet(files) \cup ToSet(images)
  <2>1. agent.command \in Templates
    OBVIOUS
  <2> DEFINE first == agent.command \o mode \o cwd \o session
  <2>2. /\ first \in Templates
        /\ ToSet(first) = ToSet(agent.command) \cup ToSet(mode) \cup ToSet(cwd) \cup ToSet(session)
    BY <2>1, <1>1, <1>4, <1>7, FourJoined
  <2> HIDE DEF first
  <2>3. /\ first \o files \in Templates
        /\ ToSet(first \o files) = ToSet(first) \cup ToSet(files)
    BY <2>2, <1>5, Joined
  <2>4. /\ first \o files \o images \in Templates
        /\ ToSet(first \o files \o images) = ToSet(first \o files) \cup ToSet(images)
    BY <2>3, <1>6, Joined
  <2> QED BY <2>2, <2>3, <2>4 DEF first
<1>11. ToSet(command.argv) = ToSet(agent.command) \cup ToSet(mode) \cup ToSet(cwd)
         \cup ToSet(session) \cup ToSet(files) \cup ToSet(images) \cup ToSet(prompt)
  BY <1>8, <1>9, <1>10, Joined
<1>12. command.stdin = PromptWord \/ PromptWord \in ToSet(command.argv)
  BY <1>8, <1>9, <1>11
<1>13. ToSet(request.files) \cup ToSet(request.images) \subseteq ToSet(command.argv)
  BY <1>5, <1>6, <1>11
<1>14. input.cwd_args # <<>> => Cwd \in ToSet(command.argv)
  BY <1>4, <1>11
<1>15. /\ resume => native \in ToSet(command.argv)
       /\ ~resume /\ agent.session # None /\ agent.session.id_strategy = "generated"
            => native \in ToSet(command.argv)
  BY <1>7, <1>11
<1> QED BY <1>12, <1>13, <1>14, <1>15 DEF input, command

\* A word behind a sequence, and a word in the place of another.
LEMMA OneMore ==
    ASSUME NEW S, NEW s \in Seq(S), NEW x \in S
    PROVE  /\ DOMAIN (s \o <<x>>) = 1 .. Len(s) + 1
           /\ (s \o <<x>>)[Len(s) + 1] = x
           /\ \A i \in 1 .. Len(s) : (s \o <<x>>)[i] = s[i]
OBVIOUS

LEMMA OneWord ==
    ASSUME NEW S, NEW word \in S, NEW value \in S
    PROVE  Expand(<<word>>, word, value) = <<value>> /\ <<value>> \in Seq(S)
BY DEF Expand

\* Where a word is in a sequence of words.
PlacesOf(word, argv) == {i \in DOMAIN argv : argv[i] = word}

\* A word that is not in a sequence is at one place of the sequence with the
\* word behind it, and at no place of the sequence alone.
LEMMA WordOnce ==
    ASSUME NEW S, NEW front \in Seq(S), NEW word \in S, word \notin ToSet(front),
           NEW argv
    PROVE  /\ argv = front \o <<word>> => Cardinality(PlacesOf(word, argv)) = 1
           /\ argv = front => Cardinality(PlacesOf(word, argv)) = 0
<1> DEFINE size == Len(front)
<1>1. argv = front \o <<word>> =>
         /\ DOMAIN argv = 1 .. size + 1
         /\ argv[size + 1] = word
         /\ \A i \in 1 .. size : argv[i] = front[i]
  BY OneMore
<1>2. size \in Nat /\ DOMAIN front = 1 .. size
  OBVIOUS
<1>3. \A i \in 1 .. size : front[i] # word
  BY <1>2, Zenon DEF ToSet
<1> HIDE DEF size
<1>4. ASSUME argv = front \o <<word>> PROVE Cardinality(PlacesOf(word, argv)) = 1
  <2> DEFINE end == size + 1
  <2>1. DOMAIN argv = 1 .. end /\ argv[end] = word /\ \A i \in 1 .. size : argv[i] = front[i]
    BY <1>1, <1>4
  <2>2. end \in 1 .. end /\ \A i \in 1 .. end : i # end => i \in 1 .. size
    BY <1>2
  <2> HIDE DEF end
  <2>3. PlacesOf(word, argv) = {end}
    BY <1>3, <2>1, <2>2 DEF PlacesOf
  <2> QED BY <2>3, FS_Singleton
<1>5. ASSUME argv = front PROVE Cardinality(PlacesOf(word, argv)) = 0
  <2>1. PlacesOf(word, argv) = {}
    BY <1>2, <1>3, <1>5 DEF PlacesOf
  <2> QED BY <2>1, FS_EmptySet
<1> QED BY <1>4, <1>5

\* The prompt is at one place of a command line, or at none.
LEMMA PromptOnce ==
    ASSUME NEW front \in Templates, PromptWord \notin ToSet(front), PromptWord \in STRING,
           NEW argv
    PROVE  /\ argv = front \o <<PromptWord>> => Cardinality(PlacesOf(PromptWord, argv)) = 1
           /\ argv = front \o <<>> => Cardinality(PlacesOf(PromptWord, argv)) = 0
<1> DEFINE Strings == STRING
<1>1. front \in Seq(Strings) /\ PromptWord \in Strings
  BY DEF Templates
<1>2. front \o <<>> = front
  BY <1>1
<1> HIDE DEF Strings
<1> QED BY <1>1, <1>2, WordOnce

\* A command line of words that tell each other apart has the prompt once, no
\* placeholder, the directory only if a template asks for it, and no other
\* session than the given one.
LEMMA CommandOnly ==
    ASSUME WordsTellApart,
           NEW raw \in Agents, NEW request \in Requests, NEW native, NEW resume \in BOOLEAN,
           AgentAccepted(AgentConfig(raw)),
           ~CannotBuild(AgentConfig(raw), request, native, resume),
           native \in (STRING \ (Placeholders \cup (OwnWords \ {Fresh}))) \cup {None},
           resume => native # Fresh
    PROVE  LET command == BuildCommand(AgentConfig(raw), request, native, resume)
               given   == ToSet(command.argv)
           IN  /\ Cardinality({i \in DOMAIN command.argv : command.argv[i] = PromptWord})
                    + (IF command.stdin = PromptWord THEN 1 ELSE 0) = 1
               /\ resume => Fresh \notin given
               /\ Cwd \in given => AgentConfig(raw).input.cwd_args # <<>>
               /\ given \cap Placeholders = {}
<1> DEFINE agent   == AgentConfig(raw)
           input   == agent.input
           mode    == agent.modes[request.permission]
           cwd     == Expand(input.cwd_args, "{cwd}", Cwd)
           session == SessionArgs(agent, native, resume)
           files   == ExpandMany(input.file_args, request.files)
           images  == ExpandMany(input.image_args, request.images)
           prompt  == IF input.mode = "argv"
                      THEN Expand(<<input.prompt_arg>>, "{prompt}", PromptWord) ELSE <<>>
           command == BuildCommand(agent, request, native, resume)
           Special == Placeholders \cup OwnWords
<1>1. /\ agent.command \in Templates /\ input \in InputTables
      /\ agent.session \in SessionTables \cup {None}
      /\ \A m \in DOMAIN agent.modes : agent.modes[m] \in Templates
      /\ request.files \in Templates /\ request.images \in Templates
      /\ PromptWord \in STRING /\ Cwd \in STRING /\ Fresh \in STRING /\ None \notin STRING
  BY AgentsAssumption
<1>2. /\ PromptWord # Cwd /\ PromptWord # Fresh /\ Cwd # Fresh
      /\ OwnWords \cap Placeholders = {}
      /\ Only(agent.command, {})
      /\ \A m \in DOMAIN agent.modes : Only(agent.modes[m], {})
      /\ Only(input.file_args, {"{path}"}) /\ Only(input.image_args, {"{path}"})
      /\ Only(input.cwd_args, {"{cwd}"})
      /\ agent.session # None => /\ Only(agent.session.new_args, {"{session_id}"})
                                 /\ Only(agent.session.resume_args, {"{session_id}"})
      /\ Only(request.files, {}) /\ Only(request.images, {})
  BY DEF WordsTellApart
<1> HIDE DEF agent
<1>3. /\ input.mode \in STRING /\ input.prompt_arg \in STRING
      /\ input.file_args \in Templates /\ input.image_args \in Templates
      /\ input.cwd_args \in Templates
  BY <1>1 DEF InputTables
<1>4. mode \in Templates /\ ToSet(mode) \cap Special = {}
  BY <1>1, <1>2 DEF CannotBuild, Only, agent
<1>5. /\ cwd \in Templates /\ ToSet(cwd) \cap Special \subseteq {Cwd}
      /\ input.cwd_args = <<>> => ToSet(cwd) = {}
  <2>1. ToSet(cwd) \cap Special \subseteq {Cwd}
    BY <1>2, <1>3, ExpandedOnly
  <2>2. input.cwd_args = <<>> => ToSet(cwd) = {}
    BY DEF Expand, ToSet
  <2> QED BY <1>1, <1>3, <2>1, <2>2, Expanded
<1>6. files \in Templates /\ ToSet(files) \cap Special = {}
  <2>1. ToSet(files) \cap Special \subseteq ToSet(request.files)
    BY <1>1, <1>2, <1>3, ExpandedManyOnly
  <2> QED BY <1>1, <1>2, <1>3, <2>1, ExpandedMany DEF Only
<1>7. images \in Templates /\ ToSet(images) \cap Special = {}
  <2>1. ToSet(images) \cap Special \subseteq ToSet(request.images)
    BY <1>1, <1>2, <1>3, ExpandedManyOnly
  <2> QED BY <1>1, <1>2, <1>3, <2>1, ExpandedMany DEF Only
<1> DEFINE Ours == IF resume THEN {} ELSE {Fresh}
<1>8. /\ session \in Templates
      /\ ToSet(session) \cap Special \subseteq Ours
  <2>0. native \in Special /\ native \in STRING => native \in Ours
    BY <1>1 DEF OwnWords
  <2>1. CASE resume
    <3>1. agent.session # None /\ native \in STRING
      BY <1>1, <2>1 DEF CannotBuild, agent
    <3>2. agent.session.resume_args \in Templates
      BY <1>1, <3>1 DEF SessionTables
    <3>3. session = Expand(agent.session.resume_args, "{session_id}", native)
      BY <2>1 DEF SessionArgs
    <3>4. ToSet(session) \cap Special \subseteq {native}
      BY <1>2, <3>1, <3>2, <3>3, ExpandedOnly
    <3>5. session \in Templates
      BY <3>1, <3>2, <3>3, Expanded
    <3> QED BY <2>0, <3>1, <3>4, <3>5
  <2>2. CASE ~resume /\ agent.session = None
    <3>1. session = <<>>
      BY <2>2 DEF SessionArgs
    <3> QED BY <3>1 DEF Templates, ToSet
  <2>3. CASE ~resume /\ agent.session # None /\ agent.session.id_strategy = "generated"
    <3>1. native \in STRING
      BY <1>1, <2>3 DEF CannotBuild, agent
    <3>2. agent.session.new_args \in Templates
      BY <1>1, <2>3 DEF SessionTables
    <3>3. session = Expand(agent.session.new_args, "{session_id}", native)
      BY <2>3 DEF SessionArgs
    <3>4. ToSet(session) \cap Special \subseteq {native}
      BY <1>2, <2>3, <3>2, <3>3, ExpandedOnly
    <3>5. session \in Templates
      BY <3>1, <3>2, <3>3, Expanded
    <3> QED BY <2>0, <3>1, <3>4, <3>5
  <2>4. CASE ~resume /\ agent.session # None /\ agent.session.id_strategy # "generated"
    <3>1. agent.session.new_args \in Templates
      BY <1>1, <2>4 DEF SessionTables
    <3>2. session = agent.session.new_args
      BY <2>4 DEF SessionArgs
    <3>3. ~Holds(agent.session.new_args, "{session_id}")
      BY <2>4 DEF AgentAccepted, SessionAccepted, agent
    <3>4. "{session_id}" \notin ToSet(agent.session.new_args)
      BY <3>1, <3>3, Words DEF Holds, Contains, ToSet
    <3> QED BY <1>2, <2>4, <3>1, <3>2, <3>4 DEF Only
  <2> QED BY <2>1, <2>2, <2>3, <2>4
<1>9. prompt = IF input.mode = "argv" THEN <<PromptWord>> ELSE <<>>
  <2>1. CASE input.mode = "argv"
    <3>1. input.prompt_arg = "{prompt}"
      BY <2>1 DEF AgentAccepted, InputAccepted, agent
    <3>2. Expand(<<"{prompt}">>, "{prompt}", PromptWord) = <<PromptWord>>
      BY <1>1, <1>3, <3>1, OneWord
    <3> QED BY <2>1, <3>1, <3>2
  <2> QED BY <2>1
<1>10. /\ command.argv = agent.command \o mode \o cwd \o session \o files \o images \o prompt
       /\ command.stdin = IF input.mode = "argv" THEN None ELSE PromptWord
  BY DEF BuildCommand
<1>11. ToSet(agent.command) \cap Special = {}
  BY <1>2 DEF Only
<1> HIDE DEF input, mode, cwd, session, files, images, prompt, command
<1> DEFINE front == agent.command \o mode \o cwd \o session \o files \o images
<1>12. /\ front \in Templates
       /\ ToSet(front) = ToSet(agent.command) \cup ToSet(mode) \cup ToSet(cwd)
                            \cup ToSet(session) \cup ToSet(files) \cup ToSet(images)
  <2>1. agent.command \in Templates
    BY <1>1
  <2> DEFINE first == agent.command \o mode \o cwd \o session
  <2>2. /\ first \in Templates
        /\ ToSet(first) = ToSet(agent.command) \cup ToSet(mode) \cup ToSet(cwd) \cup ToSet(session)
    BY <2>1, <1>4, <1>5, <1>8, FourJoined
  <2> HIDE DEF first
  <2>3. /\ first \o files \in Templates
        /\ ToSet(first \o files) = ToSet(first) \cup ToSet(files)
    BY <2>2, <1>6, Joined
  <2>4. /\ first \o files \o images \in Templates
        /\ ToSet(first \o files \o images) = ToSet(first \o files) \cup ToSet(images)
    BY <2>3, <1>7, Joined
  <2> QED BY <2>2, <2>3, <2>4 DEF first
<1>13. ToSet(front) \cap Special \subseteq {Cwd} \cup Ours
  BY <1>4, <1>5, <1>6, <1>7, <1>8, <1>11, <1>12
<1>14. /\ prompt \in Templates /\ ToSet(prompt) \subseteq {PromptWord}
       /\ command.argv = front \o prompt
       /\ ToSet(command.argv) = ToSet(front) \cup ToSet(prompt)
  <2>1. <<PromptWord>> \in Templates /\ <<>> \in Templates
    BY <1>1, OneWord DEF Templates
  <2>2. ToSet(<<PromptWord>>) = {PromptWord} /\ ToSet(<<>>) = {}
    BY DEF ToSet
  <2>3. prompt \in Templates /\ ToSet(prompt) \subseteq {PromptWord}
    BY <1>9, <2>1, <2>2
  <2>4. command.argv = front \o prompt
    BY <1>10
  <2> HIDE DEF front
  <2> QED BY <1>12, <2>3, <2>4, Joined
<1>15. PromptWord \notin ToSet(front)
  BY <1>2, <1>13 DEF OwnWords
<1> HIDE DEF front
<1>16. Cardinality({i \in DOMAIN command.argv : command.argv[i] = PromptWord})
         + (IF command.stdin = PromptWord THEN 1 ELSE 0) = 1
  <2>1. CASE input.mode = "argv"
    <3>1. Cardinality({i \in DOMAIN command.argv : command.argv[i] = PromptWord}) = 1
      <4>1. command.argv = front \o <<PromptWord>>
        BY <1>9, <1>14, <2>1
      <4> QED BY <1>1, <1>12, <1>15, <4>1, PromptOnce DEF PlacesOf
    <3>2. command.stdin # PromptWord
      BY <1>1, <1>10, <2>1
    <3> QED BY <3>1, <3>2
  <2>2. CASE input.mode # "argv"
    <3>1. Cardinality({i \in DOMAIN command.argv : command.argv[i] = PromptWord}) = 0
      <4>1. command.argv = front \o <<>>
        BY <1>9, <1>14, <2>2
      <4> QED BY <1>1, <1>12, <1>15, <4>1, PromptOnce DEF PlacesOf
    <3>2. command.stdin = PromptWord
      BY <1>10, <2>2
    <3> QED BY <3>1, <3>2
  <2> QED BY <2>1, <2>2
<1>17. resume => Fresh \notin ToSet(command.argv)
  BY <1>2, <1>13, <1>14 DEF OwnWords
<1>18. Cwd \in ToSet(command.argv) => input.cwd_args # <<>>
  <2>1. Cwd \in Special /\ Cwd # PromptWord /\ Cwd \notin Ours
    BY <1>2 DEF OwnWords
  <2>2. /\ Cwd \notin ToSet(agent.command) /\ Cwd \notin ToSet(mode) /\ Cwd \notin ToSet(session)
        /\ Cwd \notin ToSet(files) /\ Cwd \notin ToSet(images) /\ Cwd \notin ToSet(prompt)
    BY <1>4, <1>6, <1>7, <1>8, <1>11, <1>14, <2>1
  <2> QED BY <1>5, <1>12, <1>14, <2>2
<1>19. ToSet(command.argv) \cap Placeholders = {}
  <2>1. Cwd \notin Placeholders /\ Fresh \notin Placeholders /\ PromptWord \notin Placeholders
    BY <1>2 DEF OwnWords
  <2>2. ToSet(front) \cap Placeholders \subseteq {Cwd, Fresh}
    BY <1>13
  <2> QED BY <1>14, <2>1, <2>2
<1> QED BY <1>16, <1>17, <1>18, <1>19 DEF input, command, agent

\* What passes the checks of start_task passes those of build_command too, and
\* its session is the parent's or a new one.
LEMMA WhatIsAdmitted ==
    ASSUME NEW raw \in Agents, NEW request \in Requests, NEW parent \in Parents, NEW ceiling,
           Deliver(raw, request, parent, ceiling).stage
             \notin {"configuration refused", "request refused"}
    PROVE  LET agent  == AgentConfig(raw)
               native == NativeSession(agent, parent)
           IN  /\ AgentAccepted(agent)
               /\ ~CannotBuild(agent, request, native, parent # None)
               /\ parent # None => native = parent.native
               /\ parent = None /\ agent.session # None /\ agent.session.id_strategy = "generated"
                    => native = Fresh
               /\ native \in STRING \cup {None}
               /\ Deliver(raw, request, parent, ceiling)
                    = [stage |-> "delivered", same |-> TRUE,
                       command |-> BuildCommand(agent, request, native, parent # None)]
<1> DEFINE agent  == AgentConfig(raw)
           native == NativeSession(agent, parent)
           way    == Deliver(raw, request, parent, ceiling)
<1>1. AgentConfig(ToDict(agent)) = agent
  BY Parsed
<1> HIDE DEF agent
<1>2. AgentAccepted(agent)
  <2>1. ~AgentAccepted(agent) => way.stage = "configuration refused"
    BY DEF Deliver, agent
  <2> QED BY <2>1
<1>3. ~Refused(agent, request, ceiling) /\ ~CannotContinue(agent, parent)
  <2>1. Refused(agent, request, ceiling) \/ CannotContinue(agent, parent)
          => way.stage = "request refused"
    BY <1>2 DEF Deliver, agent
  <2> QED BY <2>1
<1>4. parent # None => parent.native \in STRING \cup {None}
  BY AgentsAssumption
<1>5. Fresh \in STRING /\ None \notin STRING
  BY AgentsAssumption
<1>6. /\ parent # None => native = parent.native
      /\ parent = None /\ agent.session # None /\ agent.session.id_strategy = "generated"
           => native = Fresh
      /\ native \in STRING \cup {None}
  BY <1>4, <1>5 DEF NativeSession
<1> HIDE DEF native
<1>7. ~CannotBuild(agent, request, native, parent # None)
  BY <1>3, <1>5, <1>6 DEF Refused, CannotContinue, CannotBuild
<1>8. way = [stage |-> "delivered", same |-> TRUE,
             command |-> BuildCommand(agent, request, native, parent # None)]
  BY <1>1, <1>2, <1>3, <1>7 DEF Deliver, agent, native
<1> QED BY <1>2, <1>6, <1>7, <1>8 DEF agent, native

LEMMA DeliveryKept ==
    ASSUME Delegate
    PROVE  NothingMissing'
<1>1. PICK raw \in Agents, request \in Requests, parent \in Parents, ceiling \in ToSet(Permissions) :
        /\ call' = [of |-> "delegate", agent |-> raw, request |-> request, parent |-> parent]
        /\ answer' = Deliver(raw, request, parent, ceiling)
  BY DEF Delegate, Ask
<1> SUFFICES ASSUME answer'.stage \notin {"configuration refused", "request refused"}
             PROVE  NothingMissing'
  BY DEF NothingMissing, Admitted
<1> DEFINE agent   == AgentConfig(raw)
           native  == NativeSession(agent, parent)
           command == BuildCommand(agent, request, native, parent # None)
<1>2. /\ AgentAccepted(agent)
      /\ ~CannotBuild(agent, request, native, parent # None)
      /\ parent # None => native = parent.native
      /\ parent = None /\ agent.session # None /\ agent.session.id_strategy = "generated"
           => native = Fresh
      /\ native \in STRING \cup {None}
      /\ answer' = [stage |-> "delivered", same |-> TRUE, command |-> command]
  BY <1>1, WhatIsAdmitted
<1>3. /\ agent.command \in Templates /\ agent.input \in InputTables
      /\ agent.session \in SessionTables \cup {None}
      /\ \A mode \in DOMAIN agent.modes : agent.modes[mode] \in Templates
      /\ request.files \in Templates /\ request.images \in Templates
  BY AgentsAssumption
<1> HIDE DEF agent, native
<1>4. /\ command.stdin = PromptWord \/ PromptWord \in ToSet(command.argv)
      /\ ToSet(request.files) \cup ToSet(request.images) \subseteq ToSet(command.argv)
      /\ agent.input.cwd_args # <<>> => Cwd \in ToSet(command.argv)
      /\ parent # None => native \in ToSet(command.argv)
      /\ parent = None /\ agent.session # None /\ agent.session.id_strategy = "generated"
           => native \in ToSet(command.argv)
  BY <1>2, <1>3, CommandHolds
<1> HIDE DEF command
<1>5. /\ answer'.stage = "delivered" /\ answer'.same = TRUE /\ answer'.command = command
      /\ call'.agent = raw /\ call'.request = request /\ call'.parent = parent
  BY <1>1, <1>2
<1> QED BY <1>2, <1>4, <1>5 DEF NothingMissing, agent

\* Every request that start_task admits is delivered, whatever its agent is
\* like: nothing that the supervisor checks on its own parse can refuse it, and
\* the worker gets all that was asked for.
THEOREM AdmissionSuffices == ComputeSpec => []NothingMissing
<1>1. Init => NothingMissing
  <2>1. Init => ~Admitted
    BY DEF Init, Admitted
  <2> QED BY <2>1, Zenon DEF NothingMissing
<1>2. NothingMissing /\ [ComputeNext]_vars => NothingMissing'
  <2>1. UNCHANGED vars /\ NothingMissing => NothingMissing'
    <3> SUFFICES ASSUME call' = call, answer' = answer, NothingMissing PROVE NothingMissing'
      BY DEF vars
    <3> QED BY Zenon DEF NothingMissing, Admitted
  <2>2. ReadResult \/ PurgeOlderThan \/ EndTask \/ Check => NothingMissing'
    BY Questions DEF NothingMissing, Admitted
  <2> QED BY <2>1, <2>2, DeliveryKept DEF ComputeNext
<1> QED BY <1>1, <1>2, PTL DEF ComputeSpec

\* A step that delivers a request delivers nothing more than was asked for.
LEMMA NoMoreKept ==
    ASSUME WordsTellApart, Delegate
    PROVE  NothingMore'
<1>1. PICK raw \in Agents, request \in Requests, parent \in Parents, ceiling \in ToSet(Permissions) :
        /\ call' = [of |-> "delegate", agent |-> raw, request |-> request, parent |-> parent]
        /\ answer' = Deliver(raw, request, parent, ceiling)
  BY DEF Delegate, Ask
<1> SUFFICES ASSUME answer'.stage \notin {"configuration refused", "request refused"}
             PROVE  NothingMore'
  BY DEF NothingMore, Admitted
<1> DEFINE agent   == AgentConfig(raw)
           native  == NativeSession(agent, parent)
           resume  == parent # None
           command == BuildCommand(agent, request, native, resume)
<1>2. /\ AgentAccepted(agent)
      /\ ~CannotBuild(agent, request, native, resume)
      /\ parent # None => native = parent.native
      /\ native \in STRING \cup {None}
      /\ answer' = [stage |-> "delivered", same |-> TRUE, command |-> command]
  BY <1>1, WhatIsAdmitted
<1>3. /\ Fresh # PromptWord /\ Fresh # Cwd /\ OwnWords \cap Placeholders = {}
      /\ parent # None => parent.native \notin Placeholders \cup OwnWords
  BY DEF WordsTellApart
<1>4. parent = None => native \in {Fresh, None}
  BY DEF NativeSession
<1>5. /\ native \in (STRING \ (Placeholders \cup (OwnWords \ {Fresh}))) \cup {None}
      /\ resume => native # Fresh
  BY <1>2, <1>3, <1>4 DEF OwnWords
<1> HIDE DEF native, resume
<1>6. /\ Cardinality({i \in DOMAIN command.argv : command.argv[i] = PromptWord})
           + (IF command.stdin = PromptWord THEN 1 ELSE 0) = 1
      /\ resume => Fresh \notin ToSet(command.argv)
      /\ Cwd \in ToSet(command.argv) => agent.input.cwd_args # <<>>
      /\ ToSet(command.argv) \cap Placeholders = {}
  <2>1. resume \in BOOLEAN
    BY DEF resume
  <2> QED BY <1>2, <1>5, <2>1, CommandOnly
<1> HIDE DEF agent, command
<1>7. /\ answer'.command = command
      /\ call'.agent = raw /\ call'.parent = parent
  BY <1>1, <1>2
<1> QED BY <1>6, <1>7 DEF NothingMore, agent, resume

\* When no word of an agent, a request or a session is taken for another, the
\* command line of every admitted request holds what was asked for and nothing
\* else of that kind: the prompt once, on the command line or on the standard
\* input, no session but the given one, and no placeholder.
THEOREM DeliveriesExact ==
    ASSUME WordsTellApart
    PROVE  ComputeSpec => []Delivered
<1>1. Init => NothingMore
  <2>1. Init => ~Admitted
    BY DEF Init, Admitted
  <2> QED BY <2>1, Zenon DEF NothingMore
<1>2. NothingMore /\ [ComputeNext]_vars => NothingMore'
  <2>1. UNCHANGED vars /\ NothingMore => NothingMore'
    <3> SUFFICES ASSUME call' = call, answer' = answer, NothingMore PROVE NothingMore'
      BY DEF vars
    <3> QED BY Zenon DEF NothingMore, Admitted
  <2>2. ReadResult \/ PurgeOlderThan \/ EndTask \/ Check => NothingMore'
    BY Questions DEF NothingMore, Admitted
  <2> QED BY <2>1, <2>2, NoMoreKept DEF ComputeNext
<1>3. NothingMissing /\ NothingMore => Delivered
  BY DEF Delivered
<1> QED BY <1>1, <1>2, <1>3, AdmissionSuffices, PTL DEF ComputeSpec
=============================================================================
