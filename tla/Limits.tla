------------------------------- MODULE Limits -------------------------------
(***************************************************************************)
(* The numbers of the policy and what is computed from them: the check of  *)
(* a policy, the excerpt of a result, and the days a purge keeps.  Bytes,  *)
(* seconds and days are scaled down by the constants.                      *)
(***************************************************************************)
EXTENDS Integers, Sequences, FiniteSetsExt

CONSTANTS
  MarkerLength,  \* bytes of the truncation marker
  MinInline,     \* the least inline_result_bytes a policy may have (1024)
  Day            \* seconds of a day

\* The least excerpt has room for the marker and a byte on either side.
ASSUME LimitsAssumption ==
  /\ MarkerLength \in Nat \ {0} /\ MinInline \in Nat /\ MarkerLength + 1 < MinInline
  /\ Day \in Nat \ {0}

\* A policy as written: a table of numbers.
PolicyAccepted(policy) ==
  /\ policy.default_timeout > 0 /\ policy.max_timeout > 0
  /\ policy.max_concurrency >= 1
  /\ policy.default_timeout <= policy.max_timeout
  /\ policy.retention_days >= 1
  /\ policy.inline_result_bytes >= MinInline
  /\ policy.max_output_bytes >= policy.inline_result_bytes

-----------------------------------------------------------------------------
(* The excerpt of a result.  A file is a text in UTF-8, byte by byte: each  *)
(* is the at-th of the width bytes of a character.                         *)

Byte == [char : Nat, at : 1..4, width : 1..4]

\* The characters of a text are whole.
IsText(bytes) ==
  /\ bytes \in Seq(Byte)
  /\ \A i \in DOMAIN bytes :
       LET start == i - bytes[i].at
       IN  /\ bytes[i].at <= bytes[i].width
           /\ 0 <= start /\ start + bytes[i].width <= Len(bytes)
           /\ \A j \in 1..bytes[i].width : /\ bytes[start + j].at = j
                                          /\ bytes[start + j].width = bytes[i].width

Marker == [i \in 1..MarkerLength |-> [char |-> 0, at |-> 1, width |-> 1]]

\* What decoding with errors="replace" gives for broken bytes: characters of three bytes.
Replacements(n) == [i \in 1..3 * n |-> [char |-> 0, at |-> ((i - 1) % 3) + 1, width |-> 3]]

\* Decoded, what is left of a character that is cut off at the end is one of them,
\* each byte that lacks the start of its character is one.
DecodedHead(file, size) ==
  LET last == file[size]
      left == IF size = 0 \/ last.at = last.width THEN 0 ELSE last.at
  IN  SubSeq(file, 1, size - left) \o Replacements(IF left = 0 THEN 0 ELSE 1)

DecodedTail(file, size) ==
  LET first == file[Len(file) - size + 1]
      strays == IF size = 0 \/ first.at = 1 THEN 0 ELSE first.width - first.at + 1
  IN  Replacements(strays) \o SubSeq(file, Len(file) - size + strays + 1, Len(file))

\* A bug: the tail is as long as the head, an odd byte is lost.
InlineEven(file, limit) ==
  LET half == Max({0, limit - MarkerLength}) \div 2
  IN  IF Len(file) <= limit
      THEN [text |-> file, truncated |-> FALSE]
      ELSE [text |-> DecodedHead(file, half) \o Marker \o DecodedTail(file, half),
            truncated |-> TRUE]

\* The result file, or its head and its tail around the marker.
Inline(file, limit) ==
  LET available == Max({0, limit - MarkerLength})
      head == available \div 2
      tail == available - head
  IN  IF Len(file) <= limit
      THEN [text |-> file, truncated |-> FALSE]
      ELSE [text |-> DecodedHead(file, head) \o Marker \o DecodedTail(file, tail),
            truncated |-> TRUE]

-----------------------------------------------------------------------------
\* A bug: the duration is rounded down.
RetentionFloor(seconds) == Max({1, seconds \div Day})

\* Whole days, rounded up.
Retention(seconds) == Max({1, (seconds + Day - 1) \div Day})

\* A terminal run created age seconds ago is removed.
TooOld(age, days) == age > days * Day
=============================================================================
