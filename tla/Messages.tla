------------------------------ MODULE Messages ------------------------------
(***************************************************************************)
(* The wire format both DNS servers share (dns/message.cpp): where a name, *)
(* a question and a record end, what datagram a client can take, and how a *)
(* reply is cut to it.                                                     *)
(*                                                                         *)
(* A message is the sequence of its octets, a name the sequence of its     *)
(* characters' codes.  An offset counts from 0, as in the code.            *)
(***************************************************************************)
EXTENDS Naturals, Sequences, SequencesExt

CONSTANTS
  kMinUdpPayload,  \* what a client that asks for nothing can take
  kMaxUdpPayload,  \* the most the forwarder sends, whatever was asked
  kMaxNameChars    \* the longest name, dotted

HeaderLength == 12
kTypeA == 1
kTypeOpt == 41
kTypeAaaa == 28
kTypeSvcb == 64
kTypeHttps == 65
kClassIn == 1
kRcodeNoError == 0
kRcodeServFail == 2
kRcodeNxDomain == 3
Dot == 46

Octet(m, off) == m[off + 1]
Read16(m, off) == 256 * Octet(m, off) + Octet(m, off + 1)
Put16(x) == <<(x \div 256) % 256, x % 256>>
Put32(x) == Put16(x \div 65536) \o Put16(x % 65536)
Over(m, off, octets) ==
  SubSeq(m, 1, off) \o octets \o SubSeq(m, off + Len(octets) + 1, Len(m))
AsciiLower(c) == IF c \in 65..90 THEN c + 32 ELSE c

(***************************************************************************)
(* Names.  A walk has a place, has or has not left the name by a pointer,  *)
(* and makes no more hops than there are octets.  A question's name is     *)
(* read, and may not be compressed; a record's is only stepped over.       *)
(***************************************************************************)
Started(off) == [is |-> "walking", pos |-> off, left |-> FALSE, name |-> <<>>]
Refused(w) == [w EXCEPT !.is = "refused"]
Ended(w, off) == [w EXCEPT !.is = "ended", !.pos = off]

\* The name ends at its root label, or, once left by a pointer, behind the two
\* octets it starts with.
AtRoot(w, start) == Ended(w, IF w.left THEN start + 2 ELSE w.pos + 1)

Pointed(m, w, follow) ==
  LET target == (Octet(m, w.pos) % 64) * 256 + Octet(m, w.pos + 1) IN
  IF follow /\ w.pos + 1 < Len(m) /\ target < w.pos
  THEN [w EXCEPT !.left = TRUE, !.pos = target]
  ELSE Refused(w)

Labelled(m, w, follow) ==
  LET next == w.pos + 1 + Octet(m, w.pos)
      label == [i \in 1..Octet(m, w.pos) |-> AsciiLower(Octet(m, w.pos + i))]
      name == IF w.name = <<>> THEN label ELSE w.name \o <<Dot>> \o label
  IN  CASE next > Len(m) -> Refused(w)
        [] next <= Len(m) /\ follow -> [w EXCEPT !.pos = next]
        [] OTHER -> IF Len(name) > kMaxNameChars THEN Refused(w)
                    ELSE [w EXCEPT !.pos = next, !.name = name]

Hop(m, start, follow, w) ==
  IF w.pos >= Len(m) THEN Refused(w)
  ELSE CASE Octet(m, w.pos) = 0 -> AtRoot(w, start)
         [] Octet(m, w.pos) >= 192 -> Pointed(m, w, follow)
         [] Octet(m, w.pos) \in 64..191 -> Refused(w)
         [] OTHER -> Labelled(m, w, follow)

Walks(m) ==
  [is : {"walking", "refused", "ended"}, pos : Nat, left : BOOLEAN, name : Seq(Nat)]
Hops(m) == Len(m) + 1
WalkName(m, start, follow) ==
  LET walk[hops \in 0..Hops(m), w \in Walks(m)] ==
        CASE w.is # "walking" -> w
          [] w.is = "walking" /\ hops = 0 -> Refused(w)
          [] OTHER -> walk[hops - 1, Hop(m, start, follow, w)]
  IN walk[Hops(m), Started(start)]
SkipName(m, off) == WalkName(m, off, TRUE)

(***************************************************************************)
(* The question, and the records behind it.                                *)
(***************************************************************************)
NoQuestion == [questionEnd |-> 0]
ParseQuery(m) ==
  IF Len(m) < HeaderLength THEN NoQuestion
  ELSE LET w == WalkName(m, HeaderLength, FALSE) IN
       IF Read16(m, 4) < 1 \/ w.is = "refused" \/ w.pos + 4 > Len(m) THEN NoQuestion
       ELSE [flags |-> Read16(m, 2), name |-> w.name, qtype |-> Read16(m, w.pos),
             qclass |-> Read16(m, w.pos + 2), questionEnd |-> w.pos + 4]

\* Where a question or a record ends whose name was walked: 0 is nowhere.
QuestionBehind(m, w) == IF w.is = "refused" \/ w.pos + 4 > Len(m) THEN 0 ELSE w.pos + 4
RecordBehind(m, w) ==
  IF w.is = "refused" \/ w.pos + 10 > Len(m) THEN 0
  ELSE LET next == w.pos + 10 + Read16(m, w.pos + 8) IN IF next > Len(m) THEN 0 ELSE next
Behind(m, what, w) == IF what = "question" THEN QuestionBehind(m, w) ELSE RecordBehind(m, w)

\* The end behind `first', and those of the n that follow.
Ends(m, what, first, n) ==
  LET behind[off \in 0..Len(m)] == IF off = 0 THEN 0 ELSE Behind(m, what, SkipName(m, off))
      end[i \in 0..n] == IF i = 0 THEN first ELSE behind[end[i - 1]]
  IN  [i \in 1..n + 1 |-> end[i - 1]]
AfterQuestions(m) == Last(Ends(m, "question", HeaderLength, Read16(m, 4)))

\* The ends of the records that can be walked, in order.
Declared(m) == <<Read16(m, 6), Read16(m, 8), Read16(m, 10)>>
WalkRecords(m) ==
  LET n == Read16(m, 6) + Read16(m, 8) + Read16(m, 10)
  IN  Tail(Ends(m, "record", AfterQuestions(m), n))

(***************************************************************************)
(* What a client can take: the size in its first OPT record.               *)
(***************************************************************************)
Larger(a, b) == IF a > b THEN a ELSE b
Smaller(a, b) == IF a < b THEN a ELSE b

QueryUdpPayloadSize(m) ==
  LET ends == Ends(m, "record", AfterQuestions(m), Read16(m, 10))
      opts == {i \in 1..Len(ends) - 1 :
                 /\ ends[i] # 0
                 /\ LET w == SkipName(m, ends[i]) IN
                    w.is = "ended" /\ w.pos + 10 <= Len(m) /\ Read16(m, w.pos) = kTypeOpt}
      first == CHOOSE i \in opts : \A j \in opts : i <= j
      fixed == SkipName(m, ends[first]).pos
  IN  CASE Len(m) < HeaderLength -> kMinUdpPayload
        [] OTHER -> IF Octet(m, 2) >= 128 \/ opts = {} THEN kMinUdpPayload
                    ELSE IF Read16(m, fixed + 8) # 0 THEN kMinUdpPayload
                    ELSE Larger(Read16(m, fixed + 2), kMinUdpPayload)

NegotiateUdpPayload(m) == Smaller(QueryUdpPayloadSize(m), kMaxUdpPayload)

(***************************************************************************)
(* Cutting a reply to a budget, between two records, with the counts of    *)
(* what is left and TC set.                                                *)
(***************************************************************************)
WithTruncated(octet) == IF (octet \div 2) % 2 = 1 THEN octet ELSE octet + 2

\* How many of the first n records each section has.
SharesFirst(declared, n) == <<n, 0, 0>>
Shares(declared, n) ==
  LET an == Smaller(n, declared[1])
      ns == Smaller(n - an, declared[2])
  IN  <<an, ns, n - an - ns>>

CutAt(m, keep) ==
  LET kept == Shares(Declared(m), Len(SelectSeq(WalkRecords(m), LAMBDA e : e \in 1..keep)))
  IN  Over(Over(SubSeq(m, 1, keep), 6, Put16(kept[1]) \o Put16(kept[2]) \o Put16(kept[3])),
           2, <<WithTruncated(Octet(m, 2))>>)

ApplyUdpBudget(query, response, budget) ==
  LET end == ParseQuery(query).questionEnd
      fitting == SelectSeq(WalkRecords(response), LAMBDA e : e \in 1..budget)
      keep == Last(<<end>> \o fitting)
  IN  CASE end = 0 \/ end > Len(response) \/ end > budget ->
             [budget |-> "CannotFit", response |-> response]
        [] OTHER -> IF Len(response) <= budget
                    THEN [budget |-> "Fits", response |-> response]
                    ELSE [budget |-> "Truncated", response |-> CutAt(response, keep)]

(***************************************************************************)
(* A reply that starts from the query: its header and question, with the   *)
(* flags of an answer and no records.                                      *)
(***************************************************************************)
BuildResponseHeader(query, end, rcode) ==
  Over(SubSeq(query, 1, end), 2, <<129, 128 + rcode>> \o SubSeq(query, 5, 6) \o [i \in 1..6 |-> 0])
BuildStatusResponse(query, end, rcode) == BuildResponseHeader(query, end, rcode)
=============================================================================
