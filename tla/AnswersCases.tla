---------------------------- MODULE AnswersCases ----------------------------
(***************************************************************************)
(* Exchanges for Answers: rule files with both kinds of domain, both       *)
(* families, blocks and lines that are refused; names at, above, below and *)
(* beside a rule's; and replies of up to three records around the sizes    *)
(* two clients have room for.                                              *)
(***************************************************************************)
EXTENDS Naturals, Sequences

a == <<97>>
A == <<65>>
b == <<98>>
ba == <<98, 97>>
\* ".a", "a", ".B.a", "b.a.", "..", "!a", "a..b".
MCFiles ==
  LET Line(action, tokens) == [action |-> action, tokens |-> tokens] IN
  {<<>>,
   <<Line("v4", <<<<46, 97>>>>), Line("nx", <<a>>)>>,
   <<Line("none", <<a>>), Line("v6", <<a, <<46, 46>>, <<46, 66, 46, 97>>>>)>>,
   <<Line("nx", <<<<98, 46, 97, 46>>>>), Line("v4", <<a, <<33, 97>>>>), Line("bad", <<a>>)>>,
   <<Line("v4", <<<<97, 46, 46, 98>>>>), Line("nx", <<<<46, 97, 46, 98>>>>)>>}

Asks(labels, qtype, qclass, flags, opts) ==
  [labels |-> labels, qtype |-> qtype, qclass |-> qclass, flags |-> flags, opts |-> opts]
Names == {<<>>, <<a>>, <<A>>, <<b, a>>, <<ba>>, <<b, A>>, <<a, b>>, <<a, b, a>>}
Lookups ==
  {Asks(labels, qtype, 1, 256, <<>>) : labels \in Names, qtype \in {1, 15, 28, 64, 65}}
  \cup {Asks(<<A>>, 1, qclass, flags, <<>>) : qclass \in {1, 3}, flags \in {256, 10496, 33024}}
  \cup {Asks([i \in 1..16 |-> ba], 1, 1, 256, <<>>)}
Clients ==
  {Asks(<<b, a>>, 15, 1, 256, opts) : opts \in {<<>>, <<20>>, <<70>>, <<200>>, <<70, 200>>}}
  \cup {Asks([i \in 1..19 |-> a], 15, 1, 256, <<>>)}

Replies ==
  LET Is(name, size) == [name |-> name, size |-> size, ttl |-> 5]
      records == {Is("whole", 0), Is("pointer", 6), Is("partly", 6)}
      R(s1, s2, s3) == [sections |-> <<s1, s2, s3>>, truncated |-> FALSE]
      p == Is("pointer", 9)
      big == Is("pointer", 200)
  IN  {R(<<x>>, <<y>>, <<z>>) : x, y, z \in records}
      \cup {R(<<p, x>>, <<>>, <<y>>) : x, y \in records}
      \cup {R(<<>>, <<p, p>>, <<p>>), R(<<>>, <<>>, <<>>), R(<<big>>, <<p>>, <<>>),
            R(<<p, p, p, p>>, <<>>, <<big>>), [R(<<p>>, <<>>, <<>>) EXCEPT !.truncated = TRUE]}
MCRepliesTo(e) == IF e.asked \in Clients THEN Replies ELSE {}

MCExchanges ==
  [server : {"resolver"}, file : MCFiles, asked : Lookups]
  \cup [server : {"resolver", "proxy"}, file : {<<>>}, asked : Clients]
=============================================================================
