---------------------------- MODULE MCDnsAnswers ----------------------------
(* Instances of DnsAnswers for TLC: every short message, and messages with *)
(* one or two questions and up to two answers whose names are plain, point *)
(* back, forward, at each other, or nowhere; and queries and errors.       *)
EXTENDS DnsAnswers

Bytes == 0..3

(* Responses without an error code. *)
Responses(bytes, questions, answers) ==
  [bytes : bytes, response : {TRUE}, rcode : {0}, qdcount : questions, ancount : answers]

Short == Responses(UNION {[1..n -> Bytes] : n \in 0..5}, 0..2, 0..2)

(* Names: the root, a label, pointers to each of the first positions. *)
Names == {<<0>>, <<1, 2, 0>>, <<1, 3, 0>>, <<2, 1, 1, 0>>, <<1, 1, 3, 1>>} \cup {<<3, t>> : t \in Bytes}

QuestionTexts == {n \o <<1>> : n \in Names}
RecordTexts ==
  {n \o <<1, 1, 3>> : n \in Names} \cup {n \o <<2, 2, 0, 3>> : n \in Names}
    \cup {n \o r : n \in {<<0>>, <<3, 1>>}, r \in {<<1, 2, 0, 0>>, <<2, 1, 0>>, <<0, 3, 0>>}}

Structured ==
  Responses({<<h>> \o q \o r : h \in {0, 3}, q \in QuestionTexts, r \in RecordTexts}, 0..2, 1..2)
    \cup
  Responses({<<0>> \o q \o r \o s : q \in QuestionTexts, r \in RecordTexts, s \in RecordTexts}, {1}, {2})
    \cup
  Responses({<<0>> \o p \o q \o r : p \in QuestionTexts, q \in QuestionTexts, r \in RecordTexts}, {2}, {1})

(* Complete answers, under headers of every kind. *)
Headers ==
  [bytes : {<<0>> \o q \o r : q \in QuestionTexts, r \in RecordTexts},
   response : BOOLEAN, rcode : 0..1, qdcount : {1}, ancount : 0..1]

MCMessages == Short \cup Structured \cup Headers
=============================================================================
