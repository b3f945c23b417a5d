----------------------------- MODULE DnsAnswers -----------------------------
(***************************************************************************)
(* parse_dns_answers and parse_name (dns.rs): the loop over the questions  *)
(* and answers of a DNS message, and the loop over the labels of a name    *)
(* with its compression pointers, on any sequence of bytes.                *)
(*                                                                         *)
(* Of the fixed fields of a record the first byte is the type and the last *)
(* the length of the data.  A byte is a number up to Pointer, which stands *)
(* for 0xC0: the mark of a pointer, whose target is the next byte, and     *)
(* never part of UTF-8 text.  Positions count from 0.                      *)
(***************************************************************************)
EXTENDS Naturals, Sequences

CONSTANTS
  Messages,    \* the bytes, and what the header says: [bytes, response, rcode, qdcount, ancount]
  Pointer,     \* 0xC0
  MaxJumps,    \* the 10 of parse_name
  HeaderLen,   \* 12
  QuestionLen, \* QTYPE and QCLASS, 4
  RecordLen,   \* from the type to the length of the data, 10
  LenA,        \* 4
  LenAAAA      \* 16

ASSUME DnsAssumption ==
  /\ MaxJumps \in Nat /\ Pointer \in Nat \ {0}
  /\ HeaderLen \in Nat /\ QuestionLen \in Nat /\ RecordLen \in Nat \ {0, 1}
  /\ \A m \in Messages :
       /\ m.bytes \in Seq(0..Pointer) /\ m.response \in BOOLEAN
       /\ m.rcode \in Nat /\ m.qdcount \in Nat /\ m.ancount \in Nat

VARIABLES
  msg,    \* the message
  stage,  \* what is being parsed: the first "question", "more" of them, "answer"s; then "done"
  left,   \* how many of them are left, this one included
  offset, \* the cursor of parse_dns_answers
  from,   \* where the name that is being parsed begins
  inName, \* inside parse_name
  pos, jumps, jumped, jumpedEnd, name, \* its variables; a label is its position
  qname, out \* the name of the first question; the addresses, by their position

nameVars == <<pos, jumps, jumped, jumpedEnd, name>>
dnsVars == <<msg, stage, left, offset, from, inName, nameVars, qname, out>>

Size(m) == Len(m.bytes)
Byte(m, p) == m.bytes[p + 1]

(* A label at p that lies within the message and is text. *)
LabelAt(m, p) ==
  /\ p + 1 + Byte(m, p) <= Size(m)
  /\ \A q \in (p + 1)..(p + Byte(m, p)) : Byte(m, q) # Pointer

(* The early returns: no header, a query, an error, nothing answered. *)
HasAnswers(m) ==
  Size(m) >= HeaderLen /\ m.response /\ m.rcode = 0 /\ m.ancount # 0

DnsInit ==
  /\ msg \in Messages
  /\ stage = IF HasAnswers(msg) THEN "question" ELSE "done"
  /\ left = 1 /\ offset = HeaderLen /\ from = HeaderLen /\ inName = FALSE
  /\ pos = 0 /\ jumps = 0 /\ jumped = FALSE /\ jumpedEnd = 0 /\ name = <<>>
  /\ qname = <<>> /\ out = <<>>

-----------------------------------------------------------------------------
Stop == stage' = "done" /\ UNCHANGED <<msg, left, offset, from, inName, nameVars, qname, out>>

(* Of the counted loops: the first question is parsed unconditionally, the *)
(* others and the answers only within the message.                         *)
Begin ==
  /\ stage # "done" /\ ~ inName
  /\ IF stage # "question" /\ offset >= Size(msg) THEN Stop
     ELSE /\ inName' = TRUE /\ from' = offset
          /\ pos' = offset /\ jumps' = 0 /\ jumped' = FALSE /\ jumpedEnd' = 0 /\ name' = <<>>
          /\ UNCHANGED <<msg, stage, left, offset, qname, out>>

(* parse_name returns None: both loops end there. *)
Malformed ==
  /\ stage' = "done" /\ inName' = FALSE
  /\ UNCHANGED <<msg, left, offset, from, nameVars, qname, out>>

(* The stage that follows a question or an answer that ends at e. *)
Advance(e) ==
  LET l == IF stage = "question" THEN msg.qdcount ELSE left
      more == IF l > 1 THEN l - 1 ELSE 0
  IN  /\ offset' = e
      /\ IF more > 0
         THEN left' = more /\ stage' = IF stage = "answer" THEN "answer" ELSE "more"
         ELSE IF stage = "answer" THEN left' = 0 /\ stage' = "done"
         ELSE left' = msg.ancount /\ stage' = "answer"

(* After the name of a question, QTYPE and QCLASS. *)
Question(e) ==
  /\ stage \in {"question", "more"}
  /\ qname' = IF stage = "question" THEN name ELSE qname
  /\ IF e + QuestionLen > Size(msg)
     THEN stage' = "done" /\ UNCHANGED <<left, offset>>
     ELSE Advance(e + QuestionLen)
  /\ UNCHANGED out

(* After the name of an answer, the type, the length and the data.  Types  *)
(* 1 and 2 stand for A and AAAA of class IN, the others for the rest.      *)
Record(e) ==
  /\ stage = "answer"
  /\ IF e + RecordLen > Size(msg) \/ e + RecordLen + Byte(msg, e + RecordLen - 1) > Size(msg)
     THEN stage' = "done" /\ UNCHANGED <<left, offset, out>>
     ELSE LET len == Byte(msg, e + RecordLen - 1)
              data == e + RecordLen
          IN  /\ out' = IF (Byte(msg, e) = 1 /\ len = LenA) \/ (Byte(msg, e) = 2 /\ len = LenAAAA)
                        THEN Append(out, data) ELSE out
              /\ Advance(data + len)
  /\ UNCHANGED qname

-----------------------------------------------------------------------------
(* A turn of the loop of parse_name.  The end of the name: the cursor      *)
(* moves past it, or past its first pointer.                               *)
NameEnds ==
  /\ inName /\ pos < Size(msg) /\ Byte(msg, pos) = 0
  /\ inName' = FALSE
  /\ LET e == IF jumped THEN jumpedEnd ELSE pos + 1 IN Question(e) \/ Record(e)
  /\ UNCHANGED <<msg, from, nameVars>>

(* Mutant: every pointer moves the end of the name. *)
JumpAgain ==
  /\ inName /\ pos + 1 < Size(msg) /\ Byte(msg, pos) = Pointer /\ jumps < MaxJumps
  /\ jumpedEnd' = pos + 2
  /\ jumped' = TRUE /\ pos' = Byte(msg, pos + 1) /\ jumps' = jumps + 1
  /\ UNCHANGED <<msg, stage, left, offset, from, inName, name, qname, out>>

(* Mutant: no guard against pointer loops. *)
JumpForever ==
  /\ inName /\ pos + 1 < Size(msg) /\ Byte(msg, pos) = Pointer
  /\ jumpedEnd' = IF jumped THEN jumpedEnd ELSE pos + 2
  /\ jumped' = TRUE /\ pos' = Byte(msg, pos + 1) /\ UNCHANGED jumps
  /\ UNCHANGED <<msg, stage, left, offset, from, inName, name, qname, out>>

(* A pointer; the first one ends the name where it stands. *)
Jump ==
  /\ inName /\ pos + 1 < Size(msg) /\ Byte(msg, pos) = Pointer /\ jumps < MaxJumps
  /\ jumpedEnd' = IF jumped THEN jumpedEnd ELSE pos + 2
  /\ jumped' = TRUE /\ pos' = Byte(msg, pos + 1) /\ jumps' = jumps + 1
  /\ UNCHANGED <<msg, stage, left, offset, from, inName, name, qname, out>>

(* A label. *)
Label ==
  /\ inName /\ pos < Size(msg) /\ Byte(msg, pos) \notin {0, Pointer}
  /\ LabelAt(msg, pos)
  /\ name' = Append(name, pos)
  /\ pos' = pos + 1 + Byte(msg, pos)
  /\ UNCHANGED <<msg, stage, left, offset, from, inName, jumps, jumped, jumpedEnd, qname, out>>

(* The name leaves the message or is not text, or it has too many pointers. *)
NameFails ==
  /\ inName
  /\ \/ pos >= Size(msg)
     \/ /\ pos < Size(msg) /\ Byte(msg, pos) = Pointer
        /\ pos + 1 >= Size(msg) \/ jumps >= MaxJumps
     \/ pos < Size(msg) /\ Byte(msg, pos) \notin {0, Pointer} /\ ~ LabelAt(msg, pos)
  /\ Malformed

DnsNext == Begin \/ NameEnds \/ Jump \/ Label \/ NameFails

(* The parser runs to its end. *)
DnsSpec == DnsInit /\ [][DnsNext]_dnsVars /\ WF_dnsVars(DnsNext)

-----------------------------------------------------------------------------
(* What a message says, without a cursor.  A name at p, read with at most  *)
(* j pointers: whether it resolves, its labels, and where it ends in the   *)
(* record, which is after its 0 or its first pointer.                      *)
Unreadable == [ok |-> FALSE, labels |-> <<>>, end |-> 0]

Name(m) ==
  LET Read[at \in (0..MaxJumps) \X Nat] ==
        LET j == at[1]
            p == at[2]
        IN  IF p >= Size(m) THEN Unreadable
            ELSE IF Byte(m, p) = 0 THEN [ok |-> TRUE, labels |-> <<>>, end |-> p + 1]
            ELSE IF Byte(m, p) = Pointer
            THEN IF p + 1 >= Size(m) \/ j = 0 THEN Unreadable
                 ELSE [Read[<<j - 1, Byte(m, p + 1)>>] EXCEPT !.end = p + 2]
            ELSE IF ~ LabelAt(m, p) THEN Unreadable
            ELSE LET rest == Read[<<j, p + 1 + Byte(m, p)>>]
                 IN  [rest EXCEPT !.labels = <<p>> \o @]
  IN  Read

NameAt(m, p) == Name(m)[<<MaxJumps, p>>]
EndOf(m, p) == NameAt(m, p).end

(* A question, and a record, that is complete. *)
IsQuestion(m, p) == NameAt(m, p).ok /\ EndOf(m, p) + QuestionLen <= Size(m)
IsRecord(m, p) ==
  /\ NameAt(m, p).ok /\ EndOf(m, p) + RecordLen <= Size(m)
  /\ EndOf(m, p) + RecordLen + Byte(m, EndOf(m, p) + RecordLen - 1) <= Size(m)

(* The data of a record, if it is an address; where the next one begins.   *)
AddressOf(m, p) ==
  LET e == EndOf(m, p)
  IN  IF <<Byte(m, e), Byte(m, e + RecordLen - 1)>> \in {<<1, LenA>>, <<2, LenAAAA>>}
      THEN <<e + RecordLen>> ELSE <<>>
AfterRecord(m, p) == EndOf(m, p) + RecordLen + Byte(m, EndOf(m, p) + RecordLen - 1)

(* The addresses in the first k of the records from p on, as far as they   *)
(* are complete; and the same after k questions.                           *)
Addresses(m) ==
  LET Read[at \in Nat \X Nat] ==
        IF at[1] = 0 \/ ~ IsRecord(m, at[2]) THEN <<>>
        ELSE AddressOf(m, at[2]) \o Read[<<at[1] - 1, AfterRecord(m, at[2])>>]
  IN  Read

AnswersAfter(m) ==
  LET Read[at \in Nat \X Nat] ==
        IF at[1] = 0 THEN Addresses(m)[<<m.ancount, at[2]>>]
        ELSE IF IsQuestion(m, at[2]) THEN Read[<<at[1] - 1, EndOf(m, at[2]) + QuestionLen>>]
        ELSE <<>>
  IN  Read

(* The first question is read even if there is none. *)
Questions(m) == IF m.qdcount = 0 THEN 1 ELSE m.qdcount

(* The addresses of a message; a query, or an error, answers nothing. *)
AnswersOf(m) ==
  IF m.response /\ m.rcode = 0 THEN AnswersAfter(m)[<<Questions(m), HeaderLen>>] ELSE <<>>

(* parse_dns_answers returns the addresses of the complete A and AAAA      *)
(* records, up to the first that is not, under the name of the first       *)
(* question, and nothing for "non-response messages" (dns.rs:108);         *)
(* it "handles name compression pointers", however they chain, wherever    *)
(* they point.                                                             *)
AnswersCorrect ==
  stage = "done" =>
    /\ out = AnswersOf(msg)
    /\ out # <<>> => qname = NameAt(msg, HeaderLen).labels

(* All records of the answer section are complete. *)
Complete(m) ==
  LET Read[at \in Nat \X Nat] ==
        at[1] = 0 \/ (IsRecord(m, at[2]) /\ Read[<<at[1] - 1, AfterRecord(m, at[2])>>])
  IN  Read

(* "Returns an empty vec for malformed / non-response messages"            *)
(* (dns.rs:108), here for one question.  Not so: see PartialAnswers.cfg.   *)
MalformedIsEmpty ==
  stage = "done" /\ msg.qdcount = 1 /\ out # <<>> =>
    Complete(msg)[<<msg.ancount, EndOf(msg, HeaderLen) + QuestionLen>>]

(* Whatever the bytes are, the parser stops: the "pointer loop guard" of   *)
(* parse_name, and labels that only lead forward.                          *)
ParserStops == <>(stage = "done")
=============================================================================
