--------------------------- MODULE ProxyHandshake ---------------------------
(***************************************************************************)
(* The negotiation of a tunnel with an upstream proxy: connect_via_proxy,  *)
(* http_connect, socks5_connect and read_socks5_reply (proxy.rs), over a   *)
(* byte stream that arrives in pieces.                                     *)
(*                                                                         *)
(* A byte is its position in the stream: `said` of them have been sent by  *)
(* the proxy, `arrived` can be read, `got` have been read.  Of what they   *)
(* say, the fields the client looks at are kept (reply), and the positions *)
(* at which the stream so far ends in an empty line (blank).  The proxy    *)
(* answers when it is asked, with anything; it may close at any time.      *)
(***************************************************************************)
EXTENDS Naturals

CONSTANTS
  Kinds,       \* the ProxyTypes: "http", "socks5"
  SpeaksFirst, \* those where more may follow the last answer before the client sends
  HeadLens,    \* lengths of an HTTP response head
  NameLens,    \* lengths of a name in a SOCKS5 reply
  DataLens,    \* lengths of a piece of tunnelled data
  ReadSize, HttpLimit, \* the 512 and the 65536 of http_connect
  MaxPieces    \* bound on the pieces of data the far end sends

ASSUME HandshakeAssumption ==
  /\ SpeaksFirst \subseteq Kinds /\ Kinds \subseteq {"http", "socks5"}
  /\ \A n \in HeadLens : n \in Nat /\ n >= 4
  /\ NameLens \subseteq 0..255
  /\ DataLens \subseteq Nat \ {0}
  /\ ReadSize \in Nat \ {0} /\ HttpLimit \in Nat /\ MaxPieces \in Nat

VARIABLES
  cfg,     \* the ProxyConfig and the Target: what matters of them
  pc,      \* where the client is
  asked,   \* the client's message that the proxy has not answered
  reply,   \* the proxy's last message
  granted, \* the proxy has opened the tunnel
  start,   \* the position of the first tunnelled byte
  said, arrived, got, blank, closed, pieces

proxyVars == <<reply, granted, start, said, blank, closed, pieces>>
vars == <<cfg, pc, asked, arrived, got, proxyVars>>

(* Lengths that the builders tell apart. *)
Settings == [kind : Kinds, auth : {"absent", "fits", "long"}, target : {"v4", "v6", "name", "long"}]

(* Messages of the proxy: without an address, with one, with a name. *)
Short(codes) == [version : {4, 5}, code : codes, atyp : {"other"}, len : {0}]
Bound(codes) == [version : {4, 5}, code : codes, atyp : {"v4", "v6", "other"}, len : {0}]
Named(codes) == [version : {4, 5}, code : codes, atyp : {"name"}, len : NameLens]

Codes == {"ok", "refused", "none", "userpass", "garbled"}
Reply == Bound(Codes) \cup Named(Codes)

Reading == {"head", "method", "auth", "reply", "length", "drain"}

(* Nothing is read that has not arrived, and nothing arrives unsent. *)
TypeOK ==
  /\ cfg \in Settings
  /\ pc \in {"connect"} \cup Reading \cup {"open", "failed"}
  /\ asked \in {"nothing", "connect", "greeting", "userpass", "request"}
  /\ reply \in Reply
  /\ granted \in BOOLEAN /\ closed \in BOOLEAN
  /\ start \in Nat /\ said \in Nat /\ arrived \in 0..said /\ got \in 0..arrived
  /\ blank \subseteq 0..said
  /\ pieces \in 0..MaxPieces

Init ==
  /\ cfg \in Settings
  /\ pc = "connect" /\ asked = "nothing"
  /\ reply = [version |-> 5, code |-> "garbled", atyp |-> "other", len |-> 0]
  /\ granted = FALSE /\ closed = FALSE
  /\ start = 0 /\ said = 0 /\ arrived = 0 /\ got = 0
  /\ blank = {} /\ pieces = 0

-----------------------------------------------------------------------------
(* The proxy.  ADDR and PORT of a SOCKS5 reply, with the length of a name. *)
BoundLen(r) ==
  CASE r.atyp = "v4" -> 4 + 2
    [] r.atyp = "v6" -> 16 + 2
    [] r.atyp = "name" -> 1 + r.len + 2
    [] r.atyp = "other" -> 0

Say(r, n) == reply' = r /\ said' = said + n /\ asked' = "nothing"

Answer ==
  /\ ~ closed
  /\ \/ /\ asked = "connect"
        /\ \E r \in Short({"ok", "refused", "garbled"}), n \in HeadLens :
             /\ r.version = 5 /\ Say(r, n) /\ granted' = (r.code = "ok")
             /\ blank' = blank \cup {said + n}
     \/ /\ asked = "greeting"
        /\ \E r \in Short({"none", "userpass", "refused"}) : Say(r, 2)
        /\ UNCHANGED <<blank, granted>>
     \/ /\ asked = "userpass"
        /\ \E r \in Short({"ok", "refused"}) : Say(r, 2)
        /\ UNCHANGED <<blank, granted>>
     \/ /\ asked = "request"
        /\ \E r \in Bound({"ok", "refused"}) \cup Named({"ok", "refused"}) :
             /\ Say(r, 4 + BoundLen(r))
             /\ granted' = (r.code = "ok" /\ r.version = 5)
        /\ UNCHANGED blank
  /\ start' = said'
  /\ UNCHANGED <<cfg, pc, arrived, got, closed, pieces>>

(* The far end sends through the open tunnel, or the head of an HTTP       *)
(* refusal is followed by its body.  Two bytes are enough to make another  *)
(* empty line.                                                             *)
FarEndSpeaks ==
  /\ granted \/ (cfg.kind = "http" /\ reply.code = "refused")
  /\ ~ closed /\ cfg.kind \in SpeaksFirst
  /\ pieces < MaxPieces /\ pieces' = pieces + 1
  /\ \E n \in DataLens :
       /\ said' = said + n
       /\ blank' \in {blank} \cup (IF n >= 2 THEN {blank \cup {said + n}} ELSE {})
  /\ UNCHANGED <<cfg, pc, asked, arrived, got, reply, granted, start, closed>>

Arrive ==
  /\ arrived' \in (arrived + 1)..said
  /\ UNCHANGED <<cfg, pc, asked, got, proxyVars>>

Close ==
  /\ ~ closed /\ closed' = TRUE
  /\ UNCHANGED <<cfg, pc, asked, arrived, got, reply, granted, start, said, blank, pieces>>

-----------------------------------------------------------------------------
(* The client.  Send a message and wait for its answer. *)
Ask(message, l) == asked' = message /\ pc' = l

Finish(l) == pc' = l /\ UNCHANGED asked

(* connect_via_proxy_inner, once connected. *)
Connected ==
  /\ pc = "connect"
  /\ \/ cfg.kind = "http" /\ Ask("connect", "head")
     \/ cfg.kind = "socks5" /\ Ask("greeting", "method")
  /\ UNCHANGED <<cfg, arrived, got, proxyVars>>

MinOf(a, b) == IF a < b THEN a ELSE b

(* Mutant: any complete head will do. *)
ReadHeadAnyStatus ==
  /\ pc = "head" /\ arrived > got
  /\ got' = got + MinOf(ReadSize, arrived - got)
  /\ Finish(IF got' \in blank THEN "open" ELSE "head")
  /\ UNCHANGED <<cfg, arrived, proxyVars>>

(* One turn of the loop of http_connect: what there is, up to ReadSize     *)
(* bytes.  The head is complete when the buffer ENDS in an empty line.     *)
(* parse_http_status then takes the whole buffer for text, which tunnelled *)
(* data in it may not be.                                                  *)
ReadHead ==
  /\ pc = "head" /\ arrived > got
  /\ got' = got + MinOf(ReadSize, arrived - got)
  /\ \/ got' \in blank /\ reply.code = "ok" /\ Finish("open")
     \/ got' \in blank /\ (reply.code # "ok" \/ got' > start) /\ Finish("failed")
     \/ got' \notin blank /\ Finish(IF got' > HttpLimit THEN "failed" ELSE "head")
  /\ UNCHANGED <<cfg, arrived, proxyVars>>

(* read_exact of n bytes. *)
ReadExact(l, n) ==
  /\ pc = l /\ arrived - got >= n
  /\ got' = got + n
  /\ UNCHANGED <<cfg, arrived, proxyVars>>

(* build_socks5_connect_request refuses a name that does not fit ("long"). *)
Request == IF cfg.target = "long" THEN Finish("failed") ELSE Ask("request", "reply")

(* Without both credentials, or with one that does not fit, it is over. *)
UserPass == IF cfg.auth = "fits" THEN Ask("userpass", "auth") ELSE Finish("failed")

ReadMethod ==
  /\ ReadExact("method", 2)
  /\ \/ reply.version # 5 /\ Finish("failed")
     \/ reply.version = 5 /\ reply.code = "none" /\ Request
     \/ reply.version = 5 /\ reply.code = "userpass" /\ UserPass
     \/ reply.version = 5 /\ reply.code = "refused" /\ Finish("failed")

ReadAuth ==
  /\ ReadExact("auth", 2)
  /\ IF reply.code = "ok" THEN Request ELSE Finish("failed")

(* read_socks5_reply: the header, ... *)
ReadReply ==
  /\ ReadExact("reply", 4)
  /\ Finish(IF reply.version # 5 \/ reply.code # "ok" \/ reply.atyp = "other" THEN "failed"
            ELSE IF reply.atyp = "name" THEN "length" ELSE "drain")

(* ... the length of a name, ... *)
ReadLength == ReadExact("length", 1) /\ Finish("drain")

(* Mutants: the byte with the length is counted again, or the port is not. *)
DrainTwice == BoundLen(reply)
DrainNoPort == (IF reply.atyp = "name" THEN reply.len ELSE BoundLen(reply) - 2)

(* ... and the rest. *)
Drain == CASE reply.atyp = "v4" -> 4 + 2
           [] reply.atyp = "v6" -> 16 + 2
           [] reply.atyp = "name" -> reply.len + 2

ReadBound == ReadExact("drain", Drain) /\ Finish("open")

(* The buffer that ReadBound reads into. *)
ScratchSize == 270

(* The proxy has closed, and the bytes that are left are too few. *)
Wanted ==
  CASE pc \in {"head", "length"} -> 1
    [] pc \in {"method", "auth"} -> 2
    [] pc = "reply" -> 4
    [] pc = "drain" -> Drain

Eof ==
  /\ closed /\ pc \in Reading
  /\ arrived = said /\ arrived - got < Wanted
  /\ Finish("failed")
  /\ UNCHANGED <<cfg, arrived, got, proxyVars>>

(* UPSTREAM_CONNECT_TIMEOUT, a connection that is refused or reset. *)
GiveUp ==
  /\ pc \in {"connect"} \cup Reading
  /\ Finish("failed")
  /\ UNCHANGED <<cfg, arrived, got, proxyVars>>

Client ==
  \/ Connected \/ ReadHead \/ ReadMethod \/ ReadAuth \/ ReadReply \/ ReadLength \/ ReadBound \/ Eof

Next == Client \/ GiveUp \/ Answer \/ FarEndSpeaks \/ Arrive \/ Close

Spec == Init /\ [][Next]_vars

(* The client runs, the proxy answers and the network delivers.  The       *)
(* timeout need not expire.                                                *)
FairSpec == Spec /\ WF_vars(Client) /\ WF_vars(Answer) /\ WF_vars(Arrive)

-----------------------------------------------------------------------------
(* The caller relays "bytes transparently" (proxy.rs:6) from where the     *)
(* negotiation ends: when the tunnel is handed over, the client has read   *)
(* all of the proxy's answers and not one byte of what came through it.    *)
TunnelAligned == pc = "open" => got = start

(* A tunnel is handed over only if the proxy opened it: status 200, or     *)
(* reply 0 of version 5, for this request (http_connect, socks5_connect).  *)
OpenMeansGranted == pc = "open" => granted

(* The scratch buffer of read_socks5_reply holds what is drained into it,  *)
(* for every length a proxy can send; a slice beyond it would panic.       *)
DrainFits == pc = "drain" => Drain <= ScratchSize

(* The client never waits for bytes that a proxy that answers does not     *)
(* owe it: the negotiation ends without the help of the timeout.           *)
NegotiationEnds == pc = "connect" ~> pc \in {"open", "failed"}
=============================================================================
