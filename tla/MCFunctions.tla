----------------------------- MODULE MCFunctions -----------------------------
(***************************************************************************)
(* Questions to the pure parts of the engine: what a token of a host or    *)
(* port list matches (AddressPatterns), what a process list matches        *)
(* (TokenLists), and what a kernel reads from the bytes it is handed       *)
(* (Encodings).  A behaviour asks one question and answers it.             *)
(***************************************************************************)
EXTENDS AddressPatterns, TokenLists

CONSTANTS MaxList, MaxName

ASSUME ListAssumption == MaxList \in Nat /\ MaxName \in Nat

Texts(symbols, max) == UNION {[1..k -> symbols] : k \in 0..max}

Lists == Texts({Letter, Wide, Suffix, "*", "?", AnyWord, Separator, Blank}, MaxList)
Names == Texts({Letter, Wide, Suffix}, MaxName) \ {<<>>}

Encoded ==
  [kind : {"sockaddr4", "sockaddr6", "inet4", "inet6"}, octets : V4] \cup
  [kind : {"unicast4", "unicast6"}, index : 0..(Word - 1)] \cup
  [kind : {"netmask"}, prefix : 0..Width]

InitFunctions ==
  /\ answer = "pending"
  /\ \/ Init
     \/ /\ pattern \in [kind : {"process"}, list : Lists]
        /\ dest \in [family : {"name"}, addr : Names]
     \/ /\ pattern \in [kind : {"row"}, octets : V4, port : 0..(HalfWord - 1)]
        /\ dest \in [family : {"endpoint"}, addr : V4, port : 0..(HalfWord - 1)]
     \/ pattern \in Encoded /\ dest = [family |-> "kernel"]

ReadsBack(p) ==
  CASE p.kind = "sockaddr4" -> SinAddr(V4Sockaddr(p.octets)) = p.octets
    [] p.kind = "sockaddr6" -> Sin6Addr(V6Sockaddr(p.octets)) = p.octets
    [] p.kind = "inet4"     -> SinAddr(SockaddrInet(p.octets, FALSE)) = p.octets
    [] p.kind = "inet6"     -> Sin6Addr(SockaddrInet(p.octets, TRUE)) = p.octets
    [] p.kind = "unicast4"  -> UnicastIfRead(ToLe(UnicastIfValue(p.index, FALSE), 4), FALSE) = p.index
    [] p.kind = "unicast6"  -> UnicastIfRead(ToLe(UnicastIfValue(p.index, TRUE), 4), TRUE) = p.index
    [] p.kind = "netmask"   -> Netmask(p.prefix, Width) = [i \in 1..Width |-> IF i <= p.prefix THEN 1 ELSE 0]

AnswerOther ==
  /\ answer = "pending"
  /\ answer' =
       CASE dest.family = "name" ->
              IF Panics(pattern.list, dest.addr) THEN "panic"
              ELSE IF MatchesProcess(pattern.list, dest.addr) THEN "match" ELSE "other"
         [] dest.family = "endpoint" ->
              IF RowMatches(pattern, dest.addr, dest.port) THEN "match" ELSE "other"
         [] dest.family = "kernel" -> IF ReadsBack(pattern) THEN "match" ELSE "other"
  /\ UNCHANGED <<pattern, dest>>

NextFunctions ==
  \/ dest.family \in {"v4", "v6", "port"} /\ Answer
  \/ dest.family \in {"name", "endpoint", "kernel"} /\ AnswerOther

SpecFunctions == InitFunctions /\ [][NextFunctions]_vars

-----------------------------------------------------------------------------
(* A list of one token, which is not the word for everything. *)
OneToken(list) ==
  list # <<>> /\ list # <<AnyWord>> /\ \A i \in DOMAIN list : list[i] \notin {Separator, Blank}

(* "rules are typically written against Windows names but run against      *)
(* whatever the platform resolves" (rule.rs:285-287): a `.exe` at the end  *)
(* of the token, of the name, of both or of neither gives one answer,      *)
(* where there is one: a slice inside a character panics (StripReturns).   *)
ExeImmaterial ==
  Asked("process") /\ answer # "panic" /\ OneToken(pattern.list) =>
    LET Bare(text) == IF HasExe(text) THEN WithoutExe(text) ELSE text
        token == Bare(pattern.list)
        name  == Bare(dest.addr)
        once  == /\ token # <<>> /\ token # <<AnyWord>> /\ name # <<>>
                 /\ Bare(token) = token /\ Bare(name) = name
    IN  once /\ ~ Panics(token, name) => (Yes <=> MatchesProcess(token, name))

(* A row of a Windows owner table is taken for an endpoint when it is the  *)
(* row of that endpoint, and for no other, although the port lies in the   *)
(* low half of a word in network order (windows/process.rs:28-40).         *)
RowIsEndpoint ==
  Asked("row") => (Yes <=> pattern.octets = dest.addr /\ pattern.port = dest.port)

(* Each kernel reads from the bytes of an option or of a sockaddr what the *)
(* code meant by them (windows/dial.rs:27-33, windows/netcfg.rs:61-90,     *)
(* macos/netcfg.rs:371-401), and a netmask has the ones of its prefix. The *)
(* IPv4 sockaddr of macOS is left out (SockaddrV4Reads).                   *)
KernelReadsBack ==
  \A k \in {"sockaddr6", "inet4", "inet6", "unicast4", "unicast6", "netmask"} : Asked(k) => Yes

-----------------------------------------------------------------------------
(* "The address sits in the first four bytes of `sa_data`, the position of *)
(* `sin_addr` inside `sockaddr_in`" (macos/netcfg.rs:362-363).             *)
SockaddrV4Reads == Asked("sockaddr4") => Yes

(* "Strip a trailing `.exe` (case-insensitively) from a process name or    *)
(* rule token" (rule.rs:350-352): it returns, whatever the name.           *)
StripReturns == answer # "panic"
=============================================================================
