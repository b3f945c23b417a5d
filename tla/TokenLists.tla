----------------------------- MODULE TokenLists -----------------------------
(***************************************************************************)
(* Process lists of rules: their text, the normalisation of `.exe` and the *)
(* globs (rule.rs:281-377).                                                *)
(*                                                                         *)
(* A text is a sequence of symbols, in lower case: letters of one and of   *)
(* three UTF-8 bytes, the suffix, `*`, `?`, the word ANY, a separator and  *)
(* a blank.                                                                *)
(***************************************************************************)
EXTENDS Naturals, Sequences, FiniteSetsExt

Blank == " "
Separator == ";"
Suffix == ".exe"
Letter == "a"
Wide == "w"
AnyWord == "ANY"

Width8(symbol) ==
  CASE symbol = Wide    -> 3
    [] symbol = Suffix  -> 4
    [] symbol = AnyWord -> 3
    [] OTHER            -> 1

(* The bytes in the first symbols of a text, and in all of them. *)
Offsets(text) ==
  LET n[k \in 0..Len(text)] == IF k = 0 THEN 0 ELSE n[k - 1] + Width8(text[k])
  IN  n
Bytes(text) == Offsets(text)[Len(text)]

(* str::trim *)
Trim(text) ==
  LET ink == {i \in DOMAIN text : text[i] # Blank}
  IN  IF ink = {} THEN <<>> ELSE SubSeq(text, Min(ink), Max(ink))

IsMatchAll(list) == Trim(list) \in {<<>>, <<"*">>, <<AnyWord>>}

(* The pieces between separators, trimmed, without the empty ones. *)
SplitList(list) ==
  LET Ends == {0, Len(list) + 1} \cup {i \in DOMAIN list : list[i] = Separator}
      Next(i) == Min({j \in Ends : j > i})
  IN  {Trim(SubSeq(list, i + 1, Next(i) - 1)) : i \in Ends \ {Len(list) + 1}} \ {<<>>}

(* The slice of the last four bytes panics where it would cut a character  *)
(* in two. The characters of ".exe" and of the word for everything are one *)
(* byte each: only a wide one can be cut.                                  *)
Panic == <<"panic">>

CutsCharacter(text, cut) ==
  \E i \in DOMAIN text :
    /\ text[i] = Wide
    /\ Offsets(text)[i - 1] < cut /\ cut < Offsets(text)[i]

HasExe(text) == text[Len(text)] = Suffix
WithoutExe(text) == SubSeq(text, 1, Len(text) - 1)

StripExeSuffix(token) ==
  IF Bytes(token) < 4 THEN token
  ELSE IF CutsCharacter(token, Bytes(token) - 4) THEN Panic
  ELSE IF HasExe(token) THEN WithoutExe(token)
  ELSE token

Spelling(symbol) ==
  CASE symbol = Suffix  -> <<".", "e", "x", "e">>
    [] symbol = AnyWord -> <<"a", "n", "y">>
    [] OTHER            -> <<symbol>>

Spelled(text) ==
  LET cs[k \in 0..Len(text)] == IF k = 0 THEN <<>> ELSE cs[k - 1] \o Spelling(text[k])
  IN  cs
Characters(text) == Spelled(text)[Len(text)]

(* The positions in a name that a symbol of a glob leads to. *)
GlobStep(name, at, c) ==
  IF c = "*" THEN {j \in 0..Len(name) : \E i \in at : i <= j}
  ELSE {j \in 1..Len(name) : j - 1 \in at /\ c \in {"?", name[j]}}

Reached(glob, name) ==
  LET at[k \in 0..Len(glob)] == IF k = 0 THEN {0} ELSE GlobStep(name, at[k - 1], glob[k])
  IN  at

(* The anchored regular expression of a glob. *)
CompileGlob(glob, name) ==
  LET g == Characters(glob)
      n == Characters(name)
  IN  Len(n) \in Reached(g, n)[Len(g)]

(* Mutant: only the rule's side is normalised. *)
MatchesProcessAsNamed(list, name) ==
  \/ IsMatchAll(list)
  \/ \E token \in SplitList(list) : CompileGlob(StripExeSuffix(token), name)

(* compile_process_list and matches_process. *)
MatchesProcess(list, name) ==
  \/ IsMatchAll(list)
  \/ \E token \in SplitList(list) :
       CompileGlob(StripExeSuffix(token), StripExeSuffix(name))

(* Building the rule or matching the name reaches the slice that panics. *)
Panics(list, name) ==
  /\ ~ IsMatchAll(list)
  /\ \/ \E token \in SplitList(list) : StripExeSuffix(token) = Panic
     \/ StripExeSuffix(name) = Panic
=============================================================================
