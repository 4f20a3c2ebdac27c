--------------------------- MODULE MCVocabUnifier ---------------------------
(***************************************************************************)
(* Three CSVs of two ISAs of one family and one of another, each with the  *)
(* contents that matter to the unifier; inputs of up to three of them in   *)
(* every order.                                                            *)
(***************************************************************************)
EXTENDS VocabUnifier

MCDigitNames == <<"00", "01">>
MCCanonical == <<"valued_const_v2", "block_v2">>
MCFamilyOf == [i \in {"x86", "x64", "arm32"} |-> IF i = "arm32" THEN "arm" ELSE "x"]
MCUnifiedOf == [f \in {"x", "arm"} |-> IF f = "arm" THEN "unified_arm" ELSE "unified_x86"]
MCPositional == <<"arch", "opt">>
MCKeys == <<"flag_set">>
MCWords == <<"O0", "O2", "arm32", "fpic", "no pic", "wl,z", "x64", "x86">>
MCSpacedWords == {"no pic"}
MCCommaParts == [w \in {"wl,z"} |-> <<"wl", "z">>]

P(w) == [kind |-> "platform", word |-> w]
M(w) == [kind |-> "marker", word |-> w]
L(w) == [kind |-> "literal", word |-> w]
V(p, w) == [prefix |-> p, word |-> w]

(* A CSV that loads, of version 2, with an opt level and flags.            *)
Plain(isa, tokens, opt, flags) ==
  [file |-> isa, isa |-> isa, loads |-> TRUE, legacy |-> FALSE, version |-> 2,
   tokens |-> tokens, sidecar |-> "ok",
   meta |-> {V("arch", isa), V("opt", opt)} \cup {V("flag_set", w) : w \in flags}]

X64 == Plain("x64", <<M("block_v2"), P("mov")>>, "O0", {})
X86 == Plain("x86", <<P("add"), P("mov"), M("thread_local")>>, "O2", {"fpic"})
Arm == Plain("arm32", <<P("mov"), M("valued_const_v2")>>, "O0", {})

Modern ==
  {X64, [X64 EXCEPT !.tokens = <<>>], [X64 EXCEPT !.loads = FALSE],
   [X64 EXCEPT !.meta = {V("arch", "x64"), V("opt", "O0"), V("flag_set", "wl,z")}],
   [X64 EXCEPT !.meta = {V("arch", "x64"), V("opt", "O0"), V("flag_set", "no pic")}],
   X86, [X86 EXCEPT !.version = 1], [X86 EXCEPT !.sidecar = "unparsable"],
   [X86 EXCEPT !.sidecar = "colon in key"],
   Arm, [Arm EXCEPT !.tokens = <<P("mov"), L("lit")>>], [Arm EXCEPT !.loads = FALSE]}

Inputs(csvs, n) ==
  {s \in UNION {[1..m -> csvs] : m \in 1..n} :
     \A i, j \in DOMAIN s : s[i].file = s[j].file => i = j}

Legacies == {[c EXCEPT !.legacy = TRUE] : c \in {X64, X86}}

MCCorpora ==
  {[csvs |-> s, legacy |-> FALSE] : s \in Inputs(Modern, 2) \cup Inputs({X64, X86, Arm}, 3)}
    \cup {[csvs |-> s, legacy |-> TRUE] : s \in Inputs(Legacies, 2)}

=============================================================================
