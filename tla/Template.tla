------------------------------ MODULE Template ------------------------------
(***************************************************************************)
(* Replacement templates of the Python binding: compile_template and       *)
(* Template of _replace.py, and the cache of parsed templates in           *)
(* _pattern.py.                                                            *)
(*                                                                         *)
(* A template is a word over a few characters that stand for their class:  *)
(* "\" itself, "g", "<", ">", the digits "0", "1", "4" (octal) and "8"     *)
(* (not), "n" (an escape re knows, and the only group name), "q" (an ASCII *)
(* letter that is no escape) and "-" (any other).  A parsed template is a  *)
(* sequence of parts: a character, an escaped one, an octal value or a     *)
(* group.                                                                  *)
(***************************************************************************)
EXTENDS Naturals, Sequences, FiniteSets

CONSTANTS Groups,       \* groups the pattern declares
          Named,        \* the group the name "n" stands for, 0 for none
          TemplateWords,        \* the templates a fresh pattern is asked with
          Repeated,     \* those asked again and again
          Templates     \* _TEMPLATES, the size of the cache

ASSUME TemplateAssumption == /\ Groups \in Nat /\ Named \in 0 .. Groups
                             /\ Templates \in Nat \ {0}

VARIABLES templateCache,    \* _templates: what has been parsed, and into what
          current,  \* the template of the last substitution
          parsed    \* what it was taken for

templateVars == <<templateCache, current, parsed>>

TemplateInit == templateCache = [t \in {} |-> <<>>] /\ current = <<>> /\ parsed = <<>>

Digit  == {"0", "1", "4", "8"}
Octal  == {"0", "1", "4"}
Value(d) == CASE d = "0" -> 0 [] d = "1" -> 1 [] d = "4" -> 4 [] d = "8" -> 8

Char(c)   == [part |-> "char", of |-> c, value |-> 0]
Escaped(c) == [part |-> "escape", of |-> c, value |-> 0]
Octet(v)  == [part |-> "octal", of |-> "", value |-> v]
GroupRef(g)  == [part |-> "group", of |-> "", value |-> g]
Bad       == <<[part |-> "error", of |-> "", value |-> 0]>>

IsBad(parts) == Len(parts) > 0 /\ parts[Len(parts)].part = "error"
Then(part, rest) == IF IsBad(rest) THEN Bad ELSE <<part>> \o rest

decimal[w \in Seq(Digit)] ==
  IF w = <<>> THEN 0 ELSE 10 * decimal[SubSeq(w, 1, Len(w) - 1)] + Value(w[Len(w)])
octal[w \in Seq(Octal)] ==
  IF w = <<>> THEN 0 ELSE 8 * octal[SubSeq(w, 1, Len(w) - 1)] + Value(w[Len(w)])

---------------------------------------------------------------------------
(* compile_template, a character at a time from i on.                      *)
IsAt(t, i, S) == i <= Len(t) /\ t[i] \in S

(* A fault: two digits are a group, also where a third makes them octal.   *)
ThreeNever(t, i) == FALSE

(* Three octal digits, the first of them not 0, are a character.           *)
ThreeOctal(t, i) == IsAt(t, i, Octal) /\ IsAt(t, i + 1, Octal) /\ IsAt(t, i + 2, Octal)

(* The first ">" from i on, 0 for none.                                    *)
CloseOf(t, i) ==
  LET closing == {k \in i .. Len(t) : t[k] = ">"}
  IN  IF closing = {} THEN 0 ELSE CHOOSE k \in closing : \A j \in closing : k <= j

(* The group a name between \g< and > stands for, Groups + 1 for none.     *)
Reference(name) ==
  IF name # <<>> /\ \A k \in 1 .. Len(name) : name[k] \in Digit THEN decimal[name]
  ELSE IF name = <<"n">> /\ Named # 0 THEN Named ELSE Groups + 1

UseReference(number, rest) == IF number > Groups THEN Bad ELSE Then(GroupRef(number), rest)

compile_template(t) ==
  LET parse[i \in 1 .. Len(t) + 1] ==
        IF i > Len(t) THEN <<>>
        ELSE IF t[i] # "\\" THEN Then(Char(t[i]), parse[i + 1])
        ELSE IF i = Len(t) THEN Bad                               \* a trailing backslash
        ELSE CASE t[i + 1] = "g" ->
                    LET close == CloseOf(t, i + 2)
                        name  == SubSeq(t, i + 3, close - 1)
                    IN  IF ~IsAt(t, i + 2, {"<"}) \/ close = 0 \/ name = <<>> THEN Bad
                        ELSE UseReference(Reference(name), parse[close + 1])
               [] t[i + 1] = "0" ->
                    LET more == IF ~IsAt(t, i + 2, Octal) THEN 0
                                ELSE IF IsAt(t, i + 3, Octal) THEN 2 ELSE 1
                    IN  Then(Octet(octal[SubSeq(t, i + 1, i + 1 + more)]), parse[i + 2 + more])
               [] t[i + 1] \in Digit \ {"0"} ->
                    IF ThreeOctal(t, i + 1)
                    THEN LET value == octal[SubSeq(t, i + 1, i + 3)]
                         IN  IF value > 255 THEN Bad ELSE Then(Octet(value), parse[i + 4])
                    ELSE LET last == IF IsAt(t, i + 2, Digit) THEN i + 2 ELSE i + 1
                         IN  UseReference(decimal[SubSeq(t, i + 1, last)], parse[last + 1])
               [] t[i + 1] \in {"n", "\\"} -> Then(Escaped(t[i + 1]), parse[i + 2])
               [] t[i + 1] = "q" -> Bad                                 \* a bad escape
               [] OTHER -> Then(Char("\\"), Then(Char(t[i + 1]), parse[i + 2]))
  IN  parse[1]

(* _template: a bad one is never stored, and a full cache is cleared.      *)
KeptTemplate(t) ==
          IF t \in DOMAIN templateCache \/ IsBad(compile_template(t)) THEN templateCache
          ELSE LET room == IF Cardinality(DOMAIN templateCache) >= Templates THEN [u \in {} |-> <<>>] ELSE templateCache
               IN  [u \in DOMAIN room \cup {t} |-> IF u = t THEN compile_template(t) ELSE room[u]]

(* sub, of an exact str (from the cache) or of anything else (parsed).     *)
Substitute(t, exact) ==
  /\ current' = t
  /\ parsed' = IF exact /\ t \in DOMAIN templateCache THEN templateCache[t] ELSE compile_template(t)
  /\ templateCache' = IF exact THEN KeptTemplate(t) ELSE templateCache

TemplateNext ==
  \E exact \in BOOLEAN : \/ current = <<>> /\ \E t \in TemplateWords : Substitute(t, exact)
                         \/ \E t \in Repeated : Substitute(t, exact)

---------------------------------------------------------------------------
(* re's template language: what one item may be, and what it stands for.   *)
TemplateItems(t, i) == {SubSeq(t, i, k) : k \in i .. Len(t)}

IsItem(w) ==
  \/ Len(w) = 1 /\ w[1] # "\\"
  \/ Len(w) > 1 /\ w[1] = "\\" /\
       \/ Len(w) = 2 /\ w[2] # "g"
       \/ Len(w) \in 3 .. 4 /\ w[2] = "0" /\ \A k \in 2 .. Len(w) : w[k] \in Octal
       \/ Len(w) = 4 /\ \A k \in 2 .. 4 : w[k] \in Octal
       \/ Len(w) = 3 /\ w[2] \in Digit \ {"0"} /\ w[3] \in Digit
       \/ /\ Len(w) > 4 /\ w[2] = "g" /\ w[3] = "<" /\ w[Len(w)] = ">"
          /\ \A k \in 4 .. Len(w) - 1 : w[k] # ">"

Meaning(w) ==
  IF w[1] # "\\" THEN <<Char(w[1])>>
  ELSE IF Len(w) > 4 \/ w[2] = "g"
  THEN LET g == Reference(SubSeq(w, 4, Len(w) - 1)) IN IF g > Groups THEN Bad ELSE <<GroupRef(g)>>
  ELSE IF w[2] = "0" \/ Len(w) = 4
  THEN LET v == octal[Tail(w)] IN IF v > 255 THEN Bad ELSE <<Octet(v)>>
  ELSE IF w[2] \in Digit
  THEN LET g == decimal[Tail(w)] IN IF g > Groups THEN Bad ELSE <<GroupRef(g)>>
  ELSE IF w[2] = "q" THEN Bad                            \* re refuses an unknown letter
  ELSE IF w[2] \in {"n", "\\"} THEN <<Escaped(w[2])>> ELSE <<Char("\\"), Char(w[2])>>

ReTemplate(t) ==
  LET read[i \in 1 .. Len(t) + 1] ==
        IF i > Len(t) THEN <<>>
        ELSE LET items == {w \in TemplateItems(t, i) : IsItem(w)}
                 item  == CHOOSE w \in items : \A v \in items : Len(v) <= Len(w)
                 rest  == read[i + Len(item)]
             IN  IF items = {} \/ IsBad(Meaning(item)) \/ IsBad(rest) THEN Bad
                 ELSE Meaning(item) \o rest
  IN  read[1]

(* A template is what re reads it as, its longest items from the left on,  *)
(* and is refused where re refuses it; from the cache or not, the same     *)
(* text is the same template, and a refused one is not remembered          *)
(* (_replace.py 109-202, _pattern.py 689-706).                             *)
TemplateIsRe ==
  /\ parsed = ReTemplate(current)
  /\ \A t \in DOMAIN templateCache : templateCache[t] = ReTemplate(t) /\ ~IsBad(templateCache[t])
  /\ Cardinality(DOMAIN templateCache) <= Templates
=============================================================================
