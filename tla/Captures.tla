------------------------------ MODULE Captures ------------------------------
(***************************************************************************)
(* What a Match says of its groups (_match.py, Match): the group spans,    *)
(* fetched from the engine on the first request and kept, the accessors    *)
(* that read them, and lastindex, which is derived from the spans where    *)
(* `re` keeps a mark while it matches.                                     *)
(*                                                                         *)
(* How a match comes about is external: groups are entered and left, and   *)
(* characters of one byte or two are consumed, in any order the nesting of *)
(* the groups allows.  A group that repeats is entered again, and keeps    *)
(* its last span.  Nothing looks around: the position never moves back.    *)
(***************************************************************************)
EXTENDS Integers, Sequences, FiniteSets

CONSTANTS NGroups,      \* how many groups the pattern declares
          Parent,       \* the group a group is written inside of, 0 for none
          Names,        \* names a caller may ask for
          IndexOfName,  \* _groupindex: the group of each declared name
          MaxMatched,   \* bound: characters of a match
          MaxEntrances,   \* bound: times any group is entered
          NotEntered

GroupNumber == 1 .. NGroups

ASSUME CapturesAssumption ==
  /\ NGroups \in Nat /\ MaxMatched \in Nat /\ MaxEntrances \in Nat
  /\ Parent \in [GroupNumber -> Nat] /\ \A g \in GroupNumber : Parent[g] < g
  /\ DOMAIN IndexOfName \subseteq Names
  /\ \A n \in DOMAIN IndexOfName : IndexOfName[n] \in GroupNumber

ASSUME NotEnteredIsNoSpan == NotEntered \notin Nat \X Nat

VARIABLES entered,   \* the open groups, outermost first, with the byte and character they began at
          atByte, firsts, \* bytes consumed, and the bytes that begin a character
          byteSpans, \* what captures reports: every group's span in bytes
          charSpans, \* and where `re` would have it, in characters
          lastClosed, \* the mark `re` keeps: the group left last
          entrances, matched,
          refusing,  \* what the capture arm does of this pattern and this match
          filled,    \* Match._spans
          answering  \* the accessor called, and what it answered
capVars == <<entered, atByte, firsts, byteSpans, charSpans, lastClosed, entrances, matched,
             refusing, filled, answering>>

matchVars == <<entered, atByte, firsts, byteSpans, charSpans, lastClosed, entrances, matched,
               refusing>>

atChar == Cardinality(firsts)
Declining == {"no", "uncompiled"} \cup (IF NGroups = 0 THEN {} ELSE {"disagrees"})
NotAnswering == [accessor |-> "none", asked |-> 0, raised |-> "nothing", got |-> 0]

CapturesInit ==
  /\ entered = <<>> /\ atByte = 0 /\ firsts = {}
  /\ byteSpans = [g \in GroupNumber |-> NotEntered]
  /\ charSpans = [g \in GroupNumber |-> NotEntered]
  /\ lastClosed = 0 /\ entrances = 0 /\ matched = FALSE
  /\ refusing \in Declining
  /\ filled = FALSE
  /\ answering = NotAnswering

---------------------------------------------------------------------------
(* The match (external).                                                   *)
Innermost == IF entered = <<>> THEN 0 ELSE entered[Len(entered)].group

EnterGroup(g) ==
  /\ ~matched /\ entrances < MaxEntrances
  /\ Parent[g] = Innermost
  /\ entered' = Append(entered, [group |-> g, byte |-> atByte, char |-> atChar])
  /\ entrances' = entrances + 1
  /\ UNCHANGED <<atByte, firsts, byteSpans, charSpans, lastClosed, matched, refusing, filled,
                 answering>>

Consume(width) ==
  /\ ~matched /\ atChar < MaxMatched
  /\ atByte' = atByte + width
  /\ firsts' = firsts \cup {atByte}
  /\ UNCHANGED <<entered, byteSpans, charSpans, lastClosed, entrances, matched, refusing, filled,
                 answering>>

LeaveGroup ==
  /\ ~matched /\ entered # <<>>
  /\ LET in == entered[Len(entered)]
     IN  /\ byteSpans' = [byteSpans EXCEPT ![in.group] = <<in.byte, atByte>>]
         /\ charSpans' = [charSpans EXCEPT ![in.group] = <<in.char, atChar>>]
         /\ lastClosed' = in.group
  /\ entered' = SubSeq(entered, 1, Len(entered) - 1)
  /\ UNCHANGED <<atByte, firsts, entrances, matched, refusing, filled, answering>>

Succeed ==
  /\ ~matched /\ entered = <<>>
  /\ matched' = TRUE
  /\ UNCHANGED <<entered, atByte, firsts, byteSpans, charSpans, lastClosed, entrances, refusing,
                 filled, answering>>

---------------------------------------------------------------------------
(* TextView.index over the match: characters begun before a byte.          *)
CharAt(b) == Cardinality({f \in firsts : f < b})
Positions(span) == <<CharAt(span[1]), CharAt(span[2])>>

Domain(span) == IF atByte = atChar THEN span ELSE Positions(span)   \* view.wide

(* _cut: the text of a span, known by where it begins and ends.            *)
Cut(span, default) == IF span = NotEntered THEN default ELSE Domain(span)

(* _resolve_names: a pattern the capture arm cannot compile has no names.  *)
GroupIndex == {n \in DOMAIN IndexOfName : refusing # "uncompiled"}

(* _resolve, over a number or a name a caller passes: the group it stands  *)
(* for, if it stands for one.                                              *)
AskedFor == [by : {"number"}, is : (-1) .. NGroups + 1] \cup [by : {"name"}, is : Names]
            \cup {[by |-> "neither", is |-> 0]}

Resolve(k) ==
  CASE k.by = "name"    -> {IndexOfName[n] : n \in GroupIndex \cap {k.is}}
    [] k.by = "number"  -> {k.is} \cap (0 .. NGroups)
    [] k.by = "neither" -> {}

NotResolved(k) ==
  CASE k.by = "neither" -> "TypeError"
    [] k.by = "number" /\ refusing = "uncompiled" -> "refused"    \* Pattern.groups raises
    [] OTHER -> "IndexError"

(* _span_of: group 0 is the span the walk reported, any other one's is     *)
(* read from the capture pass.                                             *)
SpanOf(i) == IF i = 0 THEN <<0, atByte>> ELSE byteSpans[i]

(* lastindex: of the groups entered, the one whose span ends last, and of  *)
(* several the lowest-numbered.  A fault: the last one that ends there.    *)
Entered == {g \in GroupNumber : byteSpans[g] # NotEntered}
EndsAt(g) == byteSpans[g][2]
NoLaterEnd(g) == \A h \in Entered : EndsAt(h) <= EndsAt(g)

LastOfTies == IF Entered = {} THEN 0
              ELSE CHOOSE g \in Entered : NoLaterEnd(g)
                     /\ \A h \in Entered : NoLaterEnd(h) => h <= g

LastIndex == IF Entered = {} THEN 0
             ELSE CHOOSE g \in Entered : NoLaterEnd(g)
                    /\ \A h \in Entered : NoLaterEnd(h) => g <= h

(* lastgroup: that group's name, if it has one.                            *)
LastGroup == {n \in GroupIndex : IndexOfName[n] = LastIndex}

---------------------------------------------------------------------------
(* One accessor call.  What stands for no group raises before anything is  *)
(* fetched; group 0 fetches nothing; any other fetches the spans unless    *)
(* they are kept already (_byte_spans), which raises where the capture arm *)
(* refuses.                                                                *)
Tells(accessor, asked, raised, got) ==
  answering' = [accessor |-> accessor, asked |-> asked, raised |-> raised, got |-> got]

Fetched(accessor, asked, got) ==
  IF refusing # "no" /\ ~filled
  THEN Tells(accessor, asked, "refused", 0) /\ filled' = filled
  ELSE Tells(accessor, asked, "nothing", got) /\ filled' = TRUE

OneGroup(accessor, k, Read(_)) ==
  CASE Resolve(k) = {}  -> Tells(accessor, k, NotResolved(k), 0) /\ filled' = filled
    [] Resolve(k) = {0} -> Tells(accessor, k, "nothing", Read(SpanOf(0))) /\ filled' = filled
    [] OTHER            -> LET i == CHOOSE i \in Resolve(k) : TRUE
                           IN  Fetched(accessor, k, Read(SpanOf(i)))

Asked(accessor) == matched /\ answering.accessor = "none" /\ UNCHANGED matchVars

group == \E k \in AskedFor :
  Asked("group") /\ OneGroup("group", k, LAMBDA s : Cut(s, NotEntered))

span == \E k \in AskedFor :
  Asked("span") /\ OneGroup("span", k, LAMBDA s : Cut(s, <<-1, -1>>))

startOf == \E k \in AskedFor :
  Asked("start") /\ OneGroup("start", k, LAMBDA s : IF s = NotEntered THEN -1 ELSE Domain(s)[1])

endOf == \E k \in AskedFor :
  Asked("end") /\ OneGroup("end", k, LAMBDA s : IF s = NotEntered THEN -1 ELSE Domain(s)[2])

allGroups ==
  Asked("groups")
  /\ Fetched("groups", 0, [g \in GroupNumber |-> Cut(byteSpans[g], NotEntered)])

groupdict ==
  Asked("groupdict")
  /\ LET got == [n \in GroupIndex |-> Cut(byteSpans[IndexOfName[n]], NotEntered)]
     IN  IF GroupIndex = {} THEN Tells("groupdict", 0, "nothing", got) /\ filled' = filled
         ELSE Fetched("groupdict", 0, got)

lastindex == Asked("lastindex") /\ Fetched("lastindex", 0, LastIndex)
lastgroup == Asked("lastgroup") /\ Fetched("lastgroup", 0, LastGroup)

(* The caller goes on to its next question of the same match.              *)
Heard ==
  /\ answering.accessor # "none"
  /\ answering' = NotAnswering
  /\ UNCHANGED <<matchVars, filled>>

CapturesNext ==
  \/ \E g \in GroupNumber : EnterGroup(g)
  \/ \E width \in {1, 2} : Consume(width)
  \/ LeaveGroup \/ Succeed
  \/ group \/ span \/ startOf \/ endOf \/ allGroups \/ groupdict \/ lastindex \/ lastgroup
  \/ Heard

CapturesSpec == CapturesInit /\ [][CapturesNext]_capVars

---------------------------------------------------------------------------
(* The group a key means in `re`, and where that group lies.               *)
Means(k) ==
  CASE k.by = "name"    -> {IndexOfName[n] : n \in DOMAIN IndexOfName \cap {k.is}}
    [] k.by = "number"  -> {k.is} \cap (0 .. NGroups)
    [] k.by = "neither" -> {}
WhereIs(i) == IF i = 0 THEN <<0, atChar>> ELSE charSpans[i]
SpanIn(i)  == IF WhereIs(i) = NotEntered THEN <<-1, -1>> ELSE WhereIs(i)

OneGroupIsRe ==
  LET k == answering.asked got == answering.got
  IN  \A i \in Means(k) :
        /\ answering.accessor = "group" => got = WhereIs(i)
        /\ answering.accessor = "span"  => got = SpanIn(i)
        /\ answering.accessor = "start" => got = SpanIn(i)[1]
        /\ answering.accessor = "end"   => got = SpanIn(i)[2]

(* Whichever accessor is asked, and in whatever order, a group lies where  *)
(* `re` has it, in the caller's characters; one that was not entered is    *)
(* told apart from one that matched nothing.  The whole match never needs  *)
(* the capture arm, and an arm in order never refuses (_match.py 196-341). *)
AccessorsAreRe ==
  LET a == answering
      one == a.accessor \in {"group", "span", "start", "end"}
  IN  /\ one /\ a.raised = "nothing" => Means(a.asked) # {} /\ OneGroupIsRe
      /\ one /\ Means(a.asked) = {0} => a.raised = "nothing"
      /\ a.raised # "nothing" => refusing # "no" \/ (one /\ Means(a.asked) = {})
      /\ a.accessor = "groups" /\ a.raised = "nothing" => a.got = charSpans
      /\ a.accessor = "groupdict" /\ a.raised = "nothing" =>
           /\ refusing = "uncompiled" \/ DOMAIN a.got = DOMAIN IndexOfName
           /\ \A n \in DOMAIN a.got : a.got[n] = charSpans[IndexOfName[n]]

(* lastindex is the group `re` left last, although it is worked out from   *)
(* the spans alone: a group left earlier and ending at the same place lies *)
(* inside that one, and has a higher number.  It need not be if the group  *)
(* left last matched nothing: (a)() ends both at one place (_match.py      *)
(* 282-312).                                                               *)
LastIndexIsRe ==
  (answering.accessor = "lastindex" /\ answering.raised = "nothing") =>
     \/ lastClosed # 0 /\ byteSpans[lastClosed][1] = byteSpans[lastClosed][2]
     \/ answering.got = lastClosed
=============================================================================
