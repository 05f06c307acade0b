-------------------------------- MODULE Grades --------------------------------
(***************************************************************************)
(* The kinship calibration a library caller reads (contract/grades.py):    *)
(* channels under two vocabularies, a score from the two distances of a    *)
(* pair, its grade on the channel's bands and the min_grade floor.  A      *)
(* distance is strong when it is low; a gap, a gain and a coverage when    *)
(* they are high.  Scores are hundredths, NaN is a value of its own.       *)
(***************************************************************************)
EXTENDS Integers, Sequences, FiniteSets

CONSTANT Measures      \* what a measured distance, gain or coverage may be
ASSUME GradesAssumption == Measures \subseteq 0 .. 100

NaN == 1000
Metric == [copies |-> "bytes", twins |-> "echo", shapes |-> "structure", any |-> "fused",
           recall |-> "gain", context |-> "coverage"]
Channels == DOMAIN Metric
Spellings == Channels \cup {Metric[c] : c \in Channels} \cup {"distance"}
\* parse: a channel's name first, then the metric's; anything else is an error
parse(spelling) == IF spelling \in Channels THEN {spelling}
                   ELSE {c \in Channels : Metric[c] = spelling}
higher_is_stronger(c) == c \in {"twins", "recall", "context"}
pairwise(c) == c \notin {"recall", "context"}
quantity(c) == IF higher_is_stronger(c) THEN Metric[c] ELSE "distance"

score(c, bytes, structure) ==
  CASE c = "copies" -> bytes
    [] c = "shapes" -> structure
    [] c = "twins"  -> bytes - structure
    [] ~pairwise(c) -> NaN
    [] OTHER -> IF bytes < structure THEN bytes ELSE structure

Grade == <<"identical", "strong", "moderate", "weak", "none">>
rank(g) == CHOOSE i \in DOMAIN Grade : Grade[i] = g
meets(g, floor) == rank(g) <= rank(floor)
\* cut points of identical, strong, moderate and weak; <<>> where there is none
Bands(c) == CASE c = "twins"   -> <<{}, {45}, {30}, {15}>>
              [] c = "recall"  -> <<{90}, {60}, {45}, {30}>>
              [] c = "context" -> <<{}, {60}, {40}, {22}>>
              [] OTHER         -> <<{5}, {25}, {50}, {75}>>
Admits(c, s, cut) == IF higher_is_stronger(c) THEN s >= cut ELSE s <= cut
\* the first band that admits the score
grade_of(c, s) ==
  LET fits == IF s = NaN THEN {} ELSE {i \in 1 .. 4 : \E cut \in Bands(c)[i] : Admits(c, s, cut)}
  IN  IF fits = {} THEN "none" ELSE Grade[CHOOSE i \in fits : \A j \in fits : i <= j]

---------------------------------------------------------------------------
VARIABLES channel,   \* what the caller's spelling was read as; "" of an error
          scored     \* the rows got so far: the pair, its score and its grade
gradesVars == <<channel, scored>>

GradesInit == /\ \E spelling \in Spellings :
                   channel = IF parse(spelling) = {} THEN "" ELSE CHOOSE c \in parse(spelling) : TRUE
              /\ scored = {}
GradeRow(pair, s) == [pair |-> pair, score |-> s, grade |-> grade_of(channel, s)]
\* a row of a pairwise verb is scored from its pair; gain and coverage are
\* measured by the engine, and may be missing
Scored == /\ channel # "" /\ Cardinality(scored) < 2
          /\ \E m, n \in Measures : scored' = scored \cup
               {GradeRow(<<m, n>>, IF pairwise(channel) THEN score(channel, m, n) ELSE m)}
          /\ UNCHANGED channel
Unmeasured == /\ channel # "" /\ ~pairwise(channel) /\ Cardinality(scored) < 2
              /\ scored' = scored \cup {GradeRow(<<>>, score(channel, 0, 0))}
              /\ UNCHANGED channel
GradesNext == Scored \/ Unmeasured

\* Stronger is what the row's own score column says: a lower distance, a higher
\* anything else.
Stronger(s, t) == IF quantity(channel) = "distance" THEN s < t ELSE s > t

\* On every channel and under either vocabulary the grades follow the scores:
\* no min_grade floor drops a row and keeps one it beats, what could not be
\* measured is no result, a pair close on one channel is as close on `any`, and
\* two equal files are no evidence of twins.
GradesFollowScores ==
  \A r, q \in scored :
    /\ r.score # NaN /\ q.score # NaN /\ Stronger(r.score, q.score) =>
         \A i \in DOMAIN Grade : meets(q.grade, Grade[i]) => meets(r.grade, Grade[i])
    /\ r.score = NaN => r.grade = "none"
    /\ channel \in {"copies", "shapes"} =>
         meets(grade_of("any", score("any", r.pair[1], r.pair[2])), r.grade)
    /\ channel = "twins" /\ r.pair = <<0, 0>> => r.grade = "none"
=============================================================================
