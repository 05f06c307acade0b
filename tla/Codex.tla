-------------------------------- MODULE Codex --------------------------------
(***************************************************************************)
(* The self-index of src/kernel/codex/codex.zig, its C plane               *)
(* (surface/ffi/codex.zig) and the Python Codex over it (_codex.py): an    *)
(* FM-index that keeps the Burrows-Wheeler column of a text and not the    *)
(* text, and counts, locates and restores from that alone.  Bytes are      *)
(* 1 and up, 0 is the sentinel; rows and positions count from 0.           *)
(***************************************************************************)
EXTENDS Integers, Sequences, FiniteSets

CONSTANTS CodexBytes, MaxText, MaxWord,
          Rates          \* the sample_rate asked for; NoLocate is IRGX_NO_LOCATE
NoLocate == 99
DefaultRate == 3         \* 32 in the code

ASSUME CodexAssumption == /\ CodexBytes \subseteq Nat \ {0}
                          /\ MaxText \in Nat /\ MaxWord \in Nat
                          /\ Rates \subseteq Nat

VARIABLES indexed,     \* what was indexed; no operation below reads it
          selfIndex,    \* [n, bwt, before, samples, marks, rate, anchors]
          word,     \* the pattern the interval stands for, read right to left
          interval      \* the interval [lo, hi) of a backward search
codexVars == <<indexed, selfIndex, word, interval>>

---------------------------------------------------------------------------
(* build.                                                                  *)
Precedes(s, t) ==
  \E k \in 0 .. Len(s) : /\ k <= Len(t) /\ SubSeq(s, 1, k) = SubSeq(t, 1, k)
                         /\ IF k = Len(s) THEN k < Len(t) ELSE k < Len(t) /\ s[k+1] < t[k+1]
From(s, p)  == SubSeq(s, p + 1, Len(s))
\* sais: position of the row-th smallest suffix, the empty one included
SuffixArray(s) ==
  LET rank == [p \in 0 .. Len(s) |-> Cardinality({q \in 0 .. Len(s) : Precedes(From(s, q), From(s, p))})]
  IN  [row \in 0 .. Len(s) |-> CHOOSE p \in 0 .. Len(s) : rank[p] = row]
\* Weave: the symbol to the left of each suffix
Woven(s, sa) == [row \in DOMAIN sa |-> IF sa[row] = 0 THEN 0 ELSE s[sa[row]]]
\* c_table: how many symbols of the column are smaller
Before(bwt) == [c \in CodexBytes \cup {0} |-> Cardinality({r \in DOMAIN bwt : bwt[r] < c})]
\* Mark: the rows whose position is a multiple of the rate, and their positions
Marked(sa, rate) == IF rate = 0 THEN {} ELSE {r \in DOMAIN sa : sa[r] % rate = 0}
Rank1(marks, row) == Cardinality({r \in marks : r < row})
Sampled(sa, marks) == [j \in 0 .. Cardinality(marks) - 1 |->
                         sa[CHOOSE r \in marks : Rank1(marks, r) = j]]
\* optionsOf: zero is the default, and only NoLocate builds no samples
Stride(rate) == IF rate = 0 THEN DefaultRate ELSE IF rate = NoLocate THEN 0 ELSE rate
BuiltIndex(s, asked_) ==
       LET sa == SuffixArray(s)  bwt == Woven(s, sa)  rate == Stride(asked_)  marks == Marked(sa, rate)
       IN  [n |-> Len(s) + 1, bwt |-> bwt, before |-> Before(bwt), marks |-> marks,
            samples |-> Sampled(sa, marks), rate |-> rate]

(* The search.                                                             *)
Occ(c, row) == Cardinality({r \in 0 .. row - 1 : selfIndex.bwt[r] = c})
WholeRows == [lo |-> 0, hi |-> selfIndex.n]
NoRows == [lo |-> 0, hi |-> 0]
Extended(rs, byte) ==
  IF rs.lo >= rs.hi THEN NoRows
  ELSE LET lo == selfIndex.before[byte] + Occ(byte, rs.lo)
           hi == selfIndex.before[byte] + Occ(byte, rs.hi)
       IN  IF lo >= hi THEN NoRows ELSE [lo |-> lo, hi |-> hi]
Interval(pattern) ==
  LET at[j \in 0 .. Len(pattern)] ==
        IF j = 0 THEN WholeRows ELSE Extended(at[j-1], pattern[Len(pattern) - j + 1])
  IN  at[Len(pattern)]
count(pattern) == IF pattern = <<>> THEN 0
                  ELSE Interval(pattern).hi - Interval(pattern).lo
\* LF: the row of the position one to the left
LF(row) == selfIndex.before[selfIndex.bwt[row]] + Occ(selfIndex.bwt[row], row)
Locates == selfIndex.rate > 0
\* a fault: the sample is taken where the walk began
SuffixAtStart(row) == LET near == CHOOSE r \in selfIndex.marks : TRUE
                      IN  selfIndex.samples[Rank1(selfIndex.marks, near)]
SuffixAt(row) ==
  LET walk[r \in 0 .. selfIndex.n - 1, left \in 0 .. selfIndex.n] ==
        IF r \in selfIndex.marks \/ left = 0 THEN selfIndex.samples[Rank1(selfIndex.marks, r)]
        ELSE walk[LF(r), left - 1] + 1
  IN  walk[row, selfIndex.n]
position(row) == IF Locates THEN <<SuffixAt(row)>> ELSE <<>>
\* ascending; <<>> of a declinature is told from an empty answer by the tag
locate(pattern) ==
  IF ~Locates THEN [tag |-> "declined", at |-> {}]
  ELSE [tag |-> "got", at |-> IF pattern = <<>> THEN {}
          ELSE {SuffixAt(r) : r \in Interval(pattern).lo .. Interval(pattern).hi - 1}]

(* The text, from the index alone.                                         *)
\* anchorAbove: the nearest sample at or above hi, as a row and its position
End == [row |-> 0, pos |-> selfIndex.n - 1]
RoundedUp(hi) == ((hi + selfIndex.rate - 1) \div selfIndex.rate) * selfIndex.rate
AnchorAbove(hi) ==
  IF selfIndex.rate = 0 \/ RoundedUp(hi) >= selfIndex.n THEN End
  ELSE LET pos == RoundedUp(hi)
           j == CHOOSE j \in DOMAIN selfIndex.samples : selfIndex.samples[j] = pos
       IN  [row |-> CHOOSE r \in selfIndex.marks : Rank1(selfIndex.marks, r) = j, pos |-> pos]
\* unwind: from an anchor, left to `from`, keeping k bytes
Unwound(start, from, k) ==
  LET row[pos \in 0 .. start.pos] == IF pos = start.pos THEN start.row ELSE LF(row[pos + 1])
  IN  [i \in 1 .. k |-> selfIndex.bwt[row[from + i]]]
\* Codex.extract: with a limit, at most that much; without, what the sizing
\* pass said there is.  Past the end is refused, at the end is empty.
PastEnd == <<-1>>
Least(a, b) == IF a < b THEN a ELSE b
extract(at, limit) ==
  IF at > selfIndex.n - 1 THEN PastEnd
  ELSE LET left == selfIndex.n - 1 - at
           k    == IF limit = -1 THEN left ELSE Least(limit, left)
       IN  IF k = 0 THEN <<>> ELSE Unwound(AnchorAbove(at + k), at, k)

---------------------------------------------------------------------------
IndexedTexts == UNION {[1 .. n -> CodexBytes] : n \in 0 .. MaxText}
CodexInit ==
  /\ indexed \in IndexedTexts
  /\ \E rate \in Rates : selfIndex = BuiltIndex(indexed, rate)
  /\ word = <<>> /\ interval = WholeRows
\* a host's own backward search: whole, then a byte at a time, and from any
\* interval it kept another one
restart  == word' = <<>> /\ interval' = WholeRows /\ UNCHANGED <<indexed, selfIndex>>
extend(byte) == /\ Len(word) < MaxWord
                /\ word' = <<byte>> \o word /\ interval' = Extended(interval, byte)
                /\ UNCHANGED <<indexed, selfIndex>>
CodexNext == restart \/ \E byte \in CodexBytes : extend(byte)

---------------------------------------------------------------------------
Occurs(w) == {p \in 0 .. Len(indexed) - Len(w) : SubSeq(indexed, p + 1, p + Len(w)) = w}

\* Everything the index answers is what the text it no longer has would: the
\* width of a host's own search and count are the occurrences, overlapping
\* ones included, the positions of the interval's rows and locate are where
\* they are, an index without samples declines where and still counts, and
\* every slice decodes, from whatever anchor, to the text's.
CodexIsText ==
  /\ interval.hi - interval.lo = IF word = <<>> THEN Len(indexed) + 1 ELSE Cardinality(Occurs(word))
  /\ count(word) = IF word = <<>> THEN 0 ELSE Cardinality(Occurs(word))
  /\ IF Locates
     THEN /\ locate(word) = [tag |-> "got", at |-> IF word = <<>> THEN {} ELSE Occurs(word)]
          /\ word # <<>> => {position(r)[1] : r \in interval.lo .. interval.hi - 1} = Occurs(word)
          /\ {position(r)[1] : r \in 0 .. Len(indexed)} = 0 .. Len(indexed)
     ELSE locate(word).tag = "declined" /\ position(0) = <<>>
  /\ word = <<>> => \A at \in 0 .. Len(indexed), limit \in -1 .. Len(indexed) + 1 :
       extract(at, limit) = SubSeq(indexed, at + 1, IF limit = -1 THEN Len(indexed) ELSE Least(at + limit, Len(indexed)))
=============================================================================
