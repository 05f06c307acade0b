------------------------------- MODULE Verbs -------------------------------
(***************************************************************************)
(* The search verbs of the Python binding over one text: the transport     *)
(* seam _engine.py, the Pattern methods of _pattern.py, and the two        *)
(* domains a text has in _match.py.                                        *)
(*                                                                         *)
(* The caller counts characters and the engine bytes: a text is the        *)
(* sequence of its characters' widths.  What the engine matches is         *)
(* external: reach[b] is how far the match that begins at byte b runs when *)
(* nothing cuts the text short, NoMatch where none begins; a match that is *)
(* not empty covers whole characters (_pattern.py, _on_characters), while  *)
(* an empty one may sit at any byte of a character that can be matched at  *)
(* its first.  A pattern with a group captures its whole match, and leaves *)
(* the group unentered in an empty one.                                    *)
(***************************************************************************)
EXTENDS Naturals, Sequences, FiniteSets

CONSTANTS Window,       \* _FIRST_WINDOW: spans the first find_all asks for
          MaxChars,     \* bound: characters of a text
          MaxBytes,     \* bound: and its bytes
          Limits,       \* counts and maxsplits a caller passes, 0 for all
          NoMatch, NoGroup, Blade

ASSUME VerbsAssumption == /\ Window \in Nat \ {0}
                          /\ MaxChars \in Nat /\ MaxBytes \in Nat
                          /\ Limits \subseteq Nat

VARIABLES haystack, reach, groups, call, reply
verbVars == <<haystack, reach, groups, call, reply>>

SmallMin(a, b) == IF a < b THEN a ELSE b
Clamp(x, size) == SmallMin(x, size)       \* min(max(x, 0), size): x is a natural

(* TextView: offset, index and the bytes that begin a character.           *)
offset[w \in Seq({1, 2}), i \in Nat] ==
  IF i = 0 \/ w = <<>> THEN 0 ELSE Head(w) + offset[Tail(w), i - 1]

Size == offset[haystack, Len(haystack)]
Lead == {offset[haystack, i] : i \in 0 .. Len(haystack) - 1}
OnCharacter(b) == b >= Size \/ b \in Lead
index(b) == Cardinality({l \in Lead : l < b})
wide == Size # Len(haystack)

SmallTexts == {w \in UNION {[1 .. n -> {1, 2}] : n \in 0 .. MaxChars} :
                 offset[w, Len(w)] <= MaxBytes}

(* The patterns of the model over a text of this size (external).          *)
WellFormed(w, r) ==
  LET size  == offset[w, Len(w)]
      edges == {offset[w, i] : i \in 0 .. Len(w)}
  IN  \A b \in 0 .. size : r[b] # NoMatch =>
        \/ r[b] > b /\ b \in edges /\ r[b] \in edges
        \/ r[b] = b /\ \A e \in edges :
              (e <= b /\ \A f \in edges : f <= b => f <= e) => r[e] # NoMatch

ReachesTo(w) == LET size == offset[w, Len(w)]
                IN  {r \in [0 .. size -> 0 .. size \cup {NoMatch}] : WellFormed(w, r)}

NotAsked  == [verb |-> "none", pos |-> 0, last |-> 0, limit |-> 0]

VerbsInit ==
  /\ haystack \in SmallTexts
  /\ reach \in ReachesTo(haystack)
  /\ groups \in {0, 1}
  /\ call = NotAsked
  /\ reply = <<>>

---------------------------------------------------------------------------
(* The engine (external).  A text cut at byte `last` ends the matches that *)
(* ran past it; a walk goes on from each match's end, and a byte further   *)
(* after an empty one.                                                     *)
EndOf(last, b) == SmallMin(reach[b], last)
Begins(last, b) ==
  b <= last /\ reach[b] # NoMatch /\ (reach[b] = b \/ EndOf(last, b) > b)

EngineWalk(last) ==
  LET walk[b \in 0 .. last + 1] ==
        IF b > last THEN <<>>
        ELSE IF ~Begins(last, b) THEN walk[b + 1]
        ELSE <<[start |-> b, end |-> EndOf(last, b)]>>
             \o walk[IF EndOf(last, b) > b THEN EndOf(last, b) ELSE b + 1]
  IN  walk

Prefix(spans, n) == SubSeq(spans, 1, SmallMin(n, Len(spans)))

(* find_upto_in stops once `cap` spans are written; find_all_in writes as  *)
(* many and tells how many there are.                                      *)
find_upto_in(last, start, cap) == Prefix(EngineWalk(last)[start], cap)
find_all_in(last, start, cap)  ==
  [spans |-> Prefix(EngineWalk(last)[start], cap), written |-> Len(EngineWalk(last)[start])]

(* The group's span for the match at b, read over a text cut at `last`.    *)
captures(last, b) ==
  <<[start |-> b, end |-> EndOf(last, b)]>>
  \o [g \in 1 .. groups |-> IF EndOf(last, b) = b THEN NoGroup
                            ELSE [start |-> b, end |-> EndOf(last, b)]]

---------------------------------------------------------------------------
(* _engine.py.  A limit is a prefix; without one, a window that came up    *)
(* short is asked again at the count it reported.                          *)
FindAll(last, start, limit) ==
  LET cap   == SmallMin(last + 1, Window)
      first == find_all_in(last, start, cap)
  IN  IF limit # 0 THEN find_upto_in(last, start, SmallMin(cap, limit))
      ELSE IF first.written > cap THEN find_all_in(last, start, first.written).spans
      ELSE first.spans

FindFirst(last, start) == Prefix(EngineWalk(last)[start], 1)

(* Spans a str caller has a position for.                                  *)
Thinned(spans) == SelectSeq(spans, LAMBDA s : OnCharacter(s.start))

(* The thinned spans a capped verb needs: thinning may leave a capped walk *)
(* short of the cap, and then the whole walk is paid for.                  *)
KeptOnce(limit) == Thinned(FindAll(Size, 0, limit))

KeptSpan(limit) ==
      LET found == FindAll(Size, 0, limit)
          kept  == Thinned(found)
      IN  IF limit # 0 /\ Len(found) = limit /\ Len(kept) < limit
          THEN Thinned(FindAll(Size, 0, 0)) ELSE kept

(* The capture pass for a walked span, held against it.                    *)
Grouped(last, span) ==
  IF captures(last, span.start)[1] = span THEN captures(last, span.start) ELSE <<>>

(* Pieces of the text as the bytes they hold; a replacement is one item.   *)
BytesOf(from, to) == [k \in 1 .. to - from |-> from + k - 1]

Taken(found, limit) == IF limit = 0 THEN Len(found) ELSE SmallMin(limit, Len(found))

CutAt(found, k) == IF k = 0 THEN 0 ELSE found[k].end

(* What replaces a match: the constant, or the group's text through the    *)
(* capture pass, empty for a group not entered.                            *)
Replacement(span) ==
  IF groups = 0 THEN <<Blade>>
  ELSE LET g == Grouped(Size, span)[2]
       IN  <<Blade>> \o (IF g = NoGroup THEN <<>> ELSE BytesOf(g.start, g.end))

Spliced(limit) ==
  LET found == KeptSpan(limit)
      n     == Taken(found, limit)
      upto[k \in 0 .. n] ==
        IF k = 0 THEN <<>>
        ELSE upto[k - 1] \o BytesOf(CutAt(found, k - 1), found[k].start) \o Replacement(found[k])
  IN  [text |-> upto[n] \o BytesOf(CutAt(found, n), Size), made |-> n]

(* split: the pieces, each match's groups between them.                    *)
GroupText(span, g) == IF g = NoGroup THEN NoGroup ELSE BytesOf(g.start, g.end)

Pieces(limit) ==
  LET found == KeptSpan(limit)
      n     == Taken(found, limit)
      upto[k \in 0 .. n] ==
        IF k = 0 THEN <<>>
        ELSE upto[k - 1]
             \o <<BytesOf(CutAt(found, k - 1), found[k].start)>>
             \o [g \in 1 .. groups |-> GroupText(found[k], Grouped(Size, found[k])[g + 1])]
  IN  upto[n] \o <<BytesOf(CutAt(found, n), Size)>>

(* findall: the match texts, or the group's, of the thinned walk.          *)
MatchTexts(last, start) ==
  LET found == Thinned(FindAll(last, start, 0))
  IN  [k \in 1 .. Len(found) |->
         IF groups = 0 THEN BytesOf(found[k].start, found[k].end)
         ELSE GroupText(found[k], Grouped(last, found[k])[2])]

---------------------------------------------------------------------------
(* _pattern.py.  pos only moves where the walk begins; endpos cuts the     *)
(* text, and the view remembers the cut for the capture passes to come.    *)
RegionUncut(pos, last) ==
  [start |-> offset[haystack, Clamp(pos, Len(haystack))], last |-> Size,
   none |-> Clamp(pos, Len(haystack)) > Clamp(last, Len(haystack))]

Region(pos, last) ==
  [start |-> offset[haystack, Clamp(pos, Len(haystack))],
   last  |-> offset[haystack, Clamp(last, Len(haystack))],
   none  |-> Clamp(pos, Len(haystack)) > Clamp(last, Len(haystack))]

(* A Match knows its span, and what text a lazy capture pass is to read.   *)
MatchAt(span, last) == [start |-> span.start, end |-> span.end, searched |-> last]
Spans(found, last)  == [k \in 1 .. Len(found) |-> MatchAt(found[k], last)]

InCharacters(m) == [start |-> index(m.start), end |-> index(m.end)]

(* _walk, of finditer: one find_all, thinned where the domains differ.     *)
Walked(pos, last) ==
  LET r     == Region(pos, last)
      found == FindAll(r.last, r.start, 0)
  IN  IF r.none THEN <<>> ELSE Spans(IF wide THEN Thinned(found) ELSE found, r.last)

(* search: the engine's first span, never thinned.                         *)
Searched(pos, last) ==
  LET r == Region(pos, last)
  IN  IF r.none THEN <<>> ELSE Spans(FindFirst(r.last, r.start), r.last)

(* match: a search, and the span must begin where it was asked to.         *)
MatchedAnywhere(pos, last) == Searched(pos, last)
Matched(pos, last) ==
  SelectSeq(Searched(pos, last), LAMBDA m : m.start = offset[haystack, Clamp(pos, Len(haystack))])

(* Match._byte_spans: the groups, on first request.  Refused (NoMatch)     *)
(* when the capture arm does not repeat the span the walk reported.        *)
GroupsOf(m) ==
  IF groups = 0 THEN <<>>
  ELSE IF captures(m.searched, m.start)[1] # [start |-> m.start, end |-> m.end]
  THEN <<NoMatch>>
  ELSE LET g == captures(m.searched, m.start)[2]
       IN  <<IF g = NoGroup THEN NoGroup ELSE InCharacters(g)>>

(* sub and split where the subject is not an exact str or bytes, or the    *)
(* replacement is a function: the matches, sliced in the caller's domain.  *)
Slice(i, j) == BytesOf(offset[haystack, i], offset[haystack, j])

SlowReplacement(m) ==
  IF groups = 0 THEN <<Blade>>
  ELSE LET g == GroupsOf(m)[1]
       IN  <<Blade>> \o (IF g = NoGroup THEN <<>> ELSE Slice(g.start, g.end))

SlowSub(limit) ==
  LET found == Walked(0, Len(haystack))
      n     == Taken(found, limit)
      at(k) == IF k = 0 THEN 0 ELSE index(found[k].end)
      upto[k \in 0 .. n] ==
        IF k = 0 THEN <<>>
        ELSE upto[k - 1] \o Slice(at(k - 1), index(found[k].start)) \o SlowReplacement(found[k])
  IN  [text |-> upto[n] \o Slice(at(n), Len(haystack)), made |-> n]

SlowSplit(limit) ==
  LET found == Walked(0, Len(haystack))
      n     == Taken(found, limit)
      at(k) == IF k = 0 THEN 0 ELSE index(found[k].end)
      upto[k \in 0 .. n] ==
        IF k = 0 THEN <<>>
        ELSE upto[k - 1] \o <<Slice(at(k - 1), index(found[k].start))>>
             \o [g \in 1 .. groups |->
                   LET span == GroupsOf(found[k])[g]
                   IN  IF span = NoGroup THEN NoGroup ELSE Slice(span.start, span.end)]
  IN  upto[n] \o <<Slice(at(n), Len(haystack))>>

---------------------------------------------------------------------------
Calling(verb, pos, last, limit, answer) ==
  /\ call.verb = "none"
  /\ call' = [verb |-> verb, pos |-> pos, last |-> last, limit |-> limit]
  /\ reply' = answer
  /\ UNCHANGED <<haystack, reach, groups>>

Bounds == 0 .. MaxChars + 1     \* pos and endpos, past the end included

finditer == \E p, e \in Bounds :
  Calling("finditer", p, e, 0, [k \in 1 .. Len(Walked(p, e)) |->
     [span |-> InCharacters(Walked(p, e)[k]), groups |-> GroupsOf(Walked(p, e)[k])]])

search == \E p, e \in Bounds :
  Calling("search", p, e, 0, [k \in 1 .. Len(Searched(p, e)) |->
     [span |-> InCharacters(Searched(p, e)[k]), groups |-> GroupsOf(Searched(p, e)[k])]])

is_match == \E p, e \in Bounds : Calling("is_match", p, e, 0, Searched(p, e) # <<>>)

match == \E p, e \in Bounds :
  Calling("match", p, e, 0, [k \in 1 .. Len(Matched(p, e)) |->
     [span |-> InCharacters(Matched(p, e)[k]), groups |-> GroupsOf(Matched(p, e)[k])]])

findall == \E p, e \in Bounds :
  Calling("findall", p, e, 0, LET r == Region(p, e)
                              IN  IF r.none THEN <<>> ELSE MatchTexts(r.last, r.start))

subn  == \E n \in Limits, fast \in BOOLEAN :
  Calling("subn", 0, 0, n, IF fast THEN Spliced(n) ELSE SlowSub(n))

split == \E n \in Limits, fast \in BOOLEAN :
  Calling("split", 0, 0, n, IF fast THEN Pieces(n) ELSE SlowSplit(n))

VerbsNext == finditer \/ search \/ is_match \/ match \/ findall \/ subn \/ split
VerbsSpec == VerbsInit /\ [][VerbsNext]_verbVars

---------------------------------------------------------------------------
(* What `re` answers, stated over characters: the matches of the region,   *)
(* from the leftmost on, each beginning no earlier than the last one ends. *)
CharEnd(cut, i) == SmallMin(index(reach[offset[haystack, i]]), cut)
CharBegins(cut, i) ==
  /\ i <= cut /\ reach[offset[haystack, i]] # NoMatch
  /\ reach[offset[haystack, i]] = offset[haystack, i] \/ CharEnd(cut, i) > i

ReWalk(cut) ==
  LET walk[i \in 0 .. cut + 1] ==
        IF i > cut THEN <<>>
        ELSE IF ~CharBegins(cut, i) THEN walk[i + 1]
        ELSE <<[start |-> i, end |-> CharEnd(cut, i)]>>
             \o walk[IF CharEnd(cut, i) > i THEN CharEnd(cut, i) ELSE i + 1]
  IN  walk

ReSpans(pos, last) ==
  LET p == Clamp(pos, Len(haystack)) e == Clamp(last, Len(haystack))
  IN  IF p > e THEN <<>> ELSE ReWalk(e)[p]

ReGroups(span) == [g \in 1 .. groups |-> IF span.start = span.end THEN NoGroup ELSE span]
ReMatches(spans) == [k \in 1 .. Len(spans) |-> [span |-> spans[k], groups |-> ReGroups(spans[k])]]

ReText(g) == IF g = NoGroup THEN NoGroup ELSE Slice(g.start, g.end)

(* finditer, search, is_match and match answer what `re` does over         *)
(* characters, whatever the bounds, and the groups read later belong to    *)
(* the very match that was reported: the cut of endpos is not read past,   *)
(* and no match splits a character (_pattern.py 261-316, 403-560;          *)
(* _match.py 89-163).                                                      *)
MatchesAreRe ==
  /\ call.verb = "finditer" => reply = ReMatches(ReSpans(call.pos, call.last))
  /\ call.verb = "search" => reply = ReMatches(Prefix(ReSpans(call.pos, call.last), 1))
  /\ call.verb = "is_match" => reply = (ReSpans(call.pos, call.last) # <<>>)
  /\ call.verb = "match" =>
       LET p == Clamp(call.pos, Len(haystack)) e == Clamp(call.last, Len(haystack))
       IN  reply = IF p <= e /\ CharBegins(e, p)
                   THEN ReMatches(<<[start |-> p, end |-> CharEnd(e, p)]>>) ELSE <<>>

(* findall, sub and split give the same text whichever path they take, the *)
(* one spliced from bytes behind one call or the one built from matches,   *)
(* and it is `re`'s: as many matches are used as the limit allows, in      *)
(* order, also when the engine's first ones are dropped as no character's  *)
(* (_engine.py 139-357, _pattern.py 580-762).                              *)
RewritesAreRe ==
  LET spans == ReSpans(0, Len(haystack))
      n     == IF call.limit = 0 THEN Len(spans) ELSE SmallMin(call.limit, Len(spans))
      at(k) == IF k = 0 THEN 0 ELSE spans[k].end
      sub[k \in 0 .. n] ==
        IF k = 0 THEN <<>>
        ELSE sub[k - 1] \o Slice(at(k - 1), spans[k].start) \o <<Blade>>
             \o IF groups = 0 THEN <<>> ELSE Slice(spans[k].start, spans[k].end)
      pieces[k \in 0 .. n] ==
        IF k = 0 THEN <<>>
        ELSE pieces[k - 1] \o <<Slice(at(k - 1), spans[k].start)>>
             \o [g \in 1 .. groups |-> ReText(ReGroups(spans[k])[g])]
      rest == Slice(at(n), Len(haystack))
  IN  /\ call.verb = "subn" => reply = [text |-> sub[n] \o rest, made |-> n]
      /\ call.verb = "split" => reply = pieces[n] \o <<rest>>
      /\ call.verb = "findall" =>
           LET found == ReSpans(call.pos, call.last)
           IN  reply = [k \in 1 .. Len(found) |->
                          IF groups = 0 THEN Slice(found[k].start, found[k].end)
                          ELSE ReText(ReGroups(found[k])[1])]
=============================================================================
