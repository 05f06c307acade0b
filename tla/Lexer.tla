------------------------------- MODULE Lexer -------------------------------
(***************************************************************************)
(* The lexer plane of the Python binding: Munch and Scan of _munch.py,     *)
(* fullmatch and Scanner of _anchored.py.                                  *)
(*                                                                         *)
(* A subject is a sequence over Letter, each letter as wide as Width says  *)
(* in the bytes the engine counts.  A terminal is the set of words it      *)
(* accepts, given by Language; one that the engine declines to seat is in  *)
(* Declined (external).  A pattern for fullmatch is an ordered choice of   *)
(* languages, each with or without a leading ^.                            *)
(***************************************************************************)
EXTENDS Naturals, Sequences, FiniteSets

CONSTANTS Letter, Width, Terminal, Language, Declined, MaxSubject, MaxSlate

ASSUME LexerAssumption == /\ Width \in [Letter -> Nat \ {0}]
                          /\ MaxSubject \in Nat /\ MaxSlate \in Nat
                          /\ Declined \subseteq Terminal

VARIABLES subject,  \* what is lexed
          slate,    \* the terminals compile_munch was given
          scanning,    \* the call
          token     \* its answer
lexVars == <<subject, slate, scanning, token>>

NoToken == [kind |-> "none"]

LexWords(n) == UNION {[1 .. k -> Letter] : k \in 0 .. n}

LexInit ==
  /\ subject \in LexWords(MaxSubject)
  /\ slate \in UNION {[1 .. k -> Terminal] : k \in 1 .. MaxSlate}
  /\ scanning = [verb |-> "none"]
  /\ token = NoToken

LargestOf(S)  == CHOOSE x \in S : \A y \in S : y <= x
SmallestOf(S) == CHOOSE x \in S : \A y \in S : x <= y

byteOf[w \in Seq(Letter), i \in Nat] ==
  IF i = 0 \/ w = <<>> THEN 0 ELSE Width[Head(w)] + byteOf[Tail(w), i - 1]
At(i)      == byteOf[subject, i]
CharOf(b)  == CHOOSE i \in 0 .. Len(subject) : At(i) = b

(* What terminal t accepts of the subject cut at character `last`, as the  *)
(* byte it reaches from byte b (external: the determinized machine).       *)
Reached(t, b, last) ==
  {At(j) : j \in {j \in CharOf(b) .. last : SubSeq(subject, CharOf(b) + 1, j) \in Language[t]}}

---------------------------------------------------------------------------
(* The compile seats what it can; a slate with nothing seated is refused.  *)
Seated    == {i \in 1 .. Len(slate) : slate[i] \notin Declined}
declined  == SelectSeq([i \in 1 .. Len(slate) |-> i], LAMBDA i : i \notin Seated)

(* irgx_munch_scan: the longest reading, or the shortest that is not       *)
(* empty, among the permitted, and everyone who reads that much.           *)
munch_scan(b, last, permitted, pick) ==
  LET reach == UNION {Reached(slate[i], b, last) : i \in Seated \cap permitted}
      readings == IF pick = "shortest" THEN reach \ {b} ELSE reach
      to == IF pick = "shortest" THEN SmallestOf(readings) ELSE LargestOf(readings)
  IN  IF readings = {} THEN NoToken
      ELSE [kind |-> "token", length |-> to - b,
            patterns |-> {i \in Seated \cap permitted : to \in Reached(slate[i], b, last)}]

(* Scan.token: the cursor and the length are in the caller's units.        *)
(* A fault: the engine's own units.                                        *)
LengthInBytes(at, found) == found.length

LengthOf(at, found) == CharOf(At(at) + found.length) - at

TokenAt(at, permitted, pick) ==
  IF at > Len(subject) THEN [kind |-> "IndexError"]
  ELSE IF Seated = {} \/ permitted = {} THEN NoToken
  ELSE LET found == munch_scan(At(at), Len(subject), permitted, pick)
       IN  IF found = NoToken THEN NoToken
           ELSE [found EXCEPT !.length = LengthOf(at, found)]

(* Scanner.scan: maximal munch from the left, ending where nothing is      *)
(* accepted or only the empty word is.  Rule 1's action discards.          *)
Stops(tok) == tok = NoToken \/ tok.length = 0

(* Of the rules that reach as far, the first declared.                     *)
FirstDeclared(tok) == SmallestOf(tok.patterns)

ScanFrom ==
  LET scan[at \in 0 .. Len(subject)] ==
        IF at = Len(subject) THEN [results |-> <<>>, rest |-> at]
        ELSE LET tok == TokenAt(at, 1 .. Len(slate), "longest")
             IN  IF Stops(tok) THEN [results |-> <<>>, rest |-> at]
                 ELSE LET next == scan[at + tok.length]
                      IN  [results |-> <<[rule |-> FirstDeclared(tok), from |-> at,
                                          to |-> at + tok.length]>> \o next.results,
                           rest |-> next.rest]
  IN  scan[0]

---------------------------------------------------------------------------
(* fullmatch.  The pattern is slate read as an ordered choice; hat is the  *)
(* set of its alternatives that begin with ^.  A search reads ^ at byte 0  *)
(* only, the machine a slate is determinized into at its cursor.           *)
MatchesOf(hat, i, from, to) ==
    (i \in hat => from = 0) /\ SubSeq(subject, from + 1, to) \in Language[slate[i]]

(* The leftmost-first match of the text cut at `last`, from `first` on     *)
(* (external): an alternative takes its longest reading.                   *)
Leftmost(hat, first, last) ==
  LET starts == {s \in first .. last :
                   \E i \in 1 .. Len(slate), e \in s .. last : MatchesOf(hat, i, s, e)}
      s == SmallestOf(starts)
      i == SmallestOf({i \in 1 .. Len(slate) : \E e \in s .. last : MatchesOf(hat, i, s, e)})
  IN  IF starts = {} THEN NoToken
      ELSE [kind |-> "token", from |-> s,
            to |-> LargestOf({e \in s .. last : MatchesOf(hat, i, s, e)})]

(* A leftmost match that begins elsewhere proves nothing begins at first.  *)
BeginsElsewhere(first, leftmost) ==
  first # 0 /\ (leftmost = NoToken \/ leftmost.from # first)

Full(hat, groups, pos, endpos) ==
  LET first    == IF pos < Len(subject) THEN pos ELSE Len(subject)
      last     == IF endpos < Len(subject) THEN endpos ELSE Len(subject)
      reach    == munch_scan(At(first), last, 1 .. Len(slate), "longest")
      leftmost == IF first # 0 \/ groups THEN Leftmost(hat, first, last) ELSE NoToken
  IN  IF first > last THEN NoToken
      ELSE IF Seated # 1 .. Len(slate) THEN [kind |-> "refused"]
      ELSE IF reach = NoToken \/ At(first) + reach.length # At(last) THEN NoToken
      ELSE IF BeginsElsewhere(first, leftmost) THEN NoToken
      ELSE IF groups /\ leftmost # NoToken /\ <<leftmost.from, leftmost.to>> # <<first, last>>
      THEN [kind |-> "refused"]
      ELSE [kind |-> "token", from |-> first, to |-> last]

---------------------------------------------------------------------------
Asks(call, answer) ==
/\ scanning.verb = "none" /\ scanning' = call /\ token' = answer
/\ UNCHANGED <<subject, slate>>

Token1 == \E at \in 0 .. MaxSubject + 1, permitted \in SUBSET (1 .. Len(slate)),
             pick \in {"longest", "shortest"} :
  Asks([verb |-> "token", at |-> at, permitted |-> permitted, pick |-> pick],
       IF Seated = {} THEN [kind |-> "unsupported"] ELSE TokenAt(at, permitted, pick))

(* A scanner with a declined terminal is refused when it is built.         *)
Scan == Asks([verb |-> "scan"],
             IF declined # <<>> THEN [kind |-> "refused"]
             ELSE [kind |-> "scanned", scan |-> ScanFrom])

fullmatch == \E hat \in SUBSET (1 .. Len(slate)), groups \in BOOLEAN,
                pos, endpos \in 0 .. MaxSubject :
  Asks([verb |-> "fullmatch", hat |-> hat, groups |-> groups, pos |-> pos, endpos |-> endpos],
       Full(hat, groups, pos, endpos))

LexNext == Token1 \/ Scan \/ fullmatch

---------------------------------------------------------------------------
(* A token is the longest word the permitted rules accept at the cursor   *)
(* (or the shortest that is not empty), in the caller's units, with every  *)
(* rule that reads it.  A scan cuts the text, with nothing left out, into  *)
(* the longest word any rule accepts at each cursor, the first declared of *)
(* those that reach that far; what it leaves begins where no rule accepts  *)
(* a word that is not empty (_munch.py 200-245, _anchored.py 215-236).     *)
LexIsMunch ==
  LET accepts(i, from, to) == slate[i] \notin Declined
                              /\ SubSeq(subject, from + 1, to) \in Language[slate[i]]
  IN
  /\ scanning.verb = "token" /\ token.kind \in {"none", "token"} =>
          LET at == scanning.at
              ends == {to \in at .. Len(subject) : \E i \in scanning.permitted : accepts(i, at, to)}
                      \ (IF scanning.pick = "shortest" THEN {at} ELSE {})
          IN  /\ token.kind = "none" <=> ends = {}
              /\ token.kind = "token" =>
                   /\ at + token.length \in ends
                   /\ \A to \in ends : IF scanning.pick = "shortest" THEN at + token.length <= to
                                       ELSE to <= at + token.length
                   /\ token.patterns = {i \in scanning.permitted : accepts(i, at, at + token.length)}
  /\ scanning.verb = "scan" /\ token.kind = "scanned" =>
          LET out == token.scan.results
              end == token.scan.rest
          IN  /\ \A k \in 1 .. Len(out) :
                   /\ out[k].from = (IF k = 1 THEN 0 ELSE out[k - 1].to)
                   /\ out[k].from < out[k].to
                   /\ accepts(out[k].rule, out[k].from, out[k].to)
                   /\ \A i \in 1 .. Len(slate), to \in out[k].to .. Len(subject) :
                        accepts(i, out[k].from, to) => to = out[k].to /\ i >= out[k].rule
              /\ end = (IF out = <<>> THEN 0 ELSE out[Len(out)].to)
              /\ \A i \in 1 .. Len(slate), to \in end + 1 .. Len(subject) : ~accepts(i, end, to)

(* fullmatch answers what `re` does for the region: a match exactly when   *)
(* some alternative accepts all of it, ^ holding at the text's beginning   *)
(* only; and it refuses rather than report groups of another match.  The   *)
(* patterns are those whose alternatives begin with ^ all or none:         *)
(* elsewhere an alternative without it can begin the leftmost match where  *)
(* the slate's longest took the one with it (_anchored.py 96-178).         *)
FullIsRe ==
  scanning.verb = "fullmatch" /\ scanning.hat \in {{}, 1 .. Len(slate)} =>
       LET first == IF scanning.pos < Len(subject) THEN scanning.pos ELSE Len(subject)
           last  == IF scanning.endpos < Len(subject) THEN scanning.endpos ELSE Len(subject)
           whole == /\ first <= last
                    /\ \E i \in 1 .. Len(slate) : MatchesOf(scanning.hat, i, first, last)
       IN  /\ token.kind = "token" => whole /\ token.from = first /\ token.to = last
           /\ token.kind = "none" => ~whole
           /\ token.kind = "refused" /\ declined = <<>> =>
                scanning.groups /\ whole /\ Leftmost(scanning.hat, first, last).to # last
=============================================================================
