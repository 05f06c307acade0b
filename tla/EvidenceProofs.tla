--------------------------- MODULE EvidenceProofs ---------------------------
(***************************************************************************)
(* The evidence of CREST, part by part: what the snapshot of a checkout, a *)
(* report of mutations, a staged run, a package of evidence and a          *)
(* published directory are promised, for every checkout, every catalogue   *)
(* of mutants, every set of files and every number of writes meanwhile.    *)
(***************************************************************************)
EXTENDS Snapshot, Mutants, Staging, Evidence, Publication, FiniteSetTheorems,
        SequenceTheorems, TLAPS

------------------------------------------------------------------------------
\* Snapshot. What a campaign is of stood in the checkout at one instant.

\* The paths of the checkout.
SnapNames == PathsOf(TreeNames)

\* The stages after the first pass of hashing.
Rehashing == {"copy", "list again", "hash again", "git again", "judge"}

\* The checkout.
CheckoutTyped ==
  /\ workTree \in [SnapNames -> Nat] /\ head \in Nat /\ treeMoves \in Nat
  /\ \A p \in SnapNames : workTree[p] <= treeMoves + 1
  /\ Instant \in seen

\* What git said, at most twice.
LooksTyped ==
  /\ snapStage = "git" => looks = <<>>
  /\ snapStage \in {"list", "hash"} \cup Rehashing =>
       /\ looks[1][1] \in Nat /\ looks[1][1] <= head
       /\ snapStage # "judge" => looks = <<looks[1]>>
       /\ snapStage = "judge" => looks[2][1] \in Nat

\* The listing, taken at most twice.
ListingTyped ==
  /\ snapStage \in {"git", "list"} => listing = <<>>
  /\ snapStage \in {"hash", "copy", "list again"} => listing = <<listing[1]>>

\* What the passes hashed.
HashesTyped ==
  /\ hashedTree \in Seq(Seq(Nat)) /\ Len(hashedTree) = 2 /\ copied \in Seq(Nat)
  /\ snapStage \in {"git", "list", "hash", "copy", "list again"} => hashedTree[2] = <<>>
  /\ snapStage \in {"git", "list", "hash"} => copied = <<>>
  /\ Len(hashedTree[2]) <= Len(TreeNames) /\ Len(copied) <= Len(TreeNames)
  /\ Len(hashedTree[1]) <= Len(TreeNames)
  /\ snapStage \in Rehashing => Len(hashedTree[1]) = Len(TreeNames)
  /\ \A i \in 1 .. Len(hashedTree[1]) : hashedTree[1][i] <= treeMoves + 1
  /\ snapStage \notin {"done"} => identity = NoIdentity

\* what was hashed first and is there still was there at this instant
Stood(now) ==
  \A i \in 1 .. Len(hashedTree[1]) :
    /\ TreeNames[i] \in listing[1] /\ hashedTree[1][i] # Missing
    /\ workTree[TreeNames[i]] = hashedTree[1][i]
    => now[2][TreeNames[i]] = hashedTree[1][i]
\* and so was what was hashed twice and is the same
StoodTwice(now) ==
  \A i \in 1 .. Len(hashedTree[2]) :
    /\ TreeNames[i] \in listing[1] \cap listing[2] /\ hashedTree[1][i] # Missing
    /\ hashedTree[2][i] = hashedTree[1][i]
    => now[2][TreeNames[i]] = hashedTree[1][i]

\* One instant lies between the end of the first pass and the start of the
\* second: what the first pass saw stood.
Between(now) ==
  /\ now[1][1] \in Nat /\ looks[1][1] <= now[1][1] /\ now[1][1] <= head
  /\ snapStage = "judge" => /\ now[1][1] <= looks[2][1]
                            /\ Len(hashedTree[2]) = Len(TreeNames)
  /\ Stood(now) /\ StoodTwice(now)

\* Once the first pass is over there was such an instant.
OneInstant == snapStage \in Rehashing => \E now \in seen : Between(now)

\* A listed file without bytes was missing when a pass or the copy came to it.
MissingOnce ==
  snapStage \in Rehashing =>
    \A i \in 1 .. Len(copied) :
      TreeNames[i] \in listing[1] /\ copied[i] = Missing => \E now \in seen : now[2][TreeNames[i]] = Missing

\* The second pass has seen every name before git is asked again.
TwiceDone == snapStage = "git again" => Len(hashedTree[2]) = Len(TreeNames)

\* The strengthening of IdentityOfOneInstant.
SnapInv == /\ CheckoutTyped /\ LooksTyped /\ ListingTyped /\ HashesTyped
           /\ OneInstant /\ MissingOnce /\ TwiceDone /\ IdentityOfOneInstant

\* The walk of the names is a sequence of them, each once.
LEMMA NamesTyped == /\ TreeNames \in Seq(SnapNames)
                    /\ \A i \in 1 .. Len(TreeNames) : TreeNames[i] \in SnapNames
  <1>1. TreeNames \in Seq(PathsOf(Tracked) \cup PathsOf(Untracked))
    <2>1. Tracked \in Seq(PathsOf(Tracked) \cup PathsOf(Untracked))
      BY SnapshotAssumption, SeqMonotonic
    <2>2. Untracked \in Seq(PathsOf(Tracked) \cup PathsOf(Untracked))
      BY SnapshotAssumption, SeqMonotonic
    <2> QED
      BY <2>1, <2>2 DEF TreeNames
  <1>2. DOMAIN TreeNames = 1 .. Len(TreeNames)
    BY <1>1, LenProperties
  <1>3. \A i \in 1 .. Len(TreeNames) : TreeNames[i] \in SnapNames
    BY <1>2 DEF SnapNames, PathsOf
  <1> QED
    BY <1>1, <1>3, SeqDef DEF SnapNames

\* A second element makes a pair.
LEMMA AppendSecond == ASSUME NEW x, NEW y PROVE Append(<<x>>, y) = <<x, y>>
  <1> DEFINE S == {x, y}
  <1>1. <<x>> \in Seq(S) /\ <<x, y>> \in Seq(S) /\ y \in S /\ Len(<<x>>) = 1 /\ Len(<<x, y>>) = 2
    OBVIOUS
  <1> HIDE DEF S
  <1>2. /\ Append(<<x>>, y) \in Seq(S) /\ Len(Append(<<x>>, y)) = 2
        /\ Append(<<x>>, y)[1] = x /\ Append(<<x>>, y)[2] = y
    BY <1>1, AppendProperties
  <1>3. \A i \in 1 .. Len(Append(<<x>>, y)) : Append(<<x>>, y)[i] = <<x, y>>[i]
    BY <1>2
  <1> DEFINE a == Append(<<x>>, y)
             b == <<x, y>>
  <1>4. a \in Seq(S) /\ b \in Seq(S) /\ Len(a) = Len(b) /\ \A i \in 1 .. Len(a) : a[i] = b[i]
    BY <1>1, <1>2, <1>3
  <1> HIDE DEF a, b
  <1>5. a = b
    BY <1>4, SeqEqual
  <1> QED
    BY <1>5 DEF a, b

\* Replacing one of a pair.
LEMMA PairExcept ==
    ASSUME NEW S, NEW t \in Seq(S), Len(t) = 2, NEW x \in S
    PROVE  /\ [t EXCEPT ![1] = x] \in Seq(S) /\ Len([t EXCEPT ![1] = x]) = 2
           /\ [t EXCEPT ![1] = x][1] = x /\ [t EXCEPT ![1] = x][2] = t[2]
           /\ [t EXCEPT ![2] = x] \in Seq(S) /\ Len([t EXCEPT ![2] = x]) = 2
           /\ [t EXCEPT ![2] = x][1] = t[1] /\ [t EXCEPT ![2] = x][2] = x
  <1>1. 1 \in 1 .. Len(t) /\ 2 \in 1 .. Len(t)
    OBVIOUS
  <1> QED
    BY <1>1, ExceptSeq

\* Each pass is a sequence.
LEMMA HashSeqs == HashesTyped => hashedTree[1] \in Seq(Nat) /\ hashedTree[2] \in Seq(Nat)
  <1> SUFFICES ASSUME HashesTyped PROVE hashedTree[1] \in Seq(Nat) /\ hashedTree[2] \in Seq(Nat)
    OBVIOUS
  <1>0. hashedTree \in Seq(Seq(Nat)) /\ Len(hashedTree) = 2
    BY DEF HashesTyped
  <1>1. hashedTree \in Seq(Seq(Nat)) /\ 1 \in 1 .. Len(hashedTree) /\ 2 \in 1 .. Len(hashedTree)
    BY <1>0
  <1> QED
    BY <1>1, ElementOfSeq

\* What the invariant says is IdentityOfOneInstant.
LEMMA SnapInvImplies == SnapInv => IdentityOfOneInstant
  BY DEF SnapInv

\* Before the first look nothing is known.
LEMMA SnapInitInv == SnapshotInit => SnapInv
  <1> SUFFICES ASSUME SnapshotInit PROVE SnapInv
    OBVIOUS
  <1>1. CheckoutTyped
    BY SnapshotAssumption DEF SnapshotInit, CheckoutTyped, SnapNames, Missing
  <1>2. LooksTyped /\ ListingTyped
    BY DEF SnapshotInit, LooksTyped, ListingTyped, Rehashing
  <1>3. HashesTyped
    <2>1. hashedTree[1] = <<>> /\ hashedTree[2] = <<>> /\ Len(TreeNames) \in Nat
      BY NamesTyped, LenProperties DEF SnapshotInit
    <2> QED
      BY <2>1 DEF SnapshotInit, HashesTyped, Rehashing
  <1>4. OneInstant /\ MissingOnce /\ TwiceDone
    BY DEF SnapshotInit, OneInstant, MissingOnce, TwiceDone, Rehashing
  <1>5. IdentityOfOneInstant
    BY DEF SnapshotInit, IdentityOfOneInstant, NoIdentity
  <1> QED
    BY <1>1, <1>2, <1>3, <1>4, <1>5 DEF SnapInv

(* A file that changes has a version nobody has read yet, or none.          *)
LEMMA CheckoutMoves ==
    ASSUME SnapInv, Moving, head' \in Nat, head <= head',
           workTree' \in [SnapNames -> Nat],
           \A p \in SnapNames : workTree'[p] \in {workTree[p], Missing, treeMoves + 2}
    PROVE  SnapInv'
  <1>0. /\ CheckoutTyped /\ LooksTyped /\ ListingTyped /\ HashesTyped /\ OneInstant
        /\ MissingOnce /\ TwiceDone /\ IdentityOfOneInstant
    BY DEF SnapInv
  <1>1. /\ treeMoves' = treeMoves + 1 /\ seen' = seen \cup {Instant'} /\ snapStage # "done"
        /\ looks' = looks /\ listing' = listing /\ hashedTree' = hashedTree /\ copied' = copied
        /\ snapStage' = snapStage /\ identity' = identity
        /\ treeMoves \in Nat
    BY <1>0 DEF Moving, CheckoutTyped
  <1>2. CheckoutTyped'
    BY <1>0, <1>1 DEF CheckoutTyped, Missing, SnapNames
  <1>3. LooksTyped'
    <2>1. head \in Nat /\ head' \in Nat /\ head <= head'
      BY <1>0 DEF CheckoutTyped
    <2>2. looks[1][1] \in Nat /\ looks[1][1] <= head => looks[1][1] <= head'
      BY <2>1
    <2> QED
      BY <1>0, <1>1, <2>1, <2>2 DEF LooksTyped, Rehashing
  <1>4. ListingTyped'
    BY <1>0, <1>1 DEF ListingTyped
  <1>5. HashesTyped'
    <2>1. \A i \in 1 .. Len(hashedTree[1]) : hashedTree[1][i] <= treeMoves' + 1
      <3> SUFFICES ASSUME NEW i \in 1 .. Len(hashedTree[1]) PROVE hashedTree[1][i] <= treeMoves' + 1
        OBVIOUS
      <3>1. hashedTree[1][i] <= treeMoves + 1 /\ hashedTree[1][i] \in Nat
        BY <1>0, HashSeqs, ElementOfSeq DEF HashesTyped
      <3> QED
        BY <1>1, <3>1
    <2> QED
      BY <1>0, <1>1, <2>1 DEF HashesTyped, Rehashing
  <1>6. OneInstant'
    <2> SUFFICES ASSUME snapStage \in Rehashing PROVE \E now \in seen' : Between(now)'
      BY <1>1 DEF OneInstant
    <2>1. PICK now \in seen : Between(now)
      BY <1>0 DEF OneInstant
    <2>2. Stood(now)'
      <3> SUFFICES ASSUME NEW i \in 1 .. Len(hashedTree[1]),
                          TreeNames[i] \in listing[1], hashedTree[1][i] # Missing,
                          workTree'[TreeNames[i]] = hashedTree[1][i]
                   PROVE  now[2][TreeNames[i]] = hashedTree[1][i]
        BY <1>1 DEF Stood
      <3>1. hashedTree[1][i] <= treeMoves + 1 /\ hashedTree[1][i] \in Nat
        BY <1>0, HashSeqs, ElementOfSeq DEF HashesTyped
      <3>2. TreeNames[i] \in SnapNames
        <4>1. Len(hashedTree[1]) <= Len(TreeNames) /\ Len(TreeNames) \in Nat /\ Len(hashedTree[1]) \in Nat
          BY <1>0, NamesTyped, LenProperties DEF HashesTyped
        <4>2. i \in 1 .. Len(TreeNames)
          BY <4>1
        <4> QED
          BY <4>2, NamesTyped
      <3>3. workTree[TreeNames[i]] = hashedTree[1][i]
        BY <1>1, <3>1, <3>2
      <3> QED
        BY <2>1, <3>3 DEF Between, Stood
    <2>3. StoodTwice(now)'
      BY <1>1, <2>1 DEF StoodTwice, Between
    <2>4. now[1][1] <= head' /\ now[1][1] \in Nat
      BY <1>0, <2>1 DEF Between, CheckoutTyped
    <2> QED
      BY <1>1, <2>1, <2>2, <2>3, <2>4 DEF Between
  <1>7. MissingOnce' /\ TwiceDone'
    BY <1>0, <1>1 DEF MissingOnce, TwiceDone, Rehashing
  <1>8. IdentityOfOneInstant'
    BY <1>0, <1>1 DEF IdentityOfOneInstant
  <1> QED
    BY <1>2, <1>3, <1>4, <1>5, <1>6, <1>7, <1>8 DEF SnapInv

\* An edit, an add and a commit by others keep the invariant.
LEMMA OthersMove ==
    ASSUME SnapInv, Commit \/ \E p \in SnapNames : Write(p)
    PROVE  SnapInv'
  <1>1. workTree \in [SnapNames -> Nat] /\ head \in Nat /\ treeMoves \in Nat
    BY DEF SnapInv, CheckoutTyped
  <1>2. CASE Commit
    BY <1>1, <1>2, CheckoutMoves DEF Commit
  <1>3. ASSUME NEW p \in SnapNames, Write(p) PROVE SnapInv'
    <2>1. PICK v \in {Missing, treeMoves + 2} : workTree' = [workTree EXCEPT ![p] = v]
      BY <1>3 DEF Write
    <2>2. v \in Nat
      BY <1>1 DEF Missing
    <2>3. workTree' \in [SnapNames -> Nat]
          /\ \A q \in SnapNames : workTree'[q] \in {workTree[q], Missing, treeMoves + 2}
      BY <1>1, <2>1, <2>2
    <2> QED
      BY <1>1, <1>3, <2>3, CheckoutMoves DEF Write
  <1> QED
    BY <1>2, <1>3

(* What the capture does leaves the checkout alone. *)
LEMMA CheckoutStays ==
    ASSUME CheckoutTyped, UNCHANGED checkout
    PROVE  CheckoutTyped' /\ seen' = seen /\ head' = head /\ treeMoves' = treeMoves /\ workTree' = workTree
  BY DEF CheckoutTyped, checkout, Instant, GitState, StatusOf, SnapNames

\* Asking git for its head keeps it.
LEMMA LookSteps == ASSUME SnapInv, Look PROVE SnapInv'
  <1>0. /\ CheckoutTyped /\ LooksTyped /\ ListingTyped /\ HashesTyped /\ OneInstant
        /\ MissingOnce /\ TwiceDone /\ IdentityOfOneInstant
    BY DEF SnapInv
  <1>1. /\ CheckoutTyped' /\ seen' = seen /\ head' = head /\ treeMoves' = treeMoves /\ workTree' = workTree
        /\ looks' = Append(looks, GitState) /\ listing' = listing /\ hashedTree' = hashedTree
        /\ copied' = copied /\ identity' = identity
    BY <1>0, CheckoutStays DEF Look
  <1>2. GitState[1] = head /\ head \in Nat
    BY <1>0 DEF GitState, CheckoutTyped
  <1>3. CASE snapStage = "git"
    <2>1. snapStage' = "list" /\ looks' = <<GitState>>
      BY <1>0, <1>1, <1>3 DEF Look, LooksTyped
    <2>2. LooksTyped' /\ ListingTyped'
      BY <1>0, <1>1, <1>2, <1>3, <2>1 DEF LooksTyped, ListingTyped, Rehashing
    <2>3. HashesTyped'
      BY <1>0, <1>1, <1>3, <2>1 DEF HashesTyped, Rehashing
    <2>4. OneInstant' /\ MissingOnce' /\ TwiceDone'
      BY <2>1 DEF OneInstant, MissingOnce, TwiceDone, Rehashing
    <2>5. IdentityOfOneInstant'
      BY <1>0, <1>1 DEF IdentityOfOneInstant
    <2> QED
      BY <1>1, <2>2, <2>3, <2>4, <2>5 DEF SnapInv
  <1>4. CASE snapStage = "git again"
    <2>0. looks = <<looks[1]>>
      BY <1>0, <1>4 DEF LooksTyped, Rehashing
    <2>1. snapStage' = "judge" /\ looks' = <<looks[1], GitState>>
      <3>1. snapStage' = "judge"
        BY <1>4 DEF Look
      <3> DEFINE first == looks[1]
      <3>2. looks = <<first>>
        BY <2>0
      <3> HIDE DEF first
      <3>3. looks' = <<first, GitState>>
        BY <1>1, <3>2, AppendSecond
      <3> QED
        BY <3>1, <3>3 DEF first
    <2>2. looks'[1] = looks[1] /\ looks'[2][1] = head
      BY <1>2, <2>1
    <2>3. LooksTyped' /\ ListingTyped'
      BY <1>0, <1>1, <1>2, <1>4, <2>1, <2>2 DEF LooksTyped, ListingTyped, Rehashing
    <2>4. HashesTyped'
      BY <1>0, <1>1, <1>4, <2>1 DEF HashesTyped, Rehashing
    <2>5. OneInstant'
      <3>1. PICK now \in seen : Between(now)
        BY <1>0, <1>4 DEF OneInstant, Rehashing
      <3>2. Stood(now)' /\ StoodTwice(now)'
        BY <1>1, <3>1 DEF Between, Stood, StoodTwice
      <3>3. Len(hashedTree[2]) = Len(TreeNames)
        BY <1>0, <1>4 DEF TwiceDone
      <3>4. Between(now)'
        BY <1>1, <2>1, <2>2, <3>1, <3>2, <3>3 DEF Between
      <3> QED
        BY <1>1, <3>4 DEF OneInstant
    <2>6. MissingOnce' /\ TwiceDone'
      BY <1>0, <1>1, <1>4, <2>1 DEF MissingOnce, TwiceDone, Rehashing
    <2>7. IdentityOfOneInstant'
      BY <1>0, <1>1 DEF IdentityOfOneInstant
    <2> QED
      BY <1>1, <2>3, <2>4, <2>5, <2>6, <2>7 DEF SnapInv
  <1> QED
    BY <1>3, <1>4 DEF Look

\* Listing keeps it.
LEMMA ListedSteps == ASSUME SnapInv, List PROVE SnapInv'
  <1>0. /\ CheckoutTyped /\ LooksTyped /\ ListingTyped /\ HashesTyped /\ OneInstant
        /\ MissingOnce /\ TwiceDone /\ IdentityOfOneInstant
    BY DEF SnapInv
  <1>1. /\ CheckoutTyped' /\ seen' = seen /\ head' = head /\ treeMoves' = treeMoves /\ workTree' = workTree
        /\ listing' = Append(listing, source_paths) /\ looks' = looks /\ hashedTree' = hashedTree
        /\ copied' = copied /\ identity' = identity
    BY <1>0, CheckoutStays DEF List
  <1>3. CASE snapStage = "list"
    <2>1. snapStage' = "hash" /\ listing' = <<source_paths>>
      BY <1>0, <1>1, <1>3 DEF List, ListingTyped
    <2>2. LooksTyped' /\ ListingTyped'
      BY <1>0, <1>1, <1>3, <2>1 DEF LooksTyped, ListingTyped, Rehashing
    <2>3. HashesTyped'
      BY <1>0, <1>1, <1>3, <2>1 DEF HashesTyped, Rehashing
    <2>4. OneInstant' /\ MissingOnce' /\ TwiceDone'
      BY <2>1 DEF OneInstant, MissingOnce, TwiceDone, Rehashing
    <2>5. IdentityOfOneInstant'
      BY <1>0, <1>1 DEF IdentityOfOneInstant
    <2> QED
      BY <1>1, <2>2, <2>3, <2>4, <2>5 DEF SnapInv
  <1>4. CASE snapStage = "list again"
    <2>0. listing = <<listing[1]>>
      BY <1>0, <1>4 DEF ListingTyped
    <2>1. snapStage' = "hash again" /\ listing' = <<listing[1], source_paths>>
      <3>1. snapStage' = "hash again"
        BY <1>4 DEF List
      <3> DEFINE first == listing[1]
      <3>2. listing = <<first>>
        BY <2>0
      <3> HIDE DEF first
      <3>3. listing' = <<first, source_paths>>
        BY <1>1, <3>2, AppendSecond
      <3> QED
        BY <3>1, <3>3 DEF first
    <2>2. listing'[1] = listing[1]
      BY <2>1
    <2>3. LooksTyped' /\ ListingTyped'
      BY <1>0, <1>1, <1>4, <2>1, <2>2 DEF LooksTyped, ListingTyped, Rehashing
    <2>4. HashesTyped'
      BY <1>0, <1>1, <1>4, <2>1 DEF HashesTyped, Rehashing
    <2>5. OneInstant'
      <3>1. PICK now \in seen : Between(now)
        BY <1>0, <1>4 DEF OneInstant, Rehashing
      <3>2. Stood(now)'
        BY <1>1, <2>2, <3>1 DEF Between, Stood
      <3>3. StoodTwice(now)'
        <4>1. hashedTree[2] = <<>>
          BY <1>0, <1>4 DEF HashesTyped
        <4> QED
          BY <1>1, <4>1 DEF StoodTwice
      <3>4. Between(now)'
        BY <1>1, <2>1, <2>2, <3>1, <3>2, <3>3 DEF Between
      <3> QED
        BY <1>1, <3>4 DEF OneInstant
    <2>6. MissingOnce' /\ TwiceDone'
      BY <1>0, <1>1, <1>4, <2>1, <2>2 DEF MissingOnce, TwiceDone, Rehashing
    <2>7. IdentityOfOneInstant'
      BY <1>0, <1>1 DEF IdentityOfOneInstant
    <2> QED
      BY <1>1, <2>3, <2>4, <2>5, <2>6, <2>7 DEF SnapInv
  <1> QED
    BY <1>3, <1>4 DEF List

\* Hashing one file keeps it.
LEMMA HashSteps == ASSUME SnapInv, Hash PROVE SnapInv'
  <1>0. /\ CheckoutTyped /\ LooksTyped /\ ListingTyped /\ HashesTyped /\ OneInstant
        /\ MissingOnce /\ TwiceDone /\ IdentityOfOneInstant
    BY DEF SnapInv
  <1> DEFINE h1 == hashedTree[1]
             h2 == hashedTree[2]
             N == Len(TreeNames)
  <1>1. /\ CheckoutTyped' /\ seen' = seen /\ head' = head /\ treeMoves' = treeMoves /\ workTree' = workTree
        /\ listing' = listing /\ looks' = looks /\ copied' = copied /\ identity' = identity
        /\ snapStage \in {"hash", "hash again"}
    BY <1>0, CheckoutStays DEF Hash
  <1>2. /\ h1 \in Seq(Nat) /\ h2 \in Seq(Nat) /\ N \in Nat
        /\ Len(h1) <= N /\ Len(h2) <= N /\ Len(h1) \in Nat /\ Len(h2) \in Nat
        /\ snapStage = "hash" => h2 = <<>>
        /\ snapStage = "hash again" => Len(h1) = N
        /\ \A i \in 1 .. Len(h1) : h1[i] <= treeMoves + 1
    <2>1. h1 \in Seq(Nat) /\ h2 \in Seq(Nat)
      BY <1>0, HashSeqs, ElementOfSeq DEF HashesTyped
    <2> QED
      BY <1>0, <1>1, <2>1, NamesTyped, LenProperties DEF HashesTyped, Rehashing
  <1>3. IdentityOfOneInstant'
    BY ZenonT(60), <1>0, <1>1 DEF IdentityOfOneInstant
  <1> DEFINE pass == IF snapStage = "hash" THEN 1 ELSE 2
             n == Len(hashedTree[pass])
             p == TreeNames[n + 1]
             r == Reads(listing[pass], p)
  <1>4. CASE n < N /\ hashedTree' = [hashedTree EXCEPT ![pass] = Append(@, r)] /\ snapStage' = snapStage
    <2>0. n \in Nat /\ n + 1 \in 1 .. N /\ p \in SnapNames
      <3>1. n \in Nat /\ n < N /\ N \in Nat
        BY <1>2, <1>4
      <3> HIDE DEF n, N
      <3>2. n + 1 \in 1 .. N
        BY <3>1
      <3> QED
        BY <3>1, <3>2, NamesTyped DEF N
    <2>1. r \in Nat /\ r <= treeMoves + 1
          /\ (p \in listing[pass] => r = workTree[p])
      BY <1>0, <2>0 DEF Reads, CheckoutTyped, Missing
    <2>2. CASE snapStage = "hash"
      <3> DEFINE g == Append(h1, r)
      <3>1. g \in Seq(Nat)
        BY ZenonT(60), <1>2, <2>1, AppendProperties
      <3>2. /\ hashedTree'[1] = g /\ hashedTree'[2] = h2
            /\ hashedTree' \in Seq(Seq(Nat)) /\ Len(hashedTree') = 2
        <4>1. hashedTree' = [hashedTree EXCEPT ![1] = g]
          BY <1>4, <2>2
        <4>2. hashedTree \in Seq(Seq(Nat)) /\ Len(hashedTree) = 2
          BY <1>0 DEF HashesTyped
        <4> HIDE DEF g
        <4> QED
          BY <3>1, <4>1, <4>2, PairExcept
      <3>3. /\ g \in Seq(Nat) /\ Len(g) = Len(h1) + 1 /\ Len(g) <= N
            /\ \A i \in 1 .. Len(g) : g[i] <= treeMoves + 1
        <4>1. /\ Len(h1) < N /\ h1 \in Seq(Nat) /\ Len(h1) \in Nat /\ N \in Nat /\ r \in Nat
              /\ \A i \in 1 .. Len(h1) : h1[i] <= treeMoves + 1
              /\ r <= treeMoves + 1
          BY <1>2, <1>4, <2>1, <2>2
        <4> HIDE DEF h1, r, N
        <4>2. /\ g \in Seq(Nat) /\ Len(g) = Len(h1) + 1 /\ Len(g) <= N
              /\ \A i \in 1 .. Len(h1) : g[i] = h1[i]
              /\ g[Len(h1) + 1] = r
          BY <4>1, AppendProperties
        <4> HIDE DEF g
        <4>3. ASSUME NEW i \in 1 .. Len(g) PROVE g[i] <= treeMoves + 1
          <5>1. i \in 1 .. Len(h1) \/ i = Len(h1) + 1
            BY <4>1, <4>2
          <5> QED
            BY <4>1, <4>2, <5>1
        <4> QED
          BY <4>2, <4>3
      <3>4. HashesTyped'
        <4>1. h2 = <<>> /\ snapStage' = "hash"
          BY <1>2, <1>4, <2>2
        <4> HIDE DEF h1, h2, g
        <4> QED
          BY <1>0, <1>1, <1>2, <2>2, <3>2, <3>3, <4>1 DEF HashesTyped, Rehashing
      <3>5. LooksTyped' /\ ListingTyped'
        BY <1>0, <1>1, <1>4, <2>2 DEF LooksTyped, ListingTyped, Rehashing
      <3>6. OneInstant' /\ MissingOnce' /\ TwiceDone'
        BY <1>4, <2>2 DEF OneInstant, MissingOnce, TwiceDone, Rehashing
      <3> QED
        BY <1>1, <1>3, <3>4, <3>5, <3>6 DEF SnapInv
    <2>3. CASE snapStage = "hash again"
      <3> DEFINE g == Append(h2, r)
      <3>1. g \in Seq(Nat)
        BY ZenonT(60), <1>2, <2>1, AppendProperties
      <3>2. /\ hashedTree'[2] = g /\ hashedTree'[1] = h1
            /\ hashedTree' \in Seq(Seq(Nat)) /\ Len(hashedTree') = 2
        <4>1. hashedTree' = [hashedTree EXCEPT ![2] = g]
          BY <1>4, <2>3
        <4>2. hashedTree \in Seq(Seq(Nat)) /\ Len(hashedTree) = 2
          BY <1>0 DEF HashesTyped
        <4> HIDE DEF g
        <4> QED
          BY <3>1, <4>1, <4>2, PairExcept
      <3>3. /\ g \in Seq(Nat) /\ Len(g) = Len(h2) + 1 /\ Len(g) <= N
            /\ \A i \in 1 .. Len(h2) : g[i] = h2[i]
            /\ g[Len(h2) + 1] = r
        <4>1. Len(h2) < N /\ h2 \in Seq(Nat) /\ Len(h2) \in Nat /\ N \in Nat /\ r \in Nat
          BY <1>2, <1>4, <2>1, <2>3
        <4> HIDE DEF h2, r, N
        <4> QED
          BY <4>1, AppendProperties
      <3> HIDE DEF g
      <3>4. HashesTyped'
        <4>1. snapStage' = "hash again"
          BY <1>4, <2>3
        <4> HIDE DEF h1, h2
        <4> QED
          BY <1>0, <1>1, <1>2, <2>3, <3>2, <3>3, <4>1 DEF HashesTyped, Rehashing
      <3>5. LooksTyped' /\ ListingTyped'
        BY <1>0, <1>1, <1>4, <2>3 DEF LooksTyped, ListingTyped, Rehashing
      <3>6. MissingOnce' /\ TwiceDone'
        BY <1>0, <1>1, <1>4, <2>3 DEF MissingOnce, TwiceDone, Rehashing
      <3>7. OneInstant'
        <4>1. PICK now \in seen : Between(now)
          BY <1>0, <2>3 DEF OneInstant, Rehashing
        <4>2. Stood(now)'
          BY <1>1, <3>2, <4>1 DEF Between, Stood
        <4>3. StoodTwice(now)'
          <5> SUFFICES ASSUME NEW i \in 1 .. Len(g),
                              TreeNames[i] \in listing[1] \cap listing[2],
                              h1[i] # Missing, g[i] = h1[i]
                       PROVE  now[2][TreeNames[i]] = h1[i]
            BY <1>1, <3>2 DEF StoodTwice
          <5>1. CASE i \in 1 .. Len(h2)
            BY <3>3, <4>1, <5>1 DEF Between, StoodTwice
          <5>2. CASE i = Len(h2) + 1
            <6>1. TreeNames[i] = p
              BY <2>3, <5>2
            <6>2. g[i] = r /\ pass = 2
              BY <2>3, <3>3, <5>2
            <6>3. g[i] = workTree[p]
              BY <2>1, <6>1, <6>2
            <6>4. i \in 1 .. Len(h1)
              <7>1. /\ Len(g) <= N /\ Len(h1) = N /\ N \in Nat /\ Len(g) \in Nat
                BY <1>2, <2>3, <3>3, LenProperties
              <7> HIDE DEF h1, N
              <7> QED
                BY <7>1
            <6>5. p \in listing[1] /\ h1[i] # Missing /\ workTree[p] = h1[i]
              BY <6>1, <6>3
            <6> HIDE DEF p, h1, g, pass
            <6>6. Stood(now)
              BY <4>1 DEF Between
            <6> QED
              BY <6>1, <6>4, <6>5, <6>6 DEF Stood, h1
          <5>3. i \in 1 .. Len(h2) \/ i = Len(h2) + 1
            <6>1. Len(g) = Len(h2) + 1 /\ Len(h2) \in Nat
              BY <1>2, <3>3
            <6> HIDE DEF h2
            <6> QED
              BY <6>1
          <5> QED
            BY <5>1, <5>2, <5>3
        <4> QED
          BY <1>1, <1>4, <2>3, <4>1, <4>2, <4>3 DEF Between, OneInstant
      <3> QED
        BY <1>1, <1>3, <3>4, <3>5, <3>6, <3>7 DEF SnapInv
    <2> QED
      BY <1>1, <2>2, <2>3
  <1>5. CASE snapStage' = "changed" /\ hashedTree' = hashedTree
    <2>1. LooksTyped' /\ ListingTyped' /\ OneInstant' /\ MissingOnce' /\ TwiceDone'
      BY <1>5 DEF LooksTyped, ListingTyped, OneInstant, MissingOnce, TwiceDone, Rehashing
    <2>2. HashesTyped'
      BY <1>0, <1>1, <1>5 DEF HashesTyped, Rehashing
    <2> QED
      BY <1>1, <1>3, <2>1, <2>2 DEF SnapInv
  <1>6. CASE n = N /\ snapStage' = (IF pass = 1 THEN "copy" ELSE "git again") /\ hashedTree' = hashedTree
    <2>1. CASE snapStage = "hash"
      <3>1. snapStage' = "copy" /\ Len(h1) = N
        BY <1>6, <2>1
      <3>2. HashesTyped'
        BY <1>0, <1>1, <1>6, <2>1, <3>1 DEF HashesTyped, Rehashing
      <3>3. LooksTyped' /\ ListingTyped'
        BY <1>0, <1>1, <2>1, <3>1 DEF LooksTyped, ListingTyped, Rehashing
      <3>4. OneInstant'
        <4>1. Instant \in seen /\ Instant[1][1] = head /\ Instant[2] = workTree
          BY <1>0 DEF CheckoutTyped, Instant, GitState
        <4>2. Stood(Instant)'
          BY <1>1, <1>6, <4>1 DEF Stood, Instant, GitState, StatusOf
        <4>3. h2 = <<>>
          BY <1>2, <2>1
        <4>4. StoodTwice(Instant)'
          <5>1. hashedTree'[2] = <<>>
            BY <1>6, <4>3
          <5> QED
            BY <5>1 DEF StoodTwice
        <4>5. looks[1][1] \in Nat /\ looks[1][1] <= head
          BY <1>0, <2>1 DEF LooksTyped
        <4>6. Instant' \in seen'
          BY <1>1 DEF CheckoutTyped
        <4>7. Instant'[1][1] = head /\ head \in Nat
          BY <1>0, <1>1 DEF CheckoutTyped, Instant, GitState
        <4> QED
          <5>0. Instant'[1][1] = head /\ head' = head /\ looks' = looks /\ snapStage' # "judge"
            BY <1>1, <3>1, <4>7
          <5>1. Between(Instant)'
            BY <4>2, <4>4, <4>5, <4>7, <5>0 DEF Between
          <5> QED
            BY <4>6, <5>1 DEF OneInstant
      <3>5. MissingOnce' /\ TwiceDone'
        <4>1. copied' = <<>>
          BY <1>0, <1>1, <2>1 DEF HashesTyped
        <4> QED
          BY <3>1, <4>1 DEF MissingOnce, TwiceDone
      <3> QED
        BY <1>1, <1>3, <3>2, <3>3, <3>4, <3>5 DEF SnapInv
    <2>2. CASE snapStage = "hash again"
      <3>1. snapStage' = "git again" /\ Len(h2) = N
        <4>0. pass = 2 /\ n = Len(h2)
          BY <2>2
        <4>1. ~(pass = 1)
          BY <4>0
        <4>2. n = N
          BY <1>6
        <4>3. Len(h2) = N
          BY <4>0, <4>2
        <4>4. snapStage' = "git again"
          BY <1>6, <4>1
        <4> QED
          BY <4>3, <4>4
      <3>2. HashesTyped'
        BY <1>0, <1>1, <1>6, <2>2, <3>1 DEF HashesTyped, Rehashing
      <3>3. LooksTyped' /\ ListingTyped'
        BY <1>0, <1>1, <2>2, <3>1 DEF LooksTyped, ListingTyped, Rehashing
      <3>4. OneInstant'
        <4>1. PICK now \in seen : Between(now)
          BY <1>0, <2>2 DEF OneInstant, Rehashing
        <4>2. Stood(now)' /\ StoodTwice(now)'
          BY <1>1, <1>6, <4>1 DEF Between, Stood, StoodTwice
        <4> QED
          BY <1>1, <3>1, <4>1, <4>2 DEF Between, OneInstant
      <3>5. MissingOnce' /\ TwiceDone'
        BY <1>0, <1>1, <1>6, <2>2, <3>1 DEF MissingOnce, TwiceDone, Rehashing
      <3> QED
        BY <1>1, <1>3, <3>2, <3>3, <3>4, <3>5 DEF SnapInv
    <2> QED
      BY <1>1, <2>1, <2>2
  <1> QED
    BY <1>4, <1>5, <1>6 DEF Hash, Lost

\* Copying one file keeps it.
LEMMA CopySteps == ASSUME SnapInv, CopyFile PROVE SnapInv'
  <1>0. /\ CheckoutTyped /\ LooksTyped /\ ListingTyped /\ HashesTyped /\ OneInstant
        /\ MissingOnce /\ TwiceDone /\ IdentityOfOneInstant
    BY DEF SnapInv
  <1> DEFINE N == Len(TreeNames)
             n == Len(copied)
             p == TreeNames[n + 1]
             r == Reads(listing[1], p)
  <1>1. /\ CheckoutTyped' /\ seen' = seen /\ head' = head /\ treeMoves' = treeMoves /\ workTree' = workTree
        /\ listing' = listing /\ looks' = looks /\ hashedTree' = hashedTree /\ identity' = identity
        /\ snapStage = "copy"
    BY <1>0, CheckoutStays DEF CopyFile
  <1>2. /\ copied \in Seq(Nat) /\ n <= N /\ n \in Nat /\ N \in Nat
    BY <1>0, NamesTyped, LenProperties DEF HashesTyped
  <1>3. IdentityOfOneInstant'
    BY <1>0, <1>1 DEF IdentityOfOneInstant
  <1>4. CASE snapStage' = "changed" /\ copied' = copied
    <2>1. LooksTyped' /\ ListingTyped' /\ OneInstant' /\ MissingOnce' /\ TwiceDone'
      BY <1>4 DEF LooksTyped, ListingTyped, OneInstant, MissingOnce, TwiceDone, Rehashing
    <2>2. HashesTyped'
      BY <1>0, <1>1, <1>4 DEF HashesTyped, Rehashing
    <2> QED
      BY <1>1, <1>3, <2>1, <2>2 DEF SnapInv
  <1>5. ASSUME snapStage' \in {"copy", "list again"}
        PROVE  LooksTyped' /\ ListingTyped' /\ OneInstant' /\ TwiceDone'
    <2>1. LooksTyped' /\ ListingTyped' /\ TwiceDone'
      BY <1>0, <1>1, <1>5 DEF LooksTyped, ListingTyped, TwiceDone, Rehashing
    <2>2. PICK now \in seen : Between(now)
      BY <1>0, <1>1 DEF OneInstant, Rehashing
    <2>3. Stood(now)' /\ StoodTwice(now)'
      BY <1>1, <2>2 DEF Between, Stood, StoodTwice
    <2> QED
      BY <1>1, <1>5, <2>1, <2>2, <2>3 DEF Between, OneInstant
  <1>6. CASE snapStage' = "list again" /\ copied' = copied
    <2>1. HashesTyped' /\ MissingOnce'
      BY <1>0, <1>1, <1>6 DEF HashesTyped, MissingOnce, Rehashing
    <2> QED
      BY <1>1, <1>3, <1>5, <1>6, <2>1 DEF SnapInv
  <1>7. CASE n < N /\ copied' = Append(copied, r) /\ snapStage' = snapStage
    <2>0. n + 1 \in 1 .. N /\ p \in SnapNames
      <3>1. n \in Nat /\ n < N /\ N \in Nat
        BY <1>2, <1>7
      <3> HIDE DEF n, N
      <3>2. n + 1 \in 1 .. N
        BY <3>1
      <3> QED
        BY <3>1, <3>2, NamesTyped DEF N
    <2>1. r \in Nat /\ (p \in listing[1] => r = workTree[p])
      BY <1>0, <2>0 DEF Reads, CheckoutTyped, Missing
    <2> DEFINE g == Append(copied, r)
    <2>2. /\ g \in Seq(Nat) /\ Len(g) = n + 1 /\ Len(g) <= N
          /\ \A i \in 1 .. n : g[i] = copied[i]
          /\ g[n + 1] = r
      <3>1. n < N
        BY <1>7
      <3> HIDE DEF r
      <3>2. /\ g \in Seq(Nat) /\ Len(g) = n + 1
            /\ \A i \in 1 .. n : g[i] = copied[i]
            /\ g[n + 1] = r
        BY <1>2, <2>1, AppendProperties
      <3> HIDE DEF g, n, N
      <3> QED
        BY <1>2, <3>1, <3>2
    <2>3. HashesTyped'
      <3>1. copied' = g /\ snapStage' = "copy"
        BY <1>1, <1>7
      <3> HIDE DEF g
      <3> QED
        BY <1>0, <1>1, <2>2, <3>1 DEF HashesTyped, Rehashing
    <2>4. MissingOnce'
      <3> SUFFICES ASSUME NEW i \in 1 .. Len(g), TreeNames[i] \in listing[1], g[i] = Missing
                   PROVE  \E now \in seen : now[2][TreeNames[i]] = Missing
        BY <1>1, <1>7 DEF MissingOnce
      <3>1. i \in 1 .. n \/ i = n + 1
        <4> HIDE DEF g, n
        <4> QED
          BY <1>2, <2>2
      <3>2. CASE i \in 1 .. n
        BY <1>0, <1>1, <2>2, <3>2 DEF MissingOnce, Rehashing
      <3>3. CASE i = n + 1
        <4>1. TreeNames[i] = p /\ g[i] = r
          BY <2>2, <3>3
        <4>2. workTree[p] = Missing
          BY <2>1, <4>1
        <4>3. Instant \in seen /\ Instant[2] = workTree
          BY <1>0 DEF CheckoutTyped, Instant
        <4> HIDE DEF g, p
        <4> QED
          BY <4>1, <4>2, <4>3
      <3> QED
        BY <3>1, <3>2, <3>3
    <2> QED
      BY <1>1, <1>3, <1>5, <1>7, <2>3, <2>4 DEF SnapInv
  <1> QED
    BY <1>4, <1>6, <1>7 DEF CopyFile, Lost

\* Comparing the two looks keeps it.
LEMMA AcceptSteps == ASSUME SnapInv, Accept PROVE SnapInv'
  <1>0. /\ CheckoutTyped /\ LooksTyped /\ ListingTyped /\ HashesTyped /\ OneInstant
        /\ MissingOnce /\ TwiceDone /\ IdentityOfOneInstant
    BY DEF SnapInv
  <1>1. /\ CheckoutTyped' /\ seen' = seen
        /\ UNCHANGED <<looks, listing, hashedTree, copied>> /\ snapStage = "judge"
        /\ snapStage' = IF Unmoved THEN "done" ELSE "changed"
        /\ identity' = IF Unmoved
                       THEN <<[git |-> looks[1], paths |-> listing[1], digest |-> copied]>>
                       ELSE NoIdentity
    BY <1>0, CheckoutStays DEF Accept
  <1>2. snapStage' \in {"done", "changed"} /\ (snapStage' = "changed" => identity' = NoIdentity)
    BY <1>1
  <1>3. LooksTyped' /\ ListingTyped' /\ OneInstant' /\ MissingOnce' /\ TwiceDone'
    BY <1>2 DEF LooksTyped, ListingTyped, OneInstant, MissingOnce, TwiceDone, Rehashing
  <1>4. HashesTyped'
    <2>1. treeMoves' = treeMoves
      BY DEF Accept, checkout
    <2> QED
      BY <1>0, <1>1, <1>2, <2>1 DEF HashesTyped, Rehashing
  <1>5. IdentityOfOneInstant'
    <2>1. CASE ~Unmoved
      BY <1>1, <2>1 DEF IdentityOfOneInstant, NoIdentity
    <2>2. CASE Unmoved
      <3>1. /\ looks[1] = looks[2] /\ listing[1] = listing[2] /\ hashedTree[1] = hashedTree[2]
            /\ copied = hashedTree[1]
        BY <2>2 DEF Unmoved
      <3>2. PICK now \in seen : Between(now)
        BY <1>0, <1>1 DEF OneInstant, Rehashing
      <3>3. now[1][1] = looks[1][1]
        <4>1. /\ now[1][1] \in Nat /\ looks[1][1] \in Nat
              /\ looks[1][1] <= now[1][1] /\ now[1][1] <= looks[2][1]
          BY <1>0, <1>1, <3>2 DEF Between, LooksTyped, Rehashing
        <4> QED
          BY <3>1, <4>1
      <3> DEFINE was == [git |-> looks[1], paths |-> listing[1], digest |-> copied]
      <3>4. identity' = <<was>> /\ DOMAIN identity' = {1} /\ identity'[1] = was
        BY <1>1, <2>2
      <3>5. DOMAIN copied = 1 .. Len(copied)
        BY <1>0, LenProperties DEF HashesTyped
      <3>6. ASSUME NEW i \in DOMAIN copied, TreeNames[i] \in listing[1], copied[i] # Missing
            PROVE  copied[i] = now[2][TreeNames[i]]
        BY <3>1, <3>2, <3>5, <3>6 DEF Between, StoodTwice
      <3>7. ASSUME NEW i \in DOMAIN copied, TreeNames[i] \in listing[1], copied[i] = Missing
            PROVE  \E at \in seen : at[2][TreeNames[i]] = Missing
        BY <1>0, <1>1, <3>5, <3>7 DEF MissingOnce, Rehashing
      <3> QED
        BY <1>1, <3>3, <3>4, <3>6, <3>7 DEF IdentityOfOneInstant
    <2> QED
      BY <2>1, <2>2
  <1> QED
    BY <1>1, <1>3, <1>4, <1>5 DEF SnapInv

\* Every step keeps it.
LEMMA SnapStepInv == SnapInv /\ [SnapshotNext]_snapVars => SnapInv'
  <1> SUFFICES ASSUME SnapInv, [SnapshotNext]_snapVars PROVE SnapInv'
    OBVIOUS
  <1>1. CASE UNCHANGED snapVars
    <2>0. /\ CheckoutTyped /\ LooksTyped /\ ListingTyped /\ HashesTyped /\ OneInstant
          /\ MissingOnce /\ TwiceDone /\ IdentityOfOneInstant
      BY DEF SnapInv
    <2>1. UNCHANGED checkout /\ UNCHANGED <<looks, listing, hashedTree, copied, snapStage, identity>>
      BY <1>1 DEF snapVars, checkout
    <2>2. /\ CheckoutTyped' /\ seen' = seen /\ head' = head /\ treeMoves' = treeMoves /\ workTree' = workTree
      BY <2>0, <2>1, CheckoutStays
    <2>3. LooksTyped' /\ ListingTyped' /\ HashesTyped' /\ MissingOnce' /\ TwiceDone'
      BY ZenonT(60), <2>0, <2>1, <2>2 DEF LooksTyped, ListingTyped, HashesTyped, MissingOnce, TwiceDone
    <2>4. \A now : Between(now)' <=> Between(now)
      BY <2>1, <2>2 DEF Between, Stood, StoodTwice
    <2>5. OneInstant' /\ IdentityOfOneInstant'
      BY <2>0, <2>1, <2>2, <2>4 DEF OneInstant, IdentityOfOneInstant
    <2> QED
      BY <2>2, <2>3, <2>5 DEF SnapInv
  <1> QED
    BY <1>1, OthersMove, LookSteps, ListedSteps, HashSteps, CopySteps, AcceptSteps
       DEF SnapshotNext, SnapNames

------------------------------------------------------------------------------
\* Mutants. A mutant is reported killed only where its test told the
\* difference, and a report that is accepted says no more.

\* What a run may have given.
AnyResult == [compile : Compiles \cup {"never"}, test : Endings \cup {"none"}]

\* A row of a report.
AnyRow == [name : Known, class : {"killed", "survived", "invalid"},
           by : {"precondition", "focused_test"}, result : AnyResult]

\* The counts of a report.
Summaries == [killed : Nat, survived : Nat, invalid : Nat, total : Nat, eligible : Nat]

\* A report that was kept.
Reports == [rows : Seq(AnyRow), summary : Summaries, of : Nat, forged : BOOLEAN]

\* The types the steps keep.
MutTyped ==
  /\ mstage \in {"capture", "baseline", "mutate", "focused", "render", "kept", "verified"}
  /\ next \in Nat \ {0} /\ source \in Nat /\ captured \in Nat
  /\ baselines \in [Tests -> AnyResult]
  /\ outcomes \in Seq(AnyRow)
  /\ mstage \in {"kept", "verified"} => report \in Reports

\* The private copy holds a mutation only while its test runs, and then that
\* one and no other, admitted by its baseline.
OneMutation ==
  /\ mstage # "focused" => workspace = {}
  /\ mstage = "focused" => /\ next \in DOMAIN Catalog /\ workspace = {Catalog[next]}
                           /\ Classified(baselines[TestOf[Catalog[next]]]) = "survived"

\* A baseline that is known was run on the untouched copy.
BaselinesRan == \A t \in Tests : baselines[t] # Never => <<{}, t, baselines[t]>> \in truth

\* Told, of the runs so far: it only grows.
ToldBy(runs, name) ==
  /\ \E ran \in runs : /\ ran[1] = {} /\ ran[2] = TestOf[name]
                       /\ ran[3] = [compile |-> "linked", test |-> "passed"]
  /\ \E ran \in runs : /\ ran[1] = {name} /\ ran[2] = TestOf[name]
                       /\ ran[3].test \in {"failed Test", "panicked"}

\* What a row gives as evidence of a kill is a run that told the difference.
Fair(runs, row) == Classified(row.result) = "killed" => ToldBy(runs, row.name)

\* So for the rows so far.
FairRows == \A i \in DOMAIN outcomes : Fair(truth, outcomes[i]) /\ RowHolds(outcomes[i])

\* So for the report that is kept, unless a run in it was made up.
FairReport ==
  mstage \in {"kept", "verified"} =>
     (~report.forged => \A i \in DOMAIN report.rows : Fair(truth, report.rows[i]))

\* So for the report --verify accepted, which it had reason to.
FairVerified ==
  verified # <<>> =>
     /\ verified[1] \in Reports
     /\ Accepts(verified[1], verified[2])
     /\ ~verified[1].forged => \A i \in DOMAIN verified[1].rows : Fair(truth, verified[1].rows[i])

\* The strengthening of KillsAreReal.
MutInv == MutTyped /\ OneMutation /\ BaselinesRan /\ FairRows /\ FairReport /\ FairVerified

\* The catalog is a sequence of the mutations it names.
LEMMA CatalogTyped == /\ Catalog \in Seq(Known) /\ Len(Catalog) \in Nat
                      /\ DOMAIN Catalog = 1 .. Len(Catalog)
                      /\ \A i \in 1 .. Len(Catalog) : Catalog[i] \in Known /\ TestOf[Catalog[i]] \in Tests
  <1>1. Catalog \in Seq(Known)
    BY MutantsAssumption DEF MutantsAssumption, Known
  <1>2. /\ Len(Catalog) \in Nat /\ DOMAIN Catalog = 1 .. Len(Catalog)
    BY <1>1
  <1> QED
    BY <1>1, <1>2 DEF Known, Tests

\* What is classified as survived passed, and what is classified as killed
\* failed or panicked.
LEMMA ResultsTyped ==
    /\ Results \subseteq AnyResult /\ Never \in AnyResult
    /\ \A r \in AnyResult : Classified(r) \in {"killed", "survived", "invalid"}
    /\ Classified(Never) = "invalid"
    /\ \A r \in AnyResult : Classified(r) = "survived" => r = [compile |-> "linked", test |-> "passed"]
    /\ \A r \in AnyResult : Classified(r) = "killed" => r.test \in {"failed Test", "panicked"}
    /\ \A r \in Results : r # Never
  <1>1. Results \subseteq AnyResult /\ Never \in AnyResult
    <2>1. ASSUME NEW e \in Endings
          PROVE  [compile |-> "linked", test |-> e] \in AnyResult
      BY DEF AnyResult, Compiles
    <2>2. ASSUME NEW c \in Compiles
          PROVE  [compile |-> c, test |-> "none"] \in AnyResult
      BY DEF AnyResult
    <2>3. Never \in AnyResult
      BY DEF Never, AnyResult
    <2> QED
      BY <2>1, <2>2, <2>3 DEF Results
  <1>2. ASSUME NEW r \in AnyResult
        PROVE  /\ Classified(r) \in {"killed", "survived", "invalid"}
               /\ Classified(r) = "survived" => r.compile = "linked" /\ r.test = "passed"
               /\ Classified(r) = "killed" => r.test \in {"failed Test", "panicked"}
    <2>1. EvidenceFor(r.test) = "passed" => r.test = "passed"
      BY DEF EvidenceFor
    <2>2. EvidenceFor(r.test) \in {"assertion_failed", "panicked"} => r.test \in {"failed Test", "panicked"}
      BY DEF EvidenceFor
    <2> QED
      BY <2>1, <2>2 DEF Classified
  <1>3. Classified(Never) = "invalid"
    BY DEF Classified, Never
  <1>4. \A r \in AnyResult : r = [compile |-> r.compile, test |-> r.test]
    BY DEF AnyResult
  <1>5. \A r \in Results : r # Never
    <2>1. ASSUME NEW r \in Results PROVE r.compile # "never"
      BY DEF Results, Compiles
    <2>2. Never.compile = "never"
      BY DEF Never
    <2> QED
      BY <2>1, <2>2
  <1> QED
    BY <1>1, <1>2, <1>3, <1>4, <1>5

\* A row worked out from its evidence stands before verify_report.
LEMMA RowsTyped ==
    ASSUME NEW name \in Known
    PROVE  /\ RefusedRow(name) \in AnyRow /\ (\A runs : Fair(runs, RefusedRow(name))) /\ RowHolds(RefusedRow(name))
           /\ RefusedRow(name).result = Never /\ RefusedRow(name).name = name
           /\ \A r \in Results : /\ Focused(name, r) \in AnyRow /\ RowHolds(Focused(name, r))
                                 /\ Focused(name, r).result = r /\ Focused(name, r).name = name
  <1>1. /\ RefusedRow(name) \in AnyRow /\ RefusedRow(name).result = Never
        /\ RefusedRow(name).name = name /\ RefusedRow(name).by = "precondition"
    BY ResultsTyped DEF RefusedRow, Row, AnyRow
  <1>2. (\A runs : Fair(runs, RefusedRow(name))) /\ RowHolds(RefusedRow(name))
    BY <1>1, ResultsTyped DEF Fair, RowHolds
  <1>3. ASSUME NEW r \in Results
        PROVE  /\ Focused(name, r) \in AnyRow /\ Focused(name, r).result = r
               /\ Focused(name, r).name = name /\ Focused(name, r).by = "focused_test"
    BY ResultsTyped DEF Focused, Row, AnyRow
  <1>4. \A r \in Results : RowHolds(Focused(name, r))
    BY <1>3 DEF RowHolds
  <1> QED
    BY <1>1, <1>2, <1>3, <1>4

\* A summary is counts.
LEMMA SummaryTyped ==
    ASSUME NEW rows \in Seq(AnyRow)
    PROVE  SummaryOf(rows) \in Summaries
  <1>1. Len(rows) \in Nat /\ DOMAIN rows = 1 .. Len(rows)
    OBVIOUS
  <1>2. IsFiniteSet(1 .. Len(rows))
    BY <1>1, FS_Interval
  <1>3. ASSUME NEW class PROVE CountOf(rows, class) \in Nat
    <2> DEFINE C == {i \in DOMAIN rows : rows[i].class = class}
    <2>1. C \subseteq 1 .. Len(rows)
      BY <1>1
    <2>2. IsFiniteSet(C)
      BY <1>2, <2>1, FS_Subset
    <2> QED
      BY <2>2, FS_CardinalityType DEF CountOf
  <1> QED
    BY <1>1, <1>3 DEF SummaryOf, Summaries

\* What the invariant says is enough for KillsAreReal.
LEMMA MutInvImplies == MutInv => KillsAreReal
  <1> SUFFICES ASSUME MutInv PROVE KillsAreReal
    OBVIOUS
  <1>1. ASSUME NEW row, RowHolds(row), row.class = "killed", Fair(truth, row)
        PROVE  ToldBy(truth, row.name)
    <2>1. CASE row.by = "precondition"
      <3>1. row.class = "invalid"
        BY <1>1, <2>1 DEF RowHolds, RefusedRow, Row
      <3> QED
        BY <1>1, <3>1
    <2>2. CASE row.by # "precondition"
      <3>1. row = Focused(row.name, row.result)
        BY <1>1, <2>2 DEF RowHolds
      <3>2. row.class = Classified(row.result)
        <4> DEFINE n == row.name
                   s == row.result
        <4>1. row = Focused(n, s)
          BY <3>1
        <4> HIDE DEF n, s
        <4>2. row.class = Classified(s)
          BY <4>1 DEF Focused, Row
        <4> QED
          BY <4>2 DEF s
      <3> QED
        BY <1>1, <3>2 DEF Fair
    <2> QED
      BY <2>1, <2>2
  <1>0. \A name : Told(name) <=> ToldBy(truth, name)
    BY DEF Told, ToldBy
  <1>2. \A i \in DOMAIN outcomes : outcomes[i].class = "killed" => Told(outcomes[i].name)
    BY <1>0, <1>1 DEF MutInv, FairRows
  <1>3. ASSUME verified # <<>>
        PROVE  LET rows == verified[1].rows IN
               /\ verified[1].of = verified[2]
               /\ {rows[i].name : i \in DOMAIN rows} = Known
               /\ verified[1].summary.killed = CountOf(rows, "killed")
               /\ verified[1].summary.total = Cardinality(Known)
               /\ ~verified[1].forged =>
                     \A i \in DOMAIN rows : rows[i].class = "killed" => Told(rows[i].name)
    <2> DEFINE rows == verified[1].rows
    <2>1. /\ Accepts(verified[1], verified[2])
          /\ ~verified[1].forged => \A i \in DOMAIN rows : Fair(truth, rows[i])
      BY <1>3 DEF MutInv, FairVerified
    <2>2. /\ verified[1].of = verified[2]
          /\ \A i \in DOMAIN rows : RowHolds(rows[i])
          /\ Len(rows) = Cardinality(Known)
          /\ {rows[i].name : i \in DOMAIN rows} = Known
          /\ verified[1].summary = SummaryOf(rows)
      BY <2>1 DEF Accepts, AllRows
    <2>3. /\ verified[1].summary.killed = CountOf(rows, "killed")
          /\ verified[1].summary.total = Len(rows)
      BY <2>2 DEF SummaryOf
    <2> QED
      BY <1>0, <1>1, <2>1, <2>2, <2>3
  <1> QED
    BY <1>2, <1>3 DEF KillsAreReal

\* Before the capture nothing has run.
LEMMA MutInitInv == MutantsInit => MutInv
  <1> SUFFICES ASSUME MutantsInit PROVE MutInv
    OBVIOUS
  <1>1. MutTyped
    <2>1. Never \in AnyResult
      BY ResultsTyped
    <2>2. baselines \in [Tests -> AnyResult]
      BY <2>1 DEF MutantsInit
    <2> QED
      BY <2>2 DEF MutantsInit, MutTyped
  <1>2. \A t \in Tests : baselines[t] = Never
    BY DEF MutantsInit
  <1>3. BaselinesRan
    BY <1>2 DEF BaselinesRan
  <1> QED
    BY <1>1, <1>3 DEF MutantsInit, MutInv, OneMutation, FairRows, FairReport, FairVerified

\* Runs are not undone.
LEMMA ToldStays ==
    ASSUME truth \subseteq truth'
    PROVE  \A row : Fair(truth, row) => Fair(truth', row)
  BY DEF ToldBy, Fair

\* An accepted report stays what it was.
LEMMA VerifiedStays ==
    ASSUME MutInv, truth \subseteq truth', verified' = verified
    PROVE  FairVerified'
  BY ToldStays DEF MutInv, FairVerified, Accepts, RowHolds, AllRows

\* So does a kept one, while nobody writes to it.
LEMMA ReportStays ==
    ASSUME MutInv, truth \subseteq truth', report' = report, mstage' = mstage \/ mstage' \notin {"kept", "verified"}
    PROVE  FairReport'
  BY ToldStays DEF MutInv, FairReport

\* One more row that stands keeps the rows standing.
LEMMA OutcomesGrow ==
    ASSUME MutInv, truth \subseteq truth', NEW row \in AnyRow, Fair(truth', row), RowHolds(row),
           outcomes' = Append(outcomes, row)
    PROVE  outcomes' \in Seq(AnyRow) /\ FairRows'
  <1>1. /\ outcomes \in Seq(AnyRow) /\ Len(outcomes) \in Nat
        /\ \A i \in 1 .. Len(outcomes) : Fair(truth, outcomes[i]) /\ RowHolds(outcomes[i])
    BY DEF MutInv, MutTyped, FairRows
  <1>2. /\ outcomes' \in Seq(AnyRow) /\ DOMAIN outcomes' = 1 .. Len(outcomes) + 1
        /\ \A i \in 1 .. Len(outcomes) : outcomes'[i] = outcomes[i]
        /\ outcomes'[Len(outcomes) + 1] = row
    BY <1>1
  <1>3. ASSUME NEW i \in 1 .. Len(outcomes) + 1 PROVE Fair(truth', outcomes'[i]) /\ RowHolds(outcomes'[i])
    <2>1. CASE i = Len(outcomes) + 1
      BY <1>2, <2>1
    <2>2. CASE i \in 1 .. Len(outcomes)
      BY <1>1, <1>2, <2>2, ToldStays
    <2> QED
      BY <1>1, <2>1, <2>2
  <1> QED
    BY <1>2, <1>3 DEF FairRows

\* Rows that stand stand on.
LEMMA RowsStay ==
    ASSUME MutInv, truth \subseteq truth', outcomes' = outcomes
    PROVE  FairRows'
  BY ToldStays DEF MutInv, FairRows

\* The capture keeps the invariant.
LEMMA CaptureSteps == ASSUME MutInv, CaptureSource PROVE MutInv'
  <1>1. /\ mstage = "capture" /\ captured' = source
        /\ UNCHANGED <<workspace, next, baselines, truth, source, report, verified>>
        /\ mstage' \in {"baseline", "render"}
    BY DEF CaptureSource, report_
  <1>2. outcomes' \in Seq(AnyRow) /\ FairRows'
    <2>1. CASE outcomes' = outcomes
      BY <1>1, <2>1, RowsStay DEF MutInv, MutTyped
    <2>2. CASE outcomes' = [i \in DOMAIN Catalog |-> RefusedRow(Catalog[i])]
      <3>1. /\ DOMAIN outcomes' = 1 .. Len(Catalog)
            /\ \A i \in 1 .. Len(Catalog) : outcomes'[i] = RefusedRow(Catalog[i])
        BY <2>2, CatalogTyped
      <3>2. \A i \in 1 .. Len(Catalog) : outcomes'[i] \in AnyRow
        BY <3>1, CatalogTyped, RowsTyped
      <3>3. outcomes' \in Seq(AnyRow)
        BY <2>2, <3>2, CatalogTyped
      <3>4. \A i \in DOMAIN outcomes' : Fair(truth', outcomes'[i]) /\ RowHolds(outcomes'[i])
        BY <1>1, <3>1, CatalogTyped, RowsTyped, ToldStays 
      <3> QED
        BY <3>3, <3>4 DEF FairRows
    <2> QED
      BY <2>1, <2>2 DEF CaptureSource
  <1>3. MutTyped'
    BY <1>1, <1>2 DEF MutInv, MutTyped
  <1>4. OneMutation' /\ BaselinesRan'
    BY <1>1 DEF MutInv, OneMutation, BaselinesRan
  <1> QED
    BY <1>1, <1>2, <1>3, <1>4, VerifiedStays, ReportStays DEF MutInv

\* A baseline runs on the untouched copy (mutate.run_suite).
LEMMA BaselineSteps == ASSUME MutInv, Baseline PROVE MutInv'
  <1>1. /\ mstage = "baseline" /\ mstage' \in {"baseline", "mutate"}
        /\ UNCHANGED <<workspace, outcomes, source, captured, report, verified>>
        /\ truth \subseteq truth' /\ next' \in Nat \ {0}
    BY DEF Baseline, report_, MutInv, MutTyped, Ran
  <1>2. baselines' \in [Tests -> AnyResult] /\ BaselinesRan'
    <2>1. CASE UNCHANGED <<baselines, truth>>
      BY <2>1 DEF MutInv, MutTyped, BaselinesRan
    <2>2. ASSUME NEW test \in Tests, NEW result \in Results,
                 baselines' = [baselines EXCEPT ![test] = result], Ran(test, result)
          PROVE  baselines' \in [Tests -> AnyResult] /\ BaselinesRan'
      <3>1. baselines' \in [Tests -> AnyResult]
        BY <2>2, ResultsTyped DEF MutInv, MutTyped
      <3>2. <<{}, test, result>> \in truth' /\ truth \subseteq truth'
        BY <1>1, <2>2 DEF Ran, MutInv, OneMutation
      <3>3. \A t \in Tests : baselines'[t] = IF t = test THEN result ELSE baselines[t]
        BY <2>2 DEF MutInv, MutTyped
      <3> QED
        BY <3>1, <3>2, <3>3 DEF MutInv, BaselinesRan
    <2>3. CASE ~(next > Len(Catalog)) /\ ~UNCHANGED <<baselines, truth>>
      <3>1. next \in 1 .. Len(Catalog)
        BY <2>3, CatalogTyped DEF MutInv, MutTyped
      <3>2. TestOf[Catalog[next]] \in Tests
        BY <3>1, CatalogTyped
      <3> QED
        BY <2>2, <2>3, <3>2 DEF Baseline
    <2> QED
      BY <2>1, <2>3 DEF Baseline
  <1>3. MutTyped'
    BY <1>1, <1>2 DEF MutInv, MutTyped
  <1>4. OneMutation'
    BY <1>1 DEF MutInv, OneMutation
  <1> QED
    BY <1>1, <1>2, <1>3, <1>4, VerifiedStays, ReportStays, RowsStay DEF MutInv

\* A mutation is applied to the untouched copy, or refused.
LEMMA MutateSteps == ASSUME MutInv, Mutate PROVE MutInv'
  <1>1. /\ mstage = "mutate" /\ mstage' \in {"mutate", "focused", "render"}
        /\ UNCHANGED <<baselines, truth, source, captured, report, verified>>
        /\ workspace = {}
    BY DEF Mutate, report_, MutInv, OneMutation
  <1>2. BaselinesRan' /\ FairReport' /\ FairVerified'
    BY <1>1, VerifiedStays, ReportStays DEF MutInv, BaselinesRan
  <1>3. CASE next > Len(Catalog)
    <2>1. mstage' = "render" /\ UNCHANGED <<workspace, next, outcomes>>
      BY <1>3 DEF Mutate
    <2> QED
      BY <1>1, <1>2, <2>1, RowsStay DEF MutInv, MutTyped, OneMutation
  <1>4. CASE ~(next > Len(Catalog))
    <2> DEFINE name == Catalog[next]
    <2>1. next \in DOMAIN Catalog /\ name \in Known
      BY <1>4, CatalogTyped DEF MutInv, MutTyped
    <2>2. CASE Admissible(name)
      <3>1. mstage' = "focused" /\ workspace' = {name} /\ UNCHANGED <<next, outcomes>>
        BY <1>1, <1>4, <2>2 DEF Mutate
      <3>2. OneMutation'
        BY <1>1, <2>1, <2>2, <3>1 DEF OneMutation, Admissible
      <3> QED
        BY <1>1, <1>2, <3>1, <3>2, RowsStay DEF MutInv, MutTyped
    <2>3. CASE ~Admissible(name)
      <3>1. /\ outcomes' = Append(outcomes, RefusedRow(name))
            /\ next' = next + 1 /\ UNCHANGED <<mstage, workspace>>
        BY <1>4, <2>3 DEF Mutate
      <3>2. RefusedRow(name) \in AnyRow /\ Fair(truth', RefusedRow(name)) /\ RowHolds(RefusedRow(name))
        BY <1>1, <2>1, RowsTyped, ToldStays
      <3>3. outcomes' \in Seq(AnyRow) /\ FairRows'
        BY <1>1, <3>1, <3>2, OutcomesGrow
      <3> QED
        BY <1>1, <1>2, <3>1, <3>3 DEF MutInv, MutTyped, OneMutation
    <2> QED
      BY <2>2, <2>3
  <1> QED
    BY <1>3, <1>4

\* The focused run tells of one mutation, and the copy is put back.
LEMMA FocusSteps == ASSUME MutInv, Focus PROVE MutInv'
  <1> PICK name : name = Catalog[next]
    OBVIOUS
  <1>1. PICK result \in Results :
           /\ truth' = truth \cup {<<workspace, TestOf[name], result>>}
           /\ outcomes' = Append(outcomes, Focused(name, result))
           /\ workspace' = workspace \ {name}
    BY DEF Focus, Ran, PutBack
  <1>2. /\ mstage = "focused" /\ mstage' = "mutate" /\ next' = next + 1
        /\ UNCHANGED <<baselines, source, captured, report, verified>>
    BY DEF Focus, report_
  <1>3. /\ next \in 1 .. Len(Catalog) /\ name \in Known /\ TestOf[name] \in Tests
        /\ workspace = {name} /\ Classified(baselines[TestOf[name]]) = "survived"
    BY <1>2, CatalogTyped DEF MutInv, OneMutation
  <1>4. truth \subseteq truth'
    BY <1>1
  <1>5. ToldBy(truth', name) \/ Classified(result) # "killed"
    <2> SUFFICES ASSUME Classified(result) = "killed" PROVE ToldBy(truth', name)
      OBVIOUS
    <2>1. /\ baselines[TestOf[name]] = [compile |-> "linked", test |-> "passed"]
          /\ baselines[TestOf[name]] # Never
      BY <1>3, ResultsTyped DEF MutInv, MutTyped, Never
    <2>2. <<{}, TestOf[name], [compile |-> "linked", test |-> "passed"]>> \in truth'
      BY <1>3, <1>4, <2>1 DEF MutInv, BaselinesRan
    <2>3. <<{name}, TestOf[name], result>> \in truth' /\ result.test \in {"failed Test", "panicked"}
      BY <1>1, <1>3, ResultsTyped
    <2>4. \E ran \in truth' : /\ ran[1] = {} /\ ran[2] = TestOf[name]
                              /\ ran[3] = [compile |-> "linked", test |-> "passed"]
      BY <2>2
    <2>5. \E ran \in truth' : /\ ran[1] = {name} /\ ran[2] = TestOf[name]
                              /\ ran[3].test \in {"failed Test", "panicked"}
      BY <2>3
    <2> QED
      BY <2>4, <2>5 DEF ToldBy
  <1>6. /\ Focused(name, result) \in AnyRow /\ Fair(truth', Focused(name, result))
        /\ RowHolds(Focused(name, result))
    BY <1>3, <1>5, RowsTyped DEF Fair
  <1>7. outcomes' \in Seq(AnyRow) /\ FairRows'
    BY <1>1, <1>4, <1>6, OutcomesGrow
  <1>8. MutTyped' /\ OneMutation'
    BY <1>1, <1>2, <1>3, <1>7 DEF MutInv, MutTyped, OneMutation
  <1>9. BaselinesRan'
    BY <1>2, <1>4 DEF MutInv, BaselinesRan
  <1> QED
    BY <1>2, <1>4, <1>7, <1>8, <1>9, VerifiedStays, ReportStays DEF MutInv

\* An edit of the checkout does not reach the copy.
LEMMA EditedSteps == ASSUME MutInv, Edited PROVE MutInv'
  <1>1. /\ UNCHANGED <<mstage, workspace, next, baselines, outcomes, truth, captured, report, verified>>
        /\ source' = source + 1
    BY DEF Edited, report_
  <1> QED
    BY <1>1, VerifiedStays, ReportStays, RowsStay DEF MutInv, MutTyped, OneMutation, BaselinesRan

\* The report that is rendered has the rows there are.
LEMMA RenderSteps == ASSUME MutInv, Render PROVE MutInv'
  <1>1. /\ mstage = "render" /\ mstage' = "kept"
        /\ UNCHANGED <<workspace, next, baselines, outcomes, truth, source, captured, verified>>
        /\ report' = [rows |-> outcomes, summary |-> SummaryOf(outcomes), of |-> captured, forged |-> FALSE]
    BY DEF Render
  <1>2. report' \in Reports /\ report'.rows = outcomes
    BY <1>1, SummaryTyped DEF MutInv, MutTyped, Reports
  <1>3. MutTyped'
    BY <1>1, <1>2 DEF MutInv, MutTyped
  <1>4. FairReport'
    BY <1>1, <1>2 DEF MutInv, FairRows, FairReport
  <1> QED
    BY <1>1, <1>3, <1>4, VerifiedStays, RowsStay DEF MutInv, OneMutation, BaselinesRan

\* A report that lost a row has none but rows it had.
LEMMA DroppedRows ==
    ASSUME NEW rows \in Seq(AnyRow), NEW i \in DOMAIN rows
    PROVE  /\ Dropped(rows, i) \in Seq(AnyRow)
           /\ \A k \in DOMAIN Dropped(rows, i) : \E j \in DOMAIN rows : Dropped(rows, i)[k] = rows[j]
  <1> DEFINE n == Len(rows)
             a == SubSeq(rows, 1, i - 1)
             b == SubSeq(rows, i + 1, n)
  <1>1. n \in Nat /\ i \in 1 .. n /\ DOMAIN rows = 1 .. n /\ \A j \in 1 .. n : rows[j] \in AnyRow
    OBVIOUS
  <1>2. /\ a \in Seq(AnyRow) /\ Len(a) = i - 1 /\ \A k \in 1 .. i - 1 : a[k] = rows[k]
    BY <1>1
  <1>3. /\ b \in Seq(AnyRow) /\ Len(b) = n - i /\ \A k \in 1 .. n - i : b[k] = rows[i + k]
    <2>1. i + 1 \in 1 .. n + 1 /\ n - (i + 1) + 1 = n - i
      BY <1>1
    <2>2. b = [k \in 1 .. n - i |-> rows[i + k]]
      BY <1>1, <2>1
    <2>3. \A k \in 1 .. n - i : i + k \in 1 .. n
      BY <1>1
    <2> QED
      BY <1>1, <2>1, <2>2, <2>3
  <1> HIDE DEF a, b
  <1>4. /\ a \o b \in Seq(AnyRow) /\ Len(a \o b) = n - 1
        /\ \A k \in 1 .. n - 1 : (a \o b)[k] = IF k <= i - 1 THEN a[k] ELSE b[k - (i - 1)]
    <2>1. /\ a \o b \in Seq(AnyRow) /\ Len(a \o b) = Len(a) + Len(b)
          /\ \A k \in 1 .. Len(a) + Len(b) : (a \o b)[k] = IF k <= Len(a) THEN a[k] ELSE b[k - Len(a)]
      BY <1>2, <1>3, ConcatProperties
    <2> HIDE DEF n
    <2>2. Len(a) + Len(b) = n - 1
      BY <1>1, <1>2, <1>3
    <2> QED
      BY <1>2, <2>1, <2>2
  <1>5. ASSUME NEW k \in 1 .. n - 1
        PROVE  \E j \in 1 .. n : (a \o b)[k] = rows[j]
    <2>1. CASE k <= i - 1
      <3>1. k \in 1 .. i - 1 /\ k \in 1 .. n
        BY <1>1, <1>5, <2>1
      <3>2. (a \o b)[k] = a[k]
        BY <1>4, <1>5, <2>1
      <3>3. a[k] = rows[k]
        BY <1>2, <3>1
      <3> QED
        BY <3>1, <3>2, <3>3
    <2>2. CASE k > i - 1
      <3>1. k - (i - 1) \in 1 .. n - i /\ i + (k - (i - 1)) = k + 1 /\ k + 1 \in 1 .. n
        BY <1>1, <2>2
      <3>2. (a \o b)[k] = b[k - (i - 1)] /\ b[k - (i - 1)] = rows[i + (k - (i - 1))]
        <4>1. (a \o b)[k] = b[k - (i - 1)]
          BY <1>1, <1>4, <1>5, <2>2
        <4> PICK m : m = k - (i - 1)
          OBVIOUS
        <4>2. b[m] = rows[i + m]
          BY <1>3, <3>1
        <4> QED
          BY <4>1, <4>2
      <3>3. (a \o b)[k] = rows[k + 1]
        BY <3>1, <3>2
      <3>4. k + 1 \in 1 .. n
        BY <3>1
      <3> PICK j : j = k + 1
        OBVIOUS
      <3>5. j \in 1 .. n /\ (a \o b)[k] = rows[j]
        BY <3>3, <3>4
      <3> QED
        BY <3>5
    <2>3. k <= i - 1 \/ k > i - 1
      BY <1>1, <1>5
    <2> HIDE DEF n
    <2> QED
      BY <2>1, <2>2, <2>3
  <1>6. Dropped(rows, i) = a \o b
    BY DEF Dropped, a, b
  <1>7. DOMAIN (a \o b) = 1 .. n - 1
    BY <1>4
  <1> QED
    BY <1>1, <1>4, <1>5, <1>6, <1>7

\* A row tells no more than some row of the old report.
PickedFrom(row, old) ==
  \E j \in DOMAIN old : /\ row.name = old[j].name
                        /\ row.result = old[j].result \/ row.result = Never

\* So does each row of the new one.
FairlyFrom(new, old) == \A k \in DOMAIN new : PickedFrom(new[k], old)

\* A report changed by hand, without a run made up, tells no more than before.
LEMMA ChangedRows ==
    ASSUME mstage = "kept", MutInv, NEW i \in DOMAIN report.rows,
           \/ report' = [report EXCEPT !.rows = Dropped(@, i)]
           \/ report' = [report EXCEPT !.rows = Append(@, @[i])]
           \/ \E class \in {"killed", "survived", "invalid"} :
                 report' = [report EXCEPT !.rows[i].class = class]
           \/ report' = [report EXCEPT !.rows[i] = RefusedRow(@.name)]
    PROVE  report' \in Reports /\ report'.forged = report.forged
           /\ FairlyFrom(report'.rows, report.rows)
  <1> PICK rows \in Seq(AnyRow) : rows = report.rows
    BY DEF MutInv, MutTyped, Reports
  <1>1. report \in Reports /\ i \in DOMAIN rows
    BY DEF MutInv, MutTyped
  <1>2. Len(rows) \in Nat /\ DOMAIN rows = 1 .. Len(rows) /\ \A j \in 1 .. Len(rows) : rows[j] \in AnyRow
    OBVIOUS
  <1>3. PICK new :
           /\ report' = [report EXCEPT !.rows = new]
           /\ \/ new = Dropped(rows, i)
              \/ new = Append(rows, rows[i])
              \/ \E class \in {"killed", "survived", "invalid"} :
                    new = [rows EXCEPT ![i] = [@ EXCEPT !.class = class]]
              \/ new = [rows EXCEPT ![i] = RefusedRow(@.name)]
    <2>1. CASE report' = [report EXCEPT !.rows = Dropped(@, i)]
      BY <1>1, <2>1 DEF Reports
    <2>2. CASE report' = [report EXCEPT !.rows = Append(@, @[i])]
      BY <1>1, <2>2 DEF Reports
    <2>3. ASSUME NEW class \in {"killed", "survived", "invalid"},
                 report' = [report EXCEPT !.rows[i].class = class]
          PROVE  report' = [report EXCEPT !.rows = [rows EXCEPT ![i] = [@ EXCEPT !.class = class]]]
      BY <1>1, <2>3 DEF Reports
    <2>4. CASE report' = [report EXCEPT !.rows[i] = RefusedRow(@.name)]
      BY <1>1, <2>4 DEF Reports
    <2> QED
      BY <2>1, <2>2, <2>3, <2>4
  <1>4. new \in Seq(AnyRow) /\ FairlyFrom(new, rows)
    <2>1. CASE new = Dropped(rows, i)
      <3>1. new \in Seq(AnyRow) /\ \A k \in DOMAIN new : \E j \in DOMAIN rows : new[k] = rows[j]
        BY <1>1, <2>1, DroppedRows
      <3> QED
        BY <3>1 DEF FairlyFrom, PickedFrom
    <2>2. CASE new = Append(rows, rows[i])
      <3>1. /\ new \in Seq(AnyRow) /\ DOMAIN new = 1 .. Len(rows) + 1
            /\ \A k \in 1 .. Len(rows) : new[k] = rows[k]
            /\ new[Len(rows) + 1] = rows[i]
        BY <1>1, <1>2, <2>2
      <3>2. \A k \in DOMAIN new : \E j \in DOMAIN rows : new[k] = rows[j]
        BY <1>1, <1>2, <3>1
      <3> QED
        BY <3>1, <3>2 DEF FairlyFrom, PickedFrom
    <2>3. ASSUME NEW class \in {"killed", "survived", "invalid"},
                 new = [rows EXCEPT ![i] = [@ EXCEPT !.class = class]]
          PROVE  new \in Seq(AnyRow) /\ FairlyFrom(new, rows)
      <3> PICK row \in AnyRow : row = rows[i]
        BY <1>1, <1>2
      <3>1. /\ [row EXCEPT !.class = class] \in AnyRow
            /\ [row EXCEPT !.class = class].name = row.name
            /\ [row EXCEPT !.class = class].result = row.result
        BY DEF AnyRow
      <3>2. new = [rows EXCEPT ![i] = [row EXCEPT !.class = class]]
        BY <2>3
      <3> HIDE DEF AnyRow
      <3>3. new \in Seq(AnyRow) /\ DOMAIN new = DOMAIN rows
        BY <1>1, <1>2, <3>1, <3>2
      <3>4. \A k \in DOMAIN rows : new[k].name = rows[k].name /\ new[k].result = rows[k].result
        BY <1>1, <1>2, <3>1, <3>2
      <3> QED
        BY <3>3, <3>4 DEF FairlyFrom, PickedFrom
    <2>4. CASE new = [rows EXCEPT ![i] = RefusedRow(@.name)]
      <3> PICK row \in AnyRow : row = rows[i]
        BY <1>1, <1>2
      <3>1. /\ RefusedRow(row.name) \in AnyRow
            /\ RefusedRow(row.name).name = row.name
            /\ RefusedRow(row.name).result = Never
        <4>1. row.name \in Known
          BY DEF AnyRow
        <4> QED
          BY <4>1, RowsTyped
      <3>2. new = [rows EXCEPT ![i] = RefusedRow(row.name)]
        BY <2>4
      <3>3. new \in Seq(AnyRow) /\ DOMAIN new = DOMAIN rows
        BY <1>1, <1>2, <3>1, <3>2
      <3>4. \A k \in DOMAIN rows : /\ new[k].name = rows[k].name
                                   /\ new[k].result = rows[k].result \/ new[k].result = Never
        BY <1>1, <1>2, <3>1, <3>2
      <3> QED
        BY <3>3, <3>4 DEF FairlyFrom, PickedFrom
    <2> QED
      BY <1>3, <2>1, <2>2, <2>3, <2>4
  <1> QED
    BY <1>1, <1>3, <1>4 DEF Reports

\* Tampering keeps the invariant.
LEMMA TamperSteps == ASSUME MutInv, Tamper PROVE MutInv'
  <1>1. /\ mstage = "kept" /\ Changed
        /\ UNCHANGED <<mstage, workspace, next, baselines, outcomes, truth, source, captured, verified>>
    BY DEF Tamper
  <1>2. report \in Reports
    BY <1>1 DEF MutInv, MutTyped
  <1>3. /\ report' \in Reports
        /\ \/ report'.forged
           \/ report'.forged = report.forged /\ FairlyFrom(report'.rows, report.rows)
    <2>1. ASSUME NEW i \in DOMAIN report.rows, NEW result \in Results,
                 report' = [report EXCEPT !.rows[i] = Focused(@.name, result), !.forged = TRUE]
          PROVE  report' \in Reports /\ report'.forged
      <3> PICK rows \in Seq(AnyRow) : rows = report.rows
        BY <1>2 DEF Reports
      <3>1. rows[i] \in AnyRow /\ rows[i].name \in Known
        <4>1. rows[i] \in AnyRow
          BY <2>1
        <4> QED
          BY <4>1 DEF AnyRow
      <3>2. Focused(rows[i].name, result) \in AnyRow
        BY <3>1, RowsTyped
      <3>3. [rows EXCEPT ![i] = Focused(rows[i].name, result)] \in Seq(AnyRow)
        BY <3>2
      <3>4. report' = [report EXCEPT !.rows = [rows EXCEPT ![i] = Focused(rows[i].name, result)],
                                     !.forged = TRUE]
        BY <1>2, <2>1 DEF Reports
      <3> QED
        BY <1>2, <3>3, <3>4 DEF Reports
    <2>2. ASSUME report'.rows = report.rows PROVE FairlyFrom(report'.rows, report.rows)
      BY <2>2 DEF FairlyFrom, PickedFrom
    <2>3. CASE report' = [report EXCEPT !.summary = SummaryOf(report.rows)]
      <3>1. SummaryOf(report.rows) \in Summaries
        BY <1>2, SummaryTyped DEF Reports
      <3>2. report' \in Reports /\ report'.forged = report.forged /\ report'.rows = report.rows
        BY <1>2, <2>3, <3>1 DEF Reports
      <3> QED
        BY <2>2, <3>2
    <2>4. CASE report' = [report EXCEPT !.of = source]
      <3>1. report' \in Reports /\ report'.forged = report.forged /\ report'.rows = report.rows
        BY <1>2, <2>4 DEF Reports, MutInv, MutTyped
      <3> QED
        BY <2>2, <3>1
    <2> QED
      BY <1>1, <2>1, <2>3, <2>4, ChangedRows DEF Changed
  <1>4. FairReport'
    <2>1. ASSUME ~report'.forged, NEW k \in DOMAIN report'.rows
          PROVE  Fair(truth, report'.rows[k])
      <3>1. ~report.forged /\ PickedFrom(report'.rows[k], report.rows)
        BY <1>3, <2>1 DEF FairlyFrom
      <3>2. PICK j \in DOMAIN report.rows :
               /\ report'.rows[k].name = report.rows[j].name
               /\ report'.rows[k].result = report.rows[j].result \/ report'.rows[k].result = Never
        BY <3>1 DEF PickedFrom
      <3>3. Fair(truth, report.rows[j])
        BY <1>1, <3>1 DEF MutInv, FairReport
      <3> QED
        BY <3>2, <3>3, ResultsTyped DEF Fair
    <2> QED
      BY <1>1, <2>1 DEF FairReport
  <1>5. MutTyped'
    BY <1>1, <1>3 DEF MutInv, MutTyped
  <1> QED
    BY <1>1, <1>4, <1>5, VerifiedStays, RowsStay DEF MutInv, OneMutation, BaselinesRan

\* --verify accepts only what stands (mutate.verify_report).
LEMMA VerifySteps == ASSUME MutInv, VerifyReport PROVE MutInv'
  <1>1. /\ mstage = "kept" /\ mstage' = "verified"
        /\ verified' = IF Accepts(report, source) THEN <<report, source>> ELSE <<>>
        /\ UNCHANGED <<workspace, next, baselines, outcomes, truth, source, captured, report>>
    BY DEF VerifyReport
  <1>2. FairReport'
    BY <1>1 DEF MutInv, FairReport
  <1>3. report \in Reports /\ (~report.forged => \A i \in DOMAIN report.rows : Fair(truth, report.rows[i]))
    BY <1>1 DEF MutInv, MutTyped, FairReport
  <1>4. FairVerified'
    <2>1. CASE ~Accepts(report, source)
      BY <1>1, <2>1 DEF FairVerified
    <2>2. CASE Accepts(report, source)
      <3>1. verified' = <<report, source>> /\ truth' = truth
        BY <1>1, <2>2
      <3>2. verified'[1] = report /\ verified'[2] = source
        BY <3>1
      <3> QED
        BY <1>3, <2>2, <3>1, <3>2 DEF FairVerified, Accepts, AllRows
    <2> QED
      BY <2>1, <2>2
  <1> QED
    BY <1>1, <1>2, <1>4, RowsStay DEF MutInv, MutTyped, OneMutation, BaselinesRan

\* Every step keeps the invariant.
LEMMA MutStepInv == MutInv /\ [MutantsNext]_mutVars => MutInv'
  <1> SUFFICES ASSUME MutInv, [MutantsNext]_mutVars PROVE MutInv'
    OBVIOUS
  <1>1. CASE UNCHANGED mutVars
    <2>1. UNCHANGED <<mstage, workspace, next, baselines, outcomes, truth, source, captured, report, verified>>
      BY <1>1 DEF mutVars
    <2> QED
      BY <2>1, VerifiedStays, ReportStays, RowsStay DEF MutInv, MutTyped, OneMutation, BaselinesRan
  <1> QED
    BY <1>1, EditedSteps, CaptureSteps, BaselineSteps, MutateSteps, FocusSteps, RenderSteps,
       TamperSteps, VerifySteps DEF MutantsNext

------------------------------------------------------------------------------
\* Staging. A receipt binds a run, its archive and its outputs.

\* The types the steps keep.
StgTyped ==
    /\ stagingWrites \in Nat
    /\ DOMAIN disk = Artifacts /\ DOMAIN openedArchive = Artifacts
    /\ \A a \in Artifacts : openedArchive[a] = [file |-> openedArchive[a].file, stage |-> openedArchive[a].stage]
    /\ sstep \in {"hash", "inspect", "unpack", "run", "snapshot", "final", "receipt", "refused"}
\* the archive: what was listed is what is there, unless it was changed and is different now
StgArchive ==
    /\ ~wentBack /\ sstep = "unpack" /\ zip = archiveHash => members = Files_(archiveHash)
    /\ ~wentBack /\ sstep \in {"run", "snapshot", "final"} => members = Files_(archiveHash) /\ unpacked = members
\* every write leaves something never seen before
Dated == \A a \in Artifacts : /\ disk[a].data.of \in Int /\ disk[a].data.of <= stagingWrites
                              /\ openedArchive[a].file.data.of \in Int
                              /\ openedArchive[a].file.data.of <= stagingWrites

\* An artifact that may still pass its last look.
MayPass(a) == disk[a] = openedArchive[a].file \/ Was(a, "held")

\* Some state of the directory held every artifact that passes.
HeldTogether ==
    /\ sstep \in {"snapshot", "final"} => disk \in seenDisk
    /\ sstep = "snapshot" => \A a \in Artifacts : ~Was(a, "held")
    /\ sstep = "final" => \E now \in seenDisk : \A a \in Artifacts : MayPass(a) => now[a] = openedArchive[a].file

\* What this run wrote, or what lay there before it.
OwnOrBefore(a, data) == data \in {[of |-> This, corpus |-> "this"], before_[a]}

\* With no rival, what is copied is this run's own work.
OwnWork ==
    ~rival => /\ sstep \in {"hash", "inspect", "unpack", "run"} => \A a \in Artifacts : disk[a].data = before_[a]
              /\ sstep = "snapshot" => \A a \in Artifacts : /\ OwnOrBefore(a, disk[a].data)
                                                            /\ ~Was(a, "no") => OwnOrBefore(a, Copy_(a))
              /\ sstep = "final" => /\ Copy_("csv").of = This /\ Copy_("run").of = This
                                    /\ Copy_("corpus").corpus = "this"

\* Nothing is opened before the run.
Untouched == sstep \in {"hash", "inspect", "unpack", "run"} => \A a \in Artifacts : Was(a, "no")

\* The strengthening of ReceiptBinds.
StgInv ==
    /\ Untouched /\ StgTyped /\ StgArchive /\ Dated /\ HeldTogether /\ OwnWork
    /\ sstep # "receipt" => receipt = <<>>
    /\ ReceiptBinds

\* Before the archive is hashed nothing is staged.
LEMMA StgInitInv == StagingInit => StgInv
  <1> SUFFICES ASSUME StagingInit PROVE StgInv
    OBVIOUS
  <1>1. StgTyped /\ StgArchive /\ HeldTogether
    BY DEF StagingInit, StgTyped, StgArchive, HeldTogether
  <1>2. Dated
    <2>1. NoFile.data.of = 0 /\ Older \in Int /\ Older <= 0
      BY DEF NoFile, Older
    <2> QED
      BY <2>1 DEF StagingInit, Dated
  <1>3. OwnWork /\ ReceiptBinds /\ receipt = <<>> /\ Untouched
    BY DEF StagingInit, OwnWork, ReceiptBinds, Untouched, Was
  <1> QED
    BY <1>1, <1>2, <1>3 DEF StgInv

\* once it is refused, or the receipt is written, nothing moves
LEMMA StgStops ==
    ASSUME StgInv, UNCHANGED <<fromZip, stagingWrites, receipt>>,
           DOMAIN disk' = Artifacts, DOMAIN openedArchive' = Artifacts,
           \A a \in Artifacts : openedArchive'[a] = [file |-> openedArchive'[a].file, stage |-> openedArchive'[a].stage],
           Dated', receipt = <<>>, sstep' = "refused"
    PROVE  StgInv'
  <1>1. StgTyped' /\ StgArchive' /\ HeldTogether' /\ OwnWork' /\ Untouched'
    BY DEF StgInv, StgTyped, StgArchive, HeldTogether, OwnWork, Untouched
  <1>2. ReceiptBinds'
    BY DEF ReceiptBinds
  <1> QED
    BY <1>1, <1>2 DEF StgInv

\* the steps that read and list the archive
LEMMA StgArchives == StgInv /\ (Overwritten \/ HashArchive \/ InspectZip \/ UnpackMember \/ Staged) => StgInv'
  <1> SUFFICES ASSUME StgInv, Overwritten \/ HashArchive \/ InspectZip \/ UnpackMember \/ Staged PROVE StgInv'
    OBVIOUS
  <1>1. /\ UNCHANGED <<disk, before_, openedArchive, rival, seenDisk, receipt>>
        /\ sstep \in {"hash", "inspect", "unpack"} /\ sstep' \in {"hash", "inspect", "unpack", "run", "refused"}
        /\ stagingWrites' \in {stagingWrites, stagingWrites + 1}
    BY DEF Overwritten, Writes, Unstaged, HashArchive, InspectZip, UnpackMember, Staged, To, FailFrom, fromDisk
  <1>2. StgTyped'
    BY <1>1 DEF StgInv, StgTyped
  <1>3. Dated'
    BY <1>1 DEF StgInv, StgTyped, Dated
  <1>4. HeldTogether' /\ OwnWork' /\ ReceiptBinds' /\ receipt' = <<>> /\ Untouched'
    BY <1>1 DEF StgInv, HeldTogether, OwnWork, ReceiptBinds, Untouched, Was
  <1>5. StgArchive'
    <2>1. CASE Overwritten
      <3>1. PICK v \in DOMAIN ZipOf : v # zip /\ zip' = v /\ wentBack' = (wentBack \/ v = archiveHash)
        BY <2>1 DEF Overwritten
      <3>2. sstep' = sstep /\ UNCHANGED <<archiveHash, members>>
        BY <2>1 DEF Overwritten
      <3> QED
        BY <1>1, <3>1, <3>2 DEF StgInv, StgArchive
    <2>2. CASE HashArchive
      BY <2>2 DEF HashArchive, To, StgArchive
    <2>3. CASE InspectZip
      BY <2>3 DEF InspectZip, To, FailFrom, StgArchive
    <2>4. CASE UnpackMember
      BY <2>4 DEF UnpackMember, To, FailFrom, StgInv, StgArchive
    <2>5. CASE Staged
      BY <2>5 DEF Staged, To, FailFrom, SameArchive, fromZip, StgInv, StgArchive
    <2> QED
      BY <2>1, <2>2, <2>3, <2>4, <2>5
  <1> QED
    BY <1>2, <1>3, <1>4, <1>5 DEF StgInv

\* A rival's run writes what is newer than anything there.
LEMMA StgRivals == StgInv /\ RivalWrites => StgInv'
  <1> SUFFICES ASSUME StgInv, RivalWrites PROVE StgInv'
    OBVIOUS
  <1>1. PICK b \in Artifacts, inPlace \in BOOLEAN :
           disk' = [disk EXCEPT ![b] = [inode |-> IF inPlace THEN disk[b].inode ELSE 10 + stagingWrites,
                                        data |-> [of |-> stagingWrites + 1, corpus |-> "this"]]]
    BY DEF RivalWrites
  <1>2. /\ stagingWrites' = stagingWrites + 1 /\ sstep \in {"run", "snapshot", "final"} /\ rival' = TRUE
        /\ UNCHANGED <<zip, archiveHash, members, unpacked, wentBack, before_, openedArchive, sstep, receipt>>
        /\ seenDisk' = IF sstep = "run" THEN {} ELSE seenDisk \cup {disk'}
    BY DEF RivalWrites, Writes, fromZip
  <1>3. /\ DOMAIN disk' = Artifacts /\ disk'[b].data.of = stagingWrites + 1
        /\ \A a \in Artifacts \ {b} : disk'[a] = disk[a]
    BY <1>1 DEF StgInv, StgTyped
  <1>4. StgTyped' /\ StgArchive' /\ OwnWork'
    BY <1>2, <1>3 DEF StgInv, StgTyped, StgArchive, OwnWork
  <1>5. Dated'
    BY <1>2, <1>3 DEF StgInv, StgTyped, Dated
  <1>6. HeldTogether'
    <2>1. \A a \in Artifacts : MayPass(a)' => MayPass(a)
      <3>1. disk'[b] # openedArchive[b].file
        BY <1>3 DEF StgInv, StgTyped, Dated
      <3> QED
        BY <1>2, <1>3, <3>1 DEF MayPass, Was
    <2> QED
      BY <1>2, <2>1 DEF StgInv, HeldTogether, Was
  <1>7. ReceiptBinds' /\ receipt' = <<>> /\ Untouched'
    BY <1>2 DEF StgInv, ReceiptBinds, Untouched, Was
  <1> QED
    BY <1>4, <1>5, <1>6, <1>7 DEF StgInv

\* The benchmark writes its own outputs.
LEMMA StgRuns == StgInv /\ RunBenchmark => StgInv'
  <1> SUFFICES ASSUME StgInv, RunBenchmark PROVE StgInv'
    OBVIOUS
  <1>1. /\ UNCHANGED <<zip, archiveHash, members, unpacked, wentBack, before_, openedArchive, rival, stagingWrites, receipt>>
        /\ sstep = "run" /\ receipt = <<>>
    BY DEF RunBenchmark, fromZip, To, FailFrom, StgInv
  <1>2. CASE sstep' = "refused" /\ UNCHANGED disk
    <2>1. Dated'
      BY <1>1, <1>2 DEF StgInv, Dated
    <2> QED
      BY <1>1, <1>2, <2>1, StgStops DEF fromZip, StgInv, StgTyped
  <1>3. CASE sstep' = "snapshot" /\ disk' \in seenDisk'
    <2>1. PICK wrote \in SUBSET Artifacts :
             disk' = [a \in Artifacts |-> IF a \in wrote
                           THEN [inode |-> 5, data |-> [of |-> This, corpus |-> "this"]]
                           ELSE disk[a]]
      BY <1>3 DEF RunBenchmark, FailFrom, To
    <2>2. /\ DOMAIN disk' = Artifacts
          /\ \A a \in Artifacts : disk'[a] = disk[a] \/ disk'[a].data = [of |-> This, corpus |-> "this"]
      BY <2>1
    <2>3. StgTyped' /\ StgArchive'
      BY <1>1, <1>3, <2>2 DEF StgInv, StgTyped, StgArchive
    <2>4. Dated'
      <3>1. This \in Int /\ \A w \in Nat : This <= w
        BY DEF This
      <3>2. \A a \in Artifacts : disk'[a].data.of = disk[a].data.of \/ disk'[a].data.of = This
        BY <2>2
      <3> QED
        BY <1>1, <3>1, <3>2 DEF StgInv, StgTyped, Dated
    <2>5. \A a \in Artifacts : openedArchive[a].stage = "no"
      BY <1>1 DEF StgInv, Untouched, Was
    <2>6. HeldTogether'
      BY <1>1, <1>3, <2>5 DEF HeldTogether, Was
    <2>7. OwnWork'
      BY <1>1, <1>3, <2>2, <2>5 DEF StgInv, OwnWork, OwnOrBefore, Was
    <2>8. ReceiptBinds' /\ Untouched'
      BY <1>1, <1>3 DEF ReceiptBinds, Untouched
    <2> QED
      BY <1>1, <2>3, <2>4, <2>6, <2>7, <2>8 DEF StgInv
  <1> QED
    BY <1>2, <1>3 DEF RunBenchmark, FailFrom, To

\* the steps that read the files
LEMMA StgReads ==
    ASSUME StgInv, NEW b \in Artifacts, OpenArtifact(b) \/ CopyArtifact(b) PROVE StgInv'
  <1>1. /\ UNCHANGED <<zip, archiveHash, members, unpacked, wentBack, disk, before_, rival, seenDisk, stagingWrites, receipt>>
        /\ sstep = "snapshot" /\ sstep' \in {"snapshot", "refused"} /\ receipt = <<>>
    BY DEF OpenArtifact, CopyArtifact, To, FailFrom, fromZip, StgInv
  <1>2. /\ DOMAIN openedArchive' = Artifacts
        /\ \A a \in Artifacts \ {b} : openedArchive'[a] = openedArchive[a]
        /\ \/ openedArchive'[b] = [file |-> disk[b], stage |-> "open"]
           \/ openedArchive'[b] = [file |-> openedArchive[b].file, stage |-> "copied"] /\ Was(b, "open")
           \/ openedArchive' = openedArchive
    BY DEF OpenArtifact, CopyArtifact, Becomes, To, FailFrom, StgInv, StgTyped
  <1>3. Dated'
    BY <1>1, <1>2 DEF StgInv, Dated
  <1>4. \A a \in Artifacts : openedArchive'[a] = [file |-> openedArchive'[a].file, stage |-> openedArchive'[a].stage]
    BY <1>2 DEF StgInv, StgTyped
  <1>5. CASE sstep' = "refused"
    BY <1>1, <1>2, <1>3, <1>4, <1>5, StgStops DEF fromZip, StgInv, StgTyped
  <1>6. CASE sstep' = "snapshot"
    <2>1. StgTyped' /\ StgArchive' /\ Untouched' /\ ReceiptBinds'
      BY <1>1, <1>2, <1>4, <1>6 DEF StgInv, StgTyped, StgArchive, Untouched, ReceiptBinds
    <2>2. HeldTogether'
      BY <1>1, <1>2, <1>6 DEF StgInv, HeldTogether, Was
    <2>3. OwnWork'
      BY <1>1, <1>2, <1>6 DEF StgInv, OwnWork, OwnOrBefore, Was, Copy_
    <2> QED
      BY <1>1, <1>3, <2>1, <2>2, <2>3 DEF StgInv
  <1> QED
    BY <1>1, <1>5, <1>6

\* The copies are verified against the archive and each other.
LEMMA StgVerifies == StgInv /\ VerifyCopies => StgInv'
  <1> SUFFICES ASSUME StgInv, VerifyCopies PROVE StgInv'
    OBVIOUS
  <1>1. /\ UNCHANGED <<zip, archiveHash, members, unpacked, wentBack, disk, before_, openedArchive, rival, seenDisk, stagingWrites, receipt>>
        /\ sstep = "snapshot" /\ receipt = <<>>
        /\ sstep' = "refused" \/ (sstep' = "final" /\ Fresh /\ Consistent)
        /\ \A a \in Artifacts : Was(a, "copied")
    BY DEF VerifyCopies, To, FailFrom, fromZip, fromDisk, StgInv
  <1>2. Dated'
    BY <1>1 DEF StgInv, Dated
  <1>3. CASE sstep' = "refused"
    BY <1>1, <1>2, <1>3, StgStops DEF fromZip, StgInv, StgTyped
  <1>4. CASE sstep' = "final"
    <2>1. StgTyped' /\ StgArchive' /\ Untouched' /\ ReceiptBinds'
      BY <1>1, <1>4 DEF StgInv, StgTyped, StgArchive, Untouched, ReceiptBinds
    <2>2. HeldTogether'
      <3>1. disk \in seenDisk /\ \A a \in Artifacts : MayPass(a) => disk[a] = openedArchive[a].file
        BY <1>1 DEF StgInv, HeldTogether, MayPass, Was
      <3>2. \A a \in Artifacts : MayPass(a)' = MayPass(a)
        BY <1>1 DEF MayPass, Was
      <3> QED
        BY <1>1, <1>4, <3>1, <3>2 DEF HeldTogether
    <2>3. OwnWork'
      <3>1. ASSUME ~rival PROVE Copy_("csv").of = This /\ Copy_("run").of = This /\ Copy_("corpus").corpus = "this"
        <4>1. {"csv", "run", "corpus"} = Artifacts
          BY StagingAssumption
        <4>2. OwnOrBefore("csv", Copy_("csv")) /\ OwnOrBefore("run", Copy_("run"))
          BY <1>1, <3>1, <4>1 DEF StgInv, OwnWork, Was
        <4>3. Copy_("csv") = [of |-> This, corpus |-> "this"] /\ Copy_("run") = [of |-> This, corpus |-> "this"]
          BY <1>1, <1>4, <4>2 DEF OwnOrBefore, Fresh
        <4> HIDE DEF Copy_
        <4> QED
          BY <1>1, <1>4, <4>3 DEF Consistent
      <3> QED
        BY <1>1, <1>4, <3>1 DEF OwnWork, Copy_
    <2> QED
      BY <1>1, <1>2, <2>1, <2>2, <2>3 DEF StgInv
  <1> QED
    BY <1>1, <1>3, <1>4

\* An artifact passes its last look only if it is what was opened.
LEMMA StgChecks ==
    ASSUME StgInv, NEW b \in Artifacts, FinalCheck(b) PROVE StgInv'
  <1>1. /\ UNCHANGED <<zip, archiveHash, members, unpacked, wentBack, disk, before_, rival, seenDisk, stagingWrites, receipt>>
        /\ sstep = "final" /\ receipt = <<>>
        /\ \/ sstep' = "refused" /\ openedArchive' = openedArchive
           \/ sstep' = "final" /\ Held(b) /\ Becomes(b, "held")
    BY DEF FinalCheck, To, FailFrom, fromZip, StgInv
  <1>2. CASE sstep' = "refused"
    <2>1. Dated'
      BY <1>1, <1>2 DEF StgInv, Dated
    <2> QED
      BY <1>1, <1>2, <2>1, StgStops DEF fromZip, StgInv, StgTyped
  <1>3. CASE sstep' = "final"
    <2>1. /\ DOMAIN openedArchive' = Artifacts
          /\ \A a \in Artifacts \ {b} : openedArchive'[a] = openedArchive[a]
          /\ openedArchive'[b] = [file |-> openedArchive[b].file, stage |-> "held"]
          /\ disk[b] = openedArchive[b].file
      BY <1>1, <1>3 DEF Held, Stamped, Becomes, StgInv, StgTyped
    <2>2. \A a \in Artifacts : openedArchive'[a].file = openedArchive[a].file
      BY <2>1
    <2>3. StgTyped' /\ StgArchive' /\ Untouched' /\ ReceiptBinds'
      BY <1>1, <1>3, <2>1 DEF StgInv, StgTyped, StgArchive, Untouched, ReceiptBinds
    <2>4. Dated'
      BY <1>1, <2>2 DEF StgInv, Dated
    <2>5. HeldTogether'
      <3>1. \A a \in Artifacts : MayPass(a)' => MayPass(a)
        BY <1>1, <2>1 DEF MayPass, Was
      <3>2. sstep \in {"snapshot", "final"} => disk \in seenDisk
        BY DEF StgInv, HeldTogether
      <3>3. PICK now \in seenDisk : \A a \in Artifacts : MayPass(a) => now[a] = openedArchive[a].file
        BY <1>1 DEF StgInv, HeldTogether
      <3>4. \A a \in Artifacts : MayPass(a)' => now[a] = openedArchive'[a].file
        BY <2>2, <3>1, <3>3
      <3> QED
        BY <1>1, <1>3, <3>2, <3>3, <3>4 DEF HeldTogether
    <2>6. OwnWork'
      <3>1. \A a \in Artifacts : Copy_(a)' = Copy_(a)
        BY <2>2 DEF Copy_
      <3>2. {"csv", "run", "corpus"} = Artifacts
        BY StagingAssumption
      <3> QED
        BY <1>1, <1>3, <3>1, <3>2 DEF StgInv, OwnWork
    <2> QED
      BY <1>1, <2>3, <2>4, <2>5, <2>6 DEF StgInv
  <1> QED
    BY <1>1, <1>2, <1>3

\* The receipt is of what passed.
LEMMA StgReceipts == StgInv /\ WriteReceipt => StgInv'
  <1> SUFFICES ASSUME StgInv, WriteReceipt PROVE StgInv'
    OBVIOUS
  <1> DEFINE r == [archive |-> archiveHash, members |-> members, files |-> [a \in Artifacts |-> Copy_(a)]]
  <1>1. /\ UNCHANGED <<zip, archiveHash, members, unpacked, wentBack, disk, before_, openedArchive, rival, seenDisk, stagingWrites>>
        /\ sstep = "final" /\ sstep' = "receipt" /\ receipt' = <<r>> /\ \A a \in Artifacts : Was(a, "held")
    BY DEF WriteReceipt, fromZip, fromDisk
  <1>2. StgTyped' /\ StgArchive' /\ Untouched' /\ HeldTogether' /\ OwnWork' /\ Dated'
    BY <1>1 DEF StgInv, StgTyped, StgArchive, Untouched, HeldTogether, OwnWork, Dated
  <1>3. ReceiptBinds'
    <2>1. r.archive = archiveHash /\ r.members = members /\ \A a \in Artifacts : r.files[a] = Copy_(a)
      OBVIOUS
    <2>2. ~wentBack => members = Files_(archiveHash) /\ unpacked = members
      BY <1>1 DEF StgInv, StgArchive
    <2>3. \E now \in seenDisk : \A a \in Artifacts : now[a].data = Copy_(a)
      BY <1>1 DEF StgInv, HeldTogether, MayPass, Copy_
    <2>4. ~rival => Copy_("csv").of = This /\ Copy_("run").of = This /\ Copy_("corpus").corpus = "this"
      BY <1>1 DEF StgInv, OwnWork
    <2>5. "csv" \in Artifacts /\ "run" \in Artifacts /\ "corpus" \in Artifacts
      BY StagingAssumption
    <2> HIDE DEF r
    <2> QED
      BY <1>1, <2>1, <2>2, <2>3, <2>4, <2>5 DEF ReceiptBinds, Files_, Entries
  <1> QED
    BY <1>1, <1>2, <1>3 DEF StgInv

\* Every step keeps the invariant.
LEMMA StgStepInv == StgInv /\ [StagingNext]_stgVars => StgInv'
  <1> SUFFICES ASSUME StgInv, [StagingNext]_stgVars PROVE StgInv'
    OBVIOUS
  <1>1. CASE UNCHANGED stgVars
    <2>1. StgTyped' /\ StgArchive' /\ Untouched' /\ OwnWork' /\ Dated'
      BY <1>1 DEF stgVars, StgInv, StgTyped, StgArchive, Untouched, OwnWork, Dated, Was, OwnOrBefore, Copy_
    <2>2. HeldTogether' /\ ReceiptBinds'
      BY <1>1 DEF stgVars, StgInv, HeldTogether, MayPass, Was, ReceiptBinds
    <2> QED
      BY <1>1, <2>1, <2>2 DEF stgVars, StgInv
  <1> QED
    BY <1>1, StgArchives, StgRivals, StgRuns, StgReads, StgVerifies, StgChecks, StgReceipts DEF StagingNext

------------------------------------------------------------------------------
\* Evidence. A package that is accepted is the one that was published.

\* what a command ran on: a tree at or after the pinned commit, and one that was
\* dirty is dirty still, at the same commit, unless somebody took it back
SeenTree(b) == \E r \in pinned .. revision, d \in BOOLEAN :
              /\ b = <<r, d>>
              /\ r = revision /\ d /\ ~excusedDirt => dirty

\* A package is a map of its files.
IsStore(p) == p = [f \in DOMAIN p |-> p[f]]

\* One with every file of the set.
IsPackage(p) == IsStore(p) /\ DOMAIN p = FileSet

\* A manifest is a record.
IsRecord(m) ==
    m = [files |-> m.files, created |-> m.created, commit |-> m.commit, source |-> m.source,
         run |-> m.run, test |-> m.test, corpus |-> m.corpus, matcher |-> m.matcher, machine |-> m.machine,
         environment |-> m.environment, log |-> m.log]

\* Its files are a map of the payload.
IsManifest(m) == IsRecord(m) /\ m.files = [f \in PayloadIn |-> m.files[f]]

\* Two manifests tell the same origin, but for the commit and the date.
SameOrigin(m, n) ==
    /\ m.source = n.source /\ m.run = n.run /\ m.test = n.test
    /\ m.corpus = n.corpus /\ m.matcher = n.matcher /\ m.machine = n.machine
    /\ m.environment = n.environment /\ m.log = n.log

\* An output is of a tree that stood while it was measured, unless it is not
\* this benchmark's.
Measured(got) == ~foreign => SeenTree(got.built) /\ got.run = 1

\* So is the test log, and the package says which commit.
Tested(p) == /\ SeenTree(p["test log"]) /\ p["benchmark log"] = 1 /\ p["commit"] = pinned

\* The package as it was published.
FirstPublished == publishedEvidence[1]

\* It was accepted when it was, and tells of one commit.
SoundOriginal(p) ==
    /\ IsPackage(p) /\ verify_package(p) /\ IsManifest(p["manifest"])
    /\ p["manifest"].commit \in Nat
    /\ ~excusedDirt => p["test log"] = <<p["commit"], FALSE>>
    /\ ~excusedDirt /\ ~foreign => /\ p["run"].built = <<p["commit"], FALSE>>
                                   /\ p["run"].run = p["benchmark log"]

\* The types the steps keep.
EviTyped == /\ revision \in Nat /\ pinned \in Nat /\ pinned <= revision /\ dirty \in BOOLEAN
            /\ excusedDirt \in BOOLEAN /\ foreign \in BOOLEAN
            /\ pstep \in {"idle", "benchmark", "copy", "test", "seal", "recheck", "kept", "refused"}

\* What a package under way holds.
EviRunning ==
    /\ pstep = "copy" => Measured(output)
    /\ pstep \in {"test", "seal", "recheck"} => Measured(package["run"])
    /\ pstep = "test" => "run" \in DOMAIN package /\ IsStore(package)
    /\ pstep = "seal" => Tested(package) /\ {"run", "test log", "benchmark log", "commit"} \subseteq DOMAIN package
    /\ pstep = "recheck" => /\ Tested(package) /\ IsManifest(package["manifest"])
                            /\ IsStore(package)

\* What is kept, however it is harmed, and whatever is made of it, is accepted
\* only as the evidence that was published.
EviKept ==
    /\ pstep # "kept" => publishedEvidence = Nothing_ /\ accepted = FALSE
    /\ pstep = "kept" => /\ publishedEvidence = <<FirstPublished>> /\ SoundOriginal(FirstPublished)
                         /\ IsPackage(package)
                         /\ \/ package["manifest"] = Damaged
                            \/ /\ IsManifest(package["manifest"]) /\ package["manifest"].commit \in Nat
                               /\ SameOrigin(package["manifest"], FirstPublished["manifest"])
                         /\ package["commit"] \in {FirstPublished["commit"], Damaged}
                         /\ accepted => SameEvidence(package, FirstPublished)

\* The strengthening of EvidenceBinds.
EviInv == EviTyped /\ EviRunning /\ EviKept

\* What the invariant says is enough for EvidenceBinds.
LEMMA EviInvImplies == EviInv => EvidenceBinds
  <1> SUFFICES ASSUME EviInv PROVE EvidenceBinds
    OBVIOUS
  <1>1. CASE pstep = "kept"
    BY <1>1 DEF EviInv, EviKept, SoundOriginal, FirstPublished, EvidenceBinds, verify_package, RunHolds,
               BenchmarkHolds, MatcherHolds, ProductionHolds
  <1>2. CASE pstep # "kept"
    BY <1>2 DEF EviInv, EviKept, EvidenceBinds
  <1> QED
    BY <1>1, <1>2

\* Before the first run nothing is published.
LEMMA EviInitInv == EvidenceInit => EviInv
  <1> SUFFICES ASSUME EvidenceInit PROVE EviInv
    OBVIOUS
  <1>1. EviTyped
    <2>1. excusedDirt \in BOOLEAN /\ foreign \in BOOLEAN /\ dirty \in BOOLEAN
      BY ZenonT(30) DEF EvidenceInit
    <2>2. revision = 1 /\ pinned = 0 /\ pstep = "idle"
      BY DEF EvidenceInit
    <2> QED
      BY <2>1, <2>2 DEF EviTyped
  <1>2. EviRunning /\ EviKept
    BY DEF EvidenceInit, EviRunning, EviKept
  <1> QED
    BY <1>1, <1>2 DEF EviInv

\* Files put over a package hold what was put.
LEMMA WithHolds ==
    ASSUME NEW p, NEW q
    PROVE  /\ DOMAIN With(p, q) = DOMAIN p \cup DOMAIN q
           /\ \A f \in DOMAIN q : With(p, q)[f] = q[f]
           /\ \A f \in DOMAIN p \ DOMAIN q : With(p, q)[f] = p[f]
  BY DEF With

\* And it is a map still.
LEMMA WithIsFunction ==
    ASSUME NEW p, NEW q PROVE IsStore(With(p, q))
  BY DEF With, IsStore

\* an accepted package is the evidence that was published
LEMMA AcceptedIsOriginal ==
    ASSUME NEW p, NEW o, IsPackage(p), IsPackage(o),
           verify_package(p), verify_package(o), IsManifest(p["manifest"]), IsManifest(o["manifest"]),
           SameOrigin(p["manifest"], o["manifest"]),
           p["manifest"].commit \in Nat, p["commit"] \in {o["commit"], Damaged}
    PROVE  SameEvidence(p, o)
  <1> DEFINE m == p["manifest"]
             n == o["manifest"]
  <1>0. m.commit = n.commit /\ p["commit"] = o["commit"]
    BY EvidenceAssumption DEF verify_package, RevisionHolds
  <1>1. /\ p["commit"] = o["commit"] /\ p["source"] = o["source"]
        /\ p["run"] = o["run"] /\ p["csv"].figures = o["csv"].figures /\ p["corpus"] = o["corpus"]
        /\ p["test artifact"] = o["test artifact"] /\ p["command log"] = o["command log"]
        /\ p["machine"] = o["machine"]
    BY <1>0 DEF verify_package, RevisionHolds, SameOrigin, RunHolds, BenchmarkHolds, CsvHolds, CorpusHolds,
           ReceiptsHold, ReceiptsHoldUnbound, EnvironmentHolds
  <1>2. p["test log"] = o["test log"]
    <2>1. /\ p["test artifact"] = [commit |-> p["manifest"].commit, log |-> p["test log"]]
          /\ o["test artifact"] = [commit |-> o["manifest"].commit, log |-> o["test log"]]
      BY DEF verify_package, ReceiptsHold, ReceiptsHoldUnbound
    <2>2. p["test artifact"].log = p["test log"] /\ o["test artifact"].log = o["test log"]
      <3>1. \A r, a, b : r = [commit |-> a, log |-> b] => r.log = b
        OBVIOUS
      <3> QED
        BY <2>1, <3>1, Zenon
    <2> QED
      BY <1>1, <2>2
  <1>3. p["benchmark log"] = o["benchmark log"]
    <2>1. /\ p["command log"] = [benchmark |-> p["benchmark log"], test |-> p["test log"],
                                  commit |-> p["manifest"].commit]
          /\ o["command log"] = [benchmark |-> o["benchmark log"], test |-> o["test log"],
                                  commit |-> o["manifest"].commit]
      BY DEF verify_package, ReceiptsHold, ReceiptsHoldUnbound
    <2>2. \A a, b, c, x, y, z : [benchmark |-> a, test |-> b, commit |-> c] = [benchmark |-> x, test |-> y, commit |-> z] => a = x
      OBVIOUS
    <2>3. [benchmark |-> p["benchmark log"], test |-> p["test log"], commit |-> p["manifest"].commit]
             = [benchmark |-> o["benchmark log"], test |-> o["test log"], commit |-> o["manifest"].commit]
      BY <1>1, <2>1, Zenon
    <2> QED
      BY <2>2, <2>3, Zenon
  <1>4. p["monograph"] = o["monograph"] /\ p["monograph hash"] = o["monograph hash"]
    BY <1>0, <1>1 DEF verify_package, MonographHolds, MonographOf, SameOrigin
  <1>5. \A f \in PayloadIn \ {"csv"} : p[f] = o[f]
    BY <1>1, <1>2, <1>3, <1>4 DEF PayloadIn
  <1>6. \A k \in DOMAIN n \ {"files", "created"} : m[k] = n[k]
    <2>1. IsRecord(m) /\ IsRecord(n) /\ SameOrigin(m, n) /\ m.commit = n.commit
      BY <1>0 DEF IsManifest
    <2> HIDE DEF m, n
    <2>2. DOMAIN n = {"files", "created", "commit", "source", "run", "test", "corpus", "matcher",
                      "machine", "environment", "log"}
      BY <2>1 DEF IsRecord
    <2> QED
      BY <2>1, <2>2 DEF SameOrigin
  <1> QED
    BY <1>1, <1>5, <1>6 DEF SameEvidence

\* A tree that was seen was seen, whatever moves.
LEMMA SeenStays ==
    ASSUME EviTyped, EviTyped', pinned' = pinned,
           \/ UNCHANGED <<revision, dirty, excusedDirt>>
           \/ dirty' = TRUE /\ UNCHANGED <<revision, excusedDirt>>
           \/ revision' = revision + 1 /\ UNCHANGED excusedDirt
           \/ excusedDirt' = TRUE /\ UNCHANGED revision,
           NEW b, SeenTree(b)
    PROVE  SeenTree(b)'
  BY DEF SeenTree, EviTyped

\* the others, while it runs
LEMMA EviOthers == EviInv /\ (TreeEdited \/ TreeReverted \/ CommittedRevision \/ Rival) => EviInv'
  <1> SUFFICES ASSUME EviInv, TreeEdited \/ TreeReverted \/ CommittedRevision \/ Rival PROVE EviInv'
    OBVIOUS
  <1>1. /\ pstep # "kept" /\ UNCHANGED <<contract, pstep, pinned, package, publishedEvidence, accepted>>
        /\ \/ dirty' = TRUE /\ UNCHANGED <<revision, excusedDirt, output, foreign>>
           \/ dirty' = FALSE /\ revision' = revision + 1 /\ UNCHANGED <<excusedDirt, output, foreign>>
           \/ dirty' \in BOOLEAN /\ excusedDirt' = TRUE /\ UNCHANGED <<revision, output, foreign>>
           \/ foreign' = (foreign \/ pstep = "copy") /\ UNCHANGED <<revision, dirty, excusedDirt>>
    BY DEF TreeEdited, TreeReverted, CommittedRevision, Rival, Move, EviInv, EviTyped
  <1>2. EviTyped'
    <2>1. revision' \in Nat /\ pinned <= revision'
      BY <1>1 DEF EviInv, EviTyped
    <2>2. dirty' \in BOOLEAN /\ excusedDirt' \in BOOLEAN /\ foreign' \in BOOLEAN
      BY <1>1 DEF EviInv, EviTyped
    <2> QED
      BY <1>1, <2>1, <2>2 DEF EviInv, EviTyped
  <1>3. \A b : SeenTree(b) => SeenTree(b)'
    BY <1>1, <1>2, SeenStays DEF EviInv
  <1>f. foreign => foreign'
    BY <1>1
  <1>4. \A got : Measured(got) => Measured(got)'
    BY <1>f, <1>3 DEF Measured
  <1>5. EviRunning'
    <2>1. pstep = "copy" => Measured(output)'
      <3>1. CASE foreign' = (foreign \/ pstep = "copy")
        BY <3>1 DEF Measured
      <3>2. CASE UNCHANGED output
        BY <1>f, <1>3, <3>2 DEF EviInv, EviRunning, Measured
      <3> QED
        BY <1>1, <3>1, <3>2
    <2>2. Tested(package) => Tested(package)'
      BY <1>1, <1>3 DEF Tested
    <2>3. Measured(package["run"]) => Measured(package["run"])'
      BY <1>1, <1>f, <1>3 DEF Measured
    <2> QED
      BY <1>1, <2>1, <2>2, <2>3 DEF EviInv, EviRunning, IsManifest, IsRecord
  <1>6. EviKept'
    BY <1>1 DEF EviInv, EviKept
  <1> QED
    BY <1>2, <1>5, <1>6 DEF EviInv

\* A run pins the commit, measures, and copies.
LEMMA EviBegins == EviInv /\ (Begin_ \/ Benchmark \/ CopyArtifacts) => EviInv'
  <1> SUFFICES ASSUME EviInv, Begin_ \/ Benchmark \/ CopyArtifacts PROVE EviInv'
    OBVIOUS
  <1>1. /\ UNCHANGED <<contract, revision, dirty, excusedDirt, accepted, publishedEvidence>>
        /\ pstep # "kept" /\ pstep' # "kept"
    BY DEF Begin_, Benchmark, CopyArtifacts, Refuse, outside
  <1>2. EviTyped'
    <2>1. foreign' \in BOOLEAN
      <3>1. foreign' = foreign \/ foreign' = TRUE
        BY ZenonT(30) DEF Begin_, Benchmark, CopyArtifacts
      <3> QED
        BY <3>1 DEF EviInv, EviTyped
    <2>2. pinned' \in Nat /\ pinned' <= revision'
      BY <1>1 DEF EviInv, EviTyped, Begin_, Benchmark, CopyArtifacts
    <2>3. pstep' \in {"benchmark", "copy", "test", "refused"}
      BY DEF Begin_, Benchmark, CopyArtifacts, Refuse
    <2> QED
      BY <1>1, <2>1, <2>2, <2>3 DEF EviInv, EviTyped
  <1>3. EviKept'
    BY <1>1 DEF EviInv, EviKept
  <1>4. CASE Begin_
    <2>1. pstep' \in {"refused", "benchmark"}
      BY <1>4 DEF Begin_
    <2> QED
      BY <1>2, <1>3, <2>1 DEF EviInv, EviRunning
  <1>5. CASE Benchmark
    <2>1. CASE pstep' = "refused"
      BY <1>2, <1>3, <2>1 DEF EviInv, EviRunning
    <2>2. CASE pstep' = "copy" /\ foreign' = TRUE
      BY <1>2, <1>3, <2>2 DEF EviInv, EviRunning, Measured
    <2>3. CASE pstep' = "copy" /\ \E sound, validated \in BOOLEAN :
                                    output' = LeftBy(1, sound, validated, <<revision, dirty>>)
      <3>1. output'.built = <<revision, dirty>> /\ output'.run = 1 /\ pinned' = pinned
        BY <1>5, <2>3 DEF Benchmark, LeftBy
      <3>2. SeenTree(output.built)'
        BY <1>1, <3>1 DEF SeenTree, EviInv, EviTyped
      <3>3. Measured(output)'
        BY <3>1, <3>2 DEF Measured
      <3> QED
        BY <1>2, <1>3, <2>3, <3>3 DEF EviInv, EviRunning
    <2> QED
      BY <1>5, <2>1, <2>2, <2>3 DEF Benchmark
  <1>7. CASE CopyArtifacts /\ pstep' = "refused"
    BY <1>2, <1>3, <1>7 DEF EviInv, EviRunning
  <1>6. CASE CopyArtifacts /\ pstep' # "refused"
    <2> DEFINE files == [run |-> [run |-> output.run, corpus |-> output.corpus, sound |-> output.sound,
                                  validated |-> output.validated, built |-> output.built],
                         csv |-> output.csv, corpus |-> output.corpus]
    <2>1. /\ package' = With(EmptyStore, files) /\ pstep = "copy" /\ pstep' = "test" /\ pinned' = pinned
          /\ foreign' = foreign
      BY <1>6 DEF CopyArtifacts, Refuse
    <2>2. "run" \in DOMAIN files /\ files["run"].built = output.built /\ files["run"].run = output.run
      OBVIOUS
    <2>3. /\ "run" \in DOMAIN package' /\ IsStore(package)'
          /\ package'["run"].built = output.built /\ package'["run"].run = output.run
      <3> HIDE DEF files
      <3>1. /\ DOMAIN With(EmptyStore, files) = DOMAIN EmptyStore \cup DOMAIN files
            /\ \A f \in DOMAIN files : With(EmptyStore, files)[f] = files[f]
            /\ IsStore(With(EmptyStore, files))
        BY ZenonT(60), WithHolds, WithIsFunction
      <3> QED
        BY <2>1, <2>2, <3>1
    <2>4. Measured(output)
      BY <2>1 DEF EviInv, EviRunning
    <2>5. Measured(package["run"])'
      BY <1>1, <2>1, <2>3, <2>4 DEF Measured, SeenTree
    <2> QED
      BY <1>2, <1>3, <2>1, <2>3, <2>5 DEF EviInv, EviRunning
  <1> QED
    BY <1>4, <1>5, <1>6, <1>7

\* The tests run on the tree there is.
LEMMA EviTests == EviInv /\ TestAndArchive => EviInv'
  <1> SUFFICES ASSUME EviInv, TestAndArchive PROVE EviInv'
    OBVIOUS
  <1>1. /\ UNCHANGED <<contract, revision, dirty, excusedDirt, foreign, accepted, publishedEvidence, pinned>>
        /\ pstep = "test" /\ pstep' \in {"seal", "refused"}
    BY DEF TestAndArchive, Refuse, outside
  <1>2. EviTyped' /\ EviKept'
    BY <1>1 DEF EviInv, EviTyped, EviKept
  <1>3. CASE pstep' = "refused"
    BY <1>2, <1>3 DEF EviInv, EviRunning
  <1>4. CASE pstep' = "seal"
    <2> DEFINE names == {"benchmark log", "test log", "source", "commit", "machine",
                         "test artifact", "command log"}
               files == [f \in names |->
                  CASE f = "benchmark log" -> 1 [] f = "test log" -> <<revision, dirty>>
                    [] f = "machine" -> 1
                    [] f \in {"source", "commit"} -> pinned
                    [] f = "test artifact" -> [commit |-> pinned, log |-> <<revision, dirty>>]
                    [] OTHER -> [benchmark |-> 1, test |-> <<revision, dirty>>,
                                 commit |-> pinned]]
    <2>1. package' = With(package, files)
      BY <1>4 DEF TestAndArchive, Refuse
    <2>2. /\ DOMAIN files = names /\ files["benchmark log"] = 1 /\ files["test log"] = <<revision, dirty>>
          /\ files["commit"] = pinned
      OBVIOUS
    <2>3. "run" \in DOMAIN package /\ Measured(package["run"])
      BY <1>1 DEF EviInv, EviRunning
    <2> HIDE DEF files
    <2>4. /\ package'["benchmark log"] = 1 /\ package'["test log"] = <<revision, dirty>>
          /\ package'["commit"] = pinned /\ package'["run"] = package["run"]
          /\ {"run", "test log", "benchmark log", "commit"} \subseteq DOMAIN package'
      <3>1. /\ DOMAIN With(package, files) = DOMAIN package \cup DOMAIN files
            /\ \A f \in DOMAIN files : With(package, files)[f] = files[f]
            /\ \A f \in DOMAIN package \ DOMAIN files : With(package, files)[f] = package[f]
        BY WithHolds
      <3> QED
        BY <2>1, <2>2, <2>3, <3>1
    <2>5. Tested(package)'
      <3>1. SeenTree(<<revision, dirty>>)'
        BY <1>1 DEF SeenTree, EviInv, EviTyped
      <3> QED
        BY <1>1, <2>4, <3>1 DEF Tested
    <2>6. Measured(package["run"])'
      BY <1>1, <2>3, <2>4 DEF Measured, SeenTree
    <2> QED
      BY <1>2, <1>4, <2>4, <2>5, <2>6 DEF EviInv, EviRunning
  <1> QED
    BY <1>1, <1>3, <1>4

\* a manifest with its list of files made anew
LEMMA Refiled ==
    ASSUME NEW m, IsRecord(m), NEW p
    PROVE  /\ IsManifest([m EXCEPT !.files = [f \in PayloadIn |-> p[f]]])
           /\ SameOrigin([m EXCEPT !.files = [f \in PayloadIn |-> p[f]]], m)
           /\ [m EXCEPT !.files = [f \in PayloadIn |-> p[f]]].commit = m.commit
  <1> DEFINE files == [f \in PayloadIn |-> p[f]]
             n == [m EXCEPT !.files = files]
  <1>1. files = [f \in PayloadIn |-> files[f]]
    OBVIOUS
  <1> HIDE DEF files
  <1>2. m = [files |-> m.files, created |-> m.created, commit |-> m.commit, source |-> m.source, run |-> m.run,
            test |-> m.test, corpus |-> m.corpus, matcher |-> m.matcher, machine |-> m.machine,
            environment |-> m.environment, log |-> m.log]
    BY DEF IsRecord
  <1>3. n = [files |-> files, created |-> m.created, commit |-> m.commit, source |-> m.source, run |-> m.run,
            test |-> m.test, corpus |-> m.corpus, matcher |-> m.matcher, machine |-> m.machine,
            environment |-> m.environment, log |-> m.log]
    BY <1>2
  <1> HIDE DEF n
  <1>4. IsManifest(n) /\ SameOrigin(n, m) /\ n.commit = m.commit
    BY <1>1, <1>3 DEF IsManifest, IsRecord, SameOrigin
  <1> QED
    BY <1>4 DEF n, files

\* The manifest is of every payload file.
LEMMA EviSeals == EviInv /\ Seal => EviInv'
  <1> SUFFICES ASSUME EviInv, Seal PROVE EviInv'
    OBVIOUS
  <1>1. /\ UNCHANGED <<contract, revision, dirty, excusedDirt, foreign, accepted, publishedEvidence, pinned>>
        /\ pstep = "seal" /\ pstep' = "recheck"
    BY DEF Seal, Packs, outside
  <1>2. EviTyped' /\ EviKept'
    BY <1>1 DEF EviInv, EviTyped, EviKept
  <1> DEFINE q == MonographOf(package, pinned, package["source"], package["run"], package["test artifact"])
             both == [f \in {"monograph", "monograph hash"} |-> q]
             p == With(package, both)
             m0 == [files |-> EmptyStore, created |-> 1, commit |-> pinned, source |-> p["source"],
                    run |-> p["run"], test |-> p["test artifact"],
                    corpus |-> p["corpus"], matcher |-> p["run"].sound,
                    machine |-> p["machine"], environment |-> p["machine"],
                    log |-> p["command log"]]
             m == [m0 EXCEPT !.files = [f \in PayloadIn |-> p[f]]]
             ends == [f \in {"manifest", "detached"} |-> m]
  <1>3. package' = With(p, ends)
    BY DEF Seal, Sealed, WithMonograph
  <1>4. IsManifest(m)
    <2>1. IsRecord(m0)
      <3> HIDE DEF p
      <3> QED
        BY DEF IsRecord
    <2> HIDE DEF m0, p
    <2> QED
      BY <2>1, Refiled
  <1>5. DOMAIN both = {"monograph", "monograph hash"} /\ DOMAIN ends = {"manifest", "detached"} /\ ends["manifest"] = m
    OBVIOUS
  <1> HIDE DEF both, ends, m, m0, q
  <1>6. /\ package'["manifest"] = m /\ IsStore(package')
        /\ \A f \in DOMAIN p \ {"manifest", "detached"} : package'[f] = p[f]
    <2> HIDE DEF p
    <2>1. /\ \A f \in DOMAIN ends : With(p, ends)[f] = ends[f]
          /\ \A f \in DOMAIN p \ DOMAIN ends : With(p, ends)[f] = p[f]
          /\ IsStore(With(p, ends))
      BY ZenonT(60), WithHolds, WithIsFunction
    <2> QED
      BY <1>3, <1>5, <2>1
  <1>7. \A f \in DOMAIN package \ {"monograph", "monograph hash"} : f \in DOMAIN p /\ p[f] = package[f]
    <2>1. /\ DOMAIN p = DOMAIN package \cup DOMAIN both
          /\ \A f \in DOMAIN package \ DOMAIN both : p[f] = package[f]
      BY WithHolds
    <2> QED
      BY <1>5, <2>1
  <1> HIDE DEF p
  <1>8. \A f \in DOMAIN package \cap {"run", "test log", "benchmark log", "commit"} : package'[f] = package[f]
    BY <1>6, <1>7
  <1>9. {"run", "test log", "benchmark log", "commit"} \subseteq DOMAIN package
    BY <1>1 DEF EviInv, EviRunning
  <1>10. /\ package'["run"] = package["run"] /\ package'["test log"] = package["test log"]
         /\ package'["benchmark log"] = package["benchmark log"] /\ package'["commit"] = package["commit"]
    BY <1>8, <1>9
  <1>11. Tested(package)' /\ Measured(package["run"])'
    BY <1>1, <1>10 DEF EviInv, EviRunning, Tested, Measured, SeenTree
  <1> QED
    BY <1>1, <1>2, <1>4, <1>6, <1>11 DEF EviInv, EviRunning

\* What is published was looked at once more.
LEMMA EviPublishes == EviInv /\ PublishEvidence => EviInv'
  <1> SUFFICES ASSUME EviInv, PublishEvidence PROVE EviInv'
    OBVIOUS
  <1>1. /\ UNCHANGED <<contract, revision, dirty, excusedDirt, foreign, accepted, pinned>>
        /\ pstep = "recheck"
    BY DEF PublishEvidence, outside
  <1>2. CASE CleanCommit /\ verify_package(package)
    <2>1. pstep' = "kept" /\ publishedEvidence' = <<package>> /\ package' = package
      BY <1>2 DEF PublishEvidence
    <2>2. /\ Tested(package) /\ IsManifest(package["manifest"]) /\ Measured(package["run"])
          /\ IsPackage(package) /\ accepted = FALSE
      BY <1>1, <1>2 DEF EviInv, EviRunning, EviKept, verify_package, EnvelopeHolds, IsPackage
    <2>3. \A b : SeenTree(b) /\ ~excusedDirt => b = <<pinned, FALSE>>
      <3> SUFFICES ASSUME NEW b, SeenTree(b), ~excusedDirt PROVE b = <<pinned, FALSE>>
        OBVIOUS
      <3>1. PICK r \in pinned .. revision, d \in BOOLEAN : b = <<r, d>> /\ (r = revision /\ d /\ ~excusedDirt => dirty)
        BY DEF SeenTree
      <3>2. r = pinned /\ ~d
        BY <1>2, <3>1 DEF CleanCommit, EviInv, EviTyped
      <3> QED
        BY <3>1, <3>2
    <2>c. package["manifest"].commit \in Nat
      BY <1>2, <2>2 DEF verify_package, RevisionHolds, Tested, EviInv, EviTyped
    <2>4. SoundOriginal(package)
      BY <1>2, <2>2, <2>3, <2>c DEF SoundOriginal, Tested, Measured
    <2>5. FirstPublished' = package /\ SoundOriginal(package)'
      <3>1. FirstPublished' = package
        BY <2>1 DEF FirstPublished
      <3>2. verify_package(package)'
        BY <1>1, <1>2, <2>1 DEF verify_package, Promoted, EnvelopeHolds, RunHolds, BenchmarkHolds, MatcherHolds,
             ProductionHolds, CorpusHolds, CsvHolds, ReceiptsHold, ReceiptsHoldUnbound, EnvironmentHolds,
             MonographHolds, RevisionHolds, MonographOf
      <3> QED
        BY <1>1, <2>1, <2>4, <3>1, <3>2 DEF SoundOriginal, IsPackage, IsStore, IsManifest, IsRecord
    <2>6. EviKept'
      BY <1>1, <2>1, <2>2, <2>5, <2>c DEF EviKept, SameOrigin
    <2>7. EviTyped' /\ EviRunning'
      BY <1>1, <2>1 DEF EviInv, EviTyped, EviRunning
    <2> QED
      BY <2>6, <2>7 DEF EviInv
  <1>3. CASE ~(CleanCommit /\ verify_package(package))
    <2>1. pstep' = "refused" /\ UNCHANGED publishedEvidence
      BY <1>3 DEF PublishEvidence, Refuse
    <2> QED
      BY <1>1, <2>1 DEF EviInv, EviTyped, EviRunning, EviKept
  <1> QED
    BY <1>2, <1>3

\* contract, and with it what verify says, stands
LEMMA VerdictStands ==
    ASSUME UNCHANGED contract, NEW p PROVE verify_package(p)' = verify_package(p)
  BY DEF verify_package, Promoted

\* What was published is not undone.
LEMMA OriginalStands ==
    ASSUME EviInv, pstep = "kept", UNCHANGED <<contract, publishedEvidence, excusedDirt, foreign>>
    PROVE  FirstPublished' = FirstPublished /\ SoundOriginal(FirstPublished)'
  <1>1. FirstPublished' = FirstPublished
    BY DEF FirstPublished
  <1>2. SoundOriginal(FirstPublished)
    BY DEF EviInv, EviKept
  <1>3. \A p : SoundOriginal(p)' = SoundOriginal(p)
    BY VerdictStands DEF SoundOriginal
  <1> QED
    BY <1>1, <1>2, <1>3

\* A file or a whole run may be damaged.
LEMMA EviHarms == EviInv /\ (DamageFile \/ DamageRun \/ DamageCsv \/ DamageManifest) => EviInv'
  <1> SUFFICES ASSUME EviInv, DamageFile \/ DamageRun \/ DamageCsv \/ DamageManifest PROVE EviInv'
    OBVIOUS
  <1>1. /\ UNCHANGED <<contract, revision, dirty, excusedDirt, foreign, output, pstep, pinned, publishedEvidence>>
        /\ pstep = "kept" /\ accepted' = FALSE
    BY DEF DamageFile, DamageRun, DamageCsv, DamageManifest, Harm
  <1>2. IsPackage(package) /\ DOMAIN package = FileSet
    BY <1>1 DEF EviInv, EviKept, IsPackage
  <1>4. EviTyped' /\ EviRunning'
    BY <1>1 DEF EviInv, EviTyped, EviRunning
  <1>5. FirstPublished' = FirstPublished /\ SoundOriginal(FirstPublished)'
    BY <1>1, OriginalStands
  <1> DEFINE Fit(m) == m = Damaged \/ (IsManifest(m) /\ m.commit \in Nat /\ SameOrigin(m, FirstPublished["manifest"]))
  <1>6. /\ Fit(package["manifest"]) /\ publishedEvidence = <<FirstPublished>>
        /\ package["commit"] \in {FirstPublished["commit"], Damaged}
    BY <1>1 DEF EviInv, EviKept
  <1>7. \/ /\ package'["manifest"] \in {package["manifest"], Damaged}
           /\ package'["commit"] \in {package["commit"], Damaged} /\ IsPackage(package')
        \/ /\ package'["commit"] = package["commit"] /\ IsPackage(package')
           /\ Fit(package'["manifest"])
    <2>1. ASSUME DamageFile \/ DamageRun \/ DamageCsv
          PROVE  /\ package'["manifest"] \in {package["manifest"], Damaged}
                 /\ package'["commit"] \in {package["commit"], Damaged} /\ IsPackage(package')
      BY <1>2, <2>1 DEF DamageFile, DamageRun, DamageCsv, IsPackage, IsStore, FileSet, PayloadIn
    <2>2. ASSUME DamageManifest
          PROVE  package'["commit"] = package["commit"] /\ IsPackage(package') /\ Fit(package'["manifest"])
      <3> DEFINE m == package["manifest"]
                 n == package'["manifest"]
      <3>1. /\ \/ n = [m EXCEPT !.created = 2]
               \/ \E c \in 1 .. revision : n = [m EXCEPT !.commit = c]
               \/ \E f \in PayloadIn : n = [m EXCEPT !.files = [m.files EXCEPT ![f] = Damaged]]
            /\ package' = [package EXCEPT !["manifest"] = n]
        <4>1. "manifest" \in DOMAIN package
          BY <1>2 DEF FileSet
        <4> QED
          BY <1>2, <2>2, <4>1 DEF DamageManifest, IsPackage, IsStore
      <3>2. IsPackage(package') /\ package'["commit"] = package["commit"]
        <4> HIDE DEF n
        <4> QED
          BY <1>2, <3>1 DEF IsPackage, IsStore, FileSet, PayloadIn
      <3>3. m # Damaged /\ revision \in Nat
        BY <2>2 DEF DamageManifest, EviInv, EviTyped
      <3>4. IsManifest(m) /\ m.commit \in Nat /\ SameOrigin(m, FirstPublished["manifest"])
        BY <1>6, <3>3
      <3> HIDE DEF m, n
      <3>5. Fit(n)
        <4>0. /\ IsRecord(m) /\ m.files = [f \in PayloadIn |-> m.files[f]]
          BY <3>4 DEF IsManifest
        <4>1. CASE n = [m EXCEPT !.created = 2]
          <5>1. IsRecord(n) /\ n.files = m.files /\ n.commit = m.commit /\ SameOrigin(n, m)
            BY <4>0, <4>1 DEF IsRecord, SameOrigin
          <5> QED
            BY <3>4, <4>0, <5>1 DEF IsManifest, SameOrigin
        <4>2. ASSUME NEW c \in 1 .. revision, n = [m EXCEPT !.commit = c] PROVE Fit(n)
          <5>1. IsRecord(n) /\ n.files = m.files /\ n.commit = c /\ SameOrigin(n, m)
            BY <4>0, <4>2 DEF IsRecord, SameOrigin
          <5> QED
            BY <3>3, <3>4, <4>0, <5>1 DEF IsManifest, SameOrigin
        <4>3. ASSUME NEW f \in PayloadIn, n = [m EXCEPT !.files = [m.files EXCEPT ![f] = Damaged]] PROVE Fit(n)
          <5>1. /\ IsRecord(n) /\ n.files = [m.files EXCEPT ![f] = Damaged] /\ n.commit = m.commit
                /\ SameOrigin(n, m)
            BY <4>0, <4>3 DEF IsRecord, SameOrigin
          <5>2. n.files = [g \in PayloadIn |-> n.files[g]]
            BY <4>0, <5>1
          <5> QED
            BY <3>4, <5>1, <5>2 DEF IsManifest, SameOrigin
        <4> QED
          BY <3>1, <4>1, <4>2, <4>3 DEF m, n
      <3> QED
        BY <3>2, <3>5 DEF n
    <2> QED
      BY <2>1, <2>2
  <1>8. IsPackage(package') /\ Fit(package'["manifest"]) /\ package'["commit"] \in {FirstPublished["commit"], Damaged}
    BY <1>6, <1>7
  <1>9. EviKept'
    BY <1>1, <1>5, <1>6, <1>8 DEF EviKept, IsManifest, IsRecord, SameOrigin, IsPackage, IsStore
  <1> QED
    BY <1>4, <1>9 DEF EviInv

\* A manifest made anew tells the same origin.
LEMMA EviReseals == EviInv /\ (Regenerate \/ Verification) => EviInv'
  <1> SUFFICES ASSUME EviInv, Regenerate \/ Verification PROVE EviInv'
    OBVIOUS
  <1>1. /\ UNCHANGED <<contract, revision, dirty, excusedDirt, foreign, output, pstep, pinned, publishedEvidence>>
        /\ pstep = "kept" /\ accepted' = verify_package(package')
    BY DEF Regenerate, Verification, outside
  <1>2. EviTyped' /\ EviRunning'
    BY <1>1 DEF EviInv, EviTyped, EviRunning
  <1>3. FirstPublished' = FirstPublished /\ SoundOriginal(FirstPublished)' /\ SoundOriginal(FirstPublished) /\ publishedEvidence = <<FirstPublished>>
    BY <1>1, OriginalStands DEF EviInv, EviKept
  <1>4. /\ IsPackage(package')
        /\ \/ package'["manifest"] = Damaged
           \/ /\ IsManifest(package'["manifest"]) /\ package'["manifest"].commit \in Nat
              /\ SameOrigin(package'["manifest"], FirstPublished["manifest"])
        /\ package'["commit"] \in {FirstPublished["commit"], Damaged}
    <2>1. CASE Verification
      BY <1>1, <2>1 DEF Verification, EviInv, EviKept
    <2>2. CASE Regenerate
      <3> DEFINE m0 == package["manifest"]
                 q == MonographOf(package, m0.commit, m0.source, m0.run, m0.test)
                 both == [f \in {"monograph", "monograph hash"} |-> q]
                 p == With(package, both)
                 m == [m0 EXCEPT !.files = [f \in PayloadIn |-> p[f]]]
                 ends == [f \in {"manifest", "detached"} |-> m]
      <3>1. package' = With(p, ends)
        BY <2>2 DEF Regenerate, Sealed, WithMonograph
      <3>2. /\ IsPackage(package) /\ IsManifest(m0) /\ SameOrigin(m0, FirstPublished["manifest"])
            /\ m0.commit \in Nat /\ package["commit"] \in {FirstPublished["commit"], Damaged}
        BY <1>1, <2>2 DEF Regenerate, EviInv, EviKept
      <3>3. IsManifest(m) /\ SameOrigin(m, m0) /\ m.commit = m0.commit
        <4> HIDE DEF p
        <4> QED
          BY <3>2, Refiled DEF IsManifest
      <3>4. DOMAIN both = {"monograph", "monograph hash"} /\ DOMAIN ends = {"manifest", "detached"} /\ ends["manifest"] = m
        OBVIOUS
      <3> HIDE DEF both, ends, m, m0, q
      <3>5. DOMAIN p = FileSet /\ p["commit"] = package["commit"]
        <4>1. /\ DOMAIN p = DOMAIN package \cup DOMAIN both
              /\ \A f \in DOMAIN package \ DOMAIN both : p[f] = package[f]
          BY WithHolds
        <4> QED
          BY <3>2, <3>4, <4>1 DEF IsPackage, FileSet, PayloadIn
      <3> HIDE DEF p
      <3>6. /\ DOMAIN With(p, ends) = FileSet /\ With(p, ends)["manifest"] = m /\ IsStore(With(p, ends))
            /\ With(p, ends)["commit"] = p["commit"]
        <4>1. /\ DOMAIN With(p, ends) = DOMAIN p \cup DOMAIN ends
              /\ \A f \in DOMAIN ends : With(p, ends)[f] = ends[f]
              /\ \A f \in DOMAIN p \ DOMAIN ends : With(p, ends)[f] = p[f]
              /\ IsStore(With(p, ends))
          BY ZenonT(60), WithHolds, WithIsFunction
        <4> QED
          BY <3>4, <3>5, <4>1 DEF FileSet, PayloadIn
      <3> QED
        BY <3>1, <3>2, <3>3, <3>5, <3>6 DEF IsPackage, SameOrigin
    <2> QED
      BY <2>1, <2>2
  <1>5. ASSUME accepted' PROVE SameEvidence(package', FirstPublished)
    <2>1. verify_package(package')
      BY <1>1, <1>5
    <2>2. package'["manifest"] # Damaged
      BY <2>1 DEF verify_package, EnvelopeHolds
    <2> QED
      BY <1>3, <1>4, <2>1, <2>2, AcceptedIsOriginal DEF SoundOriginal
  <1>6. EviKept'
    BY <1>1, <1>3, <1>4, <1>5 DEF EviKept, IsManifest, IsRecord, SameOrigin, IsPackage, IsStore
  <1> QED
    BY <1>2, <1>6 DEF EviInv

\* Every step keeps the invariant.
LEMMA EviStepInv == EviInv /\ [EvidenceNext]_eviVars => EviInv'
  <1> SUFFICES ASSUME EviInv, [EvidenceNext]_eviVars PROVE EviInv'
    OBVIOUS
  <1>1. CASE UNCHANGED eviVars
    <2>1. UNCHANGED <<contract, publishedEvidence, excusedDirt, foreign>>
      BY <1>1 DEF eviVars
    <2>2. pstep = "kept" => FirstPublished' = FirstPublished /\ SoundOriginal(FirstPublished)'
      BY <2>1, OriginalStands
    <2>3. EviKept'
      BY <1>1, <2>2 DEF eviVars, EviInv, EviKept, IsManifest, IsRecord, SameOrigin, IsPackage, IsStore
    <2>4. EviTyped' /\ EviRunning'
      BY ZenonT(60), <1>1 DEF eviVars, EviInv, EviTyped, EviRunning, Measured, Tested, SeenTree, IsManifest, IsRecord, IsStore
    <2> QED
      BY <2>3, <2>4 DEF EviInv
  <1> QED
    BY <1>1, EviOthers, EviBegins, EviTests, EviSeals, EviPublishes, EviHarms, EviReseals DEF EvidenceNext

------------------------------------------------------------------------------
\* Publication. A clean envelope, and a manifest, are of one instant of the
\* directory.

\* A sequence of what is in it.
IsSequence(s) == s \in Seq({s[k] : k \in DOMAIN s})

\* A map of what is in it.
IsMap(f) == f = [x \in DOMAIN f |-> f[x]]

\* A capture is under way.
Capturing == doing \in {"sealing", "verifying"}

\* A name is bound to an inode of its own, and a corpus report is one.
NamesBound ==
  /\ IsMap(bindings)
  /\ \A n \in DOMAIN bindings : bindings[n] \in DOMAIN inodes
  /\ \A m, n \in DOMAIN bindings : bindings[m] = bindings[n] => m = n
  /\ \A n \in DOMAIN bindings \cap CorpusReports : inodes[bindings[n]].what \in Off

\* The types the steps keep.
PubTyped ==
  /\ time \in Nat
  /\ dirStamp \in Int /\ dirStamp <= time
  /\ IsSequence(inodes)
  /\ \A k \in DOMAIN inodes : inodes[k].at \in Int /\ inodes[k].at <= time
  /\ NamesBound

\* What was opened: names of the list, each once, as they were then.
DescriptorsTyped ==
  /\ IsSequence(descriptors) /\ Len(descriptors) >= 1
  /\ Entry(1).at \in Int /\ Entry(1).at <= time
  /\ \A i \in 2 .. Len(descriptors) :
       /\ Entry(i).name \in DOMAIN Listed
       /\ Entry(i).inode \in DOMAIN inodes
       /\ Entry(i).at \in Int /\ Entry(i).at <= time
  /\ \A i, j \in 2 .. Len(descriptors) : Entry(i).name = Entry(j).name => i = j

\* A directory whose stamp is the one that was seen has the names that were.
DirectorySeen == dirStamp = Entry(1).at => DOMAIN bindings = DOMAIN Listed

\* What was read is what an inode that was not written since still holds.
BytesSound ==
  /\ IsMap(bytes)
  /\ \A n \in DOMAIN bytes : \E i \in 2 .. Len(descriptors) : Entry(i).name = n
  /\ \A i \in 2 .. Len(descriptors) :
       Entry(i).name \in DOMAIN bytes /\ inodes[Entry(i).inode].at = Entry(i).at
         => bytes[Entry(i).name] = inodes[Entry(i).inode].what

\* What was read under a name is what was there when the closing look began.
Agrees(i) == Entry(i).name \in DOMAIN instant[1] /\ instant[1][Entry(i).name] = bytes[Entry(i).name]

\* An entry that passes now.
StillThere(i) == /\ inodes[Entry(i).inode].at = Entry(i).at
                 /\ Entry(i).name \in DOMAIN bindings /\ bindings[Entry(i).name] = Entry(i).inode

\* What was there when the closing look began.
InstantTyped == /\ instant = <<instant[1]>> /\ IsMap(instant[1])
                /\ \A n \in DOMAIN instant[1] \cap CorpusReports : instant[1][n] \in Off

\* An entry that has passed agrees, and so does each that would pass now.
LookedAgain ==
  /\ DOMAIN bytes = DOMAIN Listed
  /\ InstantTyped
  /\ \A i \in 2 .. Len(descriptors) : StillThere(i) \/ i > Len(descriptors) - checked => Agrees(i)
  /\ dirStamp = Entry(1).at \/ checked = Len(descriptors) => DOMAIN instant[1] = DOMAIN Listed

\* So from the first entry looked at to the last, the directory.
ClosingLook == /\ checked \in Nat /\ checked <= Len(descriptors)
               /\ checked > 0 => LookedAgain

\* The strengthening of EnvelopeBinds: what passes at the end was there when
\* the end began.
CaptureInv == Capturing => DescriptorsTyped /\ DirectorySeen /\ BytesSound /\ ClosingLook

\* A clean verdict is of an instant.
JudgedInv ==
  /\ doing # "idle" => judged = "none"
  /\ judged = "clean" => InstantTyped /\ ~Problems(instant[1])

\* So is a manifest.
SealedInv == /\ DOMAIN sealed = {"commit", "manifest", "of"}
             /\ sealed.of # <<>> => sealed.manifest.files = PayloadOf(sealed.of[1])

\* The three together.
PubInv == PubTyped /\ CaptureInv /\ JudgedInv /\ SealedInv

\* A function over 1..n is a sequence.
LEMMA Counted ==
  ASSUME NEW s, NEW n \in Nat, s = [k \in 1 .. n |-> s[k]]
  PROVE  IsSequence(s)
  <1>1. DOMAIN s = 1 .. n
    OBVIOUS
  <1>2. \A k \in 1 .. n : s[k] \in {s[j] : j \in DOMAIN s}
    BY <1>1
  <1> QED
    BY <1>2, SeqDef DEF IsSequence

\* What Append does.
LEMMA Lengthened ==
  ASSUME NEW s, IsSequence(s), NEW v
  PROVE  LET t == Append(s, v)
         IN  /\ IsSequence(t) /\ Len(s) \in Nat /\ Len(t) = Len(s) + 1
             /\ DOMAIN s = 1 .. Len(s) /\ DOMAIN t = 1 .. Len(s) + 1
             /\ \A k \in 1 .. Len(s) : t[k] = s[k]
             /\ t[Len(s) + 1] = v
  <1> DEFINE S == {s[k] : k \in DOMAIN s} \cup {v}
  <1>1. s \in Seq(S)
    BY DEF IsSequence
  <1>2. v \in S
    OBVIOUS
  <1> HIDE DEF S
  <1> DEFINE t == Append(s, v)
  <1>3. /\ t \in Seq(S) /\ Len(t) = Len(s) + 1 /\ Len(s) \in Nat
        /\ DOMAIN s = 1 .. Len(s) /\ DOMAIN t = 1 .. Len(s) + 1
        /\ \A k \in 1 .. Len(s) : t[k] = s[k]
        /\ t[Len(s) + 1] = v
    BY <1>1, <1>2
  <1> HIDE DEF t
  <1>4. IsSequence(t)
    <2>2. t = [k \in 1 .. Len(t) |-> t[k]] /\ Len(t) \in Nat
      BY <1>3
    <2> QED
      BY <2>2, Counted
  <1> QED
    BY <1>3, <1>4 DEF t

\* What EXCEPT does to a sequence.
LEMMA Substituted ==
  ASSUME NEW s, IsSequence(s), NEW j \in DOMAIN s, NEW v
  PROVE  LET t == [s EXCEPT ![j] = v]
         IN  /\ IsSequence(t) /\ Len(t) = Len(s) /\ DOMAIN t = DOMAIN s
             /\ DOMAIN s = 1 .. Len(s) /\ Len(s) \in Nat
             /\ t[j] = v
             /\ \A k \in DOMAIN s \ {j} : t[k] = s[k]
  <1> DEFINE S == {s[k] : k \in DOMAIN s} \cup {v}
  <1>1. s \in Seq(S)
    BY DEF IsSequence
  <1>2. v \in S
    OBVIOUS
  <1> HIDE DEF S
  <1> DEFINE t == [s EXCEPT ![j] = v]
  <1>3. /\ t \in Seq(S) /\ Len(t) = Len(s) /\ DOMAIN t = DOMAIN s
        /\ DOMAIN s = 1 .. Len(s) /\ Len(s) \in Nat
        /\ t[j] = v
        /\ \A k \in DOMAIN s \ {j} : t[k] = s[k]
    BY <1>1, <1>2, ExceptSeq
  <1> HIDE DEF t
  <1>4. IsSequence(t)
    <2>2. t = [k \in 1 .. Len(t) |-> t[k]] /\ Len(t) \in Nat
      BY <1>3
    <2> QED
      BY <2>2, Counted
  <1> QED
    BY <1>3, <1>4 DEF t

\* The reports there may be.
ReportFields == [commit : {1, 2}, corpus : {1, 2}, workload : {1, 2}, passed : BOOLEAN]

\* Right and off ones are of that form.
LEMMA OffAreReports == Off \subseteq ReportFields
  <1>1. Right \in ReportFields
    BY DEF Right, ReportFields
  <1>2. /\ [Right EXCEPT !.commit = 2] \in ReportFields /\ [Right EXCEPT !.corpus = 2] \in ReportFields
        /\ [Right EXCEPT !.workload = 2] \in ReportFields /\ [Right EXCEPT !.passed = FALSE] \in ReportFields
    BY <1>1 DEF ReportFields
  <1> QED
    BY <1>1, <1>2 DEF Off

\* What the invariant says is enough for EnvelopeBinds.
LEMMA PubInvImplies == PubInv => EnvelopeBinds
  <1> SUFFICES ASSUME PubInv PROVE EnvelopeBinds
    OBVIOUS
  <1> USE PublicationAssumption
  <1> SUFFICES ASSUME judged = "clean"
      PROVE LET was == instant[1]  m == was[Manifest] IN
            /\ m.files = PayloadOf(was) /\ was[Detached] = m
            /\ m.status = "complete" =>
               /\ Required \subseteq DOMAIN was
               /\ \A n \in CorpusReports : was[n] = [commit |-> m.source_commit, corpus |-> was[CorpusList].corpus,
                                                                  workload |-> was[n].workload, passed |-> TRUE]
               /\ Cardinality({was[n].workload : n \in CorpusReports}) = 1
               /\ was[Mutation].commit = m.source_commit /\ was[Mutation].passed
    BY DEF PubInv, SealedInv, EnvelopeBinds
  <1> DEFINE was == instant[1]
             m == was[Manifest]
             payload == PayloadOf(was)
  <1>1. ~Problems(was) /\ IsMap(was) /\ \A n \in DOMAIN was \cap CorpusReports : was[n] \in Off
    BY DEF PubInv, JudgedInv, InstantTyped
  <1>2. /\ m.files = payload /\ was[Detached] = m
        /\ m.status = EvidenceStatus(payload, m.source_commit)
        /\ Semantic(payload, m.source_commit)
    BY <1>1 DEF Problems
  <1>3. ASSUME m.status = "complete"
        PROVE  /\ Required \subseteq DOMAIN was
               /\ \A n \in CorpusReports : was[n] = [commit |-> m.source_commit, corpus |-> was[CorpusList].corpus,
                                                                  workload |-> was[n].workload, passed |-> TRUE]
               /\ Cardinality({was[n].workload : n \in CorpusReports}) = 1
               /\ was[Mutation].commit = m.source_commit /\ was[Mutation].passed
    <2>1. MissingFrom(payload) = {}
      BY <1>2, <1>3 DEF EvidenceStatus
    <2>2. DOMAIN payload = DOMAIN was \ Envelope /\ \A n \in DOMAIN payload : payload[n] = was[n]
      BY DEF PayloadOf
    <2>3. Required \subseteq DOMAIN payload
      BY <2>1 DEF MissingFrom
    <2>4. CorpusReports \subseteq Required /\ CorpusList \in Required /\ Mutation \in Required
      BY DEF Required, Envelope, Manifest, Detached, CorpusList, Mutation
    <2> HIDE DEF payload
    <2>5. Given(payload) = CorpusReports
      BY <2>3, <2>4 DEF Given
    <2>6. /\ \A n \in CorpusReports : /\ was[n].commit = m.source_commit /\ was[n].passed
                                      /\ was[n].corpus = was[CorpusList].corpus
          /\ \A n, o \in CorpusReports : was[n].workload = was[o].workload
          /\ was[Mutation].commit = m.source_commit /\ was[Mutation].passed
      BY <1>2, <2>2, <2>3, <2>4, <2>5 DEF Semantic, Identified, OfCorpus, OneWorkload, MutationHolds
    <2>7. \A n \in CorpusReports : was[n] = [commit |-> m.source_commit, corpus |-> was[CorpusList].corpus,
                                                          workload |-> was[n].workload, passed |-> TRUE]
      <3> SUFFICES ASSUME NEW n \in CorpusReports
                   PROVE was[n] = [commit |-> m.source_commit, corpus |-> was[CorpusList].corpus,
                                                workload |-> was[n].workload, passed |-> TRUE]
        OBVIOUS
      <3>1. n \in DOMAIN was
        BY <2>2, <2>3, <2>4
      <3>2. was[n] \in Off
        BY <1>1, <3>1
      <3>3. PICK told : told = was[n]
        OBVIOUS
      <3>4. told = [commit |-> told.commit, corpus |-> told.corpus, workload |-> told.workload,
                      passed |-> told.passed] /\ told.passed \in BOOLEAN
        BY <3>2, <3>3, OffAreReports DEF ReportFields
      <3>5. /\ told.commit = m.source_commit /\ told.corpus = was[CorpusList].corpus
            /\ told.passed = TRUE
        BY <2>6, <3>3, <3>4
      <3>6. told = [commit |-> m.source_commit, corpus |-> was[CorpusList].corpus,
                      workload |-> told.workload, passed |-> TRUE]
        BY <3>4, <3>5
      <3> QED
        BY <3>3, <3>6
    <2>8. Cardinality({was[n].workload : n \in CorpusReports}) = 1
      <3>1. PICK n \in CorpusReports : TRUE
        OBVIOUS
      <3>2. {was[o].workload : o \in CorpusReports} = {was[n].workload}
        BY <2>6, <3>1
      <3> QED
        BY <3>2, FS_Singleton
    <2> QED
      BY <2>2, <2>3, <2>6, <2>7, <2>8
  <1> QED
    BY <1>2, <1>3

\* Before the first capture nothing is sealed.
LEMMA PubInitInv == PublicationInit => PubInv
  <1> SUFFICES ASSUME PublicationInit PROVE PubInv
    OBVIOUS
  <1>1. PICK gone : /\ inodes = [k \in DOMAIN Sorted |-> [what |-> Right, at |-> 0]]
                    /\ bindings = [n \in Required \ gone |-> Position(n)]
    BY DEF PublicationInit
  <1>2. DOMAIN Sorted = 1 .. Len(Sorted) /\ Len(Sorted) \in Nat
    BY PublicationAssumption
  <1>3. \A n \in Required : Position(n) \in DOMAIN Sorted /\ Sorted[Position(n)] = n
    BY DEF Required, EnvelopeNames, ToSet, Position
  <1>4. IsSequence(inodes)
    <2>2. inodes = [k \in 1 .. Len(Sorted) |-> inodes[k]]
      BY <1>1, <1>2
    <2> QED
      BY <1>2, <2>2, Counted
  <1>5. NamesBound
    BY <1>1, <1>3 DEF NamesBound, IsMap, Off
  <1>6. PubTyped
    BY <1>1, <1>4, <1>5 DEF PublicationInit, PubTyped
  <1> QED
    BY <1>6 DEF PublicationInit, PubInv, CaptureInv, JudgedInv, SealedInv, Capturing

\* what a write to the directory moves
Touched ==
  /\ time <= time' /\ time' \in Nat
  /\ dirStamp' = time + 1 \/ (dirStamp' = dirStamp /\ DOMAIN bindings' = DOMAIN bindings)
  /\ \A k \in DOMAIN inodes : k \in DOMAIN inodes' /\ (inodes'[k] = inodes[k] \/ inodes'[k].at = time + 1)
  /\ \A m \in DOMAIN bindings' : bindings'[m] \in DOMAIN inodes => m \in DOMAIN bindings /\ bindings[m] = bindings'[m]

\* A write in place, a replacement and an unlink each stamp what they touch.
LEMMA WritesTouch ==
  ASSUME PubTyped, NEW n, NEW what, n \in CorpusReports => what \in Off, time' = time + 1,
         WriteInPlace(n, what) \/ ReplaceEntry(n, what) \/ Unlink(n)
  PROVE  PubTyped' /\ Touched
  <1>1. /\ time \in Nat /\ dirStamp \in Int /\ dirStamp <= time /\ IsSequence(inodes) /\ NamesBound
        /\ \A k \in DOMAIN inodes : inodes[k].at \in Int /\ inodes[k].at <= time
    BY DEF PubTyped
  <1> DEFINE new == [what |-> what, at |-> time + 1]
  <1>2. new.at = time + 1 /\ new.what = what
    OBVIOUS
  <1> HIDE DEF new
  <1>3. CASE WriteInPlace(n, what)
    <2>1. /\ n \in DOMAIN bindings /\ inodes' = [inodes EXCEPT ![bindings[n]] = new]
          /\ UNCHANGED <<bindings, dirStamp>>
      BY <1>3 DEF WriteInPlace, new
    <2>2. bindings[n] \in DOMAIN inodes
      BY <1>1, <2>1 DEF NamesBound
    <2>3. /\ IsSequence(inodes') /\ DOMAIN inodes' = DOMAIN inodes /\ inodes'[bindings[n]] = new
          /\ \A k \in DOMAIN inodes \ {bindings[n]} : inodes'[k] = inodes[k]
      BY <1>1, <2>1, <2>2, Substituted
    <2>4. NamesBound'
      BY <1>1, <1>2, <2>1, <2>3 DEF NamesBound
    <2>5. \A k \in DOMAIN inodes' : inodes'[k].at \in Int /\ inodes'[k].at <= time + 1
      BY <1>1, <1>2, <2>3
    <2> QED
      BY <1>1, <1>2, <2>1, <2>3, <2>4, <2>5 DEF PubTyped, Touched
  <1>4. CASE ReplaceEntry(n, what)
    <2>1. /\ inodes' = Append(inodes, new) /\ bindings' = Binding(bindings, n, Len(inodes) + 1)
          /\ dirStamp' = time + 1
      BY <1>4 DEF ReplaceEntry, new
    <2>2. /\ IsSequence(inodes') /\ Len(inodes) \in Nat
          /\ DOMAIN inodes = 1 .. Len(inodes) /\ DOMAIN inodes' = 1 .. Len(inodes) + 1
          /\ \A k \in 1 .. Len(inodes) : inodes'[k] = inodes[k]
          /\ inodes'[Len(inodes) + 1] = new
      BY <1>1, <2>1, Lengthened
    <2>3. /\ DOMAIN bindings' = DOMAIN bindings \cup {n} /\ IsMap(bindings')
          /\ \A m \in DOMAIN bindings' : bindings'[m] = IF m = n THEN Len(inodes) + 1 ELSE bindings[m]
      BY <2>1 DEF Binding, IsMap
    <2>4. NamesBound'
      <3>1. \A m \in DOMAIN bindings : bindings[m] \in 1 .. Len(inodes)
        BY <1>1, <2>2 DEF NamesBound
      <3>2. \A m \in DOMAIN bindings' : bindings'[m] \in DOMAIN inodes'
        BY <2>2, <2>3, <3>1
      <3>3. \A l, m \in DOMAIN bindings' : bindings'[l] = bindings'[m] => l = m
        BY <1>1, <2>2, <2>3, <3>1 DEF NamesBound
      <3>4. \A m \in DOMAIN bindings' \cap CorpusReports : inodes'[bindings'[m]].what \in Off
        BY <1>1, <1>2, <2>2, <2>3, <3>1 DEF NamesBound
      <3> QED
        BY <2>3, <3>2, <3>3, <3>4 DEF NamesBound
    <2>5. \A k \in DOMAIN inodes' : inodes'[k].at \in Int /\ inodes'[k].at <= time + 1
      BY <1>1, <1>2, <2>2
    <2>6. \A m \in DOMAIN bindings' : bindings'[m] \in DOMAIN inodes =>
              m \in DOMAIN bindings /\ bindings[m] = bindings'[m]
      BY <2>2, <2>3
    <2> QED
      BY <1>1, <2>1, <2>2, <2>4, <2>5, <2>6 DEF PubTyped, Touched
  <1>5. CASE Unlink(n)
    <2>1. bindings' = Without(bindings, n) /\ dirStamp' = time + 1 /\ UNCHANGED inodes
      BY <1>5 DEF Unlink
    <2>2. /\ DOMAIN bindings' = DOMAIN bindings \ {n} /\ IsMap(bindings')
          /\ \A m \in DOMAIN bindings' : bindings'[m] = bindings[m]
      BY <2>1 DEF Without, IsMap
    <2>3. NamesBound'
      BY <1>1, <2>1, <2>2 DEF NamesBound
    <2> QED
      BY <1>1, <2>1, <2>2, <2>3 DEF PubTyped, Touched
  <1> QED
    BY <1>3, <1>4, <1>5

\* What a capture has.
captureVars == <<doing, descriptors, bytes, checked, instant>>

\* Whoever writes meanwhile, what is said of the capture holds: what was
\* written since does not pass.
LEMMA CaptureStands ==
  ASSUME PubTyped, PubTyped', CaptureInv, Touched, UNCHANGED captureVars
  PROVE  CaptureInv'
  <1> SUFFICES ASSUME Capturing PROVE (DescriptorsTyped /\ DirectorySeen /\ BytesSound /\ ClosingLook)'
    BY DEF CaptureInv, Capturing, captureVars
  <1>1. DescriptorsTyped /\ DirectorySeen /\ BytesSound /\ ClosingLook
    BY DEF CaptureInv
  <1>2. descriptors' = descriptors /\ bytes' = bytes /\ checked' = checked /\ instant' = instant
    BY DEF captureVars
  <1>3. /\ time \in Nat /\ time' \in Nat /\ time <= time'
        /\ dirStamp' = time + 1 \/ (dirStamp' = dirStamp /\ DOMAIN bindings' = DOMAIN bindings)
        /\ \A k \in DOMAIN inodes : k \in DOMAIN inodes' /\ (inodes'[k] = inodes[k] \/ inodes'[k].at = time + 1)
        /\ \A m \in DOMAIN bindings' : bindings'[m] \in DOMAIN inodes =>
              m \in DOMAIN bindings /\ bindings[m] = bindings'[m]
    BY DEF PubTyped, Touched
  <1>4. /\ Entry(1).at \in Int /\ Entry(1).at <= time
        /\ \A i \in 2 .. Len(descriptors) :
             /\ Entry(i).name \in DOMAIN Listed
             /\ Entry(i).inode \in DOMAIN inodes
             /\ Entry(i).at \in Int /\ Entry(i).at <= time
    BY <1>1 DEF DescriptorsTyped
  <1>5. Listed' = Listed /\ \A i : Entry(i)' = Entry(i)
    BY <1>2 DEF Listed, Entry
  <1>6. DescriptorsTyped'
    <2>1. /\ IsSequence(descriptors) /\ Len(descriptors) >= 1
          /\ \A i, j \in 2 .. Len(descriptors) : Entry(i).name = Entry(j).name => i = j
      BY <1>1 DEF DescriptorsTyped
    <2>2. Entry(1).at <= time'
      BY <1>3, <1>4
    <2>3. \A i \in 2 .. Len(descriptors) : Entry(i).inode \in DOMAIN inodes' /\ Entry(i).at <= time'
      BY <1>3, <1>4
    <2> QED
      BY <1>2, <1>4, <1>5, <2>1, <2>2, <2>3 DEF DescriptorsTyped
  <1>7. DirectorySeen'
    BY <1>1, <1>3, <1>4, <1>5 DEF DirectorySeen
  <1>8. \A i \in 2 .. Len(descriptors) :
           inodes'[Entry(i).inode].at = Entry(i).at => inodes'[Entry(i).inode] = inodes[Entry(i).inode]
    BY <1>3, <1>4
  <1>9. BytesSound'
    BY <1>1, <1>2, <1>5, <1>8 DEF BytesSound
  <1>10. \A i \in 2 .. Len(descriptors) : StillThere(i)' => StillThere(i)
    <2>1. SUFFICES ASSUME NEW i \in 2 .. Len(descriptors), StillThere(i)' PROVE StillThere(i)
      OBVIOUS
    <2>2. /\ inodes'[Entry(i).inode].at = Entry(i).at
          /\ Entry(i).name \in DOMAIN bindings' /\ bindings'[Entry(i).name] = Entry(i).inode
      BY <1>5, <2>1 DEF StillThere
    <2> QED
      BY <1>3, <1>4, <1>8, <2>2 DEF StillThere
  <1>11. InstantTyped => InstantTyped'
    BY <1>2 DEF InstantTyped
  <1>12. \A i : Agrees(i)' <=> Agrees(i)
    BY <1>2, <1>5 DEF Agrees
  <1>13. LookedAgain => LookedAgain'
    BY <1>2, <1>3, <1>4, <1>5, <1>10, <1>11, <1>12 DEF LookedAgain
  <1>14. ClosingLook'
    BY <1>1, <1>2, <1>13 DEF ClosingLook
  <1> QED
    BY <1>6, <1>7, <1>9, <1>14

\* A capture begins with the directory (snapshot.capture).
LEMMA PubCaptures ==
  ASSUME PubTyped, NEW why, Capture(why)
  PROVE  CaptureInv'
  <1>1. /\ descriptors' = <<[names |-> bindings, at |-> dirStamp]>> /\ bytes' = [n \in {} |-> 0] /\ checked' = 0
        /\ UNCHANGED <<bindings, dirStamp, time>>
    BY DEF Capture
  <1>2. dirStamp \in Int /\ dirStamp <= time /\ time \in Nat
    BY DEF PubTyped
  <1> DEFINE first == [names |-> bindings, at |-> dirStamp]
  <1>3. first.names = bindings /\ first.at = dirStamp
    OBVIOUS
  <1> HIDE DEF first
  <1>4. /\ descriptors' = [k \in 1 .. 1 |-> descriptors'[k]] /\ Len(descriptors') = 1 /\ descriptors'[1] = first
    BY <1>1 DEF first
  <1>5. Entry(1)' = first /\ Listed' = bindings
    BY <1>3, <1>4 DEF Entry, Listed
  <1>6. IsSequence(descriptors')
    BY <1>4, Counted
  <1>7. DescriptorsTyped'
    BY <1>1, <1>2, <1>3, <1>4, <1>5, <1>6 DEF DescriptorsTyped
  <1>8. DirectorySeen'
    BY <1>1, <1>5 DEF DirectorySeen
  <1>9. BytesSound'
    BY <1>1, <1>4 DEF BytesSound, IsMap
  <1>10. ClosingLook'
    BY <1>1, <1>4 DEF ClosingLook
  <1> QED
    BY <1>7, <1>8, <1>9, <1>10 DEF CaptureInv

\* The next name is opened, or is gone.
LEMMA PubOpens ==
  ASSUME PubTyped, CaptureInv, OpenNext
  PROVE  CaptureInv'
  <1>1. PICK n \in Unopened :
          IF n \in DOMAIN bindings
          THEN /\ descriptors' = Append(descriptors, [name |-> n, inode |-> bindings[n],
                                                      at |-> inodes[bindings[n]].at])
               /\ UNCHANGED doing
          ELSE doing' = "failed" /\ UNCHANGED descriptors
    BY DEF OpenNext
  <1>2. UNCHANGED <<inodes, bindings, dirStamp, time, foreignWrites, bytes, checked, sealed, judged, instant>>
    BY DEF OpenNext
  <1>3. CASE n \notin DOMAIN bindings
    BY <1>1, <1>3 DEF CaptureInv, Capturing
  <1>4. CASE n \in DOMAIN bindings
    <2> DEFINE new == [name |-> n, inode |-> bindings[n], at |-> inodes[bindings[n]].at]
    <2>1. descriptors' = Append(descriptors, new) /\ Capturing
      BY <1>1, <1>4 DEF OpenNext, Capturing
    <2>2. new.name = n /\ new.inode = bindings[n] /\ new.at = inodes[bindings[n]].at
      OBVIOUS
    <2> HIDE DEF new
    <2>3. DescriptorsTyped /\ DirectorySeen /\ BytesSound /\ ClosingLook
      BY <2>1 DEF CaptureInv
    <2>4. /\ IsSequence(descriptors') /\ Len(descriptors) \in Nat /\ Len(descriptors') = Len(descriptors) + 1
          /\ \A k \in 1 .. Len(descriptors) : descriptors'[k] = descriptors[k]
          /\ descriptors'[Len(descriptors) + 1] = new /\ Len(descriptors) >= 1
      BY <2>1, <2>3, Lengthened DEF DescriptorsTyped
    <2>14. PICK last \in Nat : last = Len(descriptors) + 1
      BY <2>4
    <2>5. /\ \A i \in 1 .. Len(descriptors) : Entry(i)' = Entry(i)
          /\ Entry(last)' = new /\ Listed' = Listed /\ Len(descriptors') = last
      BY <2>4, <2>14 DEF Entry, Listed
    <2>6. n \in DOMAIN Listed /\ \A i \in 2 .. Len(descriptors) : Entry(i).name # n
      BY DEF Unopened
    <2>7. bindings[n] \in DOMAIN inodes /\ inodes[bindings[n]].at \in Int /\ inodes[bindings[n]].at <= time
      BY <1>4 DEF PubTyped, NamesBound
    <2>8. \A i \in 2 .. last : i = last \/ i \in 2 .. Len(descriptors)
      BY <2>4, <2>14
    <2>9. DescriptorsTyped'
      <3>1. Entry(1)' = Entry(1) /\ Entry(1).at \in Int /\ Entry(1).at <= time
        BY <2>3, <2>4, <2>5 DEF DescriptorsTyped
      <3>2. \A i \in 2 .. Len(descriptors) : /\ Entry(i)' = Entry(i)
                                             /\ Entry(i).name \in DOMAIN Listed
                                             /\ Entry(i).inode \in DOMAIN inodes
                                             /\ Entry(i).at \in Int /\ Entry(i).at <= time
        BY <2>3, <2>5 DEF DescriptorsTyped
      <3>3. \A i \in 2 .. last : /\ Entry(i)'.name \in DOMAIN Listed
                                 /\ Entry(i)'.inode \in DOMAIN inodes
                                 /\ Entry(i)'.at \in Int /\ Entry(i)'.at <= time
        BY <2>2, <2>5, <2>6, <2>7, <2>8, <3>2
      <3>4. \A i, j \in 2 .. last : Entry(i)'.name = Entry(j)'.name => i = j
        BY <2>2, <2>3, <2>5, <2>6, <2>8, <3>2 DEF DescriptorsTyped
      <3> QED
        BY <1>2, <2>4, <2>5, <3>1, <3>3, <3>4 DEF DescriptorsTyped
    <2>10. DirectorySeen'
      BY <1>2, <2>3, <2>4, <2>5 DEF DirectorySeen
    <2>11. BytesSound'
      <3>1. n \notin DOMAIN bytes
        BY <2>3, <2>6 DEF BytesSound
      <3>2. \A k \in DOMAIN bytes : \E i \in 2 .. last : Entry(i)'.name = k
        BY <2>3, <2>4, <2>5, <2>14 DEF BytesSound
      <3>3. \A i \in 2 .. last : Entry(i)'.name \in DOMAIN bytes /\ inodes[Entry(i)'.inode].at = Entry(i)'.at
                                   => bytes[Entry(i)'.name] = inodes[Entry(i)'.inode].what
        BY <2>2, <2>3, <2>5, <2>8, <3>1 DEF BytesSound
      <3>4. bytes' = bytes /\ inodes' = inodes /\ IsMap(bytes')
        BY <1>2, <2>3 DEF BytesSound
      <3> QED
        BY <2>5, <3>2, <3>3, <3>4 DEF BytesSound
    <2>12. checked = 0
      <3>1. n \notin DOMAIN bytes
        BY <2>3, <2>6 DEF BytesSound
      <3> QED
        BY <2>3, <2>6, <3>1 DEF ClosingLook, LookedAgain
    <2>13. ClosingLook'
      BY <1>2, <2>4, <2>12 DEF ClosingLook
    <2> QED
      BY <2>9, <2>10, <2>11, <2>13 DEF CaptureInv
  <1> QED
    BY <1>3, <1>4

\* The entry that was opened is read.
LEMMA PubReads ==
  ASSUME PubTyped, CaptureInv, ReadLast
  PROVE  CaptureInv'
  <1> DEFINE last == Len(descriptors)
             e == Entry(last)
  <1>1. /\ Capturing /\ last > 1 /\ e.name \notin DOMAIN bytes
        /\ bytes' = Binding(bytes, e.name, inodes[e.inode].what)
        /\ UNCHANGED <<inodes, bindings, dirStamp, time, doing, descriptors, checked, instant>>
    BY DEF ReadLast, Capturing
  <1>2. DescriptorsTyped /\ DirectorySeen /\ BytesSound /\ ClosingLook
    BY <1>1 DEF CaptureInv
  <1>3. Listed' = Listed /\ (\A i : Entry(i)' = Entry(i)) /\ last \in Nat /\ last' = last
    BY <1>1, <1>2, LenProperties DEF Listed, Entry, DescriptorsTyped, IsSequence
  <1>4. DescriptorsTyped'
    BY <1>1, <1>2, <1>3 DEF DescriptorsTyped
  <1>5. DirectorySeen'
    BY <1>1, <1>2, <1>3 DEF DirectorySeen
  <1>6. /\ DOMAIN bytes' = DOMAIN bytes \cup {e.name} /\ IsMap(bytes')
        /\ bytes'[e.name] = inodes[e.inode].what
        /\ \A n \in DOMAIN bytes : n # e.name => bytes'[n] = bytes[n]
    BY <1>1 DEF Binding, IsMap
  <1>7. last \in 2 .. last
    BY <1>1, <1>3
  <1>8. \A i \in 2 .. last : Entry(i).name = e.name => i = last
    BY <1>2, <1>7 DEF DescriptorsTyped
  <1>9. BytesSound'
    <2>1. \A n \in DOMAIN bytes' : \E i \in 2 .. last : Entry(i).name = n
      BY <1>2, <1>6, <1>7 DEF BytesSound
    <2>2. \A i \in 2 .. last : Entry(i).name \in DOMAIN bytes' /\ inodes[Entry(i).inode].at = Entry(i).at
                                 => bytes'[Entry(i).name] = inodes[Entry(i).inode].what
      BY <1>2, <1>6, <1>8 DEF BytesSound
    <2> QED
      BY <1>1, <1>3, <1>6, <2>1, <2>2 DEF BytesSound
  <1>10. checked = 0
    BY <1>1, <1>2, <1>7 DEF DescriptorsTyped, ClosingLook, LookedAgain
  <1>11. ClosingLook'
    BY <1>1, <1>2, <1>3, <1>10 DEF ClosingLook
  <1> QED
    BY <1>4, <1>5, <1>9, <1>11 DEF CaptureInv

\* _assert_stable, the last opened first and the directory last.
LEMMA PubLooks ==
  ASSUME PubTyped, CaptureInv, AssertStable
  PROVE  CaptureInv'
  <1> DEFINE last == Len(descriptors)
             looked == last - checked
  <1>1. /\ Capturing /\ Unopened = {} /\ DOMAIN bytes = DOMAIN Listed /\ checked < last /\ checked' = checked + 1
        /\ doing' = IF StableEntry(looked) THEN doing ELSE "failed"
        /\ instant' = IF checked = 0 THEN <<ContentsNow>> ELSE instant
        /\ UNCHANGED <<inodes, bindings, dirStamp, time, descriptors, bytes>>
    BY DEF AssertStable, Capturing
  <1>2. CASE ~StableEntry(looked)
    BY <1>1, <1>2 DEF CaptureInv, Capturing
  <1>3. CASE StableEntry(looked)
    <2>1. DescriptorsTyped /\ DirectorySeen /\ BytesSound /\ ClosingLook
      BY <1>1 DEF CaptureInv
    <2>2. /\ last \in Nat /\ checked \in Nat /\ looked \in 1 .. last
      BY <1>1, <2>1, LenProperties DEF DescriptorsTyped, ClosingLook, IsSequence
    <2>3. Listed' = Listed /\ (\A i : Entry(i)' = Entry(i)) /\ last' = last
      BY <1>1 DEF Listed, Entry
    <2>4. DescriptorsTyped'
      BY <1>1, <2>1, <2>3 DEF DescriptorsTyped
    <2>5. DirectorySeen' /\ BytesSound'
      BY <1>1, <2>1, <2>3 DEF DirectorySeen, BytesSound
    <2>6. /\ InstantTyped'
          /\ \A i \in 2 .. last : StillThere(i) \/ i > looked => Agrees(i)'
          /\ dirStamp = Entry(1).at \/ checked = last => DOMAIN instant'[1] = DOMAIN Listed
      <3>1. CASE checked = 0
        <4>1. instant' = <<instant'[1]>> /\ instant'[1] = ContentsNow
          BY <1>1, <3>1
        <4>2. /\ DOMAIN ContentsNow = DOMAIN bindings /\ IsMap(ContentsNow)
              /\ \A n \in DOMAIN bindings : ContentsNow[n] = inodes[bindings[n]].what
          BY DEF ContentsNow, IsMap
        <4>3. InstantTyped'
          BY <4>1, <4>2 DEF InstantTyped, PubTyped, NamesBound
        <4>4. \A i \in 2 .. last : StillThere(i) => Agrees(i)'
          <5> SUFFICES ASSUME NEW i \in 2 .. last, StillThere(i) PROVE Agrees(i)'
            OBVIOUS
          <5>1. Entry(i).name \in DOMAIN bytes
            BY <1>1, <2>1 DEF DescriptorsTyped
          <5>2. bytes[Entry(i).name] = inodes[Entry(i).inode].what
            BY <2>1, <5>1 DEF BytesSound, StillThere
          <5>3. Entry(i).name \in DOMAIN bindings /\ bindings[Entry(i).name] = Entry(i).inode
            BY DEF StillThere
          <5> QED
            BY <1>1, <2>3, <4>1, <4>2, <5>2, <5>3 DEF Agrees
        <4>5. \A i \in 2 .. last : ~(i > looked)
          BY <2>2, <3>1
        <4> QED
          BY <2>1, <2>2, <3>1, <4>1, <4>2, <4>3, <4>4, <4>5 DEF DirectorySeen, DescriptorsTyped
      <3>2. CASE checked # 0
        <4>1. LookedAgain /\ instant' = instant
          BY <1>1, <2>1, <2>2, <3>2 DEF ClosingLook
        <4>2. InstantTyped' /\ \A i : Agrees(i)' <=> Agrees(i)
          BY <1>1, <2>3, <4>1 DEF LookedAgain, InstantTyped, Agrees
        <4> QED
          BY <4>1, <4>2 DEF LookedAgain
      <3> QED
        BY <3>1, <3>2
    <2>7. \A i \in 2 .. last : i > looked - 1 => Agrees(i)'
      <3> SUFFICES ASSUME NEW i \in 2 .. last, i > looked - 1 PROVE Agrees(i)'
        OBVIOUS
      <3>1. i > looked \/ i = looked
        BY <2>2
      <3>2. i = looked => StillThere(i)
        BY <1>3 DEF StableEntry, StillThere
      <3> QED
        BY <2>6, <3>1, <3>2
    <2>8. checked' = last => DOMAIN instant'[1] = DOMAIN Listed
      <3>1. checked' = last => looked = 1
        BY <1>1, <2>2
      <3> QED
        BY <1>3, <2>6, <3>1 DEF StableEntry
    <2>9. LookedAgain'
      <3>1. \A i : StillThere(i)' <=> StillThere(i)
        BY <1>1, <2>3 DEF StillThere
      <3>2. last - checked' = looked - 1
        BY <1>1, <2>2
      <3> QED
        BY <1>1, <2>3, <2>6, <2>7, <2>8, <3>1, <3>2 DEF LookedAgain
    <2>10. ClosingLook'
      BY <1>1, <2>2, <2>3, <2>9 DEF ClosingLook
    <2> QED
      BY <2>4, <2>5, <2>10 DEF CaptureInv
  <1> QED
    BY <1>2, <1>3

\* what a capture that came to its end has read was there at one instant
LEMMA CapturedIsInstant ==
  ASSUME CaptureInv, Capturing, Captured
  PROVE  bytes = instant[1] /\ InstantTyped
  <1>1. DescriptorsTyped /\ BytesSound /\ checked = Len(descriptors) /\ LookedAgain
    BY DEF CaptureInv, ClosingLook, Captured
  <1>2. DOMAIN bytes = DOMAIN Listed /\ DOMAIN instant[1] = DOMAIN Listed
    BY <1>1 DEF LookedAgain
  <1>3. Len(descriptors) \in Nat
    BY <1>1, LenProperties DEF DescriptorsTyped, IsSequence
  <1>4. \A n \in DOMAIN bytes : instant[1][n] = bytes[n]
    <2> SUFFICES ASSUME NEW n \in DOMAIN bytes PROVE instant[1][n] = bytes[n]
      OBVIOUS
    <2>1. PICK i \in 2 .. Len(descriptors) : Entry(i).name = n
      BY <1>1 DEF BytesSound
    <2>2. i > Len(descriptors) - checked
      BY <1>1, <1>3
    <2>3. Agrees(i)
      BY <1>1, <2>2 DEF LookedAgain
    <2> QED
      BY <2>1, <2>3 DEF Agrees
  <1>5. IsMap(bytes) /\ IsMap(instant[1])
    BY <1>1 DEF BytesSound, LookedAgain, InstantTyped
  <1> QED
    BY <1>1, <1>2, <1>4, <1>5 DEF IsMap, LookedAgain

\* Nothing is said of a capture that is over.
LEMMA PubIdles ==
  ASSUME doing' = "idle"
  PROVE  CaptureInv'
  BY DEF CaptureInv, Capturing

\* A step that writes nothing keeps the types,
LEMMA TypedStays ==
  ASSUME PubTyped, UNCHANGED <<inodes, bindings, dirStamp, time>>
  PROVE  PubTyped'
  <1>1. inodes' = inodes /\ bindings' = bindings /\ dirStamp' = dirStamp /\ time' = time
    OBVIOUS
  <1> QED
    BY <1>1 DEF PubTyped, NamesBound

\* the verdict,
LEMMA JudgedStays ==
  ASSUME JudgedInv, UNCHANGED <<judged, instant>>
  PROVE  (judged = "clean" => InstantTyped /\ ~Problems(instant[1]))'
  <1>1. judged' = judged /\ instant' = instant
    OBVIOUS
  <1>2. (judged = "clean" => InstantTyped /\ ~Problems(instant[1]))
    BY DEF JudgedInv
  <1>3. InstantTyped => InstantTyped'
    BY <1>1 DEF InstantTyped
  <1> QED
    BY <1>1, <1>2, <1>3

\* and the seal.
LEMMA SealedStays ==
  ASSUME SealedInv, UNCHANGED sealed
  PROVE  SealedInv'
  <1>1. sealed' = sealed
    OBVIOUS
  <1> QED
    BY <1>1 DEF SealedInv

\* Every step of seal, of verify and of whoever else writes keeps the
\* invariant.
LEMMA PubStepInv == PubInv /\ [PublicationNext]_publicationVars => PubInv'
  <1> SUFFICES ASSUME PubInv, [PublicationNext]_publicationVars PROVE PubInv'
    OBVIOUS
  <1> USE PublicationAssumption
  <1>1. PubTyped /\ CaptureInv /\ JudgedInv /\ SealedInv
    BY DEF PubInv
  <1>2. CASE Others
    <2>1. PICK n \in EnvelopeNames :
            Unlink(n) \/ \E what \in Forged(n) : WriteInPlace(n, what) \/ ReplaceEntry(n, what)
      BY <1>2 DEF Others
    <2>2. PICK what : /\ n \in CorpusReports => what \in Off
                      /\ WriteInPlace(n, what) \/ ReplaceEntry(n, what) \/ Unlink(n)
      <3>1. n \in CorpusReports => Forged(n) = Off
        BY DEF Forged, Written, Envelope
      <3>2. CASE Unlink(n)
        <4>1. Right \in Off
          BY DEF Off
        <4> QED
          BY <3>2, <4>1
      <3>3. CASE ~Unlink(n)
        BY <2>1, <3>1, <3>3
      <3> QED
        BY <3>2, <3>3
    <2>3. time' = time + 1 /\ UNCHANGED <<doing, descriptors, bytes, checked, sealed, judged, instant>>
      BY <1>2 DEF Others
    <2>4. PubTyped' /\ Touched
      BY <1>1, <2>2, <2>3, WritesTouch
    <2>5. CaptureInv'
      BY <1>1, <2>3, <2>4, CaptureStands DEF captureVars
    <2>6. JudgedInv'
      BY <1>1, <2>3, JudgedStays DEF JudgedInv
    <2> QED
      BY <1>1, <2>3, <2>4, <2>5, <2>6, SealedStays DEF PubInv
  <1>3. ASSUME NEW commit, seal(commit) PROVE PubInv'
    <2>1. /\ Capture("sealing") /\ sealed' = [commit |-> commit, manifest |-> Right, of |-> <<>>]
      BY <1>3 DEF seal
    <2>2. PubTyped'
      BY <1>1, <2>1, TypedStays DEF Capture
    <2>3. CaptureInv'
      BY <1>1, <2>1, PubCaptures
    <2> QED
      BY <2>1, <2>2, <2>3 DEF PubInv, JudgedInv, SealedInv, Capture
  <1>4. CASE verify
    <2>1. Capture("verifying") /\ UNCHANGED sealed
      BY <1>4 DEF verify
    <2>2. PubTyped'
      BY <1>1, <2>1, TypedStays DEF Capture
    <2>3. CaptureInv'
      BY <1>1, <2>1, PubCaptures
    <2>4. JudgedInv'
      BY <2>1 DEF JudgedInv, Capture
    <2> QED
      BY <1>1, <2>1, <2>2, <2>3, <2>4, SealedStays DEF PubInv
  <1>5. CASE OpenNext \/ ReadLast \/ AssertStable
    <2>1. CaptureInv'
      BY <1>1, <1>5, PubOpens, PubReads, PubLooks
    <2>2. UNCHANGED <<inodes, bindings, dirStamp, time, sealed, judged>> /\ doing # "idle"
      BY <1>5 DEF OpenNext, ReadLast, AssertStable
    <2>3. judged' = "none"
      BY <1>1, <2>2 DEF JudgedInv
    <2> QED
      BY <1>1, <2>1, <2>2, <2>3, TypedStays, SealedStays DEF PubInv, JudgedInv
  <1>6. CASE WriteManifest
    <2> DEFINE made == build_manifest(bytes, sealed.commit)
    <2>1. /\ doing = "sealing" /\ Captured /\ doing' = "sealed" /\ judged' = judged /\ PlaceEntry(Manifest, made)
          /\ sealed' = [sealed EXCEPT !.manifest = made, !.of = instant]
      BY <1>6 DEF WriteManifest
    <2>2. bytes = instant[1]
      BY <1>1, <2>1, CapturedIsInstant DEF Capturing
    <2>3. made.files = PayloadOf(instant[1])
      BY <2>2 DEF build_manifest
    <2> HIDE DEF made
    <2>4. SealedInv'
      <3>1. DOMAIN sealed' = DOMAIN sealed
        BY <2>1
      <3>2. sealed'.manifest = made /\ sealed'.of = instant
        BY <1>1, <2>1 DEF SealedInv
      <3> QED
        BY <1>1, <2>3, <3>1, <3>2 DEF SealedInv
    <2>5. PubTyped'
      BY <1>1, <2>1, WritesTouch DEF PlaceEntry, Envelope
    <2>6. CaptureInv'
      BY <2>1 DEF CaptureInv, Capturing
    <2>7. JudgedInv'
      BY <1>1, <2>1 DEF JudgedInv
    <2> QED
      BY <2>4, <2>5, <2>6, <2>7 DEF PubInv
  <1>7. CASE WriteDetached
    <2>1. /\ doing = "sealed" /\ doing' = "idle" /\ PlaceEntry(Detached, sealed.manifest)
          /\ UNCHANGED <<sealed, judged, instant>>
      BY <1>7 DEF WriteDetached
    <2>2. PubTyped'
      BY <1>1, <2>1, WritesTouch DEF PlaceEntry, Envelope
    <2>3. JudgedInv'
      BY <1>1, <2>1, JudgedStays DEF JudgedInv
    <2> QED
      BY <1>1, <2>1, <2>2, <2>3, PubIdles, SealedStays DEF PubInv
  <1>8. CASE Die \/ GiveUp
    <2>1. /\ doing # "idle" /\ doing' = "idle" /\ UNCHANGED <<inodes, bindings, dirStamp, time, sealed, judged>>
      BY <1>8 DEF Die, GiveUp
    <2>2. JudgedInv'
      BY <1>1, <2>1 DEF JudgedInv
    <2> QED
      BY <1>1, <2>1, <2>2, PubIdles, SealedStays, TypedStays DEF PubInv
  <1>9. CASE Judge
    <2>1. /\ doing = "verifying" /\ Captured /\ doing' = "idle"
          /\ judged' = IF Problems(bytes) THEN "problems" ELSE "clean"
          /\ UNCHANGED <<inodes, bindings, dirStamp, time, sealed, instant>>
      BY <1>9 DEF Judge
    <2>2. bytes = instant[1] /\ InstantTyped
      BY <1>1, <2>1, CapturedIsInstant DEF Capturing
    <2>3. InstantTyped'
      BY <2>1, <2>2 DEF InstantTyped
    <2>4. judged' = "clean" => ~Problems(instant[1])
      BY <2>1, <2>2
    <2>5. (~Problems(instant[1]))' <=> ~Problems(instant[1])
      BY <2>1
    <2>6. JudgedInv'
      BY <2>1, <2>3, <2>4, <2>5 DEF JudgedInv
    <2> QED
      BY <1>1, <2>1, <2>6, PubIdles, SealedStays, TypedStays DEF PubInv
  <1>10. CASE UNCHANGED publicationVars
    <2>1. /\ UNCHANGED <<inodes, bindings, dirStamp, time>> /\ UNCHANGED <<judged, instant>> /\ UNCHANGED sealed
          /\ UNCHANGED captureVars /\ doing' = doing
      BY <1>10 DEF publicationVars, captureVars
    <2>2. PubTyped'
      BY <1>1, <2>1, TypedStays
    <2>3. Touched
      BY <1>1, <2>1 DEF Touched, PubTyped
    <2>4. CaptureInv'
      BY <1>1, <2>1, <2>2, <2>3, CaptureStands
    <2>5. JudgedInv'
      BY <1>1, <2>1, JudgedStays DEF JudgedInv
    <2> QED
      BY <1>1, <2>1, <2>2, <2>4, <2>5, SealedStays DEF PubInv
  <1> QED
    BY <1>2, <1>3, <1>4, <1>5, <1>6, <1>7, <1>8, <1>9, <1>10 DEF PublicationNext
==============================================================================
