---------------------------- MODULE BindingProofs ----------------------------
(***************************************************************************)
(* The Python binding, part by part: what one thread, one handle, one call *)
(* or one search is promised, for every number of threads, handles, files  *)
(* and calls.  Each part is proved of its own Init and Next; PythonProofs  *)
(* puts the parts together.                                                *)
(***************************************************************************)
EXTENDS Pool, Loader, Captures, Lend, Ladder, Seam, Shell, Narrow, Abi, Decode,
        Grades, FiniteSetTheorems, SequenceTheorems, TLAPS

------------------------------------------------------------------------------
\* Pool. A Pattern may be shared by any number of threads: a handle stays with
\* the thread and the Pattern it was compiled for as long as it is in use, and
\* the cache stays within its size and names compiled Patterns only.

(* A thread that is somewhere in a call is alive and its Pattern exists; one  *)
(* that is between calls holds none.                                          *)
CallsAccounted ==
  \A t \in Thread : IF address[t] = "idle" THEN cur[t] = Nobody
                    ELSE t \in alive /\ cur[t] \in pats

(* A thread compiles what has no handle yet, and calls what has one.          *)
HandleInHand ==
  \A t \in Thread :
     /\ address[t] = "compiling" => addr[cur[t]][t] = NoHandle
     /\ address[t] = "calling" => addr[cur[t]][t] # NoHandle

(* A parked address is the handle of its Pattern in its thread.               *)
ParkedAtHome ==
  \A p \in Pat, t \in Thread :
     addr[p][t] # NoHandle => addr[p][t].pat = p /\ addr[p][t].thr = t

(* A Pattern under construction is known to the thread that makes it alone.   *)
MadeInPrivate ==
  \A t \in Thread : making[t] # "nothing" =>
     /\ address[t] = "compiling" /\ cur[t] \notin retained
     /\ \A u \in Thread : addr[cur[t]][u] = NoHandle /\ (u # t => cur[u] # cur[t])
     /\ \A i \in 1 .. Len(compiledCache) : compiledCache[i] # cur[t]

\* What the cache or a caller retains was compiled.
RetainedExist == retained \subseteq pats

\* The strengthening: every parked handle is the one its Pattern compiled in
\* its thread.
PoolInv == /\ PoolTypeOK /\ CallsAccounted /\ HandleInHand /\ HandlesParked /\ ParkedAtHome
           /\ MadeInPrivate /\ RetainedExist /\ CacheSound

(* What the cache holds after a hit: the same entries, entry i last.          *)
LEMMA RecentEntries ==
    ASSUME NEW c \in Seq(Pat), c = compiledCache, NEW i \in 1 .. Len(c)
    PROVE  /\ Recent(i) \in Seq(Pat) /\ Len(Recent(i)) = Len(c)
           /\ \A k \in 1 .. Len(c) :
                 Recent(i)[k] = c[IF k < i THEN k ELSE IF k < Len(c) THEN k + 1 ELSE i]
  <1> DEFINE front == SubSeq(c, 1, i - 1)
             back  == SubSeq(c, i + 1, Len(c))
  <1>1. Len(c) \in Nat /\ i \in Nat /\ i >= 1 /\ i <= Len(c)
    OBVIOUS
  <1>2. /\ front \in Seq(Pat) /\ Len(front) = i - 1
        /\ \A k \in 1 .. i - 1 : front[k] = c[k]
    BY <1>1
  <1>3. /\ back \in Seq(Pat) /\ Len(back) = Len(c) - i
        /\ \A k \in 1 .. Len(c) - i : back[k] = c[i + k]
    BY <1>1
  <1>4. c[i] \in Pat
    OBVIOUS
  <1> HIDE DEF front, back
  <1> DEFINE rest == front \o back
  <1>5. rest \in Seq(Pat) /\ Len(rest) = Len(c) - 1
    BY <1>1, <1>2, <1>3
  <1>6. \A k \in 1 .. Len(c) - 1 : rest[k] = c[IF k < i THEN k ELSE k + 1]
    <2> TAKE k \in 1 .. Len(c) - 1
    <2>1. rest[k] = IF k <= Len(front) THEN front[k] ELSE back[k - Len(front)]
      BY <1>1, <1>2, <1>3
    <2>2. CASE k < i
      BY <1>1, <1>2, <2>1, <2>2
    <2>3. CASE ~(k < i)
      <3>1. k - Len(front) \in 1 .. Len(c) - i /\ i + (k - Len(front)) = k + 1
        BY <1>1, <1>2, <2>3
      <3> QED  BY <1>1, <1>2, <1>3, <2>1, <2>3, <3>1
    <2> QED  BY <2>2, <2>3
  <1>7. Recent(i) = rest \o <<c[i]>>
    BY DEF Recent, front, back
  <1> HIDE DEF rest
  <1>8. /\ rest \o <<c[i]>> \in Seq(Pat) /\ Len(rest \o <<c[i]>>) = Len(c)
        /\ \A k \in 1 .. Len(c) :
              (rest \o <<c[i]>>)[k] = IF k < Len(c) THEN rest[k] ELSE c[i]
    BY <1>1, <1>4, <1>5
  <1>9. ASSUME NEW k \in 1 .. Len(c)
        PROVE  Recent(i)[k] = c[IF k < i THEN k ELSE IF k < Len(c) THEN k + 1 ELSE i]
    <2>1. CASE k < Len(c)
      BY <1>1, <1>6, <1>7, <1>8, <2>1
    <2>2. CASE ~(k < Len(c))
      BY <1>1, <1>7, <1>8, <2>2
    <2> QED  BY <2>1, <2>2
  <1> QED  BY <1>7, <1>8, <1>9

(* Storing adds a Pattern to the cache or leaves the cache alone, and never   *)
(* makes it larger than MaxCache.                                             *)
LEMMA StoredEntries ==
    ASSUME NEW c \in Seq(Pat), c = compiledCache, Len(c) <= MaxCache, NEW p \in Pat, ~Cached(key[p])
    PROVE  \E d \in {0, 1} :
             /\ Stored(p) \in Seq(Pat) /\ Len(Stored(p)) = Len(c) - d + 1
             /\ Len(Stored(p)) <= MaxCache /\ d <= Len(c)
             /\ \A k \in 1 .. Len(c) - d : Stored(p)[k] = c[k + d]
             /\ Stored(p)[Len(c) - d + 1] = p
  <1> USE PoolAssumption DEF PoolAssumption
  <1>1. CASE Len(c) < MaxCache
    <2>1. Stored(p) = Append(c, p)
      BY <1>1 DEF Stored
    <2> WITNESS 0 \in {0, 1}
    <2> QED  BY <2>1, <1>1
  <1>2. CASE ~(Len(c) < MaxCache)
    <2>1. Stored(p) = Append(Tail(c), p)
      BY <1>2 DEF Stored
    <2>2. Len(c) \in Nat /\ Len(c) >= 1 /\ Len(c) = MaxCache
      BY <1>2
    <2>3. Tail(c) \in Seq(Pat) /\ Len(Tail(c)) = Len(c) - 1
      BY <2>2
    <2>4. \A k \in 1 .. Len(c) - 1 : Tail(c)[k] = c[k + 1]
      BY <2>2
    <2> WITNESS 1 \in {0, 1}
    <2> QED  BY <2>1, <2>2, <2>3, <2>4
  <1> QED  BY <1>1, <1>2

\* A call on a Pattern keeps it.
LEMMA UsePatternKeepsInv ==
    ASSUME PoolInv, NEW t \in Thread, NEW p \in Pat, UsePattern(t, p)
    PROVE  PoolInv'
  <1> USE PoolAssumption DEF PoolAssumption, PoolInv, UsePattern
  <1>1. PoolTypeOK'
    BY DEF PoolTypeOK, CallsAccounted, Pat, Handle, Nobody
  <1>2. CallsAccounted'
    BY DEF PoolTypeOK, CallsAccounted, RetainedExist, MadeInPrivate, Pat, Nobody
  <1>3. HandleInHand'
    BY DEF PoolTypeOK, CallsAccounted, HandleInHand, Pat, Nobody, Address
  <1>4. HandlesParked'
    BY DEF PoolTypeOK, CallsAccounted, HandlesParked, ParkedAtHome, MadeInPrivate, Pat, Handle, Nobody
  <1>5. ParkedAtHome'
    BY DEF PoolTypeOK, ParkedAtHome, Pat, Handle, Nobody
  <1>6. MadeInPrivate'
    BY DEF PoolTypeOK, CallsAccounted, MadeInPrivate, Pat, Nobody
  <1>7. RetainedExist'
    BY DEF PoolTypeOK, RetainedExist, CallsAccounted, MadeInPrivate, Pat, Nobody
  <1>8. CacheSound'
    BY DEF PoolTypeOK, CallsAccounted, MadeInPrivate, CacheSound, Pat, Nobody, InCache
  <1> QED  BY <1>1, <1>2, <1>3, <1>4, <1>5, <1>6, <1>7, <1>8

\* Calling the engine keeps it.
LEMMA CallKeepsInv ==
    ASSUME PoolInv, NEW t \in Thread, Call(t)
    PROVE  PoolInv'
  <1> USE PoolAssumption DEF PoolAssumption, PoolInv, Call
  <1>1. PoolTypeOK'
    BY DEF PoolTypeOK, CallsAccounted, Pat, Handle, Nobody
  <1>2. CallsAccounted'
    BY DEF PoolTypeOK, CallsAccounted, RetainedExist, MadeInPrivate, Pat, Nobody
  <1>3. HandleInHand'
    BY DEF PoolTypeOK, CallsAccounted, HandleInHand, Pat, Nobody, Address
  <1>4. HandlesParked'
    BY DEF PoolTypeOK, CallsAccounted, HandlesParked, ParkedAtHome, MadeInPrivate, Pat, Handle, Nobody
  <1>5. ParkedAtHome'
    BY DEF PoolTypeOK, ParkedAtHome, Pat, Handle, Nobody
  <1>6. MadeInPrivate'
    BY DEF PoolTypeOK, CallsAccounted, MadeInPrivate, Pat, Nobody
  <1>7. RetainedExist'
    BY DEF PoolTypeOK, RetainedExist, CallsAccounted, MadeInPrivate, Pat, Nobody
  <1>8. CacheSound'
    BY DEF PoolTypeOK, CallsAccounted, MadeInPrivate, CacheSound, Pat, Nobody, InCache
  <1> QED  BY <1>1, <1>2, <1>3, <1>4, <1>5, <1>6, <1>7, <1>8

\* Returning keeps it.
LEMMA ReturnKeepsInv ==
    ASSUME PoolInv, NEW t \in Thread, Return(t)
    PROVE  PoolInv'
  <1> USE PoolAssumption DEF PoolAssumption, PoolInv, Return
  <1>1. PoolTypeOK'
    BY DEF PoolTypeOK, CallsAccounted, Pat, Handle, Nobody
  <1>2. CallsAccounted'
    BY DEF PoolTypeOK, CallsAccounted, RetainedExist, MadeInPrivate, Pat, Nobody
  <1>3. HandleInHand'
    BY DEF PoolTypeOK, CallsAccounted, HandleInHand, Pat, Nobody, Address
  <1>4. HandlesParked'
    BY DEF PoolTypeOK, CallsAccounted, HandlesParked, ParkedAtHome, MadeInPrivate, Pat, Handle, Nobody
  <1>5. ParkedAtHome'
    BY DEF PoolTypeOK, ParkedAtHome, Pat, Handle, Nobody
  <1>6. MadeInPrivate'
    BY DEF PoolTypeOK, CallsAccounted, MadeInPrivate, Pat, Nobody
  <1>7. RetainedExist'
    BY DEF PoolTypeOK, RetainedExist, CallsAccounted, MadeInPrivate, Pat, Nobody
  <1>8. CacheSound'
    BY DEF PoolTypeOK, CallsAccounted, MadeInPrivate, CacheSound, Pat, Nobody, InCache
  <1> QED  BY <1>1, <1>2, <1>3, <1>4, <1>5, <1>6, <1>7, <1>8

\* Leaving a call parks the handle where it was.
LEMMA LeaveKeepsInv ==
    ASSUME PoolInv, NEW t \in Thread, Leave(t)
    PROVE  PoolInv'
  <1> USE PoolAssumption DEF PoolAssumption, PoolInv, Leave
  <1>1. PoolTypeOK'
    BY DEF PoolTypeOK, CallsAccounted, Pat, Handle, Nobody
  <1>2. CallsAccounted'
    BY DEF PoolTypeOK, CallsAccounted, RetainedExist, MadeInPrivate, Pat, Nobody
  <1>3. HandleInHand'
    BY DEF PoolTypeOK, CallsAccounted, HandleInHand, Pat, Nobody, Address
  <1>4. HandlesParked'
    BY DEF PoolTypeOK, CallsAccounted, HandlesParked, ParkedAtHome, MadeInPrivate, Pat, Handle, Nobody
  <1>5. ParkedAtHome'
    BY DEF PoolTypeOK, ParkedAtHome, Pat, Handle, Nobody
  <1>6. MadeInPrivate'
    BY DEF PoolTypeOK, CallsAccounted, MadeInPrivate, Pat, Nobody
  <1>7. RetainedExist'
    BY DEF PoolTypeOK, RetainedExist, CallsAccounted, MadeInPrivate, Pat, Nobody
  <1>8. CacheSound'
    BY DEF PoolTypeOK, CallsAccounted, MadeInPrivate, CacheSound, Pat, Nobody, InCache
  <1> QED  BY <1>1, <1>2, <1>3, <1>4, <1>5, <1>6, <1>7, <1>8

\* A thread that ends takes its handles along.
LEMMA ExitKeepsInv ==
    ASSUME PoolInv, NEW t \in Thread, Exit(t)
    PROVE  PoolInv'
  <1> USE PoolAssumption DEF PoolAssumption, PoolInv, Exit
  <1>1. PoolTypeOK'
    BY DEF PoolTypeOK, CallsAccounted, Pat, Handle, Nobody
  <1>2. CallsAccounted'
    BY DEF PoolTypeOK, CallsAccounted, RetainedExist, MadeInPrivate, Pat, Nobody
  <1>3. HandleInHand'
    BY DEF PoolTypeOK, CallsAccounted, HandleInHand, Pat, Nobody, Address
  <1>4. HandlesParked'
    BY DEF PoolTypeOK, CallsAccounted, HandlesParked, ParkedAtHome, MadeInPrivate, Pat, Handle, Nobody
  <1>5. ParkedAtHome'
    BY DEF PoolTypeOK, ParkedAtHome, Pat, Handle, Nobody
  <1>6. MadeInPrivate'
    BY DEF PoolTypeOK, CallsAccounted, MadeInPrivate, Pat, Nobody
  <1>7. RetainedExist'
    BY DEF PoolTypeOK, RetainedExist, CallsAccounted, MadeInPrivate, Pat, Nobody
  <1>8. CacheSound'
    BY DEF PoolTypeOK, CallsAccounted, MadeInPrivate, CacheSound, Pat, Nobody, InCache
  <1> QED  BY <1>1, <1>2, <1>3, <1>4, <1>5, <1>6, <1>7, <1>8

\* A caller may drop a Pattern.
LEMMA DropKeepsInv ==
    ASSUME PoolInv, NEW p \in Pat, Drop(p)
    PROVE  PoolInv'
  <1> USE PoolAssumption DEF PoolAssumption, PoolInv, Drop
  <1>1. PoolTypeOK'
    BY DEF PoolTypeOK, CallsAccounted, Pat, Handle, Nobody
  <1>2. CallsAccounted'
    BY DEF PoolTypeOK, CallsAccounted, RetainedExist, MadeInPrivate, Pat, Nobody
  <1>3. HandleInHand'
    BY DEF PoolTypeOK, CallsAccounted, HandleInHand, Pat, Nobody, Address
  <1>4. HandlesParked'
    BY DEF PoolTypeOK, CallsAccounted, HandlesParked, ParkedAtHome, MadeInPrivate, Pat, Handle, Nobody
  <1>5. ParkedAtHome'
    BY DEF PoolTypeOK, ParkedAtHome, Pat, Handle, Nobody
  <1>6. MadeInPrivate'
    BY DEF PoolTypeOK, CallsAccounted, MadeInPrivate, Pat, Nobody
  <1>7. RetainedExist'
    BY DEF PoolTypeOK, RetainedExist, CallsAccounted, MadeInPrivate, Pat, Nobody
  <1>8. CacheSound'
    BY DEF PoolTypeOK, CallsAccounted, MadeInPrivate, CacheSound, Pat, Nobody, InCache
  <1> QED  BY <1>1, <1>2, <1>3, <1>4, <1>5, <1>6, <1>7, <1>8

\* A Pattern nobody names is collected.
LEMMA CollectKeepsInv ==
    ASSUME PoolInv, NEW p \in Pat, Collect(p)
    PROVE  PoolInv'
  <1> USE PoolAssumption DEF PoolAssumption, PoolInv, Collect
  <1>1. PoolTypeOK'
    BY DEF PoolTypeOK, CallsAccounted, Pat, Handle, Nobody
  <1>2. CallsAccounted'
    BY DEF PoolTypeOK, CallsAccounted, RetainedExist, MadeInPrivate, Pat, Nobody
  <1>3. HandleInHand'
    BY DEF PoolTypeOK, CallsAccounted, HandleInHand, Pat, Nobody, Address
  <1>4. HandlesParked'
    BY DEF PoolTypeOK, CallsAccounted, HandlesParked, ParkedAtHome, MadeInPrivate, Pat, Handle, Nobody
  <1>5. ParkedAtHome'
    BY DEF PoolTypeOK, ParkedAtHome, Pat, Handle, Nobody
  <1>6. MadeInPrivate'
    BY DEF PoolTypeOK, CallsAccounted, MadeInPrivate, Pat, Nobody
  <1>7. RetainedExist'
    BY DEF PoolTypeOK, RetainedExist, CallsAccounted, MadeInPrivate, Pat, Nobody
  <1>8. CacheSound'
    BY DEF PoolTypeOK, CallsAccounted, MadeInPrivate, CacheSound, Pat, Nobody, InCache
  <1> QED  BY <1>1, <1>2, <1>3, <1>4, <1>5, <1>6, <1>7, <1>8

\* purge empties the cache.
LEMMA purgeKeepsInv ==
    ASSUME PoolInv, purge
    PROVE  PoolInv'
  <1> USE PoolAssumption DEF PoolAssumption, PoolInv, purge
  <1>1. PoolTypeOK'
    BY DEF PoolTypeOK, CallsAccounted, Pat, Handle, Nobody
  <1>2. CallsAccounted'
    BY DEF PoolTypeOK, CallsAccounted, RetainedExist, MadeInPrivate, Pat, Nobody
  <1>3. HandleInHand'
    BY DEF PoolTypeOK, CallsAccounted, HandleInHand, Pat, Nobody, Address
  <1>4. HandlesParked'
    BY DEF PoolTypeOK, CallsAccounted, HandlesParked, ParkedAtHome, MadeInPrivate, Pat, Handle, Nobody
  <1>5. ParkedAtHome'
    BY DEF PoolTypeOK, ParkedAtHome, Pat, Handle, Nobody
  <1>6. MadeInPrivate'
    BY DEF PoolTypeOK, CallsAccounted, MadeInPrivate, Pat, Nobody
  <1>7. RetainedExist'
    BY DEF PoolTypeOK, RetainedExist, CallsAccounted, MadeInPrivate, Pat, Nobody
  <1>8. CacheSound'
    BY DEF PoolTypeOK, CallsAccounted, MadeInPrivate, CacheSound, Pat, Nobody, InCache
  <1> QED  BY <1>1, <1>2, <1>3, <1>4, <1>5, <1>6, <1>7, <1>8

\* A refused pattern enters nothing.
LEMMA RefusedPatternKeepsInv ==
    ASSUME PoolInv, NEW t \in Thread, RefusedPattern(t)
    PROVE  PoolInv'
  <1> USE PoolAssumption DEF PoolAssumption, PoolInv, RefusedPattern
  <1>1. PoolTypeOK'
    BY DEF PoolTypeOK, CallsAccounted, Pat, Handle, Nobody
  <1>2. CallsAccounted'
    BY DEF PoolTypeOK, CallsAccounted, RetainedExist, MadeInPrivate, Pat, Nobody
  <1>3. HandleInHand'
    BY DEF PoolTypeOK, CallsAccounted, HandleInHand, Pat, Nobody, Address
  <1>4. HandlesParked'
    BY DEF PoolTypeOK, CallsAccounted, HandlesParked, ParkedAtHome, MadeInPrivate, Pat, Handle, Nobody
  <1>5. ParkedAtHome'
    BY DEF PoolTypeOK, ParkedAtHome, Pat, Handle, Nobody
  <1>6. MadeInPrivate'
    BY DEF PoolTypeOK, CallsAccounted, MadeInPrivate, Pat, Nobody
  <1>7. RetainedExist'
    BY DEF PoolTypeOK, RetainedExist, CallsAccounted, MadeInPrivate, Pat, Nobody
  <1>8. CacheSound'
    BY DEF PoolTypeOK, CallsAccounted, MadeInPrivate, CacheSound, Pat, Nobody, InCache
  <1> QED  BY <1>1, <1>2, <1>3, <1>4, <1>5, <1>6, <1>7, <1>8

(* A hit reorders the cache, which keeps its entries.                         *)
LEMMA HitKeepsInv ==
    ASSUME PoolInv, NEW t \in Thread, NEW s \in Source, Hit(t, s)
    PROVE  PoolInv'
  <1> DEFINE c == compiledCache
  <1>1. PICK i \in 1 .. Len(c) :
           cur' = [cur EXCEPT ![t] = c[i]] /\ compiledCache' = Recent(i)
    BY DEF Hit
  <1>2. /\ t \in alive /\ address[t] = "idle" /\ address' = [address EXCEPT ![t] = "holding"]
        /\ UNCHANGED <<key, pats, retained, addr, liveHandles, alive, making>>
    BY DEF Hit
  <1>3. c \in Seq(Pat) /\ Len(c) \in Nat
    BY DEF PoolInv, PoolTypeOK
  <1>4. c[i] \in Pat /\ c[i] \in pats
    BY <1>3 DEF PoolInv, CacheSound
  <1>5. /\ compiledCache' \in Seq(Pat) /\ Len(compiledCache') = Len(c)
        /\ \A k \in 1 .. Len(c) :
              compiledCache'[k] = c[IF k < i THEN k ELSE IF k < Len(c) THEN k + 1 ELSE i]
    BY <1>1, <1>3, RecentEntries
  <1> DEFINE was(k) == IF k < i THEN k ELSE IF k < Len(c) THEN k + 1 ELSE i
  <1>6. /\ \A k \in 1 .. Len(c) : was(k) \in 1 .. Len(c) /\ compiledCache'[k] = c[was(k)]
        /\ \A j, k \in 1 .. Len(c) : was(j) = was(k) => j = k
    BY <1>3, <1>5
  <1> HIDE DEF was
  <1>7. PoolTypeOK'
    BY <1>1, <1>2, <1>4, <1>5 DEF PoolInv, PoolTypeOK
  <1>8. CallsAccounted'
    BY <1>1, <1>2, <1>4 DEF PoolInv, PoolTypeOK, CallsAccounted
  <1>9. HandleInHand' /\ HandlesParked' /\ ParkedAtHome' /\ RetainedExist'
    BY <1>1, <1>2 DEF PoolInv, PoolTypeOK, HandleInHand, HandlesParked, ParkedAtHome, RetainedExist
  <1>10. MadeInPrivate'
    <2> SUFFICES ASSUME NEW u \in Thread, making'[u] # "nothing"
                 PROVE  /\ address'[u] = "compiling" /\ cur'[u] \notin retained'
                        /\ \A v \in Thread : addr'[cur'[u]][v] = NoHandle /\ (v # u => cur'[v] # cur'[u])
                        /\ \A k \in 1 .. Len(compiledCache') : compiledCache'[k] # cur'[u]
      BY DEF MadeInPrivate
    <2>1. /\ address[u] = "compiling" /\ cur[u] \notin retained
          /\ \A v \in Thread : addr[cur[u]][v] = NoHandle /\ (v # u => cur[v] # cur[u])
          /\ \A k \in 1 .. Len(c) : c[k] # cur[u]
      BY <1>2 DEF PoolInv, MadeInPrivate
    <2>2. u # t /\ cur'[u] = cur[u] /\ address'[u] = address[u]
      BY <1>1, <1>2, <2>1 DEF PoolInv, PoolTypeOK
    <2>3. \A k \in 1 .. Len(compiledCache') : compiledCache'[k] # cur'[u]
      BY <1>5, <1>6, <2>1, <2>2
    <2>4. \A v \in Thread : v # u => cur'[v] # cur'[u]
      BY <1>1, <2>1, <2>2 DEF PoolInv, PoolTypeOK
    <2> QED  BY <1>2, <2>1, <2>2, <2>3, <2>4
  <1>11. CacheSound'
    <2>1. \A u \in Thread : making[u] # "nothing" => u # t
      BY <1>2 DEF PoolInv, MadeInPrivate
    <2>2. \A u \in Thread, k \in 1 .. Len(c) : making'[u] # "nothing" => cur'[u] # compiledCache'[k]
      <3> SUFFICES ASSUME NEW u \in Thread, NEW k \in 1 .. Len(c), making[u] # "nothing"
                   PROVE  cur'[u] # compiledCache'[k]
        BY <1>2
      <3>1. cur'[u] = cur[u]
        BY <1>1, <2>1 DEF PoolInv, PoolTypeOK
      <3>2. \A j \in 1 .. Len(c) : cur[u] # c[j]
        BY DEF PoolInv, CacheSound
      <3>3. PICK j \in 1 .. Len(c) : compiledCache'[k] = c[j]
        BY <1>6
      <3> QED  BY <3>1, <3>2, <3>3
    <2>3. ASSUME NEW j \in 1 .. Len(c), NEW k \in 1 .. Len(c),
                 key[compiledCache'[j]] = key[compiledCache'[k]]
          PROVE  j = k
      <3>1. key[c[was(j)]] = key[c[was(k)]] /\ was(j) \in 1 .. Len(c) /\ was(k) \in 1 .. Len(c)
        BY <1>6, <2>3
      <3>2. was(j) = was(k)
        BY <3>1 DEF PoolInv, CacheSound
      <3> QED  BY <1>6, <3>2
    <2>4. \A k \in 1 .. Len(c) : compiledCache'[k] \in pats
      BY <1>6 DEF PoolInv, CacheSound
    <2>5. Len(c) <= MaxCache
      BY DEF PoolInv, CacheSound
    <2> QED  BY <1>2, <1>5, <2>2, <2>3, <2>4, <2>5 DEF CacheSound
  <1> QED  BY <1>7, <1>8, <1>9, <1>10, <1>11 DEF PoolInv

(* A new Pattern has no handle anywhere and nobody else knows of it.          *)
LEMMA MakeKeepsInv ==
    ASSUME PoolInv, NEW t \in Thread, NEW s \in Source, NEW how \in {"cached", "private"}, Make(t, s, how)
    PROVE  PoolInv'
  <1>1. PICK p \in Pat \ pats : /\ key' = [key EXCEPT ![p] = s] /\ pats' = pats \cup {p}
                               /\ cur' = [cur EXCEPT ![t] = p]
    BY DEF Make
  <1>2. /\ t \in alive /\ address[t] = "idle" /\ address' = [address EXCEPT ![t] = "compiling"]
        /\ making' = [making EXCEPT ![t] = how]
        /\ UNCHANGED <<compiledCache, retained, addr, liveHandles, alive>>
    BY DEF Make
  <1>3. p \in Nat /\ p # Nobody /\ p \notin retained
    BY <1>1 DEF PoolInv, RetainedExist, Pat, Nobody
  <1>4. /\ \A u \in Thread : addr[p][u] = NoHandle /\ cur[u] # p
        /\ \A i \in 1 .. Len(compiledCache) : compiledCache[i] # p
    BY <1>1, <1>3 DEF PoolInv, HandlesParked, ParkedAtHome, CallsAccounted, CacheSound
  <1>5. PoolTypeOK'
    BY <1>1, <1>2 DEF PoolInv, PoolTypeOK
  <1>6. CallsAccounted'
    BY <1>1, <1>2 DEF PoolInv, PoolTypeOK, CallsAccounted
  <1>7. HandleInHand'
    BY <1>1, <1>2, <1>4 DEF PoolInv, PoolTypeOK, HandleInHand
  <1>8. HandlesParked' /\ ParkedAtHome' /\ RetainedExist'
    BY <1>1, <1>2 DEF PoolInv, PoolTypeOK, HandlesParked, ParkedAtHome, RetainedExist
  <1>9. MadeInPrivate'
    <2> SUFFICES ASSUME NEW u \in Thread, making'[u] # "nothing"
                 PROVE  /\ address'[u] = "compiling" /\ cur'[u] \notin retained'
                        /\ \A v \in Thread : addr'[cur'[u]][v] = NoHandle /\ (v # u => cur'[v] # cur'[u])
                        /\ \A k \in 1 .. Len(compiledCache') : compiledCache'[k] # cur'[u]
      BY DEF MadeInPrivate
    <2>1. CASE u = t
      BY <1>1, <1>2, <1>3, <1>4, <2>1 DEF PoolInv, PoolTypeOK
    <2>2. CASE u # t
      BY <1>1, <1>2, <1>4, <2>2 DEF PoolInv, PoolTypeOK, MadeInPrivate
    <2> QED  BY <2>1, <2>2
  <1>10. CacheSound'
    <2>1. \A i \in 1 .. Len(compiledCache) : key'[compiledCache[i]] = key[compiledCache[i]]
      BY <1>1, <1>4 DEF PoolInv, PoolTypeOK
    <2>2. \A u \in Thread, i \in 1 .. Len(compiledCache) : making'[u] # "nothing" => cur'[u] # compiledCache[i]
      BY <1>1, <1>2, <1>4 DEF PoolInv, PoolTypeOK, CacheSound
    <2> QED  BY <1>1, <1>2, <2>1, <2>2 DEF PoolInv, CacheSound
  <1> QED  BY <1>5, <1>6, <1>7, <1>8, <1>9, <1>10 DEF PoolInv

(* A compile parks the thread's first handle for the Pattern, and publishes   *)
(* what it was making: its key is new to the cache or the cache keeps its own. *)
LEMMA CompiledKeepsInv ==
    ASSUME PoolInv, NEW t \in Thread, Compiled(t)
    PROVE  PoolInv'
  <1> DEFINE c == compiledCache
             p == cur[t]
  <1>1. PICK n \in FreeHandles :
           /\ liveHandles' = liveHandles \cup {[pat |-> p, thr |-> t, n |-> n]}
           /\ addr' = [addr EXCEPT ![p] = [@ EXCEPT ![t] = [pat |-> p, thr |-> t, n |-> n]]]
    BY DEF Compiled
  <1>2. /\ address[t] = "compiling" /\ address' = [address EXCEPT ![t] = "holding"]
        /\ making' = [making EXCEPT ![t] = "nothing"]
        /\ compiledCache' = IF making[t] = "cached" THEN Stored(p) ELSE c
        /\ UNCHANGED <<key, pats, retained, alive, cur>>
    BY DEF Compiled
  <1> DEFINE h == [pat |-> p, thr |-> t, n |-> n]
  <1>3. /\ p \in Pat /\ p \in pats /\ t \in alive /\ addr[p][t] = NoHandle
        /\ h \in Handle /\ h.pat = p /\ h.thr = t /\ h # NoHandle
    <2>1. p \in Pat /\ p \in pats /\ t \in alive /\ addr[p][t] = NoHandle
      BY <1>2 DEF PoolInv, PoolTypeOK, CallsAccounted, HandleInHand
    <2>2. h \in Handle
      BY <1>1, <2>1 DEF FreeHandles, Handle
    <2> QED  BY <2>1, <2>2, PoolAssumption DEF PoolAssumption, Handle, Pat
  <1>4. liveHandles' = liveHandles \cup {h} /\ addr' = [addr EXCEPT ![p] = [@ EXCEPT ![t] = h]]
    BY <1>1
  <1> HIDE DEF h
  <1>5. addr' \in [Pat -> [Thread -> Handle \cup {NoHandle}]]
    BY <1>3, <1>4 DEF PoolInv, PoolTypeOK
  <1>6. \A q \in Pat, u \in Thread : addr'[q][u] = IF q = p /\ u = t THEN h ELSE addr[q][u]
    BY <1>3, <1>4 DEF PoolInv, PoolTypeOK
  <1>7. /\ compiledCache' \in Seq(Pat) /\ Len(compiledCache') <= MaxCache
        /\ \A i, j \in 1 .. Len(compiledCache') : key[compiledCache'[i]] = key[compiledCache'[j]] => i = j
        /\ \A i \in 1 .. Len(compiledCache') :
              \/ \E k \in 1 .. Len(c) : compiledCache'[i] = c[k]
              \/ compiledCache'[i] = p
    <2>1. /\ c \in Seq(Pat) /\ Len(c) \in Nat /\ Len(c) <= MaxCache
          /\ \A i, j \in 1 .. Len(c) : key[c[i]] = key[c[j]] => i = j
      BY DEF PoolInv, PoolTypeOK, CacheSound
    <2>2. CASE compiledCache' = c
      BY <2>1, <2>2
    <2>3. CASE compiledCache' = Stored(p) /\ ~Cached(key[p])
      <3>1. PICK d \in {0, 1} :
               /\ compiledCache' \in Seq(Pat) /\ Len(compiledCache') = Len(c) - d + 1
               /\ Len(compiledCache') <= MaxCache /\ d <= Len(c)
               /\ \A k \in 1 .. Len(c) - d : compiledCache'[k] = c[k + d]
               /\ compiledCache'[Len(c) - d + 1] = p
        BY <1>3, <2>1, <2>3, StoredEntries
      <3>2. \A k \in 1 .. Len(c) : key[c[k]] # key[p]
        BY <2>3 DEF Cached
      <3>3. \A i \in 1 .. Len(compiledCache') :
               IF i = Len(c) - d + 1 THEN compiledCache'[i] = p
               ELSE i + d \in 1 .. Len(c) /\ compiledCache'[i] = c[i + d]
        BY <2>1, <3>1
      <3>4. ASSUME NEW i \in 1 .. Len(compiledCache'), NEW j \in 1 .. Len(compiledCache'),
                   key[compiledCache'[i]] = key[compiledCache'[j]]
            PROVE  i = j
        <4> DEFINE top == Len(c) - d + 1
        <4>0. Len(compiledCache') = top /\ i \in 1 .. top /\ j \in 1 .. top /\ top \in Nat
          BY <2>1, <3>1, <3>4
        <4>1. CASE i = top
          BY <2>1, <3>1, <3>2, <3>3, <3>4, <4>0, <4>1
        <4>2. CASE i # top /\ j = top
          BY <2>1, <3>1, <3>2, <3>3, <3>4, <4>0, <4>2
        <4>3. CASE i # top /\ j # top
          <5>1. i + d \in 1 .. Len(c) /\ j + d \in 1 .. Len(c) /\ key[c[i + d]] = key[c[j + d]]
            BY <3>3, <3>4, <4>0, <4>3
          <5>2. i + d = j + d
            BY <2>1, <5>1
          <5> QED
            BY <4>0, <5>2
        <4> QED
          BY <4>1, <4>2, <4>3
      <3> QED  BY <3>1, <3>3, <3>4
    <2>4. compiledCache' = c \/ (compiledCache' = Stored(p) /\ ~Cached(key[p]))
      BY <1>2 DEF Stored
    <2> QED  BY <2>2, <2>3, <2>4
  <1>8. \A u \in Thread : making'[u] # "nothing" => u # t /\ making[u] # "nothing" /\ cur[u] # p
    BY <1>2 DEF PoolInv, PoolTypeOK, MadeInPrivate
  <1>9. \A u \in Thread : address'[u] # "holding" => u # t /\ address'[u] = address[u]
    BY <1>2 DEF PoolInv, PoolTypeOK
  <1>10. PoolTypeOK'
    BY <1>2, <1>3, <1>4, <1>5, <1>7 DEF PoolInv, PoolTypeOK
  <1>11. CallsAccounted'
    BY <1>2, <1>3 DEF PoolInv, PoolTypeOK, CallsAccounted
  <1>12. HandleInHand'
    BY <1>2, <1>6, <1>9 DEF PoolInv, PoolTypeOK, CallsAccounted, HandleInHand
  <1>13. HandlesParked'
    <2>1. ASSUME NEW g \in liveHandles'
          PROVE  g.pat \in pats' /\ g.thr \in alive' /\ addr'[g.pat][g.thr] = g
      <3>1. CASE g = h
        BY <1>2, <1>3, <1>6, <3>1
      <3>2. CASE g \in liveHandles
        <4>1. /\ g.pat \in pats /\ g.pat \in Pat /\ g.thr \in alive /\ g.thr \in Thread
              /\ addr[g.pat][g.thr] = g /\ g \in Handle
          BY <3>2 DEF PoolInv, PoolTypeOK, HandlesParked
        <4>2. g # NoHandle
          BY <4>1, PoolAssumption DEF PoolAssumption, Handle, Pat
        <4> QED  BY <1>2, <1>3, <1>6, <4>1, <4>2
      <3> QED  BY <1>4, <3>1, <3>2
    <2>2. \A q \in Pat, u \in Thread : addr'[q][u] # NoHandle => addr'[q][u] \in liveHandles'
      BY <1>4, <1>6 DEF PoolInv, HandlesParked
    <2> QED  BY <2>1, <2>2 DEF HandlesParked
  <1>14. ParkedAtHome'
    BY <1>3, <1>6 DEF PoolInv, ParkedAtHome
  <1>15. MadeInPrivate'
    <2> SUFFICES ASSUME NEW u \in Thread, making'[u] # "nothing"
                 PROVE  /\ address'[u] = "compiling" /\ cur'[u] \notin retained'
                        /\ \A v \in Thread : addr'[cur'[u]][v] = NoHandle /\ (v # u => cur'[v] # cur'[u])
                        /\ \A k \in 1 .. Len(compiledCache') : compiledCache'[k] # cur'[u]
      BY DEF MadeInPrivate
    <2>1. /\ u # t /\ address[u] = "compiling" /\ cur[u] \notin retained /\ cur[u] # p
          /\ \A v \in Thread : addr[cur[u]][v] = NoHandle /\ (v # u => cur[v] # cur[u])
          /\ \A k \in 1 .. Len(c) : c[k] # cur[u]
      BY <1>8 DEF PoolInv, MadeInPrivate
    <2>2. cur[u] \in Pat
      BY <2>1 DEF PoolInv, PoolTypeOK, CallsAccounted
    <2>3. address'[u] = "compiling"
      BY <1>2, <2>1 DEF PoolInv, PoolTypeOK
    <2> QED  BY <1>2, <1>6, <1>7, <2>1, <2>2, <2>3
  <1>16. RetainedExist'
    BY <1>2 DEF PoolInv, RetainedExist
  <1>17. CacheSound'
    BY <1>2, <1>3, <1>7, <1>8 DEF PoolInv, CacheSound
  <1> QED  BY <1>10, <1>11, <1>12, <1>13, <1>14, <1>15, <1>16, <1>17 DEF PoolInv

\* The invariant holds throughout.
LEMMA PoolInductive == PoolSpec => []PoolInv
  <1>1. PoolInit => PoolInv
    BY PoolAssumption
       DEF PoolAssumption, PoolInit, PoolInv, PoolTypeOK, CallsAccounted, HandleInHand, HandlesParked,
           ParkedAtHome, MadeInPrivate, RetainedExist, CacheSound, Pat, Nobody
  <1>2. PoolInv /\ UNCHANGED poolVars => PoolInv'
    BY DEF poolVars, PoolInv, PoolTypeOK, CallsAccounted, HandleInHand, HandlesParked,
           ParkedAtHome, MadeInPrivate, RetainedExist, CacheSound
  <1>3. PoolInv /\ PoolNext => PoolInv'
    BY HitKeepsInv, MakeKeepsInv, UsePatternKeepsInv, CallKeepsInv, CompiledKeepsInv,
       RefusedPatternKeepsInv, ReturnKeepsInv, LeaveKeepsInv, ExitKeepsInv, DropKeepsInv,
       CollectKeepsInv, purgeKeepsInv DEF PoolNext
  <1> QED  BY <1>1, <1>2, <1>3, PTL DEF PoolSpec

(* Every reachable state of the pool and its cache is well typed.             *)
THEOREM PoolTyped == PoolSpec => []PoolTypeOK
  BY PoolInductive, PTL DEF PoolInv

(* Whatever threads, Patterns and handles there are: a thread calls into the  *)
(* engine with a live handle compiled in that thread for the Pattern it asks. *)
THEOREM PoolHandleConfined == PoolSpec => []HandleConfined
  <1>1. PoolInv => HandleConfined
    BY DEF PoolInv, PoolTypeOK, CallsAccounted, HandleInHand, HandlesParked, ParkedAtHome,
           HandleConfined, Address
  <1> QED  BY <1>1, PoolInductive, PTL

(* No handle leaks or outlives its Pattern and thread, and no parked address  *)
(* dangles.                                                                   *)
THEOREM PoolHandlesParked == PoolSpec => []HandlesParked
  BY PoolInductive, PTL DEF PoolInv

(* The cache never exceeds its size, holds one Pattern per source, and none   *)
(* that is still under construction, whichever threads store at once.         *)
THEOREM PoolCacheSound == PoolSpec => []CacheSound
  BY PoolInductive, PTL DEF PoolInv

------------------------------------------------------------------------------
\* Loader. load's double-checked lock makes asking for a face one indivisible
\* step, for any number of threads and faces: the loader implements Once.

(* The lock is held by the thread that looks again or opens, and no other.    *)
OneInside == \A a \in Asker : asking[a].step \in {"check", "open"} <=> lock = a

(* What a thread on its way knows of the face it asks for.                    *)
OnTheWay == \A a \in Asker : LET f == asking[a].face IN
  /\ asking[a].step # "idle" => f \in Faces
  /\ asking[a].step = "open" =>
        /\ loaded[f] = Unresolved
        /\ asking[a].got = Unresolved => faces[f] # Unresolved
        /\ asking[a].got # Unresolved => asking[a].got = "none" /\ f \in requested
  /\ asking[a].step = "done" => asking[a].got = loaded[f] /\ loaded[f] # Unresolved

\* The strengthening: the lock, what its holder has seen, and the pair it
\* returns.
LoaderInv == /\ LoaderTypeOK /\ OneInside /\ OnTheWay /\ PairHonest

(* A thread that moves on within its asking keeps the record's shape.         *)
LEMMA MovesOn ==
    ASSUME LoaderTypeOK, NEW a \in Asker, NEW st \in {"open", "done"}, NEW got \in {Unresolved, "none", "pair"},
           asking' = [asking EXCEPT ![a] = [@ EXCEPT !.step = st, !.got = got]]
    PROVE  /\ asking' \in [Asker -> [face : Faces \cup {Unresolved},
                                   step : {"idle", "wait", "check", "open", "done"},
                                   got  : {Unresolved, "none", "pair"}]]
           /\ asking'[a].face = asking[a].face /\ asking'[a].step = st /\ asking'[a].got = got
           /\ \A b \in Asker \ {a} : asking'[b] = asking[b]
  <1> DEFINE r == asking[a]
  <1>1. r \in [face : Faces \cup {Unresolved}, step : {"idle", "wait", "check", "open", "done"},
              got : {Unresolved, "none", "pair"}]
    BY DEF LoaderTypeOK
  <1> HIDE DEF r
  <1> DEFINE q == [r EXCEPT !.step = st, !.got = got]
  <1>2. /\ q \in [face : Faces \cup {Unresolved}, step : {"idle", "wait", "check", "open", "done"},
                 got : {Unresolved, "none", "pair"}]
        /\ q.face = r.face /\ q.step = st /\ q.got = got
    BY <1>1
  <1>3. asking' = [asking EXCEPT ![a] = q]
    BY DEF r
  <1> HIDE DEF q
  <1> QED  BY <1>1, <1>2, <1>3 DEF LoaderTypeOK, r

(* A thread asks; the face it names is one of the faces.                      *)
LEMMA LoadKeepsInv ==
    ASSUME LoaderInv, NEW a \in Asker, NEW f \in Faces, Load(a, f)
    PROVE  LoaderInv'
  <1> USE LoaderAssumption DEF LoaderAssumption, LoaderInv, Load
  <1>1. LoaderTypeOK'
    BY DEF LoaderTypeOK
  <1>2. OneInside'
    BY DEF LoaderTypeOK, OneInside
  <1>3. OnTheWay'
    BY DEF LoaderTypeOK, OnTheWay
  <1>4. PairHonest'
    BY DEF PairHonest
  <1> QED  BY <1>1, <1>2, <1>3, <1>4

\* Taking the lock puts its holder alone inside.
LEMMA AcquireKeepsInv ==
    ASSUME LoaderInv, NEW a \in Asker, Acquire(a)
    PROVE  LoaderInv'
  <1> USE LoaderAssumption DEF LoaderAssumption, LoaderInv, Acquire
  <1>1. LoaderTypeOK'
    BY DEF LoaderTypeOK
  <1>2. OneInside'
    BY DEF LoaderTypeOK, OneInside
  <1>3. OnTheWay'
    BY DEF LoaderTypeOK, OnTheWay
  <1>4. PairHonest'
    BY DEF PairHonest
  <1> QED  BY <1>1, <1>2, <1>3, <1>4

\* A face may be registered at any time.
LEMMA registerKeepsInv ==
    ASSUME LoaderInv, NEW f \in Faces, NEW terms \in Terms, register(f, terms)
    PROVE  LoaderInv'
  <1> USE LoaderAssumption DEF LoaderAssumption, LoaderInv, register
  <1>1. LoaderTypeOK'
    BY ZenonT(60) DEF LoaderTypeOK
  <1>2. \A g \in Faces : faces[g] # Unresolved => faces'[g] # Unresolved
    BY DEF LoaderTypeOK
  <1>3. OneInside'
    BY DEF OneInside
  <1>4. OnTheWay'
    BY <1>2 DEF OnTheWay
  <1>5. PairHonest'
    BY <1>2 DEF PairHonest
  <1> QED  BY <1>1, <1>3, <1>4, <1>5

\* The second look under the lock finds what the first may have missed.
LEMMA CheckFaceKeepsInv ==
    ASSUME LoaderInv, NEW a \in Asker, CheckFace(a)
    PROVE  LoaderInv'
  <1> USE LoaderAssumption DEF LoaderAssumption, LoaderInv
  <1> DEFINE f == asking[a].face
  <1>1. /\ asking[a].step = "check" /\ f \in Faces /\ lock = a /\ a # Unresolved
        /\ UNCHANGED <<faces, loaded, opens, substrate, conflict>>
    BY DEF CheckFace, OneInside, OnTheWay
  <1>2. CASE loaded[f] # Unresolved
    <2>1. /\ lock' = Unresolved /\ UNCHANGED requested
          /\ asking' = [asking EXCEPT ![a] = [@ EXCEPT !.step = "done", !.got = loaded[f]]]
      BY <1>2 DEF CheckFace, Recheck
    <2> DEFINE got == loaded[f]
    <2>a. got \in {Unresolved, "none", "pair"}
      BY <1>1 DEF LoaderTypeOK
    <2>2. LoaderTypeOK'
      BY <1>1, <2>1, <2>a, MovesOn DEF LoaderTypeOK
    <2>3. OneInside'
      BY <1>1, <2>1 DEF LoaderTypeOK, OneInside
    <2>4. OnTheWay'
      BY <1>1, <1>2, <2>1 DEF LoaderTypeOK, OnTheWay
    <2>5. PairHonest'
      BY <1>1, <2>1 DEF PairHonest
    <2> QED  BY <2>2, <2>3, <2>4, <2>5
  <1>3. CASE loaded[f] = Unresolved
    <2>1. /\ UNCHANGED lock
          /\ asking' = [asking EXCEPT ![a] = [@ EXCEPT !.step = "open",
                                 !.got = IF faces[f] = Unresolved THEN "none" ELSE Unresolved]]
          /\ requested' = IF faces[f] = Unresolved THEN requested \cup {f} ELSE requested
      BY <1>3 DEF CheckFace, Recheck
    <2>a. PICK got \in {Unresolved, "none"} :
             asking' = [asking EXCEPT ![a] = [@ EXCEPT !.step = "open", !.got = got]]
      BY <2>1
    <2>b. requested' \subseteq Faces
      BY <1>1, <2>1 DEF LoaderTypeOK
    <2>2. LoaderTypeOK'
      BY <1>1, <2>1, <2>a, <2>b, MovesOn DEF LoaderTypeOK
    <2>3. OneInside'
      BY <1>1, <2>1 DEF LoaderTypeOK, OneInside
    <2>4. OnTheWay'
      BY <1>1, <1>3, <2>1 DEF LoaderTypeOK, OnTheWay, Unresolved
    <2>5. PairHonest'
      BY <1>1, <2>1 DEF PairHonest
    <2> QED  BY <2>2, <2>3, <2>4, <2>5
  <1> QED  BY <1>2, <1>3

(* What an opening settles, and that a pair it hands out is over one more     *)
(* engine library than there were.                                            *)
LEMMA OpenPairSettles ==
    ASSUME LoaderInv, NEW a \in Asker, OpenPair(a)
    PROVE  \E got \in {"none", "pair"} : \E k \in {0, 1} : LET f == asking[a].face IN
             /\ f \in Faces /\ loaded[f] = Unresolved /\ lock = a /\ asking[a].step = "open"
             /\ loaded' = [loaded EXCEPT ![f] = got]
             /\ opens' = [opens EXCEPT ![f] = @ + k]
             /\ asking' = [asking EXCEPT ![a] = [@ EXCEPT !.step = "done", !.got = got]]
             /\ lock' = Unresolved /\ UNCHANGED <<faces, requested, conflict>>
             /\ got = "pair" => /\ faces[f] # Unresolved /\ Obstacle[f] = "clear"
                                /\ substrate' = substrate + 1
             /\ got = "none" => Obstacle[f] # "clear" \/ f \in requested
             /\ substrate' \in {substrate, substrate + 1}
  <1> DEFINE f    == asking[a].face
             miss == asking[a].got = "none"
             got  == IF miss THEN "none" ELSE Opened(f)
             k    == IF ~miss /\ Reachable(f, "product") THEN 1 ELSE 0
  <1>1. /\ asking[a].step = "open" /\ f \in Faces /\ loaded[f] = Unresolved /\ lock = a
        /\ ~miss => asking[a].got = Unresolved /\ faces[f] # Unresolved
        /\ miss => f \in requested
    BY DEF LoaderInv, LoaderTypeOK, OneInside, OnTheWay, OpenPair, Unresolved
  <1>2. /\ substrate' = IF ~miss /\ Reachable(f, "substrate") THEN substrate + 1 ELSE substrate
        /\ opens' = IF ~miss /\ Reachable(f, "product") THEN [opens EXCEPT ![f] = @ + 1] ELSE opens
        /\ loaded' = [loaded EXCEPT ![f] = got]
        /\ asking' = [asking EXCEPT ![a] = [@ EXCEPT !.step = "done", !.got = got]]
        /\ lock' = Unresolved /\ UNCHANGED <<faces, requested, conflict>>
    BY DEF OpenPair
  <1>3. opens' = [opens EXCEPT ![f] = @ + k]
    <2>1. opens \in [Faces -> Nat] /\ opens[f] + 0 = opens[f]
      BY <1>1 DEF LoaderInv, LoaderTypeOK
    <2>2. CASE ~miss /\ Reachable(f, "product")
      BY <1>2, <2>2
    <2>3. CASE ~(~miss /\ Reachable(f, "product"))
      BY <1>1, <1>2, <2>1, <2>3
    <2> QED  BY <2>2, <2>3
  <1>4. got \in {"none", "pair"} /\ k \in {0, 1}
    BY DEF Opened
  <1>5. /\ got = "pair" => /\ faces[f] # Unresolved /\ Obstacle[f] = "clear"
                           /\ substrate' = substrate + 1
        /\ got = "none" => Obstacle[f] # "clear" \/ f \in requested
    BY <1>1, <1>2 DEF Opened, Reachable
  <1> HIDE DEF got, k
  <1> USE <1>4
  <1> WITNESS got \in {"none", "pair"}
  <1> WITNESS k \in {0, 1}
  <1> QED  BY <1>1, <1>2, <1>3, <1>5

\* The holder opens the library once, or finds the pair another face left.
LEMMA OpenPairKeepsInv ==
    ASSUME LoaderInv, NEW a \in Asker, OpenPair(a)
    PROVE  LoaderInv'
  <1> USE LoaderAssumption DEF LoaderAssumption, LoaderInv
  <1> DEFINE f == asking[a].face
  <1>1. PICK got \in {"none", "pair"}, k \in {0, 1} :
             /\ f \in Faces /\ loaded[f] = Unresolved /\ lock = a /\ asking[a].step = "open"
             /\ loaded' = [loaded EXCEPT ![f] = got]
             /\ opens' = [opens EXCEPT ![f] = @ + k]
             /\ asking' = [asking EXCEPT ![a] = [@ EXCEPT !.step = "done", !.got = got]]
             /\ lock' = Unresolved /\ UNCHANGED <<faces, requested, conflict>>
             /\ got = "pair" => /\ faces[f] # Unresolved /\ Obstacle[f] = "clear"
                                /\ substrate' = substrate + 1
             /\ got = "none" => Obstacle[f] # "clear" \/ f \in requested
             /\ substrate' \in {substrate, substrate + 1}
    BY OpenPairSettles
  <1>2. LoaderTypeOK'
    <2>1. opens' \in [Faces -> Nat]
      BY <1>1 DEF LoaderTypeOK
    <2>2. loaded' \in [Faces -> {Unresolved, "none", "pair"}] /\ substrate' \in Nat
      BY <1>1 DEF LoaderTypeOK
    <2> QED  BY <1>1, <2>1, <2>2, MovesOn DEF LoaderTypeOK
  <1>3. OneInside'
    BY <1>1 DEF LoaderTypeOK, OneInside
  <1>4. OnTheWay'
    <2> SUFFICES ASSUME NEW b \in Asker
                 PROVE  LET g == asking'[b].face IN
                        /\ asking'[b].step # "idle" => g \in Faces
                        /\ asking'[b].step = "open" =>
                              /\ loaded'[g] = Unresolved
                              /\ asking'[b].got = Unresolved => faces'[g] # Unresolved
                              /\ asking'[b].got # Unresolved => asking'[b].got = "none" /\ g \in requested'
                        /\ asking'[b].step = "done" => asking'[b].got = loaded'[g] /\ loaded'[g] # Unresolved
      BY DEF OnTheWay
    <2>1. CASE b = a
      BY <1>1, <2>1 DEF LoaderTypeOK, Unresolved
    <2>2. CASE b # a
      <3>1. asking'[b] = asking[b] /\ asking[b].step # "open"
        BY <1>1, <2>2 DEF LoaderTypeOK, OneInside
      <3>2. asking[b].step = "done" => asking[b].face # f
        BY <1>1 DEF OnTheWay
      <3> QED  BY <1>1, <3>1, <3>2 DEF LoaderTypeOK, OnTheWay
    <2> QED  BY <2>1, <2>2
  <1>5. PairHonest'
    <2> DEFINE pairs == {g \in Faces : loaded[g] = "pair"}
    <2>1. IsFiniteSet(pairs) /\ f \notin pairs
      BY <1>1, FS_Subset DEF Unresolved
    <2>2. \A g \in Faces : loaded'[g] = IF g = f THEN got ELSE loaded[g]
      BY <1>1 DEF LoaderTypeOK
    <2>3. Cardinality(pairs \cup {f}) = Cardinality(pairs) + 1 /\ Cardinality(pairs) \in Nat
      BY <2>1, FS_AddElement, FS_CardinalityType
    <2>4. substrate \in Nat /\ substrate >= Cardinality(pairs)
      <3>1. CASE pairs = {}
        <4>1. Cardinality(pairs) = 0
          BY ONLY <3>1, FS_EmptySet
        <4> QED  BY <2>3, <4>1 DEF LoaderTypeOK
      <3>2. CASE pairs # {}
        BY <3>2 DEF PairHonest, LoaderTypeOK
      <3> QED  BY <3>1, <3>2
    <2>5. substrate' >= Cardinality({g \in Faces : loaded'[g] = "pair"})
      <3>1. CASE got = "pair"
        <4>1. {g \in Faces : loaded'[g] = "pair"} = pairs \cup {f}
          BY <1>1, <2>2, <3>1
        <4>2. substrate' = substrate + 1
          BY <1>1, <3>1
        <4> HIDE DEF pairs
        <4> QED  BY <2>3, <2>4, <4>1, <4>2
      <3>2. CASE got = "none"
        <4>1. {g \in Faces : loaded'[g] = "pair"} = pairs
          BY <1>1, <2>1, <2>2, <3>2
        <4>2. substrate' >= Cardinality(pairs)
          BY <1>1, <2>3, <2>4
        <4> QED  BY <4>1, <4>2, Zenon
      <3> QED  BY <3>1, <3>2
    <2> QED  BY ZenonT(60), <1>1, <2>2, <2>5 DEF PairHonest
  <1> QED  BY <1>2, <1>3, <1>4, <1>5

\* Every step of load keeps the invariant.
LEMMA LoaderStepInv ==
    ASSUME LoaderInv, [LoaderNext]_loaderVars
    PROVE  LoaderInv'
  <1>1. CASE UNCHANGED loaderVars
    BY <1>1 DEF loaderVars, LoaderInv, LoaderTypeOK, OneInside, OnTheWay, PairHonest
  <1>2. CASE LoaderNext
    BY <1>2, LoadKeepsInv, AcquireKeepsInv, registerKeepsInv, CheckFaceKeepsInv, OpenPairKeepsInv
       DEF LoaderNext
  <1> QED  BY <1>1, <1>2

\* Before the first import nothing is resolved.
LEMMA LoaderStart == LoaderInit => LoaderInv
  <1> SUFFICES ASSUME LoaderInit PROVE LoaderInv
    OBVIOUS
  <1> USE LoaderAssumption DEF LoaderAssumption, LoaderInit
  <1>1. LoaderTypeOK
    BY DEF LoaderTypeOK, NotAsking
  <1>2. \A a \in Asker : asking[a].step = "idle" /\ a # Unresolved
    BY DEF NotAsking
  <1>3. OneInside /\ OnTheWay
    BY <1>2 DEF OneInside, OnTheWay
  <1>4. PairHonest
    BY DEF PairHonest, Unresolved
  <1> QED  BY <1>1, <1>3, <1>4 DEF LoaderInv

\* The invariant holds throughout.
LEMMA LoaderInductive == LoaderSpec => []LoaderInv
  BY LoaderStart, LoaderStepInv, PTL DEF LoaderSpec

(* A pair is handed out only where it may be, over a kept engine library, and *)
(* a face nothing stands in the way of is refused only when asked for early.  *)
THEOREM LoaderPairHonest == LoaderSpec => []PairHonest
  BY LoaderInductive, PTL DEF LoaderInv

---------------------------------------------------------------------------
(* The refinement: what callers have been told, step by step.                 *)
SaidTo == [a \in Asker |-> IF asking[a].step = "done" THEN <<asking[a].face, asking[a].got>> ELSE <<>>]

(* A step of one thread changes what that thread has been told and no other.  *)
LEMMA ToldChanges ==
    ASSUME LoaderTypeOK, NEW a \in Asker, NEW r, asking' = [asking EXCEPT ![a] = r]
    PROVE  SaidTo' = [SaidTo EXCEPT ![a] = IF r.step = "done" THEN <<r.face, r.got>> ELSE <<>>]
  BY DEF LoaderTypeOK, SaidTo

\* Every step of load is one of Once, or none.
LEMMA LoaderRefines ==
    ASSUME LoaderInv, [LoaderNext]_loaderVars
    PROVE  [Promise!OnceNext]_<<loaded, opens, SaidTo>>
  <1> USE DEF Promise!OnceNext, Promise!Ask, Promise!Tell, Promise!Settle, Promise!Recall
  <1>1. LoaderTypeOK
    BY DEF LoaderInv
  <1>2. ASSUME NEW f \in Faces, NEW terms \in Terms, register(f, terms)
        PROVE  UNCHANGED <<loaded, opens, SaidTo>>
    BY <1>2 DEF register, SaidTo
  <1>3. ASSUME NEW a \in Asker, NEW f \in Faces, Load(a, f)
        PROVE  Promise!OnceNext
    <2>1. CASE loaded[f] # Unresolved
      <3>1. SaidTo' = [SaidTo EXCEPT ![a] = <<f, loaded[f]>>]
        BY <1>1, <1>3, <2>1, ToldChanges DEF Load
      <3> QED  BY <1>3, <2>1, <3>1 DEF Load, SaidTo
    <2>2. CASE loaded[f] = Unresolved
      <3> DEFINE r == [face |-> f, step |-> "wait", got |-> Unresolved]
      <3>1. asking' = [asking EXCEPT ![a] = r] /\ r.step # "done"
        BY <1>3, <2>2 DEF Load
      <3> HIDE DEF r
      <3>2. SaidTo' = [SaidTo EXCEPT ![a] = <<>>]
        BY <1>1, <3>1, ToldChanges
      <3> QED  BY <1>3, <2>2, <3>2 DEF Load, SaidTo
    <2> QED  BY <2>1, <2>2
  <1>4. ASSUME NEW a \in Asker, Acquire(a)
        PROVE  UNCHANGED <<loaded, opens, SaidTo>>
    BY <1>1, <1>4 DEF Acquire, SaidTo, LoaderTypeOK
  <1>5. ASSUME NEW a \in Asker, CheckFace(a)
        PROVE  [Promise!OnceNext]_<<loaded, opens, SaidTo>>
    <2> DEFINE f == asking[a].face
    <2>1. asking[a].step = "check" /\ f \in Faces /\ UNCHANGED <<loaded, opens>>
      BY <1>5 DEF CheckFace, LoaderInv, OnTheWay
    <2>2. CASE loaded[f] # Unresolved
      <3> DEFINE r == [asking[a] EXCEPT !.step = "done", !.got = loaded[f]]
      <3>1. asking' = [asking EXCEPT ![a] = r] /\ r.step = "done" /\ r.face = f /\ r.got = loaded[f]
        BY <1>1, <1>5, <2>2 DEF CheckFace, Recheck, LoaderTypeOK
      <3> HIDE DEF r
      <3>2. SaidTo' = [SaidTo EXCEPT ![a] = <<f, loaded[f]>>]
        BY <1>1, <3>1, ToldChanges
      <3> QED  BY <2>1, <2>2, <3>2 DEF SaidTo
    <2>3. CASE loaded[f] = Unresolved
      <3>1. PICK got \in {Unresolved, "none"} :
               asking' = [asking EXCEPT ![a] = [@ EXCEPT !.step = "open", !.got = got]]
        BY <1>5, <2>3 DEF CheckFace, Recheck
      <3>2. \A b \in Asker : (asking'[b].step = "done" <=> asking[b].step = "done")
                            /\ (asking[b].step = "done" => asking'[b] = asking[b])
        BY <1>1, <2>1, <3>1, MovesOn
      <3> QED  BY <2>1, <3>2 DEF SaidTo
    <2> QED  BY <2>2, <2>3
  <1>6. ASSUME NEW a \in Asker, OpenPair(a)
        PROVE  Promise!OnceNext
    <2> DEFINE f == asking[a].face
    <2>1. PICK got \in {"none", "pair"}, k \in {0, 1} :
             /\ f \in Faces /\ loaded[f] = Unresolved
             /\ loaded' = [loaded EXCEPT ![f] = got]
             /\ opens' = [opens EXCEPT ![f] = @ + k]
             /\ asking' = [asking EXCEPT ![a] = [@ EXCEPT !.step = "done", !.got = got]]
      BY <1>6, OpenPairSettles
    <2> DEFINE r == [asking[a] EXCEPT !.step = "done", !.got = got]
    <2>2. asking' = [asking EXCEPT ![a] = r] /\ r.step = "done" /\ r.face = f /\ r.got = got
      BY <1>1, <2>1 DEF LoaderTypeOK
    <2> HIDE DEF r
    <2>3. SaidTo' = [SaidTo EXCEPT ![a] = <<f, got>>]
      BY <1>1, <2>2, ToldChanges
    <2>4. loaded'[f] = got
      BY <1>1, <2>1 DEF LoaderTypeOK
    <2>5. Promise!Tell(a, f)
      BY <2>1, <2>3, <2>4 DEF SaidTo
    <2> QED  BY <2>1, <2>5
  <1>7. CASE UNCHANGED loaderVars
    BY <1>7 DEF loaderVars, SaidTo
  <1> QED  BY <1>2, <1>3, <1>4, <1>5, <1>6, <1>7 DEF LoaderNext

(* load is atomic to its callers: the first ask settles a face for everybody  *)
(* and the life of the process, its library is opened at most once, and every *)
(* later ask is told what was settled.                                        *)
THEOREM LoaderIsAtomic == LoaderSpec => LoadIsAtomic
  <1>1. LoaderInit => Promise!OnceInit
    BY DEF LoaderInit, NotAsking, Promise!OnceInit
  <1>2. LoaderInv /\ [LoaderNext]_loaderVars => [Promise!OnceNext]_(Promise!onceVars)
    BY LoaderRefines DEF SaidTo, Promise!onceVars
  <1> QED  BY <1>1, <1>2, LoaderInductive, PTL DEF LoaderSpec, LoadIsAtomic, Promise!OnceSpec

------------------------------------------------------------------------------
\* Captures. lastindex is worked out from where the groups' spans end; `re`
\* keeps a mark of the group it left last. For every nesting of any number of
\* groups and every match the two agree, unless that group matched nothing.

\* A group that is entered and not yet left.
OpenGroup == [group : GroupNumber, byte : Nat, char : Nat]

\* A group's span, in bytes.
SpanTyped == byteSpans \in [GroupNumber -> (Nat \X Nat) \cup {NotEntered}]

\* The types the steps keep.
CapturesTyped ==
  /\ atByte \in Nat /\ firsts \subseteq Nat /\ IsFiniteSet(firsts)
  /\ entered \in Seq(OpenGroup)
  /\ SpanTyped
  /\ lastClosed \in 0 .. NGroups

(* The open groups are nested in the order of their numbers.               *)
Nested == \A i, j \in 1 .. Len(entered) : i < j => entered[i].group < entered[j].group

(* Nothing lies ahead of the position.                                     *)
Behind == /\ \A i \in 1 .. Len(entered) : entered[i].byte <= atByte
          /\ \A h \in Entered : EndsAt(h) <= atByte

(* What ended since a group was entered lies inside that group.            *)
InsideIsHigher ==
  \A i \in 1 .. Len(entered) : \A h \in Entered :
     EndsAt(h) > entered[i].byte => entered[i].group < h

(* No group ends after the one left last, and one that ends where it does  *)
(* has a higher number, unless that one is empty.                          *)
LastEndsLast ==
  IF lastClosed = 0 THEN Entered = {}
  ELSE /\ lastClosed \in Entered
       /\ \A h \in Entered : EndsAt(h) <= EndsAt(lastClosed)
       /\ \A h \in Entered : EndsAt(h) = EndsAt(lastClosed) =>
            \/ byteSpans[lastClosed][1] = EndsAt(lastClosed)
            \/ lastClosed <= h

\* An accessor answers for a match that is over.
AnsweredAfter == answering.accessor # "none" => matched

\* The strengthening: lastindex is re's because of how spans nest.
CapturesInv == /\ CapturesTyped /\ Nested /\ Behind /\ InsideIsHigher /\ LastEndsLast
               /\ AnsweredAfter /\ LastIndexIsRe

(* Where the group left last is not empty it is the one lastindex names.   *)
LEMMA LastIndexIsLastClosed ==
    ASSUME CapturesTyped, LastEndsLast
    PROVE  \/ lastClosed # 0 /\ byteSpans[lastClosed][1] = byteSpans[lastClosed][2]
           \/ LastIndex = lastClosed
  <1>1. CASE lastClosed = 0
    BY <1>1 DEF LastEndsLast, LastIndex
  <1>2. CASE lastClosed # 0 /\ byteSpans[lastClosed][1] # byteSpans[lastClosed][2]
    <2> DEFINE Names1(g) == NoLaterEnd(g) /\ \A h \in Entered : NoLaterEnd(h) => g <= h
    <2>1. /\ lastClosed \in Entered
          /\ \A h \in Entered : EndsAt(h) \in Nat /\ h \in Nat
      BY <1>2, CapturesAssumption, NotEnteredIsNoSpan
      DEF LastEndsLast, CapturesTyped, SpanTyped, Entered, EndsAt, GroupNumber
    <2>2. Names1(lastClosed)
      <3>1. NoLaterEnd(lastClosed)
        BY <1>2 DEF LastEndsLast, NoLaterEnd
      <3>2. ASSUME NEW h \in Entered, NoLaterEnd(h)
            PROVE  lastClosed <= h
        <4>1. EndsAt(h) = EndsAt(lastClosed)
          BY <2>1, <3>1, <3>2 DEF NoLaterEnd
        <4> QED
          BY <4>1, <1>2 DEF LastEndsLast, EndsAt
      <3> QED
        BY <3>1, <3>2
    <2>3. ASSUME NEW g \in Entered, Names1(g)
          PROVE  g = lastClosed
      BY <2>1, <2>2, <2>3
    <2>4. LastIndex = CHOOSE g \in Entered : Names1(g)
      BY <2>1 DEF LastIndex
    <2> QED
      BY <2>1, <2>2, <2>3, <2>4
  <1> QED
    BY <1>1, <1>2

\* The groups still open are groups, where the match was when it entered them.
LEMMA OpenGroupsTyped ==
    ASSUME CapturesTyped
    PROVE  /\ Len(entered) \in Nat
           /\ \A i \in 1 .. Len(entered) :
                 entered[i].group \in GroupNumber /\ entered[i].group \in Nat
                 /\ entered[i].byte \in Nat
  <1>1. Len(entered) \in Nat /\ \A i \in 1 .. Len(entered) : entered[i] \in OpenGroup
    BY DEF CapturesTyped
  <1>2. \A e \in OpenGroup : e.group \in GroupNumber /\ e.group \in Nat /\ e.byte \in Nat
    BY CapturesAssumption DEF OpenGroup, GroupNumber
  <1> QED
    BY <1>1, <1>2

\* Before the match no group is entered.
LEMMA CapturesInitially == CapturesInit => CapturesInv
  <1> SUFFICES ASSUME CapturesInit PROVE CapturesInv
    OBVIOUS
  <1>1. IsFiniteSet(firsts)
    BY FS_EmptySet DEF CapturesInit
  <1>2. CapturesTyped
    BY <1>1, CapturesAssumption DEF CapturesInit, CapturesTyped, SpanTyped
  <1>3. Entered = {}
    BY DEF CapturesInit, Entered
  <1> QED
    BY <1>2, <1>3 DEF CapturesInit, CapturesInv, Nested, Behind, InsideIsHigher, LastEndsLast,
       AnsweredAfter, LastIndexIsRe, NotAnswering

\* Entering a group puts the higher number inside.
LEMMA EnteringKeepsOrder ==
    ASSUME CapturesInv, NEW g \in GroupNumber, EnterGroup(g)
    PROVE  CapturesInv'
  <1> DEFINE e == [group |-> g, byte |-> atByte, char |-> atChar]
  <1> USE DEF CapturesInv
  <1>1. e \in OpenGroup
    BY FS_CardinalityType DEF CapturesTyped, atChar, OpenGroup
  <1>2. /\ entered' = Append(entered, e)
        /\ UNCHANGED <<atByte, firsts, byteSpans, lastClosed, matched, answering>>
        /\ ~matched /\ Parent[g] = Innermost
    BY DEF EnterGroup
  <1>3. CapturesTyped'
    BY <1>1, <1>2 DEF CapturesTyped, SpanTyped
  <1>4. /\ Len(entered') = Len(entered) + 1 /\ Len(entered) \in Nat
        /\ entered'[Len(entered) + 1] = e
        /\ \A i \in 1 .. Len(entered) : entered'[i] = entered[i]
    BY <1>1, <1>2 DEF CapturesTyped
  <1> HIDE DEF e
  <1>5. e.group = g /\ e.byte = atByte
    BY DEF e
  <1>6. Nested'
    <2>1. \A i \in 1 .. Len(entered) : entered[i].group < g
      <3> SUFFICES ASSUME NEW i \in 1 .. Len(entered) PROVE entered[i].group < g
        OBVIOUS
      <3>1. entered[Len(entered)].group < g
        BY <1>2, CapturesAssumption DEF Innermost, CapturesTyped
      <3>2. Len(entered) \in 1 .. Len(entered) /\ i \in Nat /\ Len(entered) \in Nat
        BY DEF CapturesTyped
      <3>3. entered[i].group \in Nat /\ entered[Len(entered)].group \in Nat /\ g \in Nat
        BY <3>2, OpenGroupsTyped DEF GroupNumber
      <3>4. i = Len(entered) \/ entered[i].group < entered[Len(entered)].group
        BY <3>2 DEF Nested
      <3> QED
        BY <3>1, <3>3, <3>4
    <2> QED
      BY <1>4, <1>5, <2>1 DEF Nested
  <1>7. Entered' = Entered /\ \A h \in Entered : EndsAt(h)' = EndsAt(h) /\ EndsAt(h) \in Nat
    BY <1>2, NotEnteredIsNoSpan DEF Entered, EndsAt, CapturesTyped, SpanTyped
  <1>8. Behind'
    BY <1>2, <1>4, <1>5, <1>7 DEF Behind, CapturesTyped
  <1>9. InsideIsHigher'
    <2> SUFFICES ASSUME NEW i \in 1 .. Len(entered) + 1, NEW h \in Entered,
                        EndsAt(h) > entered'[i].byte
                 PROVE  entered'[i].group < h
      BY <1>4, <1>7 DEF InsideIsHigher
    <2>1. i # Len(entered) + 1
      BY <1>4, <1>5, <1>7 DEF Behind, CapturesTyped
    <2> QED
      BY <1>4, <2>1 DEF InsideIsHigher
  <1>10. LastEndsLast'
    BY <1>2, <1>7 DEF LastEndsLast
  <1> QED
    BY <1>2, <1>3, <1>6, <1>8, <1>9, <1>10 DEF AnsweredAfter, LastIndexIsRe

\* A byte consumed lies behind the position.
LEMMA ConsumingKeepsOrder ==
    ASSUME CapturesInv, NEW width \in {1, 2}, Consume(width)
    PROVE  CapturesInv'
  <1> USE DEF CapturesInv
  <1>1. /\ atByte' = atByte + width /\ firsts' = firsts \cup {atByte}
        /\ UNCHANGED <<entered, byteSpans, lastClosed, matched, answering>>
    BY DEF Consume
  <1>2. IsFiniteSet(firsts')
    BY <1>1, FS_AddElement DEF CapturesTyped
  <1>3. CapturesTyped'
    BY <1>1, <1>2 DEF CapturesTyped, SpanTyped
  <1>4. Entered' = Entered /\ \A h \in Entered : EndsAt(h)' = EndsAt(h) /\ EndsAt(h) \in Nat
    BY <1>1, NotEnteredIsNoSpan DEF Entered, EndsAt, CapturesTyped, SpanTyped
  <1>5. Behind'
    <2> QED
      BY <1>1, <1>4, OpenGroupsTyped DEF Behind, CapturesTyped
  <1>6. Nested' /\ InsideIsHigher' /\ LastEndsLast' /\ AnsweredAfter' /\ LastIndexIsRe'
    BY <1>1, <1>4 DEF Nested, InsideIsHigher, LastEndsLast, AnsweredAfter, LastIndexIsRe
  <1> QED
    BY <1>3, <1>5, <1>6

\* The group left is the innermost that is open, and it ends last.
LEMMA LeavingKeepsOrder ==
    ASSUME CapturesInv, LeaveGroup
    PROVE  CapturesInv'
  <1> USE DEF CapturesInv
  <1>0. Len(entered) \in Nat /\ Len(entered) >= 1
    BY DEF LeaveGroup, CapturesTyped
  <1> PICK top \in Nat, g \in GroupNumber, s \in Nat :
        top = Len(entered) /\ top >= 1 /\ g = entered[top].group /\ s = entered[top].byte
    BY <1>0, OpenGroupsTyped
  <1>1. /\ ~matched
        /\ byteSpans' = [byteSpans EXCEPT ![g] = <<s, atByte>>]
        /\ lastClosed' = g
        /\ entered' = SubSeq(entered, 1, top - 1)
        /\ UNCHANGED <<atByte, firsts, matched, answering>>
    BY DEF LeaveGroup
  <1>2. top \in 1 .. top
    OBVIOUS
  <1>3. g \in Nat /\ g # 0 /\ s <= atByte /\ atByte \in Nat
    BY <1>2, CapturesAssumption DEF GroupNumber, Behind, CapturesTyped
  <1>4. /\ entered' \in Seq(OpenGroup) /\ Len(entered') = top - 1
        /\ \A i \in 1 .. top - 1 : entered'[i] = entered[i] /\ i \in 1 .. top
    BY <1>1, <1>2 DEF CapturesTyped
  <1>5. \A i \in 1 .. top - 1 : entered[i].group < g
    BY <1>2 DEF Nested
  <1>6. \A i \in 1 .. top : \A h \in Entered : EndsAt(h) > entered[i].byte => entered[i].group < h
    BY DEF InsideIsHigher
  <1>7. /\ Entered \subseteq GroupNumber
        /\ \A h \in Entered : EndsAt(h) \in Nat /\ EndsAt(h) <= atByte
    BY NotEnteredIsNoSpan DEF Entered, EndsAt, CapturesTyped, SpanTyped, Behind
  <1>8. CapturesTyped'
    <2>1. CapturesTyped
      OBVIOUS
    <2>2. SpanTyped'
      <3>1. <<s, atByte>> \in (Nat \X Nat) \cup {NotEntered}
        BY <1>3
      <3> QED
        BY <1>1, <2>1, <3>1 DEF CapturesTyped, SpanTyped
    <2>3. lastClosed' \in 0 .. NGroups
      BY <1>1, CapturesAssumption DEF GroupNumber
    <2> QED
      BY <1>1, <1>4, <2>1, <2>2, <2>3 DEF CapturesTyped
  <1>9. /\ Entered' = Entered \cup {g}
        /\ byteSpans'[g] = <<s, atByte>> /\ EndsAt(g)' = atByte
        /\ \A h \in Entered : h # g => EndsAt(h)' = EndsAt(h)
    BY <1>1, <1>3, NotEnteredIsNoSpan DEF Entered, EndsAt, CapturesTyped, SpanTyped
  <1>10. Nested'
    BY <1>2, <1>4 DEF Nested
  <1>11. Behind'
    <2>1. \A i \in 1 .. top : entered[i].byte <= atByte
      BY DEF Behind
    <2>2. \A i \in 1 .. Len(entered') : entered'[i].byte <= atByte
      BY <1>4, <2>1
    <2>3. \A h \in Entered \cup {g} : EndsAt(h)' <= atByte
      BY <1>3, <1>7, <1>9
    <2> QED
      BY <1>1, <1>9, <2>2, <2>3 DEF Behind
  <1>12. InsideIsHigher'
    <2> SUFFICES ASSUME NEW i \in 1 .. top - 1, NEW h \in Entered \cup {g},
                        EndsAt(h)' > entered[i].byte
                 PROVE  entered[i].group < h
      BY <1>4, <1>9 DEF InsideIsHigher
    <2> QED
      BY <1>2, <1>5, <1>6, <1>9
  <1>13. LastEndsLast'
    <2>1. \A h \in Entered \cup {g} : EndsAt(h)' <= atByte
      BY <1>3, <1>7, <1>9
    <2>2. ASSUME NEW h \in Entered \cup {g}, EndsAt(h)' = atByte, s # atByte
          PROVE  g <= h
      <3>1. CASE h = g
        BY <3>1, <1>3
      <3>2. CASE h # g
        <4>1. h \in Entered /\ EndsAt(h) > s
          BY <2>2, <3>2, <1>3, <1>9
        <4>2. g < h
          BY <4>1, <1>2, <1>6
        <4> QED
          BY <4>1, <4>2, <1>3, <1>7 DEF GroupNumber
      <3> QED
        BY <3>1, <3>2
    <2> QED
      BY <1>1, <1>3, <1>9, <2>1, <2>2 DEF LastEndsLast
  <1>14. AnsweredAfter' /\ LastIndexIsRe'
    BY <1>1 DEF AnsweredAfter, LastIndexIsRe
  <1> QED
    BY <1>8, <1>10, <1>11, <1>12, <1>13, <1>14

(* The accessors leave the match as it is, and lastindex alone answers     *)
(* what lastindex is asked.                                                *)
LEMMA AskingKeepsOrder ==
    ASSUME CapturesInv, UNCHANGED <<entered, atByte, firsts, byteSpans, lastClosed>>,
           AnsweredAfter', LastIndexIsRe'
    PROVE  CapturesInv'
  BY DEF CapturesInv, CapturesTyped, SpanTyped, Nested, Behind, InsideIsHigher, LastEndsLast,
     Entered, EndsAt

\* Every step of a match, and of the accessors after it, keeps the invariant.
LEMMA CapturesStepInv == CapturesInv /\ [CapturesNext]_capVars => CapturesInv'
  <1> SUFFICES ASSUME CapturesInv, [CapturesNext]_capVars PROVE CapturesInv'
    OBVIOUS
  <1>1. ASSUME NEW g \in GroupNumber, EnterGroup(g) PROVE CapturesInv'
    BY <1>1, EnteringKeepsOrder
  <1>2. ASSUME NEW width \in {1, 2}, Consume(width) PROVE CapturesInv'
    BY <1>2, ConsumingKeepsOrder
  <1>3. CASE LeaveGroup
    BY <1>3, LeavingKeepsOrder
  <1>4. CASE Succeed
    BY <1>4, AskingKeepsOrder DEF Succeed, CapturesInv, AnsweredAfter, LastIndexIsRe
  <1>5. CASE group \/ span \/ startOf \/ endOf \/ allGroups \/ groupdict \/ lastgroup
    <2>1. answering'.accessor # "lastindex" /\ matched /\ UNCHANGED matchVars
      BY <1>5 DEF group, span, startOf, endOf, allGroups, groupdict, lastgroup, Asked, OneGroup,
         Fetched, Tells
    <2> QED
      BY <2>1, AskingKeepsOrder DEF matchVars, AnsweredAfter, LastIndexIsRe
  <1>6. CASE lastindex
    <2>1. matched /\ UNCHANGED matchVars
      BY <1>6 DEF lastindex, Asked
    <2>2. answering'.raised = "nothing" => answering'.got = LastIndex
      BY <1>6 DEF lastindex, Fetched, Tells
    <2>3. LastIndexIsRe'
      BY <2>1, <2>2, LastIndexIsLastClosed DEF CapturesInv, matchVars, LastIndexIsRe
    <2> QED
      BY <2>1, <2>3, AskingKeepsOrder DEF matchVars, AnsweredAfter
  <1>7. CASE Heard
    BY <1>7, AskingKeepsOrder
    DEF Heard, matchVars, NotAnswering, AnsweredAfter, LastIndexIsRe
  <1>8. CASE UNCHANGED capVars
    BY <1>8, AskingKeepsOrder DEF capVars, CapturesInv, AnsweredAfter, LastIndexIsRe
  <1> QED
    BY <1>1, <1>2, <1>3, <1>4, <1>5, <1>6, <1>7, <1>8 DEF CapturesNext

(* However the groups are nested and repeat, and however long the match,   *)
(* lastindex is the group `re` left last unless that one matched nothing   *)
(* (_match.py 282-301).                                                    *)
THEOREM CapturesLastIndex == CapturesSpec => []LastIndexIsRe
  <1>1. CapturesInv => LastIndexIsRe
    BY DEF CapturesInv
  <1> QED
    BY <1>1, CapturesInitially, CapturesStepInv, PTL DEF CapturesSpec

------------------------------------------------------------------------------
\* Lend. A handle is released exactly once, and an iterator over one yields
\* every entry once, whatever else moves the handle, and the handle's own
\* entries as long as it stands.

\* What an object of _shape.py holds.
LendHandle == [kind : Kinds \cup {"none"}, ptr : BOOLEAN, pos : 0 .. N,
               of : Slot \cup {"none", "gone"}]

\* What a generator over one holds.
Generator == [on : Slot \cup {"none"}, state : {"none", "running", "ended", "raised"},
              buf : Seq(Nat), last : BOOLEAN, from : 0 .. N, got : Seq(Nat), owned : 0 .. N,
              moved : BOOLEAN]

\* The types the steps keep.
LendTyped ==
  /\ obj \in [Slot -> LendHandle]
  /\ released \in [Slot -> {0, 1}]
  /\ it \in [Iter -> Generator]
  /\ \A i \in Iter : Len(it[i].buf) < Batch /\ Len(it[i].got) <= N
  /\ answer \in {"none", "handle", "declined", "raised", "value", "drained"}

(* A generator is over a stream somebody opened.  While nobody has         *)
(* disturbed it, what it yielded and what it still holds are as many as    *)
(* there are entries from where it began to where the engine's cursor is,  *)
(* and what it holds are those; one that ended undisturbed yielded up to   *)
(* the last.                                                               *)
InStep(i) ==
  /\ it[i].on \in Slot => obj[it[i].on].kind \in Streams
  /\ it[i].state = "running" => it[i].on \in Slot
  /\ it[i].state = "running" /\ ~it[i].moved =>
     /\ obj[it[i].on].pos = it[i].from + Len(it[i].got) + Len(it[i].buf)
     /\ \A k \in 1 .. Len(it[i].buf) : it[i].buf[k] = it[i].from + Len(it[i].got) + k
     /\ it[i].last => obj[it[i].on].pos = N
  /\ it[i].state = "ended" /\ ~it[i].moved => it[i].from + Len(it[i].got) = N
  /\ ~it[i].moved =>
     /\ it[i].owned <= Len(it[i].got)
     /\ \A k \in 1 .. it[i].owned : it[i].got[k] = it[i].from + k
     /\ it[i].owned < Len(it[i].got) => it[i].on \in Slot /\ ~obj[it[i].on].ptr

\* The strengthening: what an iterator has yielded is what the handle under it
\* has moved past.
LendInv == LendTyped /\ ReleasedOnce /\ \A i \in Iter : InStep(i)

\* What the invariant says is enough for both properties of a handle.
LEMMA LendInvImplies == LendInv => LendTypeOK /\ ReleasedOnce /\ IterationWhole
  <1> SUFFICES ASSUME LendInv PROVE LendTypeOK /\ IterationWhole
    BY DEF LendInv
  <1>1. LendTypeOK
    BY LendAssumption DEF LendInv, LendTyped, LendTypeOK, LendHandle, Generator
  <1>2. ASSUME NEW i \in Iter, ~it[i].moved
        PROVE  /\ \A k \in 1 .. it[i].owned : it[i].got[k] = it[i].from + k
               /\ it[i].owned < Len(it[i].got) => ~obj[it[i].on].ptr
               /\ it[i].state = "ended" => Len(it[i].got) = N - it[i].from
    <2>1. it[i].got \in Seq(Nat) /\ it[i].from \in 0 .. N
      BY DEF LendInv, LendTyped, Generator
    <2>2. Len(it[i].got) \in Nat
      BY <2>1
    <2> QED
      BY <1>2, <2>1, <2>2, LendAssumption DEF LendInv, InStep
  <1> QED
    BY <1>1, <1>2 DEF IterationWhole

\* Before anything is opened nothing is lent.
LEMMA LendInitInv == LendInit => LendInv
  <1> SUFFICES ASSUME LendInit PROVE LendInv
    OBVIOUS
  <1>1. LendTyped
    BY LendAssumption DEF LendInit, LendTyped, LendHandle, Generator, Vacant, NoIter, Kinds
  <1>2. ReleasedOnce
    <2> SUFFICES ASSUME NEW s \in Slot
                 PROVE  /\ released[s] <= 1
                        /\ released[s] = 1 <=> (obj[s].kind # "none" /\ ~obj[s].ptr)
      BY DEF ReleasedOnce
    <2>1. released[s] = 0 /\ obj[s].kind = "none"
      BY DEF LendInit, Vacant
    <2> QED
      BY <2>1
  <1>3. \A i \in Iter : InStep(i)
    BY LendAssumption DEF LendInit, InStep, NoIter
  <1> QED
    BY <1>1, <1>2, <1>3 DEF LendInv

(* Orphaning cursors changes nothing but whom they belong to.              *)
LEMMA OrphanedKeeps ==
    ASSUME LendTyped, NEW s \in Slot
    PROVE  /\ Orphaned(s) \in [Slot -> LendHandle]
           /\ \A c \in Slot : /\ Orphaned(s)[c].kind = obj[c].kind
                              /\ Orphaned(s)[c].ptr = obj[c].ptr
                              /\ Orphaned(s)[c].pos = obj[c].pos
  BY DEF LendTyped, LendHandle, Orphaned

(* Whoever moves a cursor leaves no undisturbed generator on it but its own.*)
LEMMA DisturbedKeeps ==
    ASSUME LendTyped, NEW s \in Slot, NEW j
    PROVE  /\ Disturbed(s, j) \in [Iter -> Generator]
           /\ \A i \in Iter : /\ Disturbed(s, j)[i].on = it[i].on
                              /\ Disturbed(s, j)[i].state = it[i].state
                              /\ Len(Disturbed(s, j)[i].buf) < Batch
                              /\ Len(Disturbed(s, j)[i].got) <= N
           /\ \A i \in Iter : \/ Disturbed(s, j)[i] = it[i]
                              \/ Disturbed(s, j)[i].moved /\ it[i].state = "running"
           /\ \A i \in Iter : i # j /\ it[i].on = s /\ it[i].state = "running" =>
                 Disturbed(s, j)[i].moved
  <1>1. ASSUME NEW i \in Iter
        PROVE  /\ Disturbed(s, j)[i] \in Generator
               /\ Disturbed(s, j)[i].on = it[i].on
               /\ Disturbed(s, j)[i].state = it[i].state
               /\ Len(Disturbed(s, j)[i].buf) < Batch
               /\ Len(Disturbed(s, j)[i].got) <= N
               /\ \/ Disturbed(s, j)[i] = it[i]
                  \/ Disturbed(s, j)[i].moved /\ it[i].state = "running"
               /\ i # j /\ it[i].on = s /\ it[i].state = "running" => Disturbed(s, j)[i].moved
    <2>1. it[i] \in Generator
      BY DEF LendTyped
    <2>2. CASE i # j /\ it[i].on = s /\ it[i].state = "running"
      <3>1. Disturbed(s, j)[i] = [it[i] EXCEPT !.moved = TRUE, !.got = <<>>, !.owned = 0]
        BY <2>2 DEF Disturbed
      <3>2. /\ Disturbed(s, j)[i].on = it[i].on /\ Disturbed(s, j)[i].state = it[i].state
            /\ Disturbed(s, j)[i].buf = it[i].buf /\ Disturbed(s, j)[i].got = <<>>
            /\ Disturbed(s, j)[i].moved
        BY <2>1, <3>1 DEF Generator
      <3>3. Disturbed(s, j)[i] \in Generator
        <4>1. <<>> \in Seq(Nat) /\ 0 \in 0 .. N
          BY LendAssumption
        <4> QED
          BY <2>1, <3>1, <4>1 DEF Generator
      <3>4. Len(<<>>) <= N
        BY LendAssumption
      <3> QED
        BY <2>2, <3>2, <3>3, <3>4 DEF LendTyped
    <2>3. CASE ~(i # j /\ it[i].on = s /\ it[i].state = "running")
      <3>1. Disturbed(s, j)[i] = it[i]
        BY <2>3 DEF Disturbed
      <3> QED
        BY <2>1, <2>3, <3>1 DEF LendTyped
    <2> QED
      BY <2>2, <2>3
  <1>2. Disturbed(s, j) \in [Iter -> Generator]
    BY <1>1 DEF Disturbed
  <1> QED
    BY <1>1, <1>2

(* A generator stays in step when nothing under it moves, when the move    *)
(* disturbed it, and when it is forgotten.                                 *)
LEMMA InStepCarried ==
    ASSUME LendInv, NEW i \in Iter,
           \/ /\ it'[i] = it[i]
              /\ it[i].on \in Slot => /\ obj'[it[i].on].kind = obj[it[i].on].kind
                                      /\ obj'[it[i].on].ptr => obj[it[i].on].ptr
              /\ it[i].state = "running" /\ ~it[i].moved =>
                    obj'[it[i].on].pos = obj[it[i].on].pos
           \/ /\ it'[i].moved /\ it'[i].on = it[i].on
              /\ it'[i].state = "running" /\ it[i].state = "running"
              /\ obj'[it[i].on].kind = obj[it[i].on].kind
           \/ it'[i] = NoIter
    PROVE  InStep(i)'
  <1>1. CASE /\ it'[i] = it[i]
             /\ it[i].on \in Slot => /\ obj'[it[i].on].kind = obj[it[i].on].kind
                                     /\ obj'[it[i].on].ptr => obj[it[i].on].ptr
             /\ it[i].state = "running" /\ ~it[i].moved =>
                   obj'[it[i].on].pos = obj[it[i].on].pos
    <2>1. InStep(i)
      BY DEF LendInv
    <2>2. it[i].on \in Slot /\ ~obj[it[i].on].ptr => ~obj'[it[i].on].ptr
      BY <1>1
    <2>3. it[i].on \in Slot => obj'[it[i].on].kind \in Streams
      BY <1>1, <2>1 DEF InStep
    <2>4. /\ it[i].state = "running" => it[i].on \in Slot
          /\ it[i].state = "running" /\ ~it[i].moved =>
             /\ obj'[it[i].on].pos = it[i].from + Len(it[i].got) + Len(it[i].buf)
             /\ \A k \in 1 .. Len(it[i].buf) : it[i].buf[k] = it[i].from + Len(it[i].got) + k
             /\ it[i].last => obj'[it[i].on].pos = N
      BY <1>1, <2>1 DEF InStep
    <2>5. /\ it[i].state = "ended" /\ ~it[i].moved => it[i].from + Len(it[i].got) = N
          /\ ~it[i].moved =>
             /\ it[i].owned <= Len(it[i].got)
             /\ \A k \in 1 .. it[i].owned : it[i].got[k] = it[i].from + k
             /\ it[i].owned < Len(it[i].got) => it[i].on \in Slot /\ ~obj'[it[i].on].ptr
      BY <2>1, <2>2 DEF InStep
    <2>6. it'[i] = it[i]
      BY <1>1
    <2> QED
      BY <2>3, <2>4, <2>5, <2>6 DEF InStep
  <1>2. CASE /\ it'[i].moved /\ it'[i].on = it[i].on
             /\ it'[i].state = "running" /\ it[i].state = "running"
             /\ obj'[it[i].on].kind = obj[it[i].on].kind
    <2>1. it[i].on \in Slot /\ obj[it[i].on].kind \in Streams
      BY <1>2 DEF LendInv, InStep
    <2>2. it'[i].on \in Slot /\ obj'[it'[i].on].kind \in Streams
      BY <1>2, <2>1
    <2>3. it'[i].state # "ended" /\ it'[i].moved
      BY <1>2
    <2>4. ASSUME ~it'[i].moved PROVE FALSE
      BY <2>3, <2>4
    <2> QED
      BY <2>2, <2>3, <2>4 DEF InStep
  <1>3. CASE it'[i] = NoIter
    <2>1. /\ it'[i].on = "none" /\ it'[i].state = "none" /\ it'[i].owned = 0
          /\ Len(it'[i].got) = 0
      BY <1>3 DEF NoIter
    <2>2. it'[i].on \notin Slot
      BY <2>1, LendAssumption
    <2> QED
      BY <2>1, <2>2 DEF InStep
  <1> QED
    BY <1>1, <1>2, <1>3

\* Opening gives an object a pointer nobody released.
LEMMA LendOpens ==
    ASSUME LendInv, NEW s \in Slot, NEW k \in Kinds, NEW status, NEW over \in Slot \cup {"none"},
           OpenHandle(s, k, status, over)
    PROVE  LendInv'
  <1>1. /\ obj'[s].kind \in Kinds => obj'[s].ptr \/ obj' = obj
        /\ \A c \in Slot : c # s => obj'[c] = obj[c]
        /\ obj' \in [Slot -> LendHandle]
        /\ UNCHANGED <<released, it>>
    <2> DEFINE opened == [kind |-> k, ptr |-> TRUE, pos |-> 0, of |-> over]
    <2>1. opened \in LendHandle
      BY LendAssumption DEF LendHandle
    <2>2. obj \in [Slot -> LendHandle] /\ UNCHANGED <<released, it>>
      BY DEF LendInv, LendTyped, OpenHandle
    <2>3. CASE status = "ok"
      <3>1. obj' = [obj EXCEPT ![s] = opened]
        BY <2>3 DEF OpenHandle
      <3> HIDE DEF opened
      <3>2. obj'[s] = opened /\ opened.ptr
        BY <2>2, <3>1 DEF opened
      <3> QED
        BY <2>1, <2>2, <3>1, <3>2
    <2>4. CASE status # "ok"
      BY <2>2, <2>4 DEF OpenHandle
    <2> QED
      BY <2>3, <2>4
  <1>2. LendTyped'
    BY <1>1 DEF OpenHandle, LendInv, LendTyped
  <1>3. ReleasedOnce'
    BY <1>1 DEF OpenHandle, LendInv, LendTyped, LendHandle, ReleasedOnce, Kinds, Streams
  <1>4. ASSUME NEW i \in Iter PROVE InStep(i)'
    <2>1. /\ it[i].on \in Slot => it[i].on # s
          /\ it[i].state = "running" => it[i].on \in Slot
      BY DEF LendInv, InStep, OpenHandle, Streams
    <2>2. it'[i] = it[i]
      BY DEF OpenHandle
    <2> QED
      BY <1>1, <2>1, <2>2, InStepCarried
  <1> QED
    BY <1>2, <1>3, <1>4 DEF LendInv

\* close releases the pointer once, and what is lent goes with it (_shape.py,
\* close).
LEMMA LendCloses ==
    ASSUME LendInv, NEW s \in Slot, Close(s) PROVE LendInv'
  <1>1. /\ obj' \in [Slot -> LendHandle]
        /\ \A c \in Slot : /\ obj'[c].kind = obj[c].kind /\ obj'[c].pos = obj[c].pos
                           /\ obj'[c].ptr = (c # s /\ obj[c].ptr)
    <2>1. Orphaned(s)[s] \in LendHandle
      BY OrphanedKeeps DEF LendInv
    <2>2. [Orphaned(s)[s] EXCEPT !.ptr = FALSE] \in LendHandle
      BY <2>1 DEF LendHandle
    <2>3. obj' = [Orphaned(s) EXCEPT ![s] = [Orphaned(s)[s] EXCEPT !.ptr = FALSE]]
      BY OrphanedKeeps DEF LendInv, Close, Closed
    <2>4. obj'[s] = [Orphaned(s)[s] EXCEPT !.ptr = FALSE]
      BY <2>3, OrphanedKeeps DEF LendInv
    <2>5. obj'[s].kind = obj[s].kind /\ obj'[s].pos = obj[s].pos /\ obj'[s].ptr = FALSE
      BY <2>1, <2>4, OrphanedKeeps DEF LendInv, LendHandle
    <2>6. obj' \in [Slot -> LendHandle] /\ \A c \in Slot : c # s => obj'[c] = Orphaned(s)[c]
      BY <2>2, <2>3, OrphanedKeeps DEF LendInv
    <2>7. ASSUME NEW c \in Slot
          PROVE  /\ obj'[c].kind = obj[c].kind /\ obj'[c].pos = obj[c].pos
                 /\ obj'[c].ptr = (c # s /\ obj[c].ptr)
      BY <2>5, <2>6, OrphanedKeeps DEF LendInv, LendTyped, LendHandle
    <2> QED
      BY <2>6, <2>7
  <1>2. ReleasedOnce' /\ released' \in [Slot -> {0, 1}]
    <2>1. ASSUME NEW c \in Slot
          PROVE  /\ released'[c] \in {0, 1}
                 /\ released'[c] = 1 <=> (obj'[c].kind # "none" /\ ~obj'[c].ptr)
      <3>1. released' = [released EXCEPT ![s] = IF obj[s].ptr THEN released[s] + 1 ELSE released[s]]
        BY DEF Close, Released
      <3>2. /\ released[c] \in {0, 1} /\ obj[c].ptr \in BOOLEAN
            /\ released[c] = 1 <=> (obj[c].kind # "none" /\ ~obj[c].ptr)
        BY DEF LendInv, LendTyped, LendHandle, ReleasedOnce
      <3>3. CASE c = s
        <4>1. obj[s].kind # "none" /\ obj'[c].kind = obj[s].kind /\ ~obj'[c].ptr
          BY <1>1, <3>3 DEF Close
        <4>2. released'[c] = IF obj[c].ptr THEN released[c] + 1 ELSE released[c]
          BY <3>1, <3>3 DEF LendInv, LendTyped
        <4>3. released'[c] = 1
          BY <3>2, <3>3, <4>1, <4>2
        <4> QED
          BY <4>1, <4>3
      <3>4. CASE c # s
        <4>1. released'[c] = released[c]
          BY <3>1, <3>4 DEF LendInv, LendTyped
        <4> QED
          BY <1>1, <3>2, <3>4, <4>1
      <3> QED
        BY <3>3, <3>4
    <2>2. released' \in [Slot -> {0, 1}]
      BY <2>1 DEF Close, Released, LendInv, LendTyped
    <2> QED
      BY <2>1, <2>2 DEF ReleasedOnce
  <1>3. LendTyped'
    BY <1>1, <1>2 DEF Close, LendInv, LendTyped
  <1>4. ASSUME NEW i \in Iter PROVE InStep(i)'
    <2>1. it[i].state = "running" => it[i].on \in Slot
      BY DEF LendInv, InStep
    <2> QED
      BY <1>1, <2>1, InStepCarried DEF Close
  <1> QED
    BY <1>2, <1>3, <1>4 DEF LendInv

\* The finalizer closes what close did not.
LEMMA LendDels ==
    ASSUME LendInv, NEW s \in Slot, Del(s) PROVE LendInv'
  <1>1. /\ obj' \in [Slot -> LendHandle]
        /\ obj'[s] = Vacant
        /\ \A c \in Slot : c # s => /\ obj'[c].kind = obj[c].kind /\ obj'[c].pos = obj[c].pos
                                    /\ obj'[c].ptr = obj[c].ptr
    <2>1. Vacant \in LendHandle
      BY LendAssumption DEF Vacant, LendHandle
    <2> QED
      BY <2>1, OrphanedKeeps DEF LendInv, LendTyped, Del
  <1>2. NoIter \in Generator /\ Len(NoIter.buf) = 0 /\ Len(NoIter.got) = 0
    BY LendAssumption DEF Generator, NoIter
  <1>3. ASSUME NEW i \in Iter
        PROVE  it'[i] = NoIter \/ (it'[i] = it[i] /\ it[i].on # s)
    BY DEF Del, LendInv, LendTyped
  <1>4. LendTyped'
    <2>1. it' \in [Iter -> Generator]
      BY <1>2, <1>3 DEF Del, LendInv, LendTyped
    <2>2. \A i \in Iter : Len(it'[i].buf) < Batch /\ Len(it'[i].got) <= N
      BY <1>2, <1>3, LendAssumption DEF LendInv, LendTyped
    <2> QED
      BY <1>1, <2>1, <2>2 DEF Del, LendInv, LendTyped
  <1>5. ReleasedOnce'
    <2>1. ASSUME NEW c \in Slot
          PROVE  /\ released'[c] <= 1
                 /\ released'[c] = 1 <=> (obj'[c].kind # "none" /\ ~obj'[c].ptr)
      BY <1>1 DEF Del, Vacant, LendInv, LendTyped, ReleasedOnce
    <2> QED
      BY <2>1 DEF ReleasedOnce
  <1>6. ASSUME NEW i \in Iter PROVE InStep(i)'
    <2>1. it[i].state = "running" => it[i].on \in Slot
      BY DEF LendInv, InStep
    <2> QED
      BY <1>1, <1>3, <2>1, InStepCarried
  <1> QED
    BY <1>4, <1>5, <1>6 DEF LendInv

(* Moving the engine's cursor changes where one handle is, and nothing else.*)
LEMMA CursorMoves ==
    ASSUME LendInv, NEW s \in Slot, NEW p \in 0 .. N,
           obj' = [obj EXCEPT ![s].pos = p], released' = released
    PROVE  /\ obj' \in [Slot -> LendHandle]
           /\ obj'[s].pos = p
           /\ \A c \in Slot : obj'[c].kind = obj[c].kind /\ obj'[c].ptr = obj[c].ptr
           /\ \A c \in Slot : c # s => obj'[c].pos = obj[c].pos
           /\ ReleasedOnce'
  <1>1. obj' \in [Slot -> LendHandle]
    BY DEF LendInv, LendTyped, LendHandle
  <1>2. obj'[s].pos = p
    BY DEF LendInv, LendTyped, LendHandle
  <1>3. \A c \in Slot : obj'[c].kind = obj[c].kind /\ obj'[c].ptr = obj[c].ptr
    BY DEF LendInv, LendTyped, LendHandle
  <1>4. \A c \in Slot : c # s => obj'[c].pos = obj[c].pos
    BY DEF LendInv, LendTyped, LendHandle
  <1>5. ReleasedOnce'
    BY <1>3 DEF LendInv, ReleasedOnce
  <1> QED
    BY <1>1, <1>2, <1>3, <1>4, <1>5

(* Whoever moves a cursor and disturbs the generators on it keeps the rest *)
(* in step.                                                                *)
LEMMA MoverDisturbs ==
    ASSUME LendInv, NEW s \in Slot, NEW p \in 0 .. N, NEW j, NEW i \in Iter, i # j,
           obj' = [obj EXCEPT ![s].pos = p], released' = released,
           it'[i] = Disturbed(s, j)[i]
    PROVE  InStep(i)'
  <1>1. \A c \in Slot : /\ obj'[c].kind = obj[c].kind
                        /\ c # s => obj'[c].pos = obj[c].pos
    BY CursorMoves
  <1>2. /\ it'[i].on = it[i].on /\ it'[i].state = it[i].state
        /\ it'[i] = it[i] \/ (it'[i].moved /\ it[i].state = "running")
        /\ it[i].on = s /\ it[i].state = "running" => it'[i].moved
    BY DisturbedKeeps DEF LendInv
  <1>3. it[i].state = "running" => it[i].on \in Slot
    BY DEF LendInv, InStep
  <1>4. CASE it'[i] = it[i]
    BY <1>1, <1>2, <1>3, <1>4, InStepCarried
  <1>5. CASE it'[i].moved /\ it[i].state = "running"
    BY <1>1, <1>2, <1>3, <1>5, InStepCarried
  <1> QED
    BY <1>2, <1>4, <1>5

\* A step that moves no handle and no iterator keeps what is said of them.
LEMMA LendUnmoved ==
    ASSUME LendInv, UNCHANGED <<obj, released, it>>,
           answer' \in {"none", "handle", "declined", "raised", "value", "drained"}
    PROVE  LendInv'
  <1>1. LendTyped' /\ ReleasedOnce'
    BY DEF LendInv, LendTyped, ReleasedOnce
  <1>2. \A i \in Iter : InStep(i)'
    BY DEF LendInv, InStep
  <1> QED
    BY <1>1, <1>2 DEF LendInv

\* A verb on a closed object raises and changes nothing.
LEMMA LendVerbs ==
    ASSUME LendInv, NEW s \in Slot, Verb(s) PROVE LendInv'
  BY LendUnmoved DEF Verb

\* A rewind puts the handle at its first entry and says so to those who
\* iterate.
LEMMA LendRewinds ==
    ASSUME LendInv, NEW s \in Slot, rewind(s) PROVE LendInv'
  <1>1. CASE ~obj[s].ptr
    BY <1>1, LendUnmoved DEF rewind
  <1>2. CASE obj[s].ptr
    <2>1. /\ obj' = [obj EXCEPT ![s].pos = 0] /\ released' = released
          /\ it' = Disturbed(s, "none") /\ 0 \in 0 .. N
      BY <1>2, LendAssumption DEF rewind
    <2>2. ReleasedOnce' /\ obj' \in [Slot -> LendHandle]
      BY <2>1, CursorMoves
    <2>3. LendTyped'
      BY <1>2, <2>1, <2>2, DisturbedKeeps DEF rewind, LendInv, LendTyped
    <2>4. ASSUME NEW i \in Iter PROVE InStep(i)'
      BY <2>1, MoverDisturbs, LendAssumption
    <2> QED
      BY <2>2, <2>3, <2>4 DEF LendInv
  <1> QED
    BY <1>1, <1>2

\* Reading one entry moves the handle by one.
LEMMA LendOnes ==
    ASSUME LendInv, NEW s \in Slot, One(s) PROVE LendInv'
  <1>1. CASE ~obj[s].ptr
    BY <1>1, LendUnmoved DEF One
  <1>2. CASE obj[s].ptr /\ ~(obj[s].pos < N)
    <2>1. obj' = obj
      BY <1>2 DEF One, LendInv, LendTyped, LendHandle
    <2> QED
      BY <1>2, <2>1, LendUnmoved DEF One
  <1>3. CASE obj[s].ptr /\ obj[s].pos < N
    <2>1. /\ obj' = [obj EXCEPT ![s].pos = obj[s].pos + 1] /\ released' = released
          /\ it' = Disturbed(s, "none") /\ obj[s].pos + 1 \in 0 .. N
      BY <1>3, LendAssumption DEF One, LendInv, LendTyped, LendHandle
    <2>2. ReleasedOnce' /\ obj' \in [Slot -> LendHandle]
      BY <2>1, CursorMoves
    <2>3. LendTyped'
      BY <1>3, <2>1, <2>2, DisturbedKeeps DEF One, LendInv, LendTyped
    <2>4. ASSUME NEW i \in Iter PROVE InStep(i)'
      BY <2>1, MoverDisturbs, LendAssumption
    <2> QED
      BY <2>2, <2>3, <2>4 DEF LendInv
  <1> QED
    BY <1>1, <1>2, <1>3

\* A generator begins where the handle stands.
LEMMA LendBegins ==
    ASSUME LendInv, NEW s \in Slot, NEW i \in Iter, BeginIter(s, i) PROVE LendInv'
  <1>1. CASE obj[s].kind = "walk" /\ ~obj[s].ptr
    BY <1>1, LendUnmoved DEF BeginIter
  <1>2. CASE ~(obj[s].kind = "walk" /\ ~obj[s].ptr)
    <2> DEFINE at == IF obj[s].kind = "walk" THEN 0 ELSE obj[s].pos
               others == IF obj[s].kind = "walk" THEN Disturbed(s, i) ELSE it
               begun == [NoIter EXCEPT !.on = s, !.state = "running", !.from = at]
    <2>1. at \in 0 .. N /\ released' = released /\ obj' = [obj EXCEPT ![s].pos = at]
      BY <1>2, LendAssumption DEF BeginIter, LendInv, LendTyped, LendHandle
    <2>2. it' = [others EXCEPT ![i] = begun]
      BY <1>2 DEF BeginIter
    <2>3. /\ others \in [Iter -> Generator]
          /\ \A h \in Iter : Len(others[h].buf) < Batch /\ Len(others[h].got) <= N
      BY DisturbedKeeps DEF LendInv, LendTyped
    <2>4. /\ begun.on = s /\ begun.state = "running" /\ begun.buf = <<>>
          /\ begun.last = FALSE /\ begun.from = at /\ begun.got = <<>>
          /\ begun.moved = FALSE /\ begun.owned = 0 /\ begun \in Generator
      <3>1. <<>> \in Seq(Nat)
        OBVIOUS
      <3>2. NoIter \in Generator
        BY <3>1, LendAssumption DEF Generator, NoIter
      <3> HIDE DEF at
      <3>3. begun \in Generator
        BY <2>1, <3>2 DEF Generator
      <3>4. /\ begun.on = s /\ begun.state = "running" /\ begun.buf = <<>>
            /\ begun.last = FALSE /\ begun.from = at /\ begun.got = <<>>
            /\ begun.moved = FALSE /\ begun.owned = 0
        BY DEF NoIter
      <3> QED
        BY <3>3, <3>4
    <2>5. it'[i] = begun /\ \A h \in Iter : h # i => it'[h] = others[h]
      BY <2>2, <2>3
    <2>6. ReleasedOnce' /\ obj' \in [Slot -> LendHandle] /\ obj'[s].pos = at
          /\ \A c \in Slot : obj'[c].kind = obj[c].kind
      BY ZenonT(60), <2>1, CursorMoves
    <2> HIDE DEF at, others, begun
    <2>7. LendTyped'
      <3>1. it' \in [Iter -> Generator]
        BY <2>2, <2>3, <2>4
      <3>2. \A h \in Iter : Len(it'[h].buf) < Batch /\ Len(it'[h].got) <= N
        BY <2>3, <2>4, <2>5, LendAssumption
      <3>3. answer' = "value"
        BY <1>2 DEF BeginIter
      <3> QED
        BY <2>1, <2>6, <3>1, <3>2, <3>3 DEF LendInv, LendTyped
    <2>8. ASSUME NEW h \in Iter PROVE InStep(h)'
      <3>1. CASE h = i
        <4>1. obj'[s].kind \in Streams
          BY <2>6 DEF BeginIter
        <4> QED
          BY <2>4, <2>5, <2>6, <3>1, <4>1, <2>1, LendAssumption DEF InStep
      <3>2. CASE h # i /\ obj[s].kind = "walk"
        <4>1. it'[h] = Disturbed(s, i)[h]
          BY <2>5, <3>2 DEF others
        <4> QED
          BY <2>1, <3>2, <4>1, MoverDisturbs
      <3>3. CASE h # i /\ obj[s].kind # "walk"
        <4>1. it'[h] = it[h] /\ obj' = obj
          BY <2>1, <2>5, <3>3 DEF others, at, LendInv, LendTyped, LendHandle
        <4> QED
          BY <4>1, InStepCarried
      <3> QED
        BY <3>1, <3>2, <3>3
    <2> QED
      BY <2>6, <2>7, <2>8 DEF LendInv
  <1> QED
    BY <1>1, <1>2

\* Entries counted from f, without the first.
LEMMA CountedTail ==
    ASSUME NEW q \in Seq(Nat), NEW f \in Nat, q # <<>>,
           \A k \in 1 .. Len(q) : q[k] = f + k
    PROVE  /\ Head(q) = f + 1 /\ Tail(q) \in Seq(Nat) /\ Len(Tail(q)) = Len(q) - 1
           /\ Len(q) >= 1 /\ \A k \in 1 .. Len(Tail(q)) : Tail(q)[k] = f + 1 + k
  OBVIOUS

(* What a yield adds to what an undisturbed generator has yielded.         *)
LEMMA YieldedNext ==
    ASSUME LendInv, NEW i \in Iter, NEW e \in Nat,
           ~it[i].moved => Len(it[i].got) + 1 <= N
    PROVE  /\ Yielded(i, e) \in Seq(Nat) /\ Len(Yielded(i, e)) <= N
           /\ ~it[i].moved =>
                /\ Len(Yielded(i, e)) = Len(it[i].got) + 1
                /\ Yielded(i, e)[Len(it[i].got) + 1] = e
                /\ \A k \in 1 .. Len(it[i].got) : Yielded(i, e)[k] = it[i].got[k]
  <1> DEFINE got == it[i].got
  <1>1. got \in Seq(Nat) /\ it[i].moved \in BOOLEAN
    BY DEF LendInv, LendTyped, Generator
  <1>2. CASE it[i].moved
    BY <1>2, LendAssumption DEF Yielded
  <1>3. CASE ~it[i].moved
    <2>1. Yielded(i, e) = Append(got, e) /\ Len(got) + 1 <= N
      BY <1>3 DEF Yielded
    <2> HIDE DEF got
    <2>2. /\ Append(got, e) \in Seq(Nat)
          /\ Len(Append(got, e)) = Len(got) + 1
          /\ Append(got, e)[Len(got) + 1] = e
          /\ \A k \in 1 .. Len(got) : Append(got, e)[k] = got[k]
      BY <1>1
    <2> QED
      BY <1>3, <2>1, <2>2 DEF got
  <1> QED
    BY <1>2, <1>3

(* What it adds of the entries counted from f, if it is the next of them.  *)
LEMMA OwnedNext ==
    ASSUME LendInv, NEW i \in Iter, ~it[i].moved, it[i].owned = Len(it[i].got),
           NEW e \in Nat, e = it[i].from + Len(it[i].got) + 1, e <= N
    PROVE  \A k \in 1 .. Len(Yielded(i, e)) : Yielded(i, e)[k] = it[i].from + k
  <1>1. it[i].got \in Seq(Nat) /\ it[i].from \in Nat
    BY DEF LendInv, LendTyped, Generator
  <1>2. Len(it[i].got) \in Nat /\ Len(it[i].got) + 1 <= N
    BY <1>1, LendAssumption
  <1>3. \A k \in 1 .. Len(it[i].got) : it[i].got[k] = it[i].from + k
    BY DEF LendInv, InStep
  <1>4. /\ Len(Yielded(i, e)) = Len(it[i].got) + 1
        /\ Yielded(i, e)[Len(it[i].got) + 1] = e
        /\ \A k \in 1 .. Len(it[i].got) : Yielded(i, e)[k] = it[i].got[k]
    BY <1>2, YieldedNext
  <1>5. TAKE k \in 1 .. Len(Yielded(i, e))
  <1>6. k \in 1 .. Len(it[i].got) \/ k = Len(it[i].got) + 1
    BY <1>2, <1>4
  <1>7. CASE k \in 1 .. Len(it[i].got)
    BY <1>3, <1>4, <1>7
  <1>8. CASE k = Len(it[i].got) + 1
    <2>1. it[i].from + k = it[i].from + Len(it[i].got) + 1
      <3> DEFINE length == Len(it[i].got)
                 first == it[i].from
      <3>1. length \in Nat /\ first \in Nat /\ k = length + 1
        BY <1>1, <1>2, <1>8
      <3> HIDE DEF length, first
      <3>2. first + k = first + length + 1
        BY <3>1
      <3> QED
        BY <3>2 DEF length, first
    <2> QED
      BY <1>4, <1>8, <2>1
  <1> QED
    BY <1>6, <1>7, <1>8

(* One generator moves on; the others are as the mover leaves them.        *)
LEMMA OneGenerator ==
    ASSUME LendInv, NEW i \in Iter, NEW base \in [Iter -> Generator],
           \A h \in Iter : Len(base[h].buf) < Batch /\ Len(base[h].got) <= N,
           NEW g \in Generator, Len(g.buf) < Batch, Len(g.got) <= N,
           it' = [base EXCEPT ![i] = g], obj' \in [Slot -> LendHandle],
           released' = released, answer' \in {"value", "drained", "raised"}
    PROVE  /\ LendTyped' /\ it'[i] = g
           /\ \A h \in Iter : h # i => it'[h] = base[h]
  BY DEF LendInv, LendTyped

\* A generator that has entries in its batch yields the next, the handle's as
\* long as that stands.
LEMMA LendResumes ==
    ASSUME LendInv, NEW i \in Iter, Resume(i) PROVE LendInv'
  <1> DEFINE buf == it[i].buf
             got == it[i].got
             from == it[i].from
             pos == obj[it[i].on].pos
             open == obj[it[i].on].ptr
  <1>1. /\ it[i] \in Generator /\ it[i].state = "running" /\ it[i].on \in Slot
        /\ obj[it[i].on] \in LendHandle /\ obj[it[i].on].kind \in Streams
    BY DEF Resume, LendInv, LendTyped, InStep
  <1>2. /\ buf \in Seq(Nat) /\ got \in Seq(Nat) /\ Len(buf) < Batch /\ buf # <<>>
        /\ from \in Nat /\ pos \in 0 .. N /\ open \in BOOLEAN
        /\ it[i].owned \in 0 .. N
    BY <1>1 DEF Resume, LendInv, LendTyped, Generator, LendHandle
  <1>3. ~it[i].moved =>
          /\ pos = from + Len(got) + Len(buf)
          /\ \A k \in 1 .. Len(buf) : buf[k] = from + Len(got) + k
          /\ it[i].last => pos = N
          /\ it[i].owned <= Len(got)
          /\ \A k \in 1 .. it[i].owned : got[k] = from + k
          /\ it[i].owned < Len(got) => ~open
    BY <1>1 DEF LendInv, InStep
  <1>4. PICK e \in (IF open THEN {Head(buf)} ELSE 0 .. N) :
          it' = [it EXCEPT ![i].buf = Tail(@), ![i].got = Yielded(i, e),
                           ![i].owned = IF open THEN Len(Yielded(i, e)) ELSE @]
    BY DEF Resume
  <1>5. /\ Head(buf) \in Nat /\ Tail(buf) \in Seq(Nat) /\ Len(Tail(buf)) = Len(buf) - 1
        /\ Len(buf) >= 1 /\ e \in Nat /\ open => e = Head(buf)
    <2> HIDE DEF buf, open
    <2>1. /\ Head(buf) \in Nat /\ Tail(buf) \in Seq(Nat) /\ Len(Tail(buf)) = Len(buf) - 1
          /\ Len(buf) >= 1
      BY <1>2
    <2> QED
      BY <1>4, <2>1, LendAssumption
  <1> DEFINE more == Yielded(i, e)
             g == [it[i] EXCEPT !.buf = Tail(buf), !.got = more,
                                !.owned = IF open THEN Len(more) ELSE it[i].owned]
  <1>6. it' = [it EXCEPT ![i] = g]
    <2>1. it \in [Iter -> Generator]
      BY DEF LendInv, LendTyped
    <2> QED
      BY <1>4, <2>1
  <1> HIDE DEF buf, got, from, pos, open
  <1>7. /\ Len(got) \in Nat /\ Len(buf) \in Nat
        /\ ~it[i].moved => Len(got) + 1 <= N
    <2>1. Len(got) \in Nat /\ Len(buf) \in Nat
      BY <1>2
    <2> QED
      BY <1>2, <1>3, <1>5, <2>1, LendAssumption
  <1>8. ~it[i].moved =>
          /\ Head(buf) = from + Len(got) + 1
          /\ \A k \in 1 .. Len(Tail(buf)) : Tail(buf)[k] = from + Len(got) + 1 + k
    <2> SUFFICES ASSUME ~it[i].moved
                 PROVE  /\ Head(buf) = from + Len(got) + 1
                        /\ \A k \in 1 .. Len(Tail(buf)) :
                              Tail(buf)[k] = from + Len(got) + 1 + k
      OBVIOUS
    <2>1. from + Len(got) \in Nat
      BY <1>2, <1>7
    <2> QED
      BY <1>2, <1>3, <2>1, CountedTail
  <1>9. /\ more \in Seq(Nat) /\ Len(more) <= N /\ Len(more) \in Nat
        /\ ~it[i].moved =>
             /\ Len(more) = Len(got) + 1
             /\ \A k \in 1 .. Len(got) : more[k] = got[k]
    BY <1>5, <1>7, YieldedNext DEF got
  <1>10. ~it[i].moved /\ open => \A k \in 1 .. Len(more) : more[k] = from + k
    <2>1. SUFFICES ASSUME ~it[i].moved, open
                   PROVE  \A k \in 1 .. Len(more) : more[k] = from + k
      OBVIOUS
    <2>2. it[i].owned = Len(got) /\ e = from + Len(got) + 1 /\ e <= N
      BY <1>2, <1>3, <1>5, <1>7, <1>8, <2>1, LendAssumption
    <2> QED
      BY <1>5, <2>1, <2>2, OwnedNext DEF got, from
  <1> HIDE DEF more
  <1>11. /\ g \in Generator /\ g.buf = Tail(buf) /\ g.got = more
         /\ g.owned = (IF open THEN Len(more) ELSE it[i].owned)
         /\ g.on = it[i].on /\ g.state = "running" /\ g.last = it[i].last
         /\ g.from = from /\ g.moved = it[i].moved
    <2>1. (IF open THEN Len(more) ELSE it[i].owned) \in 0 .. N
      BY <1>2, <1>9, LendAssumption
    <2> QED
      BY <1>1, <1>5, <1>9, <2>1 DEF Generator, from
  <1> HIDE DEF g
  <1>12. UNCHANGED <<obj, released>> /\ answer' = "value" /\ obj \in [Slot -> LendHandle]
    BY DEF Resume, LendInv, LendTyped
  <1>13. /\ LendTyped' /\ it'[i] = g
         /\ \A h \in Iter : h # i => it'[h] = it[h]
    <2>1. Len(g.buf) < Batch /\ Len(g.got) <= N
      BY <1>2, <1>5, <1>7, <1>9, <1>11, LendAssumption
    <2> QED
      BY <1>6, <1>11, <1>12, <2>1, OneGenerator DEF LendInv, LendTyped
  <1>14. ASSUME NEW h \in Iter PROVE InStep(h)'
    <2>1. CASE h # i
      BY <1>12, <1>13, <2>1, InStepCarried
    <2>2. CASE h = i
      <3>1. ASSUME ~it[i].moved
            PROVE  /\ pos = from + Len(g.got) + Len(g.buf)
                   /\ \A k \in 1 .. Len(g.buf) : g.buf[k] = from + Len(g.got) + k
                   /\ g.last => pos = N
        <4>1. /\ Len(g.got) = Len(got) + 1 /\ Len(g.buf) = Len(buf) - 1
              /\ pos = from + Len(got) + Len(buf)
              /\ \A k \in 1 .. Len(g.buf) : g.buf[k] = from + Len(got) + 1 + k
          BY <1>3, <1>5, <1>8, <1>9, <1>11, <3>1
        <4>2. /\ pos = from + Len(g.got) + Len(g.buf)
              /\ from + Len(g.got) = from + Len(got) + 1
          BY <1>2, <1>7, <4>1
        <4> QED
          BY <1>3, <1>11, <3>1, <4>1, <4>2
      <3>2. ASSUME ~it[i].moved
            PROVE  /\ g.owned <= Len(g.got)
                   /\ \A k \in 1 .. g.owned : g.got[k] = from + k
                   /\ g.owned < Len(g.got) => ~open
        <4>1. CASE open
          BY <1>9, <1>10, <1>11, <3>2, <4>1
        <4>2. CASE ~open
          <5>1. /\ g.owned = it[i].owned /\ Len(g.got) = Len(got) + 1
                /\ it[i].owned <= Len(got)
            BY <1>3, <1>9, <1>11, <3>2, <4>2
          <5>2. ASSUME NEW k \in 1 .. g.owned PROVE g.got[k] = from + k
            <6>1. k \in 1 .. Len(got)
              BY <1>2, <1>7, <5>1
            <6> QED
              BY <1>3, <1>9, <1>11, <3>2, <5>1, <6>1
          <5> QED
            BY <1>2, <1>7, <4>2, <5>1, <5>2
        <4> QED
          BY <1>2, <4>1, <4>2
      <3> QED
        BY <1>1, <1>11, <1>12, <1>13, <2>2, <3>1, <3>2 DEF InStep, pos, open
    <2> QED
      BY <2>1, <2>2
  <1>15. ReleasedOnce'
    BY <1>12 DEF LendInv, ReleasedOnce
  <1> QED
    BY <1>13, <1>14, <1>15 DEF LendInv

\* A generator that has none pulls a batch from its handle (_walk.py,
\* _tree.py).
LEMMA LendPulls ==
    ASSUME LendInv, NEW i \in Iter, PullBatch(i) PROVE LendInv'
  <1> DEFINE s == it[i].on
             got == it[i].got
             from == it[i].from
             pos == obj[s].pos
             left == N - pos
             taken == IF left < Batch THEN left ELSE Batch
  <1>1. /\ it[i] \in Generator /\ it[i].state = "running" /\ s \in Slot /\ it[i].buf = <<>>
        /\ obj[s] \in LendHandle /\ obj[s].kind \in Streams /\ Len(got) <= N
    BY DEF PullBatch, LendInv, LendTyped, InStep
  <1>2. /\ got \in Seq(Nat) /\ from \in Nat /\ pos \in 0 .. N
    BY <1>1 DEF Generator, LendHandle
  <1>3. ~it[i].moved => /\ pos = from + Len(got)
                        /\ it[i].last => pos = N
                        /\ it[i].owned <= Len(got)
                        /\ it[i].owned < Len(got) => ~obj[s].ptr
                        /\ \A k \in 1 .. it[i].owned : got[k] = from + k
    <2>1. Len(it[i].buf) = 0 /\ Len(got) \in Nat
      BY <1>1, <1>2
    <2> QED
      BY <1>1, <1>2, <2>1 DEF LendInv, InStep
  <1>4. released' = released /\ obj \in [Slot -> LendHandle] /\ it \in [Iter -> Generator]
    BY DEF PullBatch, LendInv, LendTyped
  (* It ends or raises where it is.                                        *)
  <1>5. ASSUME NEW st \in {"ended", "raised"},
               it' = [it EXCEPT ![i].state = st], obj' = obj,
               answer' \in {"drained", "raised"},
               st = "ended" /\ ~it[i].moved => pos = N
        PROVE  LendInv'
    <2> DEFINE g == [it[i] EXCEPT !.state = st]
    <2>1. /\ g \in Generator /\ g.buf = <<>> /\ g.got = got /\ g.state = st
          /\ g.from = from /\ g.moved = it[i].moved /\ g.owned = it[i].owned
          /\ g.on = s
      BY <1>1 DEF Generator
    <2>2. it' = [it EXCEPT ![i] = g]
      BY <1>4, <1>5
    <2> HIDE DEF g
    <2>3. LendTyped' /\ it'[i] = g /\ \A h \in Iter : h # i => it'[h] = it[h]
      <3>1. Len(g.buf) < Batch /\ Len(g.got) <= N
        BY <1>1, <2>1, LendAssumption
      <3> QED
        BY <1>4, <1>5, <2>1, <2>2, <3>1, OneGenerator DEF LendInv, LendTyped
    <2>4. ASSUME NEW h \in Iter PROVE InStep(h)'
      <3>1. CASE h # i
        BY <1>5, <2>3, <3>1, InStepCarried
      <3>2. CASE h = i
        BY <1>1, <1>3, <1>5, <2>1, <2>3, <3>2 DEF InStep
      <3> QED
        BY <3>1, <3>2
    <2>5. ReleasedOnce'
      BY <1>4, <1>5 DEF LendInv, ReleasedOnce
    <2> QED
      BY <2>3, <2>4, <2>5 DEF LendInv
  <1>6. CASE it[i].last
    <2>1. it' = [it EXCEPT ![i].state = "ended"] /\ answer' = "drained" /\ obj' = obj
      BY <1>6 DEF PullBatch
    <2> QED
      BY <1>3, <1>5, <1>6, <2>1
  <1>7. CASE ~it[i].last /\ ~obj[s].ptr
    <2>1. it' = [it EXCEPT ![i].state = "raised"] /\ answer' = "raised" /\ obj' = obj
      BY <1>7 DEF PullBatch
    <2> QED
      BY <1>5, <2>1
  <1>8. CASE ~it[i].last /\ obj[s].ptr
    <2>1. /\ taken \in Nat /\ taken <= Batch /\ pos + taken \in 0 .. N
          /\ taken < Batch => pos + taken = N
          /\ taken = 0 => pos = N
      <3> HIDE DEF pos
      <3> QED
        BY <1>2, LendAssumption
    <2>2. PICK drained \in BOOLEAN :
            /\ drained => taken < Batch
            /\ ~drained => taken > 0
            /\ obj' = [obj EXCEPT ![s].pos = @ + taken]
            /\ IF Ends(taken, drained)
               THEN it' = [it EXCEPT ![i].state = "ended"] /\ answer' = "drained"
               ELSE /\ it' = [(IF taken > 0 THEN Disturbed(s, i) ELSE it) EXCEPT
                                ![i].buf = [k \in 1 .. taken - 1 |-> obj[s].pos + k + 1],
                                ![i].got = Yielded(i, obj[s].pos + 1),
                                ![i].owned = Len(Yielded(i, obj[s].pos + 1)),
                                ![i].last = drained]
                    /\ answer' = "value"
      BY ZenonT(60), <1>8 DEF PullBatch
    <2>3. drained => pos + taken = N
      BY ZenonT(60), <2>1, <2>2
    <2>4. obj' = [obj EXCEPT ![s].pos = pos + taken]
      BY <1>1, <1>4, <2>2
    <2>5. CASE taken = 0
      <3>1. obj' = obj
        <4>1. pos + taken = pos
          <5> HIDE DEF pos, taken
          <5> QED
            BY <1>2, <2>5, LendAssumption
        <4>2. obj' = [obj EXCEPT ![s].pos = pos]
          BY <2>4, <4>1
        <4> QED
          BY <1>1, <1>4, <4>2 DEF LendHandle
      <3> QED
        <4>1. it' = [it EXCEPT ![i].state = "ended"] /\ answer' = "drained" /\ pos = N
          BY <2>1, <2>2, <2>5 DEF Ends
        <4> QED
          BY <1>5, <3>1, <4>1
    <2>6. CASE taken > 0
      <3> DEFINE buf == [k \in 1 .. taken - 1 |-> pos + k + 1]
                 more == Yielded(i, pos + 1)
                 g == [it[i] EXCEPT !.buf = buf, !.got = more, !.owned = Len(more),
                                    !.last = drained]
      <3> HIDE DEF taken, left
      <3>1. /\ buf \in Seq(Nat) /\ Len(buf) = taken - 1
            /\ \A k \in 1 .. Len(buf) : buf[k] = pos + 1 + k
        <4> HIDE DEF pos
        <4>1. taken - 1 \in Nat /\ pos \in Nat
          BY <1>2, <2>1, <2>6
        <4>2. \A k \in 1 .. taken - 1 : pos + k + 1 \in Nat /\ pos + k + 1 = pos + 1 + k
          BY <4>1
        <4>3. buf \in Seq(Nat) /\ Len(buf) = taken - 1
          BY <4>1, <4>2
        <4> QED
          BY <4>2, <4>3
      <3> HIDE DEF buf
      <3>2. pos + 1 <= N /\ pos + 1 \in Nat
        <4> HIDE DEF pos
        <4> QED
          BY <1>2, <2>1, <2>6, LendAssumption
      <3>3. ~it[i].moved => pos + 1 = from + Len(got) + 1
        <4> HIDE DEF pos, from, got
        <4> QED
          BY <1>2, <1>3
      <3>4. /\ more \in Seq(Nat) /\ Len(more) <= N /\ Len(more) \in Nat
            /\ ~it[i].moved =>
                 /\ Len(more) = Len(got) + 1
                 /\ \A k \in 1 .. Len(more) : more[k] = from + k
        <4>1. ~it[i].moved => Len(got) + 1 <= N
          <5> HIDE DEF pos
          <5> QED
            BY <1>2, <3>2, <3>3, LendAssumption
        <4>2. /\ more \in Seq(Nat) /\ Len(more) <= N /\ Len(more) \in Nat
              /\ ~it[i].moved => Len(more) = Len(got) + 1
          BY <3>2, <4>1, YieldedNext
        <4>3. ASSUME ~it[i].moved PROVE \A k \in 1 .. Len(more) : more[k] = from + k
          <5>1. it[i].owned = Len(got)
            <6>1. it[i].owned \in Nat /\ Len(got) \in Nat
              BY <1>1, <1>2 DEF Generator
            <6> QED
              BY <1>3, <1>8, <4>3, <6>1
          <5> QED
            BY <3>2, <3>3, <4>3, <5>1, OwnedNext
        <4> QED
          BY <4>2, <4>3
      <3> HIDE DEF more
      <3>5. /\ g \in Generator /\ g.on = s /\ g.state = "running" /\ g.buf = buf
            /\ g.got = more /\ g.last = drained /\ g.from = from
            /\ g.moved = it[i].moved /\ g.owned = Len(more)
        <4>1. Len(more) \in 0 .. N
          BY <3>4, LendAssumption
        <4> QED
          BY <1>1, <3>1, <3>4, <4>1 DEF Generator
      <3> HIDE DEF g
      <3>6. /\ Disturbed(s, i) \in [Iter -> Generator] /\ Disturbed(s, i)[i] = it[i]
            /\ \A h \in Iter : /\ Len(Disturbed(s, i)[h].buf) < Batch
                               /\ Len(Disturbed(s, i)[h].got) <= N
        <4>1. Disturbed(s, i)[i] = it[i]
          BY <1>1 DEF Disturbed
        <4> QED
          BY <1>1, <4>1, DisturbedKeeps DEF LendInv
      <3>7. it' = [Disturbed(s, i) EXCEPT ![i] = g] /\ answer' = "value"
        <4>1. /\ it' = [Disturbed(s, i) EXCEPT ![i].buf = buf, ![i].got = more,
                                                 ![i].owned = Len(more), ![i].last = drained]
              /\ answer' = "value"
          <5>1. ~Ends(taken, drained) /\ taken > 0
            BY <2>1, <2>6 DEF Ends
          <5>2. IF Ends(taken, drained)
                THEN it' = [it EXCEPT ![i].state = "ended"] /\ answer' = "drained"
                ELSE /\ it' = [(IF taken > 0 THEN Disturbed(s, i) ELSE it) EXCEPT
                                 ![i].buf = buf, ![i].got = more,
                                 ![i].owned = Len(more), ![i].last = drained]
                     /\ answer' = "value"
            BY <2>2 DEF buf, more
          <5> HIDE DEF s
          <5> QED
            BY <5>1, <5>2
        <4> QED
          BY <3>6, <4>1 DEF g
      <3>8. obj' \in [Slot -> LendHandle] /\ obj'[s].pos = pos + taken /\ ReleasedOnce'
            /\ \A c \in Slot : obj'[c].kind = obj[c].kind
        <4> HIDE DEF pos, s
        <4> QED
          BY <1>1, <1>4, <2>1, <2>4, CursorMoves
      <3>9. LendTyped' /\ it'[i] = g
            /\ \A h \in Iter : h # i => it'[h] = Disturbed(s, i)[h]
        <4>1. Len(g.buf) < Batch /\ Len(g.got) <= N
          <5> HIDE DEF pos
          <5>1. Len(g.buf) = taken - 1 /\ Len(g.got) <= N
            BY <3>1, <3>4, <3>5
          <5> QED
            BY <2>1, <2>6, <5>1, LendAssumption
        <4> QED
          BY <1>4, <3>5, <3>6, <3>7, <3>8, <4>1, OneGenerator
      <3>10. ASSUME NEW h \in Iter PROVE InStep(h)'
        <4>1. CASE h # i
          <5> HIDE DEF pos, s
          <5> QED
            BY <1>1, <1>4, <2>1, <2>4, <3>9, <4>1, MoverDisturbs
        <4>2. CASE h = i
          <5>1. ~g.moved => /\ pos + taken = from + Len(g.got) + Len(g.buf)
                            /\ g.owned = Len(g.got)
                            /\ \A k \in 1 .. Len(g.got) : g.got[k] = from + k
                            /\ \A k \in 1 .. Len(g.buf) : g.buf[k] = from + Len(g.got) + k
                            /\ g.last => pos + taken = N
            <6> SUFFICES ASSUME ~it[i].moved
                         PROVE  /\ pos + taken = from + Len(g.got) + Len(g.buf)
                                /\ g.owned = Len(g.got)
                                /\ \A k \in 1 .. Len(g.got) : g.got[k] = from + k
                                /\ \A k \in 1 .. Len(g.buf) :
                                      g.buf[k] = from + Len(g.got) + k
                                /\ g.last => pos + taken = N
              BY <3>5
            <6> HIDE DEF pos, from, got
            <6>1. /\ Len(got) \in Nat /\ Len(g.got) = Len(got) + 1
                  /\ Len(g.buf) = taken - 1 /\ pos = from + Len(got)
                  /\ pos + 1 = from + Len(g.got)
              <7>1. /\ Len(got) \in Nat /\ Len(g.got) = Len(got) + 1
                    /\ Len(g.buf) = taken - 1 /\ pos = from + Len(got)
                BY <1>2, <1>3, <3>1, <3>4, <3>5
              <7>2. from \in Nat /\ pos \in Nat
                BY <1>2, LendAssumption
              <7> QED
                BY <7>1, <7>2
            <6>2. pos + taken = from + Len(g.got) + Len(g.buf)
              <7>1. from \in Nat /\ pos \in Nat
                BY <1>2, LendAssumption
              <7> QED
                BY <2>1, <6>1, <7>1
            <6>3. /\ g.owned = Len(g.got)
                  /\ \A k \in 1 .. Len(g.got) : g.got[k] = from + k
              BY <3>4, <3>5
            <6>4. \A k \in 1 .. Len(g.buf) : g.buf[k] = from + Len(g.got) + k
              BY <3>1, <3>5, <6>1
            <6> QED
              BY <2>3, <3>5, <6>2, <6>3, <6>4
          <5>2. Len(g.got) \in Nat
            BY <3>4, <3>5
          <5>3. it'[i] = g /\ g.on = s /\ g.state = "running" /\ g.from = from
            BY <3>5, <3>9
          <5>4. obj'[s].kind \in Streams /\ obj'[s].pos = pos + taken
            BY <1>1, <3>8
          <5> HIDE DEF s, from, pos
          <5> QED
            BY <1>1, <4>2, <5>1, <5>2, <5>3, <5>4 DEF InStep
        <4> QED
          BY <4>1, <4>2
      <3> QED
        BY <3>8, <3>9, <3>10 DEF LendInv
    <2> QED
      BY <2>1, <2>5, <2>6
  <1> QED
    BY <1>6, <1>7, <1>8

\* Every step keeps the invariant.
LEMMA LendStepInv == LendInv /\ [LendNext]_lendVars => LendInv'
  <1> SUFFICES ASSUME LendInv, [LendNext]_lendVars PROVE LendInv'
    OBVIOUS
  <1>1. CASE UNCHANGED lendVars
    BY <1>1, LendUnmoved DEF lendVars, LendInv, LendTyped
  <1>2. ASSUME NEW s \in Slot, NEW status, walk(s, status) \/ Corpus(s, status) \/ sieved(s, status)
        PROVE  LendInv'
    BY <1>2, LendOpens DEF walk, Corpus, sieved, Kinds, Streams
  <1>3. ASSUME NEW s \in Slot, NEW status, NEW over \in Slot, searched(s, status, over)
        PROVE  LendInv'
    BY <1>3, LendOpens DEF searched, Kinds, Streams
  <1>4. ASSUME NEW s \in Slot, Close(s) \/ Del(s) \/ Verb(s) \/ rewind(s) \/ One(s)
        PROVE  LendInv'
    BY <1>4, LendCloses, LendDels, LendVerbs, LendRewinds, LendOnes
  <1>5. ASSUME NEW s \in Slot, NEW i \in Iter, BeginIter(s, i) PROVE LendInv'
    BY <1>5, LendBegins
  <1>6. ASSUME NEW i \in Iter, Resume(i) \/ PullBatch(i) PROVE LendInv'
    BY <1>6, LendResumes, LendPulls
  <1> QED
    BY <1>1, <1>2, <1>3, <1>4, <1>5, <1>6 DEF LendNext

------------------------------------------------------------------------------
\* Ladder. A cached engine answers for the directory it was opened in, drift
\* is never silent, and an engine in use stands until as many others as the
\* cache holds have been opened after it.

\* What a caller on its way down the ladder has found out.
Question == [at : {"idle", "plane", "key", "engine", "run", "rows", "cold", "raised"},
             face : Face \cup {"none"}, root : Root \cup {"none"}, meant : Dir \cup {"none"},
             key : Key \cup {NoKey}, engine : 0 .. MaxOpened, crossed : BOOLEAN,
             left : 0 .. NRows, got : 0 .. NRows, cursor : {"none", "open", "closed"},
             stats : {"none", "early", "final"},
             rowsOf : Key \cup {NoKey}, freed : BOOLEAN]

\* The types the steps keep.
LadderTyped ==
  /\ cwd \in Dir
  /\ planes \in [Face -> {"unknown", "none", "agrees"}]
  /\ engines \in Seq([key : Key, engine : 1 .. MaxOpened]) /\ Len(engines) <= MaxEngines
  /\ raced \in BOOLEAN
  /\ openedRows \in 0 .. MaxOpened /\ openNow \subseteq 1 .. openedRows
  /\ corpus \in [1 .. MaxOpened -> Key \cup {NoKey}]
  /\ ask \in [Caller -> Question]

(* What was remembered of a face is what its library is.                   *)
PlanesTrue == \A f \in Face : planes[f] \in {"unknown", PlaneOf[f]}

(* An engine of the cache stands for its key, unless the directory moved   *)
(* under an opening.                                                       *)
EnginesTrue ==
  \A i \in 1 .. Len(engines) :
     /\ engines[i].engine \in 1 .. openedRows
     /\ ~raced => corpus[engines[i].engine] = engines[i].key

(* The cache holds the engines opened last, in the order of their opening, *)
(* and these are the ones that stand.                                      *)
CacheIsLatest ==
  /\ Len(engines) <= openedRows
  /\ Len(engines) < openedRows => Len(engines) = MaxEngines
  /\ \A i \in 1 .. Len(engines) : engines[i].engine = openedRows - Len(engines) + i
  /\ \A e \in 1 .. openedRows : e \in openNow <=> e > openedRows - Len(engines)

(* Step by step the question is asked of the corpus its caller meant.      *)
OnItsWay(c) ==
  /\ ask[c].at \in {"plane", "key", "engine", "run"} \/ ask[c].cursor = "open" =>
       ask[c].face \in Face /\ ask[c].root \in Root /\ ask[c].meant \in Dir
  /\ ask[c].at \in {"plane", "key", "engine", "run"} => ask[c].got = 0 /\ ask[c].cursor = "none" /\ ~ask[c].freed
  /\ ask[c].at = "key" /\ ~ask[c].crossed => ask[c].meant = cwd
  /\ ask[c].at = "engine" =>
       /\ ask[c].key \in Key /\ ask[c].key.root = ask[c].root
       /\ ~raced => ask[c].key.dir = cwd
       /\ ~ask[c].crossed => ask[c].key.dir = ask[c].meant
  /\ ask[c].at = "run" \/ ask[c].cursor = "open" =>
       /\ ask[c].engine \in 1 .. openedRows
       /\ ~ask[c].crossed /\ ~raced =>
            corpus[ask[c].engine] = [dir |-> ask[c].meant, root |-> ask[c].root]
  /\ ask[c].cursor = "open" =>
       /\ ask[c].freed => ask[c].engine \notin openNow
       /\ ~ask[c].crossed /\ ~raced /\ ~ask[c].freed =>
            ask[c].rowsOf = [dir |-> ask[c].meant, root |-> ask[c].root]
  /\ ask[c].face # "none" /\ PlaneOf[ask[c].face] = "drifted" =>
       ask[c].at \in {"idle", "plane", "raised"}
  /\ ask[c].cursor # "none" =>
       /\ ask[c].left + ask[c].got <= NRows
       /\ ~ask[c].freed => ask[c].left + ask[c].got = NRows
       /\ ask[c].cursor = "closed" /\ ask[c].left = 0 => ask[c].stats = "final"

\* The strengthening: an engine in use was opened where its key says, and the
\* engines that stand are those opened last.
LadderInv ==
  LadderTyped /\ PlanesTrue /\ EnginesTrue /\ CacheIsLatest /\ \A c \in Caller : OnItsWay(c)

\* What the invariant says is enough for the four properties of the ladder.
LEMMA LadderInvImplies ==
    ASSUME LadderInv
    PROVE  LadderTypeOK /\ CorpusRight /\ DriftLoud /\ RowsWhole /\ EngineStands
  <1>1. LadderTypeOK
    BY DEF LadderInv, LadderTyped, LadderTypeOK, Question
  <1>2. CorpusRight /\ DriftLoud /\ RowsWhole
    BY DEF LadderInv, OnItsWay, CorpusRight, DriftLoud, RowsWhole
  <1>3. EngineStands
    <2> SUFFICES ASSUME NEW c \in Caller, ask[c].at = "run" \/ ask[c].cursor = "open"
                 PROVE  /\ ask[c].engine \in openNow \/ ask[c].engine + MaxEngines <= openedRows
                        /\ ask[c].cursor = "open" /\ ask[c].freed => ask[c].engine \notin openNow
      BY DEF EngineStands
    <2>1. OnItsWay(c) /\ ask[c].engine \in 1 .. openedRows
      BY DEF LadderInv, OnItsWay
    <2>2. openedRows \in Nat /\ Len(engines) \in Nat
      BY LadderAssumption DEF LadderInv, LadderTyped
    <2>3. ask[c].engine \in openNow \/ ask[c].engine + MaxEngines <= openedRows
      BY <2>1, <2>2, LadderAssumption DEF LadderInv, CacheIsLatest
    <2>4. ask[c].cursor = "open" /\ ask[c].freed => ask[c].engine \notin openNow
      BY <2>1 DEF OnItsWay
    <2> QED
      BY <2>3, <2>4
  <1> QED
    BY <1>1, <1>2, <1>3

\* Before the first question no engine is open.
LEMMA LadderInitInv == LadderInit => LadderInv
  <1> SUFFICES ASSUME LadderInit PROVE LadderInv
    OBVIOUS
  <1>1. NoAsk \in Question
    BY LadderAssumption DEF NoAsk, Question
  <1>2. LadderTyped
    <2>1. cwd \in Dir
      BY LadderAssumption DEF LadderInit
    <2>2. /\ planes \in [Face -> {"unknown", "none", "agrees"}]
          /\ raced \in BOOLEAN
      BY DEF LadderInit
    <2>5. engines \in Seq([key : Key, engine : 1 .. MaxOpened]) /\ Len(engines) <= MaxEngines
      <3>1. <<>> \in Seq([key : Key, engine : 1 .. MaxOpened]) /\ Len(<<>>) = 0
        OBVIOUS
      <3> QED
        BY <3>1, LadderAssumption DEF LadderInit
    <2>3. openedRows \in 0 .. MaxOpened /\ openNow \subseteq 1 .. openedRows
      BY LadderAssumption DEF LadderInit
    <2>4. corpus \in [1 .. MaxOpened -> Key \cup {NoKey}] /\ ask \in [Caller -> Question]
      BY <1>1 DEF LadderInit
    <2> QED
      BY <2>1, <2>2, <2>3, <2>4, <2>5 DEF LadderTyped
  <1>3. PlanesTrue /\ EnginesTrue
    BY LadderAssumption DEF LadderInit, PlanesTrue, EnginesTrue
  <1>5. CacheIsLatest
    BY LadderAssumption DEF LadderInit, CacheIsLatest
  <1>4. \A c \in Caller : OnItsWay(c)
    BY DEF LadderInit, OnItsWay, NoAsk
  <1> QED
    BY <1>2, <1>3, <1>4, <1>5 DEF LadderInv

(* Who is not concerned by a step stays on the way: engines are opened,    *)
(* never re-opened, and not for another corpus.                            *)
LEMMA OnItsWayCarried ==
    ASSUME LadderInv, NEW c \in Caller, ask'[c] = ask[c], cwd' = cwd, raced' = raced,
           openedRows' \in 0 .. MaxOpened, openedRows <= openedRows',
           \A e \in 1 .. openedRows :
              corpus'[e] = corpus[e] /\ (e \in openNow' => e \in openNow)
    PROVE  OnItsWay(c)'
  <1>1. OnItsWay(c) /\ openedRows \in Nat /\ openedRows' \in Nat
    BY LadderAssumption DEF LadderInv, LadderTyped
  <1> QED
    BY <1>1 DEF OnItsWay

(* One caller's record is replaced, and nothing else.                      *)
LEMMA OneQuestion ==
    ASSUME LadderInv, NEW c \in Caller, NEW q \in Question, ask' = [ask EXCEPT ![c] = q],
           UNCHANGED <<cwd, planes, engines, openedRows, openNow, corpus, raced>>,
           OnItsWay(c)'
    PROVE  LadderInv'
  <1>1. LadderTyped'
    BY DEF LadderInv, LadderTyped
  <1>2. PlanesTrue' /\ EnginesTrue' /\ CacheIsLatest'
    BY DEF LadderInv, PlanesTrue, EnginesTrue, CacheIsLatest
  <1>3. ASSUME NEW d \in Caller PROVE OnItsWay(d)'
    <2>1. CASE d # c
      <3>1. ask'[d] = ask[d] /\ openedRows \in 0 .. MaxOpened /\ openedRows <= openedRows
        BY <2>1, LadderAssumption DEF LadderInv, LadderTyped
      <3> QED
        BY <3>1, OnItsWayCarried
    <2> QED
      BY <2>1
  <1> QED
    BY <1>1, <1>2, <1>3 DEF LadderInv

\* Whoever changes the directory changes no engine (runtime/analytic.py,
\* _engine reads it once).
LEMMA LadderChdir ==
    ASSUME LadderInv, NEW d \in Dir, chdir(d) PROVE LadderInv'
  <1>1. ASSUME NEW c \in Caller
        PROVE  /\ ask'[c] \in Question
               /\ ask'[c] = IF ask[c].at \in {"plane", "key", "engine"}
                            THEN [ask[c] EXCEPT !.crossed = TRUE] ELSE ask[c]
    <2>1. ask[c] \in Question
      BY DEF LadderInv, LadderTyped
    <2>2. [ask[c] EXCEPT !.crossed = TRUE] \in Question
      BY <2>1 DEF Question
    <2>3. ask'[c] = IF ask[c].at \in {"plane", "key", "engine"}
                    THEN [ask[c] EXCEPT !.crossed = TRUE] ELSE ask[c]
      BY DEF chdir
    <2> QED
      BY <2>1, <2>2, <2>3
  <1>2. LadderTyped'
    BY <1>1 DEF LadderInv, LadderTyped, chdir
  <1>3. PlanesTrue' /\ EnginesTrue' /\ CacheIsLatest'
    BY DEF LadderInv, PlanesTrue, EnginesTrue, CacheIsLatest, chdir, LadderTyped
  <1>4. ASSUME NEW c \in Caller PROVE OnItsWay(c)'
    <2>1. OnItsWay(c) /\ ask[c] \in Question
      BY DEF LadderInv, LadderTyped
    <2>2. UNCHANGED <<openedRows, openNow, corpus>> /\ (ask[c].at = "engine" => raced')
          /\ (~raced' => ~raced)
      BY DEF chdir
    <2>3. CASE ask[c].at \in {"plane", "key", "engine"}
      <3>1. /\ ask'[c].crossed = TRUE /\ ask'[c].at = ask[c].at /\ ask'[c].face = ask[c].face
            /\ ask'[c].root = ask[c].root /\ ask'[c].meant = ask[c].meant
            /\ ask'[c].key = ask[c].key /\ ask'[c].cursor = ask[c].cursor
            /\ ask'[c].engine = ask[c].engine /\ ask'[c].left = ask[c].left
            /\ ask'[c].got = ask[c].got /\ ask'[c].stats = ask[c].stats
            /\ ask'[c].rowsOf = ask[c].rowsOf /\ ask'[c].freed = ask[c].freed
        BY ZenonT(60), <1>1, <2>1, <2>3 DEF Question
      <3> QED
        BY <2>1, <2>2, <3>1 DEF OnItsWay
    <2>4. CASE ask[c].at \notin {"plane", "key", "engine"}
      <3>1. ask'[c] = ask[c]
        BY <1>1, <2>4
      <3> QED
        BY <2>1, <2>2, <2>4, <3>1 DEF OnItsWay
    <2> QED
      BY <2>3, <2>4
  <1> QED
    BY <1>2, <1>3, <1>4 DEF LadderInv

\* A caller that has its rows, or that gives up, starts over.
LEMMA LadderAnswers ==
    ASSUME LadderInv, NEW c \in Caller, NEW face \in Face, NEW root \in Root, NEW dir \in Dir,
           Answer(c, face, root, dir)
    PROVE  LadderInv'
  <1> DEFINE q == [NoAsk EXCEPT !.at = "plane", !.face = face, !.root = root, !.meant = dir]
  <1>1. NoAsk \in Question
    BY LadderAssumption DEF NoAsk, Question
  <1>2. /\ q \in Question /\ q.at = "plane" /\ q.face = face /\ q.root = root
        /\ q.meant = dir /\ q.cursor = "none" /\ q.got = 0 /\ ~q.freed
    BY <1>1 DEF NoAsk, Question
  <1>3. ask' = [ask EXCEPT ![c] = q] /\ ask'[c] = q
    BY DEF Answer, LadderInv, LadderTyped
  <1> HIDE DEF q
  <1>4. OnItsWay(c)'
    BY <1>2, <1>3 DEF OnItsWay
  <1> QED
    BY <1>2, <1>3, <1>4, OneQuestion DEF Answer

\* Leaving a step of a question for the next keeps what the question is.
LEMMA LeftQuestion ==
    ASSUME NEW where \in {"cold", "raised"}, NEW f \in Face \cup {"none"}
    PROVE  [NoAsk EXCEPT !.at = where, !.face = f] \in Question
  <1>1. where \in {"idle", "plane", "key", "engine", "run", "rows", "cold", "raised"}
    OBVIOUS
  <1>2. NoAsk \in Question
    BY LadderAssumption DEF NoAsk, Question
  <1> QED
    BY <1>1, <1>2, LadderAssumption DEF Question, NoAsk

(* A question that leaves the tier keeps its face and nothing else.        *)
LEMMA LeavesWell ==
    ASSUME LadderInv, NEW c \in Caller, NEW where \in {"cold", "raised"},
           where = "cold" /\ ask[c].face # "none" => PlaneOf[ask[c].face] # "drifted",
           ask' = Leaves(c, where),
           UNCHANGED <<cwd, planes, engines, openedRows, openNow, corpus, raced>>
    PROVE  LadderInv'
  <1> DEFINE q == [NoAsk EXCEPT !.at = where, !.face = ask[c].face]
  <1>1. NoAsk \in Question /\ ask[c] \in Question
    BY LadderAssumption DEF NoAsk, Question, LadderInv, LadderTyped
  <1>2. /\ q \in Question /\ q.at = where /\ q.face = ask[c].face /\ q.cursor = "none"
    <2> DEFINE f == ask[c].face
    <2>1. f \in Face \cup {"none"}
      BY <1>1 DEF Question
    <2> HIDE DEF f
    <2>2. [NoAsk EXCEPT !.at = where, !.face = f] \in Question
      BY <2>1, LeftQuestion
    <2>3. /\ [NoAsk EXCEPT !.at = where, !.face = f].at = where
          /\ [NoAsk EXCEPT !.at = where, !.face = f].face = f
          /\ [NoAsk EXCEPT !.at = where, !.face = f].cursor = "none"
      BY DEF NoAsk
    <2> QED
      BY <2>2, <2>3 DEF f
  <1>3. ask' = [ask EXCEPT ![c] = q] /\ ask'[c] = q
    BY DEF Leaves, LadderInv, LadderTyped
  <1> HIDE DEF q
  <1>4. OnItsWay(c)'
    BY <1>2, <1>3 DEF OnItsWay
  <1> QED
    BY <1>2, <1>3, <1>4, OneQuestion

\* Asking for the plane finds it, finds it drifted, or raises
\* (analytic._plane).
LEMMA LadderPlanes ==
    ASSUME LadderInv, NEW c \in Caller, Plane(c) PROVE LadderInv'
  <1> DEFINE f == ask[c].face
             plane == IF planes[f] = "unknown" THEN PlaneOf[f] ELSE planes[f]
  <1>1. /\ ask[c] \in Question /\ ask[c].at = "plane" /\ f \in Face
        /\ ask[c].root \in Root /\ ask[c].meant \in Dir /\ OnItsWay(c)
    BY DEF Plane, LadderInv, LadderTyped, OnItsWay
  <1>2. plane = PlaneOf[f] /\ PlaneOf[f] \in {"none", "drifted", "agrees"}
    BY <1>1, LadderAssumption DEF LadderInv, PlanesTrue
  <1>3. /\ planes' \in [Face -> {"unknown", "none", "agrees"}]
        /\ PlanesTrue'
    BY <1>1, <1>2 DEF Plane, Remembered, LadderInv, LadderTyped, PlanesTrue
  <1>4. UNCHANGED <<cwd, engines, openedRows, openNow, corpus, raced>>
    BY DEF Plane
  <1>5. ask' = IF plane = "drifted" THEN Leaves(c, "raised")
               ELSE IF plane = "none" \/ ask[c].meant # cwd
                    THEN Leaves(c, "cold") ELSE [ask EXCEPT ![c].at = "key"]
    BY DEF Plane
  <1> DEFINE onward == [ask[c] EXCEPT !.at = "key"]
             left(where) == [NoAsk EXCEPT !.at = where, !.face = f]
  <1>6. PICK q \in {onward, left("raised"), left("cold")} :
          /\ ask' = [ask EXCEPT ![c] = q]
          /\ q = onward => PlaneOf[f] # "drifted" /\ ask[c].meant = cwd
          /\ q = left("cold") => PlaneOf[f] # "drifted"
    <2>1. CASE plane = "drifted"
      <3>1. ask' = [ask EXCEPT ![c] = left("raised")]
        <4>1. ask' = Leaves(c, "raised")
          <5> HIDE DEF plane
          <5> QED
            BY <1>5, <2>1
        <4> QED
          BY <4>1 DEF Leaves
      <3>2. left("raised").at = "raised" /\ left("cold").at = "cold" /\ onward.at = "key"
        BY <1>1 DEF NoAsk, Question
      <3>3. left("raised") # left("cold") /\ left("raised") # onward
        BY <3>2
      <3> QED
        BY <3>1, <3>3
    <2>2. CASE plane # "drifted" /\ (plane = "none" \/ ask[c].meant # cwd)
      <3>1. ask' = [ask EXCEPT ![c] = left("cold")]
        BY <1>5, <2>2 DEF Leaves
      <3>2. left("cold").at = "cold" /\ onward.at = "key"
        BY <1>1 DEF NoAsk, Question
      <3>3. left("cold") # onward
        BY <3>2
      <3> QED
        BY <1>2, <2>2, <3>1, <3>3
    <2>3. CASE plane # "drifted" /\ ~(plane = "none" \/ ask[c].meant # cwd)
      <3>1. ask' = [ask EXCEPT ![c] = onward]
        BY <1>1, <1>5, <2>3 DEF LadderInv, LadderTyped
      <3> QED
        BY <1>2, <2>3, <3>1
    <2> QED
      BY <2>1, <2>2, <2>3
  <1>7. /\ q \in Question /\ q.face = f
        /\ \/ q.at = "raised" /\ q.cursor = "none"
           \/ q.at = "cold" /\ q.cursor = "none" /\ PlaneOf[f] # "drifted"
           \/ /\ q.at = "key" /\ PlaneOf[f] # "drifted" /\ ask[c].meant = cwd
              /\ q.root = ask[c].root /\ q.meant = ask[c].meant
              /\ q.crossed = ask[c].crossed /\ q.cursor = ask[c].cursor
              /\ q.engine = ask[c].engine /\ q.left = ask[c].left /\ q.got = ask[c].got
              /\ q.stats = ask[c].stats /\ q.rowsOf = ask[c].rowsOf /\ q.freed = ask[c].freed
    <2>1. NoAsk \in Question
      BY LadderAssumption DEF NoAsk, Question
    <2>2. ASSUME NEW where \in {"cold", "raised"}
          PROVE  /\ left(where) \in Question /\ left(where).at = where
                 /\ left(where).face = f /\ left(where).cursor = "none"
      BY <1>1, <2>1 DEF NoAsk, Question
    <2>3. /\ onward \in Question /\ onward.face = f /\ onward.at = "key"
          /\ onward.root = ask[c].root /\ onward.meant = ask[c].meant
          /\ onward.crossed = ask[c].crossed /\ onward.cursor = ask[c].cursor
          /\ onward.engine = ask[c].engine /\ onward.left = ask[c].left
          /\ onward.got = ask[c].got /\ onward.stats = ask[c].stats
          /\ onward.rowsOf = ask[c].rowsOf /\ onward.freed = ask[c].freed
      BY <1>1 DEF Question
    <2> HIDE DEF onward, left
    <2> QED
      BY <1>6, <2>2, <2>3
  <1>8. ask'[c] = q
    BY <1>6 DEF LadderInv, LadderTyped
  <1>9. OnItsWay(c)'
    BY <1>1, <1>4, <1>7, <1>8 DEF OnItsWay
  <1>10. ASSUME NEW d \in Caller, d # c PROVE OnItsWay(d)'
    <2>1. ask'[d] = ask[d] /\ openedRows \in 0 .. MaxOpened /\ openedRows <= openedRows
      BY <1>6, <1>10, LadderAssumption DEF LadderInv, LadderTyped
    <2> QED
      BY <1>4, <2>1, OnItsWayCarried
  <1>11. LadderTyped' /\ EnginesTrue' /\ CacheIsLatest'
    BY <1>3, <1>4, <1>6, <1>7 DEF LadderInv, LadderTyped, EnginesTrue, CacheIsLatest
  <1> QED
    BY <1>3, <1>9, <1>10, <1>11 DEF LadderInv

\* The key of the cache is read from the directory that holds then.
LEMMA LadderTakesKey ==
    ASSUME LadderInv, NEW c \in Caller, TakeKey(c) PROVE LadderInv'
  <1> DEFINE q == [ask[c] EXCEPT !.key = KeyOf(c), !.at = "engine"]
  <1>1. ask[c] \in Question /\ OnItsWay(c) /\ ask[c].at = "key" /\ cwd \in Dir
    BY DEF LadderInv, LadderTyped, TakeKey
  <1>2. KeyOf(c) \in Key /\ KeyOf(c).dir = cwd /\ KeyOf(c).root = ask[c].root
    BY <1>1 DEF KeyOf, Key, OnItsWay
  <1>3. /\ q \in Question /\ q.at = "engine" /\ q.key = KeyOf(c) /\ q.face = ask[c].face
        /\ q.root = ask[c].root /\ q.meant = ask[c].meant /\ q.crossed = ask[c].crossed
        /\ q.cursor = ask[c].cursor /\ q.engine = ask[c].engine
        /\ q.left = ask[c].left /\ q.got = ask[c].got /\ q.stats = ask[c].stats
        /\ q.rowsOf = ask[c].rowsOf /\ q.freed = ask[c].freed
    BY <1>1, <1>2 DEF Question
  <1>4. ask' = [ask EXCEPT ![c] = q] /\ ask'[c] = q
    BY DEF TakeKey, LadderInv, LadderTyped
  <1> HIDE DEF q
  <1>5. OnItsWay(c)'
    BY <1>1, <1>2, <1>3, <1>4 DEF OnItsWay, TakeKey
  <1> QED
    BY <1>3, <1>4, <1>5, OneQuestion DEF TakeKey

\* A run on an engine that stands gives rows of its corpus; what a run on a
\* closed one gives is marked as that.
LEMMA LadderRuns ==
    ASSUME LadderInv, NEW c \in Caller, RunEngine(c) PROVE LadderInv'
  <1>1. ask[c] \in Question /\ OnItsWay(c) /\ ask[c].at = "run"
    BY DEF LadderInv, LadderTyped, RunEngine
  <1>2. PlaneOf[ask[c].face] # "drifted" \/ ask[c].face = "none"
    BY <1>1 DEF OnItsWay
  <1>3. CASE ask' = Leaves(c, "cold") \/ ask' = Leaves(c, "raised")
    BY <1>2, <1>3, LeavesWell DEF RunEngine
  <1>4. ASSUME NEW of \in Key \cup {NoKey}, NEW rows \in 0 .. NRows, NEW fr \in BOOLEAN,
               ask' = [ask EXCEPT ![c] = [ask[c] EXCEPT !.at = "rows", !.cursor = "open",
                                            !.left = rows, !.rowsOf = of, !.freed = fr]],
               fr => ask[c].engine \notin openNow,
               ~fr => rows = NRows /\ of = corpus[ask[c].engine]
        PROVE  LadderInv'
    <2> DEFINE q == [ask[c] EXCEPT !.at = "rows", !.cursor = "open", !.left = rows,
                                   !.rowsOf = of, !.freed = fr]
    <2>1. /\ q \in Question /\ q.at = "rows" /\ q.key = ask[c].key /\ q.face = ask[c].face
          /\ q.root = ask[c].root /\ q.meant = ask[c].meant /\ q.crossed = ask[c].crossed
          /\ q.cursor = "open" /\ q.engine = ask[c].engine
          /\ q.left = rows /\ q.got = ask[c].got /\ q.stats = ask[c].stats
          /\ q.rowsOf = of /\ q.freed = fr
      <3>1. "rows" \in {"idle", "plane", "key", "engine", "run", "rows", "cold", "raised"}
            /\ "open" \in {"none", "open", "closed"}
        OBVIOUS
      <3>2. q \in Question
        BY ZenonT(60), <1>1, <3>1 DEF Question
      <3> QED
        BY <1>1, <3>2 DEF Question
    <2>2. ask' = [ask EXCEPT ![c] = q] /\ ask'[c] = q
      BY <1>4 DEF LadderInv, LadderTyped
    <2> HIDE DEF q
    <2>3. OnItsWay(c)'
      <3>1. /\ ask[c].face \in Face /\ ask[c].root \in Root /\ ask[c].meant \in Dir
            /\ ask[c].got = 0 /\ ask[c].engine \in 1 .. openedRows
            /\ ~ask[c].crossed /\ ~raced =>
                 corpus[ask[c].engine] = [dir |-> ask[c].meant, root |-> ask[c].root]
        BY <1>1 DEF OnItsWay
      <3>2. rows + 0 <= NRows /\ (~fr => rows + 0 = NRows)
        BY <1>4, LadderAssumption
      <3>3. UNCHANGED <<openedRows, openNow, corpus, raced>>
        BY DEF RunEngine
      <3> QED
        BY <1>2, <1>4, <2>1, <2>2, <3>1, <3>2, <3>3 DEF OnItsWay
    <2> QED
      BY <2>1, <2>2, <2>3, OneQuestion DEF RunEngine
  <1>5. ask[c].freed = FALSE
    BY <1>1 DEF OnItsWay, Question
  <1>6. CASE /\ ask[c].engine \in openNow
             /\ ask' = [ask EXCEPT ![c].at = "rows", ![c].cursor = "open", ![c].left = NRows,
                                   ![c].rowsOf = corpus[ask[c].engine]]
    <2>1. corpus[ask[c].engine] \in Key \cup {NoKey} /\ NRows \in 0 .. NRows
      BY <1>1, LadderAssumption DEF LadderInv, LadderTyped, OnItsWay
    <2>2. ask' = [ask EXCEPT ![c] = [ask[c] EXCEPT !.at = "rows", !.cursor = "open",
                    !.left = NRows, !.rowsOf = corpus[ask[c].engine], !.freed = FALSE]]
      <3>1. [ask[c] EXCEPT !.at = "rows", !.cursor = "open", !.left = NRows,
                           !.rowsOf = corpus[ask[c].engine], !.freed = FALSE]
            = [ask[c] EXCEPT !.at = "rows", !.cursor = "open", !.left = NRows,
                             !.rowsOf = corpus[ask[c].engine]]
        BY <1>1, <1>5 DEF Question
      <3> QED
        BY <1>6, <3>1 DEF LadderInv, LadderTyped
    <2> QED
      BY <1>4, <2>1, <2>2
  <1>7. ASSUME ask[c].engine \notin openNow, NEW rows \in 0 .. NRows,
               ask' = [ask EXCEPT ![c].at = "rows", ![c].cursor = "open", ![c].left = rows,
                                  ![c].rowsOf = NoKey, ![c].freed = TRUE]
        PROVE  LadderInv'
    <2>1. ask' = [ask EXCEPT ![c] = [ask[c] EXCEPT !.at = "rows", !.cursor = "open",
                    !.left = rows, !.rowsOf = NoKey, !.freed = TRUE]]
      BY <1>7 DEF LadderInv, LadderTyped
    <2> QED
      BY <1>4, <1>7, <2>1
  <1> QED
    BY <1>3, <1>6, <1>7 DEF RunEngine

(* Rows.close keeps the count of rows, and what it read of the counters.   *)
LEMMA LadderCloses ==
    ASSUME LadderInv, NEW c \in Caller, NEW state \in {"rows", "raised"},
           ask[c].at = "rows", ask[c].cursor = "open", ask' = ClosedRows(c, state),
           UNCHANGED <<cwd, planes, engines, openedRows, openNow, corpus, raced>>
    PROVE  LadderInv'
  <1> DEFINE f == ask[c].face
             l == ask[c].left
             g == ask[c].got
             fr == ask[c].freed
             st == SnapshotRows(c)
             q == [NoAsk EXCEPT !.at = state, !.face = f, !.cursor = "closed",
                                !.stats = st, !.left = l, !.got = g, !.freed = fr]
  <1>1. /\ NoAsk \in Question /\ f \in Face \cup {"none"} /\ l \in 0 .. NRows /\ g \in 0 .. NRows
        /\ st \in {"early", "final"} /\ (l = 0 => st = "final") /\ l + g <= NRows
        /\ fr \in BOOLEAN /\ (~fr => l + g = NRows)
        /\ (f # "none" => PlaneOf[f] # "drifted")
    <2>1. ask[c] \in Question /\ OnItsWay(c)
      BY DEF LadderInv, LadderTyped
    <2> QED
      BY <2>1, LadderAssumption DEF NoAsk, Question, OnItsWay, SnapshotRows
  <1>2. ask' = [ask EXCEPT ![c] = q] /\ ask'[c] = q
    BY DEF ClosedRows, LadderInv, LadderTyped
  <1> HIDE DEF f, l, g, st, fr
  <1>3. q \in Question
    <2>1. state \in {"idle", "plane", "key", "engine", "run", "rows", "cold", "raised"}
      OBVIOUS
    <2> QED
      BY ZenonT(60), <1>1, <2>1, LadderAssumption DEF Question, NoAsk
  <1>4. /\ q.at = state /\ q.face = f /\ q.cursor = "closed" /\ q.stats = st
        /\ q.left = l /\ q.got = g /\ q.freed = fr
    BY DEF NoAsk
  <1> HIDE DEF q
  <1>5. OnItsWay(c)'
    BY <1>1, <1>2, <1>4 DEF OnItsWay
  <1> QED
    BY <1>2, <1>3, <1>5, OneQuestion

\* Pulling a row neither loses one nor gives one twice.
LEMMA LadderPulls ==
    ASSUME LadderInv, NEW c \in Caller, NEW n \in 1 .. NRows, Pull(c, n) PROVE LadderInv'
  <1> DEFINE l == ask[c].left
             g == ask[c].got
             took == IF l < n THEN l ELSE n
  <1>1. /\ ask[c] \in Question /\ OnItsWay(c) /\ ask[c].at = "rows" /\ ask[c].cursor = "open"
        /\ l \in 0 .. NRows /\ g \in 0 .. NRows /\ l + g <= NRows
        /\ (~ask[c].freed => l + g = NRows)
    BY DEF LadderInv, LadderTyped, Question, Pull, OnItsWay
  <1>2. ask' = IF took = 0 THEN ClosedRows(c, "rows")
               ELSE [ask EXCEPT ![c].left = l - took, ![c].got = g + took]
    BY DEF Pull, LadderInv, LadderTyped
  <1>3. CASE took = 0
    BY <1>1, <1>2, <1>3, LadderCloses DEF Pull
  <1>4. CASE took # 0
    <2> DEFINE q == [ask[c] EXCEPT !.left = l - took, !.got = g + took]
    <2>1. /\ l - took \in 0 .. NRows /\ g + took \in 0 .. NRows
          /\ (l - took) + (g + took) = l + g
      <3> HIDE DEF l, g
      <3> QED
        BY <1>1, LadderAssumption
    <2>2. ask' = [ask EXCEPT ![c] = q] /\ ask'[c] = q
      <3> HIDE DEF took
      <3> QED
        BY <1>2, <1>4 DEF LadderInv, LadderTyped
    <2> HIDE DEF took, l, g
    <2>3. /\ q \in Question /\ q.at = "rows" /\ q.key = ask[c].key /\ q.face = ask[c].face
          /\ q.root = ask[c].root /\ q.meant = ask[c].meant /\ q.crossed = ask[c].crossed
          /\ q.cursor = "open" /\ q.engine = ask[c].engine
          /\ q.left = l - took /\ q.got = g + took /\ q.stats = ask[c].stats
          /\ q.rowsOf = ask[c].rowsOf /\ q.freed = ask[c].freed
      BY <1>1, <2>1 DEF Question
    <2> HIDE DEF q
    <2>4. OnItsWay(c)'
      <3>1. /\ q.left + q.got <= NRows /\ (~q.freed => q.left + q.got = NRows)
            /\ UNCHANGED <<openedRows, openNow, corpus, raced>>
        BY <1>1, <2>1, <2>3 DEF Pull
      <3> QED
        BY <1>1, <2>2, <2>3, <3>1 DEF OnItsWay
    <2> QED
      BY <2>2, <2>3, <2>4, OneQuestion DEF Pull
  <1> QED
    BY <1>3, <1>4

\* An engine is taken from the cache or opened, and the oldest is evicted
\* (analytic._engine).
LEMMA LadderEngines ==
    ASSUME LadderInv, NEW c \in Caller, Engine(c) PROVE LadderInv'
  <1>1. /\ ask[c] \in Question /\ OnItsWay(c) /\ ask[c].at = "engine" /\ cwd \in Dir
        /\ ask[c].key \in Key /\ ask[c].root \in Root
        /\ (ask[c].face # "none" => PlaneOf[ask[c].face] # "drifted")
        /\ openedRows \in 0 .. MaxOpened
    BY DEF LadderInv, LadderTyped, OnItsWay, Engine
  <1>2. UNCHANGED <<cwd, planes, raced>>
    BY DEF Engine
  <1> DEFINE q(e) == [ask[c] EXCEPT !.engine = e, !.at = "run"]
  <1>3. ASSUME NEW e \in 1 .. MaxOpened
        PROVE  /\ q(e) \in Question /\ q(e).at = "run" /\ q(e).engine = e
               /\ q(e).key = ask[c].key /\ q(e).face = ask[c].face
               /\ q(e).root = ask[c].root /\ q(e).meant = ask[c].meant
               /\ q(e).crossed = ask[c].crossed /\ q(e).cursor = ask[c].cursor
               /\ q(e).left = ask[c].left /\ q(e).got = ask[c].got
               /\ q(e).stats = ask[c].stats /\ q(e).rowsOf = ask[c].rowsOf
               /\ q(e).freed = ask[c].freed
    <2>1. e \in 0 .. MaxOpened
      BY LadderAssumption
    <2> QED
      BY <1>1, <2>1 DEF Question
  (* The cache has one.                                                    *)
  <1>4. ASSUME NEW i \in CachedEngine(c),
               ask' = [ask EXCEPT ![c].engine = engines[i].engine, ![c].at = "run"],
               UNCHANGED <<engines, openedRows, openNow, corpus>>
        PROVE  LadderInv'
    <2> DEFINE e == engines[i].engine
    <2>1. /\ i \in 1 .. Len(engines) /\ engines[i].key = ask[c].key
          /\ e \in 1 .. openedRows /\ (~raced => corpus[e] = ask[c].key)
      BY DEF CachedEngine, LadderInv, EnginesTrue
    <2>2. e \in 1 .. MaxOpened
      BY <1>1, <2>1, LadderAssumption
    <2>3. ask' = [ask EXCEPT ![c] = q(e)] /\ ask'[c] = q(e)
      BY <1>4 DEF LadderInv, LadderTyped
    <2> HIDE DEF e
    <2>4. ~ask[c].crossed /\ ~raced => corpus[e] = [dir |-> ask[c].meant, root |-> ask[c].root]
      BY <1>1, <2>1 DEF OnItsWay, Key
    <2>5. OnItsWay(c)'
      <3> HIDE DEF q
      <3>1. /\ q(e).at = "run" /\ q(e).engine = e /\ q(e).face = ask[c].face
            /\ q(e).root = ask[c].root /\ q(e).meant = ask[c].meant
            /\ q(e).crossed = ask[c].crossed /\ q(e).cursor = ask[c].cursor
            /\ q(e).left = ask[c].left /\ q(e).got = ask[c].got
            /\ q(e).stats = ask[c].stats /\ q(e).rowsOf = ask[c].rowsOf
            /\ q(e).freed = ask[c].freed
        BY <1>3, <2>2
      <3>2. ask'[c] = q(e)
        BY <2>3
      <3> HIDE DEF q
      <3>3. ~ask'[c].crossed /\ ~raced' =>
              corpus'[ask'[c].engine] = [dir |-> ask'[c].meant, root |-> ask'[c].root]
        BY <1>2, <1>4, <2>4, <3>1, <3>2
      <3>4. ask'[c].engine \in 1 .. openedRows'
        BY <1>4, <2>1, <3>1, <3>2
      <3>5. ask'[c].face \in Face /\ ask'[c].root \in Root /\ ask'[c].meant \in Dir
            /\ ask'[c].got = 0 /\ ask'[c].cursor = "none" /\ ~ask'[c].freed
        BY <1>1, <3>1, <3>2 DEF OnItsWay
      <3> QED
        BY <1>1, <3>1, <3>2, <3>3, <3>4, <3>5 DEF OnItsWay
    <2> HIDE DEF q
    <2> QED
      BY <1>2, <1>3, <1>4, <2>2, <2>3, <2>5, OneQuestion
  (* One is opened, the oldest closed when the cache is full.              *)
  <1>5. CASE /\ openedRows < MaxOpened
             /\ LET full == Len(engines) >= MaxEngines
                    new  == openedRows + 1
                IN  /\ engines' = Append(IF full THEN Tail(engines) ELSE engines,
                                         [key |-> ask[c].key, engine |-> new])
                    /\ openNow' = (IF full THEN openNow \ {Head(engines).engine} ELSE openNow)
                                  \cup {new}
                    /\ openedRows' = new
                    /\ corpus' = [corpus EXCEPT ![new] = [dir |-> cwd, root |-> ask[c].root]]
                    /\ ask' = [ask EXCEPT ![c].engine = new, ![c].at = "run"]
    <2> DEFINE new == openedRows + 1
               entry == [key |-> ask[c].key, engine |-> new]
               kept == IF Len(engines) >= MaxEngines THEN Tail(engines) ELSE engines
               whence == [dir |-> cwd, root |-> ask[c].root]
               Entry == [key : Key, engine : 1 .. MaxOpened]
    <2>1. /\ new \in 1 .. MaxOpened /\ openedRows \in Nat /\ new > openedRows
          /\ openedRows' = new /\ engines' = Append(kept, entry)
          /\ corpus' = [corpus EXCEPT ![new] = whence]
          /\ ask' = [ask EXCEPT ![c] = q(new)]
      <3>1. /\ openedRows' = new /\ engines' = Append(kept, entry)
            /\ corpus' = [corpus EXCEPT ![new] = whence]
            /\ ask' = [ask EXCEPT ![c].engine = new, ![c].at = "run"]
        BY <1>5
      <3>2. new \in 1 .. MaxOpened /\ openedRows \in Nat /\ new > openedRows
        BY <1>1, <1>5, LadderAssumption
      <3> HIDE DEF new
      <3>3. ask' = [ask EXCEPT ![c] = q(new)]
        BY <3>1 DEF LadderInv, LadderTyped
      <3> HIDE DEF kept, entry, whence, q
      <3> QED
        BY <3>1, <3>2, <3>3
    <2>2. whence \in Key /\ corpus \in [1 .. MaxOpened -> Key \cup {NoKey}]
      BY <1>1 DEF Key, LadderInv, LadderTyped
    <2>3. /\ kept \in Seq(Entry) /\ Len(kept) < MaxEngines
          /\ \A i \in 1 .. Len(kept) : \E h \in 1 .. Len(engines) : kept[i] = engines[h]
      <3>1. engines \in Seq(Entry) /\ Len(engines) <= MaxEngines
        BY DEF LadderInv, LadderTyped
      <3> HIDE DEF Entry
      <3>2. CASE Len(engines) >= MaxEngines
        <4>1. engines # <<>>
          BY <3>1, <3>2, LadderAssumption
        <4>2. /\ Tail(engines) \in Seq(Entry) /\ Len(Tail(engines)) = Len(engines) - 1
              /\ \A i \in 1 .. Len(Tail(engines)) : Tail(engines)[i] = engines[i + 1]
          BY <3>1, <4>1
        <4>3. \A i \in 1 .. Len(Tail(engines)) : i + 1 \in 1 .. Len(engines)
          BY <3>1, <4>2
        <4> QED
          BY <3>1, <3>2, <4>2, <4>3, LadderAssumption
      <3>3. CASE ~(Len(engines) >= MaxEngines)
        BY <3>1, <3>3, LadderAssumption
      <3> QED
        BY <3>2, <3>3
    <2>4. entry \in Entry /\ entry.key = ask[c].key /\ entry.engine = new
      BY <1>1, <2>1
    <2> HIDE DEF kept, entry, whence, Entry, new
    <2>5. /\ engines' \in Seq(Entry) /\ Len(engines') <= MaxEngines
          /\ \A i \in 1 .. Len(engines') :
               engines'[i] = entry \/ \E h \in 1 .. Len(engines) : engines'[i] = engines[h]
      <3>1. /\ Append(kept, entry) \in Seq(Entry) /\ Len(Append(kept, entry)) = Len(kept) + 1
            /\ \A i \in 1 .. Len(kept) + 1 : 
                  Append(kept, entry)[i] = IF i <= Len(kept) THEN kept[i] ELSE entry
            /\ Len(kept) \in Nat
        BY <2>3, <2>4
      <3>2. ASSUME NEW i \in 1 .. Len(kept) + 1
            PROVE  Append(kept, entry)[i] = entry \/ i \in 1 .. Len(kept)
        BY <3>1
      <3> QED
        BY <2>1, <2>3, <3>1, <3>2, LadderAssumption
    <2>6. /\ corpus' \in [1 .. MaxOpened -> Key \cup {NoKey}] /\ corpus'[new] = whence
          /\ \A e \in 1 .. openedRows : corpus'[e] = corpus[e]
      <3>1. \A e \in 1 .. openedRows : e # new
        BY <2>1
      <3> QED
        BY <2>1, <2>2, <3>1
    <2>7. openNow' \subseteq 1 .. openedRows'
      <3>1. openNow' \subseteq openNow \cup {new} /\ openNow \subseteq 1 .. openedRows
        BY <1>5 DEF LadderInv, LadderTyped, new
      <3>2. 1 .. openedRows \subseteq 1 .. new /\ new \in 1 .. new
        BY <2>1, LadderAssumption
      <3> QED
        BY <2>1, <3>1, <3>2
    <2>8. LadderTyped'
      <3>1. ask' \in [Caller -> Question]
        <4> HIDE DEF q
        <4> QED
          BY <1>3, <2>1 DEF LadderInv, LadderTyped
      <3>2. openedRows' \in 0 .. MaxOpened
        BY <2>1, LadderAssumption
      <3> QED
        BY <1>2, <2>5, <2>6, <2>7, <3>1, <3>2 DEF LadderInv, LadderTyped, Entry
    <2>9. PlanesTrue'
      BY <1>2 DEF LadderInv, PlanesTrue
    <2>10. ~raced => whence = ask[c].key
      BY <1>1 DEF OnItsWay, whence, Key
    <2>11. EnginesTrue'
      <3>1. ASSUME NEW i \in 1 .. Len(engines')
            PROVE  /\ engines'[i].engine \in 1 .. openedRows'
                   /\ ~raced' => corpus'[engines'[i].engine] = engines'[i].key
        <4>1. CASE engines'[i] = entry
          BY <1>2, <2>1, <2>4, <2>6, <2>10, <4>1
        <4>2. CASE engines'[i] # entry
          <5>1. PICK h \in 1 .. Len(engines) : engines'[i] = engines[h]
            BY <2>5, <4>2
          <5>2. /\ engines[h].engine \in 1 .. openedRows
                /\ ~raced => corpus[engines[h].engine] = engines[h].key
            BY DEF LadderInv, EnginesTrue
          <5>3. engines[h].engine \in 1 .. new
            BY <2>1, <5>2
          <5> QED
            BY <1>2, <2>1, <2>6, <5>1, <5>2, <5>3
        <4> QED
          BY <4>1, <4>2
      <3> QED
        BY <3>1 DEF EnginesTrue
    <2>14. CacheIsLatest'
      <3> DEFINE n == Len(engines)
                 k == Len(kept)
                 shift == openedRows - k
      <3>1. CacheIsLatest /\ n \in Nat /\ n <= MaxEngines
        BY DEF LadderInv, LadderTyped
      <3>2. /\ k \in Nat /\ k < MaxEngines /\ k <= openedRows
            /\ k < openedRows => k + 1 = MaxEngines
            /\ \A i \in 1 .. k : kept[i].engine = shift + i
            /\ \A e \in 1 .. openedRows : e \in openNow' <=> e > shift
        <4>1. engines \in Seq([key : Key, engine : 1 .. MaxOpened])
          BY DEF LadderInv, LadderTyped
        <4>2. CASE n >= MaxEngines
          <5>1. kept = Tail(engines) /\ engines # <<>> /\ n = MaxEngines
            BY <3>1, <4>1, <4>2, LadderAssumption DEF kept
          <5>2. /\ k = n - 1 /\ \A i \in 1 .. k : kept[i] = engines[i + 1]
                /\ Head(engines) = engines[1]
            BY <4>1, <5>1
          <5>3. Head(engines).engine = openedRows - n + 1
            BY <3>1, <5>1, <5>2, LadderAssumption DEF CacheIsLatest
          <5>4. openNow' = (openNow \ {Head(engines).engine}) \cup {new}
            BY <1>5, <4>2 DEF new
          <5>5. \A i \in 1 .. k : kept[i].engine = shift + i
            <6> SUFFICES ASSUME NEW i \in 1 .. k PROVE kept[i].engine = shift + i
              OBVIOUS
            <6>1. i + 1 \in 1 .. n /\ kept[i] = engines[i + 1]
              BY <3>1, <5>2
            <6>2. engines[i + 1].engine = openedRows - n + (i + 1)
              BY <3>1, <6>1 DEF CacheIsLatest
            <6> QED
              BY <2>1, <3>1, <5>2, <6>1, <6>2
          <5>6. \A e \in 1 .. openedRows : e \in openNow' <=> e > shift
            <6> SUFFICES ASSUME NEW e \in 1 .. openedRows PROVE e \in openNow' <=> e > shift
              OBVIOUS
            <6>1. e \in openNow <=> e > openedRows - n
              BY <3>1 DEF CacheIsLatest
            <6>2. e \in openNow' <=> e \in openNow /\ e # openedRows - n + 1
              BY <2>1, <5>3, <5>4
            <6> QED
              BY <2>1, <3>1, <5>2, <6>1, <6>2
          <5>7. k \in Nat /\ k < MaxEngines /\ k <= openedRows /\ k + 1 = MaxEngines
            BY <2>1, <3>1, <5>1, <5>2, LadderAssumption DEF CacheIsLatest
          <5> QED
            BY <5>5, <5>6, <5>7
        <4>3. CASE ~(n >= MaxEngines)
          <5>1. kept = engines /\ openNow' = openNow \cup {new}
            BY <1>5, <4>3 DEF kept, new
          <5>2. k = n /\ n = openedRows
            BY <2>1, <3>1, <4>3, <5>1, LadderAssumption DEF CacheIsLatest
          <5>3. \A e \in 1 .. openedRows : e \in openNow' <=> e > shift
            BY <2>1, <3>1, <5>1, <5>2 DEF CacheIsLatest
          <5> QED
            BY <2>1, <3>1, <4>3, <5>1, <5>2, <5>3, LadderAssumption DEF CacheIsLatest
        <4> QED
          BY <4>2, <4>3
      <3>3. /\ Len(engines') = k + 1
            /\ \A i \in 1 .. k + 1 : engines'[i] = IF i <= k THEN kept[i] ELSE entry
        BY <2>1, <2>3, <2>4
      <3>4. new = openedRows + 1 /\ new \in openNow'
        BY <1>5 DEF new
      <3>5. openedRows' - Len(engines') = shift
        BY <2>1, <3>2, <3>3, <3>4
      <3> HIDE DEF k, n
      <3>6. ASSUME NEW i \in 1 .. Len(engines')
            PROVE  engines'[i].engine = shift + i
        <4>1. CASE i <= k
          BY <3>2, <3>3, <4>1
        <4>2. CASE ~(i <= k)
          <5>1. i = k + 1 /\ engines'[i].engine = new
            BY <2>4, <3>2, <3>3, <4>2
          <5> QED
            BY <2>1, <3>2, <3>4, <5>1
        <4> QED
          BY <4>1, <4>2
      <3>7. ASSUME NEW e \in 1 .. openedRows' PROVE e \in openNow' <=> e > shift
        <4>1. CASE e = new
          BY <2>1, <3>2, <3>4, <4>1
        <4>2. CASE e # new
          <5>1. e \in 1 .. openedRows
            BY <2>1, <3>4, <4>2
          <5> QED
            BY <3>2, <5>1
        <4> QED
          BY <4>1, <4>2
      <3>8. Len(engines') <= openedRows' /\ (Len(engines') < openedRows' => Len(engines') = MaxEngines)
        BY <2>1, <3>2, <3>3, <3>4, LadderAssumption
      <3> QED
        BY <3>5, <3>6, <3>7, <3>8 DEF CacheIsLatest
    <2>12. OnItsWay(c)'
      <3>1. ask'[c] = q(new)
        BY <2>1 DEF LadderInv, LadderTyped
      <3>2. ~ask[c].crossed /\ ~raced => whence = [dir |-> ask[c].meant, root |-> ask[c].root]
        BY <1>1, <2>10 DEF OnItsWay, whence
      <3>3. new \in 1 .. new
        BY <2>1
      <3> HIDE DEF q
      <3> QED
        BY <1>1, <1>2, <1>3, <2>1, <2>6, <3>1, <3>2, <3>3 DEF OnItsWay
    <2>13. ASSUME NEW d \in Caller, d # c PROVE OnItsWay(d)'
      <3>1. ask'[d] = ask[d]
        BY <2>1, <2>13 DEF LadderInv, LadderTyped
      <3>2. openedRows' \in 0 .. MaxOpened /\ openedRows <= openedRows'
        BY <2>1, LadderAssumption
      <3>3. \A e \in 1 .. openedRows : e \in openNow' => e \in openNow
        <4>1. openNow' \subseteq openNow \cup {new}
          BY <1>5 DEF new
        <4> QED
          BY <2>1, <4>1
      <3> QED
        BY <1>2, <2>6, <3>1, <3>2, <3>3, OnItsWayCarried
    <2> QED
      BY <2>8, <2>9, <2>11, <2>12, <2>13, <2>14 DEF LadderInv
  (* It could not be opened.                                               *)
  <1>6. CASE ask' = Leaves(c, "cold") /\ UNCHANGED <<engines, openedRows, openNow, corpus>>
    BY <1>1, <1>2, <1>6, LeavesWell
  <1> QED
    BY <1>4, <1>5, <1>6 DEF Engine

\* Every step of the ladder keeps the invariant.
LEMMA LadderStepInv == LadderInv /\ [LadderNext]_ladderVars => LadderInv'
  <1> SUFFICES ASSUME LadderInv, [LadderNext]_ladderVars PROVE LadderInv'
    OBVIOUS
  <1>1. CASE UNCHANGED ladderVars
    <2>1. LadderTyped' /\ PlanesTrue' /\ EnginesTrue' /\ CacheIsLatest'
      BY <1>1 DEF ladderVars, LadderInv, LadderTyped, PlanesTrue, EnginesTrue, CacheIsLatest
    <2>2. \A c \in Caller : OnItsWay(c)'
      BY <1>1 DEF ladderVars, LadderInv, OnItsWay
    <2> QED
      BY <2>1, <2>2 DEF LadderInv
  <1>2. ASSUME NEW c \in Caller, Abandon(c) PROVE LadderInv'
    BY <1>2, LadderCloses DEF Abandon
  <1> QED
    BY <1>1, <1>2, LadderChdir, LadderAnswers, LadderPlanes, LadderTakesKey, LadderEngines,
       LadderRuns, LadderPulls DEF LadderNext

------------------------------------------------------------------------------
\* Seam. A refusal names its own cause, and a two-pass answer is one answer.

\* The strengthening: BlameTrue and AnswerWhole are inductive with the type of
\* the count.
SeamInv == /\ calls \in Nat /\ BlameTrue /\ AnswerWhole

\* Before the first call no slot is in error.
LEMMA SeamInitInv == SeamInit => SeamInv
  BY DEF SeamInit, SeamInv, BlameTrue, AnswerWhole, NoVerb, Untold

(* What is told of a call that failed names that call's own fault, or none.*)
LEMMA CheckTrue ==
    ASSUME calls \in Nat, NEW status \in Status, NEW space \in Spaces, NEW adds \in BOOLEAN, NEW index,
           status \in {"match", "ok", "stale"} => space = "nothing" /\ ~adds
    PROVE  LET fault == LeftBehind(status, space, adds)
               outcome == Check(status, fault, index)
           IN  /\ outcome.fault \in {0, calls + 1}
               /\ outcome.pos => fault = [call |-> calls + 1, at |-> "pattern"]
               /\ outcome.kind = "value" <=> status \in {"match", "ok"}
               /\ outcome.kind = "MemoryError" <=> status = "oom"
               /\ outcome.kind = "error" <=> status \in {"stale", "invalid"}
               /\ outcome.index = IF status \in {"stale", "invalid"} THEN index ELSE ListedAnswers
  <1> DEFINE fault == LeftBehind(status, space, adds)
  <1>1. CASE status \in {"match", "ok"}
    BY <1>1 DEF Check
  <1>2. CASE status = "stale"
    BY <1>2 DEF Check
  <1>3. CASE status \in {"oom", "invalid"}
    <2>1. fault \in {NoFault, [call |-> calls + 1, at |-> space]}
      BY <1>3 DEF LeftBehind
    <2>2. /\ fault.call \in {0, calls + 1}
          /\ fault.at = "pattern" => fault = [call |-> calls + 1, at |-> "pattern"]
      BY <2>1 DEF NoFault
    <2> HIDE DEF fault
    <2> QED
      BY <1>3, <2>2 DEF Check, fault
  <1> QED
    BY <1>1, <1>2, <1>3 DEF Status

\* A compile that fails blames what it failed for (_abi.py, check).
LEMMA SeamCompiles ==
    ASSUME SeamInv, NEW what \in {"one", "set", "needles"}, NEW at \in 0 .. ListedAnswers,
           NEW status \in Status, NEW space \in Spaces, NEW adds \in BOOLEAN,
           Compile(what, status, space, adds, at)
    PROVE  SeamInv'
  <1> DEFINE fault == LeftBehind(status, space, adds)
             plain == Check(status, fault, IF what = "one" THEN ListedAnswers ELSE at)
             refused == Unsupported(IF what = "one" THEN ListedAnswers ELSE at)
  <1>1. /\ compiled' = [verb |-> what, status |-> status, at |-> at, exist |-> 0,
                        hint |-> 0, then |-> 0]
        /\ slot' = fault /\ calls' = calls + 1 /\ calls \in Nat
        /\ status \in {"match", "ok"} => at = ListedAnswers
        /\ what = "one" => at = ListedAnswers
        /\ status \in {"match", "ok", "stale"} => space = "nothing" /\ ~adds
    BY DEF Compile, SeamInv
  <1>2. told' = plain \/ (status = "stale" /\ told' = refused)
    <2>1. told' = CASE what = "one" -> CompileOne(status, fault)
                    [] what = "set" -> CompileSet(status, fault, at)
                    [] OTHER        -> CompileNeedles(status, fault, at)
      BY DEF Compile
    <2>2. at >= ListedAnswers => at = ListedAnswers
      BY SeamAssumption
    <2> HIDE DEF fault
    <2> QED
      BY <2>1, <2>2 DEF CompileOne, CompileSet, CompileNeedles
  <1>3. /\ plain.fault \in {0, calls + 1}
        /\ plain.pos => fault = [call |-> calls + 1, at |-> "pattern"]
        /\ plain.kind = "value" <=> status \in {"match", "ok"}
        /\ plain.kind = "MemoryError" <=> status = "oom"
        /\ plain.kind = "error" <=> status \in {"stale", "invalid"}
        /\ plain.index = IF status \in {"stale", "invalid"} THEN at ELSE ListedAnswers
    BY <1>1, CheckTrue
  <1>4. /\ refused.kind = "UnsupportedPattern" /\ refused.fault = 0 /\ refused.pos = FALSE
        /\ refused.index = at
    BY <1>1 DEF Unsupported
  <1>5. plain.kind \in {"value", "error", "MemoryError"}
    BY <1>3 DEF Status
  <1>6. /\ compiled'.verb = what /\ compiled'.status = status /\ compiled'.at = at
    BY <1>1
  <1> HIDE DEF plain, refused, fault
  <1>7. BlameTrue'
    BY <1>1, <1>2, <1>3, <1>4, <1>5, <1>6 DEF BlameTrue
  <1>8. AnswerWhole'
    BY <1>1, <1>2, <1>3, <1>4, <1>5, <1>6 DEF AnswerWhole
  <1> QED
    BY <1>1, <1>7, <1>8 DEF SeamInv

\* Two passes of a question are of one list (_shape.py, _set.py, _needles.py).
LEMMA SeamAsks ==
    ASSUME SeamInv, NEW verb \in {"rows", "admit", "hits", "which"},
           NEW exist \in 0 .. Rows, NEW later \in 0 .. Rows, NEW hint \in 0 .. Rows,
           NEW status \in Status, NEW space \in Spaces, NEW adds \in BOOLEAN,
           AskRows(verb, status, space, adds, exist, later, hint)
    PROVE  SeamInv'
  <1> DEFINE fault == LeftBehind(status, space, adds)
             plain == Check(status, fault, ListedAnswers)
             window == IF verb = "which" THEN ListedAnswers ELSE hint
  <1>1. /\ compiled' = [verb |-> verb, status |-> status, at |-> ListedAnswers, exist |-> exist,
                        hint |-> window, then |-> later]
        /\ slot' = fault /\ calls' = calls + 1 /\ calls \in Nat
        /\ verb = "which" => exist <= ListedAnswers /\ hint = 0
        /\ exist <= hint => later = exist
        /\ status \in {"match", "ok", "stale"} => space = "nothing" /\ ~adds
        /\ told' = Admitted(verb, status, exist, later, hint, fault)
    BY DEF AskRows, SeamInv
  <1>2. /\ plain.fault \in {0, calls + 1}
        /\ plain.pos => fault = [call |-> calls + 1, at |-> "pattern"]
        /\ plain.kind = "value" <=> status \in {"match", "ok"}
        /\ plain.kind = "MemoryError" <=> status = "oom"
        /\ plain.kind = "error" <=> status \in {"stale", "invalid"}
        /\ plain.index = ListedAnswers
    BY <1>1, CheckTrue
  <1>3. plain.kind \in {"value", "error", "MemoryError"}
    BY <1>2 DEF Status
  <1>4. /\ compiled'.verb = verb /\ compiled'.status = status /\ compiled'.at = ListedAnswers
        /\ compiled'.exist = exist /\ compiled'.hint = window /\ compiled'.then = later
    BY <1>1
  <1>5. exist \in Nat /\ later \in Nat /\ hint \in Nat /\ ListedAnswers \in Nat
    BY SeamAssumption
  <1>6. CASE status = "stale" /\ verb = "admit"
    <2>1. told'.kind = "declined"
      BY <1>1, <1>6 DEF Admitted
    <2> QED
      BY <1>1, <1>4, <1>6, <2>1 DEF SeamInv, BlameTrue, AnswerWhole
  <1>7. CASE ~(status = "stale" /\ verb = "admit") /\ status \notin {"match", "ok"}
    <2>1. told' = plain
      BY <1>1, <1>7 DEF Admitted
    <2> HIDE DEF plain, fault, window
    <2> QED
      BY <1>1, <1>2, <1>3, <1>4, <1>7, <2>1 DEF SeamInv, BlameTrue, AnswerWhole
  <1>8. CASE status \in {"match", "ok"}
    <2>1. told' = CASE verb = "hits"  -> FindHits(exist, later, hint)
                    [] verb = "which" -> Which(exist)
                    [] OTHER          -> Sink(exist, later, hint)
      BY <1>1, <1>8 DEF Admitted
    <2>2. \/ /\ told'.kind = "items"
             /\ \/ told'.got = IF exist <= window THEN exist ELSE later
                \/ verb = "hits" /\ later > exist
          \/ /\ told'.kind = "error" /\ told'.fault = 0 /\ told'.pos = FALSE
             /\ told'.index = ListedAnswers /\ exist > window /\ later > exist
      <3>1. CASE verb = "hits"
        <4>1. told' = FindHits(exist, later, hint)
          BY <2>1, <3>1
        <4> QED
          BY <1>5, <3>1, <4>1 DEF FindHits
      <3>2. CASE verb = "which"
        <4>1. told' = Which(exist)
          BY <2>1, <3>2
        <4> QED
          BY <1>1, <1>5, <3>2, <4>1 DEF Which
      <3>3. CASE verb \in {"rows", "admit"}
        <4>1. told' = Sink(exist, later, hint)
          BY <2>1, <3>3
        <4>2. CASE exist <= hint
          BY <3>3, <4>1, <4>2 DEF Sink
        <4>3. CASE ~(exist <= hint) /\ later <= exist
          BY <3>3, <4>1, <4>3 DEF Sink
        <4>4. CASE ~(exist <= hint) /\ ~(later <= exist)
          BY <1>5, <3>3, <4>1, <4>4 DEF Sink
        <4> QED
          BY <4>2, <4>3, <4>4
      <3> QED
        BY <3>1, <3>2, <3>3
    <2> HIDE DEF plain, fault, window
    <2> QED
      BY <1>1, <1>4, <1>8, <2>2 DEF SeamInv, BlameTrue, AnswerWhole
  <1> QED
    BY <1>6, <1>7, <1>8

\* Every step keeps it.
LEMMA SeamStepInv == SeamInv /\ [SeamNext]_seamVars => SeamInv'
  <1>1. SeamInv /\ UNCHANGED seamVars => SeamInv'
    BY DEF seamVars, SeamInv, BlameTrue, AnswerWhole
  <1> QED
    BY <1>1, SeamCompiles, SeamAsks DEF SeamNext

------------------------------------------------------------------------------
\* Shell. A binary that fails is reported, and the override is the law.

\* A process that ran was run from the rung that was resolved, and its result
\* was taken from what it left.
ShellTyped == /\ place \in Places /\ cached \in Rungs \cup {NoRung} /\ changes \in Nat
              /\ proc = NoProc \/ (proc \in Runs /\ Possible(proc) /\ result = TakenVerb(proc))

\* The strengthening of OverrideRules.
ShellInv == ShellTyped /\ OverrideRules

(* How a run is told: a failure raises, and only an engine that found       *)
(* nothing reads as nothing found.                                         *)
LEMMA TakenLoud ==
    ASSUME NEW r \in Runs, Possible(r)
    PROVE  /\ TakenVerb(r) = "empty" <=> (r.ends \in {"matched", "no match"} /\ ~r.rows)
           /\ TakenVerb(r) = "rows" <=> (r.ends \in {"matched", "no match"} /\ r.rows)
           /\ TakenVerb(r) = "UnsupportedPatternError" => r.reason # "malformed"
  <1>1. r.ends \in Ended /\ r.rows \in BOOLEAN
    BY DEF Runs
  <1>2. Blamed(r) \notin {"empty", "rows"}
        /\ (Blamed(r) = "UnsupportedPatternError" => r.reason # "malformed")
    BY DEF Blamed, Says
  <1>3. CASE r.ends \in {"timeout", "signal"}
    BY <1>3 DEF TakenVerb
  <1>4. CASE r.ends = "error"
    BY <1>2, <1>4 DEF TakenVerb
  <1>5. CASE r.ends \in {"matched", "no match"}
    BY <1>1, <1>5 DEF TakenVerb
  <1> QED
    BY <1>1, <1>3, <1>4, <1>5 DEF Ended

\* What the invariant says is enough for both properties of the shell.
LEMMA ShellInvImplies == ShellInv => FailuresLoud /\ OverrideRules
  BY TakenLoud DEF ShellInv, ShellTyped, FailuresLoud

\* Before the first resolve nothing is cached.
LEMMA ShellInitInv == ShellInit => ShellInv
  BY DEF ShellInit, ShellInv, ShellTyped, OverrideRules

\* Every step keeps it.
LEMMA ShellStepInv == ShellInv /\ [ShellNext]_shellVars => ShellInv'
  <1> SUFFICES ASSUME ShellInv, [ShellNext]_shellVars PROVE ShellInv'
    OBVIOUS
  <1>1. CASE UNCHANGED shellVars
    BY <1>1 DEF shellVars, ShellInv, ShellTyped, OverrideRules, Possible, TakenVerb, Blamed, Says
  <1>2. ASSUME NEW p \in Places, Change(p) PROVE ShellInv'
    <2>1. /\ place' \in Places /\ changes' = changes + 1 /\ changes \in Nat
          /\ UNCHANGED <<cached, proc, result>>
      BY <1>2 DEF Change, ShellInv, ShellTyped
    <2>2. proc' = NoProc \/ (proc' \in Runs /\ Possible(proc') /\ result' = TakenVerb(proc'))
      BY <2>1 DEF ShellInv, ShellTyped
    <2>3. changes' \in Nat /\ changes' # 0
      BY <2>1
    <2>4. OverrideRules'
      BY <2>3 DEF OverrideRules
    <2>5. ShellTyped'
      BY <2>1, <2>2, <2>3 DEF ShellInv, ShellTyped
    <2> QED
      BY <2>4, <2>5 DEF ShellInv
  <1>3. ASSUME NEW r \in Runs, Invoke(r) PROVE ShellInv'
    <2>1. /\ place' \in Places /\ place'.override = place.override
          /\ changes' = changes /\ changes \in Nat
      BY <1>3 DEF Invoke, ShellInv, ShellTyped, Places
    <2>2. Rung \in Rungs \cup {NoRung}
      BY DEF Rung, NextRung, Rungs
    <2>3. cached' \in Rungs \cup {NoRung} /\ (cached' = cached \/ (cached = NoRung /\ cached' = Rung))
      BY <1>3, <2>2 DEF Invoke, ShellInv, ShellTyped
    <2>4. proc' = NoProc \/ (proc' = r /\ Possible(r) /\ result' = TakenVerb(r))
      BY <1>3 DEF Invoke
    <2>5. /\ place.override = "file" => Rung = "override"
          /\ place.override = "no file" => Rung = NoRung
      BY DEF Rung
    <2>6. OverrideRules'
      BY <2>1, <2>3, <2>5 DEF ShellInv, OverrideRules
    <2> QED
      BY <2>1, <2>3, <2>4, <2>6 DEF ShellInv, ShellTyped
  <1> QED
    BY <1>1, <1>2, <1>3 DEF ShellNext

------------------------------------------------------------------------------
\* Narrow. A search that opens few files misses none.

\* What the documents hold.
Tree == [Docs -> Contents \cup {Removed}]

\* What a literal analysis may have found.
Plans == Winnows \cup {NoPlan}

\* A sieve that is open.
Sieves == [open : {TRUE}, built : Tree, at : Nat, home : BOOLEAN, crest : BOOLEAN, no : Nat,
           table : SUBSET Docs]

\* A question under way.
Calls == [step : {"count", "fill", "read", "done", "raised"},
          cap : {Cardinality(S) : S \in SUBSET Docs} \cup {0}, list : SUBSET Docs,
          posture : {"none", "unanchored", "anchored", "foreign"}, dated : BOOLEAN,
          behind : SUBSET Docs]

\* An index is of the tree at a time that has passed, but for what a directory
\* has brought since.
Snapped(built, at, no) ==
  /\ built \in Tree /\ at \in Nat /\ at <= clock /\ no \in Nat /\ no <= builds
  /\ \A d \in Docs : touched[d] < at /\ carried[d] < no => docs[d] = built[d]

\* The types the steps keep.
NarrowTyped ==
  /\ docs \in Tree /\ then \in Tree /\ saw \in Tree /\ clock \in Nat /\ anchor \in Int
  /\ carried \in [Docs -> Nat \cup {NotCarried}] /\ builds \in Nat
  /\ \A d \in Docs : carried[d] <= builds
  /\ touched \in [Docs -> Nat] /\ \A d \in Docs : touched[d] <= clock
  /\ plan \in Plans
  /\ indexing = <<>> \/ Snapped(indexing[1].built, indexing[1].at, indexing[1].no)
  /\ onDisk = <<>> \/ Snapped(onDisk[1].built, onDisk[1].at, onDisk[1].no)
  /\ \/ handle = NoSieve
     \/ /\ handle \in Sieves /\ Snapped(handle.built, handle.at, handle.no)
        /\ {d \in Docs : handle.built[d] # Removed} \subseteq handle.table
  /\ question = <<>> \/ (question = <<question[1]>> /\ question[1] \in Calls)

\* A question that is under way has lost no document that answers it.
Shows(q) ==
  /\ q.step \in {"count", "fill"} => handle.open
  /\ q.step = "read" =>
       IF ~handle.open THEN q.list = Docs
       ELSE IF q.posture # "anchored" THEN q.list = handle.table
       ELSE q.dated => {d \in Docs : MatchesNow(then[d])} \ q.behind \subseteq q.list

\* The one question that may be under way loses none.
Showing == question # <<>> => Shows(question[1])

\* The strengthening: what a search has not opened yet it still will, or it
\* holds no answer.
NarrowInv == NarrowTyped /\ Showing /\ NothingMissed

\* An index of an earlier tree reports every document touched since.
LEMMA SetReports ==
    ASSUME NEW c, plan \in Plans
    PROVE  ReportsSet(c) <=> MatchesNow(c)
  <1>1. CASE Verdict = "exact"
    <2>1. plan.need = {"lit"}
      BY <1>1 DEF Verdict
    <2> QED
      BY <1>1, <2>1 DEF ReportsSet, MatchesNow
  <1>2. CASE Verdict = "candidate" /\ "lit" \notin c
    <2>1. "lit" \in plan.need
      BY <1>2 DEF Verdict
    <2> QED
      BY <1>2, <2>1 DEF ReportsSet, MatchesNow
  <1> QED
    BY <1>1, <1>2 DEF ReportsSet

\* The candidates the index seeds hold every document that had the literal and
\* has not changed.
LEMMA SeedKeeps ==
    ASSUME NarrowTyped, handle.open, NEW d \in Docs,
           handle.built[d] # Removed, MatchesNow(handle.built[d])
    PROVE  d \in Seed
  <1>1. /\ {e \in Docs : handle.built[e] # Removed} \subseteq handle.table
        /\ plan \in Plans
    BY DEF NarrowTyped, NoSieve
  <1>2. /\ plan.lits => "lit" \in plan.need
        /\ plan.swell => "run" \in plan.need
    BY <1>1 DEF Plans, Winnows, NoPlan
  <1>3. d \in Narrowed
    BY <1>1, <1>2 DEF Narrowed, IndexKnows, MatchesNow
  <1>4. ~Prunes(d)
    BY <1>2 DEF Prunes, MatchesNow
  <1> QED
    BY <1>3, <1>4 DEF Seed

\* Reading a list of files keeps each that holds the literal.
LEMMA ListKeeps ==
    ASSUME NarrowTyped, handle.open, Posture = "anchored", anchor <= handle.at
    PROVE  {d \in Docs : MatchesNow(docs[d])} \ BehindIndex \subseteq ReadingList
  <1> SUFFICES ASSUME NEW d \in Docs, MatchesNow(docs[d]), touched[d] < anchor,
                      ~(carried[d] >= handle.no)
               PROVE  d \in Seed
    BY DEF BehindIndex, ReadingList, ChangedSince, PresentNow, MatchesNow, NarrowTyped
  <1>1. Snapped(handle.built, handle.at, handle.no)
    BY DEF NarrowTyped, NoSieve
  <1>2. touched[d] < handle.at /\ carried[d] < handle.no
    BY <1>1 DEF NarrowTyped, Snapped, NotCarried
  <1>3. docs[d] = handle.built[d]
    BY <1>1, <1>2 DEF Snapped
  <1> QED
    BY <1>3, SeedKeeps DEF MatchesNow

\* What the invariant says is NothingMissed.
LEMMA NarrowInvImplies == NarrowInv => NothingMissed
  BY DEF NarrowInv

\* Before the first build there is no index.
LEMMA NarrowInitInv == ASSUME NarrowAssumption, NarrowInit PROVE NarrowInv
  <1>1. docs \in Tree /\ NoDocs \in Tree
    BY DEF NarrowInit, NarrowAssumption, Tree, NoDocs, Removed
  <1>2. /\ touched \in [Docs -> Nat] /\ \A d \in Docs : touched[d] = 0
        /\ carried \in [Docs -> Nat \cup {NotCarried}] /\ builds = 0
        /\ \A d \in Docs : carried[d] <= builds
    BY DEF NarrowInit, NotCarried
  <1>3. Snapped(onDisk[1].built, onDisk[1].at, onDisk[1].no)
    BY <1>1, <1>2 DEF NarrowInit, Snapped
  <1>4. NarrowTyped
    BY <1>1, <1>2, <1>3 DEF NarrowInit, NarrowTyped, Plans
  <1>5. Showing
    BY DEF NarrowInit, Showing
  <1>6. NothingMissed
    BY DEF NarrowInit, NothingMissed, Done, NoSieve
  <1> QED
    BY <1>4, <1>5, <1>6 DEF NarrowInv

(* What the artifacts leave out did not match when they were built. *)
LEMMA CandidatesKeep ==
    NarrowTyped =>
      (handle.open /\ candidates # <<>> =>
         {d \in Docs : IndexKnows(d) /\ MatchesNow(handle.built[d])} \subseteq candidates[1])
  BY SeedKeeps DEF candidates, IndexKnows

(* Nothing is judged before the host has answered. *)
LEMMA Undone == NarrowTyped /\ ~Done => NothingMissed
  BY CandidatesKeep DEF NothingMissed

\* A question that is done is answered.
LEMMA DoneIsAnswered == ASSUME NarrowTyped, Done PROVE Answered
  <1>1. question = <<question[1]>> /\ question[1].step = "done"
    BY DEF NarrowTyped, Done
  <1>2. 1 \in DOMAIN question
    BY <1>1
  <1> QED
    BY <1>1, <1>2 DEF Answered

(* A snapshot stays true of the documents that have not changed since it,  *)
(* unless a directory brought them.                                        *)
LEMMA SnapshotKeeps ==
    ASSUME NarrowTyped, NEW built, NEW at, NEW no, Snapped(built, at, no),
           clock \in Nat, clock' \in Nat, clock <= clock', builds' \in Nat, builds <= builds',
           \A d \in Docs : \/ UNCHANGED <<docs[d], touched[d], carried[d]>>
                           \/ touched'[d] = clock' /\ carried'[d] = carried[d]
                           \/ carried'[d] = builds
    PROVE  Snapped(built, at, no)'
  BY DEF Snapped, NarrowTyped, NotCarried

\* A file that changes, a clock that ticks and a build that runs beside the
\* search keep the invariant.
LEMMA WorldSteps ==
    ASSUME NarrowInv, World
    PROVE  NarrowInv'
  <1>0. NarrowTyped /\ Showing /\ ~Done
    BY DoneIsAnswered DEF NarrowInv, World
  <1>1. question' = question /\ handle' = handle /\ plan' = plan /\ then' = then /\ saw' = saw
    BY DEF World, EditDoc, CarryIn, BuildReads, PublishIndex, WriteAnchor, LoseAnchor
  <1>2. /\ clock' \in Nat /\ clock <= clock' /\ builds' \in Nat /\ builds <= builds'
        /\ touched' \in [Docs -> Nat] /\ docs' \in Tree
        /\ carried' \in [Docs -> Nat \cup {NotCarried}]
        /\ \A d \in Docs : \/ UNCHANGED <<docs[d], touched[d], carried[d]>>
                           \/ touched'[d] = clock' /\ carried'[d] = carried[d]
                           \/ carried'[d] = builds /\ touched'[d] <= clock'
    <2>1. CASE EditDoc
      <3>1. PICK d \in Docs, c \in Contents \cup {Removed} :
              /\ Passes /\ docs' = [docs EXCEPT ![d] = c]
              /\ touched' = [touched EXCEPT ![d] = clock'] /\ UNCHANGED <<carried, builds>>
        BY <2>1 DEF EditDoc
      <3>2. clock' \in Nat /\ clock <= clock'
        BY <1>0, <3>1 DEF Passes, NarrowTyped
      <3> QED
        BY <1>0, <3>1, <3>2 DEF NarrowTyped, Tree
    <2>4. CASE CarryIn
      <3>1. PICK D \in SUBSET {d \in Docs : docs[d] = Removed} :
              \E brings \in [D -> Contents], stamps \in [D -> 0 .. clock] :
                /\ docs' = [d \in Docs |-> IF d \in D THEN brings[d] ELSE docs[d]]
                /\ touched' = [d \in Docs |-> IF d \in D THEN stamps[d] ELSE touched[d]]
                /\ carried' = [d \in Docs |-> IF d \in D THEN builds ELSE carried[d]]
        BY <2>4 DEF CarryIn
      <3>2. PICK brings \in [D -> Contents], stamps \in [D -> 0 .. clock] :
                /\ docs' = [d \in Docs |-> IF d \in D THEN brings[d] ELSE docs[d]]
                /\ touched' = [d \in Docs |-> IF d \in D THEN stamps[d] ELSE touched[d]]
                /\ carried' = [d \in Docs |-> IF d \in D THEN builds ELSE carried[d]]
        BY <3>1
      <3>3. clock' = clock /\ builds' = builds
        BY <2>4 DEF CarryIn
      <3>4. docs' \in Tree
        BY <1>0, <3>2 DEF NarrowTyped, Tree
      <3>5. touched' \in [Docs -> Nat] /\ \A d \in D : touched'[d] <= clock
        BY <1>0, <3>2 DEF NarrowTyped
      <3>6. carried' \in [Docs -> Nat \cup {NotCarried}]
        BY <1>0, <3>2 DEF NarrowTyped
      <3>7. \A d \in Docs : \/ UNCHANGED <<docs[d], touched[d], carried[d]>>
                            \/ carried'[d] = builds /\ touched'[d] <= clock'
        BY <3>2, <3>3, <3>5
      <3> QED
        BY <1>0, <3>3, <3>4, <3>5, <3>6, <3>7 DEF NarrowTyped
    <2>2. CASE BuildReads
      BY <1>0, <2>2 DEF BuildReads, Passes, NarrowTyped
    <2>3. CASE PublishIndex \/ WriteAnchor \/ LoseAnchor
      BY <1>0, <2>3 DEF PublishIndex, WriteAnchor, LoseAnchor, NarrowTyped
    <2> QED
      BY <2>1, <2>2, <2>3, <2>4 DEF World
  <1>3. \A d \in Docs : touched'[d] <= clock' /\ carried'[d] <= builds'
    <2> SUFFICES ASSUME NEW d \in Docs PROVE touched'[d] <= clock' /\ carried'[d] <= builds'
      OBVIOUS
    <2>1. /\ touched[d] \in Nat /\ touched[d] <= clock /\ clock \in Nat /\ builds \in Nat
          /\ carried[d] \in Int /\ carried[d] <= builds
      BY <1>0 DEF NarrowTyped, NotCarried
    <2> QED
      BY <1>2, <2>1
  <1>4. ASSUME NEW built, NEW at, NEW no, Snapped(built, at, no) PROVE Snapped(built, at, no)'
    BY <1>0, <1>2, <1>4, SnapshotKeeps DEF NarrowTyped
  <1>5. indexing' = <<>> \/ Snapped(indexing[1].built, indexing[1].at, indexing[1].no)'
    <2>1. CASE BuildReads
      <3>1. /\ indexing'[1].built = docs /\ indexing'[1].at = clock' /\ docs' = docs
            /\ indexing'[1].no = builds'
        BY <2>1 DEF BuildReads
      <3> QED
        BY <1>2, <3>1 DEF Snapped
    <2>2. CASE WriteAnchor
      BY <2>2 DEF WriteAnchor
    <2>3. CASE EditDoc \/ CarryIn \/ PublishIndex \/ LoseAnchor
      <3>1. indexing' = indexing
        BY <2>3 DEF EditDoc, CarryIn, PublishIndex, LoseAnchor
      <3>2. CASE indexing = <<>>
        BY <3>1, <3>2
      <3>3. CASE Snapped(indexing[1].built, indexing[1].at, indexing[1].no)
        <4>1. Snapped(indexing[1].built, indexing[1].at, indexing[1].no)'
          <5> DEFINE b == indexing[1].built
                     t == indexing[1].at
                     n == indexing[1].no
          <5>1. b' = b /\ t' = t /\ n' = n
            BY <3>1
          <5> QED
            BY <1>4, <3>3, <5>1 DEF Snapped
        <4> QED
          BY <4>1
      <3> QED
        BY <1>0, <3>2, <3>3 DEF NarrowTyped
    <2> QED
      BY <2>1, <2>2, <2>3 DEF World
  <1>6. onDisk' = <<>> \/ Snapped(onDisk[1].built, onDisk[1].at, onDisk[1].no)'
    <2>1. onDisk' = onDisk \/ (indexing # <<>> /\ onDisk' = indexing)
      BY DEF World, EditDoc, CarryIn, BuildReads, PublishIndex, WriteAnchor, LoseAnchor
    <2>2. onDisk' = <<>> \/ Snapped(onDisk'[1].built, onDisk'[1].at, onDisk'[1].no)
      BY <1>0, <2>1 DEF NarrowTyped
    <2> QED
      BY <1>4, <2>2 DEF Snapped
  <1>7. \/ handle' = NoSieve
        \/ /\ handle' \in Sieves /\ Snapped(handle.built, handle.at, handle.no)'
           /\ {d \in Docs : handle'.built[d] # Removed} \subseteq handle'.table
    BY <1>0, <1>1, <1>4 DEF NarrowTyped, Snapped
  <1>8. anchor' \in Int
    <2>1. CASE WriteAnchor
      BY <1>0, <2>1 DEF WriteAnchor, NarrowTyped, Snapped
    <2>2. CASE LoseAnchor
      BY <2>2 DEF LoseAnchor, NoAnchor
    <2> QED
      BY <1>0, <2>1, <2>2 DEF World, EditDoc, CarryIn, BuildReads, PublishIndex, NarrowTyped
  <1>9. NarrowTyped'
    <2>1. then' \in Tree /\ saw' \in Tree /\ plan' \in Plans
      BY <1>0, <1>1 DEF NarrowTyped, Plans
    <2>2. question' = <<>> \/ (question' = <<question'[1]>> /\ question'[1] \in Calls)
      BY <1>0, <1>1 DEF NarrowTyped
    <2> QED
      BY <1>2, <1>3, <1>5, <1>6, <1>7, <1>8, <2>1, <2>2 DEF NarrowTyped, Tree, Plans, Sieves, Calls, Winnows, NoPlan, NoSieve
  <1>10. ~Done' /\ Showing'
    BY <1>0, <1>1 DEF Done, Showing, Shows, MatchesNow
  <1>11. NothingMissed'
    BY <1>9, <1>10, Undone, PTL
  <1> QED
    BY <1>9, <1>10, <1>11 DEF NarrowInv

\* A sieve opens on the index that is on disk, or does without (_sieve.py).
LEMMA SieveOpens ==
    ASSUME NarrowInv, NEW home \in BOOLEAN, NEW crest \in BOOLEAN, OpenSieve(home, crest)
    PROVE  NarrowInv'
  <1>1. /\ question = <<>> /\ question' = <<>> /\ NarrowTyped
        /\ UNCHANGED <<docs, touched, carried, clock, builds, indexing, onDisk, anchor, plan, then, saw>>
    BY DEF OpenSieve, NarrowInv
  <1> DEFINE b == onDisk[1].built
             t == onDisk[1].at
             n == onDisk[1].no
             h == [open |-> TRUE, built |-> b, at |-> t, no |-> n, home |-> home, crest |-> crest,
                   table |-> {d \in Docs : b[d] # Removed}]
  <1>2. handle' = h /\ Snapped(b, t, n)
    BY <1>1 DEF OpenSieve, NarrowTyped
  <1>3. h \in Sieves /\ {d \in Docs : h.built[d] # Removed} \subseteq h.table
    BY <1>2 DEF Sieves, Snapped
  <1>4. Snapped(h.built, h.at, h.no)'
    <2>1. handle'.built = b /\ handle'.at = t /\ handle'.no = n
      BY <1>2
    <2>2. b' = b /\ t' = t /\ n' = n
      BY <1>1
    <2> QED
      BY <1>1, <1>2, <2>2 DEF Snapped
  <1>5. Snapped(handle.built, handle.at, handle.no)'
    <2>1. handle'.built = b /\ handle'.at = t /\ handle'.no = n
      BY <1>2
    <2> QED
      BY <1>1, <1>2, <2>1 DEF Snapped
  <1>6. NarrowTyped'
    BY <1>1, <1>2, <1>3, <1>5 DEF NarrowTyped, Tree, Plans, Sieves, Calls, Winnows, NoPlan, NoSieve, Snapped
  <1>7. ~Done' /\ Showing'
    BY <1>1 DEF Done, Showing
  <1>8. NothingMissed'
    BY <1>6, <1>7, Undone, PTL
  <1> QED
    BY <1>6, <1>7, <1>8 DEF NarrowInv

\* A question starts from the plan of its pattern (_literals.py).
LEMMA AskBegins == ASSUME NarrowInv, BeginAsk PROVE NarrowInv'
  <1>1. /\ question = <<>> /\ NarrowTyped /\ plan' \in Winnows
        /\ then' = (IF handle.open THEN then ELSE docs)
        /\ question' = IF handle.open THEN Listing("count", 0, {}) ELSE Listing("read", 0, Docs)
        /\ UNCHANGED <<docs, touched, carried, clock, builds, indexing, onDisk, anchor, handle, saw>>
    BY DEF BeginAsk, NarrowInv
  <1>2. Posture \in {"unanchored", "anchored", "foreign"}
    BY DEF Posture
  <1>3. CASE handle.open
    <2> DEFINE q == [step |-> "count", cap |-> 0, list |-> {}, posture |-> "none", dated |-> FALSE,
                     behind |-> {}]
    <2>1. question' = <<q>>
      BY <1>1, <1>3 DEF Listing
    <2>2. q \in Calls /\ q.step = "count"
      BY DEF Calls
    <2> HIDE DEF q
    <2>3. NarrowTyped'
      BY <1>1, <2>1, <2>2 DEF NarrowTyped, Plans, Winnows, NoPlan, NoSieve, Snapped
    <2>4. ~Done' /\ Showing'
      BY <1>1, <1>3, <2>1, <2>2 DEF Done, Showing, Shows
    <2>5. NothingMissed'
      BY <2>3, <2>4, Undone, PTL
    <2> QED
      BY <2>3, <2>4, <2>5 DEF NarrowInv
  <1>4. CASE ~handle.open
    <2> DEFINE q == [step |-> "read", cap |-> 0, list |-> Docs, posture |-> Posture,
                     dated |-> TRUE, behind |-> {}]
    <2>1. question' = <<q>>
      BY <1>1, <1>4 DEF Listing, BehindIndex
    <2>2. q \in Calls /\ q.step = "read" /\ q.list = Docs
      BY <1>2 DEF Calls
    <2> HIDE DEF q
    <2>3. NarrowTyped'
      BY <1>1, <2>1, <2>2 DEF NarrowTyped, Plans, Winnows, NoPlan, NoSieve, Snapped
    <2>4. ~Done' /\ Showing'
      BY <1>1, <1>4, <2>1, <2>2 DEF Done, Showing, Shows
    <2>5. NothingMissed'
      BY <2>3, <2>4, Undone, PTL
    <2> QED
      BY <2>3, <2>4, <2>5 DEF NarrowInv
  <1> QED
    BY <1>3, <1>4

(* A filled list holds, of every document it may be asked about, the right  *)
(* ones.                                                                   *)
LEMMA ListFills ==
    ASSUME NarrowTyped, handle.open
    PROVE  /\ ReadingList \subseteq Docs
           /\ Posture # "anchored" => ReadingList = handle.table
           /\ Posture = "anchored" /\ anchor <= handle.at =>
                {d \in Docs : MatchesNow(docs[d])} \ BehindIndex \subseteq ReadingList
  <1>0. handle \in Sieves
    BY DEF NarrowTyped, NoSieve
  <1>1. handle.table \subseteq Docs
    BY <1>0 DEF Sieves
  <1>2. ReadingList \subseteq Docs
    BY <1>1 DEF ReadingList, Seed, Narrowed, ChangedSince, PresentNow
  <1> QED
    BY <1>2, ListKeeps DEF ReadingList

\* Filling the reading list keeps the invariant.
LEMMA ListSteps == ASSUME NarrowInv, reading_list PROVE NarrowInv'
  <1>1. /\ NarrowTyped /\ question # <<>> /\ question[1].step \in {"count", "fill"} /\ handle.open
        /\ then' = docs
        /\ UNCHANGED <<docs, touched, carried, clock, builds, indexing, onDisk, anchor, plan, saw>>
    BY DEF reading_list, NarrowInv, Showing, Shows
  <1> DEFINE size == Cardinality(ReadingList)
             h == [handle EXCEPT !.table = @ \cup ReadingList]
  <1>2. /\ handle' = h /\ handle \in Sieves /\ ReadingList \subseteq Docs
        /\ Snapped(handle.built, handle.at, handle.no)
        /\ {d \in Docs : handle.built[d] # Removed} \subseteq handle.table
    BY <1>1, ListFills DEF reading_list, NarrowTyped, NoSieve
  <1>3. /\ h \in Sieves /\ h.open /\ h.built = handle.built /\ h.at = handle.at /\ h.no = handle.no
        /\ h.table = handle.table \cup ReadingList
    BY <1>2 DEF Sieves
  <1>4. Posture \in {"unanchored", "anchored", "foreign"}
    BY DEF Posture
  <1>5. size \in {Cardinality(S) : S \in SUBSET Docs} \cup {0}
    BY <1>2
  <1>6. (handle.at)' = handle.at /\ (handle.built)' = handle.built /\ (handle.no)' = handle.no
    BY <1>2, <1>3
  <1>7. Snapped(handle.built, handle.at, handle.no)'
    <2>1. Snapped(handle.built, handle.at, handle.no)
      BY <1>2
    <2>2. UNCHANGED <<docs, touched, carried, clock, builds>>
      BY <1>1
    <2> QED
      BY <1>6, <2>1, <2>2 DEF Snapped, Tree
  <1>8. PICK q \in Calls :
          /\ question' = <<q>> /\ q.step \in {"read", "fill", "raised"}
          /\ q.step = "read" => /\ q.list = ReadingList /\ q.posture = Posture
                                /\ q.behind = BehindIndex
                                /\ q.dated => anchor <= handle.at
    <2> HIDE DEF size, h
    <2>1. CASE size <= question[1].cap
      <3> DEFINE q == [step |-> "read", cap |-> size, list |-> ReadingList,
                       posture |-> Posture, dated |-> anchor <= handle.at, behind |-> BehindIndex]
      <3>1. question' = <<q>>
        BY <1>1, <2>1 DEF reading_list, Listing, size
      <3>2. q \in Calls
        BY <1>2, <1>4, <1>5 DEF Calls, BehindIndex
      <3> QED
        BY <3>1, <3>2
    <2>2. CASE ~(size <= question[1].cap)
      <3> DEFINE at == IF question[1].step = "count" THEN "fill" ELSE "raised"
                 q == [step |-> at, cap |-> size, list |-> {}, posture |-> "none", dated |-> FALSE,
                       behind |-> {}]
      <3>1. question' = Listing(at, size, {}) /\ at \in {"fill", "raised"}
        BY <2>2 DEF reading_list, size
      <3> HIDE DEF at
      <3>2. question' = <<q>>
        BY <3>1 DEF Listing
      <3>3. q \in Calls
        BY <1>5, <3>1 DEF Calls
      <3> QED
        BY <3>1, <3>2, <3>3
    <2> QED
      BY <2>1, <2>2
  <1> HIDE DEF size, h
  <1>9. NarrowTyped'
    <2>1. {d \in Docs : (handle.built)'[d] # Removed} \subseteq handle'.table
      BY <1>2, <1>3, <1>6
    <2>2. handle' \in Sieves
      BY <1>2, <1>3
    <2>3. question' = <<question'[1]>> /\ question'[1] \in Calls
      BY <1>8
    <2> QED
      BY <1>1, <1>7, <2>1, <2>2, <2>3 DEF NarrowTyped, Tree, Plans, Sieves, Calls, Winnows, NoPlan, Snapped
  <1>10. ~Done' /\ Showing'
    <2>1. Done' = FALSE /\ (question # <<>>)' /\ question'[1] = q
      BY <1>8 DEF Done
    <2>2. ASSUME q.step = "read", Posture # "anchored" PROVE q.list = handle'.table
      BY <1>1, <1>2, <1>3, <1>8, <2>2, ListFills
    <2>3. ASSUME q.step = "read", Posture = "anchored", q.dated
          PROVE  {d \in Docs : MatchesNow(docs[d])} \ q.behind \subseteq q.list
      <3>1. q.list = ReadingList /\ q.behind = BehindIndex /\ anchor <= handle.at
        BY <1>8, <2>3
      <3>2. {d \in Docs : MatchesNow(docs[d])} \ BehindIndex \subseteq ReadingList
        BY <1>1, <2>3, <3>1, ListFills
      <3> QED
        BY <3>1, <3>2
    <2>4. \A d \in Docs : MatchesNow(then[d])' <=> MatchesNow(docs[d])
      BY <1>1 DEF MatchesNow
    <2>5. handle'.open
      BY <1>2, <1>3
    <2> QED
      BY <1>8, <2>1, <2>2, <2>3, <2>4, <2>5 DEF Showing, Shows
  <1>11. NothingMissed'
    BY <1>9, <1>10, Undone, PTL
  <1> QED
    BY <1>9, <1>10, <1>11 DEF NarrowInv

\* Reading a document decides it.
LEMMA HostReads == ASSUME NarrowInv, ReadDoc PROVE NarrowInv'
  <1>1. /\ NarrowTyped /\ question # <<>> /\ question[1].step = "read" /\ saw' = docs
        /\ found' = {d \in question[1].list : ReportsSet(docs[d])}
        /\ UNCHANGED <<docs, touched, carried, clock, builds, indexing, onDisk, anchor, handle, plan, then>>
    BY DEF ReadDoc, NarrowInv
  <1>2. question[1] \in Calls
    BY <1>1 DEF NarrowTyped
  <1> DEFINE was == question[1]
             q == [was EXCEPT !.step = "done", !.cap = 0, !.list = {}]
  <1>3. question' = <<q>> /\ q \in Calls /\ q.step = "done"
        /\ q.posture = was.posture /\ q.dated = was.dated /\ q.behind = was.behind
    BY <1>2 DEF ReadDoc, Calls
  <1>4. /\ was.list \subseteq Docs /\ Shows(was)
    BY <1>1, <1>2 DEF Calls, NarrowInv, Showing
  <1>13. question' = <<question'[1]>> /\ question'[1] = q
    BY <1>3
  <1> HIDE DEF q, was
  <1>5. NarrowTyped'
    <2>1. question' = <<question'[1]>> /\ question'[1] \in Calls
      BY <1>3, <1>13
    <2>2. /\ NarrowTyped /\ saw' = docs
          /\ UNCHANGED <<docs, touched, carried, clock, builds, indexing, onDisk, anchor, handle, plan, then>>
      BY <1>1
    <2> QED
      BY <2>1, <2>2 DEF NarrowTyped, Tree, Plans, Sieves, Calls, Winnows, NoPlan, NoSieve, Snapped
  <1>6. Showing'
    BY <1>3 DEF Showing, Shows
  <1>7. found' = {d \in was.list : MatchesNow(docs[d])}
    BY <1>1, SetReports DEF NarrowTyped, was
  <1>8. /\ Missed' = {d \in Docs : then[d] = docs[d] /\ MatchesNow(docs[d])} \ found'
        /\ \A d \in Docs : MatchesNow(saw[d])' <=> MatchesNow(docs[d])
        /\ candidates' = candidates
        /\ \A d \in Docs : MatchesNow(handle.built[d])' <=> MatchesNow(handle.built[d])
        /\ \A d \in Docs : IndexKnows(d)' <=> IndexKnows(d)
    BY <1>1 DEF Missed, MatchesNow, IndexKnows, candidates, Seed, Narrowed, Prunes
  <1>9. found' \subseteq {d \in Docs : MatchesNow(saw[d])'}
    BY <1>4, <1>7, <1>8
  <1>10. CASE ~handle.open
    <2>1. Missed' = {}
      BY <1>1, <1>4, <1>7, <1>8, <1>10 DEF Shows, was
    <2> QED
      BY <1>1, <1>5, <1>6, <1>9, <1>10, <2>1 DEF NothingMissed, NarrowInv
  <1>11. ASSUME handle.open, q.posture # "anchored" PROVE Missed' \cap handle'.table = {}
    BY <1>1, <1>3, <1>4, <1>7, <1>8, <1>11 DEF Shows, was
  <1>12. ASSUME handle.open, q.posture = "anchored", q.dated PROVE Missed' \subseteq q.behind
    BY <1>1, <1>3, <1>4, <1>7, <1>8, <1>12 DEF Shows, MatchesNow, was
  <1>14. CASE handle.open
    <2>1. (handle.open /\ candidates # <<>> =>
             {d \in Docs : IndexKnows(d) /\ MatchesNow(handle.built[d])} \subseteq candidates[1])'
      BY <1>5, CandidatesKeep, PTL
    <2>2. (Done => IF ~handle.open THEN Missed = {}
                   ELSE IF question[1].posture # "anchored" THEN Missed \cap handle.table = {}
                   ELSE question[1].dated => Missed \subseteq question[1].behind)'
      BY <1>1, <1>11, <1>12, <1>13, <1>14
    <2>3. (Done => found \subseteq {d \in Docs : MatchesNow(saw[d])})'
      BY <1>9
    <2>4. NothingMissed'
      BY <2>1, <2>2, <2>3 DEF NothingMissed
    <2> QED
      BY <1>5, <1>6, <2>4 DEF NarrowInv
  <1> QED
    BY <1>10, <1>14

\* Every step keeps the invariant.
LEMMA NarrowStepInv == NarrowInv /\ [NarrowNext]_narrowVars => NarrowInv'
  <1> SUFFICES ASSUME NarrowInv, [NarrowNext]_narrowVars PROVE NarrowInv'
    OBVIOUS
  <1>1. CASE UNCHANGED narrowVars
    <2>1. NarrowTyped'
      BY <1>1 DEF narrowVars, NarrowInv, NarrowTyped, Snapped
    <2>2. Showing'
      BY <1>1 DEF narrowVars, NarrowInv, Showing, Shows, MatchesNow
    <2>3. /\ Missed' = Missed /\ Done' = Done /\ candidates' = candidates
          /\ question' = question /\ handle' = handle /\ found' = found
          /\ \A d \in Docs : IndexKnows(d)' <=> IndexKnows(d)
      BY <1>1 DEF narrowVars, Missed, MatchesNow, Done, candidates, Seed, Narrowed, Prunes, IndexKnows
    <2>4. \A d \in Docs : /\ MatchesNow(saw[d])' <=> MatchesNow(saw[d])
                          /\ MatchesNow(handle.built[d])' <=> MatchesNow(handle.built[d])
      BY <1>1 DEF narrowVars, MatchesNow
    <2>5. NothingMissed'
      BY <2>3, <2>4 DEF NarrowInv, NothingMissed
    <2> QED
      BY <2>1, <2>2, <2>5 DEF NarrowInv
  <1> QED
    BY <1>1, WorldSteps, SieveOpens, AskBegins, ListSteps, HostReads DEF NarrowNext

------------------------------------------------------------------------------
\* Abi. The library that answers is the one that was chosen, and agrees with
\* the declarations.

\* A library came out of the search.
Loaded == library \notin {"none", "error"}

\* The library was the operator's if he named one and the nearest otherwise,
\* and every symbol that is bound was declared by the plane that owns it
\* before it was called.
AbiInv ==
  /\ site \in Worlds /\ route \in [Symbol -> {"unbound", "native", "ctypes"}]
  /\ Loaded => library = LibraryPath /\ library # "missing" /\ site.abi = "same"
  /\ \A s \in Symbol : route[s] # "unbound" =>
       /\ Loaded /\ Complete(AbiPlaneOf[s])
       /\ route[s] = "native" <=> s \in pointers

\* What the invariant says is enough for ChosenLibrary.
LEMMA AbiInvImplies == AbiInv => ChosenLibrary
  <1> SUFFICES ASSUME AbiInv PROVE ChosenLibrary
    OBVIOUS
  <1>1. Loaded => /\ site.override # "unset" => library = "override"
                  /\ site.override # "file" => library # "override"
    BY DEF AbiInv, LibraryPath, Worlds
  <1> QED
    BY <1>1 DEF AbiInv, ChosenLibrary, Loaded, Complete

\* Before the first import nothing is bound.
LEMMA AbiInitInv == AbiInit => AbiInv
  BY DEF AbiInit, AbiInv, Loaded

\* Opening a plane declares what it binds, or fails and binds nothing
\* (_abi.py, load).
LEMMA PlaneBinds ==
    ASSUME AbiInv, NEW p, Complete(p), Bound(p), UNCHANGED site,
           Loaded', library' = LibraryPath, library' # "missing", site.abi = "same"
    PROVE  AbiInv'
  <1> DEFINE held == pointers \cup (ExtrasOf(p) \cap site.accel)
  <1>1. /\ pointers' = held /\ site' = site /\ LibraryPath' = LibraryPath
        /\ route' = [s \in Symbol |-> IF s \in ExtrasOf(p) THEN Transport(s, held) ELSE route[s]]
    BY DEF Bound, LibraryPath
  <1>2. \A s \in Symbol : s \in ExtrasOf(p) <=> AbiPlaneOf[s] = p
    BY DEF ExtrasOf
  <1>3. \A q : Complete(q)' <=> Complete(q)
    BY <1>1 DEF Complete
  <1> HIDE DEF held
  <1>4. \A s \in Symbol : Transport(s, held) \in {"native", "ctypes"}
                          /\ (Transport(s, held) = "native" <=> s \in held)
    BY DEF Transport
  <1>5. route' \in [Symbol -> {"unbound", "native", "ctypes"}]
    BY <1>1, <1>4 DEF AbiInv
  <1>6. \A s \in Symbol : s \notin ExtrasOf(p) => (s \in held <=> s \in pointers)
    BY DEF held
  <1>7. ASSUME NEW s \in Symbol, route'[s] # "unbound"
        PROVE  Loaded' /\ Complete(AbiPlaneOf[s])' /\ (route'[s] = "native" <=> s \in pointers')
    <2>1. CASE s \in ExtrasOf(p)
      BY <1>1, <1>2, <1>3, <1>4, <2>1
    <2>2. CASE s \notin ExtrasOf(p)
      <3>1. route'[s] = route[s]
        BY <1>1, <2>2
      <3> QED
        BY <1>1, <1>3, <1>6, <1>7, <2>2, <3>1 DEF AbiInv
    <2> QED
      BY <2>1, <2>2
  <1>8. site' \in Worlds
    BY <1>1 DEF AbiInv
  <1> QED
    BY <1>1, <1>5, <1>7, <1>8 DEF AbiInv

\* Every step of _abi.py keeps it.
LEMMA AbiStepInv == AbiInv /\ [AbiNext]_abiVars => AbiInv'
  <1> SUFFICES ASSUME AbiInv, [AbiNext]_abiVars PROVE AbiInv'
    OBVIOUS
  <1>1. CASE UNCHANGED abiVars
    BY <1>1 DEF abiVars, AbiInv, Loaded, LibraryPath, Complete
  <1>2. CASE Import
    <2>1. CASE LibraryPath = "missing" \/ ~site.loads \/ ~Complete(First) \/ site.abi = "other"
      <3>1. library' = "error" /\ UNCHANGED <<site, pointers, route>> /\ ~Loaded
        BY <1>2, <2>1 DEF Import, Loaded
      <3> QED
        BY <3>1 DEF AbiInv, Loaded
    <2>2. CASE ~(LibraryPath = "missing" \/ ~site.loads \/ ~Complete(First) \/ site.abi = "other")
      <3>1. library' = LibraryPath /\ Bound(First) /\ UNCHANGED site
        BY <1>2, <2>2 DEF Import
      <3>2. LibraryPath \in {"override", "bundled", "built"}
        BY <2>2 DEF LibraryPath
      <3>3. site.abi = "same"
        BY <2>2 DEF AbiInv, Worlds
      <3> QED
        BY <2>2, <3>1, <3>2, <3>3, PlaneBinds DEF Loaded
    <2> QED
      BY <2>1, <2>2
  <1>3. ASSUME NEW p \in Planes, ImportPlane(p) PROVE AbiInv'
    BY <1>3, PlaneBinds DEF ImportPlane, AbiInv, Loaded
  <1> QED
    BY <1>1, <1>2, <1>3 DEF AbiNext

------------------------------------------------------------------------------
\* Decode. A row is the same row over either transport, and every row of a
\* schema is of one class.

\* a class rows of a schema may be made of
SuitsSchema(c, s) == /\ SchemaNames(s) \subseteq c.names
                     /\ Optional(s) \subseteq c.defaulted \cup c.absent

\* The strengthening: the class a schema's rows are made of is decided once
\* and stays.
DecInv ==
    /\ TransportsAgree
    /\ DOMAIN bound = Schema /\ DOMAIN decoded = Schema
    /\ \A s \in Schema :
          /\ \A c, d \in bound[s] : c = d
          /\ decoded[s] \subseteq bound[s]
          /\ bound[s] # {} => s \in fieldNames \/ decoded[s] # {}
          /\ s \in mixins => s \notin fieldNames
          /\ \A c \in bound[s] : SuitsSchema(c, s) /\ (s \in mixins => c.grafted)

\* What the invariant says is enough for both properties.
LEMMA DecInvImplies == DecInv => TransportsAgree /\ OneClass
  <1> SUFFICES ASSUME DecInv PROVE OneClass
    BY DEF DecInv
  <1>1. ASSUME NEW s \in Schema
        PROVE  /\ Cardinality(decoded[s]) <= 1
               /\ \A c \in decoded[s] : SuitsSchema(c, s) /\ (s \in mixins => c.grafted)
    <2>1. decoded[s] = {} \/ \E c : decoded[s] = {c}
      <3>1. \A c, d \in decoded[s] : c = d
        BY DEF DecInv
      <3> QED
        BY <3>1
    <2>2. Cardinality(decoded[s]) <= 1
      <3>1. Cardinality({}) = 0 /\ \A c : Cardinality({c}) = 1
        BY FS_EmptySet, FS_Singleton
      <3> QED
        BY <2>1, <3>1
    <2> QED
      BY <2>2 DEF DecInv
  <1> QED
    BY <1>1 DEF OneClass, SuitsSchema

\* Before the first row no class is bound.
LEMMA DecInitInv == DecodeInit => DecInv
  BY DEF DecodeInit, DecInv, TransportsAgree

\* The class found for a schema has its fields, and is the one already bound.
LEMMA RowTypeSuits ==
    ASSUME DecInv, NEW s \in Schema
    PROVE  /\ SuitsSchema(row_type(s), s)
           /\ s \in mixins => row_type(s).grafted
           /\ bound[s] # {} => bound[s] = {row_type(s)}
  <1>1. CASE bound[s] # {}
    <2>1. PICK c : bound[s] = {c}
      <3>1. PICK c : c \in bound[s]
        BY <1>1
      <3>2. bound[s] = {c}
        BY <3>1 DEF DecInv
      <3> QED
        BY <3>2
    <2>2. row_type(s) = c
      BY <1>1, <2>1 DEF row_type
    <2> QED
      BY <2>1, <2>2 DEF DecInv
  <1>2. CASE bound[s] = {}
    <2>1. row_type(s) = Generated(s)
      BY <1>2 DEF row_type
    <2>2. /\ Generated(s).names = SchemaNames(s)
          /\ Generated(s).defaulted = Optional(s)
          /\ s \in mixins => Generated(s).grafted
      BY DEF Generated
    <2> QED
      BY <1>2, <2>1, <2>2 DEF SuitsSchema
  <1> QED
    BY <1>1, <1>2

\* A field of a record is the row's own, or what stands for one that is
\* absent.
LEMMA RecordReads ==
    ASSUME NEW s \in Schema, NEW row, NEW r \in record(s, row), NEW i \in FieldNos(s)
    PROVE  /\ row[i] = "absent" => r[i] \in {"default", "stand-in", "empty"}
           /\ row[i] # "absent" => /\ r[i] = Coerced(SchemaFields[s][i].tag, row[i])
                                   /\ Coerced(SchemaFields[s][i].tag, row[i]) # "refused"
  <1> DEFINE tag(k) == SchemaFields[s][k].tag
  <1>1. /\ r = [k \in FieldNos(s) |-> IF row[k] = "absent" THEN Absent(s, SchemaFields[s][k])
                                      ELSE Coerced(tag(k), row[k])]
        /\ ~\E k \in FieldNos(s) : row[k] # "absent" /\ Coerced(tag(k), row[k]) = "refused"
    BY DEF record
  <1>2. r[i] = IF row[i] = "absent" THEN Absent(s, SchemaFields[s][i]) ELSE Coerced(tag(i), row[i])
    BY <1>1
  <1>3. Absent(s, SchemaFields[s][i]) \in {"default", "stand-in", "empty"}
    BY DEF Absent
  <1> QED
    BY <1>1, <1>2, <1>3

\* Under its mask a native row is what was measured: every position has its
\* own bit.
LEMMA MaskIsMeasured ==
    ASSUME NEW s \in Schema, NEW measured \in Measurements[s]
    PROVE  masked(Packed(s, measured)) = measured
  <1> DEFINE row == Packed(s, measured)
  <1>1. \A i \in FieldNos(s) : i \in Int
    BY DEF FieldNos
  <1>2. \A i \in FieldNos(s) : i - 1 \in row.present <=> measured[i] # "absent"
    BY <1>1 DEF Packed
  <1>3. /\ DOMAIN row.values = FieldNos(s)
        /\ \A i \in FieldNos(s) : measured[i] # "absent" => row.values[i] = measured[i]
    BY DEF Packed
  <1>4. masked(row) = [i \in FieldNos(s) |-> IF i - 1 \in row.present THEN row.values[i] ELSE "absent"]
    BY <1>3 DEF masked
  <1> HIDE DEF row
  <1>5. masked(row) = [i \in FieldNos(s) |-> measured[i]]
    BY <1>2, <1>3, <1>4
  <1>6. measured = [i \in FieldNos(s) |-> measured[i]]
    BY DEF Measurements
  <1> QED
    BY <1>5, <1>6 DEF row

\* A row read over either transport is one row.
LEMMA MeasurementsAgree ==
    ASSUME DecInv, NEW s \in Schema, AskRow(s) PROVE TransportsAgree'
  <1>1. PICK measured \in Measurements[s] :
           last' = [schema |-> s, measured |-> measured,
                    native |-> record(s, masked(Packed(s, measured))),
                    cold |-> record(s, ColdRow(s, measured))]
    BY DEF AskRow
  <1> DEFINE fields == FieldNos(s)
             Tag(i) == SchemaFields[s][i].tag
             native == record(s, measured)
             colder == ColdRow(s, measured)
             cold   == record(s, colder)
  <1>2. /\ last'.schema = s /\ last'.measured = measured /\ last'.native = native /\ last'.cold = cold
    BY <1>1, MaskIsMeasured
  <1>3. \A i \in fields : colder[i] =
          CASE Tag(i) \in {"texts", "rows"} /\ measured[i] = "absent" -> "empty"
            [] Tag(i) = "texts" /\ measured[i] = "wrong" -> "some"
            [] Tag(i) = "rows" /\ measured[i] = "lone"   -> "some"
            [] Tag(i) = "enum" /\ measured[i] = "wrong"  -> "new"
            [] OTHER -> measured[i]
    BY DEF ColdRow
  <1>4. measured = [i \in fields |-> measured[i]]
        /\ \A i \in fields : measured[i] \in Values(Tag(i))
    BY DEF Measurements
  <1>5. ASSUME \A i \in fields : /\ Tag(i) \in {"texts", "rows"} => measured[i] \in {"empty", "some"}
                                 /\ Tag(i) = "enum" => measured[i] # "wrong"
        PROVE  native = cold
    <2>1. \A i \in fields : colder[i] = measured[i]
      <3> SUFFICES ASSUME NEW i \in fields PROVE colder[i] = measured[i]
        OBVIOUS
      <3> HIDE DEF colder
      <3> QED
        BY <1>3, <1>5
    <2>2. colder = measured
      <3>1. colder = [i \in fields |-> colder[i]]
        BY DEF ColdRow
      <3> HIDE DEF colder
      <3> QED
        BY <1>4, <2>1, <3>1
    <2> QED
      BY <2>2
  <1>6. ASSUME NEW r \in native \cup cold, NEW i \in fields, measured[i] = "absent"
        PROVE  r[i] \in {"default", "stand-in", "empty"}
    <2>1. CASE r \in native
      BY <1>6, <2>1, RecordReads
    <2>2. CASE r \in cold
      <3>1. colder[i] = "absent" \/ colder[i] = "empty"
        BY <1>3, <1>6
      <3>2. Coerced(Tag(i), "empty") = "empty"
        BY DEF Coerced
      <3> HIDE DEF colder
      <3>3. /\ colder[i] = "absent" => r[i] \in {"default", "stand-in", "empty"}
            /\ colder[i] # "absent" => r[i] = Coerced(Tag(i), colder[i])
        BY <2>2, RecordReads
      <3> QED
        BY <3>1, <3>2, <3>3
    <2> QED
      BY <1>6, <2>1, <2>2
  <1>7. ASSUME NEW r \in native, NEW i \in fields, measured[i] \in {"wrong", "lone"}
        PROVE  Tag(i) \in {"text", "bool"}
    <2>1. Coerced(Tag(i), measured[i]) # "refused"
      BY <1>7, RecordReads
    <2> QED
      BY <1>7, <2>1 DEF Coerced
  <1> HIDE DEF native, cold
  <1> QED
    BY <1>2, <1>5, <1>6, <1>7 DEF TransportsAgree

\* Every step keeps the invariant.
LEMMA DecStepInv == DecInv /\ [DecodeNext]_decodeVars => DecInv'
  <1> SUFFICES ASSUME DecInv, [DecodeNext]_decodeVars PROVE DecInv'
    OBVIOUS
  <1>1. CASE UNCHANGED decodeVars
    BY <1>1 DEF decodeVars, DecInv, TransportsAgree
  <1>2. ASSUME NEW s \in Schema, Unused(s), mixin(s) PROVE DecInv'
    <2>1. bound[s] = {}
      BY <1>2 DEF DecInv, Unused
    <2>2. TransportsAgree'
      BY <1>2 DEF mixin, DecInv, TransportsAgree
    <2> QED
      BY <1>2, <2>1, <2>2 DEF mixin, DecInv
  <1>3. ASSUME NEW s \in Schema, Unused(s), NEW hand \in HandMade, bind(s, hand) PROVE DecInv'
    <2>1. TransportsAgree'
      BY <1>3 DEF bind, DecInv, TransportsAgree
    <2>2. SuitsSchema(hand, s)
      BY <1>3 DEF bind, Fits, SuitsSchema
    <2>3. /\ DOMAIN bound' = Schema /\ bound'[s] = {hand}
          /\ \A t \in Schema \ {s} : bound'[t] = bound[t]
          /\ fieldNames' = fieldNames \cup {s} /\ UNCHANGED <<mixins, decoded>>
          /\ s \notin mixins /\ decoded[s] = {}
      BY <1>3 DEF bind, DecInv, Unused
    <2> QED
      BY <2>1, <2>2, <2>3 DEF DecInv
  <1>4. ASSUME NEW s \in Schema, AskRow(s) PROVE DecInv'
    <2>1. TransportsAgree'
      BY <1>4, MeasurementsAgree
    <2>2. /\ DOMAIN bound' = Schema /\ bound'[s] = {row_type(s)}
          /\ \A t \in Schema \ {s} : bound'[t] = bound[t]
          /\ DOMAIN decoded' = Schema /\ decoded'[s] = decoded[s] \cup {row_type(s)}
          /\ \A t \in Schema \ {s} : decoded'[t] = decoded[t]
          /\ UNCHANGED <<mixins, fieldNames>>
      BY <1>4 DEF AskRow, DecInv
    <2>3. /\ SuitsSchema(row_type(s), s) /\ (s \in mixins => row_type(s).grafted)
          /\ decoded[s] \subseteq {row_type(s)}
      BY RowTypeSuits DEF DecInv
    <2> DEFINE c == row_type(s)
    <2> HIDE DEF c
    <2> QED
      BY <2>1, <2>2, <2>3 DEF DecInv, c
  <1> QED
    BY <1>1, <1>2, <1>3, <1>4 DEF DecodeNext

------------------------------------------------------------------------------
\* Grades. A stronger score has no weaker grade, on whatever channel and
\* whatever the cuts are.

\* The grades whose cut admits a score.
Admitting(c, s) == IF s = NaN THEN {} ELSE {i \in 1 .. 4 : \E cut \in Bands(c)[i] : Admits(c, s, cut)}

\* what a row was scored from
OfRow(r) ==
    \/ pairwise(channel) /\ \E m, n \in Measures : r.pair = <<m, n>> /\ r.score = score(channel, m, n)
    \/ ~pairwise(channel) /\ r.score \in Measures \cup {NaN}

\* The strengthening: what is scored was scored on the channel that is asked.
GradesInv ==
    /\ channel \in Channels \cup {""}
    /\ channel = "" => scored = {}
    /\ \A r \in scored : r.grade = grade_of(channel, r.score) /\ OfRow(r)

\* The ranks are the places in the list of grades.
LEMMA RankOf == \A i \in 1 .. 5 : rank(Grade[i]) = i
  <1> SUFFICES ASSUME NEW i \in 1 .. 5 PROVE rank(Grade[i]) = i
    OBVIOUS
  <1>1. DOMAIN Grade = 1 .. 5
    BY DEF Grade
  <1>2. \A j \in 1 .. 5 : Grade[j] = Grade[i] => j = i
    BY DEF Grade
  <1>3. rank(Grade[i]) \in DOMAIN Grade /\ Grade[rank(Grade[i])] = Grade[i]
    <2>1. \E j \in DOMAIN Grade : Grade[j] = Grade[i]
      BY <1>1
    <2> HIDE DEF Grade
    <2> QED
      BY <2>1 DEF rank
  <1> QED
    BY <1>1, <1>2, <1>3

\* A grade is the first that admits the score.
LEMMA GradeRanks ==
    ASSUME NEW c, NEW s
    PROVE  /\ rank(grade_of(c, s)) \in 1 .. 5
           /\ Admitting(c, s) = {} => rank(grade_of(c, s)) = 5 /\ grade_of(c, s) = "none"
           /\ Admitting(c, s) # {} => rank(grade_of(c, s)) \in Admitting(c, s)
           /\ \A j \in Admitting(c, s) : rank(grade_of(c, s)) <= j
  <1> DEFINE fits == Admitting(c, s)
             i == CHOOSE i \in fits : \A j \in fits : i <= j
  <1>1. grade_of(c, s) = IF fits = {} THEN "none" ELSE Grade[i]
    BY DEF grade_of, Admitting
  <1>2. fits \subseteq 1 .. 4
    BY DEF Admitting
  <1>3. CASE fits = {}
    <2>1. grade_of(c, s) = Grade[5] /\ grade_of(c, s) = "none"
      BY <1>1, <1>3 DEF Grade
    <2>2. rank(grade_of(c, s)) = 5
      <3>1. rank(Grade[5]) = 5
        BY RankOf
      <3>2. grade_of(c, s) = Grade[5]
        BY <2>1
      <3> QED
        BY <3>1, <3>2
    <2> QED
      BY <1>3, <2>1, <2>2
  <1>4. CASE fits # {}
    <2>1. \E k \in fits : \A j \in fits : k <= j
      <3> HIDE DEF fits
      <3>1. \A j \in fits : j \in {1, 2, 3, 4}
        BY <1>2
      <3>2. CASE 1 \in fits
        BY <3>1, <3>2
      <3>3. CASE 1 \notin fits /\ 2 \in fits
        BY <3>1, <3>3
      <3>4. CASE 1 \notin fits /\ 2 \notin fits /\ 3 \in fits
        BY <3>1, <3>4
      <3>5. CASE 1 \notin fits /\ 2 \notin fits /\ 3 \notin fits
        BY <1>4, <3>1, <3>5
      <3> QED
        BY <3>2, <3>3, <3>4, <3>5
    <2>2. i \in fits /\ \A j \in fits : i <= j
      <3> HIDE DEF fits
      <3> QED
        BY <2>1
    <2> HIDE DEF i
    <2>3. grade_of(c, s) = Grade[i] /\ i \in 1 .. 5
      BY <1>1, <1>2, <1>4, <2>2
    <2>4. rank(grade_of(c, s)) = i
      BY <2>3, RankOf
    <2> QED
      BY <1>4, <2>2, <2>3, <2>4
  <1> QED
    BY <1>3, <1>4

\* What more grades admit is graded no lower.
LEMMA MoreAdmitted ==
    ASSUME NEW c, NEW s, NEW d, NEW t, Admitting(d, t) \subseteq Admitting(c, s)
    PROVE  rank(grade_of(c, s)) <= rank(grade_of(d, t))
  <1>1. /\ rank(grade_of(c, s)) \in 1 .. 5 /\ rank(grade_of(d, t)) \in 1 .. 5
        /\ Admitting(d, t) = {} => rank(grade_of(d, t)) = 5
        /\ Admitting(d, t) # {} => rank(grade_of(d, t)) \in Admitting(d, t)
        /\ \A j \in Admitting(c, s) : rank(grade_of(c, s)) <= j
    BY GradeRanks
  <1> QED
    BY <1>1

\* A cut is a number, never nan.
LEMMA CutsAreNumbers == \A c \in Channels, i \in 1 .. 4 : \A cut \in Bands(c)[i] : cut \in 0 .. 100
  <1> SUFFICES ASSUME NEW c \in Channels PROVE \A i \in 1 .. 4 : \A cut \in Bands(c)[i] : cut \in 0 .. 100
    OBVIOUS
  <1>1. \A i \in 1 .. 4 : i \in {1, 2, 3, 4}
    OBVIOUS
  <1>2. CASE c = "twins"
    BY <1>1, <1>2 DEF Bands
  <1>3. CASE c = "recall"
    BY <1>1, <1>3 DEF Bands
  <1>4. CASE c = "context"
    BY <1>1, <1>4 DEF Bands
  <1>5. CASE c \notin {"twins", "recall", "context"}
    BY <1>1, <1>5 DEF Bands
  <1> QED
    BY <1>2, <1>3, <1>4, <1>5

\* So is a pair's score.
LEMMA ScoreIsNumber ==
    ASSUME NEW m \in Measures, NEW n \in Measures
    PROVE  /\ m \in 0 .. 100 /\ n \in 0 .. 100
           /\ \A c \in Channels : pairwise(c) => score(c, m, n) \in Int /\ score(c, m, n) # NaN
  <1>1. m \in 0 .. 100 /\ n \in 0 .. 100
    BY GradesAssumption
  <1>2. ASSUME NEW c \in Channels, pairwise(c) PROVE score(c, m, n) \in Int /\ score(c, m, n) # NaN
    <2>1. CASE c = "copies"
      BY <1>1, <2>1 DEF score, pairwise, NaN
    <2>2. CASE c = "shapes"
      BY <1>1, <2>2 DEF score, pairwise, NaN
    <2>3. CASE c = "twins"
      BY <1>1, <2>3 DEF score, pairwise, NaN
    <2>4. CASE c \notin {"copies", "shapes", "twins"}
      BY <1>1, <1>2, <2>4 DEF score, pairwise, NaN
    <2> QED
      BY <2>1, <2>2, <2>3, <2>4
  <1> QED
    BY <1>1, <1>2

\* A stronger score is admitted wherever a weaker one is.
LEMMA StrongerAdmits ==
    ASSUME NEW c \in Channels, NEW s \in Int, NEW t \in Int, s # NaN,
           IF quantity(c) = "distance" THEN s < t ELSE s > t
    PROVE  Admitting(c, t) \subseteq Admitting(c, s)
  <1>1. higher_is_stronger(c) <=> quantity(c) # "distance"
    BY DEF higher_is_stronger, quantity, Metric
  <1>2. ASSUME NEW cut \in 0 .. 100, Admits(c, t, cut) PROVE Admits(c, s, cut)
    BY <1>1, <1>2 DEF Admits
  <1>3. ASSUME NEW i \in Admitting(c, t) PROVE i \in Admitting(c, s)
    <2>1. t # NaN /\ i \in 1 .. 4 /\ \E cut \in Bands(c)[i] : Admits(c, t, cut)
      BY <1>3 DEF Admitting
    <2>2. PICK cut \in Bands(c)[i] : Admits(c, t, cut)
      BY <2>1
    <2>3. cut \in 0 .. 100
      BY <2>1, <2>2, CutsAreNumbers
    <2>4. Admits(c, s, cut)
      BY <1>2, <2>2, <2>3
    <2> QED
      BY <2>1, <2>2, <2>4 DEF Admitting
  <1> QED
    BY <1>3

\* What is close on one channel is as close on any.
LEMMA CloseIsCloseOnAny ==
    ASSUME NEW c \in {"copies", "shapes"}, NEW m \in Measures, NEW n \in Measures
    PROVE  Admitting(c, score(c, m, n)) \subseteq Admitting("any", score("any", m, n))
  <1> DEFINE s == score(c, m, n)
             a == score("any", m, n)
  <1>1. c \in Channels /\ "any" \in Channels /\ pairwise(c) /\ pairwise("any")
    BY DEF Channels, Metric, pairwise
  <1>2. s \in Int /\ a \in Int /\ s # NaN /\ a # NaN
    BY <1>1, ScoreIsNumber
  <1>3. a <= s
    <2>1. m \in 0 .. 100 /\ n \in 0 .. 100
      BY ScoreIsNumber
    <2>2. a = IF m < n THEN m ELSE n
      BY <1>1 DEF score, pairwise
    <2>3. s = m \/ s = n
      BY DEF score, pairwise
    <2> QED
      BY <2>1, <2>2, <2>3
  <1>4. Bands(c) = Bands("any") /\ ~higher_is_stronger(c) /\ ~higher_is_stronger("any")
    BY DEF Bands, higher_is_stronger
  <1> HIDE DEF s, a
  <1>5. ASSUME NEW i \in Admitting(c, s) PROVE i \in Admitting("any", a)
    <2>1. i \in 1 .. 4 /\ \E cut \in Bands(c)[i] : Admits(c, s, cut)
      BY <1>5 DEF Admitting
    <2>2. PICK cut \in Bands(c)[i] : Admits(c, s, cut)
      BY <2>1
    <2>3. cut \in 0 .. 100
      BY <1>1, <2>1, <2>2, CutsAreNumbers
    <2>4. Admits("any", a, cut)
      BY <1>2, <1>3, <1>4, <2>2, <2>3 DEF Admits
    <2> QED
      BY <1>2, <1>4, <2>1, <2>2, <2>4 DEF Admitting
  <1> QED
    BY <1>5 DEF s, a

\* What the invariant says is enough for GradesFollowScores.
LEMMA GradesInvImplies == GradesInv => GradesFollowScores
  <1> SUFFICES ASSUME GradesInv, NEW r \in scored, NEW q \in scored
               PROVE  /\ r.score # NaN /\ q.score # NaN /\ Stronger(r.score, q.score) =>
                            \A i \in DOMAIN Grade : meets(q.grade, Grade[i]) => meets(r.grade, Grade[i])
                      /\ r.score = NaN => r.grade = "none"
                      /\ channel \in {"copies", "shapes"} =>
                            meets(grade_of("any", score("any", r.pair[1], r.pair[2])), r.grade)
                      /\ channel = "twins" /\ r.pair = <<0, 0>> => r.grade = "none"
    BY DEF GradesFollowScores
  <1>1. /\ channel \in Channels
        /\ r.grade = grade_of(channel, r.score) /\ OfRow(r)
        /\ q.grade = grade_of(channel, q.score) /\ OfRow(q)
    BY DEF GradesInv
  <1>2. ASSUME NEW x \in scored, x.score # NaN PROVE x.score \in Int
    <2>1. OfRow(x)
      BY DEF GradesInv
    <2>2. CASE pairwise(channel)
      BY <1>1, <2>1, <2>2, ScoreIsNumber DEF OfRow
    <2>3. CASE ~pairwise(channel)
      BY <1>2, <2>1, <2>3, GradesAssumption DEF OfRow
    <2> QED
      BY <2>2, <2>3
  <1>3. ASSUME r.score # NaN, q.score # NaN, Stronger(r.score, q.score), NEW i \in DOMAIN Grade,
               meets(q.grade, Grade[i])
        PROVE  meets(r.grade, Grade[i])
    <2>1. Admitting(channel, q.score) \subseteq Admitting(channel, r.score)
      BY <1>1, <1>2, <1>3, StrongerAdmits DEF Stronger
    <2>2. rank(r.grade) <= rank(q.grade)
      BY <1>1, <2>1, MoreAdmitted
    <2>3. rank(r.grade) \in 1 .. 5 /\ rank(q.grade) \in 1 .. 5
      BY <1>1, GradeRanks
    <2>4. rank(Grade[i]) = i /\ i \in 1 .. 5
      BY RankOf DEF Grade
    <2> QED
      BY <1>3, <2>2, <2>3, <2>4 DEF meets
  <1>4. r.score = NaN => r.grade = "none"
    BY <1>1, GradeRanks DEF Admitting
  <1>5. ASSUME channel \in {"copies", "shapes"}
        PROVE  meets(grade_of("any", score("any", r.pair[1], r.pair[2])), r.grade)
    <2>1. PICK m \in Measures, n \in Measures : r.pair = <<m, n>> /\ r.score = score(channel, m, n)
      BY <1>1, <1>5 DEF OfRow, pairwise
    <2>2. rank(grade_of("any", score("any", m, n))) <= rank(grade_of(channel, score(channel, m, n)))
      BY <1>5, CloseIsCloseOnAny, MoreAdmitted
    <2>3. r.pair[1] = m /\ r.pair[2] = n
      BY <2>1
    <2> QED
      BY <1>1, <2>1, <2>2, <2>3 DEF meets
  <1>6. ASSUME channel = "twins", r.pair = <<0, 0>> PROVE r.grade = "none"
    <2>1. r.score = 0
      <3>1. PICK m \in Measures, n \in Measures : r.pair = <<m, n>> /\ r.score = score(channel, m, n)
        BY <1>1, <1>6 DEF OfRow, pairwise
      <3>2. m = 0 /\ n = 0
        BY <1>6, <3>1
      <3> QED
        BY <1>6, <3>1, <3>2 DEF score, pairwise
    <2>2. Admitting("twins", 0) = {}
      <3>1. \A i \in 1 .. 4 : \A cut \in Bands("twins")[i] : cut > 0
        <4>1. Bands("twins") = <<{}, {45}, {30}, {15}>> /\ \A i \in 1 .. 4 : i \in {1, 2, 3, 4}
          BY DEF Bands
        <4> QED
          BY <4>1
      <3>2. \A i \in 1 .. 4 : \A cut \in Bands("twins")[i] : ~Admits("twins", 0, cut)
        <4>1. "twins" \in Channels
          BY DEF Channels, Metric
        <4>2. \A cut \in 0 .. 100 : cut > 0 => ~Admits("twins", 0, cut)
          BY DEF Admits, higher_is_stronger
        <4> QED
          BY <3>1, <4>1, <4>2, CutsAreNumbers
      <3> QED
        BY <3>2 DEF Admitting
    <2> QED
      BY <1>1, <1>6, <2>1, <2>2, GradeRanks
  <1> QED
    BY <1>3, <1>4, <1>5, <1>6

\* Before the first score there are none.
LEMMA GradesInitInv == GradesInit => GradesInv
  <1> SUFFICES ASSUME GradesInit PROVE GradesInv
    OBVIOUS
  <1>1. PICK spelling \in Spellings :
           channel = IF parse(spelling) = {} THEN "" ELSE CHOOSE c \in parse(spelling) : TRUE
    BY DEF GradesInit
  <1>2. parse(spelling) \subseteq Channels
    BY DEF parse
  <1>3. channel \in Channels \cup {""}
    <2> HIDE DEF parse
    <2>1. parse(spelling) # {} => (CHOOSE c \in parse(spelling) : TRUE) \in parse(spelling)
      OBVIOUS
    <2> QED
      BY <1>1, <1>2, <2>1
  <1> QED
    BY <1>3 DEF GradesInit, GradesInv

\* Every step keeps the invariant.
LEMMA GradesStepInv == GradesInv /\ [GradesNext]_gradesVars => GradesInv'
  <1> SUFFICES ASSUME GradesInv, [GradesNext]_gradesVars PROVE GradesInv'
    OBVIOUS
  <1>1. ASSUME channel # "", channel' = channel, NEW p, NEW s, OfRow(GradeRow(p, s)),
               scored' = scored \cup {GradeRow(p, s)}
        PROVE  GradesInv'
    <2>1. GradeRow(p, s).grade = grade_of(channel, GradeRow(p, s).score)
      BY DEF GradeRow
    <2>2. \A r \in scored' : r.grade = grade_of(channel, r.score) /\ OfRow(r)
      BY <1>1, <2>1 DEF GradesInv
    <2>3. \A r : OfRow(r)' = OfRow(r)
      BY <1>1 DEF OfRow
    <2> QED
      BY <1>1, <2>2, <2>3 DEF GradesInv
  <1>2. CASE Scored
    <2>1. PICK m \in Measures, n \in Measures : scored' = scored \cup
               {GradeRow(<<m, n>>, IF pairwise(channel) THEN score(channel, m, n) ELSE m)}
      BY <1>2 DEF Scored
    <2> DEFINE s == IF pairwise(channel) THEN score(channel, m, n) ELSE m
    <2>2. GradeRow(<<m, n>>, s).pair = <<m, n>> /\ GradeRow(<<m, n>>, s).score = s
      BY DEF GradeRow
    <2>3. OfRow(GradeRow(<<m, n>>, s))
      BY <2>2 DEF OfRow
    <2> QED
      BY <1>1, <1>2, <2>1, <2>3 DEF Scored
  <1>3. CASE Unmeasured
    <2>1. /\ ~pairwise(channel) /\ channel # "" /\ channel' = channel
          /\ scored' = scored \cup {GradeRow(<<>>, score(channel, 0, 0))}
      BY <1>3 DEF Unmeasured
    <2>2. score(channel, 0, 0) = NaN
      BY <2>1 DEF score, pairwise
    <2>3. OfRow(GradeRow(<<>>, score(channel, 0, 0)))
      BY <2>1, <2>2 DEF OfRow, GradeRow
    <2> QED
      BY <1>1, <2>1, <2>3
  <1>4. CASE UNCHANGED gradesVars
    BY <1>4 DEF gradesVars, GradesInv, OfRow
  <1> QED
    BY <1>2, <1>3, <1>4 DEF GradesNext
==============================================================================
