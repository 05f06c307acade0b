-------------------------------- MODULE Pool --------------------------------
(***************************************************************************)
(* How a Pattern of the Python binding is shared between threads although  *)
(* the engine's compiled handle may not be: bindings/python/irgx/_pool.py, *)
(* the pattern cache of __init__.py, and the way _pattern.py asks for the  *)
(* thread's own handle.                                                    *)
(*                                                                         *)
(* A Pattern object is a number; pats is the set of those that exist.      *)
(* The program reaches one through the cache (an LRU of MaxCache entries), *)
(* through a reference it keeps (retained: a module global, a Match), or   *)
(* through the call a thread is in (cur).  A handle is a record naming the *)
(* Pattern and the thread it was compiled for.  irgx_compile and the verbs *)
(* run without the interpreter lock, so a compile and a call each take     *)
(* two steps and the other threads move in between.                        *)
(***************************************************************************)
EXTENDS Naturals, Sequences, FiniteSets

CONSTANTS Thread,       \* threads of the program
          Source,       \* pattern texts with their flags, the cache's keys
          MaxCache,     \* entries of the cache (512 in the code)
          MaxPattern,   \* bound: Pattern objects that exist at once
          MaxHandle,    \* bound: handles that exist at once
          NoHandle

ASSUME PoolAssumption == /\ MaxCache \in Nat \ {0}
                         /\ MaxPattern \in Nat
                         /\ MaxHandle \in Nat
                         /\ Source # {}
                         /\ NoHandle \notin [pat : 1 .. MaxPattern, thr : Thread, n : 1 .. MaxHandle]

VARIABLES key,      \* the source each Pattern object was made from
          pats,     \* Pattern objects that exist
          compiledCache,    \* the cache, least recently used first
          retained,     \* Pattern objects the program keeps a reference to
          addr,     \* addr[p][t]: the handle parked in thread t for Pattern p
          liveHandles,     \* handles compiled and not freed
          alive,    \* threads that have not ended
          address,       \* what each thread is doing
          cur,      \* the Pattern a thread's call is about
          making  \* how the object being compiled will be published

poolVars == <<key, pats, compiledCache, retained, addr, liveHandles, alive, address, cur, making>>

Pat == 1 .. MaxPattern
Handle == [pat : Pat, thr : Thread, n : 1 .. MaxHandle]
Nobody == 0

PoolTypeOK ==
  /\ key \in [Pat -> Source]
  /\ pats \subseteq Pat
  /\ compiledCache \in Seq(Pat)
  /\ retained \subseteq Pat
  /\ addr \in [Pat -> [Thread -> Handle \cup {NoHandle}]]
  /\ liveHandles \subseteq Handle
  /\ alive \subseteq Thread
  /\ address \in [Thread -> {"idle", "compiling", "holding", "calling"}]
  /\ cur \in [Thread -> Pat \cup {Nobody}]
  /\ making \in [Thread -> {"nothing", "cached", "private"}]

PoolInit ==
  /\ key = [p \in Pat |-> CHOOSE s \in Source : TRUE]
  /\ pats = {} /\ compiledCache = <<>> /\ retained = {}
  /\ addr = [p \in Pat |-> [t \in Thread |-> NoHandle]]
  /\ liveHandles = {}
  /\ alive = Thread
  /\ address = [t \in Thread |-> "idle"]
  /\ cur = [t \in Thread |-> Nobody]
  /\ making = [t \in Thread |-> "nothing"]

---------------------------------------------------------------------------
InCache(p) == \E i \in 1 .. Len(compiledCache) : compiledCache[i] = p
Cached(s)  == \E i \in 1 .. Len(compiledCache) : key[compiledCache[i]] = s

(* A hit moves its entry to the recent end.                                *)
Recent(i) == SubSeq(compiledCache, 1, i - 1) \o SubSeq(compiledCache, i + 1, Len(compiledCache))
             \o <<compiledCache[i]>>

(* A fault: the cache makes room one entry too late.                       *)
StoredOverflowing(p) ==
  IF Cached(key[p]) THEN compiledCache
  ELSE Append(IF Len(compiledCache) <= MaxCache THEN compiledCache ELSE Tail(compiledCache), p)

(* Storing a Pattern: another thread may have stored the same key while    *)
(* this one compiled, and then the cache keeps that one; a full cache      *)
(* drops its oldest entry.                                                 *)
Stored(p) ==
  IF Cached(key[p]) THEN compiledCache
  ELSE Append(IF Len(compiledCache) < MaxCache THEN compiledCache ELSE Tail(compiledCache), p)

(* A module-level verb whose source is in the cache.                       *)
Hit(t, s) ==
  /\ t \in alive /\ address[t] = "idle"
  /\ \E i \in 1 .. Len(compiledCache) :
        /\ key[compiledCache[i]] = s
        /\ cur' = [cur EXCEPT ![t] = compiledCache[i]]
        /\ compiledCache' = Recent(i)
  /\ address' = [address EXCEPT ![t] = "holding"]
  /\ UNCHANGED <<key, pats, retained, addr, liveHandles, alive, making>>

(* ... or is not: a new Pattern, which compiles before it is returned.  A  *)
(* source with no hash (a bytearray) is compiled and never stored.         *)
Make(t, s, how) ==
  /\ t \in alive /\ address[t] = "idle"
  /\ how = "cached" => ~Cached(s)
  /\ \E p \in Pat \ pats :
        /\ \A q \in Pat \ pats : p <= q
        /\ key' = [key EXCEPT ![p] = s]
        /\ pats' = pats \cup {p}
        /\ cur' = [cur EXCEPT ![t] = p]
  /\ address' = [address EXCEPT ![t] = "compiling"]
  /\ making' = [making EXCEPT ![t] = how]
  /\ UNCHANGED <<compiledCache, retained, addr, liveHandles, alive>>

(* A Pattern the program kept, perhaps made by another thread.             *)
UsePattern(t, p) ==
         /\ t \in alive /\ address[t] = "idle" /\ p \in retained
         /\ cur' = [cur EXCEPT ![t] = p]
         /\ address' = [address EXCEPT ![t] = "holding"]
         /\ UNCHANGED <<key, pats, compiledCache, retained, addr, liveHandles, alive, making>>

(* Memory a new handle may be given: what no live one occupies.            *)
FreeHandles == {n \in 1 .. MaxHandle : \A h \in liveHandles : h.n # n}

(* A fault: one handle per Pattern, whoever compiled it.                   *)
AddressAnyThread(p, t) ==
  IF addr[p][t] = NoHandle /\ \E u \in Thread : addr[p][u] # NoHandle
  THEN addr[p][CHOOSE u \in Thread : addr[p][u] # NoHandle] ELSE addr[p][t]

(* The handle thread t may use for Pattern p.                              *)
Address(p, t) == addr[p][t]

(* handle(): the address parked in this thread, or a compile of its own.   *)
Call(t) ==
  /\ address[t] = "holding"
  /\ address' = [address EXCEPT ![t] =
                         IF Address(cur[t], t) = NoHandle THEN "compiling" ELSE "calling"]
  /\ UNCHANGED <<key, pats, compiledCache, retained, addr, liveHandles, alive, cur, making>>

(* The compile succeeds: the owner and its address are parked, and an      *)
(* object under construction is published.                                 *)
Compiled(t) ==
  /\ address[t] = "compiling"
  /\ \E n \in FreeHandles :
        LET h == [pat |-> cur[t], thr |-> t, n |-> n]
        IN  /\ \A m \in FreeHandles : n <= m
            /\ liveHandles' = liveHandles \cup {h}
            /\ addr' = [addr EXCEPT ![cur[t]] = [@ EXCEPT ![t] = h]]
  /\ compiledCache' = IF making[t] = "cached" THEN Stored(cur[t]) ELSE compiledCache
  /\ making' = [making EXCEPT ![t] = "nothing"]
  /\ address' = [address EXCEPT ![t] = "holding"]
  /\ UNCHANGED <<key, pats, retained, alive, cur>>

(* It fails: the exception leaves nothing parked and nothing cached.       *)
RefusedPattern(t) ==
         /\ address[t] = "compiling"
         /\ pats' = IF making[t] = "nothing" THEN pats ELSE pats \ {cur[t]}
         /\ making' = [making EXCEPT ![t] = "nothing"]
         /\ address' = [address EXCEPT ![t] = "idle"]
         /\ cur' = [cur EXCEPT ![t] = Nobody]
         /\ UNCHANGED <<key, compiledCache, retained, addr, liveHandles, alive>>

(* The verb returns; the answer (a Match) keeps the Pattern or drops it.   *)
Return(t) ==
  /\ address[t] = "calling"
  /\ \E k \in {retained, retained \cup {cur[t]}} : retained' = k
  /\ address' = [address EXCEPT ![t] = "idle"]
  /\ cur' = [cur EXCEPT ![t] = Nobody]
  /\ UNCHANGED <<key, pats, compiledCache, addr, liveHandles, alive, making>>

(* compile() returned the Pattern and no verb was asked of it.             *)
Leave(t) ==
  /\ address[t] = "holding"
  /\ \E k \in {retained, retained \cup {cur[t]}} : retained' = k
  /\ address' = [address EXCEPT ![t] = "idle"]
  /\ cur' = [cur EXCEPT ![t] = Nobody]
  /\ UNCHANGED <<key, pats, compiledCache, addr, liveHandles, alive, making>>

Drop(p) ==
  /\ p \in retained /\ retained' = retained \ {p}
  /\ UNCHANGED <<key, pats, compiledCache, addr, liveHandles, alive, address, cur, making>>

purge ==
  /\ compiledCache # <<>> /\ compiledCache' = <<>>
  /\ UNCHANGED <<key, pats, retained, addr, liveHandles, alive, address, cur, making>>

(* A thread ends: what its thread-locals own is freed.                     *)
Exit(t) ==
  /\ t \in alive /\ address[t] = "idle"
  /\ alive' = alive \ {t}
  /\ addr' = [p \in Pat |-> [addr[p] EXCEPT ![t] = NoHandle]]
  /\ liveHandles' = {h \in liveHandles : h.thr # t}
  /\ UNCHANGED <<key, pats, compiledCache, retained, address, cur, making>>

(* Nothing refers to the Pattern any more: its pool, and every thread's    *)
(* entry in it, goes.                                                      *)
Collect(p) ==
  /\ p \in pats /\ p \notin retained /\ ~InCache(p)
  /\ \A t \in Thread : cur[t] # p
  /\ pats' = pats \ {p}
  /\ addr' = [addr EXCEPT ![p] = [t \in Thread |-> NoHandle]]
  /\ liveHandles' = {h \in liveHandles : h.pat # p}
  /\ UNCHANGED <<key, compiledCache, retained, alive, address, cur, making>>

PoolNext ==
  \/ \E t \in Thread : \/ \E s \in Source : \/ Hit(t, s)
                                            \/ \E how \in {"cached", "private"} : Make(t, s, how)
                       \/ \E p \in Pat : UsePattern(t, p)
                       \/ Call(t) \/ Compiled(t) \/ RefusedPattern(t) \/ Return(t) \/ Leave(t)
                       \/ Exit(t)
  \/ \E p \in Pat : Drop(p) \/ Collect(p)
  \/ purge

PoolSpec == PoolInit /\ [][PoolNext]_poolVars

---------------------------------------------------------------------------
(* The handle a thread is inside the engine with was compiled for that     *)
(* thread and for the Pattern it is asking, and is not freed under it, by  *)
(* an eviction, a purge or a collection (_pool.py, class Compiled).        *)
HandleConfined ==
  \A t \in Thread : address[t] = "calling" =>
     LET h == Address(cur[t], t)
     IN  h \in liveHandles /\ h.thr = t /\ h.pat = cur[t]

(* Every handle not freed is the one parked for its Pattern in its thread, *)
(* and both still exist: no handle is leaked, replaced while live, or      *)
(* outlives its owner; and every parked address is a live handle.          *)
HandlesParked ==
  /\ \A h \in liveHandles : /\ h.pat \in pats /\ h.thr \in alive
                            /\ addr[h.pat][h.thr] = h
  /\ \A p \in Pat, t \in Thread : addr[p][t] # NoHandle => addr[p][t] \in liveHandles

(* The cache holds existing, fully compiled Patterns, one per source, and  *)
(* never more than its size, whichever threads store at once.              *)
CacheSound ==
  /\ Len(compiledCache) <= MaxCache
  /\ \A i, j \in 1 .. Len(compiledCache) : key[compiledCache[i]] = key[compiledCache[j]] => i = j
  /\ \A i \in 1 .. Len(compiledCache) :
        /\ compiledCache[i] \in pats
        /\ \A t \in Thread : making[t] # "nothing" => cur[t] # compiledCache[i]

=============================================================================
