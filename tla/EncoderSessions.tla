-------------------------- MODULE EncoderSessions --------------------------
(***************************************************************************)
(* Encoder sessions and the cache of their parameter sets:                 *)
(* types/encoder_session.go and types/parameter_cache.go.  A session lasts *)
(* as long as the configuration of the frames; its sets go to a cache with *)
(* a capacity (least recently used first) and a time to live.              *)
(*                                                                         *)
(* The hash of a configuration stands for it.  The ID of a session is the  *)
(* second it began in, so sessions of one second share their cache keys.   *)
(***************************************************************************)
EXTENDS Integers, Lanes, Sequences, SequencesExt, FiniteSets

CONSTANTS
  SetsIn,        \* configuration hash -> names of the parameter sets it covers
  CacheSize,     \* maxSize of the cache
  TTL,           \* seconds
  MaxSessionHistory,
  MaxSeconds,       \* bound: seconds
  MaxChanges     \* bound: session changes

ASSUME EncoderAssumption ==
  /\ \A h \in DOMAIN SetsIn : SetsIn[h] \subseteq {"sps", "pps", "vps"}
  /\ CacheSize \in Nat \ {0} /\ TTL \in Nat \ {0}
  /\ MaxSessionHistory \in Nat /\ MaxSeconds \in Nat /\ MaxChanges \in Nat

VARIABLES
  encNow,
  lruOrder,          \* keys of the cache, most recently used first
  expiresAt,      \* key -> time, for the keys of the cache
  currentSession, \* <<>>, or its configuration
  sessionHistory, \* the configurations before it
  changes,        \* session changes so far
  recency         \* history: every key ever used, most recently used first

esVars == <<encNow, lruOrder, expiresAt, currentSession, sessionHistory, changes, recency>>

Configured == DOMAIN SetsIn

-----------------------------------------------------------------------------
(* ParameterSetCache                                                       *)

MoveToFront(o, k) == <<k>> \o Lane(o, Members(o) \ {k})

\* removeItem, for several
WithoutKeys(c, S) == [order   |-> Lane(c.order, Members(c.order) \ S),
                      expires |-> [j \in DOMAIN c.expires \ S |-> c.expires[j]]]

Entered(c, k, o) ==
  LET d == [order |-> o, expires |-> [j \in DOMAIN c.expires \cup {k} |->
                                        IF j = k THEN encNow + TTL ELSE c.expires[j]]]
  IN  IF Len(o) > CacheSize THEN WithoutKeys(d, {Last(o)}) ELSE d

\* Mutant of CachePut: an entry that is there keeps its place.
PutInPlace(c, k) ==
  Entered(c, k, IF k \in Members(c.order) THEN c.order ELSE <<k>> \o c.order)

\* CachePut, with evictLRU when it is over capacity
CachePut(c, k) == Entered(c, k, MoveToFront(c.order, k))

CacheState == [order |-> lruOrder, expires |-> expiresAt]
Becomes(c) == lruOrder' = c.order /\ expiresAt' = c.expires

\* CacheGet: an expired entry is removed, another one moves to the front
CacheGet(k) ==
  /\ k \in Members(lruOrder)
  /\ IF encNow > expiresAt[k]
       THEN Becomes(WithoutKeys(CacheState, {k})) /\ UNCHANGED recency
       ELSE Becomes([CacheState EXCEPT !.order = MoveToFront(@, k)])
            /\ recency' = MoveToFront(recency, k)
  /\ UNCHANGED <<encNow, currentSession, sessionHistory, changes>>

\* cleanupExpired, at a tick of its ticker: every entry is looked at
CleanupExpired ==
  LET expired == {k \in Members(lruOrder) : encNow > expiresAt[k]}
  IN  /\ expired # {}
      /\ Becomes(WithoutKeys(CacheState, expired))
      /\ UNCHANGED <<encNow, currentSession, sessionHistory, changes, recency>>

-----------------------------------------------------------------------------
(* EncoderSessionManager                                                   *)

\* handleSessionChange: the sets are put one by one, in the order of a map (any);
\* the session before goes to the history
HandleSessionChange(h) ==
  /\ \E names \in SetToSeqs(SetsIn[h]) :
       LET put[i \in 0..Len(names)] ==
             IF i = 0 THEN [cache |-> CacheState, recent |-> recency]
             ELSE [cache  |-> CachePut(put[i - 1].cache, <<encNow, names[i]>>),
                   recent |-> MoveToFront(put[i - 1].recent, <<encNow, names[i]>>)]
       IN  Becomes(put[Len(names)].cache) /\ recency' = put[Len(names)].recent
  /\ currentSession' = <<h>>
  /\ sessionHistory' = LET all == sessionHistory \o currentSession
                       IN  IF Len(all) > MaxSessionHistory THEN Tail(all) ELSE all
  /\ changes' = changes + 1

\* ProcessFrame of a frame with the sets of h
ProcessFrame(h) ==
  /\ changes < MaxChanges /\ currentSession # <<h>>
  /\ HandleSessionChange(h)
  /\ UNCHANGED encNow

EncTick == /\ encNow < MaxSeconds /\ encNow' = encNow + 1
        /\ UNCHANGED <<lruOrder, expiresAt, currentSession, sessionHistory, changes, recency>>

EncInit ==
  /\ encNow = 0 /\ lruOrder = <<>> /\ expiresAt = <<>>
  /\ currentSession = <<>> /\ sessionHistory = <<>> /\ changes = 0 /\ recency = <<>>

EncNext ==
  \/ \E h \in Configured : ProcessFrame(h)
  \/ \E k \in Members(lruOrder) : CacheGet(k)
  \/ CleanupExpired
  \/ EncTick

EncSpec == EncInit /\ [][EncNext]_esVars

-----------------------------------------------------------------------------
\* The list and the map of the cache hold the same keys, within its capacity, in
\* the order they were last used in (parameter_cache.go:84, :114).
CacheExact ==
  /\ Members(lruOrder) = DOMAIN expiresAt /\ IsInjective(lruOrder)
  /\ Len(lruOrder) <= CacheSize
  /\ lruOrder = Lane(recency, Members(lruOrder))
=============================================================================
