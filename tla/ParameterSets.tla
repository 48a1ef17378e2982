--------------------------- MODULE ParameterSets ---------------------------
(***************************************************************************)
(* The parameter sets of an H.264 stream: types/parameter_context.go, as   *)
(* stream_handler.go and gop/buffer.go use it.  Two contexts: the session  *)
(* cache of the stream handler, fed by every frame, and the one of the GOP *)
(* buffer, fed by every GOP that is complete and copied into the session   *)
(* whenever a GOP leaves the buffer.  An HTTP request for the latest       *)
(* keyframe looks three times: when it picks the frame, with               *)
(* CanDecodeFrame, and when it generates the stream; everything else may   *)
(* happen in between.                                                      *)
(*                                                                         *)
(* A set is its ID and its content: the configuration of an SPS, the SPS   *)
(* a PPS refers to.  A method of the context is one step: it holds mu (the *)
(* locks themselves are in ParameterLocks).                                *)
(***************************************************************************)
EXTENDS Integers, Lanes, Sequences, SequencesExt, FiniteSets

CONSTANTS
  SpsIds, PpsIds,
  Configs,       \* what tells one SPS from another with its ID
  SessionLimit,  \* 500: onGOPBufferDrop stops copying, enforcement starts
  HardLimit,     \* MaxParameterSetsPerSession
  MaxGOPs,       \* capacity of the GOP buffer
  Searched,      \* 5: recent GOPs a request tries; it extracts from twice as many
  MaxKeyframes,  \* bound: GOPs that start
  MaxCounted     \* bound: totalSets at which a request may still add to it

\* The ID ranges of the standard keep the number of sets below both limits
\* (32 SPS and 256 PPS against 500 and 1000).
ASSUME ParameterAssumption ==
  /\ IsFiniteSet(SpsIds) /\ SpsIds \subseteq Nat
  /\ IsFiniteSet(PpsIds) /\ PpsIds \subseteq Nat
  /\ IsFiniteSet(Configs) /\ 0 \notin Configs
  /\ MaxGOPs \in Nat \ {0} /\ Searched \in Nat \ {0} /\ MaxKeyframes \in Nat /\ MaxCounted \in Nat
  /\ SessionLimit \in Nat /\ HardLimit \in Nat
  /\ Cardinality(SpsIds) + Cardinality(PpsIds) < SessionLimit
  /\ 2 * SessionLimit <= HardLimit

VARIABLES
  sessionCtx,   \* StreamHandler.sessionParameterCache
  bufferCtx, \* gop.Buffer.parameterContext
  gops,      \* GOPs of the buffer, oldest first
  building,      \* <<>>, or the GOP under construction
  started,   \* GOPs so far
  request,   \* HandleStreamIframe: <<>>, or what it has looked up
  answer,    \* what the last request sent
  orderly    \* history: every PPS so far named an SPS the session had, and
             \* nothing was evicted or cleared

paramVars == <<sessionCtx, bufferCtx, gops, building, started, request, answer, orderly>>

-----------------------------------------------------------------------------
(* ParameterSetContext                                                     *)

NoSet == [ref |-> -1, says |-> -1]

\* sps: ID -> configuration, 0 for none.  pps: ID -> the SPS it is taken to
\* refer to and the SPS its bits refer to.  age: what is stored, by ParsedAt.
NewContext ==
  [sps |-> [i \in SpsIds |-> 0], pps |-> [i \in PpsIds |-> NoSet],
   age |-> <<>>, total |-> 0]

SpsSet(i, c) == [type |-> "sps", id |-> i, cfg |-> c]
PpsSet(i, r) == [type |-> "pps", id |-> i, ref |-> r]

HasSps(c, i) == c.sps[i] # 0
HasPps(c, i) == c.pps[i] # NoSet
StoredSps(c) == {i \in SpsIds : HasSps(c, i)}
StoredPps(c) == {i \in PpsIds : HasPps(c, i)}
Stored(c)    == Cardinality(StoredSps(c)) + Cardinality(StoredPps(c))

\* the keys of age
SpsKeys == {<<"sps", i>> : i \in SpsIds}
PpsKeys == {<<"pps", i>> : i \in PpsIds}

Refreshed(age, key) == Append(Lane(age, Members(age) \ {key}), key)

\* AddSPS: totalSets counts what was added, new or not
AddSPS(c, i, cfg) ==
  [c EXCEPT !.sps[i] = cfg, !.total = @ + 1, !.age = Refreshed(@, <<"sps", i>>)]

\* AddPPS: a reference to an SPS that is not there is moved to the only SPS
\* there is, and otherwise kept
AddPPS(c, i, r) ==
  LET only == StoredSps(c)
      ref  == IF ~HasSps(c, r) /\ Cardinality(only) = 1 THEN CHOOSE j \in only : TRUE ELSE r
  IN  [c EXCEPT !.pps[i] = [ref |-> ref, says |-> r], !.total = @ + 1,
                !.age = Refreshed(@, <<"pps", i>>)]

\* ExtractParameterSetFromNAL of each parameter set of a frame or GOP, in order
ExtractAll(c, sets) ==
  LET done[n \in 0..Len(sets)] ==
        IF n = 0 THEN c
        ELSE IF sets[n].type = "sps" THEN AddSPS(done[n - 1], sets[n].id, sets[n].cfg)
                                     ELSE AddPPS(done[n - 1], sets[n].id, sets[n].ref)
  IN  done[Len(sets)]

\* ClearOldest and clearOldestUnsafe: the count oldest sets go
ClearOldest(c, count) ==
  LET n    == IF count > Len(c.age) THEN Len(c.age) ELSE count
      gone == Members(SubSeq(c.age, 1, n))
  IN  [sps |-> [i \in SpsIds |-> IF <<"sps", i>> \in gone THEN 0 ELSE c.sps[i]],
       pps |-> [i \in PpsIds |-> IF <<"pps", i>> \in gone THEN NoSet ELSE c.pps[i]],
       age |-> Lane(c.age, Members(c.age) \ gone),
       total |-> c.total - n]

\* Of CopyParameterSetsFrom: at HardLimit, sets over an hour old go (none are,
\* here) and then the older half
Emergency(c) ==
  IF Stored(c) < HardLimit THEN c ELSE ClearOldest(c, Stored(c) \div 2)

\* CopyParameterSetsFrom: the source's sets replace those of the same ID, SPS
\* before PPS; what does not fit below HardLimit stays behind, uncounted
CopyParameterSetsFrom(c, source) ==
  LET d    == Emergency(c)
      all  == Lane(source.age, SpsKeys) \o Lane(source.age, PpsKeys)
      room == HardLimit - Stored(d)
      fits == room >= Len(all)
      new  == Members(IF fits THEN all ELSE SubSeq(all, 1, room))
  IN  [sps |-> [i \in SpsIds |-> IF <<"sps", i>> \in new THEN source.sps[i] ELSE d.sps[i]],
       pps |-> [i \in PpsIds |-> IF <<"pps", i>> \in new THEN source.pps[i] ELSE d.pps[i]],
       age |-> Lane(d.age, Members(d.age) \ new) \o Lane(source.age, new),
       total |-> IF fits THEN d.total + Len(all) ELSE d.total]

-----------------------------------------------------------------------------
(* Looking sets up for a frame whose slices name the PPS p                 *)

\* canDecodeFrameWithRequirements: any SPS will do if the right one is missing
CanDecodeFrame(c, p) == HasPps(c, p) /\ StoredSps(c) # {}

\* The reason CanDecodeFrame gives.
Lacks(c, p) == IF ~HasPps(c, p) THEN "pps" ELSE IF StoredSps(c) = {} THEN "sps" ELSE "nothing"

Answer(kind) == [kind |-> kind, sps |-> -1, cfg |-> 0, ref |-> -1]

\* a stream that starts with SPS i and PPS p
Unit(c, i, p) == [kind |-> "stream", sps |-> i, cfg |-> c.sps[i], ref |-> c.pps[p].says]

\* Mutant of GenerateDecodableStream: the reference in the PPS is not compared.
GenerateUnchecked(c, p) ==
  IF ~CanDecodeFrame(c, p) THEN Answer("error")
  ELSE IF ~HasSps(c, c.pps[p].ref) THEN Answer("crash")
  ELSE Unit(c, c.pps[p].ref, p)

\* GenerateDecodableStream looks the SPS up again, without the fallback: sps is
\* nil then, and sps.Data is a nil dereference.  What the PPS says is checked.
GenerateDecodableStream(c, p) ==
  IF ~CanDecodeFrame(c, p) THEN Answer("error")
  ELSE IF ~HasSps(c, c.pps[p].ref) THEN Answer("crash")
  ELSE IF c.pps[p].says # c.pps[p].ref THEN Answer("error")
  ELSE Unit(c, c.pps[p].ref, p)

AgeOf(c, key) == CHOOSE n \in DOMAIN c.age : c.age[n] = key

\* The newest SPS that some PPS refers to; the newest PPS that does goes with it
BestPair(c) ==
  LET paired == {i \in StoredSps(c) : \E q \in StoredPps(c) : c.pps[q].ref = i}
  IN  {i \in paired : \A j \in paired : AgeOf(c, <<"sps", j>>) <= AgeOf(c, <<"sps", i>>)}

\* createRemappedSPS, createRemappedPPS and remapSliceHeaderPPSID: the content
\* under ID 0, a PPS that says SPS 0, slices that say PPS 0
CreateRemappedSPS(c, i) == [id |-> 0, cfg |-> c.sps[i]]
CreateRemappedPPS       == [id |-> 0, says |-> 0]

\* GenerateBestEffortStream.  Without the frame's PPS its requirements cannot be
\* read, and all sets go out, with the frame as it is.  With that PPS and the SPS
\* it is taken to refer to, the two go out as they are, and the reference in the
\* bits is not compared.  Otherwise the best pair goes out, remapped.
GenerateBestEffortStream(c, p) ==
  IF BestPair(c) = {} THEN Answer("error")
  ELSE IF ~HasPps(c, p) THEN Answer("all sets")
  ELSE IF HasSps(c, c.pps[p].ref) THEN Unit(c, c.pps[p].ref, p)
  ELSE LET sps == CreateRemappedSPS(c, CHOOSE i \in BestPair(c) : TRUE)
       IN  [kind |-> "stream", sps |-> sps.id, cfg |-> sps.cfg, ref |-> CreateRemappedPPS.says]

-----------------------------------------------------------------------------
(* The stream handler                                                      *)

\* parameterSetExtractor of the SRT adapter: the parameter sets that the transport
\* parser met go into a cache of the adapter's own
ParameterSetExtractor(sets) == ExtractAll(NewContext, sets)

SeedSessionCacheFromTransport(sets) ==
  CopyParameterSetsFrom(NewContext, ParameterSetExtractor(sets))

ParamInit ==
  /\ sessionCtx \in {NewContext} \cup
       {SeedSessionCacheFromTransport(<<SpsSet(i, f), PpsSet(p, i)>>) :
          i \in SpsIds, f \in Configs, p \in PpsIds}
  /\ bufferCtx = NewContext
  /\ gops = <<>> /\ building = <<>> /\ started = 0
  /\ request = <<>> /\ answer = [sent |-> Answer("none"), lacked |-> "nothing"]
  /\ orderly = TRUE

\* onGOPBufferDrop
OnGOPBufferDrop(s, buf) ==
  IF s.total > SessionLimit THEN s ELSE CopyParameterSetsFrom(s, buf)

\* the SPS that the PPS among the sets name, and the SPS among them
Names(sets)  == {sets[n].ref : n \in {m \in DOMAIN sets : sets[m].type = "pps"}}
Brings(sets) == {sets[n].id : n \in {m \in DOMAIN sets : sets[m].type = "sps"}}

\* processFrames with a keyframe: its sets go to the session, the GOP before it
\* is complete and goes to the buffer, and the oldest GOP there may be dropped
Keyframe(sets, p) ==
  LET s1  == ExtractAll(sessionCtx, sets)
      buf == IF building = <<>> THEN bufferCtx ELSE ExtractAll(bufferCtx, building[1].sets)
      g1  == IF building = <<>> THEN gops ELSE Append(gops, building[1])
      full == Len(g1) > MaxGOPs
  IN  /\ started < MaxKeyframes
      /\ started' = started + 1
      /\ building' = <<[sets |-> sets, pps |-> p]>>
      /\ bufferCtx' = buf
      /\ gops' = IF full THEN Tail(g1) ELSE g1
      /\ sessionCtx' = IF full THEN OnGOPBufferDrop(s1, buf) ELSE s1
      /\ orderly' = (orderly /\ Names(sets) \subseteq StoredSps(sessionCtx) \cup Brings(sets))
      /\ UNCHANGED <<request, answer>>

\* monitorBackpressure, every ten seconds: enforceSessionCacheLimits
EnforceSessionCacheLimits ==
  /\ sessionCtx.total > SessionLimit
  /\ sessionCtx' = ClearOldest(sessionCtx, sessionCtx.total \div 2)
  /\ orderly' = FALSE
  /\ UNCHANGED <<bufferCtx, gops, building, started, request, answer>>

\* GetRecentGOPs, in chronological order
GetRecentGOPs(n) == SubSeq(gops, IF Len(gops) > n THEN Len(gops) - n + 1 ELSE 1, Len(gops))

\* extractParameterSetsFromGOPForFrame
ExtractFromGOPs(s) ==
  LET recent == GetRecentGOPs(2 * Searched)
      done[n \in 0..Len(recent)] ==
        IF n = 0 THEN s ELSE ExtractAll(done[n - 1], recent[n].sets)
  IN  done[Len(recent)]

\* GetLatestIFrameWithSessionContext, of HandleStreamIframe.  The recent GOPs are tried from the oldest on; if none can be
\* decoded, their sets are extracted again and the newest one is taken.
GetLatestIFrameWithSessionContext ==
  LET recent == GetRecentGOPs(Searched)
      usable == {n \in DOMAIN recent : CanDecodeFrame(sessionCtx, recent[n].pps)}
      first  == CHOOSE n \in usable : \A m \in usable : n <= m
      again  == ExtractFromGOPs(sessionCtx)
      newest == gops[Len(gops)]
  IN  /\ request = <<>> /\ gops # <<>>
      /\ IF usable # {}
         THEN /\ sessionCtx' = sessionCtx
              /\ request' = <<[pps |-> recent[first].pps, lacked |-> "unknown"]>>
         ELSE /\ sessionCtx.total <= MaxCounted
              /\ sessionCtx' = again
              /\ request' = <<[pps |-> newest.pps, lacked |-> "unknown"]>>
      /\ UNCHANGED <<bufferCtx, gops, building, started, answer, orderly>>

\* HandleStreamIframe asks CanDecodeFrame
CheckRequest ==
  /\ request # <<>> /\ request[1].lacked = "unknown"
  /\ request' = <<[pps |-> request[1].pps, lacked |-> Lacks(sessionCtx, request[1].pps)]>>
  /\ UNCHANGED <<sessionCtx, bufferCtx, gops, building, started, answer, orderly>>

\* The rest of HandleStreamIframe: its answer
AnswerRequest ==
  /\ request # <<>> /\ request[1].lacked # "unknown"
  /\ answer' = [sent   |-> IF request[1].lacked = "nothing"
                          THEN GenerateDecodableStream(sessionCtx, request[1].pps)
                          ELSE GenerateBestEffortStream(sessionCtx, request[1].pps),
                lacked |-> request[1].lacked]
  /\ request' = <<>>
  /\ UNCHANGED <<sessionCtx, bufferCtx, gops, building, started, orderly>>

\* cleanupSessionCache, when the handler stops
CleanupSessionCache ==
  /\ started = MaxKeyframes
  /\ sessionCtx' = NewContext
  /\ orderly' = FALSE
  /\ UNCHANGED <<bufferCtx, gops, building, started, request, answer>>

\* parameter sets a keyframe may carry
Carried ==
  {<<>>} \cup {<<SpsSet(i, f)>> : i \in SpsIds, f \in Configs}
         \cup {<<PpsSet(p, i)>> : p \in PpsIds, i \in SpsIds}
         \cup {<<SpsSet(i, f), PpsSet(p, r)>> :
                 i \in SpsIds, f \in Configs, p \in PpsIds, r \in SpsIds}

ParamNext ==
  \/ \E sets \in Carried, p \in PpsIds : Keyframe(sets, p)
  \/ EnforceSessionCacheLimits
  \/ GetLatestIFrameWithSessionContext
  \/ CheckRequest
  \/ AnswerRequest
  \/ CleanupSessionCache

\* the tickers run and an accepted request is answered
ParamSpec ==
  /\ ParamInit /\ [][ParamNext]_paramVars
  /\ WF_paramVars(EnforceSessionCacheLimits) /\ WF_paramVars(CheckRequest \/ AnswerRequest)

-----------------------------------------------------------------------------
\* A stream handed to the decoder is one it can start on: its PPS refers to the
\* SPS sent with it.  AddPPS rewrites references it cannot resolve (:371),
\* CanDecodeFrame accepts any SPS (:642), and the sets may be evicted, replaced or
\* overwritten from the GOP buffer between the looks of a request.  The exception
\* is a frame that CanDecodeFrame refused and whose sets came before the last
\* look: GenerateBestEffortStream sends the pair without the comparison that
\* GenerateDecodableStream makes (parameter_context.go:729, :915-939).
AnswerConsistent ==
  answer.sent.kind = "stream" /\ answer.sent.ref # answer.sent.sps =>
    answer.lacked # "nothing"

\* No request runs into the nil SPS of GenerateDecodableStream (:706) as long as
\* each PPS named an SPS sent with it or before it and no set was evicted or
\* cleared: although the GOP buffer's context may have missed that SPS and copies
\* its own view of the PPS into the session (:353-371, stream_handler.go:1178).
NoNilSPS == orderly => answer.sent.kind # "crash"

\* totalSets, which the limits of the session cache are measured with, never
\* falls below what is stored (parameter_context.go:255, :1927), and the list
\* by age holds exactly what is stored.
SizeCounted ==
  \A c \in {sessionCtx, bufferCtx} :
    /\ Stored(c) <= c.total
    /\ Members(c.age) = {<<"sps", i>> : i \in StoredSps(c)} \cup {<<"pps", i>> : i \in StoredPps(c)}
    /\ IsInjective(c.age)

\* The sets kept are the sets counted, those handed out belong together but for
\* the race of AnswerConsistent, and no orderly stream makes a request panic
\* (parameter_context.go).
ParametersSound == AnswerConsistent /\ NoNilSPS /\ SizeCounted
=============================================================================
