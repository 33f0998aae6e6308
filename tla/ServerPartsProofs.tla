--------------------------- MODULE ServerPartsProofs ---------------------------
(***************************************************************************)
(* Theorems about short polling and about the telemetry of a protocol, for *)
(* every number of messages, polls, records and clock values.              *)
(***************************************************************************)
EXTENDS ShortPolling, ProtocolTracker, ListLemmas

-----------------------------------------------------------------------------
(* Short polling                                                           *)

\* The polls of the session ask since its beginning, and what one of them was
\* answered is the front of what the store would answer now, with everything in
\* it that the store held when the poll was sent.
PollsOfSession ==
  \A g \in polls :
    /\ since[g] = lastSeen
    /\ gpc[g] \in {"request", "answer", "done"}
    /\ Range(old[g]) \subseteq Range(store)
    /\ gpc[g] # "request" =>
         /\ IsPrefix(resp[g], GetSince(lastSeen))
         /\ \A m \in Range(old[g]) : created[m] > since[g] => m \in Range(resp[g])

PollInv ==
  /\ PollTypeOK
  /\ \A m \in Range(store) : ppc[m] = "done"
  /\ polling \/ polls # {} => lastSeen = DateNow(begun)
  /\ PollsOfSession

LEMMA DateNowType ==
  ASSUME NEW t \in Nat
  PROVE  DateNow(t) \in Nat /\ DateNow(t) <= t
<1>1. Milli \in Nat /\ Milli > 0
  BY MilliAssumption
<1> QED BY <1>1 DEF DateNow

\* What the store would answer to a poll that asks for what is newer than t.
LEMMA AnswerIs ==
  ASSUME PollTypeOK, NEW t \in Nat
  PROVE  /\ GetSince(t) \in Seq(Posts)
         /\ \A m \in Range(store) : created[m] > t => m \in Range(GetSince(t))
<1> DEFINE S == { m \in Posts : created[m] > t }
<1>1. store \in Seq(Posts)
  BY DEF PollTypeOK
<1>2. GetSince(t) = Kept(store, S)
  BY DEF GetSince
<1>3. ASSUME NEW m \in Range(store), created[m] > t PROVE m \in S
  BY <1>1, <1>3 DEF Range
<1> HIDE DEF S
<1> QED BY <1>1, <1>2, <1>3, KeptType

LEMMA PollBegins == PollInit => PollInv
<1> SUFFICES ASSUME PollInit PROVE PollInv
  OBVIOUS
<1> USE DEF PollInit
<1>1. clock = 1 /\ clock \in 1..MaxClock
  BY ClockAssumption
<1>2. DateNow(clock) \in 0..clock
  BY <1>1, DateNowType
<1>3. PollTypeOK
  <2>1. 0 \in 0..clock /\ <<>> \in Seq(Posts)
    BY <1>1
  <2> QED BY <1>1, <1>2, <2>1 DEF PollTypeOK
<1>4. Range(store) = {}
  BY RangeEmpty
<1> QED BY <1>3, <1>4 DEF PollInv, PollsOfSession

LEMMA PollTypeStep == PollTypeOK /\ [PollNext]_pollingVars => PollTypeOK'
<1> SUFFICES ASSUME PollTypeOK, [PollNext]_pollingVars PROVE PollTypeOK'
  OBVIOUS
<1> USE DEF PollTypeOK
<1>0. clock \in Nat /\ MaxClock \in Nat
  BY ClockAssumption
<1>1. CASE ClockTick
  <2>1. clock' \in 1..MaxClock /\ 0..clock \subseteq 0..clock'
    BY <1>0, <1>1 DEF ClockTick
  <2> QED BY <1>1, <2>1 DEF ClockTick, postVars, pollVars, cursorVars
<1>2. ASSUME NEW p \in Posts, PostStart(p) PROVE PollTypeOK'
  BY <1>0, <1>2 DEF PostStart, GoPost, pollVars, cursorVars
<1>3. ASSUME NEW p \in Posts, PostStore(p) PROVE PollTypeOK'
  <2>1. Append(store, p) \in Seq(Posts)
    BY AppendProperties
  <2> QED BY <1>3, <2>1 DEF PostStore, GoPost, pollVars, cursorVars
<1>4. ASSUME NEW g \in Gets, HandleGetMessage(g) PROVE PollTypeOK'
  <2>1. GetSince(since[g]) \in Seq(Posts)
    <3>1. since[g] \in Nat
      BY <1>0
    <3> QED BY <3>1, AnswerIs
  <2> QED BY <1>4, <2>1 DEF HandleGetMessage, GoPoll, postVars, cursorVars
<1>5. ASSUME NEW g \in Gets, Poll(g) PROVE PollTypeOK'
  BY <1>5 DEF Poll, GoPoll, postVars
<1>6. ASSUME NEW g \in Gets, PollAnswer(g) PROVE PollTypeOK'
  BY <1>6 DEF PollAnswer, GoPoll, postVars, cursorVars
<1>7. ASSUME NEW g \in Gets, PollFails(g) PROVE PollTypeOK'
  BY <1>0, <1>7 DEF PollFails, postVars
<1>8. CASE StartPolling
  <2>1. DateNow(clock) \in 0..clock
    BY <1>0, DateNowType
  <2> QED BY <1>0, <1>8, <2>1 DEF StartPolling, postVars, pollVars
<1>9. CASE StopPolling
  BY <1>9 DEF StopPolling, postVars, pollVars
<1>10. CASE UNCHANGED pollingVars
  BY <1>10 DEF pollingVars, postVars, pollVars, cursorVars
<1> QED
  BY <1>1, <1>2, <1>3, <1>4, <1>5, <1>6, <1>7, <1>8, <1>9, <1>10
     DEF PollNext, HandlePost

\* A POST that begins makes a message that the store does not hold yet.
LEMMA PostStartStep ==
  ASSUME PollInv, PollTypeOK', NEW p \in Posts, PostStart(p)
  PROVE  PollInv'
<1> USE DEF PollTypeOK
<1>1. p \notin Range(store) /\ store' = store /\ store \in Seq(Posts)
  BY DEF PollInv, PostStart, GoPost
<1>2. \A m \in Range(store) : created'[m] = created[m] /\ ppc'[m] = ppc[m] /\ m \in Posts
  BY <1>1 DEF PostStart, GoPost, Range
<1>3. ASSUME NEW t PROVE GetSince(t)' = GetSince(t)
  <2> DEFINE S == { m \in Posts : created[m] > t }
             R == { m \in Posts : created'[m] > t }
  <2>1. \A m \in Range(store) : m \in S <=> m \in R
    BY <1>2
  <2>2. GetSince(t) = Kept(store, S) /\ GetSince(t)' = Kept(store, R)
    BY <1>1 DEF GetSince
  <2> HIDE DEF S, R
  <2> QED BY <1>1, <2>1, <2>2, KeptSame
<1>4. GetSince(lastSeen)' = GetSince(lastSeen)
  BY <1>3 DEF PostStart, cursorVars
<1>5. PollsOfSession'
  <2> SUFFICES ASSUME NEW g \in polls
               PROVE  /\ since[g] = lastSeen
                      /\ gpc[g] \in {"request", "answer", "done"}
                      /\ Range(old[g]) \subseteq Range(store)
                      /\ gpc[g] # "request" =>
                           /\ IsPrefix(resp[g], GetSince(lastSeen))
                           /\ \A m \in Range(old[g]) :
                                created'[m] > since[g] => m \in Range(resp[g])
    BY <1>1, <1>4 DEF PollsOfSession, PostStart, pollVars, cursorVars
  <2> QED BY <1>2 DEF PollInv, PollsOfSession
<1> QED BY <1>1, <1>2, <1>5 DEF PollInv, PostStart, cursorVars, DateNow

LEMMA PostStoreStep ==
  ASSUME PollInv, PollTypeOK', NEW p \in Posts, PostStore(p)
  PROVE  PollInv'
<1> USE DEF PollTypeOK
<1>1. store \in Seq(Posts) /\ store' = Append(store, p) /\ created' = created
  BY DEF PollInv, PostStore
<1>2. Range(store') = Range(store) \cup {p}
  BY <1>1, RangeAppend
<1>3. \A m \in Range(store) : ppc[m] = "done" /\ m \in Posts
  BY <1>1 DEF PollInv, Range
<1>4. \A m \in Range(store') : ppc'[m] = "done"
  BY <1>2, <1>3 DEF PollInv, PostStore, GoPost
<1>5. GetSince(lastSeen) \in Seq(Posts)
  <2>1. lastSeen \in Nat
    BY DEF PollInv
  <2> QED BY <2>1, AnswerIs DEF PollInv
<1>6. \/ GetSince(lastSeen)' = GetSince(lastSeen)
      \/ GetSince(lastSeen)' = Append(GetSince(lastSeen), p)
  <2> DEFINE S == { m \in Posts : created[m] > lastSeen }
  <2>1. GetSince(lastSeen) = Kept(store, S) /\ GetSince(lastSeen)' = Kept(Append(store, p), S)
    BY <1>1 DEF GetSince, PostStore, cursorVars
  <2> HIDE DEF S
  <2> QED BY <1>1, <2>1, KeptAppend
<1>7. PollsOfSession'
  <2> SUFFICES ASSUME NEW g \in polls
               PROVE  /\ since[g] = lastSeen
                      /\ gpc[g] \in {"request", "answer", "done"}
                      /\ Range(old[g]) \subseteq Range(store')
                      /\ gpc[g] # "request" =>
                           /\ IsPrefix(resp[g], GetSince(lastSeen)')
                           /\ \A m \in Range(old[g]) :
                                created[m] > since[g] => m \in Range(resp[g])
    BY <1>1 DEF PollsOfSession, PostStore, pollVars, cursorVars
  <2>1. g \in Gets /\ resp[g] \in Seq(Posts)
    BY DEF PollInv
  <2>2. gpc[g] # "request" => IsPrefix(resp[g], GetSince(lastSeen))
    BY DEF PollInv, PollsOfSession
  <2>3. gpc[g] # "request" => IsPrefix(resp[g], GetSince(lastSeen)')
    BY <1>5, <1>6, <2>1, <2>2, PrefixAppend
  <2> QED BY <1>2, <2>3 DEF PollInv, PollsOfSession
<1> QED BY <1>4, <1>7 DEF PollInv, PostStore, cursorVars, DateNow

LEMMA AnswerStep ==
  ASSUME PollInv, PollTypeOK', NEW g \in Gets, HandleGetMessage(g)
  PROVE  PollInv'
<1> USE DEF PollTypeOK
<1>1. /\ resp' = [resp EXCEPT ![g] = GetSince(since[g])]
      /\ gpc' = [gpc EXCEPT ![g] = "answer"]
      /\ UNCHANGED <<clock, store, created, ppc, since, old, polling, lastSeen, begun, polls>>
  BY DEF HandleGetMessage, GoPoll, postVars, cursorVars
<1>2. GetSince(lastSeen)' = GetSince(lastSeen)
  BY <1>1 DEF GetSince
<1>3. lastSeen \in Nat
  BY DEF PollInv
<1>4. IsPrefix(GetSince(lastSeen), GetSince(lastSeen))
  <2>1. GetSince(lastSeen) \in Seq(Posts)
    BY <1>3, AnswerIs DEF PollInv
  <2> QED BY <2>1, PrefixIs, LenProperties
<1>5. ASSUME NEW h \in polls
      PROVE  /\ since'[h] = lastSeen'
             /\ gpc'[h] \in {"request", "answer", "done"}
             /\ Range(old'[h]) \subseteq Range(store')
             /\ gpc'[h] # "request" =>
                  /\ IsPrefix(resp'[h], GetSince(lastSeen)')
                  /\ \A m \in Range(old'[h]) :
                       created'[m] > since'[h] => m \in Range(resp'[h])
  <2>1. CASE h = g
    <3>1. since[g] = lastSeen /\ Range(old[g]) \subseteq Range(store)
      BY <2>1, <1>5 DEF PollInv, PollsOfSession
    <3>2. resp'[g] = GetSince(lastSeen) /\ gpc'[g] = "answer"
      BY <1>1, <3>1 DEF PollInv
    <3>3. \A m \in Range(old[g]) : created[m] > lastSeen => m \in Range(GetSince(lastSeen))
      BY <1>3, <3>1, AnswerIs DEF PollInv
    <3> QED BY <1>1, <1>2, <1>4, <2>1, <3>1, <3>2, <3>3
  <2>2. CASE h # g
    <3>1. gpc'[h] = gpc[h] /\ resp'[h] = resp[h]
      BY <1>1, <2>2 DEF PollInv
    <3> QED BY <1>1, <1>2, <1>5, <3>1 DEF PollInv, PollsOfSession
  <2> QED BY <2>1, <2>2
<1>6. PollsOfSession'
  BY <1>1, <1>5 DEF PollsOfSession
<1> QED BY <1>1, <1>6 DEF PollInv, DateNow

LEMMA PollSentStep ==
  ASSUME PollInv, PollTypeOK', NEW g \in Gets, Poll(g)
  PROVE  PollInv'
<1> USE DEF PollTypeOK
<1>1. /\ since' = [since EXCEPT ![g] = lastSeen]
      /\ gpc' = [gpc EXCEPT ![g] = "request"]
      /\ old' = [old EXCEPT ![g] = store]
      /\ polling /\ polls' = polls \cup {g}
      /\ UNCHANGED <<clock, store, created, ppc, resp, polling, lastSeen, begun>>
  BY DEF Poll, GoPoll, postVars
<1>2. GetSince(lastSeen)' = GetSince(lastSeen)
  BY <1>1 DEF GetSince
<1>3. ASSUME NEW h \in polls \cup {g}
      PROVE  /\ since'[h] = lastSeen'
             /\ gpc'[h] \in {"request", "answer", "done"}
             /\ Range(old'[h]) \subseteq Range(store')
             /\ gpc'[h] # "request" =>
                  /\ IsPrefix(resp'[h], GetSince(lastSeen)')
                  /\ \A m \in Range(old'[h]) :
                       created'[m] > since'[h] => m \in Range(resp'[h])
  <2>1. CASE h = g
    BY <1>1, <2>1 DEF PollInv
  <2>2. CASE h # g
    <3>1. h \in polls
      BY <2>2
    <3>2. gpc'[h] = gpc[h] /\ since'[h] = since[h] /\ old'[h] = old[h]
      BY <1>1, <2>2, <3>1 DEF PollInv
    <3>3. /\ since[h] = lastSeen
          /\ gpc[h] \in {"request", "answer", "done"}
          /\ Range(old[h]) \subseteq Range(store)
          /\ gpc[h] # "request" =>
               /\ IsPrefix(resp[h], GetSince(lastSeen))
               /\ \A m \in Range(old[h]) : created[m] > since[h] => m \in Range(resp[h])
      BY <3>1 DEF PollInv, PollsOfSession
    <3> QED BY <1>1, <1>2, <3>2, <3>3
  <2> QED BY <2>1, <2>2
<1>4. PollsOfSession'
  BY <1>1, <1>3 DEF PollsOfSession
<1> QED BY <1>1, <1>4 DEF PollInv, DateNow

\* An answer arrives, or does not.
LEMMA PollEndsStep ==
  ASSUME PollInv, PollTypeOK', NEW g \in Gets, PollAnswer(g) \/ PollFails(g)
  PROVE  PollInv'
<1> USE DEF PollTypeOK
<1>1. /\ gpc[g] \in {"request", "answer"}
      /\ UNCHANGED <<clock, store, created, ppc, polling, lastSeen, begun>>
      /\ \A h \in Gets \ {g} :
           gpc'[h] = gpc[h] /\ since'[h] = since[h] /\ old'[h] = old[h] /\ resp'[h] = resp[h]
      /\ \/ polls' = polls \ {g}
         \/ /\ polls' = polls /\ UNCHANGED <<since, old, resp>>
            /\ gpc[g] = "answer" /\ gpc'[g] = "done"
  <2>1. CASE PollAnswer(g)
    BY <2>1 DEF PollInv, PollAnswer, GoPoll, postVars, cursorVars
  <2>2. CASE PollFails(g)
    BY <2>2 DEF PollInv, PollFails, postVars
  <2> QED BY <2>1, <2>2
<1>2. GetSince(lastSeen)' = GetSince(lastSeen)
  BY <1>1 DEF GetSince
<1>3. ASSUME NEW h \in polls'
      PROVE  /\ since'[h] = lastSeen'
             /\ gpc'[h] \in {"request", "answer", "done"}
             /\ Range(old'[h]) \subseteq Range(store')
             /\ gpc'[h] # "request" =>
                  /\ IsPrefix(resp'[h], GetSince(lastSeen)')
                  /\ \A m \in Range(old'[h]) :
                       created'[m] > since'[h] => m \in Range(resp'[h])
  <2>1. h \in polls /\ h \in Gets
    BY <1>1 DEF PollInv
  <2>2. since'[h] = since[h] /\ old'[h] = old[h] /\ resp'[h] = resp[h]
    BY <1>1, <2>1
  <2>3. gpc'[h] = gpc[h] \/ (gpc[h] = "answer" /\ gpc'[h] = "done")
    <3>1. CASE h = g
      BY <1>1, <1>3, <3>1
    <3>2. CASE h # g
      BY <1>1, <2>1, <3>2
    <3> QED BY <3>1, <3>2
  <2> QED BY <1>1, <1>2, <2>1, <2>2, <2>3 DEF PollInv, PollsOfSession
<1>4. PollsOfSession'
  BY <1>3 DEF PollsOfSession
<1>5. polls # {} \/ polls' = {}
  BY <1>1
<1> QED BY <1>1, <1>4, <1>5 DEF PollInv, DateNow

LEMMA PollStep == PollInv /\ [PollNext]_pollingVars => PollInv'
<1> SUFFICES ASSUME PollInv, [PollNext]_pollingVars PROVE PollInv'
  OBVIOUS
<1>0. PollTypeOK'
  BY PollTypeStep DEF PollInv
<1>1. CASE ClockTick
  BY <1>0, <1>1 DEF ClockTick, postVars, pollVars, cursorVars, PollInv, PollsOfSession,
                    GetSince, DateNow
<1>2. ASSUME NEW p \in Posts, HandlePost(p) PROVE PollInv'
  BY <1>0, <1>2, PostStartStep, PostStoreStep DEF HandlePost
<1>3. ASSUME NEW g \in Gets, Poll(g) \/ HandleGetMessage(g) \/ PollAnswer(g) \/ PollFails(g)
      PROVE  PollInv'
  BY <1>0, <1>3, PollSentStep, AnswerStep, PollEndsStep
<1>4. CASE StartPolling
  BY <1>0, <1>4 DEF StartPolling, postVars, PollInv, PollsOfSession, DateNow
<1>5. CASE StopPolling
  BY <1>0, <1>5 DEF StopPolling, postVars, pollVars, PollInv, PollsOfSession, GetSince, DateNow
<1>6. CASE UNCHANGED pollingVars
  BY <1>0, <1>6 DEF pollingVars, postVars, pollVars, cursorVars, PollInv, PollsOfSession,
                    GetSince, DateNow
<1> QED BY <1>1, <1>2, <1>3, <1>4, <1>5, <1>6 DEF PollNext

\* PollTypeOK: no cursor of the browser and no CreatedAt is ahead of the clock.
THEOREM PollTypeCorrect == PollSpec => []PollTypeOK
<1>1. PollInv => PollTypeOK
  BY DEF PollInv
<1> QED BY <1>1, PollBegins, PollStep, PTL DEF PollSpec

\* SessionMissesNothing: when a poll is answered, the session has been shown every
\* message that was sent after startPolling and stored before the poll, whatever
\* overtakes what.
THEOREM PollingMissesNothing == PollSpec => []SessionMissesNothing
<1>1. PollInv => SessionMissesNothing
  <2> SUFFICES ASSUME PollInv, NEW g \in Answered, NEW m \in Range(old[g]), created[m] > begun
               PROVE  \E h \in Answered : m \in Range(resp[h])
    BY DEF SessionMissesNothing
  <2>1. g \in polls /\ gpc[g] = "done"
    BY DEF Answered
  <2>2. since[g] = DateNow(begun)
    BY <2>1 DEF PollInv, PollsOfSession
  <2>3. begun \in Nat /\ created[m] \in Nat
    <3>1. g \in Gets /\ store \in Seq(Posts) /\ m \in Range(store)
      BY <2>1 DEF PollInv, PollTypeOK, PollsOfSession
    <3>2. m \in Posts
      BY <3>1 DEF Range
    <3> QED BY <3>2 DEF PollInv, PollTypeOK
  <2>4. created[m] > since[g]
    BY <2>2, <2>3, DateNowType
  <2>5. m \in Range(resp[g])
    BY <2>1, <2>4 DEF PollInv, PollsOfSession
  <2> QED BY <2>5
<1> QED BY <1>1, PollBegins, PollStep, PTL DEF PollSpec

\* AnswersExtend: of two answers in a session one repeats the other and goes on,
\* in whatever order they come.
THEOREM PollAnswersExtend == PollSpec => []AnswersExtend
<1>1. PollInv => AnswersExtend
  <2> SUFFICES ASSUME PollInv, NEW g \in Answered, NEW h \in Answered
               PROVE  IsPrefix(resp[g], resp[h]) \/ IsPrefix(resp[h], resp[g])
    BY DEF AnswersExtend
  <2> DEFINE q == GetSince(lastSeen)
  <2>1. q \in Seq(Posts)
    BY AnswerIs DEF PollInv, PollTypeOK
  <2>2. resp[g] \in Seq(Posts) /\ resp[h] \in Seq(Posts)
    BY DEF PollInv, PollTypeOK, Answered
  <2>3. IsPrefix(resp[g], q) /\ IsPrefix(resp[h], q)
    BY DEF PollInv, PollsOfSession, Answered
  <2> HIDE DEF q
  <2> QED BY <2>1, <2>2, <2>3, PrefixesCompare
<1> QED BY <1>1, PollBegins, PollStep, PTL DEF PollSpec

-----------------------------------------------------------------------------
(* The telemetry of a protocol                                             *)

\* ms are the times of the last records of rec, and all before them are older
\* than a Period at t.
Recent(ms, rec, t) ==
  /\ Len(ms) <= Len(rec)
  /\ \A i \in 1..Len(ms) : ms[i] = rec[Len(rec) - Len(ms) + i].time
  /\ \A i \in 1..(Len(rec) - Len(ms)) : rec[i].time < t - Period

\* ls are the latencies of the last records of rec, as many as the window holds.
Latest(ls, rec) ==
  /\ Len(ls) = IF Len(rec) < maxLatencyWindow THEN Len(rec) ELSE maxLatencyWindow
  /\ \A i \in 1..Len(ls) : ls[i] = rec[Len(rec) - Len(ls) + i].latency

TimesInOrder ==
  /\ \A i \in 1..Len(recorded) : recorded[i].time <= now
  /\ \A i, j \in 1..Len(recorded) : i <= j => recorded[i].time <= recorded[j].time

TrackerInv ==
  /\ TrackerTypeOK
  /\ TimesInOrder
  /\ Latest(latencies, recorded)
  /\ Recent(messageTimes, recorded, now)
  /\ taken.records <= Len(recorded)
  /\ PercentilesOfWindow
  /\ ThroughputExact

Records == [latency : Latencies, time : Nat]

LEMMA RecordsAre ==
  ASSUME NEW rec \in Seq(Records)
  PROVE  /\ Len(rec) \in Nat
         /\ \A i \in 1..Len(rec) : rec[i].time \in Nat /\ rec[i].latency \in Latencies
<1>1. \A i \in 1..Len(rec) : rec[i] \in Records
  BY ElementOfSeq
<1> QED BY <1>1, LenProperties DEF Records

\* The loop of Record and Snapshot throws away n times from the front, those that
\* are before the cutoff.
LEMMA PruneIs ==
  ASSUME NEW ts \in Seq(Nat), NEW t \in Nat
  PROVE  \E n \in 0..Len(ts) :
           /\ Prune(ts, t) \in Seq(Nat) /\ Len(Prune(ts, t)) = Len(ts) - n
           /\ \A i \in 1..(Len(ts) - n) : Prune(ts, t)[i] = ts[n + i]
           /\ \A i \in 1..n : ts[i] < t - Period
           /\ n < Len(ts) => ts[n + 1] >= t - Period
<1> DEFINE N == Len(ts)
           D == { n \in 0..N : \A i \in 1..n : ts[i] < t - Period }
           n == Max(D)
<1>1. N \in Nat /\ \A i \in 1..N : ts[i] \in Nat
  BY LenProperties, ElementOfSeq
<1>2. 0 \in D /\ D \in SUBSET Nat /\ \A d \in D : d <= N
  BY <1>1
<1>3. n \in D /\ \A d \in D : d <= n
  <2> HIDE DEF D
  <2>1. D # {}
    BY <1>2
  <2> QED BY <1>1, <1>2, <2>1, MaxIsGreatest
<1>4. Prune(ts, t) = SubSeq(ts, n + 1, N)
  BY DEF Prune
<1>5. n \in 0..N /\ \A i \in 1..n : ts[i] < t - Period
  BY <1>3
<1>6. n < N => ts[n + 1] >= t - Period
  <2> SUFFICES ASSUME n < N, ~(ts[n + 1] >= t - Period) PROVE FALSE
    OBVIOUS
  <2> HIDE DEF n
  <2>1. ts[n + 1] < t - Period
    BY <1>1, <1>5, PeriodAssumption
  <2>2. \A i \in 1..(n + 1) : ts[i] < t - Period
    BY <1>5, <2>1
  <2>3. n + 1 \in D
    BY <1>1, <1>5, <2>2
  <2> QED BY <1>3, <1>5, <2>3
<1> HIDE DEF n, D
<1>7. /\ SubSeq(ts, n + 1, N) \in Seq(Nat) /\ Len(SubSeq(ts, n + 1, N)) = N - n
      /\ \A i \in 1..(N - n) : SubSeq(ts, n + 1, N)[i] = ts[n + i]
  BY <1>1, <1>5
<1> QED BY <1>4, <1>5, <1>6, <1>7

\* It keeps the times of the last records, and of those in the Period all.
LEMMA PruneRecent ==
  ASSUME NEW rec \in Seq(Records), NEW ms \in Seq(Nat), NEW t \in Nat, NEW u \in Nat,
         t <= u, Recent(ms, rec, t)
  PROVE  /\ Prune(ms, u) \in Seq(Nat)
         /\ Recent(Prune(ms, u), rec, u)
         /\ Len(Prune(ms, u)) > 0 => Prune(ms, u)[1] >= u - Period
<1> DEFINE qs == Prune(ms, u)
<1>1. Len(ms) \in Nat /\ Len(rec) \in Nat /\ \A i \in 1..Len(rec) : rec[i].time \in Nat
  BY LenProperties, RecordsAre
<1>2. PICK n \in 0..Len(ms) :
        /\ qs \in Seq(Nat) /\ Len(qs) = Len(ms) - n
        /\ \A i \in 1..(Len(ms) - n) : qs[i] = ms[n + i]
        /\ \A i \in 1..n : ms[i] < u - Period
        /\ n < Len(ms) => ms[n + 1] >= u - Period
  BY PruneIs
<1> HIDE DEF qs
<1>3. ASSUME NEW i \in 1..Len(qs) PROVE qs[i] = rec[Len(rec) - Len(qs) + i].time
  <2>1. n + i \in 1..Len(ms) /\ i \in 1..(Len(ms) - n)
    BY <1>1, <1>2
  <2>4. qs[i] = ms[n + i]
    BY <1>2, <2>1
  <2>2. ms[n + i] = rec[Len(rec) - Len(ms) + (n + i)].time
    BY <2>1 DEF Recent
  <2>3. Len(rec) - Len(ms) + (n + i) = Len(rec) - Len(qs) + i
    BY <1>1, <1>2
  <2> QED BY <2>2, <2>3, <2>4
<1>4. ASSUME NEW i \in 1..(Len(rec) - Len(qs)) PROVE rec[i].time < u - Period
  <2> DEFINE g == Len(rec) - Len(ms)
  <2>1. g \in Nat /\ Len(rec) - Len(qs) = g + n /\ i \in 1..Len(rec)
    BY <1>1, <1>2 DEF Recent
  <2>2. CASE i <= g
    <3>1. rec[i].time < t - Period
      BY <2>1, <2>2 DEF Recent
    <3> QED BY <1>1, <2>1, <3>1, PeriodAssumption
  <2>3. CASE i > g
    <3>1. i - g \in 1..n /\ g + (i - g) = i
      BY <1>2, <2>1, <2>3
    <3>2. ms[i - g] < u - Period
      BY <1>2, <3>1
    <3>3. ms[i - g] = rec[i].time
      <4>1. i - g \in 1..Len(ms)
        BY <1>1, <1>2, <3>1
      <4>2. ms[i - g] = rec[g + (i - g)].time
        BY <4>1 DEF Recent
      <4> QED BY <3>1, <4>2
    <3> QED BY <3>2, <3>3
  <2> QED BY <2>1, <2>2, <2>3
<1>5. Recent(qs, rec, u)
  <2>1. Len(qs) <= Len(rec)
    BY <1>1, <1>2 DEF Recent
  <2> QED BY <1>3, <1>4, <2>1 DEF Recent
<1>6. ASSUME Len(qs) > 0 PROVE qs[1] >= u - Period
  <2>1. n < Len(ms) /\ 1 \in 1..(Len(ms) - n)
    BY <1>1, <1>2, <1>6
  <2> QED BY <1>2, <2>1
<1> QED BY <1>2, <1>5, <1>6 DEF qs

\* So its length counts the records in the Period.
LEMMA RecentCounts ==
  ASSUME NEW rec \in Seq(Records), NEW ms \in Seq(Nat), NEW t \in Nat, Recent(ms, rec, t),
         Len(ms) > 0 => ms[1] >= t - Period,
         \A i, j \in 1..Len(rec) : i <= j => rec[i].time <= rec[j].time
  PROVE  Len(ms) = Cardinality({ i \in 1..Len(rec) : rec[i].time >= t - Period })
<1> DEFINE N == Len(rec)
           g == N - Len(ms)
           D == { i \in 1..N : rec[i].time >= t - Period }
<1>1. Len(ms) \in Nat /\ N \in Nat /\ \A i \in 1..N : rec[i].time \in Nat
  BY LenProperties, RecordsAre
<1>2. g \in 0..N
  BY <1>1 DEF Recent
<1>3. ASSUME NEW i \in 1..N PROVE i \in D <=> i \in (g + 1)..N
  <2>1. CASE i <= g
    <3>1. rec[i].time < t - Period
      BY <1>2, <2>1 DEF Recent
    <3> QED BY <1>1, <1>2, <2>1, <3>1, PeriodAssumption
  <2>2. CASE i > g
    <3>1. 1 \in 1..Len(ms) /\ g + 1 \in 1..N /\ g + 1 <= i /\ i \in (g + 1)..N
      BY <1>1, <1>2, <2>2
    <3>2. ms[1] = rec[g + 1].time
      BY <3>1 DEF Recent
    <3>3. rec[g + 1].time >= t - Period
      BY <1>1, <3>1, <3>2
    <3>4. rec[g + 1].time <= rec[i].time
      BY <3>1
    <3>5. rec[i].time >= t - Period
      <4> DEFINE x == rec[i].time
                 y == rec[g + 1].time
      <4>1. x \in Nat /\ y \in Nat /\ y <= x /\ y >= t - Period
        BY <1>1, <3>1, <3>3, <3>4
      <4> HIDE DEF x, y
      <4>2. x >= t - Period
        BY <4>1, PeriodAssumption
      <4> QED BY <4>2 DEF x
    <3> QED BY <3>1, <3>5
  <2> QED BY <1>2, <2>1, <2>2
<1>4. D = (g + 1)..N
  <2>1. D \subseteq 1..N /\ (g + 1)..N \subseteq 1..N
    BY <1>1, <1>2
  <2> HIDE DEF D, g
  <2> QED BY <1>3, <2>1
<1>5. Cardinality((g + 1)..N) = N - g
  <2> HIDE DEF g
  <2>1. N \in Int /\ g + 1 \in Int /\ g \in Int
    BY <1>1, <1>2
  <2>2. Cardinality((g + 1)..N) = IF g + 1 > N THEN 0 ELSE N - (g + 1) + 1
    BY <2>1, FS_Interval
  <2> QED BY <1>1, <1>2, <2>2
<1>6. N - g = Len(ms)
  BY <1>1
<1> HIDE DEF D, g, N
<1>7. Len(ms) = Cardinality(D)
  BY <1>4, <1>5, <1>6
<1> QED BY <1>7 DEF D, N

\* The k-th of the sorted latencies has k of the window at most as large, and all
\* from it on at least as large.
LEMMA SortedSplits ==
  ASSUME TrackerTypeOK, Latest(latencies, recorded),
         NEW t \in Sorted(latencies), NEW k \in 1..Len(latencies)
  PROVE  /\ t[k] \in Latencies
         /\ AtMost(t[k], Len(recorded)) >= k /\ AtMost(t[k], Len(recorded)) \in Nat
         /\ AtLeast(t[k], Len(recorded)) >= Len(latencies) - k + 1
         /\ AtLeast(t[k], Len(recorded)) \in Nat
<1> DEFINE N == Len(recorded)
           w == Len(latencies)
           v == t[k]
           d == N - w
<1>1. /\ N \in Nat /\ w \in Nat /\ maxLatencyWindow \in Nat
      /\ \A i \in 1..N : recorded[i].latency \in Latencies
      /\ \A i \in 1..w : latencies[i] \in Latencies
      /\ DOMAIN latencies = 1..w
  BY WindowAssumption, RecordsAre, LenProperties, ElementOfSeq DEF TrackerTypeOK, Records
<1>2. PICK p \in Bijection(1..w, 1..w) :
        /\ t = [i \in 1..w |-> latencies[p[i]]]
        /\ \A i, j \in DOMAIN t : i < j => t[i] <= t[j]
  BY <1>1 DEF Sorted
<1>3. /\ \A i \in 1..w : p[i] \in 1..w
      /\ \A i, j \in 1..w : p[i] = p[j] => i = j
  BY <1>2 DEF Bijection, Injection, IsInjective
<1>4. d \in 0..N /\ \A i \in 1..w : d + i \in WindowAfter(N) /\ latencies[i] = recorded[d + i].latency
  <2>1. w = (IF N < maxLatencyWindow THEN N ELSE maxLatencyWindow)
    BY DEF Latest
  <2>2. d \in 0..N /\ d + w = N
    BY <1>1, <2>1
  <2> SUFFICES ASSUME NEW i \in 1..w
               PROVE  d + i \in WindowAfter(N) /\ latencies[i] = recorded[d + i].latency
    BY <2>2
  <2>3. latencies[i] = recorded[d + i].latency
    BY DEF Latest
  <2> HIDE DEF d, w, N
  <2>4. d + i \in 1..N /\ d + i > N - maxLatencyWindow
    BY <1>1, <2>1, <2>2
  <2> QED BY <2>3, <2>4 DEF WindowAfter
<1>5. \A i \in 1..w : t[i] = recorded[d + p[i]].latency /\ t[i] \in Latencies
  BY <1>1, <1>2, <1>3, <1>4
<1>6. \A i, j \in 1..w : i <= j => t[i] <= t[j]
  <2>1. \A i \in 1..w : t[i] \in Nat
    BY <1>5, LatencyAssumption
  <2>2. \A i, j \in 1..w : i < j => t[i] <= t[j]
    BY <1>2
  <2> QED BY <2>1, <2>2
<1>7. v \in Latencies /\ k \in 1..w
  BY <1>5
<1> DEFINE Low == { i \in WindowAfter(N) : recorded[i].latency <= v }
           High == { i \in WindowAfter(N) : recorded[i].latency >= v }
<1>8. IsFiniteSet(Low) /\ IsFiniteSet(High)
  <2>1. Low \in SUBSET (1..N) /\ High \in SUBSET (1..N)
    BY DEF WindowAfter
  <2>2. IsFiniteSet(1..N)
    BY <1>1, FS_Interval
  <2> HIDE DEF Low, High
  <2> QED BY <2>1, <2>2, FS_Subset
<1>9. ASSUME NEW i \in 1..w, NEW j \in 1..w, d + p[i] = d + p[j] PROVE i = j
  <2> HIDE DEF d
  <2>1. p[i] \in Nat /\ p[j] \in Nat /\ d \in Nat
    BY <1>1, <1>3, <1>4
  <2>2. p[i] = p[j]
    BY <1>9, <2>1
  <2> QED BY <1>3, <2>2
<1>10. Cardinality(Low) >= k /\ Cardinality(Low) \in Nat
  <2> DEFINE f == [i \in 1..k |-> d + p[i]]
  <2>1. ASSUME NEW i \in 1..k PROVE d + p[i] \in Low
    <3>1. i \in 1..w /\ k \in 1..w /\ i <= k
      BY <1>1
    <3>2. p[i] \in 1..w /\ t[i] <= v
      BY <1>3, <1>6, <3>1
    <3> QED BY <1>4, <1>5, <3>1, <3>2
  <2> HIDE DEF Low
  <2>2. f \in Injection(1..k, Low)
    <3>0. \A i, j \in 1..k : i \in 1..w /\ j \in 1..w
      BY <1>1
    <3>1. \A i, j \in 1..k : d + p[i] = d + p[j] => i = j
      BY <1>9, <3>0
    <3>2. f \in [1..k -> Low]
      BY <2>1
    <3> QED BY <3>1, <3>2 DEF Injection, IsInjective
  <2>3. Cardinality(1..k) <= Cardinality(Low)
    <3> HIDE DEF f
    <3> QED BY <1>8, <2>2, FS_Injection
  <2>4. Cardinality(1..k) = k
    BY <1>1, FS_Interval
  <2> QED BY <1>8, <2>3, <2>4, FS_CardinalityType
<1>11. Cardinality(High) >= w - k + 1 /\ Cardinality(High) \in Nat
  <2> DEFINE f == [i \in k..w |-> d + p[i]]
  <2>1. ASSUME NEW i \in k..w PROVE d + p[i] \in High
    <3>1. i \in 1..w /\ k \in 1..w /\ k <= i
      BY <1>1
    <3>2. p[i] \in 1..w /\ t[k] <= t[i]
      BY <1>3, <1>6, <3>1
    <3>3. recorded[d + p[i]].latency >= v
      BY <1>5, <1>7, <3>1, <3>2, LatencyAssumption
    <3> QED BY <1>4, <3>2, <3>3
  <2> HIDE DEF High
  <2>2. f \in Injection(k..w, High)
    <3>1. \A i, j \in k..w : i \in 1..w /\ j \in 1..w
      BY <1>1
    <3>2. \A i, j \in k..w : d + p[i] = d + p[j] => i = j
      BY <1>9, <3>1
    <3>3. f \in [k..w -> High]
      BY <2>1
    <3> QED BY <3>2, <3>3 DEF Injection, IsInjective
  <2>3. Cardinality(k..w) <= Cardinality(High)
    <3> HIDE DEF f
    <3> QED BY <1>8, <2>2, FS_Injection
  <2>4. Cardinality(k..w) = w - k + 1
    <3>1. k \in Int /\ w \in Int /\ k <= w
      BY <1>1
    <3>2. Cardinality(k..w) = IF k > w THEN 0 ELSE w - k + 1
      BY <3>1, FS_Interval
    <3> QED BY <3>1, <3>2
  <2> QED BY <1>8, <2>3, <2>4, FS_CardinalityType
<1> QED BY <1>7, <1>10, <1>11 DEF AtMost, AtLeast

LEMMA WindowCounts ==
  ASSUME NEW n \in Nat
  PROVE  Cardinality(WindowAfter(n)) = IF n < maxLatencyWindow THEN n ELSE maxLatencyWindow
<1> DEFINE W == maxLatencyWindow
           a == IF n < W THEN 1 ELSE n - W + 1
<1>1. W \in Nat /\ W > 0
  BY WindowAssumption
<1>2. WindowAfter(n) = a..n
  BY <1>1 DEF WindowAfter
<1>3. a \in Int /\ n \in Int
  BY <1>1
<1> HIDE DEF a
<1>4. Cardinality(a..n) = IF a > n THEN 0 ELSE n - a + 1
  BY <1>3, FS_Interval
<1> USE DEF a
<1> QED BY <1>1, <1>2, <1>4

\* The indices that Snapshot takes give percentiles.
LEMMA IndicesArePercentiles ==
  ASSUME TrackerTypeOK, Latest(latencies, recorded),
         NEW t \in Sorted(latencies), NEW n, n = Len(latencies), n > 0
  PROVE  /\ t[P50Idx(n) + 1] \in Latencies /\ t[P99Idx(n) + 1] \in Latencies
         /\ IsPercentile(t[P50Idx(n) + 1], 50, Len(recorded))
         /\ IsPercentile(t[P99Idx(n) + 1], 99, Len(recorded))
<1>1. n \in Nat /\ Len(recorded) \in Nat
  BY LenProperties, RecordsAre DEF TrackerTypeOK, Records
<1>2. Cardinality(WindowAfter(Len(recorded))) = n
  BY <1>1, WindowCounts DEF Latest
<1>3. /\ P50Idx(n) \in Nat /\ P50Idx(n) + 1 \in 1..n /\ 100 * (P50Idx(n) + 1) >= 50 * n
      /\ 100 * (n - P50Idx(n)) >= 50 * n
  BY <1>1 DEF P50Idx
<1>4. /\ P99Idx(n) \in Nat /\ P99Idx(n) + 1 \in 1..n /\ 100 * (P99Idx(n) + 1) >= 99 * n
      /\ 100 * (n - P99Idx(n)) >= n
  BY <1>1 DEF P99Idx
<1>5. ASSUME NEW k \in 1..n, NEW pct \in {50, 99},
             100 * k >= pct * n, 100 * (n - k + 1) >= (100 - pct) * n
      PROVE  t[k] \in Latencies /\ IsPercentile(t[k], pct, Len(recorded))
  <2> DEFINE lo == AtMost(t[k], Len(recorded))
             hi == AtLeast(t[k], Len(recorded))
  <2>1. t[k] \in Latencies /\ lo \in Nat /\ lo >= k /\ hi \in Nat /\ hi >= n - k + 1
    BY SortedSplits
  <2> HIDE DEF lo, hi
  <2>2. 100 * lo >= pct * n /\ 100 * hi >= (100 - pct) * n
    BY <1>1, <1>5, <2>1
  <2> QED BY <1>2, <2>1, <2>2 DEF IsPercentile, lo, hi
<1> DEFINE a == P50Idx(n) + 1
           b == P99Idx(n) + 1
<1>6. a \in 1..n /\ 100 * a >= 50 * n /\ 100 * (n - a + 1) >= (100 - 50) * n
  BY <1>1, <1>3
<1>7. b \in 1..n /\ 100 * b >= 99 * n /\ 100 * (n - b + 1) >= (100 - 99) * n
  BY <1>1, <1>4
<1> HIDE DEF a, b
<1>8. /\ t[a] \in Latencies /\ IsPercentile(t[a], 50, Len(recorded))
      /\ t[b] \in Latencies /\ IsPercentile(t[b], 99, Len(recorded))
  BY <1>5, <1>6, <1>7
<1> QED BY <1>8 DEF a, b

LEMMA SlideLatest ==
  ASSUME NEW rec \in Seq(Records), NEW ls \in Seq(Latencies), Latest(ls, rec),
         NEW r \in Records, NEW l, l = r.latency
  PROVE  Slide(ls, l) \in Seq(Latencies) /\ Latest(Slide(ls, l), Append(rec, r))
<1> DEFINE N == Len(rec)
           W == maxLatencyWindow
           kept == IF Len(ls) >= W THEN Tail(ls) ELSE ls
           d == IF Len(ls) >= W THEN 1 ELSE 0
           new == Append(rec, r)
           sl == Slide(ls, l)
<1>1. W \in Nat /\ W > 0 /\ N \in Nat /\ Len(ls) \in Nat /\ l \in Latencies
  BY WindowAssumption, RecordsAre, LenProperties DEF Records
<1>2. Len(ls) = IF N < W THEN N ELSE W
  BY DEF Latest
<1>3. d \in 0..1 /\ d <= Len(ls)
  BY <1>1, <1>2
<1>4. kept \in Seq(Latencies) /\ Len(kept) = Len(ls) - d /\ \A i \in 1..(Len(ls) - d) : kept[i] = ls[i + d]
  <2>1. CASE Len(ls) >= W
    <3>1. ls # <<>>
      BY <1>1, <2>1
    <3>2. Tail(ls) \in Seq(Latencies) /\ Len(Tail(ls)) = Len(ls) - 1
          /\ \A i \in 1..(Len(ls) - 1) : Tail(ls)[i] = ls[i + 1]
      BY <3>1, HeadTailProperties
    <3> QED BY <2>1, <3>2
  <2>2. CASE ~(Len(ls) >= W)
    BY <1>1, <2>2
  <2> QED BY <2>1, <2>2
<1>5. sl = Append(kept, l)
  BY DEF Slide
<1>6. Len(new) = N + 1 /\ new[N + 1] = r /\ \A i \in 1..N : new[i] = rec[i]
  BY AppendProperties
<1>7. d = (IF Len(ls) >= W THEN 1 ELSE 0)
  OBVIOUS
<1> HIDE DEF kept, sl, new, N, W, d
<1>8. /\ sl \in Seq(Latencies) /\ Len(sl) = Len(kept) + 1 /\ sl[Len(kept) + 1] = l
      /\ \A i \in 1..Len(kept) : sl[i] = kept[i]
  BY <1>1, <1>4, <1>5, AppendProperties
<1>9. Len(sl) = IF N + 1 < W THEN N + 1 ELSE W
  BY <1>1, <1>2, <1>4, <1>7, <1>8
<1>10. ASSUME NEW i \in 1..Len(sl) PROVE sl[i] = new[Len(new) - Len(sl) + i].latency
  <2>1. Len(sl) = Len(ls) - d + 1 /\ Len(kept) = Len(ls) - d
    BY <1>4, <1>8
  <2>2. CASE i = Len(sl)
    <3>1. Len(new) - Len(sl) + i = N + 1 /\ sl[i] = l
      BY <1>1, <1>3, <1>6, <1>8, <2>1, <2>2
    <3> QED BY <1>6, <3>1
  <2>3. CASE i # Len(sl)
    <3>1. i \in 1..(Len(ls) - d) /\ i + d \in 1..Len(ls) /\ N - Len(ls) + (i + d) \in 1..N
      BY <1>1, <1>2, <1>3, <2>1, <2>3
    <3>2. sl[i] = ls[i + d]
      BY <1>4, <1>8, <3>1
    <3>3. ls[i + d] = rec[N - Len(ls) + (i + d)].latency
      BY <3>1 DEF Latest, N
    <3>4. Len(new) - Len(sl) + i = N - Len(ls) + (i + d)
      BY <1>1, <1>3, <1>6, <2>1
    <3> QED BY <1>6, <3>1, <3>2, <3>3, <3>4
  <2> QED BY <2>2, <2>3
<1>11. Latest(sl, new)
  <2>1. Len(new) = N + 1
    BY <1>6
  <2>2. \A i \in 1..Len(sl) : sl[i] = new[Len(new) - Len(sl) + i].latency
    BY <1>10
  <2>3. Len(sl) = IF Len(new) < maxLatencyWindow THEN Len(new) ELSE maxLatencyWindow
    BY <1>9, <2>1 DEF W
  <2> QED BY <2>2, <2>3 DEF Latest
<1> QED BY <1>8, <1>11 DEF sl, new

LEMMA RecordRecent ==
  ASSUME NEW rec \in Seq(Records), NEW ms \in Seq(Nat), NEW t \in Nat, Recent(ms, rec, t),
         NEW r \in Records, r.time = t
  PROVE  Recent(Append(ms, t), Append(rec, r), t)
<1> DEFINE N == Len(rec)
           M == Len(ms)
           a == Append(ms, t)
           new == Append(rec, r)
<1>1. N \in Nat /\ M \in Nat
  BY LenProperties
<1>2. M <= N /\ (\A i \in 1..M : ms[i] = rec[N - M + i].time) /\ \A i \in 1..(N - M) : rec[i].time < t - Period
  BY DEF Recent
<1>3. Len(new) = N + 1 /\ new[N + 1] = r /\ \A i \in 1..N : new[i] = rec[i]
  BY AppendProperties
<1>4. Len(a) = M + 1 /\ a[M + 1] = t /\ \A i \in 1..M : a[i] = ms[i]
  BY AppendProperties
<1> HIDE DEF N, M, a, new
<1>5. ASSUME NEW i \in 1..(M + 1) PROVE a[i] = new[N - M + i].time
  <2>1. CASE i = M + 1
    BY <1>1, <1>3, <1>4, <2>1
  <2>2. CASE i # M + 1
    <3>1. i \in 1..M /\ N - M + i \in 1..N
      BY <1>1, <1>2, <2>2
    <3> QED BY <1>2, <1>3, <1>4, <3>1
  <2> QED BY <2>1, <2>2
<1>6. ASSUME NEW i \in 1..(N - M) PROVE new[i].time < t - Period
  <2>1. i \in 1..N
    BY <1>1
  <2> QED BY <1>2, <1>3, <2>1
<1>7. Len(new) - Len(a) = N - M /\ Len(a) <= Len(new)
  BY <1>1, <1>2, <1>3, <1>4
<1>8. Recent(a, new, t)
  BY <1>4, <1>5, <1>6, <1>7 DEF Recent
<1> QED BY <1>8 DEF a, new

LEMMA TrackerBegins == TrackerInit => TrackerInv
<1> SUFFICES ASSUME TrackerInit PROVE TrackerInv
  OBVIOUS
<1> USE DEF TrackerInit, NewProtocolTracker
<1>1. TrackerTypeOK
  <2>1. <<>> \in Seq(Latencies) /\ <<>> \in Seq(Nat)
        /\ <<>> \in Seq([latency : Latencies, time : Nat]) /\ Len(<<>>) <= maxLatencyWindow
    BY WindowAssumption
  <2> QED BY <2>1 DEF TrackerTypeOK
<1>2. Len(recorded) = 0 /\ Len(latencies) = 0 /\ Len(messageTimes) = 0
  OBVIOUS
<1>3. TimesInOrder
  BY <1>2 DEF TimesInOrder
<1>4. Latest(latencies, recorded) /\ Recent(messageTimes, recorded, now)
  BY <1>2, WindowAssumption DEF Latest, Recent
<1>5. PercentilesOfWindow
  BY DEF PercentilesOfWindow
<1>6. ThroughputExact
  <2>1. { i \in 1..taken.records : recorded[i].time >= taken.at - Period } = {}
    OBVIOUS
  <2> QED BY <2>1, FS_EmptySet DEF ThroughputExact
<1> QED BY <1>1, <1>2, <1>3, <1>4, <1>5, <1>6 DEF TrackerInv

\* What a snapshot said stays true of the records before it.
LEMMA SnapshotStays ==
  ASSUME TrackerTypeOK, PercentilesOfWindow, ThroughputExact, UNCHANGED <<snap, taken>>,
         \A i \in 1..taken.records : recorded'[i] = recorded[i]
  PROVE  PercentilesOfWindow' /\ ThroughputExact'
<1> DEFINE n == taken.records
<1>1. n \in Nat
  BY DEF TrackerTypeOK
<1>2. \A v : AtMost(v, n)' = AtMost(v, n) /\ AtLeast(v, n)' = AtLeast(v, n)
  <2> TAKE v
  <2>1. { i \in WindowAfter(n) : recorded'[i].latency <= v } = { i \in WindowAfter(n) : recorded[i].latency <= v }
    BY DEF WindowAfter
  <2>2. { i \in WindowAfter(n) : recorded'[i].latency >= v } = { i \in WindowAfter(n) : recorded[i].latency >= v }
    BY DEF WindowAfter
  <2> QED BY <2>1, <2>2 DEF AtMost, AtLeast
<1>3. PercentilesOfWindow'
  BY <1>2 DEF PercentilesOfWindow, IsPercentile
<1>4. { i \in 1..n : recorded'[i].time >= taken.at - Period } = { i \in 1..n : recorded[i].time >= taken.at - Period }
  OBVIOUS
<1>5. ThroughputExact'
  BY <1>4 DEF ThroughputExact
<1> QED BY <1>3, <1>5

LEMMA RecordStep ==
  ASSUME TrackerInv, NEW l \in Latencies, NEW later \in 0..MaxTime, Record(l, later)
  PROVE  TrackerInv'
<1> DEFINE r == [latency |-> l, time |-> now]
           N == Len(recorded)
<1>1. /\ now' = later /\ now <= later /\ now \in Nat /\ later \in Nat
      /\ latencies' = Slide(latencies, l)
      /\ messageTimes' = Prune(Append(messageTimes, now), later)
      /\ recorded' = Append(recorded, r)
      /\ UNCHANGED <<snap, taken>>
  BY BoundAssumption DEF Record, TrackerInv, TrackerTypeOK
<1>2. /\ recorded \in Seq(Records) /\ latencies \in Seq(Latencies) /\ messageTimes \in Seq(Nat)
      /\ Latest(latencies, recorded) /\ Recent(messageTimes, recorded, now) /\ N \in Nat
  BY LenProperties DEF TrackerInv, TrackerTypeOK, Records
<1>3. r \in Records /\ r.latency = l /\ r.time = now
  BY <1>1 DEF Records
<1> HIDE DEF r
<1>4. /\ recorded' \in Seq(Records) /\ Len(recorded') = N + 1 /\ recorded'[N + 1] = r
      /\ \A i \in 1..N : recorded'[i] = recorded[i]
  BY <1>1, <1>2, <1>3, AppendProperties
<1>5. latencies' \in Seq(Latencies) /\ Latest(latencies', recorded')
  BY <1>1, <1>2, <1>3, SlideLatest
<1>6. messageTimes' \in Seq(Nat) /\ Recent(messageTimes', recorded', now')
  <2>1. Append(messageTimes, now) \in Seq(Nat)
    BY <1>1, <1>2, AppendProperties
  <2>2. Recent(Append(messageTimes, now), recorded', now)
    BY <1>1, <1>2, <1>3, RecordRecent
  <2> QED BY <1>1, <1>4, <2>1, <2>2, PruneRecent
<1> HIDE DEF N
<1>7. TimesInOrder'
  <2>1. \A i \in 1..N : recorded[i].time <= now /\ recorded[i].time \in Nat
    BY <1>2, RecordsAre DEF TrackerInv, TimesInOrder, N
  <2>2. \A i, j \in 1..N : i <= j => recorded[i].time <= recorded[j].time
    BY DEF TrackerInv, TimesInOrder, N
  <2>3. \A i \in 1..(N + 1) : recorded'[i].time \in Nat /\ recorded'[i].time <= now
    BY <1>1, <1>2, <1>3, <1>4, <2>1
  <2>4. ASSUME NEW i \in 1..(N + 1), NEW j \in 1..(N + 1), i <= j
        PROVE  recorded'[i].time <= recorded'[j].time
    <3>1. CASE j = N + 1
      BY <1>3, <1>4, <2>3, <3>1
    <3>2. CASE j # N + 1
      <4>1. i \in 1..N /\ j \in 1..N
        BY <1>2, <2>4, <3>2
      <4> QED BY <1>4, <2>2, <2>4, <4>1
    <3> QED BY <3>1, <3>2
  <2>5. ASSUME NEW i \in 1..(N + 1) PROVE recorded'[i].time <= later
    <3> DEFINE tm == recorded'[i].time
    <3>1. tm \in Nat /\ tm <= now
      BY <2>3
    <3> HIDE DEF tm
    <3>2. tm <= later
      BY <1>1, <3>1
    <3> QED BY <3>2 DEF tm
  <2> QED BY <1>1, <1>4, <2>4, <2>5 DEF TimesInOrder
<1>8. taken.records \in Nat /\ taken.records <= N
  BY DEF TrackerInv, TrackerTypeOK, N
<1>9. PercentilesOfWindow' /\ ThroughputExact'
  BY <1>1, <1>2, <1>4, <1>8, SnapshotStays DEF TrackerInv
<1>10. Len(latencies') <= maxLatencyWindow
  BY <1>2, <1>4, <1>5, WindowAssumption DEF Latest
<1>11. TrackerTypeOK'
  BY <1>1, <1>4, <1>5, <1>6, <1>10 DEF TrackerInv, TrackerTypeOK, Records
<1> QED BY <1>1, <1>2, <1>4, <1>5, <1>6, <1>7, <1>8, <1>9, <1>11 DEF TrackerInv

LEMMA SnapshotStep ==
  ASSUME TrackerInv, Snapshot
  PROVE  TrackerInv'
<1> DEFINE n == Len(latencies)
           N == Len(recorded)
<1>1. PICK t \in Sorted(latencies) :
        /\ messageTimes' = Prune(messageTimes, now)
        /\ snap' = [p50 |-> IF Len(t) > 0 THEN t[P50Idx(Len(t)) + 1] ELSE 0,
                    p99 |-> IF Len(t) > 0 THEN t[P99Idx(Len(t)) + 1] ELSE 0,
                    messages |-> Len(messageTimes')]
        /\ taken' = [at |-> now, records |-> N]
        /\ UNCHANGED <<now, latencies, recorded>>
  BY DEF Snapshot
<1>2. /\ recorded \in Seq(Records) /\ latencies \in Seq(Latencies) /\ messageTimes \in Seq(Nat)
      /\ Latest(latencies, recorded) /\ Recent(messageTimes, recorded, now) /\ now \in Nat
      /\ n \in Nat /\ N \in Nat
  BY LenProperties DEF TrackerInv, TrackerTypeOK, Records
<1>3. Len(t) = n
  <2>1. DOMAIN t = 1..n
    BY <1>2, LenProperties DEF Sorted
  <2>2. t = [i \in 1..n |-> t[i]]
    BY <1>2, <2>1 DEF Sorted
  <2> HIDE DEF n
  <2> QED BY <1>2, <2>2
<1>4. /\ messageTimes' \in Seq(Nat)
      /\ Recent(messageTimes', recorded, now)
      /\ Len(messageTimes') > 0 => messageTimes'[1] >= now - Period
  <2> DEFINE qs == Prune(messageTimes, now)
  <2>1. qs \in Seq(Nat) /\ Recent(qs, recorded, now) /\ (Len(qs) > 0 => qs[1] >= now - Period)
    BY <1>2, PruneRecent
  <2>2. messageTimes' = qs
    BY <1>1
  <2> HIDE DEF qs
  <2> QED BY <2>1, <2>2
<1>5. Len(messageTimes') = Cardinality({ i \in 1..N : recorded[i].time >= now - Period })
  BY <1>2, <1>4, RecentCounts DEF TrackerInv, TimesInOrder
<1>6. ASSUME n > 0
      PROVE  /\ snap'.p50 \in Latencies /\ snap'.p99 \in Latencies
             /\ IsPercentile(snap'.p50, 50, N) /\ IsPercentile(snap'.p99, 99, N)
  BY <1>1, <1>2, <1>3, <1>6, IndicesArePercentiles DEF TrackerInv
<1>7. snap' \in [p50 : Latencies \cup {0}, p99 : Latencies \cup {0}, messages : Nat]
  <2>1. Len(messageTimes') \in Nat
    BY <1>4, LenProperties
  <2> QED BY <1>1, <1>2, <1>3, <1>6, <2>1
<1>8. TrackerTypeOK'
  BY <1>1, <1>2, <1>4, <1>7 DEF TrackerInv, TrackerTypeOK
<1>9. n > 0 <=> N > 0
  BY <1>2, WindowAssumption DEF Latest
<1>10. PercentilesOfWindow'
  <2>1. \A v, pct : IsPercentile(v, pct, N)' <=> IsPercentile(v, pct, N)
    BY <1>1 DEF IsPercentile, AtMost, AtLeast, WindowAfter
  <2> QED BY <1>1, <1>6, <1>9 DEF PercentilesOfWindow, IsPercentile, AtMost, AtLeast, WindowAfter
<1>11. ThroughputExact'
  BY <1>1, <1>5 DEF ThroughputExact
<1>12. TimesInOrder'
  BY <1>1 DEF TrackerInv, TimesInOrder
<1> QED BY <1>1, <1>2, <1>4, <1>8, <1>10, <1>11, <1>12 DEF TrackerInv

LEMMA TrackerStep == TrackerInv /\ [TrackerNext]_trackerVars => TrackerInv'
<1> SUFFICES ASSUME TrackerInv, [TrackerNext]_trackerVars PROVE TrackerInv'
  OBVIOUS
<1>1. CASE Tick
  <2>1. /\ now \in Nat /\ now' = now + 1
        /\ UNCHANGED <<latencies, messageTimes, snap, recorded, taken>>
    BY <1>1 DEF Tick, TrackerInv, TrackerTypeOK
  <2>2. TrackerTypeOK'
    BY <2>1 DEF TrackerInv, TrackerTypeOK
  <2>3. \A i \in 1..Len(recorded) : recorded[i].time \in Nat
    BY RecordsAre DEF TrackerInv, TrackerTypeOK, Records
  <2>4. TimesInOrder'
    BY <2>1, <2>3 DEF TrackerInv, TimesInOrder
  <2>5. Recent(messageTimes, recorded, now')
    <3>1. Len(recorded) \in Nat /\ Len(messageTimes) \in Nat
      BY LenProperties DEF TrackerInv, TrackerTypeOK
    <3>2. ASSUME NEW i \in 1..(Len(recorded) - Len(messageTimes))
          PROVE  recorded[i].time < now' - Period
      <4>1. i \in 1..Len(recorded) /\ recorded[i].time < now - Period
        BY <3>1 DEF TrackerInv, Recent
      <4> QED BY <2>1, <2>3, <4>1, PeriodAssumption
    <3> QED BY <3>2 DEF TrackerInv, Recent
  <2>6. PercentilesOfWindow' /\ ThroughputExact'
    BY <2>1, SnapshotStays DEF TrackerInv
  <2> QED BY <2>1, <2>2, <2>4, <2>5, <2>6 DEF TrackerInv
<1>2. ASSUME NEW l \in Latencies, NEW later \in 0..MaxTime, Record(l, later) PROVE TrackerInv'
  BY <1>2, RecordStep
<1>3. CASE Snapshot
  BY <1>3, SnapshotStep
<1>4. CASE UNCHANGED trackerVars
  <2>1. UNCHANGED <<now, latencies, messageTimes, snap, recorded, taken>>
    BY <1>4 DEF trackerVars
  <2>2. PercentilesOfWindow' /\ ThroughputExact'
    BY <2>1, SnapshotStays DEF TrackerInv
  <2> QED BY <2>1, <2>2 DEF TrackerInv, TrackerTypeOK, TimesInOrder
<1> QED BY <1>1, <1>2, <1>3, <1>4 DEF TrackerNext

\* TrackerTypeOK: the window never holds more than maxLatencyWindow latencies.
THEOREM TrackerTypeCorrect == TrackerSpec => []TrackerTypeOK
<1>1. TrackerInv => TrackerTypeOK
  BY DEF TrackerInv
<1> QED BY <1>1, TrackerBegins, TrackerStep, PTL DEF TrackerSpec

\* SnapshotExact: the percentiles of a snapshot divide the latest latencies as they
\* say, and its throughput counts exactly the messages of the Period before it, for
\* every length of the window and every period.
THEOREM SnapshotsAreExact == TrackerSpec => []SnapshotExact
<1>1. TrackerInv => SnapshotExact
  BY DEF TrackerInv, SnapshotExact
<1> QED BY <1>1, TrackerBegins, TrackerStep, PTL DEF TrackerSpec
================================================================================
