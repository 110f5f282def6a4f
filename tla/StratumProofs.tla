--------------------------- MODULE StratumProofs ---------------------------
(***************************************************************************)
(* Proofs about Stratum for every number of connections, jobs and shares,   *)
(* every hash function and all limits: it uses the job manager as JobManager*)
(* says, so what is proved of that module holds in it, and it never refuses *)
(* an honest share for its difficulty.                                      *)
(***************************************************************************)
EXTENDS Stratum, SequenceTheorems, TLAPS

JMP == INSTANCE JobManagerProofs

LEMMA JMConstants == JMP!ConstantsAssumption
BY StratumAssumption DEF JMP!ConstantsAssumption

(* JM and JMP are two instances of one module. *)
LEMMA SameStep == [JM!Next]_(JM!vars) <=> [JMP!Next]_(JMP!vars)
BY DEF JM!Next, JMP!Next, JM!MakeJob, JMP!MakeJob, JM!VerifySubmit, JMP!VerifySubmit,
       JM!Tick, JMP!Tick, JM!Submission, JMP!Submission, JM!JobIds, JMP!JobIds,
       JM!Times, JMP!Times, JM!Verdict, JMP!Verdict, JM!Header, JMP!Header, JM!Key,
       JMP!Key, JM!Put, JMP!Put, JM!Only, JMP!Only, JM!WellFormed, JMP!WellFormed,
       JM!NtimeInRange, JMP!NtimeInRange, JM!MeetsTarget, JMP!MeetsTarget, JM!Accepts,
       JMP!Accepts, JM!SeenAfterPrune, JMP!SeenAfterPrune, JM!JobsAfterPrune,
       JMP!JobsAfterPrune, JM!NextId, JMP!NextId, JM!NewJob, JMP!NewJob, JM!Retired,
       JMP!Retired, JM!jobVars, JMP!jobVars, JM!vars, JMP!vars

LEMMA SameInit == JM!Init <=> JMP!Init
BY DEF JM!Init, JMP!Init

LEMMA SameTypeOK == JM!TypeOK <=> JMP!TypeOK
BY DEF JM!TypeOK, JMP!TypeOK, JM!Job, JMP!Job

-----------------------------------------------------------------------------
(* Types. *)

(* The server's own part of TypeOK. *)
ServerTypes ==
  /\ now \in JM!Times
  /\ currentDiff \in Diffs
  /\ lastJob \in [id : JM!JobIds \cup {NoJob}, ntime : JM!Times, diff : Diffs,
                  quantum : BOOLEAN]
  /\ lastPush \in Int

SessionTypes ==
  /\ conn \in [Conns -> Conn]
  /\ inbuf \in [Conns -> Seq(Line)]
  /\ reading \in Conns \cup {NoConn}
  /\ reading # NoConn => inbuf[reading] # << >>
  /\ up \in [Conns -> Seq(Line)]
  /\ down \in [Conns -> Seq(Item)]
  /\ miner \in [Conns -> Miner]

LEMMA TypeParts == TypeOK <=> JM!TypeOK /\ ServerTypes /\ SessionTypes
BY DEF TypeOK, ServerTypes, SessionTypes

(* The submission of a submit line is one the job manager knows. *)
LEMMA SubmittedType ==
  ASSUME TypeOK, NEW c \in Conns, FirstIs(c, "submit")
  PROVE  Submitted(c) \in JM!Submission
<1>1. conn[c].ex1 \in Ex1s
  BY DEF TypeOK, Conn
<1>2. Head(inbuf[c]) \in Line
  BY HeadTailProperties DEF TypeOK, FirstIs
<1>3. Head(inbuf[c]).share \in Share
  BY <1>2 DEF Line, Methods, FirstIs
<1> QED BY <1>1, <1>3 DEF Submitted, Completed, Share, JM!Submission

LEMMA MakeLastJobTypes ==
  ASSUME TypeOK, NEW d \in Diffs, NEW q \in BOOLEAN, MakeLastJob(d, q)
  PROVE  /\ lastJob' \in [id : JM!JobIds \cup {NoJob}, ntime : JM!Times, diff : Diffs,
                          quantum : BOOLEAN]
         /\ lastJob'.id = jobCounter + 1
         /\ lastJob'.diff = d
<1>1. jobCounter \in Nat /\ jobCounter < MaxJobs /\ now \in JM!Times
  BY DEF TypeOK, JM!TypeOK, MakeLastJob, JM!MakeJob
<1>2. JM!NextId \in JM!JobIds
  BY <1>1, StratumAssumption DEF JM!NextId, JM!JobIds
<1> QED BY <1>1, <1>2 DEF MakeLastJob, JM!NextId

(* Every step is a step of the job manager or leaves it alone. *)
LEMMA StepOfJobManager ==
  ASSUME TypeOK, [Next]_vars
  PROVE  [JM!Next]_(JM!vars)
<1>1. ASSUME NEW d \in Diffs, NEW q \in BOOLEAN, MakeLastJob(d, q), UNCHANGED now
      PROVE  JM!Next
  BY <1>1 DEF JM!Next, MakeLastJob
<1>2. ASSUME UNCHANGED jmVars, UNCHANGED now PROVE UNCHANGED (JM!vars)
  BY <1>2 DEF jmVars, JM!vars
<1>3. ASSUME NEW d \in Diffs, BroadcastQuantumJob(d) \/ BroadcastDifficulty(d) PROVE JM!Next
  BY <1>1, <1>3 DEF BroadcastQuantumJob, BroadcastDifficulty
<1>4. ASSUME NEW c \in Conns, Accept(c) \/ Receive(c) PROVE UNCHANGED (JM!vars)
  BY <1>2, <1>4 DEF Accept, Receive
<1>5. ASSUME NEW c \in Conns,
             HandleSubscribe(c) \/ HandleAuthorize(c) \/ HandleOther(c) \/ Throttle(c)
      PROVE  UNCHANGED (JM!vars)
  BY <1>2, <1>5 DEF HandleSubscribe, HandleAuthorize, HandleOther, Throttle
<1>6. ASSUME NEW c \in Conns, HandleSubmit(c) PROVE [JM!Next]_(JM!vars)
  <2>1. Submitted(c) \in JM!Submission
    BY <1>6, SubmittedType DEF HandleSubmit
  <2>2. CASE JM!VerifySubmit(Submitted(c))
    BY <1>6, <2>1, <2>2 DEF JM!Next, HandleSubmit
  <2>3. CASE UNCHANGED jmVars
    BY <1>2, <1>6, <2>3 DEF HandleSubmit
  <2> QED BY <1>6, <2>2, <2>3 DEF HandleSubmit, Judge
<1>7. ASSUME Housekeeping PROVE [JM!Next]_(JM!vars)
  <2>1. currentDiff \in Diffs /\ lastJob.quantum \in BOOLEAN
    BY DEF TypeOK
  <2> QED BY <1>1, <1>2, <1>7, <2>1 DEF Housekeeping
<1>8. ASSUME NEW c \in Conns, NEW a, Ask(c, a) PROVE UNCHANGED (JM!vars)
  BY <1>2, <1>8 DEF Ask, MinerUnchanged
<1>9. ASSUME NEW c \in Conns, Hear(c) \/ Leave(c) PROVE UNCHANGED (JM!vars)
  BY <1>2, <1>9 DEF Hear, Leave, MinerUnchanged
<1>10. ASSUME NEW c \in Conns, NEW e, NEW t, NEW n, NEW v, FindShare(c, e, t, n, v)
       PROVE  UNCHANGED (JM!vars)
  BY <1>2, <1>10 DEF FindShare, MinerUnchanged
<1>11. ASSUME Tick PROVE JM!Next
  BY <1>11 DEF Tick, JM!Next
<1>12. ASSUME UNCHANGED vars PROVE UNCHANGED (JM!vars)
  BY <1>12 DEF vars, JM!vars
<1> QED BY <1>3, <1>4, <1>5, <1>6, <1>7, <1>8, <1>9, <1>10, <1>11, <1>12
        DEF Next, Server, Miners, HandleLine

(* The miners touch nothing of the server. *)
LEMMA MinersKeep ==
  ASSUME Miners PROVE MinerUnchanged /\ UNCHANGED <<now, conn, inbuf, currentDiff, lastJob,
                                                   lastPush, reading>>
<1>1. PICK c \in Conns : \/ \E method \in Methods : Ask(c, method)
                         \/ Hear(c)
                         \/ \E ex2 \in Ex2s, ntime \in Ntimes, nonce \in Nonces,
                                vbits \in VersionBits :
                               FindShare(c, ex2, ntime, nonce, vbits)
                         \/ Leave(c)
  BY DEF Miners
<1>2. ASSUME NEW method \in Methods, Ask(c, method) PROVE MinerUnchanged
  BY <1>2 DEF Ask
<1>3. ASSUME Hear(c) PROVE MinerUnchanged
  BY <1>3 DEF Hear
<1>4. ASSUME NEW ex2 \in Ex2s, NEW ntime \in Ntimes, NEW nonce \in Nonces,
             NEW vbits \in VersionBits, FindShare(c, ex2, ntime, nonce, vbits)
      PROVE  MinerUnchanged
  BY <1>4 DEF FindShare
<1>5. ASSUME Leave(c) PROVE MinerUnchanged
  BY <1>5 DEF Leave
<1>6. MinerUnchanged
  BY <1>1, <1>2, <1>3, <1>4, <1>5
<1> QED BY <1>6 DEF MinerUnchanged, serverVars

LEMMA ServerTypesStep ==
  ASSUME TypeOK, [Next]_vars
  PROVE  ServerTypes'
<1>1. ServerTypes
  BY TypeParts
<1>2. ASSUME UNCHANGED <<now, currentDiff, lastJob, lastPush>> PROVE ServerTypes'
  BY <1>1, <1>2 DEF ServerTypes
<1>3. ASSUME NEW d \in Diffs, NEW q \in BOOLEAN, MakeLastJob(d, q), now' = now,
             currentDiff' \in Diffs, lastPush' \in Int
      PROVE  ServerTypes'
  BY <1>1, <1>3, MakeLastJobTypes DEF ServerTypes
<1>4. ASSUME NEW d \in Diffs, BroadcastQuantumJob(d) \/ BroadcastDifficulty(d)
      PROVE  ServerTypes'
  BY <1>1, <1>3, <1>4 DEF BroadcastQuantumJob, BroadcastDifficulty, ServerTypes
<1>5. ASSUME NEW c \in Conns, Accept(c) \/ Receive(c) \/ HandleLine(c) PROVE ServerTypes'
  BY <1>2, <1>5 DEF Accept, Receive, HandleLine, HandleSubscribe, HandleAuthorize,
                    HandleOther, Throttle, HandleSubmit
<1>6. ASSUME Housekeeping PROVE ServerTypes'
  <2>1. currentDiff \in Diffs /\ lastJob.quantum \in BOOLEAN /\ lastPush \in Int /\ now \in Int
    BY <1>1 DEF ServerTypes, JM!Times
  <2>2. CASE PushDue
    BY <1>3, <1>6, <2>1, <2>2 DEF Housekeeping
  <2>3. CASE ~ PushDue
    BY <1>2, <1>6, <2>3 DEF Housekeeping
  <2> QED BY <2>2, <2>3
<1>7. ASSUME Miners PROVE ServerTypes'
  BY <1>2, <1>7, MinersKeep
<1>8. ASSUME Tick PROVE ServerTypes'
  BY <1>1, <1>8, StratumAssumption DEF Tick, JM!Tick, JM!Times, ServerTypes, serverVars
<1>9. ASSUME UNCHANGED vars PROVE ServerTypes'
  BY <1>2, <1>9 DEF vars
<1> QED BY <1>4, <1>5, <1>6, <1>7, <1>8, <1>9 DEF Next, Server

(* Items the server sends are of type Item. *)
LEMMA PushTypes ==
  ASSUME NEW d \in Diffs \cup {NoDiff}, NEW clean \in BOOLEAN,
         NEW j \in [id : JM!JobIds \cup {NoJob}, ntime : JM!Times, diff : Diffs,
                    quantum : BOOLEAN]
  PROVE  Push(d, j, clean) \in Item
BY DEF Push, Item

LEMMA TellTypes ==
  ASSUME NEW d \in Diffs
  PROVE  Tell(d) \in Item
<1>1. 0 \in JM!Times
  BY StratumAssumption DEF JM!Times
<1> QED BY <1>1 DEF Tell, Item

LEMMA RecordTypes ==
  /\ Fresh \in Conn
  /\ Closed \in Conn
  /\ NewMiner \in Miner
  /\ \A t \in Nat : [Fresh EXCEPT !.state = "open", !.lastRx = t] \in Conn
<1>1. 0 \in JM!Times
  BY StratumAssumption DEF JM!Times
<1>2. Fresh \in Conn
  BY StratumAssumption DEF Fresh, Conn
<1>3. Closed \in Conn
  BY <1>2 DEF Closed, Conn
<1>4. NewMiner \in Miner
  BY <1>1 DEF NewMiner, Miner, Methods
<1>5. ASSUME NEW t \in Nat PROVE [Fresh EXCEPT !.state = "open", !.lastRx = t] \in Conn
  BY <1>2 DEF Conn
<1> QED BY <1>2, <1>3, <1>4, <1>5

LEMMA CloseConnsTypes ==
  ASSUME SessionTypes, NEW S \in SUBSET Conns, CloseConns(S)
  PROVE  /\ conn' \in [Conns -> Conn]
         /\ inbuf' \in [Conns -> Seq(Line)]
         /\ up' \in [Conns -> Seq(Line)]
         /\ miner' \in [Conns -> Miner]
BY RecordTypes, EmptySeq DEF SessionTypes, CloseConns

LEMMA SendAllTypes ==
  ASSUME SessionTypes, NEW d \in Diffs, SendAll(d, lastJob'),
         lastJob' \in [id : JM!JobIds \cup {NoJob}, ntime : JM!Times, diff : Diffs,
                       quantum : BOOLEAN]
  PROVE  down' \in [Conns -> Seq(Item)]
<1>1. Push(d, lastJob', TRUE) \in Item /\ Tell(d) \in Item
  BY PushTypes, TellTypes
<1> QED BY <1>1, AppendProperties DEF SendAll, SessionTypes

LEMMA SendCurrentTypes ==
  ASSUME TypeOK, NEW c \in Conns, SendCurrent(c)
  PROVE  down' \in [Conns -> Seq(Item)]
<1>1. Push(currentDiff, lastJob, TRUE) \in Item
  BY PushTypes DEF TypeOK
<1> QED BY <1>1, AppendProperties DEF SendCurrent, TypeOK

(* A connection's, and a miner's, record is replaced by another of its type. *)
LEMMA ConnUpdated ==
  ASSUME conn \in [Conns -> Conn], NEW c \in Conns, NEW r \in Conn,
         conn' = [conn EXCEPT ![c] = r]
  PROVE  conn' \in [Conns -> Conn]
OBVIOUS

LEMMA MinerUpdated ==
  ASSUME miner \in [Conns -> Miner], NEW c \in Conns, NEW r \in Miner,
         miner' = [miner EXCEPT ![c] = r]
  PROVE  miner' \in [Conns -> Miner]
OBVIOUS

(* What a miner is after it heard an item. *)
LEMMA HeardTypes ==
  ASSUME NEW m \in Miner, NEW i \in Item
  PROVE  Heard(m, i) \in Miner
<1> DEFINE told  == IF i.diff = NoDiff THEN m.told ELSE i.diff
           tried == IF i.clean \/ i.job # m.job THEN {} ELSE m.tried
           first == [m EXCEPT !.told = told]
<1>1. told \in Diffs \cup {NoDiff} /\ tried \in SUBSET Nonces
  BY DEF Item, Miner
<1>2. i.job \in JM!JobIds \cup {NoJob} /\ i.ntime \in JM!Times
  BY DEF Item
<1>3. first \in Miner
  <2> HIDE DEF told
  <2> QED BY <1>1 DEF Miner
<1>4. [first EXCEPT !.job = i.job, !.ntime = i.ntime, !.diff = told, !.tried = tried] \in Miner
  <2> HIDE DEF told, tried, first
  <2> QED BY <1>1, <1>2, <1>3 DEF Miner
<1>5. Heard(m, i) = IF i.job = NoJob THEN first
                    ELSE [first EXCEPT !.job = i.job, !.ntime = i.ntime, !.diff = told,
                                       !.tried = tried]
  BY DEF Heard, Miner
<1> HIDE DEF first, told, tried
<1> QED BY <1>3, <1>4, <1>5

(* The loop over inbuf reads on exactly while lines are left. *)
LEMMA TakeLineTypes ==
  ASSUME SessionTypes, NEW c \in Conns, TakeLine(c)
  PROVE  /\ inbuf' \in [Conns -> Seq(Line)]
         /\ reading' \in Conns \cup {NoConn}
         /\ reading' # NoConn => inbuf'[reading'] # << >>
         /\ inbuf[c] # << >>
         /\ inbuf'[c] = Tail(inbuf[c])
<1>1. inbuf[c] \in Seq(Line) /\ inbuf[c] # << >>
  BY StratumAssumption DEF SessionTypes, TakeLine
<1>2. Tail(inbuf[c]) \in Seq(Line) /\ Len(Tail(inbuf[c])) = Len(inbuf[c]) - 1
  BY <1>1, HeadTailProperties
<1>3. inbuf' \in [Conns -> Seq(Line)] /\ inbuf'[c] = Tail(inbuf[c])
  BY <1>2 DEF SessionTypes, TakeLine
<1>4. Len(inbuf[c]) # 1 => Tail(inbuf[c]) # << >>
  <2>1. Len(inbuf[c]) \in Nat
    BY <1>1, LenProperties
  <2>2. ASSUME Tail(inbuf[c]) = << >> PROVE Len(inbuf[c]) = 1
    <3>1. Len(Tail(inbuf[c])) = 0
      BY <1>2, <2>2, EmptySeq
    <3> QED BY <1>2, <2>1, <3>1
  <2> QED BY <2>2
<1> QED BY <1>1, <1>3, <1>4 DEF TakeLine

LEMMA ServerSessionTypes ==
  ASSUME TypeOK, ServerTypes', Server
  PROVE  SessionTypes'
<1>1. SessionTypes /\ ServerTypes
  BY TypeParts
<1>2. /\ now \in Nat
      /\ lastJob' \in [id : JM!JobIds \cup {NoJob}, ntime : JM!Times, diff : Diffs,
                      quantum : BOOLEAN]
  BY <1>1, StratumAssumption DEF ServerTypes, JM!Times
<1>3. ASSUME NEW d \in Diffs, BroadcastQuantumJob(d) \/ BroadcastDifficulty(d)
      PROVE  SessionTypes'
  <2>1. down' \in [Conns -> Seq(Item)]
    BY <1>1, <1>2, <1>3, SendAllTypes DEF BroadcastQuantumJob, BroadcastDifficulty
  <2> QED BY <1>1, <1>3, <2>1 DEF BroadcastQuantumJob, BroadcastDifficulty, SessionTypes
<1>4. ASSUME NEW c \in Conns, Accept(c) PROVE SessionTypes'
  <2>1. conn' \in [Conns -> Conn]
    BY <1>1, <1>2, <1>4, RecordTypes DEF Accept, SessionTypes
  <2> QED BY <1>1, <1>4, <2>1 DEF Accept, wireVars, SessionTypes
<1>5. ASSUME NEW c \in Conns, CloseConns({c}), down' = [down EXCEPT ![c] = << >>],
             reading' = NoConn
      PROVE  SessionTypes'
  <2>1. down' \in [Conns -> Seq(Item)]
    BY <1>1, <1>5, EmptySeq DEF SessionTypes
  <2> QED BY <1>5, <2>1, <1>1, CloseConnsTypes DEF SessionTypes
<1>6. ASSUME NEW c \in Conns, Receive(c) PROVE SessionTypes'
  <2>1. CASE miner[c].left
    BY <1>5, <1>6, <2>1 DEF Receive, Idle
  <2>2. CASE ~ miner[c].left
    <3>1. inbuf[c] \in Seq(Line) /\ up[c] \in Seq(Line) /\ up[c] # << >>
      BY <1>1, <1>6, <2>2 DEF Receive, SessionTypes
    <3>2. inbuf[c] \o up[c] \in Seq(Line) /\ inbuf[c] \o up[c] # << >>
      <4>1. /\ Len(up[c]) \in Nat /\ Len(inbuf[c]) \in Nat
            /\ Len(inbuf[c] \o up[c]) = Len(inbuf[c]) + Len(up[c])
        BY <3>1, ConcatProperties, LenProperties
      <4>2. Len(up[c]) # 0
        BY <3>1, EmptySeq
      <4>3. \A m, n \in Nat : n # 0 => m + n # 0
        OBVIOUS
      <4>4. Len(inbuf[c]) + Len(up[c]) # 0
        BY <4>1, <4>2, <4>3, Zenon
      <4> QED BY <3>1, <4>1, <4>4, EmptySeq, ConcatProperties
    <3> DEFINE all == inbuf[c] \o up[c]
    <3> HIDE DEF all
    <3>6. /\ inbuf' = [inbuf EXCEPT ![c] = all]
          /\ up' = [up EXCEPT ![c] = << >>]
          /\ reading' = c
          /\ UNCHANGED <<down, miner>>
      BY <1>6, <2>2 DEF Receive, all
    <3>3. /\ inbuf' \in [Conns -> Seq(Line)]
          /\ up' \in [Conns -> Seq(Line)]
          /\ inbuf'[c] # << >>
          /\ reading' = c
          /\ UNCHANGED <<down, miner>>
      <4>1. all \in Seq(Line) /\ all # << >> /\ << >> \in Seq(Line)
        BY <3>2, EmptySeq DEF all
      <4> QED BY <1>1, <3>6, <4>1 DEF SessionTypes
    <3>4. conn' = [conn EXCEPT ![c] = [conn[c] EXCEPT !.lastRx = now]]
      BY <1>6, <2>2 DEF Receive
    <3>5. conn' \in [Conns -> Conn]
      <4>1. conn \in [Conns -> Conn] /\ conn[c] \in Conn
        BY <1>1 DEF SessionTypes
      <4>2. [conn[c] EXCEPT !.lastRx = now] \in Conn
        BY <1>2, <4>1 DEF Conn
      <4> QED BY <3>4, <4>1, <4>2, ConnUpdated
    <3> QED BY <1>1, <3>3, <3>5 DEF SessionTypes
  <2> QED BY <2>1, <2>2
<1>7. ASSUME NEW c \in Conns, TakeLine(c), conn' \in [Conns -> Conn],
             down' \in [Conns -> Seq(Item)], UNCHANGED <<up, miner>>
      PROVE  SessionTypes'
  BY <1>1, <1>7, TakeLineTypes DEF SessionTypes
<1>8. ASSUME NEW c \in Conns, HandleSubscribe(c) PROVE SessionTypes'
  <2>1. PICK x \in Ex1s : conn' = [conn EXCEPT ![c].ex1 = x, ![c].subscribed = TRUE]
    BY <1>8 DEF HandleSubscribe
  <2>2. conn' \in [Conns -> Conn]
    <3>1. [conn[c] EXCEPT !.ex1 = x, !.subscribed = TRUE] \in Conn
      BY <1>1 DEF SessionTypes, Conn
    <3>2. conn' = [conn EXCEPT ![c] = [conn[c] EXCEPT !.ex1 = x, !.subscribed = TRUE]]
      BY <1>1, <2>1 DEF SessionTypes, Conn
    <3> QED BY <1>1, <3>1, <3>2 DEF SessionTypes
  <2> QED BY <1>7, <1>8, <2>2, SendCurrentTypes DEF HandleSubscribe
<1>9. ASSUME NEW c \in Conns, HandleAuthorize(c) PROVE SessionTypes'
  <2>1. conn' = [conn EXCEPT ![c] = [conn[c] EXCEPT !.authorized = TRUE]]
    BY <1>9 DEF HandleAuthorize
  <2>2. conn' \in [Conns -> Conn]
    <3>1. conn \in [Conns -> Conn] /\ conn[c] \in Conn
      BY <1>1 DEF SessionTypes
    <3>2. [conn[c] EXCEPT !.authorized = TRUE] \in Conn
      BY <3>1 DEF Conn
    <3> QED BY <2>1, <3>1, <3>2, ConnUpdated
  <2> QED BY <1>7, <1>9, <2>2, SendCurrentTypes DEF HandleAuthorize
<1>10. ASSUME NEW c \in Conns, HandleOther(c) PROVE SessionTypes'
  BY <1>1, <1>7, <1>10 DEF HandleOther, wireVars, SessionTypes
<1>11. ASSUME NEW c \in Conns, Throttle(c) PROVE SessionTypes'
  BY <1>5, <1>11 DEF Throttle
<1>12. ASSUME NEW c \in Conns, HandleSubmit(c) PROVE SessionTypes'
  <2>1. /\ conn' = [conn EXCEPT ![c].submits = SubmitsNow(c), ![c].windowStart = WindowStart(c)]
        /\ TakeLine(c) /\ UNCHANGED <<up, down, miner>>
    BY <1>12 DEF HandleSubmit, wireVars
  <2>2. SubmitsNow(c) \in Nat /\ WindowStart(c) \in Int
    BY <1>1, <1>2 DEF SubmitsNow, WindowStart, SessionTypes, Conn
  <2>3. conn' \in [Conns -> Conn]
    <3>1. [conn[c] EXCEPT !.submits = SubmitsNow(c), !.windowStart = WindowStart(c)] \in Conn
      <4>1. conn[c] \in Conn
        BY <1>1 DEF SessionTypes
      <4>2. \A r \in Conn, n \in Nat, t \in Int :
               [r EXCEPT !.submits = n, !.windowStart = t] \in Conn
        BY DEF Conn
      <4> QED BY <2>2, <4>1, <4>2
    <3>2. conn' = [conn EXCEPT ![c] = [conn[c] EXCEPT !.submits = SubmitsNow(c),
                                                      !.windowStart = WindowStart(c)]]
      BY <1>1, <2>1 DEF SessionTypes, Conn
    <3> QED BY <1>1, <3>1, <3>2 DEF SessionTypes
  <2> QED BY <1>1, <1>7, <2>1, <2>3 DEF SessionTypes
<1>13. ASSUME Housekeeping PROVE SessionTypes'
  <2>1. /\ CloseConns(TimedOut) /\ TimedOut \in SUBSET Conns
        /\ reading' = reading /\ reading = NoConn
    BY <1>13 DEF Housekeeping, TimedOut, Open, Idle
  <2>2. ASSUME NEW c \in Conns PROVE PeriodicPush(c) \in Seq(Item)
    <3>1. currentDiff \in Diffs
      BY <1>1 DEF ServerTypes
    <3>2. Push(currentDiff, lastJob', TRUE) \in Item /\ Push(NoDiff, lastJob', FALSE) \in Item
      BY <1>2, <3>1, PushTypes
    <3> QED BY <1>1, <3>2, AppendProperties DEF PeriodicPush, SessionTypes
  <2>3. down' \in [Conns -> Seq(Item)]
    <3>1. down' = [c \in Conns |->
                    IF c \in TimedOut THEN << >>
                    ELSE IF PushDue /\ c \in Open THEN PeriodicPush(c) ELSE down[c]]
      BY <1>13 DEF Housekeeping
    <3>2. \A c \in Conns : down[c] \in Seq(Item) /\ << >> \in Seq(Item)
      BY <1>1, EmptySeq DEF SessionTypes
    <3> QED BY <2>2, <3>1, <3>2
  <2> QED BY <1>1, <2>1, <2>3, CloseConnsTypes DEF SessionTypes
<1> QED BY <1>3, <1>4, <1>6, <1>8, <1>9, <1>10, <1>11, <1>12, <1>13 DEF Server, HandleLine

LEMMA MinerSessionTypes ==
  ASSUME TypeOK, Miners
  PROVE  SessionTypes'
<1>1. SessionTypes
  BY TypeParts
<1>2. ASSUME NEW c \in Conns, up' \in [Conns -> Seq(Line)], down' \in [Conns -> Seq(Item)],
             miner' \in [Conns -> Miner], MinerUnchanged
      PROVE  SessionTypes'
  BY <1>1, <1>2 DEF SessionTypes, MinerUnchanged, serverVars
<1>3. ASSUME NEW c \in Conns, NEW method \in Methods, Ask(c, method) PROVE SessionTypes'
  <2>1. [method |-> method] \in Line
    BY DEF Line
  <2>2. up' = [up EXCEPT ![c] = Append(@, [method |-> method])]
    BY <1>3 DEF Ask
  <2>3. up' \in [Conns -> Seq(Line)]
    BY <1>1, <2>1, <2>2, AppendProperties DEF SessionTypes
  <2>4. miner' \in [Conns -> Miner]
    <3>1. miner' = [miner EXCEPT ![c].asked = method]
      BY <1>3 DEF Ask
    <3>2. [miner[c] EXCEPT !.asked = method] \in Miner
      BY <1>1 DEF SessionTypes, Miner
    <3> QED BY <1>1, <3>1, <3>2 DEF SessionTypes
  <2> QED BY <1>1, <1>2, <1>3, <2>3, <2>4 DEF Ask, SessionTypes
<1>4. ASSUME NEW c \in Conns, Hear(c) PROVE SessionTypes'
  <2>1. Head(down[c]) \in Item /\ Tail(down[c]) \in Seq(Item)
    BY <1>1, <1>4, HeadTailProperties DEF Hear, SessionTypes
  <2>2. Heard(miner[c], Head(down[c])) \in Miner
    <3>1. miner[c] \in Miner
      BY <1>1 DEF SessionTypes
    <3> QED BY <2>1, <3>1, HeardTypes
  <2>3. down' \in [Conns -> Seq(Item)] /\ miner' \in [Conns -> Miner]
    BY <1>1, <1>4, <2>1, <2>2 DEF Hear, SessionTypes
  <2> QED BY <1>1, <1>2, <1>4, <2>3 DEF Hear, SessionTypes
<1>5. ASSUME NEW c \in Conns, NEW ex2 \in Ex2s, NEW ntime \in Ntimes, NEW nonce \in Nonces,
             NEW vbits \in VersionBits, FindShare(c, ex2, ntime, nonce, vbits)
      PROVE  SessionTypes'
  <2> DEFINE share == [job |-> miner[c].job, ex2 |-> ex2, ntime |-> ntime,
                       nonce |-> nonce, vbits |-> vbits]
  <2>1. miner[c] \in Miner /\ miner[c].job # NoJob
    BY <1>1, <1>5 DEF FindShare, SessionTypes
  <2>2. share \in Share
    BY <2>1 DEF Share, Miner
  <2> HIDE DEF share
  <2>3. [method |-> "submit", share |-> share] \in Line
    BY <2>2 DEF Line
  <2>4. up' = [up EXCEPT ![c] = Append(@, [method |-> "submit", share |-> share])]
    BY <1>5 DEF FindShare, share
  <2>5. up' \in [Conns -> Seq(Line)]
    BY <1>1, <2>3, <2>4, AppendProperties DEF SessionTypes
  <2>6. miner' = [miner EXCEPT ![c].tried = @ \cup {nonce}]
    BY <1>5 DEF FindShare
  <2>7. miner' \in [Conns -> Miner]
    <3>1. [miner[c] EXCEPT !.tried = @ \cup {nonce}] \in Miner
      <4>1. miner[c].tried \cup {nonce} \in SUBSET Nonces
        BY <2>1 DEF Miner
      <4> QED BY <2>1, <4>1 DEF Miner
    <3> QED BY <1>1, <2>6, <3>1 DEF SessionTypes
  <2> QED BY <1>1, <1>2, <1>5, <2>5, <2>7 DEF FindShare, SessionTypes
<1>6. ASSUME NEW c \in Conns, Leave(c) PROVE SessionTypes'
  <2>1. miner' \in [Conns -> Miner]
    <3>1. miner' = [miner EXCEPT ![c] = [miner[c] EXCEPT !.left = TRUE]]
      BY <1>6 DEF Leave
    <3>2. miner \in [Conns -> Miner] /\ miner[c] \in Miner
      BY <1>1 DEF SessionTypes
    <3>3. [miner[c] EXCEPT !.left = TRUE] \in Miner
      BY <3>2 DEF Miner
    <3> QED BY <3>1, <3>2, <3>3, MinerUpdated
  <2> QED BY <1>1, <1>2, <1>6, <2>1 DEF Leave, SessionTypes
<1> QED BY <1>3, <1>4, <1>5, <1>6 DEF Miners

LEMMA SessionTypesStep ==
  ASSUME TypeOK, [Next]_vars
  PROVE  SessionTypes'
<1>1. SessionTypes
  BY TypeParts
<1>2. CASE Server
  BY <1>2, ServerSessionTypes, ServerTypesStep
<1>3. CASE Miners
  BY <1>3, MinerSessionTypes
<1>4. CASE Tick
  BY <1>1, <1>4 DEF Tick, serverVars, wireVars, SessionTypes
<1>5. CASE UNCHANGED vars
  BY <1>1, <1>5 DEF vars, SessionTypes
<1> QED BY <1>2, <1>3, <1>4, <1>5 DEF Next

-----------------------------------------------------------------------------
(* The types, and the job manager's own inductive invariant. *)

TypeIInv == TypeOK /\ JMP!IInv

LEMMA InitTypeIInv == Init => TypeIInv
<1> SUFFICES ASSUME Init PROVE TypeIInv
  OBVIOUS
<1>1. JMP!Init
  BY SameInit DEF Init
<1>2. JMP!IInv
  <2>1. ASSUME JMP!ConstantsAssumption PROVE JMP!Init => JMP!IInv
    BY <2>1, JMP!InitIInv
  <2> QED BY <1>1, <2>1, JMConstants
<1>3. JM!TypeOK
  BY <1>2, SameTypeOK DEF JMP!IInv
<1>4. now = 0
  BY DEF Init, JM!Init
<1>5. 0 \in JM!Times
  BY StratumAssumption DEF JM!Times
<1>6. ServerTypes
  BY <1>4, <1>5, StratumAssumption DEF Init, ServerTypes, NoJob
<1>7. SessionTypes
  BY RecordTypes, EmptySeq, StratumAssumption DEF Init, SessionTypes
<1> QED BY <1>2, <1>3, <1>6, <1>7, TypeParts DEF TypeIInv

LEMMA NextTypeIInv == TypeIInv /\ [Next]_vars => TypeIInv'
<1> SUFFICES ASSUME TypeIInv, [Next]_vars PROVE TypeIInv'
  OBVIOUS
<1>1. TypeOK /\ JMP!IInv
  BY DEF TypeIInv
<1>2. [JMP!Next]_(JMP!vars)
  BY <1>1, StepOfJobManager, SameStep
<1>3. JMP!IInv'
  <2>1. ASSUME JMP!ConstantsAssumption PROVE JMP!IInv /\ [JMP!Next]_(JMP!vars) => JMP!IInv'
    BY <2>1, JMP!NextIInv
  <2> QED BY <1>1, <1>2, <2>1, JMConstants
<1>4. JM!TypeOK'
  <2>1. JMP!TypeOK'
    BY <1>3 DEF JMP!IInv
  <2> QED BY <2>1 DEF JM!TypeOK, JMP!TypeOK, JM!Job, JMP!Job
<1>5. ServerTypes' /\ SessionTypes'
  BY <1>1, ServerTypesStep, SessionTypesStep
<1>6. TypeOK'
  BY <1>4, <1>5 DEF TypeOK, ServerTypes, SessionTypes
<1> QED BY <1>3, <1>6 DEF TypeIInv

LEMMA TypeIInvHolds == Spec => []TypeIInv
BY InitTypeIInv, NextTypeIInv, PTL DEF Spec

(* The state of the server always has the types of its fields. *)
THEOREM TypeCorrect == Spec => []TypeOK
<1>1. TypeIInv => TypeOK
  BY DEF TypeIInv
<1> QED BY <1>1, TypeIInvHolds, PTL

(* The server implements the job manager's specification: every call it     *)
(* makes of it is one of the job manager's steps.                           *)
THEOREM ServerImplementsJobManager == Spec => ImplementsJobManager
<1>1. Init => JM!Init
  BY DEF Init
<1>2. TypeOK /\ [Next]_vars => [JM!Next]_(JM!vars)
  BY StepOfJobManager
<1> QED BY <1>1, <1>2, TypeCorrect, PTL DEF Spec, ImplementsJobManager, JM!Spec

(* No line of mining.submit is accepted twice for one job and extranonce1,  *)
(* whatever miners connect, submit, send again and leave.                   *)
THEOREM AcceptedOnce == Spec => []JM!TextAcceptedOnce
<1>1. TypeIInv => JM!TextAcceptedOnce
  BY DEF TypeIInv, JMP!IInv, JM!TextAcceptedOnce, JMP!TextAcceptedOnce
<1> QED BY <1>1, TypeIInvHolds, PTL

-----------------------------------------------------------------------------
(* Honest shares: what a miner was told after an item is sent or heard. *)

LEMMA ToldAppend ==
  ASSUME NEW q \in Seq(Item), NEW x \in Item, NEW t, NEW d
  PROVE  /\ \A i \in 0 .. Len(q) : ToldAfter(t, Append(q, x), i, d) => ToldAfter(t, q, i, d)
         /\ ToldAfter(t, Append(q, x), Len(q) + 1, d)
              => IF x.diff = NoDiff THEN ToldAfter(t, q, Len(q), d) ELSE d = x.diff
<1> DEFINE r == Append(q, x)
<1>1. /\ Len(q) \in Nat
      /\ \A i \in 1 .. Len(q) : r[i] = q[i]
      /\ r[Len(q) + 1] = x
  BY LenProperties, AppendProperties
<1> HIDE DEF r
<1>2. ASSUME NEW i \in 0 .. Len(q), ToldAfter(t, r, i, d) PROVE ToldAfter(t, q, i, d)
  <2>1. \A k \in 1 .. i : r[k] = q[k]
    BY <1>1
  <2>2. CASE d = t /\ \A k \in 1 .. i : r[k].diff = NoDiff
    BY <2>1, <2>2 DEF ToldAfter
  <2>3. ASSUME NEW k \in 1 .. i, r[k].diff = d, d # NoDiff,
               \A l \in k + 1 .. i : r[l].diff = NoDiff
        PROVE  ToldAfter(t, q, i, d)
    <3>1. \A l \in k + 1 .. i : q[l].diff = NoDiff
      BY <2>1, <2>3
    <3> QED BY <2>1, <2>3, <3>1 DEF ToldAfter
  <2> QED BY <1>2, <2>2, <2>3 DEF ToldAfter
<1>3. ASSUME ToldAfter(t, r, Len(q) + 1, d), x.diff = NoDiff PROVE ToldAfter(t, q, Len(q), d)
  <2>1. \A k \in 1 .. Len(q) : k \in 1 .. Len(q) + 1 /\ r[k] = q[k]
    BY <1>1
  <2>2. CASE d = t /\ \A k \in 1 .. Len(q) + 1 : r[k].diff = NoDiff
    BY <2>1, <2>2 DEF ToldAfter
  <2>3. ASSUME NEW k \in 1 .. Len(q) + 1, r[k].diff = d, d # NoDiff,
               \A l \in k + 1 .. Len(q) + 1 : r[l].diff = NoDiff
        PROVE  ToldAfter(t, q, Len(q), d)
    <3>1. k # Len(q) + 1
      BY <1>1, <1>3, <2>3
    <3>2. k \in 1 .. Len(q)
      BY <1>1, <3>1
    <3>3. \A l \in k + 1 .. Len(q) : q[l].diff = NoDiff
      BY <1>1, <2>3
    <3> QED BY <2>1, <2>3, <3>2, <3>3 DEF ToldAfter
  <2> QED BY <1>3, <2>2, <2>3 DEF ToldAfter
<1>4. ASSUME ToldAfter(t, r, Len(q) + 1, d), x.diff # NoDiff PROVE d = x.diff
  <2>1. Len(q) + 1 \in 1 .. Len(q) + 1
    BY <1>1
  <2>2. ~ \A k \in 1 .. Len(q) + 1 : r[k].diff = NoDiff
    BY <1>1, <1>4, <2>1
  <2>3. PICK k \in 1 .. Len(q) + 1 :
           r[k].diff = d /\ \A l \in k + 1 .. Len(q) + 1 : r[l].diff = NoDiff
    BY <1>4, <2>2 DEF ToldAfter
  <2>4. k = Len(q) + 1
    BY <1>1, <1>4, <2>3
  <2> QED BY <1>1, <2>3, <2>4
<1> QED BY <1>2, <1>3, <1>4 DEF r

LEMMA ToldTail ==
  ASSUME NEW q \in Seq(Item), q # << >>, NEW t, NEW d, NEW i \in 0 .. Len(q) - 1,
         ToldAfter(IF Head(q).diff = NoDiff THEN t ELSE Head(q).diff, Tail(q), i, d)
  PROVE  ToldAfter(t, q, i + 1, d)
<1>1. /\ Len(q) \in Nat
      /\ Head(q) = q[1]
      /\ Len(Tail(q)) = Len(q) - 1
      /\ \A k \in 1 .. Len(q) - 1 : Tail(q)[k] = q[k + 1]
  BY LenProperties, HeadTailProperties
<1> DEFINE r == Tail(q)
<1> HIDE DEF r
<1>2. /\ 1 \in 1 .. i + 1
      /\ \A k \in 1 .. i : r[k] = q[k + 1]
  BY <1>1 DEF r
<1>3. ASSUME \A k \in 1 .. i : r[k].diff = NoDiff PROVE \A k \in 2 .. i + 1 : q[k].diff = NoDiff
  <2>1. \A k \in 2 .. i + 1 : k - 1 \in 1 .. i /\ r[k - 1] = q[k]
    BY <1>2
  <2> QED BY <1>3, <2>1
<1>4. CASE d = t /\ q[1].diff = NoDiff /\ \A k \in 1 .. i : r[k].diff = NoDiff
  <2>1. \A k \in 1 .. i + 1 : q[k].diff = NoDiff
    BY <1>3, <1>4
  <2> QED BY <1>4, <2>1 DEF ToldAfter
<1>5. CASE d = q[1].diff /\ q[1].diff # NoDiff /\ \A k \in 1 .. i : r[k].diff = NoDiff
  <2>1. \A k \in 1 + 1 .. i + 1 : q[k].diff = NoDiff
    BY <1>3, <1>5
  <2> QED BY <1>2, <1>5, <2>1 DEF ToldAfter
<1>6. ASSUME NEW k \in 1 .. i, r[k].diff = d, d # NoDiff, \A l \in k + 1 .. i : r[l].diff = NoDiff
      PROVE  ToldAfter(t, q, i + 1, d)
  <2>1. k + 1 \in 1 .. i + 1 /\ q[k + 1].diff = d
    BY <1>2, <1>6
  <2>2. \A l \in k + 1 + 1 .. i + 1 : q[l].diff = NoDiff
    <3>1. \A l \in k + 1 + 1 .. i + 1 : /\ l - 1 \in k + 1 .. i
                                         /\ l - 1 \in 1 .. i
                                         /\ q[l] = r[l - 1]
      BY <1>2
    <3> QED BY <1>6, <3>1
  <2> QED BY <1>6, <2>1, <2>2 DEF ToldAfter
<1> QED BY <1>1, <1>4, <1>5, <1>6 DEF ToldAfter, r

-----------------------------------------------------------------------------
(* Honest shares: what is known of a job stays true. *)

LEMMA JobsKept ==
  ASSUME TypeIInv, [Next]_vars
  PROVE  /\ 1 .. jobCounter \subseteq 1 .. jobCounter'
         /\ \A j \in 1 .. jobCounter :
              j \in DOMAIN jobs' => j \in DOMAIN jobs /\ jobs'[j] = jobs[j]
<1>1. JMP!TypeOK /\ [JMP!Next]_(JMP!vars)
  BY StepOfJobManager, SameStep DEF TypeIInv, JMP!IInv
<1> QED BY <1>1, JMConstants, JMP!JobsStay

(* Known after the step. *)
KnownNext(j, d) == j \in 1 .. jobCounter' /\ (j \in DOMAIN jobs' => jobs'[j].diff = d)

LEMMA KnownStays ==
  ASSUME TypeIInv, [Next]_vars
  PROVE  \A j, d : Known(j, d) => KnownNext(j, d)
BY JobsKept DEF Known, KnownNext

LEMMA MadeKnown ==
  ASSUME TypeIInv, NEW d \in Diffs, NEW q \in BOOLEAN, MakeLastJob(d, q)
  PROVE  KnownNext(lastJob'.id, d)
<1>1. lastJob'.id = jobCounter + 1 /\ jobCounter' = jobCounter + 1 /\ jobCounter \in Nat
  BY MakeLastJobTypes DEF TypeIInv, TypeOK, JM!TypeOK, MakeLastJob, JM!MakeJob
<1>2. jobs' = JMP!JobsAfterPrune(JMP!Put(jobs, JMP!NextId, JMP!NewJob(d, q)))
  BY DEF MakeLastJob, JM!MakeJob, JM!JobsAfterPrune, JMP!JobsAfterPrune, JM!Put, JMP!Put,
         JM!NextId, JMP!NextId, JM!NewJob, JMP!NewJob, JM!Only, JMP!Only, JM!Retired,
         JMP!Retired
<1>3. jobCounter + 1 \in DOMAIN jobs' => jobs'[jobCounter + 1] = JMP!NewJob(d, q)
  BY <1>2, JMConstants, JMP!JobsAfterMake
<1>4. JMP!NewJob(d, q).diff = d
  BY DEF JMP!NewJob
<1> QED BY <1>1, <1>3, <1>4 DEF KnownNext

(* Meets after a step that leaves the extranonce1 alone. *)
MeetsNext(c, s) ==
  /\ s.job \in 1 .. jobCounter'
  /\ s.job \in DOMAIN jobs' => Work(JM!Header(Completed(c, s))) >= jobs'[s.job].diff

LEMMA MeetsStays ==
  ASSUME TypeIInv, [Next]_vars, NEW c \in Conns, conn'[c].ex1 = conn[c].ex1
  PROVE  \A s : Meets(c, s) => MeetsNext(c, s)
BY JobsKept DEF Meets, MeetsNext

-----------------------------------------------------------------------------
(* Honest shares: the wire to a miner. *)

(* ItemsAgree of a next state, told by its parts. *)
LEMMA ItemsAgreeNext ==
  ASSUME NEW c \in Conns, NEW cd, NEW sub, NEW q, NEW m,
         currentDiff' = cd, conn'[c].subscribed = sub, down'[c] = q, miner'[c] = m,
         ~ sub => m.job = NoJob /\ \A i \in 1 .. Len(q) : q[i].job = NoJob,
         m.job # NoJob => KnownNext(m.job, m.diff),
         \A d \in Diffs \cup {NoDiff} :
           /\ \A i \in 1 .. Len(q) :
                 q[i].job # NoJob /\ ToldAfter(m.told, q, i, d) => KnownNext(q[i].job, d)
           /\ sub /\ ToldAfter(m.told, q, Len(q), d) => d = cd
  PROVE  ItemsAgree(c)'
BY DEF ItemsAgree, Known, KnownNext, ToldAfter

LEMMA ItemsStay ==
  ASSUME TypeIInv, [Next]_vars, NEW c \in Conns, ItemsAgree(c),
         conn'[c].subscribed = conn[c].subscribed,
         down'[c] = down[c],
         miner'[c].told = miner[c].told, miner'[c].job = miner[c].job,
         miner'[c].diff = miner[c].diff,
         conn[c].subscribed => currentDiff' = currentDiff
  PROVE  ItemsAgree(c)'
<1> DEFINE q == down[c]
           m == miner'[c]
           cd == currentDiff'
           sub == conn'[c].subscribed
<1>1. ~ sub => m.job = NoJob /\ \A i \in 1 .. Len(q) : q[i].job = NoJob
  BY DEF ItemsAgree
<1>2. m.job # NoJob => KnownNext(m.job, m.diff)
  <2>1. m.job # NoJob => Known(m.job, m.diff)
    BY DEF ItemsAgree
  <2> QED BY <2>1, KnownStays
<1>3. ASSUME NEW d \in Diffs \cup {NoDiff}, NEW i \in 1 .. Len(q), q[i].job # NoJob,
             ToldAfter(m.told, q, i, d)
      PROVE  KnownNext(q[i].job, d)
  <2>1. ToldAfter(miner[c].told, down[c], i, d)
    BY <1>3
  <2>2. Known(q[i].job, d)
    BY <1>3, <2>1 DEF ItemsAgree
  <2> QED BY <2>2, KnownStays
<1>4. ASSUME NEW d \in Diffs \cup {NoDiff}, sub, ToldAfter(m.told, q, Len(q), d)
      PROVE  d = cd
  <2>1. ToldAfter(miner[c].told, down[c], Len(down[c]), d)
    BY <1>4
  <2> QED BY <1>4, <2>1 DEF ItemsAgree
<1>5. currentDiff' = cd /\ conn'[c].subscribed = sub /\ down'[c] = q /\ miner'[c] = m
  OBVIOUS
<1>6. \A d \in Diffs \cup {NoDiff} :
        /\ \A i \in 1 .. Len(q) :
              q[i].job # NoJob /\ ToldAfter(m.told, q, i, d) => KnownNext(q[i].job, d)
        /\ sub /\ ToldAfter(m.told, q, Len(q), d) => d = cd
  <2> HIDE DEF q, m, cd, sub
  <2> QED BY <1>3, <1>4
<1> HIDE DEF q, m, cd, sub
<1> QED BY <1>1, <1>2, <1>5, <1>6, ItemsAgreeNext, SMTT(60)

LEMMA ItemPushed ==
  ASSUME TypeIInv, [Next]_vars, NEW c \in Conns, ItemsAgree(c), NEW x \in Item,
         down'[c] = Append(down[c], x), miner'[c] = miner[c],
         conn[c].subscribed => conn'[c].subscribed,
         conn'[c].subscribed \/ x.job = NoJob,
         x.job # NoJob => KnownNext(x.job, currentDiff'),
         x.diff \in {currentDiff', NoDiff},
         x.diff = NoDiff => conn[c].subscribed /\ currentDiff' = currentDiff
  PROVE  ItemsAgree(c)'
<1> DEFINE q == down[c]
           m == miner[c]
           r == Append(q, x)
           cd == currentDiff'
           sub == conn'[c].subscribed
           n == Len(q)
<1>1. /\ q \in Seq(Item)
      /\ n \in Nat
      /\ Len(r) = n + 1
      /\ \A i \in 1 .. n : r[i] = q[i]
      /\ r[n + 1] = x
  BY AppendProperties, LenProperties DEF TypeIInv, TypeOK
<1>2. /\ ~ sub => m.job = NoJob /\ \A i \in 1 .. n : q[i].job = NoJob
      /\ m.job # NoJob => Known(m.job, m.diff)
      /\ \A d \in Diffs \cup {NoDiff} :
           /\ \A i \in 1 .. n :
                 q[i].job # NoJob /\ ToldAfter(m.told, q, i, d) => Known(q[i].job, d)
           /\ conn[c].subscribed /\ ToldAfter(m.told, q, n, d) => d = currentDiff
  BY DEF ItemsAgree
<1>3. \A d : /\ \A i \in 0 .. n : ToldAfter(m.told, r, i, d) => ToldAfter(m.told, q, i, d)
             /\ ToldAfter(m.told, r, n + 1, d)
                   => IF x.diff = NoDiff THEN ToldAfter(m.told, q, n, d) ELSE d = x.diff
  <2> HIDE DEF q, m
  <2> QED BY <1>1, ToldAppend
<1>4. currentDiff' = cd /\ conn'[c].subscribed = sub /\ down'[c] = r /\ miner'[c] = m
  OBVIOUS
<1> HIDE DEF q, m, r, cd, sub, n
<1>5. \A i \in 1 .. Len(r) : i \in 1 .. n \/ i = n + 1
  BY <1>1
<1>6. ~ sub => m.job = NoJob /\ \A i \in 1 .. Len(r) : r[i].job = NoJob
  BY <1>1, <1>2, <1>5 DEF sub
<1>7. m.job # NoJob => KnownNext(m.job, m.diff)
  BY <1>2, KnownStays
<1>8. ASSUME NEW d \in Diffs \cup {NoDiff}, ToldAfter(m.told, r, n + 1, d) PROVE d = cd
  <2>1. CASE x.diff = NoDiff
    BY <1>2, <1>3, <1>8, <2>1 DEF cd
  <2>2. CASE x.diff # NoDiff
    BY <1>3, <1>8, <2>2 DEF cd
  <2> QED BY <2>1, <2>2
<1>9. ASSUME NEW d \in Diffs \cup {NoDiff}, NEW i \in 1 .. Len(r), r[i].job # NoJob,
             ToldAfter(m.told, r, i, d)
      PROVE  KnownNext(r[i].job, d)
  <2>1. CASE i = n + 1
    <3>1. d = cd /\ r[i] = x
      BY <1>1, <1>8, <1>9, <2>1
    <3> QED BY <1>9, <3>1 DEF cd
  <2>2. CASE i \in 1 .. n
    <3>1. ToldAfter(m.told, q, i, d) /\ r[i] = q[i]
      <4>1. i \in 0 .. n
        BY <1>1, <2>2
      <4> QED BY <1>1, <1>3, <1>9, <2>2, <4>1
    <3>2. Known(q[i].job, d)
      BY <1>2, <1>9, <2>2, <3>1
    <3> QED BY <3>1, <3>2, KnownStays
  <2> QED BY <1>5, <2>1, <2>2
<1>10. \A d \in Diffs \cup {NoDiff} :
         /\ \A i \in 1 .. Len(r) :
               r[i].job # NoJob /\ ToldAfter(m.told, r, i, d) => KnownNext(r[i].job, d)
         /\ sub /\ ToldAfter(m.told, r, Len(r), d) => d = cd
  BY <1>1, <1>8, <1>9
<1> QED BY <1>4, <1>6, <1>7, <1>10, ItemsAgreeNext

LEMMA ItemHeard ==
  ASSUME TypeIInv, [Next]_vars, NEW c \in Conns, ItemsAgree(c), Hear(c)
  PROVE  ItemsAgree(c)'
<1> DEFINE q == down[c]
           m == miner[c]
           x == Head(q)
           r == Tail(q)
           p == Heard(m, x)
           sub == conn[c].subscribed
           n == Len(q)
<1>1. /\ q \in Seq(Item) /\ q # << >>
      /\ m \in Miner
  BY DEF Hear, TypeIInv, TypeOK
<1>2. /\ n \in Nat \ {0}
      /\ x = q[1]
      /\ x \in Item
      /\ Len(r) = n - 1
      /\ \A i \in 1 .. n - 1 : r[i] = q[i + 1]
  BY <1>1, EmptySeq, HeadTailProperties
<1>3. currentDiff' = currentDiff /\ conn'[c].subscribed = sub /\ down'[c] = r /\ miner'[c] = p
  BY DEF Hear, MinerUnchanged, serverVars, TypeIInv, TypeOK
<1>4. /\ ~ sub => m.job = NoJob /\ \A i \in 1 .. n : q[i].job = NoJob
      /\ m.job # NoJob => Known(m.job, m.diff)
      /\ \A d \in Diffs \cup {NoDiff} :
           /\ \A i \in 1 .. n :
                 q[i].job # NoJob /\ ToldAfter(m.told, q, i, d) => Known(q[i].job, d)
           /\ sub /\ ToldAfter(m.told, q, n, d) => d = currentDiff
  BY DEF ItemsAgree
<1>5. /\ p.told = IF x.diff = NoDiff THEN m.told ELSE x.diff
      /\ p.job = IF x.job = NoJob THEN m.job ELSE x.job
      /\ p.diff = IF x.job = NoJob THEN m.diff ELSE p.told
      /\ p.told \in Diffs \cup {NoDiff}
  BY <1>1, <1>2 DEF Heard, Miner, Item
<1>6. \A d, i : i \in 0 .. n - 1 /\ ToldAfter(p.told, r, i, d) => ToldAfter(m.told, q, i + 1, d)
  BY <1>1, <1>5, ToldTail
<1> HIDE DEF q, m, x, r, p, sub, n
<1>7. ~ sub => p.job = NoJob /\ \A i \in 1 .. Len(r) : r[i].job = NoJob
  BY <1>2, <1>4, <1>5
<1>8. p.job # NoJob => KnownNext(p.job, p.diff)
  <2>1. CASE x.job = NoJob
    BY <1>4, <1>5, <2>1, KnownStays
  <2>2. CASE x.job # NoJob
    <3>1. ToldAfter(p.told, r, 0, p.told)
      BY DEF ToldAfter
    <3>2. 0 \in 0 .. n - 1 /\ 1 \in 1 .. n /\ 0 + 1 = 1
      BY <1>2
    <3>3. ToldAfter(m.told, q, 1, p.told)
      BY <1>6, <3>1, <3>2
    <3>4. Known(x.job, p.told)
      BY <1>2, <1>4, <1>5, <2>2, <3>2, <3>3
    <3> QED BY <1>5, <2>2, <3>4, KnownStays
  <2> QED BY <2>1, <2>2
<1>9. ASSUME NEW d \in Diffs \cup {NoDiff}, NEW i \in 1 .. Len(r), r[i].job # NoJob,
             ToldAfter(p.told, r, i, d)
      PROVE  KnownNext(r[i].job, d)
  <2>1. i \in 0 .. n - 1 /\ i + 1 \in 1 .. n /\ r[i] = q[i + 1]
    BY <1>2
  <2>2. ToldAfter(m.told, q, i + 1, d)
    BY <1>6, <1>9, <2>1
  <2>3. Known(q[i + 1].job, d)
    BY <1>4, <1>9, <2>1, <2>2
  <2> QED BY <2>1, <2>3, KnownStays
<1>10. ASSUME NEW d \in Diffs \cup {NoDiff}, sub, ToldAfter(p.told, r, Len(r), d)
       PROVE  d = currentDiff
  <2>1. Len(r) \in 0 .. n - 1 /\ Len(r) + 1 = n
    BY <1>2
  <2>2. ToldAfter(m.told, q, n, d)
    BY <1>6, <1>10, <2>1
  <2> QED BY <1>4, <1>10, <2>2
<1> QED BY <1>3, <1>7, <1>8, <1>9, <1>10, ItemsAgreeNext

-----------------------------------------------------------------------------
(* Honest shares: the wire to the server. *)

(* LinesMeet of a next state, told by its parts. *)
LEMMA LinesMeetNext ==
  ASSUME NEW c \in Conns, NEW L, NEW sub, NEW a,
         Lines(c)' = L, conn'[c].subscribed = sub, miner'[c].asked = a,
         conn'[c].ex1 = conn[c].ex1,
         \A i \in 1 .. Len(L) :
           /\ L[i].method = "submit" => sub /\ MeetsNext(c, L[i].share)
           /\ L[i].method = "subscribe" => i = 1 /\ ~ sub,
         ~ sub => IF a = "nothing" THEN L = << >> ELSE L # << >> /\ L[1].method = "subscribe",
         a = "nothing" => ~ sub
  PROVE  LinesMeet(c)'
<1>1. \A s : MeetsNext(c, s) <=> Meets(c, s)'
  <2>1. \A s : JM!Header(Completed(c, s))' = JM!Header(Completed(c, s))
    BY DEF JM!Header, Completed
  <2> QED BY <2>1 DEF Meets, MeetsNext
<1> QED BY <1>1 DEF LinesMeet

LEMMA LinesType ==
  ASSUME TypeIInv, NEW c \in Conns
  PROVE  /\ inbuf[c] \in Seq(Line)
         /\ up[c] \in Seq(Line)
         /\ Lines(c) \in Seq(Line)
         /\ Len(Lines(c)) \in Nat
         /\ inbuf[c] # << >> => Head(inbuf[c]) = Lines(c)[1] /\ Lines(c) # << >>
<1>1. inbuf[c] \in Seq(Line) /\ up[c] \in Seq(Line)
  BY DEF TypeIInv, TypeOK
<1>2. Lines(c) \in Seq(Line) /\ Len(Lines(c)) \in Nat
  BY <1>1, ConcatProperties, LenProperties DEF Lines
<1>3. ASSUME inbuf[c] # << >> PROVE Head(inbuf[c]) = Lines(c)[1] /\ Lines(c) # << >>
  <2>1. Len(inbuf[c]) \in Nat \ {0} /\ Len(up[c]) \in Nat
    BY <1>1, <1>3, EmptySeq, LenProperties
  <2>5. \A m \in Nat \ {0}, n \in Nat : 1 \in 1 .. m + n /\ 1 <= m
    OBVIOUS
  <2>2. /\ 1 \in 1 .. Len(inbuf[c]) + Len(up[c])
        /\ 1 <= Len(inbuf[c])
    BY <2>1, <2>5, Zenon
  <2>3. Lines(c)[1] = inbuf[c][1]
    BY <1>1, <2>2, ConcatProperties DEF Lines
  <2>4. Lines(c) # << >>
    BY <1>1, <1>3, ConcatEqualIffEmpty DEF Lines
  <2> QED BY <1>1, <1>3, <2>3, <2>4
<1> QED BY <1>1, <1>2, <1>3

LEMMA LinesStay ==
  ASSUME TypeIInv, [Next]_vars, NEW c \in Conns, LinesMeet(c), Lines(c)' = Lines(c),
         conn'[c].subscribed = conn[c].subscribed, conn'[c].ex1 = conn[c].ex1,
         miner'[c].asked = miner[c].asked
  PROVE  LinesMeet(c)'
<1> DEFINE L == Lines(c)
           sub == conn[c].subscribed
           a == miner[c].asked
<1>1. /\ \A i \in 1 .. Len(L) :
           /\ L[i].method = "submit" => sub /\ Meets(c, L[i].share)
           /\ L[i].method = "subscribe" => i = 1 /\ ~ sub
      /\ ~ sub => IF a = "nothing" THEN L = << >> ELSE L # << >> /\ L[1].method = "subscribe"
      /\ a = "nothing" => ~ sub
  BY DEF LinesMeet
<1>2. \A s : Meets(c, s) => MeetsNext(c, s)
  BY MeetsStays
<1>3. Lines(c)' = L /\ conn'[c].subscribed = sub /\ miner'[c].asked = a
  OBVIOUS
<1> HIDE DEF L, sub, a
<1> QED BY <1>1, <1>2, <1>3, LinesMeetNext

(* The lines left when the first one is taken. *)
LEMMA LinesTaken ==
  ASSUME TypeIInv, NEW c \in Conns, TakeLine(c), up'[c] = up[c]
  PROVE  /\ Lines(c)' = Tail(Lines(c))
         /\ Head(inbuf[c]) = Lines(c)[1] /\ Lines(c) # << >>
<1> DEFINE a == inbuf[c]
           b == up[c]
<1>1. a \in Seq(Line) /\ b \in Seq(Line) /\ a # << >> /\ inbuf'[c] = Tail(a) /\ up'[c] = b
  BY LinesType, TakeLineTypes, TypeParts DEF TypeIInv
<1>2. Head(a) = Lines(c)[1] /\ Lines(c) # << >>
  BY <1>1, LinesType
<1>3. Tail(a \o b) = Tail(a) \o b
  <2> HIDE DEF a, b
  <2>1. /\ Len(a) \in Nat \ {0} /\ Len(b) \in Nat
        /\ Tail(a) \in Seq(Line) /\ Len(Tail(a)) = Len(a) - 1
        /\ \A i \in 1 .. Len(Tail(a)) : Tail(a)[i] = a[i + 1]
    BY <1>1, EmptySeq, LenProperties, HeadTailProperties
  <2>2. /\ a \o b \in Seq(Line) /\ a \o b # << >> /\ Len(a \o b) = Len(a) + Len(b)
        /\ \A i \in 1 .. Len(a) + Len(b) :
             (a \o b)[i] = IF i <= Len(a) THEN a[i] ELSE b[i - Len(a)]
    BY <1>1, ConcatProperties, ConcatEqualIffEmpty
  <2>3. /\ Tail(a \o b) \in Seq(Line) /\ Len(Tail(a \o b)) = Len(a \o b) - 1
        /\ \A i \in 1 .. Len(Tail(a \o b)) : Tail(a \o b)[i] = (a \o b)[i + 1]
    BY <2>2, HeadTailProperties
  <2>4. /\ Tail(a) \o b \in Seq(Line) /\ Len(Tail(a) \o b) = Len(Tail(a)) + Len(b)
        /\ \A i \in 1 .. Len(Tail(a)) + Len(b) :
             (Tail(a) \o b)[i] = IF i <= Len(Tail(a)) THEN Tail(a)[i] ELSE b[i - Len(Tail(a))]
    BY <1>1, <2>1, ConcatProperties
  <2>5. Len(Tail(a \o b)) = Len(Tail(a) \o b)
    BY <2>1, <2>2, <2>3, <2>4
  <2>6. ASSUME NEW i \in 1 .. Len(Tail(a \o b)) PROVE Tail(a \o b)[i] = (Tail(a) \o b)[i]
    BY <2>1, <2>2, <2>3, <2>4
  <2> QED BY <2>3, <2>4, <2>5, <2>6, SeqEqual
<1> QED BY <1>1, <1>2, <1>3 DEF Lines

LEMMA LineHandled ==
  ASSUME TypeIInv, [Next]_vars, NEW c \in Conns, LinesMeet(c), TakeLine(c), up'[c] = up[c],
         miner'[c] = miner[c],
         \/ /\ Head(inbuf[c]).method # "subscribe"
            /\ conn'[c].subscribed = conn[c].subscribed
            /\ conn'[c].ex1 = conn[c].ex1
         \/ /\ Head(inbuf[c]).method = "subscribe"
            /\ conn'[c].subscribed = TRUE
  PROVE  LinesMeet(c)'
<1> DEFINE L == Lines(c)
           r == Tail(L)
           sub == conn[c].subscribed
           a == miner[c].asked
           n == Len(L)
<1>1. /\ Lines(c)' = r /\ Head(inbuf[c]) = L[1] /\ L # << >>
      /\ L \in Seq(Line)
  BY LinesTaken, LinesType
<1>2. n \in Nat \ {0} /\ Len(r) = n - 1 /\ \A i \in 1 .. n - 1 : r[i] = L[i + 1]
  BY <1>1, EmptySeq, HeadTailProperties
<1>3. /\ \A i \in 1 .. n :
           /\ L[i].method = "submit" => sub /\ Meets(c, L[i].share)
           /\ L[i].method = "subscribe" => i = 1 /\ ~ sub
      /\ ~ sub => IF a = "nothing" THEN L = << >> ELSE L # << >> /\ L[1].method = "subscribe"
      /\ a = "nothing" => ~ sub
  BY DEF LinesMeet
<1>4. a # "nothing"
  BY <1>1, <1>3
<1>5. miner'[c].asked = a
  OBVIOUS
<1> HIDE DEF r, L, n, a
<1>6. \A i \in 1 .. Len(r) : i + 1 \in 1 .. n /\ i + 1 # 1 /\ r[i] = L[i + 1]
  BY <1>2
<1>7. \A i \in 1 .. Len(r) : r[i].method # "subscribe"
  BY <1>3, <1>6
<1>8. CASE Head(inbuf[c]).method # "subscribe"
  <2>1. sub /\ conn'[c].subscribed = sub /\ conn'[c].ex1 = conn[c].ex1
    BY <1>1, <1>3, <1>4, <1>8
  <2>2. \A s : Meets(c, s) => MeetsNext(c, s)
    BY <2>1, MeetsStays
  <2>3. \A i \in 1 .. Len(r) : r[i].method = "submit" => MeetsNext(c, r[i].share)
    BY <1>3, <1>6, <2>2
  <2> QED BY <1>1, <1>4, <1>5, <1>7, <2>1, <2>3, LinesMeetNext
<1>9. CASE Head(inbuf[c]).method = "subscribe"
  <2>1. 1 \in 1 .. n
    BY <1>2
  <2>2. ~ sub /\ conn'[c].subscribed
    BY <1>1, <1>3, <1>9, <2>1
  <2>3. \A i \in 1 .. Len(r) : r[i].method # "submit"
    BY <1>3, <1>6, <2>2
  <2> HIDE DEF sub
  <2>4. Lines(c)' = r
    BY <1>1
  <2> QED BY <1>4, <1>5, <1>7, <2>2, <2>3, <2>4 DEF LinesMeet
<1> QED BY <1>8, <1>9

LEMMA AppendToSecond ==
  ASSUME NEW S, NEW s1 \in Seq(S), NEW s2 \in Seq(S), NEW e \in S
  PROVE  s1 \o Append(s2, e) = Append(s1 \o s2, e)
<1>1. /\ << e >> \in Seq(S)
      /\ s1 \o s2 \in Seq(S)
  BY ConcatProperties
<1>2. Append(s2, e) = s2 \o << e >>
  BY AppendIsConcat
<1>3. Append(s1 \o s2, e) = (s1 \o s2) \o << e >>
  BY <1>1, AppendIsConcat
<1>4. (s1 \o s2) \o << e >> = s1 \o (s2 \o << e >>)
  BY <1>1, ConcatAssociative
<1> QED BY <1>2, <1>3, <1>4

LEMMA LineAppended ==
  ASSUME TypeIInv, NEW c \in Conns, NEW x \in Line
  PROVE  inbuf[c] \o Append(up[c], x) = Append(Lines(c), x)
<1>1. inbuf[c] \in Seq(Line) /\ up[c] \in Seq(Line)
  BY LinesType
<1>2. ASSUME NEW s1 \in Seq(Line), NEW s2 \in Seq(Line)
      PROVE  s1 \o Append(s2, x) = Append(s1 \o s2, x)
  BY AppendToSecond
<1>3. inbuf[c] \o Append(up[c], x) = Append(inbuf[c] \o up[c], x)
  BY <1>1, <1>2, Zenon
<1> QED BY <1>3 DEF Lines

LEMMA LineSent ==
  ASSUME TypeIInv, [Next]_vars, NEW c \in Conns, LinesMeet(c), NEW x \in Line,
         up'[c] = Append(up[c], x), inbuf' = inbuf, conn' = conn,
         x.method = "subscribe" <=> miner[c].asked = "nothing",
         x.method = "submit" => conn[c].subscribed /\ Meets(c, x.share),
         miner'[c].asked # "nothing"
  PROVE  LinesMeet(c)'
<1> DEFINE L == Lines(c)
           r == Append(L, x)
           sub == conn[c].subscribed
           a == miner[c].asked
           n == Len(L)
<1>1. L \in Seq(Line) /\ n \in Nat /\ Lines(c)' = r
  <2>1. L \in Seq(Line) /\ n \in Nat
    BY LinesType
  <2>2. inbuf[c] \o Append(up[c], x) = Append(Lines(c), x)
    BY LineAppended
  <2> QED BY <2>1, <2>2 DEF Lines
<1>2. Len(r) = n + 1 /\ r # << >> /\ r[n + 1] = x /\ \A i \in 1 .. n : r[i] = L[i]
  BY <1>1, AppendProperties
<1>3. /\ \A i \in 1 .. n :
           /\ L[i].method = "submit" => sub /\ Meets(c, L[i].share)
           /\ L[i].method = "subscribe" => i = 1 /\ ~ sub
      /\ ~ sub => IF a = "nothing" THEN L = << >> ELSE L # << >> /\ L[1].method = "subscribe"
      /\ a = "nothing" => ~ sub
  BY DEF LinesMeet
<1>4. \A s : Meets(c, s) => MeetsNext(c, s)
  BY MeetsStays
<1>5. n = 0 <=> L = << >>
  BY <1>1, EmptySeq
<1>6. conn'[c].subscribed = sub /\ conn'[c].ex1 = conn[c].ex1
  OBVIOUS
<1> HIDE DEF r, L, n, a, sub
<1>7. \A i \in 1 .. Len(r) : i \in 1 .. n \/ i = n + 1
  BY <1>1, <1>2
<1>8. ASSUME NEW i \in 1 .. Len(r)
      PROVE  /\ r[i].method = "submit" => sub /\ MeetsNext(c, r[i].share)
             /\ r[i].method = "subscribe" => i = 1 /\ ~ sub
  <2>1. CASE i \in 1 .. n
    BY <1>2, <1>3, <1>4, <2>1
  <2>2. CASE i = n + 1
    <3>1. r[i] = x
      BY <1>2, <2>2
    <3>2. x.method = "submit" => sub /\ MeetsNext(c, x.share)
      BY <1>4 DEF sub
    <3>3. x.method = "subscribe" => i = 1 /\ ~ sub
      BY <1>3, <1>5, <2>2 DEF a
    <3> QED BY <3>1, <3>2, <3>3
  <2> QED BY <1>7, <2>1, <2>2
<1>9. ~ sub => r[1].method = "subscribe"
  <2>1. CASE a = "nothing"
    BY <1>2, <1>3, <1>5, <2>1 DEF a
  <2>2. CASE a # "nothing"
    <3>1. ASSUME ~ sub PROVE 1 \in 1 .. n
      BY <1>1, <1>3, <1>5, <2>2, <3>1
    <3> QED BY <1>2, <1>3, <2>2, <3>1
  <2> QED BY <2>1, <2>2
<1> QED BY <1>1, <1>2, <1>6, <1>8, <1>9, LinesMeetNext

-----------------------------------------------------------------------------
(* Honest shares: every step keeps DifficultiesAgree. *)

HonestIInv == TypeIInv /\ DifficultiesAgree

SessionAgrees(c) == IF c \in Open THEN LinesMeet(c) /\ ItemsAgree(c) ELSE Blank(c)

(* A connection whose side of the server no step has changed. *)
LEMMA SessionStays ==
  ASSUME TypeIInv, [Next]_vars, NEW c \in Conns, SessionAgrees(c),
         conn'[c] = conn[c], inbuf'[c] = inbuf[c], up'[c] = up[c], down'[c] = down[c],
         miner'[c] = miner[c],
         currentDiff' = currentDiff
  PROVE  SessionAgrees(c)'
<1>1. c \in Open <=> c \in Open'
  BY DEF Open
<1>2. Lines(c)' = Lines(c)
  BY DEF Lines
<1>3. CASE c \in Open
  <2>1. LinesMeet(c)' /\ ItemsAgree(c)'
    BY <1>2, <1>3, LinesStay, ItemsStay DEF SessionAgrees
  <2> QED BY <1>1, <1>3, <2>1 DEF SessionAgrees
<1>4. CASE c \notin Open
  BY <1>1, <1>4 DEF SessionAgrees, Blank
<1> QED BY <1>3, <1>4

(* A closed connection. *)
LEMMA SessionClosed ==
  ASSUME NEW c \in Conns, conn'[c] = Closed, inbuf'[c] = << >>, up'[c] = << >>,
         down'[c] = << >>, miner'[c] = NewMiner
  PROVE  SessionAgrees(c)'
BY DEF SessionAgrees, Open, Closed, Fresh, Blank

(* A connection that only gets an item. *)
LEMMA SessionPushed ==
  ASSUME TypeIInv, [Next]_vars, NEW c \in Conns, SessionAgrees(c), c \in Open, NEW x \in Item,
         conn'[c] = conn[c], inbuf'[c] = inbuf[c], up'[c] = up[c],
         down'[c] = Append(down[c], x), miner'[c] = miner[c],
         conn[c].subscribed \/ x.job = NoJob,
         x.job # NoJob => KnownNext(x.job, currentDiff'),
         x.diff \in {currentDiff', NoDiff},
         x.diff = NoDiff => conn[c].subscribed /\ currentDiff' = currentDiff
  PROVE  SessionAgrees(c)'
<1>1. c \in Open'
  BY DEF Open
<1>2. Lines(c)' = Lines(c)
  BY DEF Lines
<1>3. LinesMeet(c)' /\ ItemsAgree(c)'
  BY <1>2, LinesStay, ItemPushed DEF SessionAgrees
<1> QED BY <1>1, <1>3 DEF SessionAgrees

LEMMA BroadcastSessions ==
  ASSUME HonestIInv, [Next]_vars, NEW d \in Diffs, NEW q \in BOOLEAN, MakeLastJob(d, q),
         currentDiff' = d, SendAll(d, lastJob'), UNCHANGED <<conn, inbuf, up, miner>>
  PROVE  DifficultiesAgree'
<1>1. TypeIInv /\ \A c \in Conns : SessionAgrees(c)
  BY DEF HonestIInv, DifficultiesAgree, SessionAgrees
<1>2. KnownNext(lastJob'.id, d)
  BY <1>1, MadeKnown
<1>3. lastJob' \in [id : JM!JobIds \cup {NoJob}, ntime : JM!Times, diff : Diffs,
                  quantum : BOOLEAN]
  BY <1>1, ServerTypesStep DEF ServerTypes, TypeIInv
<1>4. Push(d, lastJob', TRUE) \in Item /\ Tell(d) \in Item
  BY <1>3, PushTypes, TellTypes
<1>5. ASSUME NEW c \in Conns, c \in Open, conn[c].subscribed PROVE SessionAgrees(c)'
  <2>1. down'[c] = Append(down[c], Push(d, lastJob', TRUE))
    BY <1>5 DEF SendAll
  <2>2. Push(d, lastJob', TRUE).job = lastJob'.id /\ Push(d, lastJob', TRUE).diff = d
    BY DEF Push
  <2>3. d # NoDiff
    BY StratumAssumption DEF NoDiff
  <2> DEFINE x == Push(d, lastJob', TRUE)
  <2> HIDE DEF x
  <2> QED BY <1>1, <1>2, <1>4, <1>5, <2>1, <2>2, <2>3, SessionPushed DEF x
<1>6. ASSUME NEW c \in Conns, c \in Open, ~ conn[c].subscribed PROVE SessionAgrees(c)'
  <2>1. down'[c] = Append(down[c], Tell(d))
    BY <1>6 DEF SendAll
  <2>2. Tell(d).job = NoJob /\ Tell(d).diff = d
    BY DEF Tell
  <2>3. d # NoDiff
    BY StratumAssumption DEF NoDiff
  <2> QED BY <1>1, <1>4, <1>6, <2>1, <2>2, <2>3, SessionPushed
<1>7. ASSUME NEW c \in Conns, c \notin Open PROVE SessionAgrees(c)'
  <2>1. down'[c] = down[c]
    BY <1>7 DEF SendAll
  <2> QED BY <1>1, <1>7, <2>1 DEF SessionAgrees, Blank, Open
<1>8. (lastJob.id # NoJob => Known(lastJob.id, currentDiff))'
  BY <1>2 DEF KnownNext, Known
<1> QED BY <1>5, <1>6, <1>7, <1>8 DEF DifficultiesAgree, SessionAgrees

(* The steps of the server's loop. *)
LEMMA ServerSessions ==
  ASSUME HonestIInv, [Next]_vars, NEW c \in Conns, Accept(c) \/ Receive(c) \/ HandleLine(c)
  PROVE  DifficultiesAgree'
<1>1. TypeIInv /\ \A k \in Conns : SessionAgrees(k)
  BY DEF HonestIInv, DifficultiesAgree, SessionAgrees
<1>2. /\ conn \in [Conns -> Conn] /\ inbuf \in [Conns -> Seq(Line)]
      /\ up \in [Conns -> Seq(Line)] /\ down \in [Conns -> Seq(Item)]
      /\ miner \in [Conns -> Miner]
  BY <1>1 DEF TypeIInv, TypeOK
<1>3. currentDiff' = currentDiff /\ lastJob' = lastJob
  BY DEF Accept, Receive, HandleLine, HandleSubscribe, HandleAuthorize, HandleOther,
         Throttle, HandleSubmit
<1>4. (lastJob.id # NoJob => Known(lastJob.id, currentDiff))'
  <2>1. lastJob.id # NoJob => Known(lastJob.id, currentDiff)
    BY DEF HonestIInv, DifficultiesAgree
  <2> QED BY <1>1, <1>3, <2>1, KnownStays DEF KnownNext, Known
<1>5. ASSUME NEW k \in Conns, k # c PROVE SessionAgrees(k)'
  <2>1. UNCHANGED <<conn[k], inbuf[k], up[k], down[k], miner[k]>>
    <3>1. CASE Accept(c)
      BY <1>2, <1>5, <3>1 DEF Accept, wireVars
    <3>2. CASE Receive(c)
      BY <1>2, <1>5, <3>2 DEF Receive, CloseConns
    <3>3. CASE HandleSubscribe(c) \/ HandleAuthorize(c) \/ HandleOther(c) \/ HandleSubmit(c)
      BY <1>2, <1>5, <3>3 DEF HandleSubscribe, HandleAuthorize, HandleOther, HandleSubmit,
                              TakeLine, SendCurrent, wireVars
    <3>4. CASE Throttle(c)
      BY <1>2, <1>5, <3>4 DEF Throttle, CloseConns
    <3> QED BY <3>1, <3>2, <3>3, <3>4 DEF HandleLine
  <2> QED BY <1>1, <1>3, <1>5, <2>1, SessionStays
<1>6. ASSUME CloseConns({c}), down' = [down EXCEPT ![c] = << >>] PROVE SessionAgrees(c)'
  BY <1>2, <1>6, SessionClosed DEF CloseConns
<1>7. ASSUME Accept(c) PROVE SessionAgrees(c)'
  <2>1. c \notin Open /\ Blank(c)
    BY <1>1, <1>7 DEF Accept, SessionAgrees, Open
  <2>2. /\ ~ conn'[c].subscribed
        /\ inbuf'[c] = << >> /\ up'[c] = << >> /\ down'[c] = << >> /\ miner'[c] = NewMiner
    BY <1>2, <1>7, <2>1 DEF Accept, Blank, wireVars, Closed, Fresh
  <2>3. Lines(c)' = << >>
    BY <2>2 DEF Lines
  <2>4. LinesMeet(c)'
    BY <2>2, <2>3, EmptySeq DEF LinesMeet, NewMiner
  <2>5. ItemsAgree(c)'
    BY <2>2, EmptySeq DEF ItemsAgree, NewMiner
  <2> QED BY <2>2, <2>4, <2>5 DEF SessionAgrees, Blank
<1>8. ASSUME Receive(c) PROVE SessionAgrees(c)'
  <2>1. CASE miner[c].left
    BY <1>6, <1>8, <2>1 DEF Receive
  <2>2. CASE ~ miner[c].left
    <3>1. /\ inbuf' = [inbuf EXCEPT ![c] = @ \o up[c]] /\ up' = [up EXCEPT ![c] = << >>]
          /\ conn' = [conn EXCEPT ![c].lastRx = now] /\ down' = down /\ miner' = miner
          /\ c \in Open
      BY <1>8, <2>2 DEF Receive
    <3>2. Lines(c)' = Lines(c)
      <4>1. inbuf'[c] = Lines(c) /\ up'[c] = << >>
        BY <1>2, <3>1 DEF Lines
      <4> QED BY <1>1, <4>1, LinesType, ConcatEmptySeq DEF Lines
    <3>3. /\ conn'[c].subscribed = conn[c].subscribed /\ conn'[c].ex1 = conn[c].ex1
          /\ c \in Open'
      BY <1>2, <3>1 DEF Conn, Open
    <3>4. LinesMeet(c)' /\ ItemsAgree(c)'
      BY <1>1, <1>3, <3>1, <3>2, <3>3, LinesStay, ItemsStay DEF SessionAgrees
    <3> QED BY <3>3, <3>4 DEF SessionAgrees
  <2> QED BY <2>1, <2>2
<1>9. ASSUME TakeLine(c), up' = up, miner' = miner
      PROVE  c \in Open /\ LinesMeet(c) /\ ItemsAgree(c)
  <2>1. inbuf[c] # << >>
    BY <1>1, <1>9, TakeLineTypes, TypeParts DEF TypeIInv
  <2> QED BY <1>1, <2>1 DEF SessionAgrees, Blank
<1>10. ASSUME SendCurrent(c), conn'[c].subscribed, ItemsAgree(c), miner' = miner
       PROVE  ItemsAgree(c)'
  <2> DEFINE x == Push(currentDiff, lastJob, TRUE)
  <2>1. x \in Item /\ x.job = lastJob.id /\ x.diff = currentDiff
    BY <1>1, PushTypes DEF TypeIInv, TypeOK, Push
  <2>2. down'[c] = Append(down[c], x)
    BY <1>2, <1>10 DEF SendCurrent
  <2>3. currentDiff # NoDiff
    BY <1>1, StratumAssumption DEF NoDiff, TypeIInv, TypeOK
  <2>4. x.job # NoJob => KnownNext(x.job, currentDiff')
    BY <1>1, <1>3, <2>1, KnownStays DEF HonestIInv, DifficultiesAgree
  <2> HIDE DEF x
  <2> QED BY <1>1, <1>3, <1>10, <2>1, <2>2, <2>3, <2>4, ItemPushed
<1>11. ASSUME HandleSubscribe(c) PROVE SessionAgrees(c)'
  <2>1. /\ TakeLine(c) /\ SendCurrent(c) /\ up' = up /\ miner' = miner
        /\ Head(inbuf[c]).method = "subscribe"
    BY <1>11 DEF HandleSubscribe, FirstIs
  <2>2. conn'[c].subscribed = TRUE /\ conn'[c].state = conn[c].state
    BY <1>2, <1>11 DEF HandleSubscribe, Conn
  <2>3. LinesMeet(c)' /\ ItemsAgree(c)' /\ c \in Open'
    BY <1>1, <1>9, <1>10, <2>1, <2>2, LineHandled DEF Open
  <2> QED BY <2>3 DEF SessionAgrees
<1>12. ASSUME HandleAuthorize(c) PROVE SessionAgrees(c)'
  <2>1. /\ TakeLine(c) /\ SendCurrent(c) /\ up' = up /\ miner' = miner
        /\ Head(inbuf[c]).method = "authorize"
    BY <1>12 DEF HandleAuthorize, FirstIs
  <2>2. /\ conn'[c].subscribed = conn[c].subscribed /\ conn'[c].state = conn[c].state
        /\ conn'[c].ex1 = conn[c].ex1
    BY <1>2, <1>12 DEF HandleAuthorize, Conn
  <2>3. conn[c].subscribed
    <3>1. Lines(c) # << >> /\ Lines(c)[1].method = "authorize"
      BY <1>1, <2>1, LinesTaken
    <3> QED BY <1>9, <2>1, <3>1 DEF LinesMeet
  <2>4. LinesMeet(c)' /\ ItemsAgree(c)' /\ c \in Open'
    BY <1>1, <1>9, <1>10, <2>1, <2>2, <2>3, LineHandled DEF Open
  <2> QED BY <2>4 DEF SessionAgrees
<1>13. ASSUME HandleOther(c) \/ HandleSubmit(c) PROVE SessionAgrees(c)'
  <2>1. /\ TakeLine(c) /\ down' = down /\ up' = up /\ miner' = miner
        /\ Head(inbuf[c]).method # "subscribe"
    BY <1>13 DEF HandleOther, HandleSubmit, FirstIs, wireVars
  <2>2. /\ conn'[c].subscribed = conn[c].subscribed /\ conn'[c].state = conn[c].state
        /\ conn'[c].ex1 = conn[c].ex1
    BY <1>2, <1>13 DEF HandleOther, HandleSubmit, Conn
  <2>3. LinesMeet(c)' /\ ItemsAgree(c)' /\ c \in Open'
    BY <1>1, <1>3, <1>9, <2>1, <2>2, LineHandled, ItemsStay DEF Open
  <2> QED BY <2>3 DEF SessionAgrees
<1>14. ASSUME Throttle(c) PROVE SessionAgrees(c)'
  BY <1>6, <1>14 DEF Throttle
<1>15. SessionAgrees(c)'
  BY <1>7, <1>8, <1>11, <1>12, <1>13, <1>14 DEF HandleLine
<1> QED BY <1>4, <1>5, <1>15 DEF DifficultiesAgree, SessionAgrees

LEMMA HousekeepingSessions ==
  ASSUME HonestIInv, [Next]_vars, Housekeeping
  PROVE  DifficultiesAgree'
<1>1. TypeIInv /\ \A k \in Conns : SessionAgrees(k)
  BY DEF HonestIInv, DifficultiesAgree, SessionAgrees
<1>2. /\ currentDiff' = currentDiff /\ currentDiff \in Diffs /\ lastJob.quantum \in BOOLEAN
      /\ CloseConns(TimedOut) /\ TimedOut \subseteq Open
  BY <1>1 DEF Housekeeping, TypeIInv, TypeOK, TimedOut
<1>3. ASSUME PushDue PROVE KnownNext(lastJob'.id, currentDiff)
  BY <1>1, <1>2, <1>3, MadeKnown DEF Housekeeping
<1>4. (lastJob.id # NoJob => Known(lastJob.id, currentDiff))'
  <2>1. CASE PushDue
    BY <1>2, <1>3, <2>1 DEF KnownNext, Known
  <2>2. CASE ~ PushDue
    <3>1. lastJob' = lastJob
      BY <2>2 DEF Housekeeping
    <3>2. lastJob.id # NoJob => Known(lastJob.id, currentDiff)
      BY DEF HonestIInv, DifficultiesAgree
    <3> QED BY <1>1, <1>2, <3>1, <3>2, KnownStays DEF KnownNext, Known
  <2> QED BY <2>1, <2>2
<1>5. ASSUME NEW c \in Conns, c \in TimedOut PROVE SessionAgrees(c)'
  <2>1. down'[c] = << >>
    BY <1>5 DEF Housekeeping
  <2> QED BY <1>2, <1>5, <2>1, SessionClosed DEF CloseConns
<1>6. ASSUME NEW c \in Conns, c \notin TimedOut PROVE SessionAgrees(c)'
  <2>1. UNCHANGED <<conn[c], inbuf[c], up[c], miner[c]>>
    BY <1>2, <1>6 DEF CloseConns
  <2>2. CASE down'[c] = down[c]
    BY <1>1, <1>2, <2>1, <2>2, SessionStays
  <2>3. CASE PushDue /\ c \in Open /\ conn[c].subscribed
    <3>1. lastJob' \in [id : JM!JobIds \cup {NoJob}, ntime : JM!Times, diff : Diffs,
                      quantum : BOOLEAN]
      BY <1>1, ServerTypesStep DEF ServerTypes, TypeIInv
    <3>2. PICK d \in {currentDiff, NoDiff}, clean \in BOOLEAN :
             down'[c] = Append(down[c], Push(d, lastJob', clean))
      BY <1>6, <2>3 DEF Housekeeping, PeriodicPush
    <3>3. /\ Push(d, lastJob', clean) \in Item
          /\ Push(d, lastJob', clean).job = lastJob'.id
          /\ Push(d, lastJob', clean).diff = d
      BY <1>2, <3>1, PushTypes DEF Push
    <3> DEFINE x == Push(d, lastJob', clean)
    <3> HIDE DEF x
    <3> QED BY <1>1, <1>2, <1>3, <2>1, <2>3, <3>2, <3>3, SessionPushed DEF x
  <2> QED BY <1>6, <2>2, <2>3 DEF Housekeeping, PeriodicPush
<1> QED BY <1>4, <1>5, <1>6 DEF DifficultiesAgree, SessionAgrees

LEMMA MinerSessions ==
  ASSUME HonestIInv, [Next]_vars, Miners
  PROVE  DifficultiesAgree'
<1>1. TypeIInv /\ \A k \in Conns : SessionAgrees(k)
  BY DEF HonestIInv, DifficultiesAgree, SessionAgrees
<1>2. /\ conn \in [Conns -> Conn] /\ up \in [Conns -> Seq(Line)]
      /\ down \in [Conns -> Seq(Item)] /\ miner \in [Conns -> Miner]
  BY <1>1 DEF TypeIInv, TypeOK
<1>3. /\ UNCHANGED <<conn, inbuf, currentDiff, lastJob>>
      /\ UNCHANGED Open
  BY MinersKeep DEF Open
<1>4. (lastJob.id # NoJob => Known(lastJob.id, currentDiff))'
  <2>1. lastJob.id # NoJob => Known(lastJob.id, currentDiff)
    BY DEF HonestIInv, DifficultiesAgree
  <2> QED BY <1>1, <1>3, <2>1, KnownStays DEF KnownNext, Known
<1>5. ASSUME NEW c \in Conns, UNCHANGED <<up[c], down[c], miner[c]>> PROVE SessionAgrees(c)'
  BY <1>1, <1>3, <1>5, SessionStays
<1>6. ASSUME NEW c \in Conns, LinesMeet(c)', ItemsAgree(c)', c \in Open,
             \A k \in Conns \ {c} : UNCHANGED <<up[k], down[k], miner[k]>>
      PROVE  DifficultiesAgree'
  <2>1. SessionAgrees(c)'
    BY <1>3, <1>6 DEF SessionAgrees
  <2>2. \A k \in Conns \ {c} : SessionAgrees(k)'
    BY <1>5, <1>6
  <2> QED BY <1>4, <2>1, <2>2 DEF DifficultiesAgree, SessionAgrees
<1>7. ASSUME NEW c \in Conns, NEW method \in Methods, Ask(c, method) PROVE DifficultiesAgree'
  <2>1. LinesMeet(c) /\ ItemsAgree(c) /\ c \in Open
    BY <1>1, <1>7 DEF Ask, SessionAgrees
  <2> DEFINE x == [method |-> method]
  <2>2. /\ x \in Line /\ x.method = method
        /\ up'[c] = Append(up[c], x)
        /\ miner'[c] = [miner[c] EXCEPT !.asked = method]
        /\ down' = down
        /\ \A k \in Conns \ {c} : UNCHANGED <<up[k], miner[k]>>
    BY <1>2, <1>7 DEF Ask, Line
  <2> HIDE DEF x
  <2>3. /\ method # "nothing" /\ method # "submit"
        /\ method = "subscribe" <=> miner[c].asked = "nothing"
    BY <1>2, <1>7 DEF Ask, MayAsk, Methods, Miner
  <2>4. /\ miner'[c].told = miner[c].told /\ miner'[c].job = miner[c].job
        /\ miner'[c].diff = miner[c].diff /\ miner'[c].asked = method
    BY <1>2, <2>2 DEF Miner
  <2>5. ItemsAgree(c)'
    BY <1>1, <1>3, <2>1, <2>2, <2>4, ItemsStay
  <2>6. LinesMeet(c)'
    BY <1>1, <1>3, <2>1, <2>2, <2>3, <2>4, LineSent
  <2> QED BY <1>6, <2>1, <2>2, <2>5, <2>6
<1>8. ASSUME NEW c \in Conns, Hear(c) PROVE DifficultiesAgree'
  <2>1. LinesMeet(c) /\ ItemsAgree(c) /\ c \in Open
    BY <1>1, <1>8 DEF Hear, SessionAgrees
  <2>2. /\ up' = up /\ miner'[c] = Heard(miner[c], Head(down[c]))
        /\ \A k \in Conns \ {c} : UNCHANGED <<down[k], miner[k]>>
    BY <1>2, <1>8 DEF Hear
  <2>3. miner'[c].asked = miner[c].asked /\ Lines(c)' = Lines(c)
    BY <1>2, <1>3, <2>2 DEF Heard, Miner, Lines
  <2>4. LinesMeet(c)' /\ ItemsAgree(c)'
    BY <1>1, <1>3, <1>8, <2>1, <2>3, LinesStay, ItemHeard
  <2> QED BY <1>6, <2>1, <2>2, <2>4
<1>9. ASSUME NEW c \in Conns, NEW ex2 \in Ex2s, NEW ntime \in Ntimes, NEW nonce \in Nonces,
             NEW vbits \in VersionBits, FindShare(c, ex2, ntime, nonce, vbits)
      PROVE  DifficultiesAgree'
  <2> DEFINE s == [job |-> miner[c].job, ex2 |-> ex2, ntime |-> ntime,
                   nonce |-> nonce, vbits |-> vbits]
             x == [method |-> "submit", share |-> s]
  <2>1. LinesMeet(c) /\ ItemsAgree(c) /\ c \in Open /\ miner[c].job # NoJob
    BY <1>1, <1>9 DEF FindShare, SessionAgrees
  <2>2. conn[c].subscribed
    BY <2>1 DEF ItemsAgree
  <2>3. miner[c].asked # "nothing"
    BY <2>1, <2>2 DEF LinesMeet
  <2>4. Meets(c, s)
    <3>1. Work(JM!Header(Completed(c, s))) >= miner[c].diff
      BY <1>9 DEF FindShare
    <3>2. Known(s.job, miner[c].diff)
      BY <2>1 DEF ItemsAgree
    <3> HIDE DEF s
    <3> QED BY <3>1, <3>2 DEF Known, Meets
  <2>5. x \in Line /\ x.method = "submit" /\ x.share = s
    <3>1. s \in Share
      BY <1>2, <2>1 DEF Share, Miner
    <3> HIDE DEF s
    <3> QED BY <3>1 DEF Line
  <2>6. /\ up'[c] = Append(up[c], x)
        /\ miner'[c] = [miner[c] EXCEPT !.tried = @ \cup {nonce}]
        /\ down' = down
        /\ \A k \in Conns \ {c} : UNCHANGED <<up[k], miner[k]>>
    BY <1>2, <1>9 DEF FindShare
  <2> HIDE DEF s, x
  <2>7. /\ miner'[c].told = miner[c].told /\ miner'[c].job = miner[c].job
        /\ miner'[c].diff = miner[c].diff /\ miner'[c].asked = miner[c].asked
    BY <1>2, <2>6 DEF Miner
  <2>8. ItemsAgree(c)'
    BY <1>1, <1>3, <2>1, <2>6, <2>7, ItemsStay
  <2>9. LinesMeet(c)'
    BY <1>1, <1>3, <2>1, <2>2, <2>3, <2>4, <2>5, <2>6, <2>7, LineSent
  <2> QED BY <1>6, <2>1, <2>6, <2>8, <2>9
<1>10. ASSUME NEW c \in Conns, Leave(c) PROVE DifficultiesAgree'
  <2>1. LinesMeet(c) /\ ItemsAgree(c) /\ c \in Open
    BY <1>1, <1>10 DEF Leave, SessionAgrees
  <2>2. /\ up' = up /\ down' = down
        /\ miner'[c] = [miner[c] EXCEPT !.left = TRUE]
        /\ \A k \in Conns \ {c} : miner'[k] = miner[k]
    BY <1>2, <1>10 DEF Leave
  <2>3. /\ miner'[c].told = miner[c].told /\ miner'[c].job = miner[c].job
        /\ miner'[c].diff = miner[c].diff /\ miner'[c].asked = miner[c].asked
        /\ Lines(c)' = Lines(c)
    BY <1>2, <1>3, <2>2 DEF Miner, Lines
  <2>4. LinesMeet(c)' /\ ItemsAgree(c)'
    BY <1>1, <1>3, <2>1, <2>2, <2>3, LinesStay, ItemsStay
  <2> QED BY <1>6, <2>1, <2>2, <2>4
<1> QED BY <1>7, <1>8, <1>9, <1>10 DEF Miners

LEMMA InitHonest == Init => HonestIInv
<1> SUFFICES ASSUME Init PROVE HonestIInv
  OBVIOUS
<1>1. TypeIInv
  BY InitTypeIInv
<1>2. lastJob.id = NoJob
  BY DEF Init
<1>3. ASSUME NEW c \in Conns PROVE c \notin Open /\ Blank(c)
  BY DEF Init, Open, Fresh, Blank
<1> QED BY <1>1, <1>2, <1>3 DEF HonestIInv, DifficultiesAgree

LEMMA NextHonest == HonestIInv /\ [Next]_vars => HonestIInv'
<1> SUFFICES ASSUME HonestIInv, [Next]_vars PROVE HonestIInv'
  OBVIOUS
<1>1. TypeIInv /\ \A k \in Conns : SessionAgrees(k)
  BY DEF HonestIInv, DifficultiesAgree, SessionAgrees
<1>2. ASSUME NEW d \in Diffs, BroadcastQuantumJob(d) \/ BroadcastDifficulty(d)
      PROVE  DifficultiesAgree'
  BY <1>2, BroadcastSessions DEF BroadcastQuantumJob, BroadcastDifficulty
<1>3. ASSUME Server PROVE DifficultiesAgree'
  BY <1>2, <1>3, ServerSessions, HousekeepingSessions DEF Server
<1>4. ASSUME Miners PROVE DifficultiesAgree'
  BY <1>4, MinerSessions
<1>5. ASSUME Tick \/ UNCHANGED vars PROVE DifficultiesAgree'
  <2>1. UNCHANGED <<conn, inbuf, currentDiff, lastJob, up, down, miner>>
    BY <1>5 DEF Tick, vars, serverVars, wireVars
  <2>2. \A c \in Conns : SessionAgrees(c)'
    BY <1>1, <2>1, SessionStays
  <2>3. (lastJob.id # NoJob => Known(lastJob.id, currentDiff))'
    <3>1. lastJob.id # NoJob => Known(lastJob.id, currentDiff)
      BY DEF HonestIInv, DifficultiesAgree
    <3> QED BY <1>1, <2>1, <3>1, KnownStays DEF KnownNext, Known
  <2> QED BY <2>2, <2>3 DEF DifficultiesAgree, SessionAgrees
<1>6. TypeIInv'
  BY <1>1, NextTypeIInv
<1> QED BY <1>3, <1>4, <1>5, <1>6 DEF Next, HonestIInv

LEMMA HonestIInvHolds == Spec => []HonestIInv
BY InitHonest, NextHonest, PTL DEF Spec

(* Every job a miner has or will hear of comes at the job's own difficulty. *)
THEOREM DifficultiesAlwaysAgree == Spec => []DifficultiesAgree
<1>1. HonestIInv => DifficultiesAgree
  BY DEF HonestIInv
<1> QED BY <1>1, HonestIInvHolds, PTL

(* The share the server is about to judge. *)
LEMMA FirstShareMeets ==
  ASSUME HonestIInv, NEW c \in Conns, FirstIs(c, "submit")
  PROVE  Meets(c, Head(inbuf[c]).share)
<1>1. TypeIInv /\ inbuf[c] # << >> /\ Head(inbuf[c]).method = "submit"
  BY DEF HonestIInv, FirstIs
<1>2. Head(inbuf[c]) = Lines(c)[1] /\ Lines(c) # << >> /\ Lines(c) \in Seq(Line)
  BY <1>1, LinesType
<1>3. 1 \in 1 .. Len(Lines(c))
  BY <1>2, EmptySeq
<1>4. LinesMeet(c)
  BY <1>1 DEF HonestIInv, DifficultiesAgree, Blank
<1> QED BY <1>1, <1>2, <1>3, <1>4 DEF LinesMeet

(* No share that meets the difficulty its miner was told with the job is    *)
(* refused for its difficulty, for any number of miners, jobs and retargets *)
(* and however they cross.                                                  *)
THEOREM HonestSharesMeetTarget == Spec => []HonestNeverLow
<1>1. ASSUME HonestIInv, NEW c \in Conns, FirstIs(c, "submit")
      PROVE  JM!Verdict(Submitted(c)) # "low"
  <2>5. Meets(c, Head(inbuf[c]).share)
    BY <1>1, FirstShareMeets
  <2> DEFINE s == Submitted(c)
  <2>6. s.job \in DOMAIN jobs => Work(JM!Header(s)) >= jobs[s.job].diff
    BY <2>5 DEF Meets, Submitted, Completed
  <2> HIDE DEF s
  <2>7. JM!Verdict(s) # "low"
    BY <2>6 DEF JM!Verdict, JM!MeetsTarget
  <2> QED BY <2>7 DEF s
<1>2. HonestIInv => HonestNeverLow
  BY <1>1 DEF HonestNeverLow
<1> QED BY <1>2, HonestIInvHolds, PTL

(* A share for a job the server pushed is refused as stale only when the    *)
(* job has outlived its retention: what is on the wire names jobs that were *)
(* really made, and the job manager keeps each of them that long.           *)
THEOREM SharesStaleOnlyWhenOld == Spec => []StaleOnlyWhenOld
<1>1. ASSUME HonestIInv, NEW c \in Conns, FirstIs(c, "submit"),
             JM!Verdict(Submitted(c)) = "stale"
      PROVE  issued[Submitted(c).job] < now - Keep
  <2> DEFINE j == Submitted(c).job
  <2>1. j \in 1 .. jobCounter
    <3>1. Meets(c, Head(inbuf[c]).share)
      BY <1>1, FirstShareMeets
    <3> QED BY <3>1 DEF Meets, Submitted, Completed
  <2>2. j \notin DOMAIN jobs
    <3> DEFINE s == Submitted(c)
    <3> HIDE DEF s
    <3>1. s.job \notin DOMAIN jobs
      BY <1>1 DEF JM!Verdict, s
    <3> QED BY <3>1 DEF s
  <2> HIDE DEF j
  <2>3. JMP!TypeOK /\ JMP!JobRetention
    BY <1>1 DEF HonestIInv, TypeIInv, JMP!IInv
  <2>4. issued[j] \in Nat /\ now \in Nat /\ ~ (issued[j] >= now - Keep)
    BY <2>1, <2>2, <2>3 DEF JMP!TypeOK, JMP!JobRetention
  <2>5. issued[j] < now - Keep
    BY <2>4, StratumAssumption
  <2> QED BY <2>5 DEF j
<1>2. HonestIInv => StaleOnlyWhenOld
  BY <1>1 DEF StaleOnlyWhenOld
<1> QED BY <1>2, HonestIInvHolds, PTL
-----------------------------------------------------------------------------
(* Current work: what a miner's wire ends at. *)

(* v is the last value of f that is not none; if there is no such value, t. *)
LastOf(t, f, none, v) ==
  \/ v = t /\ \A k \in DOMAIN f : f[k] = none
  \/ \E k \in DOMAIN f : /\ f[k] = v
                         /\ v # none
                         /\ \A l \in DOMAIN f : l > k => f[l] = none

JobsOn(q) == [i \in DOMAIN q |-> q[i].job]

DiffsOn(q) == [i \in DOMAIN q |-> q[i].diff]

(* A miner m with the items q on its wire ends at job j and difficulty d. *)
EndsAt(m, q, j, d) ==
  /\ LastOf(m.job, JobsOn(q), NoJob, j)
  /\ LastOf(m.told, DiffsOn(q), NoDiff, d)

(* The inductive invariant: lines are handled only once there is a job, and *)
(* every wire to a subscribed miner ends at the server's work.              *)
WorkAgrees ==
  /\ reading # NoConn => lastJob.id # NoJob
  /\ \A c \in Open : conn[c].subscribed => EndsAt(miner[c], down[c], lastJob.id, currentDiff)

LEMMA LastAdded ==
  ASSUME NEW n \in Nat, NEW f, NEW g, NEW t, NEW none, NEW v,
         DOMAIN f = 1 .. n, DOMAIN g = 1 .. n + 1, \A i \in 1 .. n : g[i] = f[i]
  PROVE  /\ g[n + 1] = v /\ v # none => LastOf(t, g, none, v)
         /\ g[n + 1] = none /\ LastOf(t, f, none, v) => LastOf(t, g, none, v)
<1>1. ASSUME g[n + 1] = v, v # none PROVE LastOf(t, g, none, v)
  <2>1. n + 1 \in DOMAIN g /\ \A l \in DOMAIN g : ~ (l > n + 1)
    OBVIOUS
  <2> QED BY <1>1, <2>1 DEF LastOf
<1>2. ASSUME g[n + 1] = none, v = t, \A k \in DOMAIN f : f[k] = none
      PROVE  LastOf(t, g, none, v)
  <2>1. \A k \in DOMAIN g : g[k] = none
    BY <1>2
  <2> QED BY <1>2, <2>1 DEF LastOf
<1>3. ASSUME g[n + 1] = none, NEW k \in DOMAIN f, f[k] = v, v # none,
             \A l \in DOMAIN f : l > k => f[l] = none
      PROVE  LastOf(t, g, none, v)
  <2>1. k \in DOMAIN g /\ g[k] = v
    BY <1>3
  <2>2. \A l \in DOMAIN g : l > k => g[l] = none
    BY <1>3
  <2> QED BY <1>3, <2>1, <2>2 DEF LastOf
<1> QED BY <1>1, <1>2, <1>3 DEF LastOf

LEMMA FirstTaken ==
  ASSUME NEW n \in Nat, NEW f, NEW g, NEW t, NEW none, NEW v,
         DOMAIN f = 1 .. n + 1, DOMAIN g = 1 .. n, \A i \in 1 .. n : g[i] = f[i + 1],
         LastOf(t, f, none, v)
  PROVE  LastOf(IF f[1] = none THEN t ELSE f[1], g, none, v)
<1> DEFINE u == IF f[1] = none THEN t ELSE f[1]
<1> SUFFICES LastOf(u, g, none, v)
  OBVIOUS
<1>1. 1 \in DOMAIN f
  OBVIOUS
<1>2. CASE v = t /\ \A k \in DOMAIN f : f[k] = none
  <2>1. v = u
    BY <1>1, <1>2
  <2>2. \A k \in DOMAIN g : g[k] = none
    BY <1>2
  <2> HIDE DEF u
  <2> QED BY <2>1, <2>2 DEF LastOf
<1>3. ASSUME NEW k \in DOMAIN f, f[k] = v, v # none, \A l \in DOMAIN f : l > k => f[l] = none
      PROVE  LastOf(u, g, none, v)
  <2>1. CASE k = 1
    <3>1. v = u
      BY <1>3, <2>1
    <3>2. \A l \in DOMAIN g : g[l] = none
      BY <1>3, <2>1
    <3> HIDE DEF u
    <3> QED BY <3>1, <3>2 DEF LastOf
  <2>2. CASE k # 1
    <3>1. k - 1 \in DOMAIN g /\ g[k - 1] = v
      BY <1>3, <2>2
    <3>2. \A l \in DOMAIN g : l > k - 1 => g[l] = none
      BY <1>3, <2>2
    <3> QED BY <1>3, <3>1, <3>2 DEF LastOf
  <2> QED BY <2>1, <2>2
<1> QED BY <1>2, <1>3 DEF LastOf

(* The last value is the one the property chooses. *)
LEMMA LastChosen ==
  ASSUME NEW n \in Nat, NEW f, DOMAIN f = 1 .. n, NEW none
  PROVE  \A t, v, S : LastOf(t, f, none, v) /\ S = {i \in 1 .. n : f[i] # none} =>
           \/ S = {} /\ v = t
           \/ \E k \in S : f[k] = v /\ \A l \in S : l <= k
<1> SUFFICES ASSUME NEW t, NEW v, NEW S, LastOf(t, f, none, v),
                    S = {i \in 1 .. n : f[i] # none}
             PROVE  \/ S = {} /\ v = t
                    \/ \E k \in S : f[k] = v /\ \A l \in S : l <= k
  OBVIOUS
<1>1. CASE v = t /\ \A k \in DOMAIN f : f[k] = none
  BY <1>1
<1>2. ASSUME NEW k \in DOMAIN f, f[k] = v, v # none, \A l \in DOMAIN f : l > k => f[l] = none
      PROVE  k \in S /\ \A l \in S : l <= k
  BY <1>2
<1> QED BY <1>1, <1>2 DEF LastOf

LEMMA GreatestIs ==
  \A S : S \subseteq Nat =>
    \A k \in S : (\A l \in S : l <= k) => (CHOOSE i \in S : \A l \in S : l <= i) = k
<1> SUFFICES ASSUME NEW S, S \subseteq Nat, NEW k \in S, \A l \in S : l <= k
             PROVE  (CHOOSE i \in S : \A l \in S : l <= i) = k
  OBVIOUS
<1>1. \A i \in S : (\A l \in S : l <= i) => i = k
  OBVIOUS
<1> QED BY <1>1

LEMMA PushedEnds ==
  ASSUME NEW m, NEW q \in Seq(Item), NEW x \in Item, NEW j, NEW d, NEW old,
         x.job = j, j # NoJob, d # NoDiff,
         x.diff = d \/ (x.diff = NoDiff /\ EndsAt(m, q, old, d))
  PROVE  EndsAt(m, Append(q, x), j, d)
<1> DEFINE r == Append(q, x)
           n == Len(q)
<1>1. /\ n \in Nat /\ DOMAIN q = 1 .. n
      /\ DOMAIN r = 1 .. n + 1
      /\ \A i \in 1 .. n : r[i] = q[i]
      /\ r[n + 1] = x
      /\ n + 1 \in 1 .. n + 1
  BY LenProperties, AppendProperties
<1> HIDE DEF r, n
<1>2. LastOf(m.job, JobsOn(r), NoJob, j)
  <2>1. /\ DOMAIN JobsOn(q) = 1 .. n /\ DOMAIN JobsOn(r) = 1 .. n + 1
        /\ \A i \in 1 .. n : JobsOn(r)[i] = JobsOn(q)[i]
        /\ JobsOn(r)[n + 1] = j
    BY <1>1 DEF JobsOn
  <2> QED BY <1>1, <2>1, LastAdded
<1>3. LastOf(m.told, DiffsOn(r), NoDiff, d)
  <2>1. /\ DOMAIN DiffsOn(q) = 1 .. n /\ DOMAIN DiffsOn(r) = 1 .. n + 1
        /\ \A i \in 1 .. n : DiffsOn(r)[i] = DiffsOn(q)[i]
        /\ DiffsOn(r)[n + 1] = x.diff
    BY <1>1 DEF DiffsOn
  <2> QED BY <1>1, <2>1, LastAdded DEF EndsAt
<1> QED BY <1>2, <1>3 DEF EndsAt, r

LEMMA HeardEnds ==
  ASSUME NEW m \in Miner, NEW q \in Seq(Item), q # << >>, NEW j, NEW d, EndsAt(m, q, j, d)
  PROVE  EndsAt(Heard(m, Head(q)), Tail(q), j, d)
<1> DEFINE x == Head(q)
           r == Tail(q)
           n == Len(r)
           p == Heard(m, x)
<1>1. /\ n \in Nat /\ DOMAIN r = 1 .. n
      /\ DOMAIN q = 1 .. n + 1 /\ 1 \in DOMAIN q
      /\ \A i \in 1 .. n : r[i] = q[i + 1]
      /\ x = q[1] /\ x \in Item
  <2>1. Len(q) \in Nat \ {0} /\ DOMAIN q = 1 .. Len(q)
    BY LenProperties, EmptySeq
  <2>2. r \in Seq(Item) /\ n = Len(q) - 1 /\ x = q[1] /\ x \in Item
        /\ \A i \in 1 .. n : r[i] = q[i + 1]
    BY HeadTailProperties
  <2>3. n \in Nat /\ DOMAIN r = 1 .. n
    BY <2>2, LenProperties
  <2> QED BY <2>1, <2>2, <2>3
<1>2. /\ p.told = IF x.diff = NoDiff THEN m.told ELSE x.diff
      /\ p.job = IF x.job = NoJob THEN m.job ELSE x.job
  BY <1>1 DEF Heard, Miner, Item
<1> HIDE DEF x, r, n, p
<1>3. LastOf(p.job, JobsOn(r), NoJob, j)
  <2>1. /\ DOMAIN JobsOn(q) = 1 .. n + 1 /\ DOMAIN JobsOn(r) = 1 .. n
        /\ \A i \in 1 .. n : JobsOn(r)[i] = JobsOn(q)[i + 1]
        /\ JobsOn(q)[1] = x.job
    BY <1>1 DEF JobsOn
  <2>2. LastOf(m.job, JobsOn(q), NoJob, j)
    BY DEF EndsAt
  <2>3. LastOf(IF JobsOn(q)[1] = NoJob THEN m.job ELSE JobsOn(q)[1], JobsOn(r), NoJob, j)
    BY <1>1, <2>1, <2>2, FirstTaken
  <2> QED BY <1>2, <2>1, <2>3
<1>4. LastOf(p.told, DiffsOn(r), NoDiff, d)
  <2>1. /\ DOMAIN DiffsOn(q) = 1 .. n + 1 /\ DOMAIN DiffsOn(r) = 1 .. n
        /\ \A i \in 1 .. n : DiffsOn(r)[i] = DiffsOn(q)[i + 1]
        /\ DiffsOn(q)[1] = x.diff
    BY <1>1 DEF DiffsOn
  <2>2. LastOf(m.told, DiffsOn(q), NoDiff, d)
    BY DEF EndsAt
  <2>3. LastOf(IF DiffsOn(q)[1] = NoDiff THEN m.told ELSE DiffsOn(q)[1], DiffsOn(r), NoDiff, d)
    BY <1>1, <2>1, <2>2, FirstTaken
  <2> QED BY <1>2, <2>1, <2>3
<1> QED BY <1>3, <1>4 DEF EndsAt, p, x, r

-----------------------------------------------------------------------------
(* Current work: every step keeps WorkAgrees. *)

WorkIInv == TypeIInv /\ WorkAgrees

LEMMA BroadcastWork ==
  ASSUME WorkIInv, [Next]_vars, NEW d \in Diffs, NEW q \in BOOLEAN, MakeLastJob(d, q),
         currentDiff' = d, SendAll(d, lastJob'), UNCHANGED <<conn, reading, miner>>
  PROVE  WorkAgrees'
<1>1. /\ lastJob'.id = jobCounter + 1 /\ jobCounter \in Nat
      /\ lastJob' \in [id : JM!JobIds \cup {NoJob}, ntime : JM!Times, diff : Diffs,
                       quantum : BOOLEAN]
  BY MakeLastJobTypes DEF WorkIInv, TypeIInv, TypeOK, JM!TypeOK
<1>2. lastJob'.id # NoJob /\ d # NoDiff
  BY <1>1, StratumAssumption DEF NoJob, NoDiff
<1> DEFINE x == Push(d, lastJob', TRUE)
<1>3. x \in Item /\ x.job = lastJob'.id /\ x.diff = d
  BY <1>1, PushTypes DEF Push
<1>4. ASSUME NEW c \in Open, conn[c].subscribed
      PROVE  EndsAt(miner[c], down'[c], lastJob'.id, d)
  <2>1. c \in Conns /\ down[c] \in Seq(Item)
    BY DEF Open, WorkIInv, TypeIInv, TypeOK
  <2>2. down'[c] = Append(down[c], x)
    BY <1>4, <2>1 DEF SendAll
  <2> HIDE DEF x
  <2> QED BY <1>2, <1>3, <2>1, <2>2, PushedEnds
<1> QED BY <1>2, <1>4 DEF WorkAgrees, Open

LEMMA ServerWork ==
  ASSUME WorkIInv, NEW c \in Conns, Accept(c) \/ Receive(c) \/ HandleLine(c)
  PROVE  WorkAgrees'
<1>1. /\ conn \in [Conns -> Conn] /\ down \in [Conns -> Seq(Item)] /\ miner \in [Conns -> Miner]
      /\ currentDiff \in Diffs
      /\ lastJob \in [id : JM!JobIds \cup {NoJob}, ntime : JM!Times, diff : Diffs,
                      quantum : BOOLEAN]
      /\ c # NoConn
  BY StratumAssumption DEF WorkIInv, TypeIInv, TypeOK
<1>2. /\ reading # NoConn => lastJob.id # NoJob
      /\ \A k \in Open : conn[k].subscribed
           => EndsAt(miner[k], down[k], lastJob.id, currentDiff)
  BY DEF WorkIInv, WorkAgrees
<1>3. currentDiff' = currentDiff /\ lastJob' = lastJob
  BY DEF Accept, Receive, HandleLine, HandleSubscribe, HandleAuthorize, HandleOther,
         Throttle, HandleSubmit
<1>4. reading' # NoConn => lastJob.id # NoJob
  BY <1>1, <1>2 DEF Accept, Receive, HandleLine, HandleSubscribe, HandleAuthorize, HandleOther,
         Throttle, HandleSubmit, Idle, FirstIs, TakeLine
<1>5. ASSUME NEW k \in Conns, k # c
      PROVE  UNCHANGED <<conn[k], down[k], miner[k]>>
  <2>1. CASE Accept(c)
    BY <1>1, <1>5, <2>1 DEF Accept, wireVars
  <2>2. CASE Receive(c)
    BY <1>1, <1>5, <2>2 DEF Receive, CloseConns
  <2>3. CASE HandleSubscribe(c) \/ HandleAuthorize(c) \/ HandleOther(c) \/ HandleSubmit(c)
    BY <1>1, <1>5, <2>3 DEF HandleSubscribe, HandleAuthorize, HandleOther, HandleSubmit,
                            TakeLine, SendCurrent, wireVars
  <2>4. CASE Throttle(c)
    BY <1>1, <1>5, <2>4 DEF Throttle, CloseConns
  <2> QED BY <2>1, <2>2, <2>3, <2>4 DEF HandleLine
<1>6. ASSUME c \in Open', conn'[c].subscribed
      PROVE  EndsAt(miner'[c], down'[c], lastJob.id, currentDiff)
  <2>1. ASSUME CloseConns({c}) PROVE FALSE
    BY <1>1, <1>6, <2>1 DEF CloseConns, Open, Closed, Fresh
  <2>2. ASSUME Accept(c) PROVE FALSE
    BY <1>1, <1>6, <2>2 DEF Accept, Closed, Fresh
  <2>3. ASSUME down' = down, miner' = miner, c \in Open, conn[c].subscribed
        PROVE  EndsAt(miner'[c], down'[c], lastJob.id, currentDiff)
    BY <1>2, <2>3
  <2>4. CASE Receive(c)
    <3>1. CASE miner[c].left
      BY <2>1, <2>4, <3>1 DEF Receive
    <3>2. CASE ~ miner[c].left
      BY <1>1, <1>6, <2>3, <2>4, <3>2 DEF Receive, Conn
    <3> QED BY <3>1, <3>2
  <2>5. CASE HandleSubscribe(c) \/ HandleAuthorize(c)
    <3> DEFINE x == Push(currentDiff, lastJob, TRUE)
    <3>1. SendCurrent(c) /\ miner' = miner /\ lastJob.id # NoJob
      BY <1>1, <1>2, <2>5 DEF HandleSubscribe, HandleAuthorize, FirstIs
    <3>2. x \in Item /\ x.job = lastJob.id /\ x.diff = currentDiff
      BY <1>1, PushTypes DEF Push
    <3>3. currentDiff # NoDiff
      BY <1>1, StratumAssumption DEF NoDiff
    <3>4. down'[c] = Append(down[c], x) /\ miner'[c] = miner[c]
      BY <1>1, <3>1 DEF SendCurrent
    <3> HIDE DEF x
    <3>5. down[c] \in Seq(Item)
      BY <1>1
    <3>6. EndsAt(miner[c], Append(down[c], x), lastJob.id, currentDiff)
      BY <3>1, <3>2, <3>3, <3>5, PushedEnds
    <3> QED BY <3>4, <3>6
  <2>6. CASE HandleOther(c)
    BY <1>6, <2>3, <2>6 DEF HandleOther, wireVars, Open
  <2>8. CASE HandleSubmit(c)
    <3>1. down' = down /\ miner' = miner
      BY <2>8 DEF HandleSubmit, wireVars
    <3>2. conn'[c].subscribed = conn[c].subscribed /\ conn'[c].state = conn[c].state
      BY <1>1, <2>8 DEF HandleSubmit, Conn
    <3> QED BY <1>6, <2>3, <3>1, <3>2 DEF Open
  <2>7. CASE Throttle(c)
    BY <2>1, <2>7 DEF Throttle
  <2> QED BY <2>2, <2>4, <2>5, <2>6, <2>7, <2>8 DEF HandleLine
<1>7. ASSUME NEW k \in Conns, k \in Open', conn'[k].subscribed
      PROVE  EndsAt(miner'[k], down'[k], lastJob.id, currentDiff)
  <2>1. CASE k = c
    BY <1>6, <1>7, <2>1
  <2>2. CASE k # c
    BY <1>2, <1>5, <1>7, <2>2 DEF Open
  <2> QED BY <2>1, <2>2
<1> QED BY <1>3, <1>4, <1>7 DEF WorkAgrees, Open

LEMMA HousekeepingWork ==
  ASSUME WorkIInv, [Next]_vars, Housekeeping
  PROVE  WorkAgrees'
<1>1. /\ reading = NoConn /\ reading' = reading
      /\ currentDiff' = currentDiff /\ currentDiff \in Diffs /\ lastJob.quantum \in BOOLEAN
      /\ CloseConns(TimedOut) /\ TimedOut \subseteq Open
  BY DEF Housekeeping, WorkIInv, TypeIInv, TypeOK, TimedOut, Idle
<1>2. currentDiff # NoDiff
  BY <1>1, StratumAssumption DEF NoDiff
<1>3. ASSUME NEW c \in Conns, c \in Open', conn'[c].subscribed
      PROVE  EndsAt(miner'[c], down'[c], lastJob'.id, currentDiff)
  <2>1. c \notin TimedOut
    BY <1>1, <1>3 DEF CloseConns, Open, Closed, Fresh
  <2>2. conn'[c] = conn[c] /\ miner'[c] = miner[c] /\ c \in Open
    BY <1>1, <1>3, <2>1 DEF CloseConns, Open
  <2>3. EndsAt(miner[c], down[c], lastJob.id, currentDiff)
    BY <1>3, <2>2 DEF WorkIInv, WorkAgrees
  <2>4. CASE ~ PushDue
    BY <1>3, <2>1, <2>2, <2>3, <2>4 DEF Housekeeping
  <2>5. CASE PushDue
    <3>1. /\ lastJob'.id = jobCounter + 1 /\ jobCounter \in Nat
          /\ lastJob' \in [id : JM!JobIds \cup {NoJob}, ntime : JM!Times, diff : Diffs,
                           quantum : BOOLEAN]
      BY <1>1, <2>5, MakeLastJobTypes DEF Housekeeping, WorkIInv, TypeIInv, TypeOK, JM!TypeOK
    <3>2. lastJob'.id # NoJob
      BY <3>1 DEF NoJob
    <3>3. PICK d \in {currentDiff, NoDiff}, clean \in BOOLEAN :
             down'[c] = Append(down[c], Push(d, lastJob', clean))
      BY <1>3, <2>1, <2>2, <2>5 DEF Housekeeping, PeriodicPush
    <3>4. down[c] \in Seq(Item)
      BY DEF WorkIInv, TypeIInv, TypeOK
    <3> DEFINE x == Push(d, lastJob', clean)
    <3>5. x \in Item /\ x.job = lastJob'.id /\ x.diff = d
      BY <1>1, <3>1, PushTypes DEF Push
    <3> HIDE DEF x
    <3> QED BY <1>2, <2>2, <2>3, <3>2, <3>3, <3>4, <3>5, PushedEnds DEF x
  <2> QED BY <2>4, <2>5
<1> QED BY <1>1, <1>3 DEF WorkAgrees, Open

LEMMA MinerWork ==
  ASSUME WorkIInv, Miners
  PROVE  WorkAgrees'
<1>1. /\ down \in [Conns -> Seq(Item)] /\ miner \in [Conns -> Miner]
      /\ \A k \in Open : conn[k].subscribed
           => EndsAt(miner[k], down[k], lastJob.id, currentDiff)
  BY DEF WorkIInv, WorkAgrees, TypeIInv, TypeOK
<1>2. UNCHANGED <<conn, currentDiff, lastJob, reading, Open>>
  BY MinersKeep DEF Open
<1>3. ASSUME NEW k \in Conns, down'[k] = down[k],
             miner'[k].job = miner[k].job, miner'[k].told = miner[k].told
      PROVE  EndsAt(miner[k], down[k], lastJob.id, currentDiff)
               => EndsAt(miner'[k], down'[k], lastJob.id, currentDiff)
  BY <1>3 DEF EndsAt
<1>4. ASSUME NEW c \in Conns, Hear(c), NEW k \in Conns,
             EndsAt(miner[k], down[k], lastJob.id, currentDiff)
      PROVE  EndsAt(miner'[k], down'[k], lastJob.id, currentDiff)
  <2>1. CASE k = c
    <3>1. /\ down[c] # << >>
          /\ down'[c] = Tail(down[c]) /\ miner'[c] = Heard(miner[c], Head(down[c]))
      BY <1>1, <1>4 DEF Hear
    <3> QED BY <1>1, <1>4, <2>1, <3>1, HeardEnds
  <2>2. CASE k # c
    BY <1>1, <1>3, <1>4, <2>2 DEF Hear
  <2> QED BY <2>1, <2>2
<1>5. ASSUME NEW c \in Conns, NEW method \in Methods, Ask(c, method), NEW k \in Conns
      PROVE  down'[k] = down[k] /\ miner'[k].job = miner[k].job /\ miner'[k].told = miner[k].told
  BY <1>1, <1>5 DEF Ask, Miner
<1>6. ASSUME NEW c \in Conns, NEW ex2 \in Ex2s, NEW ntime \in Ntimes, NEW nonce \in Nonces,
             NEW vbits \in VersionBits, FindShare(c, ex2, ntime, nonce, vbits), NEW k \in Conns
      PROVE  down'[k] = down[k] /\ miner'[k].job = miner[k].job /\ miner'[k].told = miner[k].told
  <2>1. down' = down /\ miner' = [miner EXCEPT ![c].tried = @ \cup {nonce}]
    BY <1>6 DEF FindShare
  <2> QED BY <1>1, <2>1 DEF Miner
<1>7. ASSUME NEW c \in Conns, Leave(c), NEW k \in Conns
      PROVE  down'[k] = down[k] /\ miner'[k].job = miner[k].job /\ miner'[k].told = miner[k].told
  BY <1>1, <1>7 DEF Leave, Miner
<1>8. ASSUME NEW k \in Conns, EndsAt(miner[k], down[k], lastJob.id, currentDiff)
      PROVE  EndsAt(miner'[k], down'[k], lastJob.id, currentDiff)
  BY <1>3, <1>4, <1>5, <1>6, <1>7, <1>8 DEF Miners
<1> QED BY <1>1, <1>2, <1>8 DEF WorkIInv, WorkAgrees, Open

LEMMA InitWork == Init => WorkIInv
<1> SUFFICES ASSUME Init PROVE WorkIInv
  OBVIOUS
<1>1. Open = {} /\ reading = NoConn
  BY DEF Init, Open, Fresh
<1> QED BY <1>1, InitTypeIInv DEF WorkIInv, WorkAgrees

LEMMA NextWork == WorkIInv /\ [Next]_vars => WorkIInv'
<1> SUFFICES ASSUME WorkIInv, [Next]_vars PROVE WorkIInv'
  OBVIOUS
<1>1. TypeIInv'
  BY NextTypeIInv DEF WorkIInv
<1>2. ASSUME NEW d \in Diffs, BroadcastQuantumJob(d) \/ BroadcastDifficulty(d)
      PROVE  WorkAgrees'
  BY <1>2, BroadcastWork DEF BroadcastQuantumJob, BroadcastDifficulty
<1>3. ASSUME Server PROVE WorkAgrees'
  BY <1>2, <1>3, ServerWork, HousekeepingWork DEF Server
<1>4. ASSUME Miners PROVE WorkAgrees'
  BY <1>4, MinerWork
<1>5. ASSUME Tick \/ UNCHANGED vars PROVE WorkAgrees'
  <2>1. UNCHANGED <<conn, currentDiff, lastJob, reading, down, miner>>
    BY <1>5 DEF Tick, vars, serverVars, wireVars
  <2> QED BY <2>1 DEF WorkIInv, WorkAgrees, Open
<1> QED BY <1>1, <1>3, <1>4, <1>5 DEF Next, WorkIInv

LEMMA WorkIInvHolds == Spec => []WorkIInv
BY InitWork, NextWork, PTL DEF Spec

(* Every subscribed miner is on its way to the server's current job and     *)
(* difficulty, whichever of the four paths that send work came last and     *)
(* however far the miner has read.                                          *)
THEOREM AlwaysOnCurrentWork == Spec => []OnCurrentWork
<1>1. ASSUME WorkIInv, NEW c \in Open, conn[c].subscribed
      PROVE  Notified(c) = lastJob.id /\ Told(c) = currentDiff
  <2> DEFINE q == down[c]
             n == Len(q)
  <2>1. n \in Nat /\ DOMAIN q = 1 .. n
    BY <1>1, LenProperties DEF Open, WorkIInv, TypeIInv, TypeOK
  <2>2. EndsAt(miner[c], q, lastJob.id, currentDiff)
    BY <1>1 DEF WorkIInv, WorkAgrees
  <2> DEFINE J == {i \in 1 .. n : JobsOn(q)[i] # NoJob}
             D == {i \in 1 .. n : DiffsOn(q)[i] # NoDiff}
  <2> HIDE DEF q, n
  <2>3. /\ lastJob.id = IF J = {} THEN miner[c].job
                        ELSE JobsOn(q)[CHOOSE i \in J : \A k \in J : k <= i]
        /\ J # {} => (CHOOSE i \in J : \A k \in J : k <= i) \in J
    <3>1. DOMAIN JobsOn(q) = 1 .. n /\ LastOf(miner[c].job, JobsOn(q), NoJob, lastJob.id)
      BY <2>1, <2>2 DEF JobsOn, EndsAt
    <3>2. J = {i \in 1 .. n : JobsOn(q)[i] # NoJob}
      OBVIOUS
    <3> HIDE DEF J
    <3>3. \/ J = {} /\ lastJob.id = miner[c].job
          \/ \E k \in J : JobsOn(q)[k] = lastJob.id /\ \A l \in J : l <= k
      <4> DEFINE id == lastJob.id
                 job == miner[c].job
                 js == JobsOn(q)
      <4>1. DOMAIN js = 1 .. n /\ LastOf(job, js, NoJob, id) /\ J = {i \in 1 .. n : js[i] # NoJob}
        BY <3>1, <3>2
      <4> HIDE DEF id, job, js
      <4>2. \A t, v, S : LastOf(t, js, NoJob, v) /\ S = {i \in 1 .. n : js[i] # NoJob} =>
              \/ S = {} /\ v = t
              \/ \E k \in S : js[k] = v /\ \A l \in S : l <= k
        BY SMTT(30), <2>1, <4>1, LastChosen
      <4>3. \/ J = {} /\ id = job
            \/ \E k \in J : js[k] = id /\ \A l \in J : l <= k
        BY <4>1, <4>2
      <4> QED BY <4>3 DEF id, job, js
    <3>4. J \subseteq Nat
      BY <3>2
    <3>5. ASSUME NEW k \in J, JobsOn(q)[k] = lastJob.id, \A l \in J : l <= k
          PROVE  /\ J # {}
                 /\ lastJob.id = JobsOn(q)[CHOOSE i \in J : \A l \in J : l <= i]
                 /\ (CHOOSE i \in J : \A l \in J : l <= i) \in J
      <4>1. (CHOOSE i \in J : \A l \in J : l <= i) = k
        BY <3>4, <3>5, GreatestIs
      <4> QED BY <3>5, <4>1
    <3> QED BY <3>3, <3>5
  <2>4. /\ currentDiff = IF D = {} THEN miner[c].told
                         ELSE DiffsOn(q)[CHOOSE i \in D : \A k \in D : k <= i]
        /\ D # {} => (CHOOSE i \in D : \A k \in D : k <= i) \in D
    <3>1. DOMAIN DiffsOn(q) = 1 .. n /\ LastOf(miner[c].told, DiffsOn(q), NoDiff, currentDiff)
      BY <2>1, <2>2 DEF DiffsOn, EndsAt
    <3>2. D = {i \in 1 .. n : DiffsOn(q)[i] # NoDiff}
      OBVIOUS
    <3> HIDE DEF D
    <3>3. \/ D = {} /\ currentDiff = miner[c].told
          \/ \E k \in D : DiffsOn(q)[k] = currentDiff /\ \A l \in D : l <= k
      BY <2>1, <3>1, <3>2, LastChosen
    <3>4. D \subseteq Nat
      BY <3>2
    <3>5. ASSUME NEW k \in D, DiffsOn(q)[k] = currentDiff, \A l \in D : l <= k
          PROVE  /\ D # {}
                 /\ currentDiff = DiffsOn(q)[CHOOSE i \in D : \A l \in D : l <= i]
                 /\ (CHOOSE i \in D : \A l \in D : l <= i) \in D
      <4>1. (CHOOSE i \in D : \A l \in D : l <= i) = k
        BY <3>4, <3>5, GreatestIs
      <4> QED BY <3>5, <4>1
    <3> QED BY <3>3, <3>5
  <2>5. Notified(c) = lastJob.id
    <3>1. /\ J = {i \in DOMAIN q : q[i].job # NoJob}
          /\ \A i \in DOMAIN q : JobsOn(q)[i] = q[i].job
      BY <2>1 DEF JobsOn
    <3>2. Notified(c) = LET T == {i \in DOMAIN q : q[i].job # NoJob}
                   IN  IF T = {} THEN miner[c].job
                       ELSE q[CHOOSE i \in T : \A k \in T : k <= i].job
      BY DEF Notified, q
    <3>3. Notified(c) = IF J = {} THEN miner[c].job
                  ELSE q[CHOOSE i \in J : \A k \in J : k <= i].job
      BY <3>1, <3>2
    <3>4. J \subseteq DOMAIN q
      BY <3>1
    <3> HIDE DEF J
    <3> QED BY <2>3, <3>1, <3>3, <3>4
  <2>6. Told(c) = currentDiff
    <3>1. /\ D = {i \in DOMAIN q : q[i].diff # NoDiff}
          /\ \A i \in DOMAIN q : DiffsOn(q)[i] = q[i].diff
      BY <2>1 DEF DiffsOn
    <3>2. Told(c) = LET T == {i \in DOMAIN q : q[i].diff # NoDiff}
                   IN  IF T = {} THEN miner[c].told
                       ELSE q[CHOOSE i \in T : \A k \in T : k <= i].diff
      BY DEF Told, q
    <3>3. Told(c) = IF D = {} THEN miner[c].told
                  ELSE q[CHOOSE i \in D : \A k \in D : k <= i].diff
      BY <3>1, <3>2
    <3>4. D \subseteq DOMAIN q
      BY <3>1
    <3> HIDE DEF D
    <3> QED BY <2>4, <3>1, <3>3, <3>4
  <2> QED BY <2>5, <2>6
<1>2. WorkIInv => OnCurrentWork
  BY <1>1 DEF OnCurrentWork
<1> QED BY <1>2, WorkIInvHolds, PTL
=============================================================================
