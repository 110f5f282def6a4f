------------------------------ MODULE Stratum ------------------------------
(***************************************************************************)
(* The Stratum server (cpp/src/stratum.cpp, StratumServer) between the job  *)
(* manager and its miners.  One thread runs the event loop: it accepts,     *)
(* reads and handles lines, does the housekeeping, and between two passes   *)
(* the daemon may broadcast a new difficulty.                               *)
(*                                                                          *)
(* Abstractions.                                                            *)
(*  - A connection is one TCP session: a descriptor that is used again is   *)
(*    another member of Conns.  Both directions are FIFO; outbuf and the    *)
(*    socket's buffers are the one sequence down[c].                        *)
(*  - The messages one handler sends to one miner are one item of down[c]:  *)
(*    a difficulty (or NoDiff) and a job (or NoJob).  Answers to requests   *)
(*    are left out: what a submit is answered is JM!Verdict of it.           *)
(*  - The miner is outside the repository: it subscribes once, mines the    *)
(*    last job it was notified of at the difficulty it was told before it,  *)
(*    and starts its nonces again when a job comes with clean_jobs.         *)
(*  - The extranonce1 is drawn from 2^32 values: two connections never draw *)
(*    the same one here.                                                    *)
(***************************************************************************)
EXTENDS Integers, FiniteSets, Sequences

CONSTANTS
  Keep, NtimeRoll, Diffs, Ex1s, Ex2s, Ntimes, Nonces, VersionBits, Malformed,
  Reads(_), Work(_), MaxJobs, MaxTime,       \* of the job manager
  Conns,        \* the connections that may ever be made
  NoConn,       \* no connection
  NoEx1,        \* the empty extranonce1 of a connection that did not subscribe
  InitDiff,     \* current_diff_ of a new server
  Interval,     \* job_interval_s_
  IdleLimit,    \* silence after which a connection is closed
  Burst,        \* submits allowed in one window of the flood guard
  BurstWindow,  \* length of that window
  MaxConns      \* connections open at a time

ASSUME StratumAssumption ==
  /\ Keep \in Nat
  /\ NtimeRoll \in Nat
  /\ MaxJobs \in Nat
  /\ MaxTime \in Nat
  /\ Diffs \subseteq Nat
  /\ InitDiff \in Diffs
  /\ NoEx1 \in Ex1s
  /\ NoConn \notin Conns
  /\ Interval \in Nat
  /\ IdleLimit \in Nat
  /\ BurstWindow \in Nat

VARIABLES
  jobs, jobCounter, seen, now, issued, accepts,   \* the job manager
  conn,          \* conns_, without inbuf and outbuf
  inbuf,         \* Conn::inbuf, the lines read and not yet handled
  currentDiff,   \* current_diff_
  lastJob,       \* last_job_; its id is NoJob while has_job_ is false
  lastPush,      \* last_job_push of housekeeping
  reading,       \* the connection whose lines on_readable is handling
  up,            \* lines on their way to the server, per connection
  down,          \* items on their way to the miner, per connection
  miner          \* the miners

JM == INSTANCE JobManager

jmVars     == <<jobs, jobCounter, seen, issued, accepts>>
serverVars == <<conn, inbuf, currentDiff, lastJob, lastPush, reading>>
wireVars   == <<up, down, miner>>
vars == <<jobs, jobCounter, seen, now, issued, accepts, conn, inbuf, currentDiff,
          lastJob, lastPush, reading, up, down, miner>>

NoJob  == 0
NoDiff == -1

Conn == [state : {"new", "open", "closed"}, subscribed : BOOLEAN,
         authorized : BOOLEAN, ex1 : Ex1s, lastRx : Nat,
         submits : Nat, windowStart : Int]

Fresh == [state |-> "new", subscribed |-> FALSE, authorized |-> FALSE, ex1 |-> NoEx1,
          lastRx |-> 0, submits |-> 0, windowStart |-> 0]

Closed == [Fresh EXCEPT !.state = "closed"]

Item == [diff : Diffs \cup {NoDiff}, job : JM!JobIds \cup {NoJob}, ntime : JM!Times,
         clean : BOOLEAN]

(* What a miner fills in of a submission; the server adds the extranonce1. *)
Share == [job : JM!JobIds, ex2 : Ex2s, ntime : Ntimes, nonce : Nonces,
          vbits : VersionBits]

Methods == {"subscribe", "other", "authorize"}

(* A share with the extranonce1 of its connection. *)
Completed(c, s) == [job |-> s.job, ex1 |-> conn[c].ex1, ex2 |-> s.ex2, ntime |-> s.ntime,
                    nonce |-> s.nonce, vbits |-> s.vbits]

Line == [method : Methods]
          \cup [method : {"submit"}, share : Share]

Miner == [asked : Methods \cup {"nothing"}, left : BOOLEAN,
          told : Diffs \cup {NoDiff}, job : JM!JobIds \cup {NoJob}, ntime : JM!Times,
          diff : Diffs \cup {NoDiff}, tried : SUBSET Nonces]

NewMiner == [asked |-> "nothing", left |-> FALSE, told |-> NoDiff, job |-> NoJob,
             ntime |-> 0, diff |-> NoDiff, tried |-> {}]

Open == {c \in Conns : conn[c].state = "open"}

-----------------------------------------------------------------------------
(* Pushes. *)

(* last_job_ = make_job(d) or make_quantum_job(..., d). *)
MakeLastJob(d, quantum) ==
  /\ JM!MakeJob(d, quantum)
  /\ lastJob' = [id |-> JM!NextId, ntime |-> now, diff |-> d, quantum |-> quantum]

(* send_difficulty followed by push_job or push_quantum_job of job j. *)
Push(d, j, clean) == [diff |-> d, job |-> j.id, ntime |-> j.ntime, clean |-> clean]

(* send_difficulty alone. *)
Tell(d) == [diff |-> d, job |-> NoJob, ntime |-> 0, clean |-> FALSE]

SendAll_OldDiff(d, j) ==
  down' = [c \in Conns |->
             IF c \notin Open THEN down[c]
             ELSE Append(down[c], IF conn[c].subscribed THEN Push(currentDiff, j, TRUE)
                                                        ELSE Tell(d))]

(* The loop of both broadcasts: the difficulty to every connection, the job *)
(* to the subscribed ones.                                                  *)
SendAll(d, j) ==
  down' = [c \in Conns |->
             IF c \notin Open THEN down[c]
             ELSE Append(down[c], IF conn[c].subscribed THEN Push(d, j, TRUE) ELSE Tell(d))]

BroadcastQuantumJob_KeepsDiff(d) ==
  /\ lastJob.id = NoJob
  /\ MakeLastJob(d, TRUE)
  /\ UNCHANGED currentDiff
  /\ SendAll(d, lastJob')
  /\ UNCHANGED <<now, conn, inbuf, lastPush, reading, up, miner>>

(* Daemon::run before its loop: a first quantum job, broadcast to nobody    *)
(* yet, since connections are accepted only by run_once.                    *)
BroadcastQuantumJob(d) ==
  /\ lastJob.id = NoJob
  /\ MakeLastJob(d, TRUE)
  /\ currentDiff' = d
  /\ SendAll(d, lastJob')
  /\ UNCHANGED <<now, conn, inbuf, lastPush, reading, up, miner>>

(* The event loop runs and is between two handlers. *)
Idle == lastJob.id # NoJob /\ reading = NoConn

(* The controller's broadcast_difficulty: jobs made from here on are        *)
(* ordinary ones.                                                           *)
BroadcastDifficulty(d) ==
  /\ Idle
  /\ currentDiff' = d
  /\ MakeLastJob(d, FALSE)
  /\ SendAll(d, lastJob')
  /\ UNCHANGED <<now, conn, inbuf, lastPush, reading, up, miner>>

-----------------------------------------------------------------------------
(* Connections. *)

(* accept_new: over the limit the descriptor is closed at once. *)
Accept(c) ==
  /\ Idle
  /\ conn[c].state = "new"
  /\ conn' = [conn EXCEPT ![c] = IF Cardinality(Open) >= MaxConns THEN Closed
                                 ELSE [Fresh EXCEPT !.state = "open", !.lastRx = now]]
  /\ UNCHANGED <<jmVars, now, inbuf, currentDiff, lastJob, lastPush, reading, wireVars>>

(* close_conn, for every connection of S: its buffers go with it. *)
CloseConns(S) ==
  /\ conn' = [c \in Conns |-> IF c \in S THEN Closed ELSE conn[c]]
  /\ inbuf' = [c \in Conns |-> IF c \in S THEN << >> ELSE inbuf[c]]
  /\ up' = [c \in Conns |-> IF c \in S THEN << >> ELSE up[c]]
  /\ miner' = [c \in Conns |-> IF c \in S THEN NewMiner ELSE miner[c]]

(* on_readable, the recv loop: everything that has arrived goes to inbuf.   *)
(* An end of stream found in the same pass, like an error, closes the       *)
(* connection before any of the lines is handled.                           *)
Receive(c) ==
  /\ Idle
  /\ c \in Open
  /\ IF miner[c].left
     THEN /\ CloseConns({c})
          /\ down' = [down EXCEPT ![c] = << >>]
          /\ UNCHANGED reading
     ELSE /\ up[c] # << >>
          /\ inbuf' = [inbuf EXCEPT ![c] = @ \o up[c]]
          /\ up' = [up EXCEPT ![c] = << >>]
          /\ conn' = [conn EXCEPT ![c].lastRx = now]
          /\ reading' = c
          /\ UNCHANGED <<down, miner>>
  /\ UNCHANGED <<jmVars, now, currentDiff, lastJob, lastPush>>

TakeLine_OneOnly(c) ==
  /\ reading = c
  /\ inbuf' = [inbuf EXCEPT ![c] = Tail(@)]
  /\ reading' = NoConn

TakeLine_Unchecked(c) ==
  /\ reading = c
  /\ inbuf' = [inbuf EXCEPT ![c] = Tail(@)]
  /\ reading' = c

(* The while loop of on_readable: handle_line has taken the first line of   *)
(* inbuf; the loop ends with the last one.                                  *)
TakeLine(c) ==
  /\ reading = c
  /\ inbuf' = [inbuf EXCEPT ![c] = Tail(@)]
  /\ reading' = IF Len(inbuf[c]) = 1 THEN NoConn ELSE c


FirstIs(c, method) ==
  /\ reading = c
  /\ inbuf[c] # << >>
  /\ Head(inbuf[c]).method = method

(* The current difficulty and job, with clean_jobs. *)
SendCurrent(c) == down' = [down EXCEPT ![c] = Append(@, Push(currentDiff, lastJob, TRUE))]

(* mining.subscribe: a new extranonce1, then the current work. *)
HandleSubscribe(c) ==
  /\ FirstIs(c, "subscribe")
  /\ TakeLine(c)
  /\ \E x \in Ex1s \ ({NoEx1} \cup {conn[k].ex1 : k \in Conns}) :
        conn' = [conn EXCEPT ![c].ex1 = x, ![c].subscribed = TRUE]
  /\ SendCurrent(c)
  /\ UNCHANGED <<jmVars, now, currentDiff, lastJob, lastPush, up, miner>>

(* mining.authorize: the current work again. *)
HandleAuthorize(c) ==
  /\ FirstIs(c, "authorize")
  /\ TakeLine(c)
  /\ conn' = [conn EXCEPT ![c].authorized = TRUE]
  /\ SendCurrent(c)
  /\ UNCHANGED <<jmVars, now, currentDiff, lastJob, lastPush, up, miner>>

(* configure, suggest_difficulty, get_transactions, ping, quantum_submit,   *)
(* an unknown method and a line that does not parse: an answer at most.     *)
HandleOther(c) ==
  /\ FirstIs(c, "other")
  /\ TakeLine(c)
  /\ UNCHANGED <<jmVars, now, conn, currentDiff, lastJob, lastPush, wireVars>>

(* The submits of the flood guard's window, this one included. *)
SubmitsNow(c) == 1 + IF now - conn[c].windowStart > BurstWindow THEN 0 ELSE conn[c].submits

WindowStart(c) ==
  IF now - conn[c].windowStart > BurstWindow THEN now ELSE conn[c].windowStart

(* The submission of c's first line. *)
Submitted(c) == Completed(c, Head(inbuf[c]).share)

(* mining.submit over the flood guard's limit: the connection is closed     *)
(* without an answer.                                                       *)
Throttle(c) ==
  /\ FirstIs(c, "submit")
  /\ SubmitsNow(c) > Burst
  /\ CloseConns({c})
  /\ down' = [down EXCEPT ![c] = << >>]
  /\ reading' = NoConn
  /\ UNCHANGED <<jmVars, now, currentDiff, lastJob, lastPush>>

Judge_Trusting(s) ==
  /\ seen' = JM!Put(seen, JM!Key(s), now)
  /\ accepts' = JM!Put(accepts, JM!Key(s), JM!Accepts(JM!Key(s)) + 1)
  /\ UNCHANGED <<jobs, jobCounter, issued>>

(* Only what verify_submit accepts is counted. *)
Judge(s) ==
  \/ JM!VerifySubmit(s)
  \/ JM!Verdict(s) # "ok" /\ UNCHANGED jmVars

(* mining.submit: verified by the job manager and answered. *)
HandleSubmit(c) ==
  /\ FirstIs(c, "submit")
  /\ SubmitsNow(c) <= Burst
  /\ TakeLine(c)
  /\ conn' = [conn EXCEPT ![c].submits = SubmitsNow(c), ![c].windowStart = WindowStart(c)]
  /\ Judge(Submitted(c))
  /\ UNCHANGED <<now, currentDiff, lastJob, lastPush, wireVars>>

-----------------------------------------------------------------------------
(* Housekeeping, at the end of every pass. *)

PushDue == Interval > 0 /\ now - lastPush > Interval

TimedOut == {c \in Open : now - conn[c].lastRx > IdleLimit}

PeriodicPush_Authorized(c) ==
  IF conn[c].subscribed /\ conn[c].authorized
  THEN Append(down[c], IF lastJob.quantum THEN Push(currentDiff, lastJob', TRUE)
                                          ELSE Push(NoDiff, lastJob', FALSE))
  ELSE down[c]

(* The periodic job goes to the subscribed connections; in quantum mode it  *)
(* is a quantum job, with its difficulty and clean_jobs.                    *)
PeriodicPush(c) ==
  IF conn[c].subscribed
  THEN Append(down[c], IF lastJob.quantum THEN Push(currentDiff, lastJob', TRUE)
                                          ELSE Push(NoDiff, lastJob', FALSE))
  ELSE down[c]

(* housekeeping: the periodic job if it is due, then the silent connections *)
(* are closed.                                                              *)
Housekeeping ==
  /\ Idle
  /\ PushDue \/ TimedOut # {}
  /\ IF PushDue
     THEN /\ lastPush' = now
          /\ MakeLastJob(currentDiff, lastJob.quantum)
          /\ down' = [c \in Conns |-> IF c \in TimedOut THEN << >>
                                      ELSE IF c \in Open THEN PeriodicPush(c) ELSE down[c]]
     ELSE /\ UNCHANGED <<jmVars, lastPush, lastJob>>
          /\ down' = [c \in Conns |-> IF c \in TimedOut THEN << >> ELSE down[c]]
  /\ CloseConns(TimedOut)
  /\ UNCHANGED <<now, currentDiff, reading>>

-----------------------------------------------------------------------------
(* The miners, outside the repository. *)

MinerUnchanged == UNCHANGED <<jmVars, now, serverVars>>

(* What a miner may ask for next: a subscription first, then perhaps one    *)
(* request that only gets an answer, then the authorization, each before or *)
(* after it hears of a job.                                                 *)
MayAsk(asked) ==
  CASE asked = "nothing"   -> {"subscribe"}
    [] asked = "subscribe" -> {"other", "authorize"}
    [] asked = "other"     -> {"authorize"}
    [] asked = "authorize" -> {}

Ask(c, method) ==
  /\ c \in Open
  /\ ~ miner[c].left
  /\ method \in MayAsk(miner[c].asked)
  /\ up' = [up EXCEPT ![c] = Append(@, [method |-> method])]
  /\ miner' = [miner EXCEPT ![c].asked = method]
  /\ UNCHANGED down
  /\ MinerUnchanged

(* The miner's state after an item from the server. *)
Heard(m, i) ==
  LET told == IF i.diff = NoDiff THEN m.told ELSE i.diff
  IN  IF i.job = NoJob THEN [m EXCEPT !.told = told]
      ELSE [m EXCEPT !.told = told, !.job = i.job, !.ntime = i.ntime, !.diff = told,
                     !.tried = IF i.clean \/ i.job # m.job THEN {} ELSE @]

Hear(c) ==
  /\ c \in Open
  /\ ~ miner[c].left
  /\ down[c] # << >>
  /\ miner' = [miner EXCEPT ![c] = Heard(@, Head(down[c]))]
  /\ down' = [down EXCEPT ![c] = Tail(@)]
  /\ UNCHANGED up
  /\ MinerUnchanged

(* The miner finds a share whose header, with the extranonce1 and the ntime *)
(* it was given, meets the difficulty it was told with the job.             *)
FindShare(c, ex2, ntime, nonce, vbits) ==
  LET share == [job |-> miner[c].job, ex2 |-> ex2, ntime |-> ntime,
                nonce |-> nonce, vbits |-> vbits]
  IN
  /\ c \in Open
  /\ ~ miner[c].left
  /\ miner[c].job # NoJob
  /\ {ex2, ntime, nonce, vbits} \cap Malformed = {}
  /\ Reads(ntime) = miner[c].ntime
  /\ nonce \notin miner[c].tried
  /\ Work(JM!Header(Completed(c, share))) >= miner[c].diff
  /\ up' = [up EXCEPT ![c] = Append(@, [method |-> "submit", share |-> share])]
  /\ miner' = [miner EXCEPT ![c].tried = @ \cup {nonce}]
  /\ UNCHANGED down
  /\ MinerUnchanged

(* The miner closes its end or loses the network. *)
Leave(c) ==
  /\ c \in Open
  /\ ~ miner[c].left
  /\ miner' = [miner EXCEPT ![c].left = TRUE]
  /\ UNCHANGED <<up, down>>
  /\ MinerUnchanged

Tick == JM!Tick /\ UNCHANGED <<serverVars, wireVars>>

-----------------------------------------------------------------------------
Init ==
  /\ JM!Init
  /\ conn = [c \in Conns |-> Fresh]
  /\ inbuf = [c \in Conns |-> << >>]
  /\ currentDiff = InitDiff
  /\ lastJob = [id |-> NoJob, ntime |-> 0, diff |-> InitDiff, quantum |-> FALSE]
  /\ lastPush = -1 - Interval
  /\ reading = NoConn
  /\ up = [c \in Conns |-> << >>]
  /\ down = [c \in Conns |-> << >>]
  /\ miner = [c \in Conns |-> NewMiner]

HandleLine(c) == HandleSubscribe(c) \/ HandleAuthorize(c) \/ HandleOther(c)
                   \/ Throttle(c) \/ HandleSubmit(c)

Server == \/ \E d \in Diffs : BroadcastQuantumJob(d) \/ BroadcastDifficulty(d)
          \/ \E c \in Conns : Accept(c) \/ Receive(c) \/ HandleLine(c)
          \/ Housekeeping

Miners == \E c \in Conns :
             \/ \E method \in Methods : Ask(c, method)
             \/ Hear(c)
             \/ \E ex2 \in Ex2s, ntime \in Ntimes, nonce \in Nonces, vbits \in VersionBits :
                   FindShare(c, ex2, ntime, nonce, vbits)
             \/ Leave(c)

Next == Server \/ Miners \/ Tick

Spec == Init /\ [][Next]_vars

(* The loop polls with a timeout for ever, and epoll reports a readable     *)
(* connection on every pass until it is read.                               *)
FairSpec == Spec /\ \A c \in Conns : WF_vars(Receive(c)) /\ WF_vars(HandleLine(c))

-----------------------------------------------------------------------------
(* Properties. *)

(* The state has the types of the code's fields. *)
TypeOK ==
  /\ JM!TypeOK
  /\ now \in JM!Times
  /\ conn \in [Conns -> Conn]
  /\ inbuf \in [Conns -> Seq(Line)]
  /\ currentDiff \in Diffs
  /\ lastJob \in [id : JM!JobIds \cup {NoJob}, ntime : JM!Times, diff : Diffs,
                  quantum : BOOLEAN]
  /\ lastPush \in Int
  /\ reading \in Conns \cup {NoConn}
  /\ reading # NoConn => inbuf[reading] # << >>
  /\ up \in [Conns -> Seq(Line)]
  /\ down \in [Conns -> Seq(Item)]
  /\ miner \in [Conns -> Miner]

(* A share that meets the difficulty its miner was told with the job is     *)
(* never refused for its difficulty, however retargets, periodic jobs and   *)
(* shares cross on the wire ("per-job difficulty snapshot").                *)
HonestNeverLow ==
  \A c \in Conns : FirstIs(c, "submit") => JM!Verdict(Submitted(c)) # "low"

(* A share for a job the server pushed is refused as stale only when the    *)
(* job has outlived its retention.                                          *)
StaleOnlyWhenOld ==
  \A c \in Conns :
     FirstIs(c, "submit") /\ JM!Verdict(Submitted(c)) = "stale"
        => issued[Submitted(c).job] < now - Keep

(* The job and the difficulty a connection will have heard when all that is *)
(* on its wire has arrived.                                                 *)
Notified(c) ==
  LET jobItems == {i \in DOMAIN down[c] : down[c][i].job # NoJob}
  IN  IF jobItems = {} THEN miner[c].job
      ELSE down[c][CHOOSE i \in jobItems : \A k \in jobItems : k <= i].job

Told(c) ==
  LET diffItems == {i \in DOMAIN down[c] : down[c][i].diff # NoDiff}
  IN  IF diffItems = {} THEN miner[c].told
      ELSE down[c][CHOOSE i \in diffItems : \A k \in diffItems : k <= i].diff

(* Every subscribed miner is on its way to the server's current job and     *)
(* difficulty: no path that makes a job forgets a connection.               *)
OnCurrentWork ==
  \A c \in Open : conn[c].subscribed => Notified(c) = lastJob.id /\ Told(c) = currentDiff

(* The server uses the job manager as that module says: every property      *)
(* proved of the job manager holds here.                                    *)
ImplementsJobManager == JM!Spec

(* Every line of a connection that stays open is handled. *)
LinesHandled ==
  \A c \in Conns : up[c] # << >> ~> up[c] = << >> /\ inbuf[c] = << >>

-----------------------------------------------------------------------------
(* What HonestNeverLow rests on. *)

(* Job j was made, with difficulty d unless it is forgotten. *)
Known(j, d) == j \in 1 .. jobCounter /\ (j \in DOMAIN jobs => jobs[j].diff = d)

(* A miner that was told difficulty t is at difficulty d after the first n  *)
(* items of q.                                                              *)
ToldAfter(t, q, n, d) ==
  \/ d = t /\ \A k \in 1 .. n : q[k].diff = NoDiff
  \/ \E k \in 1 .. n : /\ q[k].diff = d
                        /\ d # NoDiff
                        /\ \A l \in k + 1 .. n : q[l].diff = NoDiff

(* The lines of a connection that the server has not handled. *)
Lines(c) == inbuf[c] \o up[c]

(* A share meets the difficulty of its job, if the job is still known. *)
Meets(c, s) ==
  /\ s.job \in 1 .. jobCounter
  /\ s.job \in DOMAIN jobs => Work(JM!Header(Completed(c, s))) >= jobs[s.job].diff

(* The shares on the wire meet their jobs' difficulties, with the           *)
(* extranonce1 that is their connection's for ever: the subscription that   *)
(* draws it comes before them, and once.                                    *)
LinesMeet(c) ==
  /\ \A i \in 1 .. Len(Lines(c)) :
        /\ Lines(c)[i].method = "submit" => conn[c].subscribed /\ Meets(c, Lines(c)[i].share)
        /\ Lines(c)[i].method = "subscribe" => i = 1 /\ ~ conn[c].subscribed
  /\ ~ conn[c].subscribed =>
        IF miner[c].asked = "nothing" THEN Lines(c) = << >>
        ELSE Lines(c) # << >> /\ Lines(c)[1].method = "subscribe"
  /\ miner[c].asked = "nothing" => ~ conn[c].subscribed

(* Every job a miner has or will hear of comes at the job's difficulty, and *)
(* what is on the wire of a subscribed one ends at the server's difficulty. *)
ItemsAgree(c) ==
  /\ ~ conn[c].subscribed => /\ miner[c].job = NoJob
                             /\ \A i \in 1 .. Len(down[c]) : down[c][i].job = NoJob
  /\ miner[c].job # NoJob => Known(miner[c].job, miner[c].diff)
  /\ \A d \in Diffs \cup {NoDiff} :
        /\ \A i \in 1 .. Len(down[c]) :
              down[c][i].job # NoJob /\ ToldAfter(miner[c].told, down[c], i, d)
                 => Known(down[c][i].job, d)
        /\ conn[c].subscribed /\ ToldAfter(miner[c].told, down[c], Len(down[c]), d)
              => d = currentDiff

Blank(c) == /\ inbuf[c] = << >>
            /\ up[c] = << >>
            /\ down[c] = << >>
            /\ miner[c] = NewMiner

(* The job and the difficulty a new subscriber gets belong together, and so *)
(* do those of every connection.                                            *)
DifficultiesAgree ==
  /\ lastJob.id # NoJob => Known(lastJob.id, currentDiff)
  /\ \A c \in Conns : IF c \in Open THEN LinesMeet(c) /\ ItemsAgree(c) ELSE Blank(c)
=============================================================================
