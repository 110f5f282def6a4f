----------------------------- MODULE JobManager -----------------------------
(***************************************************************************)
(* The job factory and share verifier (cpp/src/stratum.cpp, JobManager).    *)
(* Jobs are kept for Keep time units after their creation, and the keys of  *)
(* the accepted shares are kept for as long, so that a share is refused the *)
(* second time it is submitted.                                             *)
(*                                                                          *)
(* Abstractions.                                                            *)
(*  - One clock, `now`, stands for now_ms() and now_sec(); Keep is the      *)
(*    600000 ms and NtimeRoll the 7200 s of the code.                       *)
(*  - SHA-256d is the constant operator Work: the greatest difficulty that  *)
(*    the hash of a header meets.  "hash <= target" is Work(h) >= diff.     *)
(*  - The hex fields of a submit are the texts that were sent, members of   *)
(*    small sets; a member of Malformed fails the length and hex checks.    *)
(*    Reads gives what the header takes of a text: the number or the bytes  *)
(*    it is parsed to and, of the version bits, those inside the mask.  Two *)
(*    texts may read as one value: "0A" and "0a", a leading 0x, version     *)
(*    bits that are empty or differ outside the mask.                       *)
(*  - Job fields that no check reads (prevhash, coinbases, circuit seed)    *)
(*    are the job id, which is different for every job.                     *)
(***************************************************************************)
EXTENDS Integers, FiniteSets

CONSTANTS
  Keep,          \* retention of jobs and of seen shares
  NtimeRoll,     \* how far a miner may roll ntime past the job's
  Diffs,         \* the difficulties jobs are made with
  Ex1s,          \* extranonce1 values, one per subscription
  Ex2s, Ntimes, Nonces, VersionBits,   \* the texts a miner may send
  Malformed,     \* the field texts that do not parse
  Reads(_),      \* what the header takes of a text; of an ntime, the time
  Work(_),       \* the difficulty a header's hash meets
  MaxJobs,       \* bound: jobs made
  MaxTime        \* bound: clock

ASSUME ConstantsAssumption ==
  /\ Keep \in Nat
  /\ NtimeRoll \in Nat
  /\ Diffs \subseteq Nat
  /\ MaxJobs \in Nat
  /\ MaxTime \in Nat

VARIABLES
  jobs,        \* jobs_: id -> job, the recent jobs
  jobCounter,  \* job_counter_
  seen,        \* seen_: key -> time of acceptance
  now,         \* the wall clock
  issued,      \* history: id -> creation time, of every job ever made
  accepts      \* history: key -> how often verify_submit accepted it

jobVars == <<jobs, jobCounter, seen, issued, accepts>>
vars == <<jobs, jobCounter, seen, now, issued, accepts>>

JobIds == 1 .. MaxJobs
Times  == 0 .. MaxTime

(* What mining.submit carries, with the extranonce1 of its connection. *)
Submission == [job : JobIds, ex1 : Ex1s, ex2 : Ex2s, ntime : Ntimes,
               nonce : Nonces, vbits : VersionBits]

Job == [created : Nat, ntime : Nat, diff : Diffs, quantum : BOOLEAN]

-----------------------------------------------------------------------------
(* Maps. *)

(* f with f[k] = v, whether or not k was in its domain. *)
Put(f, k, v) == [x \in DOMAIN f \cup {k} |-> IF x = k THEN v ELSE f[x]]

(* f without the keys outside S. *)
Only(f, S) == [x \in DOMAIN f \cap S |-> f[x]]

-----------------------------------------------------------------------------
(* Job making. *)

Retired_AtCutoff(ms) == ms <= now - Keep

(* The prune condition: older than the cutoff. *)
Retired(ms) == ms < now - Keep

SeenAfterPrune_Shorter == Only(seen, {k \in DOMAIN seen : seen[k] > now - Keep})

SeenAfterPrune_Cleared == << >>

SeenAfterPrune == Only(seen, {k \in DOMAIN seen : ~ Retired(seen[k])})

JobsAfterPrune(js) == Only(js, {j \in DOMAIN js : ~ Retired(js[j].created)})

NextId_Ahead == jobCounter + 2

(* ++job_counter_, printed as the id. *)
NextId == jobCounter + 1

NewJob(d, quantum) == [created |-> now, ntime |-> now, diff |-> d, quantum |-> quantum]

(* make_job (quantum = FALSE) and make_quantum_job (quantum = TRUE): a new  *)
(* job under the next id, then both maps are pruned.                        *)
MakeJob(d, quantum) ==
  /\ jobCounter < MaxJobs
  /\ jobCounter' = jobCounter + 1
  /\ jobs' = JobsAfterPrune(Put(jobs, NextId, NewJob(d, quantum)))
  /\ seen' = SeenAfterPrune
  /\ issued' = Put(issued, NextId, now)
  /\ UNCHANGED accepts

-----------------------------------------------------------------------------
(* Share verification. *)

(* The 80-byte header build_header assembles: coinbase (job, ex1, ex2),     *)
(* version bits, ntime and nonce, by value.                                 *)
Header(s) == <<s.job, s.ex1, Reads(s.ex2), Reads(s.ntime), Reads(s.nonce), Reads(s.vbits)>>

(* dedup_key: the submitted texts as they are, without the extranonce1. *)
Key(s) == <<s.job, s.ex2, s.ntime, s.nonce, s.vbits>>

WellFormed(s) == {s.ex2, s.ntime, s.nonce, s.vbits} \cap Malformed = {}

NtimeInRange(s) ==
  Reads(s.ntime) \in jobs[s.job].ntime .. jobs[s.job].ntime + NtimeRoll

MeetsTarget(s) == Work(Header(s)) >= jobs[s.job].diff

(* What verify_submit answers, in the order of its checks. *)
Verdict(s) ==
  IF s.job \notin DOMAIN jobs THEN "stale"
  ELSE IF ~ WellFormed(s) THEN "malformed"
  ELSE IF ~ NtimeInRange(s) THEN "ntime"
  ELSE IF ~ MeetsTarget(s) THEN "low"
  ELSE IF Key(s) \in DOMAIN seen THEN "duplicate"
  ELSE "ok"

(* How often the texts of key k have been accepted. *)
Accepts(k) == IF k \in DOMAIN accepts THEN accepts[k] ELSE 0

(* An accepted share is recorded in seen_ before verify_submit returns. *)
VerifySubmit(s) ==
  /\ Verdict(s) = "ok"
  /\ seen' = Put(seen, Key(s), now)
  /\ accepts' = Put(accepts, Key(s), Accepts(Key(s)) + 1)
  /\ UNCHANGED <<jobs, jobCounter, issued>>

-----------------------------------------------------------------------------
(* The wall clock.  now_ms() reads CLOCK_REALTIME, which may also be set    *)
(* back: that is left out, and TextAcceptedOnce does not hold with it (a    *)
(* key stamped before its job is pruned before it).                         *)

Tick == /\ now < MaxTime
        /\ now' = now + 1
        /\ UNCHANGED jobVars

Init == /\ jobs = << >>
        /\ jobCounter = 0
        /\ seen = << >>
        /\ now = 0
        /\ issued = << >>
        /\ accepts = << >>

Next == \/ \E d \in Diffs, quantum \in BOOLEAN : MakeJob(d, quantum) /\ UNCHANGED now
        \/ \E s \in Submission : VerifySubmit(s) /\ UNCHANGED now
        \/ Tick

Spec == Init /\ [][Next]_vars

-----------------------------------------------------------------------------
(* Properties. *)

(* The state has the types of the code's fields. *)
TypeOK ==
  /\ jobCounter \in 0 .. MaxJobs
  /\ now \in Nat
  /\ DOMAIN jobs \subseteq 1 .. jobCounter
  /\ \A j \in DOMAIN jobs : jobs[j] \in Job
  /\ \A k \in DOMAIN seen : seen[k] \in Nat
  /\ DOMAIN issued = 1 .. jobCounter
  /\ \A j \in DOMAIN issued : issued[j] \in Nat
  /\ \A k \in DOMAIN accepts : accepts[k] \in Nat

(* The texts of a share are accepted once, from whichever connections they  *)
(* come, however the 10-minute pruning of the jobs and of seen_ interleaves *)
(* with the submits: a key outlives its job.  A header may be accepted once *)
(* for each way of writing its fields, since the key is made of texts.      *)
TextAcceptedOnce == \A k \in DOMAIN accepts : accepts[k] <= 1

(* Job retention: a job is known to verify_submit at least until it is Keep *)
(* old, whatever is made after it, so no share for it is refused as stale   *)
(* earlier.                                                                 *)
JobRetention == \A j \in DOMAIN issued : issued[j] >= now - Keep => j \in DOMAIN jobs

(* The part of the state that TextAcceptedOnce rests on: every accepted     *)
(* share whose job is still known has its key in seen_, and that entry is   *)
(* no older than the job.                                                   *)
LiveAcceptsAreSeen ==
  \A k \in DOMAIN accepts :
     k[1] \in DOMAIN jobs => k \in DOMAIN seen /\ seen[k] >= jobs[k[1]].created

(* The inductive invariant: the above, and that jobs and accepted shares    *)
(* come from jobs really made, at times that have passed.                   *)
MadeJobs ==
  /\ \A j \in DOMAIN jobs : jobs[j].created = issued[j]
  /\ \A j \in DOMAIN issued : issued[j] <= now
  /\ \A k \in DOMAIN accepts : k[1] \in 1 .. jobCounter

IInv == /\ TypeOK
        /\ MadeJobs
        /\ JobRetention
        /\ LiveAcceptsAreSeen
        /\ TextAcceptedOnce
=============================================================================
