-------------------------- MODULE JobManagerProofs --------------------------
(***************************************************************************)
(* Proofs about JobManager for every retention, every number of jobs,      *)
(* miners and header fields, and every hash function.                      *)
(***************************************************************************)
EXTENDS JobManager, TLAPS

(* What MakeJob leaves in jobs_: the new job and those still retained. *)
LEMMA JobsAfterMake ==
  ASSUME NEW d, NEW q, jobs' = JobsAfterPrune(Put(jobs, NextId, NewJob(d, q)))
  PROVE  /\ DOMAIN jobs' \subseteq DOMAIN jobs \cup {jobCounter + 1}
         /\ \A j \in DOMAIN jobs' :
              IF j = jobCounter + 1 THEN jobs'[j] = NewJob(d, q)
              ELSE j \in DOMAIN jobs /\ jobs'[j] = jobs[j]
         /\ \A j \in DOMAIN jobs' : ~ Retired(jobs'[j].created)
         /\ \A j \in DOMAIN jobs : j # jobCounter + 1 /\ ~ Retired(jobs[j].created)
               => j \in DOMAIN jobs'
         /\ ~ Retired(now) => jobCounter + 1 \in DOMAIN jobs'
<1> DEFINE js == Put(jobs, NextId, NewJob(d, q))
           S  == {j \in DOMAIN js : ~ Retired(js[j].created)}
<1>1. /\ DOMAIN js = DOMAIN jobs \cup {jobCounter + 1}
      /\ js[jobCounter + 1] = NewJob(d, q)
      /\ \A x \in DOMAIN jobs : x # jobCounter + 1 => js[x] = jobs[x]
  BY DEF Put, NextId
<1>2. jobs' = Only(js, S)
  BY DEF JobsAfterPrune
<1> HIDE DEF js
<1>3. DOMAIN jobs' = S /\ \A x \in S : jobs'[x] = js[x]
  BY <1>2 DEF Only
<1>4. NewJob(d, q).created = now
  BY DEF NewJob
<1> QED BY <1>1, <1>3, <1>4

-----------------------------------------------------------------------------
LEMMA InitIInv == Init => IInv
BY ConstantsAssumption
   DEF Init, IInv, TypeOK, MadeJobs, LiveAcceptsAreSeen, TextAcceptedOnce, JobRetention

LEMMA MakeJobIInv ==
  ASSUME IInv, NEW d \in Diffs, NEW q \in BOOLEAN, MakeJob(d, q), now' = now
  PROVE  IInv'
<1> USE ConstantsAssumption
<1>1. TypeOK /\ MadeJobs /\ JobRetention /\ LiveAcceptsAreSeen /\ TextAcceptedOnce
  BY DEF IInv
<1>2. /\ jobCounter \in Nat /\ jobCounter' = jobCounter + 1
      /\ jobCounter' \in 0 .. MaxJobs /\ now \in Nat
  BY <1>1 DEF MakeJob, TypeOK
<1>3. /\ DOMAIN jobs' \subseteq DOMAIN jobs \cup {jobCounter + 1}
      /\ \A j \in DOMAIN jobs' :
           IF j = jobCounter + 1 THEN jobs'[j] = NewJob(d, q)
           ELSE j \in DOMAIN jobs /\ jobs'[j] = jobs[j]
      /\ \A j \in DOMAIN jobs' : ~ Retired(jobs'[j].created)
      /\ \A j \in DOMAIN jobs : j # jobCounter + 1 /\ ~ Retired(jobs[j].created)
            => j \in DOMAIN jobs'
      /\ ~ Retired(now) => jobCounter + 1 \in DOMAIN jobs'
  BY JobsAfterMake DEF MakeJob, NextId
<1>4. /\ DOMAIN issued' = DOMAIN issued \cup {jobCounter + 1}
      /\ issued'[jobCounter + 1] = now
      /\ \A j \in DOMAIN issued : j # jobCounter + 1 => issued'[j] = issued[j]
  BY DEF MakeJob, Put, NextId
<1>5. /\ DOMAIN seen' = {k \in DOMAIN seen : ~ Retired(seen[k])}
      /\ \A k \in DOMAIN seen' : seen'[k] = seen[k]
  BY DEF MakeJob, SeenAfterPrune, Only
<1>6. accepts' = accepts
  BY DEF MakeJob
<1>7. NewJob(d, q) \in Job /\ NewJob(d, q).created = now
  BY <1>2 DEF NewJob, Job
<1>8. TypeOK'
  <2>1. DOMAIN jobs' \subseteq 1 .. jobCounter'
    BY <1>1, <1>2, <1>3 DEF TypeOK
  <2>2. \A j \in DOMAIN jobs' : jobs'[j] \in Job
    BY <1>1, <1>3, <1>7 DEF TypeOK
  <2>3. \A k \in DOMAIN seen' : seen'[k] \in Nat
    BY <1>1, <1>5 DEF TypeOK
  <2>4. DOMAIN issued' = 1 .. jobCounter'
    BY <1>1, <1>2, <1>4 DEF TypeOK
  <2>5. \A j \in DOMAIN issued' : issued'[j] \in Nat
    BY <1>1, <1>2, <1>4 DEF TypeOK
  <2>6. \A k \in DOMAIN accepts' : accepts'[k] \in Nat
    BY <1>1, <1>6 DEF TypeOK
  <2> QED BY <1>2, <2>1, <2>2, <2>3, <2>4, <2>5, <2>6 DEF TypeOK
<1>9. MadeJobs'
  <2>1. \A j \in DOMAIN jobs' : jobs'[j].created = issued'[j]
    BY <1>1, <1>2, <1>3, <1>4, <1>7 DEF MadeJobs, TypeOK
  <2>2. \A j \in DOMAIN issued' : issued'[j] <= now'
    BY <1>1, <1>2, <1>4 DEF MadeJobs
  <2>3. \A k \in DOMAIN accepts' : k[1] \in 1 .. jobCounter'
    BY <1>1, <1>2, <1>6 DEF MadeJobs
  <2> QED BY <2>1, <2>2, <2>3 DEF MadeJobs
<1>10. LiveAcceptsAreSeen'
  <2>1. SUFFICES ASSUME NEW k \in DOMAIN accepts, k[1] \in DOMAIN jobs'
                 PROVE  k \in DOMAIN seen' /\ seen'[k] >= jobs'[k[1]].created
    BY <1>6 DEF LiveAcceptsAreSeen
  <2>2. k[1] # jobCounter + 1
    BY <1>1, <1>2 DEF MadeJobs
  <2>3. k[1] \in DOMAIN jobs /\ jobs'[k[1]] = jobs[k[1]] /\ ~ Retired(jobs[k[1]].created)
    BY <1>3, <2>1, <2>2
  <2>4. k \in DOMAIN seen /\ seen[k] >= jobs[k[1]].created
    BY <1>1, <2>3 DEF LiveAcceptsAreSeen
  <2>5. ~ Retired(seen[k])
    BY <1>1, <1>2, <2>3, <2>4 DEF Retired, TypeOK, Job
  <2> QED BY <1>5, <2>3, <2>4, <2>5
<1>11. TextAcceptedOnce'
  BY <1>1, <1>6 DEF TextAcceptedOnce
<1>12. JobRetention'
  <2>1. SUFFICES ASSUME NEW j \in DOMAIN issued', issued'[j] >= now - Keep
                 PROVE  j \in DOMAIN jobs'
    BY DEF JobRetention, MakeJob
  <2>2. CASE j = jobCounter + 1
    BY <1>2, <1>3, <2>2 DEF Retired
  <2>3. CASE j # jobCounter + 1
    <3>1. j \in DOMAIN issued /\ issued'[j] = issued[j]
      BY <1>4, <2>3
    <3>2. j \in DOMAIN jobs /\ jobs[j].created = issued[j]
      BY <1>1, <2>1, <3>1 DEF JobRetention, MadeJobs
    <3>3. issued[j] \in Nat
      BY <1>1, <3>1 DEF TypeOK
    <3>4. ~ Retired(jobs[j].created)
      BY <1>2, <2>1, <3>1, <3>2, <3>3 DEF Retired
    <3> QED BY <1>3, <2>3, <3>2, <3>4
  <2> QED BY <2>2, <2>3
<1> QED BY <1>8, <1>9, <1>10, <1>11, <1>12 DEF IInv

LEMMA SubmitIInv ==
  ASSUME IInv, NEW s \in Submission, VerifySubmit(s), now' = now
  PROVE  IInv'
<1>1. TypeOK /\ MadeJobs /\ JobRetention /\ LiveAcceptsAreSeen /\ TextAcceptedOnce
  BY DEF IInv
<1>2. s.job \in DOMAIN jobs /\ Key(s) \notin DOMAIN seen
  BY DEF VerifySubmit, Verdict
<1>3. UNCHANGED <<jobs, jobCounter, issued>>
  BY DEF VerifySubmit
<1>4. /\ DOMAIN seen' = DOMAIN seen \cup {Key(s)}
      /\ seen'[Key(s)] = now
      /\ \A k \in DOMAIN seen : k # Key(s) => seen'[k] = seen[k]
  BY DEF VerifySubmit, Put
<1>5. s.job = Key(s)[1]
  BY DEF Key
<1>6. Accepts(Key(s)) = 0
  <2>1. Key(s) \notin DOMAIN accepts
    BY <1>1, <1>2, <1>5 DEF LiveAcceptsAreSeen
  <2> QED BY <2>1 DEF Accepts
<1>7. /\ DOMAIN accepts' = DOMAIN accepts \cup {Key(s)}
      /\ accepts'[Key(s)] = 1
      /\ \A k \in DOMAIN accepts : k # Key(s) => accepts'[k] = accepts[k]
  BY <1>6 DEF VerifySubmit, Put
<1>8. Key(s)[1] \in 1 .. jobCounter /\ jobCounter \in Nat
  BY <1>1, <1>2, <1>5 DEF TypeOK
<1>9. TypeOK'
  BY <1>1, <1>3, <1>4, <1>7 DEF TypeOK
<1>10. MadeJobs'
  <2>1. \A k \in DOMAIN accepts' : k[1] \in 1 .. jobCounter'
    BY <1>1, <1>3, <1>7, <1>8 DEF MadeJobs
  <2> QED BY <1>1, <1>3, <2>1 DEF MadeJobs
<1>11. LiveAcceptsAreSeen'
  <2>1. SUFFICES ASSUME NEW k \in DOMAIN accepts', k[1] \in DOMAIN jobs
                 PROVE  k \in DOMAIN seen' /\ seen'[k] >= jobs[k[1]].created
    BY <1>3 DEF LiveAcceptsAreSeen
  <2>2. jobs[k[1]].created <= now /\ now \in Nat
    BY <1>1, <2>1 DEF MadeJobs, TypeOK
  <2>3. jobs[k[1]].created \in Nat
    BY <1>1, <2>1 DEF TypeOK, Job
  <2>4. CASE k = Key(s)
    BY <1>4, <2>2, <2>3, <2>4
  <2>5. CASE k # Key(s)
    <3>1. k \in DOMAIN accepts
      BY <1>7, <2>5
    <3>2. k \in DOMAIN seen /\ seen[k] >= jobs[k[1]].created
      BY <1>1, <2>1, <3>1 DEF LiveAcceptsAreSeen
    <3> QED BY <1>4, <2>5, <3>2
  <2> QED BY <2>4, <2>5
<1>12. TextAcceptedOnce'
  BY <1>1, <1>7 DEF TextAcceptedOnce
<1>13. JobRetention'
  BY <1>1, <1>3 DEF JobRetention
<1> QED BY <1>9, <1>10, <1>11, <1>12, <1>13 DEF IInv

LEMMA TickIInv == ASSUME IInv, Tick PROVE IInv'
<1>1. TypeOK /\ MadeJobs /\ JobRetention /\ LiveAcceptsAreSeen /\ TextAcceptedOnce
  BY DEF IInv
<1>2. UNCHANGED jobVars /\ now' = now + 1 /\ now \in Nat
  BY <1>1 DEF Tick, TypeOK
<1>3. TypeOK'
  BY <1>1, <1>2 DEF TypeOK, jobVars
<1>4. MadeJobs'
  BY <1>1, <1>2 DEF MadeJobs, TypeOK, jobVars
<1>5. LiveAcceptsAreSeen'
  BY <1>1, <1>2 DEF LiveAcceptsAreSeen, jobVars
<1>6. TextAcceptedOnce'
  BY <1>1, <1>2 DEF TextAcceptedOnce, jobVars
<1>7. JobRetention'
  BY <1>1, <1>2, ConstantsAssumption DEF JobRetention, jobVars, TypeOK
<1> QED BY <1>3, <1>4, <1>5, <1>6, <1>7 DEF IInv

LEMMA NextIInv == IInv /\ [Next]_vars => IInv'
<1> SUFFICES ASSUME IInv, [Next]_vars PROVE IInv'
  OBVIOUS
<1>1. ASSUME NEW d \in Diffs, NEW q \in BOOLEAN, MakeJob(d, q), UNCHANGED now PROVE IInv'
  BY <1>1, MakeJobIInv
<1>2. ASSUME NEW s \in Submission, VerifySubmit(s), UNCHANGED now PROVE IInv'
  BY <1>2, SubmitIInv
<1>3. CASE Tick
  BY <1>3, TickIInv
<1>4. CASE UNCHANGED vars
  BY <1>4 DEF vars, IInv, TypeOK, MadeJobs, LiveAcceptsAreSeen, TextAcceptedOnce,
              JobRetention
<1> QED BY <1>1, <1>2, <1>3, <1>4 DEF Next

-----------------------------------------------------------------------------
(* A job keeps its fields as long as it is known, and is not made again. *)
LEMMA JobsStay ==
  ASSUME TypeOK, [Next]_vars
  PROVE  /\ 1 .. jobCounter \subseteq 1 .. jobCounter'
         /\ \A j \in 1 .. jobCounter :
              j \in DOMAIN jobs' => j \in DOMAIN jobs /\ jobs'[j] = jobs[j]
<1>1. jobCounter \in Nat
  BY DEF TypeOK
<1>2. ASSUME NEW d \in Diffs, NEW q \in BOOLEAN, MakeJob(d, q)
      PROVE  /\ jobCounter' = jobCounter + 1
             /\ \A j \in DOMAIN jobs' :
                  j # jobCounter + 1 => j \in DOMAIN jobs /\ jobs'[j] = jobs[j]
  BY <1>2, JobsAfterMake DEF MakeJob
<1>3. CASE UNCHANGED <<jobs, jobCounter>>
  BY <1>3
<1> QED BY <1>1, <1>2, <1>3 DEF Next, VerifySubmit, Tick, jobVars, vars

LEMMA IInvHolds == Spec => []IInv
BY InitIInv, NextIInv, PTL DEF Spec

(* The state of the job manager always has the types of its fields. *)
THEOREM TypeCorrect == Spec => []TypeOK
<1>1. IInv => TypeOK
  BY DEF IInv
<1> QED BY <1>1, IInvHolds, PTL

(* verify_submit never accepts the same texts twice, for every retention,   *)
(* hash function and way of reading texts, as long as the clock does not go *)
(* back.                                                                    *)
THEOREM AcceptedOnce == Spec => []TextAcceptedOnce
<1>1. IInv => TextAcceptedOnce
  BY DEF IInv
<1> QED BY <1>1, IInvHolds, PTL

(* No job is forgotten before it is Keep old. *)
THEOREM JobsRetained == Spec => []JobRetention
<1>1. IInv => JobRetention
  BY DEF IInv
<1> QED BY <1>1, IInvHolds, PTL

(* The dedupe map covers the accepted shares of every live job.             *)
THEOREM SeenCoversLiveJobs == Spec => []LiveAcceptsAreSeen
<1>1. IInv => LiveAcceptsAreSeen
  BY DEF IInv
<1> QED BY <1>1, IInvHolds, PTL
=============================================================================
