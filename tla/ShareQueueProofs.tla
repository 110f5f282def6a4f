-------------------------- MODULE ShareQueueProofs --------------------------
(***************************************************************************)
(* Proofs about ShareQueue for every limit of the queue and every number of *)
(* shares: no verified share is lost between the threads, and the batches   *)
(* are made in the order of the shares.                                     *)
(***************************************************************************)
EXTENDS ShareQueue, SequenceTheorems, TLAPS

-----------------------------------------------------------------------------
(* Types. *)

(* The thread of each step keeps the types of the flags and the places. *)
FlagTypes ==
  /\ adaptive \in BOOLEAN /\ benchmarking \in BOOLEAN
  /\ stop \in BOOLEAN /\ gStop \in BOOLEAN /\ threw \in BOOLEAN
  /\ main \in {"serving", "notifying", "stopping", "notifying all", "joining shot",
               "joining validator", "done"}
  /\ validator \in {"top", "passing", "exited"}

ShotTypes ==
  /\ shot \in [pc : {"top", "awake", "blocking", "waiting", "looking", "popping",
                     "running", "exited"},
               share : Shares \cup {NoShare}]
  /\ shot.pc = "running" => shot.share # NoShare
  /\ shot.pc = "popping" => queue # << >>

QueueTypes == queue \in Seq(Shares) /\ Len(queue) <= MaxQueue

HistoryTypes ==
  /\ told \in 0 .. MaxShares
  /\ counted \subseteq Shares /\ dropped \subseteq Shares
  /\ processed \in Seq(Shares)

LEMMA TypeParts ==
  TypeOK <=> FlagTypes /\ ShotTypes /\ QueueTypes /\ HistoryTypes
BY DEF TypeOK, FlagTypes, ShotTypes, QueueTypes, HistoryTypes

LEMMA FlagTypesStep == ASSUME FlagTypes, [Next]_vars PROVE FlagTypes'
<1>1. CASE Verified \/ NotifyOne \/ EndBenchmark
  BY <1>1 DEF FlagTypes, Verified, CountShare, DropShare, PushShare, NewShare, NotifyOne,
              EndBenchmark, threads
<1>2. CASE Signal \/ Throw
  BY <1>2 DEF FlagTypes, Signal, Throw
<1>3. CASE Ending
  BY <1>3 DEF FlagTypes, Ending, LeaveLoop, SetStop, NotifyAll, JoinShot, JoinValidator,
              threads
<1>4. CASE ShotSteps
  <2>1. ShotUnchanged
    BY <1>4 DEF ShotSteps, ShotLoop, ShotCheck, ShotBlock, ShotTimeout, ShotLook, ShotPop,
                ShotRun
  <2> QED BY <2>1 DEF FlagTypes, ShotUnchanged, threads
<1>5. CASE ValidatorSteps
  BY <1>5 DEF FlagTypes, ValidatorSteps, ValidatorLoop, ValidatorPass
<1>6. CASE UNCHANGED vars
  BY <1>6 DEF FlagTypes, vars
<1> QED BY <1>1, <1>2, <1>3, <1>4, <1>5, <1>6 DEF Next

(* A share that is verified now. *)
LEMMA NewShareTypes ==
  ASSUME HistoryTypes, NewShare
  PROVE  told + 1 \in Shares /\ told' = told + 1 /\ told' \in 0 .. MaxShares
BY QueueAssumption DEF HistoryTypes, NewShare, Shares

LEMMA AtTypes ==
  ASSUME NEW pc \in {"top", "awake", "blocking", "waiting", "looking", "popping", "exited"}
  PROVE  /\ At(pc) \in [pc : {"top", "awake", "blocking", "waiting", "looking", "popping",
                             "running", "exited"},
                        share : Shares \cup {NoShare}]
         /\ At(pc).pc = pc
BY DEF At

(* The two threads that touch the queue, each by its own steps. *)
LEMMA NetworkTypes ==
  ASSUME ShotTypes, QueueTypes, HistoryTypes, Verified
  PROVE  ShotTypes' /\ QueueTypes' /\ HistoryTypes'
<1>1. told + 1 \in Shares /\ told' \in 0 .. MaxShares
  BY NewShareTypes DEF Verified, CountShare, DropShare, PushShare
<1>2. CASE CountShare \/ DropShare
  BY <1>1, <1>2 DEF CountShare, DropShare, ShotTypes, QueueTypes, HistoryTypes
<1>3. CASE PushShare
  <2>1. queue' = Append(queue, told + 1) /\ Len(queue) < MaxQueue
    <3>1. Len(queue) \in Nat
      BY LenProperties DEF QueueTypes
    <3> QED BY <1>3, <3>1, QueueAssumption DEF PushShare, Enqueue, Full
  <2>2. queue' \in Seq(Shares) /\ queue' # << >> /\ Len(queue') = Len(queue) + 1
    BY <1>1, <2>1, AppendProperties DEF QueueTypes
  <2>3. Len(queue') <= MaxQueue
    <3>1. Len(queue) \in Nat
      BY LenProperties DEF QueueTypes
    <3> HIDE DEF QueueTypes
    <3> QED BY <2>1, <2>2, <3>1, QueueAssumption
  <2> QED BY <1>1, <1>3, <2>2, <2>3 DEF PushShare, ShotTypes, QueueTypes, HistoryTypes
<1> QED BY <1>2, <1>3 DEF Verified

LEMMA NotifiedTypes ==
  ASSUME ShotTypes, shot' = Notified, UNCHANGED queue
  PROVE  ShotTypes'
<1>1. CASE shot.pc = "waiting"
  BY <1>1, AtTypes DEF ShotTypes, Notified
<1>2. CASE shot.pc # "waiting"
  BY <1>2 DEF ShotTypes, Notified
<1> QED BY <1>1, <1>2

LEMMA ShotStepTypes ==
  ASSUME ShotTypes, QueueTypes, HistoryTypes, ShotSteps
  PROVE  ShotTypes' /\ QueueTypes' /\ HistoryTypes'
<1>1. ASSUME NEW pc \in {"top", "awake", "blocking", "waiting", "looking", "popping",
                         "exited"},
             shot' = At(pc), pc = "popping" => queue # << >>, UNCHANGED <<queue, processed>>,
             ShotUnchanged
      PROVE  ShotTypes' /\ QueueTypes' /\ HistoryTypes'
  BY <1>1, AtTypes DEF ShotUnchanged, history, ShotTypes, QueueTypes, HistoryTypes
<1>2. CASE ShotLoop \/ ShotCheck \/ ShotBlock \/ ShotTimeout \/ ShotLook
  BY <1>1, <1>2 DEF ShotLoop, ShotCheck, ShotBlock, ShotTimeout, ShotLook
<1>3. CASE ShotPop
  <2>1. queue # << >> /\ queue \in Seq(Shares)
    BY <1>3 DEF ShotPop, ShotTypes, QueueTypes
  <2>2. /\ Head(queue) \in Shares /\ Tail(queue) \in Seq(Shares)
        /\ Len(Tail(queue)) = Len(queue) - 1
    BY <2>1, HeadTailProperties
  <2>3. Len(Tail(queue)) <= MaxQueue
    <3>1. Len(queue) \in Nat /\ Len(queue) <= MaxQueue
      BY LenProperties DEF QueueTypes
    <3> QED BY <2>2, <3>1, QueueAssumption
  <2>4. shot' \in [pc : {"top", "awake", "blocking", "waiting", "looking", "popping",
                         "running", "exited"},
                   share : Shares \cup {NoShare}] /\ shot'.pc = "running"
        /\ shot'.share # NoShare
    BY <1>3, <2>2 DEF ShotPop, Shares, NoShare
  <2> QED BY <1>3, <2>2, <2>3, <2>4
             DEF ShotPop, ShotUnchanged, history, ShotTypes, QueueTypes, HistoryTypes
<1>4. CASE ShotRun
  <2>1. shot.share \in Shares
    BY <1>4 DEF ShotRun, ShotTypes
  <2>2. processed' \in Seq(Shares)
    BY <1>4, <2>1, AppendProperties DEF ShotRun, HistoryTypes
  <2> QED BY <1>4, <2>2, AtTypes
             DEF ShotRun, ShotUnchanged, history, ShotTypes, QueueTypes, HistoryTypes
<1> QED BY <1>2, <1>3, <1>4 DEF ShotSteps

LEMMA TypeStep == ASSUME TypeOK, [Next]_vars PROVE TypeOK'
<1>1. FlagTypes' /\ ShotTypes /\ QueueTypes /\ HistoryTypes
  BY TypeParts, FlagTypesStep
<1>2. CASE Verified
  BY <1>1, <1>2, NetworkTypes, TypeParts, PTL
<1>3. CASE NotifyOne \/ NotifyAll
  <2>1. ShotTypes'
    BY <1>1, <1>3, NotifiedTypes DEF NotifyOne, NotifyAll
  <2>2. QueueTypes' /\ HistoryTypes'
    BY <1>1, <1>3 DEF NotifyOne, NotifyAll, history, QueueTypes, HistoryTypes
  <2> QED BY <1>1, <2>1, <2>2, TypeParts, PTL
<1>4. CASE ShotSteps
  BY <1>1, <1>4, ShotStepTypes, TypeParts, PTL
<1>5. CASE \/ EndBenchmark \/ Signal \/ Throw \/ LeaveLoop \/ SetStop \/ JoinShot
           \/ JoinValidator \/ ValidatorSteps \/ UNCHANGED vars
  <2>1. UNCHANGED <<shot, queue, told, counted, dropped, processed>>
    BY <1>5 DEF EndBenchmark, Signal, Throw, LeaveLoop, SetStop, JoinShot, JoinValidator,
                ValidatorSteps, ValidatorLoop, ValidatorPass, vars, history
  <2>2. ShotTypes' /\ QueueTypes' /\ HistoryTypes'
    BY <1>1, <2>1 DEF ShotTypes, QueueTypes, HistoryTypes
  <2> QED BY <1>1, <2>2, TypeParts, PTL
<1> QED BY <1>2, <1>3, <1>4, <1>5 DEF Next, Ending

LEMMA TypeInit == Init => TypeOK
<1> SUFFICES ASSUME Init PROVE TypeOK
  OBVIOUS
<1>1. FlagTypes
  <2>1. (adaptive \in BOOLEAN) /\ benchmarking \in BOOLEAN
    BY Zenon DEF Init, StartsBenchmarking
  <2> QED BY <2>1 DEF Init, FlagTypes
<1>2. ShotTypes
  <2>1. shot = At("top")
    BY DEF Init
  <2> QED BY <2>1, AtTypes DEF ShotTypes
<1>3. QueueTypes
  <2>1. queue = << >>
    BY DEF Init
  <2> QED BY <2>1, EmptySeq, QueueAssumption DEF QueueTypes
<1>4. HistoryTypes
  <2>1. told = 0 /\ counted = {} /\ dropped = {} /\ processed = << >>
    BY DEF Init
  <2> QED BY <2>1, EmptySeq, QueueAssumption DEF HistoryTypes
<1> QED BY <1>1, <1>2, <1>3, <1>4, TypeParts

(* The state always has the types of the code's fields, and the queue never  *)
(* holds more than kMaxQueue shares.                                         *)
THEOREM TypeCorrect == Spec => []TypeOK
<1>1. Init => TypeOK
  BY TypeInit
<1>2. TypeOK /\ [Next]_vars => TypeOK'
  BY TypeStep
<1> QED BY <1>1, <1>2, PTL DEF Spec

-----------------------------------------------------------------------------
(* No share is lost between the threads, and their order is kept: each step  *)
(* leaves Kept as it is, except that PushShare adds the new share at its end. *)

(* The shares that a sequence holds, and that it holds them in order. *)
Holds(s)     == {s[i] : i \in 1 .. Len(s)}
Ascending(s) == \A i, j \in 1 .. Len(s) : i < j => s[i] < s[j]

LEMMA HoldsAppend ==
  ASSUME NEW s \in Seq(Shares), NEW e \in Shares
  PROVE  Holds(Append(s, e)) = Holds(s) \cup {e}
<1> DEFINE n == Len(s)
<1>1. n \in Nat /\ Len(Append(s, e)) = n + 1 /\ Append(s, e)[n + 1] = e
      /\ \A i \in 1 .. n : Append(s, e)[i] = s[i]
  BY AppendProperties, LenProperties
<1>2. 1 .. (n + 1) = (1 .. n) \cup {n + 1}
  BY <1>1
<1> HIDE DEF n
<1>3. ASSUME NEW x PROVE x \in Holds(Append(s, e)) <=> x \in Holds(s) \cup {e}
  BY <1>1, <1>2 DEF Holds, n
<1> QED BY <1>3

LEMMA AscendingAppend ==
  ASSUME NEW s \in Seq(Shares), NEW e \in Shares, Ascending(s), \A x \in Holds(s) : x < e
  PROVE  Ascending(Append(s, e))
<1> DEFINE n == Len(s)
           a == Append(s, e)
<1>1. n \in Nat /\ Len(a) = n + 1 /\ a[n + 1] = e /\ \A i \in 1 .. n : a[i] = s[i]
  BY AppendProperties, LenProperties
<1>2. \A i \in 1 .. n : s[i] < e
  BY DEF Holds
<1>3. ASSUME NEW i \in 1 .. n, NEW j \in 1 .. n, i < j PROVE s[i] < s[j]
  BY <1>3 DEF Ascending
<1> HIDE DEF n, a
<1>4. SUFFICES ASSUME NEW i \in 1 .. (n + 1), NEW j \in 1 .. (n + 1), i < j
               PROVE  a[i] < a[j]
  BY <1>1 DEF Ascending, a
<1>5. i \in 1 .. n
  BY <1>1, <1>4
<1>6. CASE j = n + 1
  BY <1>1, <1>2, <1>5, <1>6
<1>7. CASE j \in 1 .. n
  BY <1>1, <1>3, <1>4, <1>5, <1>7
<1> QED BY <1>1, <1>6, <1>7

(* The shares known to be verified bound what the histories name. *)
OnlyTold == counted \cup dropped \subseteq 1 .. told

KInv == TypeOK /\ OnlyTold /\ Accounted /\ InOrder

LEMMA KeptTypes ==
  ASSUME TypeOK
  PROVE  Hand \in Seq(Shares) /\ processed \o Hand \in Seq(Shares) /\ Kept \in Seq(Shares)
<1>1. Hand \in Seq(Shares)
  <2>1. CASE shot.pc = "running"
    <3>1. shot.share \in Shares
      BY <2>1 DEF TypeOK
    <3>2. Hand = <<shot.share>>
      BY <2>1 DEF Hand
    <3> QED BY <3>1, <3>2
  <2>2. CASE shot.pc # "running"
    <3>1. Hand = << >>
      BY <2>2 DEF Hand
    <3> QED BY <3>1, EmptySeq
  <2> QED BY <2>1, <2>2
<1>2. processed \in Seq(Shares) /\ queue \in Seq(Shares)
  BY DEF TypeOK
<1>3. processed \o Hand \in Seq(Shares)
  BY <1>1, <1>2, ConcatProperties
<1>4. Kept \in Seq(Shares)
  BY <1>2, <1>3, ConcatProperties DEF Kept
<1> QED BY <1>1, <1>3, <1>4

LEMMA KeptPush ==
  ASSUME TypeOK, PushShare
  PROVE  Kept' = Append(Kept, told + 1)
<1>1. told + 1 \in Shares
  BY NewShareTypes, TypeParts DEF PushShare
<1>2. queue' = Append(queue, told + 1) /\ UNCHANGED <<processed, shot>>
  BY DEF PushShare, Enqueue
<1>3. Hand' = Hand
  BY <1>2 DEF Hand
<1>4. queue \in Seq(Shares) /\ processed \o Hand \in Seq(Shares) /\ Kept \in Seq(Shares)
  BY KeptTypes DEF TypeOK
<1>5. Append(queue, told + 1) = queue \o <<told + 1>>
  BY <1>1, <1>4, AppendIsConcat
<1>6. Kept' = (processed \o Hand) \o (queue \o <<told + 1>>)
  BY <1>2, <1>3, <1>5 DEF Kept
<1>7. <<told + 1>> \in Seq(Shares)
  BY <1>1
<1>8. Kept' = Kept \o <<told + 1>>
  BY <1>4, <1>6, <1>7, ConcatAssociative DEF Kept
<1> QED BY <1>1, <1>4, <1>8, AppendIsConcat

LEMMA HeadTailConcat ==
  ASSUME NEW s \in Seq(Shares), s # << >>
  PROVE  s = <<Head(s)>> \o Tail(s)
<1> DEFINE c == <<Head(s)>> \o Tail(s)
<1>1. /\ Head(s) \in Shares /\ Tail(s) \in Seq(Shares) /\ Len(Tail(s)) = Len(s) - 1
      /\ \A i \in 1 .. Len(Tail(s)) : Tail(s)[i] = s[i + 1]
  BY HeadTailProperties
<1>2. Head(s) = s[1] /\ Len(s) \in Nat
  BY LenProperties
<1>3. <<Head(s)>> \in Seq(Shares) /\ Len(<<Head(s)>>) = 1 /\ <<Head(s)>>[1] = s[1]
  BY <1>1, <1>2
<1>4. c \in Seq(Shares) /\ Len(c) = Len(s)
  BY <1>1, <1>2, <1>3, ConcatProperties
<1>5. ASSUME NEW i \in 1 .. Len(s) PROVE s[i] = c[i]
  <2>1. c[i] = IF i <= 1 THEN <<Head(s)>>[i] ELSE Tail(s)[i - 1]
    BY <1>1, <1>2, <1>3, ConcatProperties
  <2>2. CASE i = 1
    BY <1>3, <2>1, <2>2
  <2>3. CASE i # 1
    <3>1. i - 1 \in 1 .. Len(Tail(s)) /\ (i - 1) + 1 = i /\ ~ i <= 1
      BY <1>1, <1>2, <2>3
    <3> QED BY <1>1, <2>1, <3>1
  <2> QED BY <2>2, <2>3
<1> QED BY <1>4, <1>5, SeqEqual

(* The front of the queue moves to the hand. *)
LEMMA KeptPop ==
  ASSUME TypeOK, ShotPop
  PROVE  Kept' = Kept
<1>1. /\ processed \in Seq(Shares) /\ queue \in Seq(Shares) /\ queue # << >>
      /\ shot' = [pc |-> "running", share |-> Head(queue)]
      /\ queue' = Tail(queue) /\ processed' = processed /\ shot.pc = "popping"
  BY DEF TypeOK, ShotPop
<1>2. Hand = << >> /\ Hand' = <<Head(queue)>>
  BY <1>1 DEF Hand
<1>3. Head(queue) \in Shares /\ Tail(queue) \in Seq(Shares)
  BY <1>1, HeadTailProperties
<1>4. queue = <<Head(queue)>> \o Tail(queue)
  BY <1>1, <1>3, HeadTailConcat
<1>5. <<Head(queue)>> \in Seq(Shares)
  BY <1>3
<1>6. Kept' = processed \o (<<Head(queue)>> \o Tail(queue))
  BY <1>1, <1>2, <1>3, <1>5, ConcatAssociative DEF Kept
<1>7. Kept = processed \o queue
  BY <1>1, <1>2, ConcatEmptySeq DEF Kept
<1> QED BY <1>4, <1>6, <1>7

(* The share in the hand moves to the batches. *)
LEMMA KeptRun ==
  ASSUME TypeOK, ShotRun
  PROVE  Kept' = Kept
<1>1. /\ processed \in Seq(Shares) /\ queue' = queue /\ shot.pc = "running"
      /\ shot.share \in Shares /\ shot' = At("top")
      /\ processed' = Append(processed, shot.share)
  BY DEF TypeOK, ShotRun
<1>2. Hand = <<shot.share>> /\ Hand' = << >>
  BY <1>1 DEF Hand, At
<1>3. processed' = processed \o <<shot.share>> /\ processed' \in Seq(Shares)
  BY <1>1, AppendIsConcat, AppendProperties
<1>4. processed' \o << >> = processed'
  BY <1>3, ConcatEmptySeq
<1> QED BY <1>1, <1>2, <1>3, <1>4 DEF Kept

LEMMA HandOther ==
  ASSUME shot'.pc # "running", shot.pc # "running"
  PROVE  Hand' = Hand
BY DEF Hand

LEMMA KeptOther ==
  ASSUME TypeOK, [Next]_vars, ~ PushShare, ~ ShotPop, ~ ShotRun
  PROVE  Kept' = Kept
<1>1. CASE ShotLoop \/ ShotCheck \/ ShotBlock \/ ShotTimeout \/ ShotLook
  <2>1. shot.pc # "running" /\ shot'.pc # "running" /\ UNCHANGED <<queue, processed>>
    BY <1>1 DEF ShotLoop, ShotCheck, ShotBlock, ShotTimeout, ShotLook, At
  <2> QED BY <2>1, HandOther DEF Kept
<1>2. CASE NotifyOne \/ NotifyAll
  <2>1. shot' = Notified /\ UNCHANGED <<queue, processed>>
    BY <1>2 DEF NotifyOne, NotifyAll
  <2>2. Hand' = Hand
    BY <2>1, HandOther DEF Notified, Hand, At
  <2> QED BY <2>1, <2>2 DEF Kept
<1>3. CASE \/ CountShare \/ DropShare \/ EndBenchmark \/ Signal \/ Throw \/ LeaveLoop
           \/ SetStop \/ JoinShot \/ JoinValidator \/ ValidatorSteps \/ UNCHANGED vars
  <2>1. UNCHANGED <<shot, queue, processed>>
    BY <1>3 DEF CountShare, DropShare, EndBenchmark, Signal, Throw, LeaveLoop, SetStop,
                JoinShot, JoinValidator, ValidatorSteps, ValidatorLoop, ValidatorPass, vars
  <2> QED BY <2>1 DEF Kept, Hand
<1> QED BY <1>1, <1>2, <1>3 DEF Next, Verified, Ending, ShotSteps

LEMMA ToldNat == ASSUME TypeOK PROVE told \in Nat
<1>1. told \in 0 .. MaxShares
  BY DEF TypeOK
<1> QED BY <1>1, QueueAssumption

LEMMA KeptShares ==
  ASSUME TypeOK, Accounted
  PROVE  \A x \in Holds(Kept) : x < told + 1
<1>1. told \in Nat
  BY ToldNat
<1>2. Holds(Kept) \subseteq 1 .. told
  BY DEF Accounted, Holds
<1> QED BY <1>1, <1>2

(* What happens to the counts beside Kept. *)
LEMMA HistoryOther ==
  ASSUME [Next]_vars, ~ Verified
  PROVE  UNCHANGED <<told, counted, dropped>>
BY DEF Next, Verified, NotifyOne, EndBenchmark, Signal, Throw, Ending, LeaveLoop, SetStop,
       NotifyAll, JoinShot, JoinValidator, ShotSteps, ShotLoop, ShotCheck, ShotBlock,
       ShotTimeout, ShotLook, ShotPop, ShotRun, ShotUnchanged, ValidatorSteps,
       ValidatorLoop, ValidatorPass, vars, history

LEMMA KStep == ASSUME KInv, [Next]_vars PROVE KInv'
<1> USE DEF KInv
<1>1. TypeOK'
  BY TypeStep
<1>2. told \in Nat /\ Kept \in Seq(Shares)
  BY KeptTypes, ToldNat
<1>3. Holds(Kept) = (1 .. told) \ (counted \cup dropped) /\ Ascending(Kept)
  BY DEF Accounted, InOrder, Holds, Ascending
<1>4. ASSUME OnlyTold', Holds(Kept)' = ((1 .. told) \ (counted \cup dropped))',
             Ascending(Kept)'
      PROVE  KInv'
  BY <1>1, <1>4 DEF Accounted, InOrder, Holds, Ascending
<1>5. CASE PushShare
  <2>1. /\ told + 1 \in Shares /\ told' = told + 1 /\ counted' = counted
        /\ dropped' = dropped
    BY <1>5, NewShareTypes, TypeParts DEF PushShare
  <2>2. Kept' = Append(Kept, told + 1)
    BY <1>5, KeptPush
  <2>3. Holds(Kept') = Holds(Kept) \cup {told + 1}
    BY <1>2, <2>1, <2>2, HoldsAppend
  <2>4. Ascending(Kept')
    BY <1>2, <1>3, <2>1, <2>2, KeptShares, AscendingAppend
  <2>5. (told + 1) \notin counted \cup dropped /\ 1 .. (told + 1) = (1 .. told) \cup {told + 1}
    BY <1>2 DEF OnlyTold
  <2>6. Holds(Kept') = (1 .. told') \ (counted' \cup dropped')
    BY <1>3, <2>1, <2>3, <2>5
  <2>7. OnlyTold'
    BY <2>1, <2>5 DEF OnlyTold
  <2> QED BY <1>4, <2>4, <2>6, <2>7 DEF Holds, Ascending
<1>6. CASE CountShare \/ DropShare
  <2>1. Kept' = Kept
    BY <1>6 DEF CountShare, DropShare, Kept, Hand
  <2>2. told' = told + 1 /\ counted' \cup dropped' = counted \cup dropped \cup {told + 1}
    BY <1>6 DEF CountShare, DropShare, NewShare
  <2>3. 1 .. (told + 1) = (1 .. told) \cup {told + 1} /\ (told + 1) \notin 1 .. told
    BY <1>2
  <2>4. Holds(Kept') = (1 .. told') \ (counted' \cup dropped')
    BY <1>3, <2>1, <2>2, <2>3
  <2>5. OnlyTold'
    BY <2>2, <2>3 DEF OnlyTold
  <2> QED BY <1>3, <1>4, <2>1, <2>4, <2>5 DEF Holds, Ascending
<1>7. CASE ~ Verified
  <2>1. Kept' = Kept
    BY <1>7, KeptPop, KeptRun, KeptOther DEF Verified
  <2>2. UNCHANGED <<told, counted, dropped>>
    BY <1>7, HistoryOther
  <2> QED BY <1>3, <1>4, <2>1, <2>2 DEF Holds, Ascending, OnlyTold
<1> QED BY <1>5, <1>6, <1>7 DEF Verified

LEMMA KInvariant == Spec => []KInv
<1>1. Init => KInv
  <2> SUFFICES ASSUME Init PROVE KInv
    OBVIOUS
  <2>1. TypeOK
    BY TypeInit
  <2>2. /\ told = 0 /\ counted = {} /\ dropped = {} /\ processed = << >> /\ queue = << >>
        /\ shot.pc = "top"
    BY DEF Init, At
  <2>3. Kept = << >>
    <3>1. Hand = << >>
      BY <2>2 DEF Hand
    <3>2. << >> \in Seq(Shares) /\ << >> \o << >> = << >>
      BY EmptySeq, ConcatEmptySeq
    <3> QED BY <2>2, <3>1, <3>2 DEF Kept
  <2>4. Len(Kept) = 0 /\ 1 .. 0 = {}
    BY <2>3, EmptySeq
  <2>5. OnlyTold /\ Accounted /\ InOrder
    BY <2>2, <2>4 DEF OnlyTold, Accounted, InOrder
  <2> QED BY <2>1, <2>5 DEF KInv
<1>2. KInv /\ [Next]_vars => KInv'
  BY KStep
<1> QED BY <1>1, <1>2, PTL DEF Spec

(* However the network thread, the timed wait of the shot thread and the     *)
(* stop cross, every share that on_verified_share took is counted by the     *)
(* benchmark, dropped for a full queue, or kept.                             *)
THEOREM NoShareLost == Spec => []Accounted
<1>1. KInv => Accounted
  BY DEF KInv
<1> QED BY <1>1, KInvariant, PTL

(* shot_loop makes its batches in the order in which shares were verified,   *)
(* and takes no share twice.                                                 *)
THEOREM OrderKept == Spec => []InOrder
<1>1. KInv => InOrder
  BY DEF KInv
<1> QED BY <1>1, KInvariant, PTL
=============================================================================
