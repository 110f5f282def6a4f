----------------------------- MODULE ShareQueue -----------------------------
(***************************************************************************)
(* The daemon's threads around its share queue (cpp/src/daemon.cpp: the      *)
(* loop and the end of run, on_verified_share, shot_loop, validator_loop).   *)
(* The network thread hands each verified share, which its miner has been    *)
(* told is accepted, to the shot thread through a bounded queue under qmu_   *)
(* and qcv_; a signal ends the network loop, which stops and joins the other *)
(* two threads.                                                              *)
(*                                                                           *)
(* Abstractions.                                                             *)
(*  - Shares are numbered in the order in which they are verified.           *)
(*  - qmu_ is held by the shot thread while its pc is in Locked; the         *)
(*    critical section of on_verified_share is one step.  stop_ and          *)
(*    g_stop_flag are atomics that are read and written without it.          *)
(*  - The simulation of a share and the writing of its batch are one step    *)
(*    that may fail (Pipeline has its parts), and so is a pass of the        *)
(*    validator.  The size of a batch (validation_every_n_shares) and the    *)
(*    status file are left out.                                              *)
(*  - The first state is the one behind the creation of the threads.         *)
(***************************************************************************)
EXTENDS Integers, Sequences

CONSTANTS
  MaxQueue,      \* kMaxQueue
  MaxShares      \* bound of the model: the number of verified shares

ASSUME QueueAssumption == MaxQueue \in Nat \ {0} /\ MaxShares \in Nat

VARIABLES
  adaptive,      \* cfg_.difficulty_mode = "adaptive"
  benchmarking,  \* benchmarking_
  queue,         \* queue_
  stop,          \* stop_
  gStop,         \* g_stop_flag
  main,          \* where the network thread is
  shot,          \* the shot thread: its place, and the share it works on
  validator,     \* where the validator thread is
  threw,         \* run() was left by an exception
  told,          \* history: the number of verified shares
  counted,       \* history: the shares that only the benchmark counted
  dropped,       \* history: the shares that found the queue full
  processed      \* history: the shares of the batches, in the order of shot_loop

threads == <<adaptive, stop, gStop, validator, threw>>
history == <<told, counted, dropped>>
vars == <<adaptive, benchmarking, queue, stop, gStop, main, shot, validator, threw,
          told, counted, dropped, processed>>

NoShare == 0
Shares  == 1 .. MaxShares

At(pc) == [pc |-> pc, share |-> NoShare]

(* wait_for holds qmu_ from each evaluation of its predicate to the moment   *)
(* it blocks, and from its return to the end of the block.                   *)
Locked == {"blocking", "looking", "popping"}

-----------------------------------------------------------------------------
(* The network thread: on_verified_share, called by server_.run_once. *)

NewShare == /\ main = "serving"
            /\ told < MaxShares
            /\ told' = told + 1

CountShare ==
  /\ NewShare
  /\ benchmarking
  /\ counted' = counted \cup {told + 1}
  /\ UNCHANGED <<threads, benchmarking, queue, main, shot, dropped, processed>>

(* Mutant: the limit is checked with >. *)
Full_OffByOne == Len(queue) > MaxQueue

Full == Len(queue) >= MaxQueue

DropShare ==
  /\ NewShare
  /\ ~ benchmarking
  /\ shot.pc \notin Locked
  /\ Full
  /\ dropped' = dropped \cup {told + 1}
  /\ UNCHANGED <<threads, benchmarking, queue, main, shot, counted, processed>>

(* Mutant: push_front. *)
Enqueue_Front(q, i) == <<i>> \o q

(* queue_.push_back under the lock; the notification follows outside it. *)
Enqueue(q, i) == Append(q, i)

PushShare ==
  /\ NewShare
  /\ ~ benchmarking
  /\ shot.pc \notin Locked
  /\ ~ Full
  /\ queue' = Enqueue(queue, told + 1)
  /\ main' = "notifying"
  /\ UNCHANGED <<threads, benchmarking, shot, counted, dropped, processed>>

(* What notify_one and notify_all do to the one waiting thread. *)
Notified == IF shot.pc = "waiting" THEN At("awake") ELSE shot

NotifyOne ==
  /\ main = "notifying"
  /\ shot' = Notified
  /\ main' = "serving"
  /\ UNCHANGED <<threads, benchmarking, queue, history, processed>>

(* controller_tick clears the benchmark when its time is over, in the        *)
(* adaptive mode only.                                                       *)
EndBenchmark ==
  /\ main = "serving"
  /\ adaptive
  /\ benchmarking
  /\ benchmarking' = FALSE
  /\ UNCHANGED <<threads, queue, main, shot, history, processed>>

-----------------------------------------------------------------------------
(* The network thread: the end of run. *)

Signal ==
  /\ ~ gStop
  /\ gStop' = TRUE
  /\ UNCHANGED <<adaptive, benchmarking, queue, stop, main, shot, validator, threw,
                 history, processed>>

LeaveLoop ==
  /\ main = "serving"
  /\ gStop
  /\ main' = "stopping"
  /\ UNCHANGED <<threads, benchmarking, queue, shot, history, processed>>

(* stop_ = true, without qmu_. *)
SetStop ==
  /\ main = "stopping"
  /\ stop' = TRUE
  /\ main' = "notifying all"
  /\ UNCHANGED <<adaptive, benchmarking, queue, gStop, shot, validator, threw, history,
                 processed>>

NotifyAll ==
  /\ main = "notifying all"
  /\ shot' = Notified
  /\ main' = "joining shot"
  /\ UNCHANGED <<threads, benchmarking, queue, history, processed>>

(* An exception in the loop makes run return 1 with stop_ unset; ~Daemon     *)
(* then joins the threads.                                                   *)
Throw ==
  /\ main = "serving"
  /\ threw' = TRUE
  /\ main' = "joining shot"
  /\ UNCHANGED <<adaptive, benchmarking, queue, stop, gStop, shot, validator, history,
                 processed>>

JoinShot ==
  /\ main = "joining shot"
  /\ shot.pc = "exited"
  /\ main' = "joining validator"
  /\ UNCHANGED <<threads, benchmarking, queue, shot, history, processed>>

JoinValidator ==
  /\ main = "joining validator"
  /\ validator = "exited"
  /\ main' = "done"
  /\ UNCHANGED <<threads, benchmarking, queue, shot, history, processed>>

-----------------------------------------------------------------------------
(* The shot thread. *)

ShotUnchanged == UNCHANGED <<threads, benchmarking, main, history>>

(* while (!stop_), and qmu_ is taken behind it. *)
ShotLoop ==
  /\ shot.pc = "top"
  /\ shot' = At(IF stop THEN "exited" ELSE "awake")
  /\ UNCHANGED <<queue, processed>>
  /\ ShotUnchanged

(* wait_for evaluates its predicate: at its begin, and after a notification. *)
ShotCheck ==
  /\ shot.pc = "awake"
  /\ shot' = At(IF stop \/ queue # << >> THEN "looking" ELSE "blocking")
  /\ UNCHANGED <<queue, processed>>
  /\ ShotUnchanged

ShotBlock ==
  /\ shot.pc = "blocking"
  /\ shot' = At("waiting")
  /\ UNCHANGED <<queue, processed>>
  /\ ShotUnchanged

(* Mutant: wait instead of wait_for. *)
ShotTimeout_Never == FALSE /\ UNCHANGED vars

(* The 200 ms are over: wait_for returns whatever its predicate says. *)
ShotTimeout ==
  /\ shot.pc = "waiting"
  /\ shot' = At("looking")
  /\ UNCHANGED <<queue, processed>>
  /\ ShotUnchanged

(* Mutant: the share is taken from the queue before the stop flag is looked at. *)
ShotLook_PopsFirst ==
  /\ shot.pc = "looking"
  /\ IF stop /\ queue # << >>
     THEN shot' = At("exited") /\ queue' = Tail(queue)
     ELSE /\ shot' = At(IF stop THEN "exited" ELSE IF queue = << >> THEN "top" ELSE "popping")
          /\ UNCHANGED queue
  /\ UNCHANGED processed
  /\ ShotUnchanged

(* Mutant: an empty queue ends the loop. *)
ShotLook_EndsWhenEmpty ==
  /\ shot.pc = "looking"
  /\ shot' = At(IF stop \/ queue = << >> THEN "exited" ELSE "popping")
  /\ UNCHANGED <<queue, processed>>
  /\ ShotUnchanged

(* if (stop_) return; if (queue_.empty()) continue; *)
ShotLook ==
  /\ shot.pc = "looking"
  /\ shot' = At(IF stop THEN "exited" ELSE IF queue = << >> THEN "top" ELSE "popping")
  /\ UNCHANGED <<queue, processed>>
  /\ ShotUnchanged

ShotPop ==
  /\ shot.pc = "popping"
  /\ shot' = [pc |-> "running", share |-> Head(queue)]
  /\ queue' = Tail(queue)
  /\ UNCHANGED processed
  /\ ShotUnchanged

(* The shots and write_pending; a failed write is only logged. *)
ShotRun ==
  /\ shot.pc = "running"
  /\ processed' = Append(processed, shot.share)
  /\ shot' = At("top")
  /\ UNCHANGED queue
  /\ ShotUnchanged

-----------------------------------------------------------------------------
(* The validator thread. *)

ValidatorLoop ==
  /\ validator = "top"
  /\ validator' = IF stop THEN "exited" ELSE "passing"
  /\ UNCHANGED <<adaptive, benchmarking, queue, stop, gStop, main, shot, threw, history,
                 processed>>

ValidatorPass ==
  /\ validator = "passing"
  /\ validator' = "top"
  /\ UNCHANGED <<adaptive, benchmarking, queue, stop, gStop, main, shot, threw, history,
                 processed>>

-----------------------------------------------------------------------------

(* Mutant: the benchmark starts in the fixed mode, too. *)
StartsBenchmarking_AnyMode(enable, adapt) == enable

(* The benchmark belongs to the adaptive controller, which ends it. *)
StartsBenchmarking(enable, adapt) == enable /\ adapt

Init ==
  /\ adaptive \in BOOLEAN
  /\ \E enable \in BOOLEAN : benchmarking = StartsBenchmarking(enable, adaptive)
  /\ queue = << >>
  /\ stop = FALSE /\ gStop = FALSE /\ threw = FALSE
  /\ main = "serving"
  /\ shot = At("top")
  /\ validator = "top"
  /\ told = 0 /\ counted = {} /\ dropped = {}
  /\ processed = << >>

Verified    == CountShare \/ DropShare \/ PushShare
Ending      == LeaveLoop \/ SetStop \/ NotifyAll \/ JoinShot \/ JoinValidator
ShotSteps   == ShotLoop \/ ShotCheck \/ ShotBlock \/ ShotTimeout \/ ShotLook \/ ShotPop
                 \/ ShotRun
ValidatorSteps == ValidatorLoop \/ ValidatorPass

Next == \/ Verified \/ NotifyOne \/ EndBenchmark \/ Signal \/ Throw
        \/ Ending \/ ShotSteps \/ ValidatorSteps

Spec == Init /\ [][Next]_vars

(* Each thread runs on, a timed wait ends, and the controller ticks. *)
Fairness == /\ WF_vars(NotifyOne \/ Ending)
            /\ WF_vars(EndBenchmark)
            /\ WF_vars(ShotSteps)
            /\ WF_vars(ValidatorSteps)

FairSpec == Spec /\ Fairness
-----------------------------------------------------------------------------
(* Properties. *)

(* The state has the types of the code's fields; the queue never holds more  *)
(* than kMaxQueue shares, whatever the shot thread does meanwhile.           *)
TypeOK ==
  /\ adaptive \in BOOLEAN /\ benchmarking \in BOOLEAN
  /\ stop \in BOOLEAN /\ gStop \in BOOLEAN /\ threw \in BOOLEAN
  /\ queue \in Seq(Shares) /\ Len(queue) <= MaxQueue
  /\ main \in {"serving", "notifying", "stopping", "notifying all", "joining shot",
               "joining validator", "done"}
  /\ shot \in [pc : {"top", "awake", "blocking", "waiting", "looking", "popping",
                     "running", "exited"},
               share : Shares \cup {NoShare}]
  /\ shot.pc = "running" => shot.share # NoShare
  /\ shot.pc = "popping" => queue # << >>
  /\ validator \in {"top", "passing", "exited"}
  /\ told \in 0 .. MaxShares
  /\ counted \subseteq Shares /\ dropped \subseteq Shares
  /\ processed \in Seq(Shares)

(* The share the shot thread works on, and all shares that were kept. *)
Hand == IF shot.pc = "running" THEN <<shot.share>> ELSE << >>
Kept == processed \o Hand \o queue

(* A share whose miner was told that it is accepted is counted by the        *)
(* benchmark, or dropped for a full queue, or it is kept: in the queue, in   *)
(* the hand of the shot thread, or in a batch.  None is lost between the     *)
(* threads, however on_verified_share, the timed wait and the stop cross.    *)
Accounted ==
  {Kept[i] : i \in 1 .. Len(Kept)} = (1 .. told) \ (counted \cup dropped)

(* Batches are made in the order in which the shares were verified, each     *)
(* share at most once.                                                       *)
InOrder == \A i, j \in 1 .. Len(Kept) : i < j => Kept[i] < Kept[j]

(* A share in the queue gets its batch, unless the daemon is stopped.        *)
QueueDrains ==
  \A i \in Shares :
    (\E k \in 1 .. Len(queue) : queue[k] = i)
      ~> (gStop \/ \E k \in 1 .. Len(processed) : processed[k] = i)

(* After a signal run returns, with both threads joined: the stop that is    *)
(* set without qmu_ may fall between the predicate and the wait of the shot  *)
(* thread, whose notification is then lost.  (An exception is another end.)  *)
StopReturns == gStop ~> (main = "done" \/ threw)

(* The benchmark, which swallows verified shares, ends.                      *)
BenchmarkEnds == benchmarking ~> (~ benchmarking \/ gStop \/ threw)
=============================================================================
