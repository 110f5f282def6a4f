----------------------------- MODULE Controller -----------------------------
(***************************************************************************)
(* The difficulty controller: Daemon::controller_tick with its benchmark,  *)
(* and the part of on_verified_share that counts for it                    *)
(* (cpp/src/daemon.cpp).                                                   *)
(*                                                                         *)
(* Environment.  A tick comes once a second or later and the shares of the *)
(* time since the last one are verified before it.  A steady farm finds    *)
(* what its hash rate yields at the difficulty the server announced, give  *)
(* or take a share; until it is steady it finds anything.  The host falls  *)
(* behind (a full queue or many pending batches) at any time.              *)
(*                                                                         *)
(* Abstraction.  Ticks that end in an early return lie between the         *)
(* modelled ones.  Hash rates are in shares of difficulty 1, and times in  *)
(* units in which the code's 20 s are Window.  Moments are kept as ages;   *)
(* ages beyond the longest a guard asks for are equal.                     *)
(***************************************************************************)
EXTENDS DiffRat, U256

CONSTANTS
  Window,      \* a share window: 20 s
  Gap,         \* between two adaptations more than 30 s pass
  Bench,       \* benchmark_duration_s
  Elapses,     \* times that may pass between two ticks
  Rate,        \* max_shares_per_sec
  InitText,    \* init_difficulty
  MinText,     \* min_difficulty
  MaxText,     \* max_difficulty
  HashRates,   \* hash rates of steady farms
  MaxFound     \* bound: shares an unsteady farm finds between two ticks

ASSUME ControllerAssumption ==
  /\ {Window, Gap, Bench, Rate, MaxFound} \subseteq Nat \ {0}
  /\ {InitText, MinText, MaxText} \subseteq Texts
  /\ Elapses \subseteq Nat \ {0} /\ HashRates \subseteq Nat \ {0}
  /\ ToDouble(Parse(MinText)) \in 1 .. ToDouble(Parse(InitText))
  /\ ToDouble(Parse(InitText)) <= ToDouble(Parse(MaxText))
  /\ \A k \in 0 .. MaxDecimals : Ten[k] < Base

VARIABLES
  benchmarking,  \* benchmarking_
  benchAge,      \* the time since benchmark_start_ms_, or Never
  benchShares,   \* benchmark_shares_
  windowAge,     \* the time since window_start_ms_, or Never
  windowShares,  \* window_shares_
  changeAge,     \* the time since last_diff_change_ms_, up to Gap + 1
  est,           \* hashrate_est_hps_
  diff,          \* current_diff_
  told,          \* what the server announces
  behind,        \* qdepth > 128 or pending > 256
  hashRate       \* of a steady farm, or 0

benchVars == <<benchmarking, benchAge, benchShares>>
windowVars == <<windowAge, windowShares>>
diffVars == <<est, diff, told, changeAge>>
vars == <<benchVars, windowVars, diffVars, behind, hashRate>>

Never == -1

MinDiff == Parse(MinText)
MaxDiff == Parse(MaxText)

Now == ToDouble(diff)
-----------------------------------------------------------------------------
(* The environment. *)

(* The shares of a window that is `age` long when they are counted. *)
Yield(age) == (hashRate * age) \div ToDouble(told)

Found(dt) ==
  IF hashRate = 0 THEN 0 .. MaxFound
  ELSE LET due == IF benchmarking
                  THEN Yield(Max({benchAge, 0}) + dt) - benchShares
                  ELSE Yield(Max({windowAge, 0}) + dt) - windowShares
       IN  {Max({due, 0}), Max({due + 1, 0})}

(* Time passes: n shares are verified, and the tick sees the host behind or *)
(* not.                                                                     *)
Later(age, dt) == IF age = Never THEN Never ELSE age + dt

Pass(dt, n, b) ==
  /\ dt \in Elapses /\ n \in Found(dt)
  /\ behind' = b
  /\ \/ UNCHANGED hashRate
     \/ hashRate = 0 /\ hashRate' \in HashRates

Aged(dt) == Min({changeAge + dt, Gap + 1})

(* on_verified_share: each of n shares counts for the window, and for the   *)
(* benchmark while it lasts.                                                *)
Counted(n) ==
  /\ windowShares' = windowShares + n
  /\ benchShares' = IF benchmarking THEN benchShares + n ELSE benchShares
-----------------------------------------------------------------------------
(* Helpers of the tick. *)

(* Mutant: the upper bound is not applied. *)
Clamped_NoUpper(d) == IF ToDouble(d) < ToDouble(MinDiff) THEN MinDiff ELSE d

(* Mutant: the upper bound is taken for the lower one. *)
Clamped_WrongBound(d) ==
  IF ToDouble(d) \notin ToDouble(MinDiff) .. ToDouble(MaxDiff) THEN MaxDiff ELSE d

(* The lambda clamp. *)
Clamped(d) ==
  IF ToDouble(d) < ToDouble(MinDiff) THEN MinDiff
  ELSE IF ToDouble(d) > ToDouble(MaxDiff) THEN MaxDiff
  ELSE d

Smoothed(inst) == IF est = 0 THEN inst ELSE (7 * est + 3 * inst) \div 10

(* The hash rate that finds n shares of the current difficulty in time t. *)
Observed(n, t) == (n * Now) \div t

(* The difficulty at which hash rate h yields Rate. *)
Desired(h) == h \div Rate

(* A new difficulty is announced. *)
Announce(d) == diff' = d /\ told' = d

(* num * 8 in 64 bits. *)
Wraps(d) == d.num * 8 >= Word

Raised(d) == Rat((d.num * 8) % Word, d.den)
-----------------------------------------------------------------------------
(* controller_tick while benchmarking. *)

StartBenchmark(dt, n) ==
  /\ benchmarking /\ benchAge = Never
  /\ benchAge' = 0
  /\ Counted(n)
  /\ changeAge' = Aged(dt)
  /\ UNCHANGED <<benchmarking, windowAge, est, diff, told>>

AwaitBenchmark(dt, n) ==
  /\ benchmarking /\ benchAge # Never
  /\ benchAge + dt < Bench
  /\ benchAge' = benchAge + dt
  /\ Counted(n)
  /\ changeAge' = Aged(dt)
  /\ UNCHANGED <<benchmarking, windowAge, est, diff, told>>

(* The bounds as they are applied to a double. *)
Bounded(x) == Max({ToDouble(MinDiff), Min({ToDouble(MaxDiff), x})})

(* What is printed of a number between the bounds reads as one between them. *)
PrintsWithinBounds ==
  \A x \in ToDouble(MinDiff) .. ToDouble(MaxDiff) :
    ToDouble(Parse(Printed(x))) \in ToDouble(MinDiff) .. ToDouble(MaxDiff)

(* The benchmark's result is clamped before it is printed; what is read     *)
(* from the text is taken as it is.                                         *)
Measure(h) ==
  /\ est' = h
  /\ \E x \in {Bounded(Desired(h))} : \E text \in {Printed(x)} : \E d \in {Parse(text)} :
        Announce(d)

EndBenchmark(dt, n) ==
  LET elapsed == benchAge + dt
      shares == benchShares + n
  IN  /\ benchmarking /\ benchAge # Never
      /\ elapsed >= Bench
      /\ \/ shares > 0 /\ \E h \in {Observed(shares, elapsed)} : Measure(h)
         \/ shares = 0 /\ Announce(Parse(InitText)) /\ UNCHANGED est
      /\ benchmarking' = FALSE /\ benchAge' = Never /\ benchShares' = 0
      /\ windowAge' = 0 /\ windowShares' = 0
      /\ changeAge' = Aged(dt)
-----------------------------------------------------------------------------
(* controller_tick afterwards. *)

StartWindow(dt, n) ==
  /\ ~ benchmarking /\ windowAge = Never
  /\ windowAge' = 0
  /\ Counted(n)
  /\ changeAge' = Aged(dt)
  /\ UNCHANGED <<benchmarking, benchAge, est, diff, told>>

AwaitWindow(dt, n) ==
  /\ ~ benchmarking /\ windowAge # Never
  /\ windowAge + dt < Window
  /\ windowAge' = windowAge + dt
  /\ Counted(n)
  /\ changeAge' = Aged(dt)
  /\ UNCHANGED <<benchmarking, benchAge, est, diff, told>>

WindowOver(dt) == ~ benchmarking /\ windowAge # Never /\ windowAge + dt >= Window

NewWindow == windowAge' = 0 /\ windowShares' = 0

(* Mutant: emergencies wait as adaptations do. *)
Emergency_Spaced(b) == b /\ changeAge > Gap

(* An emergency that changes the difficulty; at the upper bound it does not *)
(* and the window is evaluated as any other.                                *)
Emergency(b) == b /\ ToDouble(Clamped(Raised(diff))) # Now

Raise(dt, b) ==
  /\ WindowOver(dt)
  /\ Emergency(b)
  /\ Announce(Clamped(Raised(diff)))
  /\ changeAge' = 0
  /\ NewWindow
  /\ UNCHANGED <<benchVars, est>>

(* Mutant: the difficulty only ever rises. *)
OutOfBand_Above(x) == 10 * x > 13 * Now

(* ratio > 1.3 or ratio < 0.77, of the desired difficulty to the current.   *)
OutOfBand(x) == 10 * x > 13 * Now \/ 100 * x < 77 * Now

(* The difficulty follows the desired one if it is far off and its last     *)
(* change is old.                                                           *)
Follow(x, dt) ==
  \E text \in {Printed(x)} : \E r \in {Parse(text)} : \E d \in {Clamped(r)} :
    IF OutOfBand(x) /\ Aged(dt) > Gap /\ ToDouble(d) # Now
    THEN Announce(d) /\ changeAge' = 0
    ELSE UNCHANGED <<diff, told>> /\ changeAge' = Aged(dt)

(* The window ends, with shares to estimate from or without.                *)
Evaluate(dt, n, b) ==
  /\ WindowOver(dt)
  /\ ~ Emergency(b)
  /\ \/ /\ windowShares + n > 0
        /\ \E h \in {Smoothed(Observed(windowShares + n, windowAge + dt))} :
              est' = h /\ \E x \in {Desired(h)} : Follow(x, dt)
     \/ /\ windowShares + n = 0
        /\ changeAge' = Aged(dt)
        /\ UNCHANGED <<est, diff, told>>
  /\ NewWindow
  /\ UNCHANGED benchVars

Tick(dt, n, b) ==
  /\ Pass(dt, n, b)
  /\ \/ StartBenchmark(dt, n) \/ AwaitBenchmark(dt, n) \/ EndBenchmark(dt, n)
     \/ StartWindow(dt, n) \/ AwaitWindow(dt, n)
     \/ Raise(dt, b) \/ Evaluate(dt, n, b)
-----------------------------------------------------------------------------
Init ==
  /\ benchmarking \in BOOLEAN
  /\ benchAge = Never /\ benchShares = 0
  /\ windowAge = Never /\ windowShares = 0
  /\ changeAge = Gap + 1
  /\ est = 0
  /\ diff = Parse(InitText) /\ told = diff
  /\ behind = FALSE
  /\ hashRate = 0

Next == \E dt \in Elapses, b \in BOOLEAN : \E n \in Found(dt) : Tick(dt, n, b)

Spec == Init /\ [][Next]_vars

(* The loop of run ticks for ever.  A tick is always possible, so that this *)
(* is weak fairness of Next.                                                *)
FairSpec == Spec /\ []<><<Next>>_vars
-----------------------------------------------------------------------------
(* Properties. *)

(* The state has the types of the code's fields, and the difficulty never   *)
(* leaves the configured bounds, whatever the estimate and however often    *)
(* emergencies multiply it by eight.                                        *)
TypeOK ==
  /\ benchmarking \in BOOLEAN /\ behind \in BOOLEAN
  /\ {benchAge, windowAge} \subseteq Nat \cup {Never}
  /\ {benchShares, windowShares, est, hashRate} \subseteq Nat
  /\ changeAge \in 0 .. Gap + 1
  /\ Now \in ToDouble(MinDiff) .. ToDouble(MaxDiff)
  /\ told = diff

(* A change of the difficulty has its cause: it rises only because the host *)
(* is behind or the estimate calls for more, and falls only because the     *)
(* estimate calls for less, or because eight times its numerator does not   *)
(* fit 64 bits when the host is behind.  A text that is misread, or a bound  *)
(* that is applied on the wrong side, would break this.                     *)
TowardsRate ==
  [][LET was == Now
         is == Now'
     IN  /\ is > was => behind' \/ Desired(est') > was
         /\ is < was => Desired(est') < was \/ (behind' /\ Wraps(diff))]_vars

(* A host that is behind at the end of a window gets a higher difficulty,   *)
(* until it has the highest, as long as eight times the numerator fits 64   *)
(* bits: beyond, the product wraps and may be anything.                     *)
BacklogRaises ==
  [][behind' /\ ~ benchmarking /\ windowAge > 0 /\ windowAge' = 0
       => Now' > Now \/ Now = ToDouble(MaxDiff) \/ Wraps(diff)]_vars

(* The compact form that the headers carry never stands for more than the   *)
(* target, and for less only in what its mantissa cannot hold.              *)
CompactClose(v) ==
  \A c \in {CompactEncode(v)} :
    LET w == CompactDecode(c)
    IN  w <= v /\ (v - w) * SignBit * HalfLimb <= v

(* floor(MAX_TARGET * den / num), which target_from_difficulty is to give. *)
FloorTarget(d) == (Number(MaxTarget) * d.den) \div d.num

(* The target that the farms hash against is never above the floor: shifts  *)
(* that drop bits of a remainder make shares harder and never easier.       *)
(* Where the numerator fits a limb the target is the floor itself, and that *)
(* of the text that the batches carry to the validator.  It always has a    *)
(* close compact form.                                                      *)
TargetWithinFloor ==
  \A x \in {Number(Target(diff))} :
    /\ CompactClose(x)
    /\ x <= FloorTarget(diff)
    /\ diff.num <= Base =>
         /\ x = FloorTarget(diff)
         /\ \A text \in {ToString(diff)} : \A d \in {Parse(text)} : x = Number(Target(d))

(* The promise of u256.h, of whatever numerator: target_from_difficulty is  *)
(* the floor.  Numerators beyond a limb, which an emergency makes, break it *)
(* in the code: rem << 32 does not keep all of the remainder.               *)
TargetFloor == Number(Target(diff)) = FloorTarget(diff)

(* The difficulty of a steady farm on a host that keeps up. *)
Fair == Bounded(Desired(hashRate))

OnTarget == 2 * Now >= Fair /\ Now <= 2 * Fair

(* A steady farm that goes on finding shares ends up, and stays, within a   *)
(* factor of two of the share rate the operator asked for, once the host    *)
(* keeps up: from any difficulty that emergencies left.                     *)
Settles ==
  /\ <>(hashRate # 0)
  /\ <>[] ~ behind
  /\ []<>(windowShares > 0)
  => <>[]OnTarget
=============================================================================
