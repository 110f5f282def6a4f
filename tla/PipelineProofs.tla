--------------------------- MODULE PipelineProofs ---------------------------
(***************************************************************************)
(* Proofs about Pipeline for every set of batches and circuits and every   *)
(* number of faults: kills, I/O errors, torn appends, power failures and   *)
(* reads that end early.                                                   *)
(***************************************************************************)
EXTENDS Pipeline, FiniteSetTheorems, SequenceTheorems, TLAPS

(* The lines and the tail that append leaves. *)
LEMMA NextEntryIsLine ==
  ASSUME LedgerTypeOK, NEW b \in Batches
  PROVE  /\ NextEntry(b) \in Line
         /\ NextEntry(b).ok /\ NextEntry(b).batch = b
         /\ HashOf(NextEntry(b)) \in Hash
<1>1. lastHash \in Seq(Nat \X Batches) /\ nextSeq \in Nat /\ <<nextSeq, b>> \in Nat \X Batches
  BY DEF LedgerTypeOK, Hash
<1>2. Append(lastHash, <<nextSeq, b>>) \in Seq(Nat \X Batches)
  BY <1>1
<1> QED BY <1>1, <1>2 DEF NextEntry, Entry, Line, HashOf, Hash

LEMMA GarbageIsLine == Garbage \in Line /\ ~ Garbage.ok
BY DEF Garbage, Line, Hash, Genesis

LEMMA LineHash == ASSUME NEW e \in Line, e.batch \in Batches PROVE HashOf(e) \in Hash
<1>1. e.prev \in Seq(Nat \X Batches) /\ <<e.seq, e.batch>> \in Nat \X Batches
  BY DEF Line, Hash
<1> QED BY <1>1 DEF HashOf, Hash

(* The text of an append, torn or not, keeps the lines well typed. *)
LEMMA AddTextLines ==
  ASSUME LedgerTypeOK, NEW e \in Line, e.ok => e.batch \in Batches
  PROVE  /\ AddText(e) \in Seq(Line)
         /\ AddText(e) # << >>
         /\ \A i \in DOMAIN AddText(e) : AddText(e)[i].ok => AddText(e)[i].batch \in Batches
<1>1. lines \in Seq(Line) /\ (open => lines # << >>)
      /\ \A i \in DOMAIN lines : lines[i].ok => lines[i].batch \in Batches
  BY DEF LedgerTypeOK
<1>2. CASE open
  <2>1. AddText(e) = [lines EXCEPT ![Len(lines)] = Garbage]
    BY <1>2 DEF AddText
  <2> QED BY <1>1, <1>2, <2>1, GarbageIsLine
<1>3. CASE ~ open
  <2>1. AddText(e) = Append(lines, e)
    BY <1>3 DEF AddText
  <2> QED BY <1>1, <2>1
<1> QED BY <1>2, <1>3

LEMMA AppendOkTypes ==
  ASSUME LedgerTypeOK, NEW b \in Batches, AppendOk(b)
  PROVE  LedgerTypeOK'
<1>1. /\ lines' \in Seq(Line) /\ lines' # << >>
      /\ \A i \in DOMAIN lines' : lines'[i].ok => lines'[i].batch \in Batches
  BY NextEntryIsLine, AddTextLines DEF AppendOk
<1>2. nextSeq' \in Nat \ {0} /\ lastHash' \in Hash /\ open' = FALSE
  BY NextEntryIsLine DEF AppendOk, Advance, LedgerTypeOK
<1> QED BY <1>1, <1>2 DEF LedgerTypeOK

LEMMA AppendTornTypes ==
  ASSUME LedgerTypeOK, NEW b \in Batches, AppendTorn(b)
  PROVE  LedgerTypeOK'
<1>1. /\ lines' \in Seq(Line) /\ lines' # << >>
      /\ \A i \in DOMAIN lines' : lines'[i].ok => lines'[i].batch \in Batches
  BY NextEntryIsLine, GarbageIsLine, AddTextLines DEF AppendTorn
<1> QED BY <1>1 DEF LedgerTypeOK, AppendTorn

LEMMA LoseSuffixTypes ==
  ASSUME LedgerTypeOK, LoseSuffix, nextSeq' = 1, lastHash' = Genesis
  PROVE  LedgerTypeOK'
<1>1. PICK n \in 0 .. Len(lines) :
        \/ lines' = SubSeq(lines, 1, n) /\ open' = (open /\ n = Len(lines))
        \/ n > 0 /\ lines' = SubSeq(lines, 1, n) /\ open' = TRUE
        \/ n > 0 /\ lines' = Append(SubSeq(lines, 1, n - 1), Garbage) /\ open' = TRUE
  BY DEF LoseSuffix
<1>2. lines \in Seq(Line) /\ Len(lines) \in Nat /\ open \in BOOLEAN
      /\ (open => lines # << >>)
      /\ \A i \in DOMAIN lines : lines[i].ok => lines[i].batch \in Batches
  BY DEF LedgerTypeOK
<1>3. /\ SubSeq(lines, 1, n) \in Seq(Line)
      /\ Len(SubSeq(lines, 1, n)) = n
      /\ \A i \in 1 .. n : SubSeq(lines, 1, n)[i] = lines[i]
  BY <1>2
<1>4. n > 0 => /\ SubSeq(lines, 1, n - 1) \in Seq(Line)
               /\ Len(SubSeq(lines, 1, n - 1)) = n - 1
               /\ \A i \in 1 .. n - 1 : SubSeq(lines, 1, n - 1)[i] = lines[i]
  BY <1>2
<1>5. /\ lines' \in Seq(Line)
      /\ \A i \in DOMAIN lines' : lines'[i].ok => lines'[i].batch \in Batches
      /\ open' \in BOOLEAN /\ (open' => lines' # << >>)
  <2>1. CASE lines' = SubSeq(lines, 1, n) /\ open' = (open /\ n = Len(lines))
    <3>1. lines' \in Seq(Line) /\ Len(lines') = n /\ DOMAIN lines' = 1 .. n
      BY <1>3, <2>1
    <3>2. \A i \in 1 .. n : lines'[i] = lines[i] /\ i \in DOMAIN lines
      BY <1>2, <1>3, <2>1
    <3>3. open' \in BOOLEAN
      BY <2>1
    <3>4. ASSUME open' PROVE lines' # << >>
      <4>1. open /\ n = Len(lines)
        BY <2>1, <3>4
      <4>2. Len(lines) # 0
        BY <4>1, <1>2
      <4> QED BY <4>1, <4>2, <3>1
    <3> QED BY <1>2, <3>1, <3>2, <3>3, <3>4
  <2>2. CASE n > 0 /\ lines' = SubSeq(lines, 1, n) /\ open' = TRUE
    BY <1>2, <1>3, <2>2
  <2>3. CASE n > 0 /\ lines' = Append(SubSeq(lines, 1, n - 1), Garbage) /\ open' = TRUE
    BY <1>2, <1>4, <2>3, GarbageIsLine
  <2> QED BY <1>1, <2>1, <2>2, <2>3
<1>6. Genesis \in Hash
  BY DEF Genesis, Hash
<1> QED BY <1>5, <1>6 DEF LedgerTypeOK

-----------------------------------------------------------------------------
(* Type correctness. *)

FaultKinds == {"kill", "io", "torn", "power", "misread"}

BudgetType == [kill : 0 .. Budget.kill, io : 0 .. Budget.io, torn : 0 .. Budget.torn,
               power : 0 .. Budget.power, misread : 0 .. Budget.misread,
               all : 0 .. Budget.all]

StagedType == {"notvalidated", "outputs"} \X Batches \X Nat

PendingTypeOK == /\ DOMAIN pending \subseteq Batches
                 /\ \A b \in DOMAIN pending : pending[b] \in [mtime : Nat, circuit : Circuits]

LEMMA InitTypes == Init => TypeOK
<1> SUFFICES ASSUME Init PROVE TypeOK
  OBVIOUS
<1>1. Genesis \in Hash /\ lines \in Seq(Line) /\ DOMAIN lines = {} /\ DOMAIN pending = {}
  BY DEF Init, LedgerInit, Genesis, Hash
<1>2. LedgerTypeOK
  <2>1. lines = << >> /\ nextSeq = 1 /\ lastHash = Genesis /\ open = FALSE
    BY DEF Init, LedgerInit
  <2>2. open \in BOOLEAN /\ (open => lines # << >>)
    BY <2>1
  <2>3. nextSeq \in Nat \ {0} /\ lastHash \in Hash /\ lines \in Seq(Line)
    BY <1>1, <2>1
  <2>4. \A i \in DOMAIN lines : lines[i].ok => lines[i].batch \in Batches
    BY <1>1
  <2> QED BY <2>2, <2>3, <2>4 DEF LedgerTypeOK
<1>3. DOMAIN durPending = {}
  BY DEF Init
<1>4. budget \in BudgetType
  <2>1. Budget \in [kill : Nat, io : Nat, torn : Nat, power : Nat, misread : Nat, all : Nat]
        /\ budget = Budget
    BY PipelineAssumption DEF Init
  <2> QED BY <2>1 DEF BudgetType
<1>5. credited \in Seq(Batches) /\ written = {} /\ undeleted = {} /\ unsynced = {}
  BY DEF Init
<1> QED BY <1>1, <1>2, <1>3, <1>4, <1>5
        DEF Init, TypeOK, WriterIdle, ValidatorIdle, BudgetType

(* A fault is one more of its kind. *)
LEMMA SpendTypes ==
  ASSUME budget \in BudgetType, NEW kind \in FaultKinds, Spend(kind)
  PROVE  /\ budget' \in BudgetType
         /\ Met(kind)' = Met(kind) + 1
         /\ \A k \in FaultKinds \ {kind} : Met(k)' = Met(k)
<1>0. Budget \in [kill : Nat, io : Nat, torn : Nat, power : Nat, misread : Nat, all : Nat]
  BY PipelineAssumption
<1>1. budget[kind] \in Nat /\ Budget[kind] \in Nat /\ kind # "all"
  <2>1. budget[kind] \in Nat /\ Budget[kind] \in Nat
    BY <1>0 DEF BudgetType, FaultKinds
  <2>2. kind # "all"
    BY DEF FaultKinds
  <2> QED BY <2>1, <2>2
<1>2. budget[kind] > 0 /\ budget.all > 0
  BY DEF Spend
<1>3. budget' \in BudgetType
  <2> DEFINE paid == [budget EXCEPT ![kind] = budget[kind] - 1]
  <2>1. paid \in BudgetType /\ paid.all = budget.all
    BY <1>0, <1>1, <1>2 DEF BudgetType, FaultKinds
  <2>2. budget' = [paid EXCEPT !.all = paid.all - 1]
    BY <1>1, <2>1 DEF Spend
  <2> HIDE DEF paid
  <2> QED BY <1>0, <1>2, <2>1, <2>2 DEF BudgetType
<1>4. budget'[kind] = budget[kind] - 1
  BY <1>0 DEF Spend, BudgetType, FaultKinds
<1>5. ASSUME NEW k \in FaultKinds \ {kind} PROVE budget'[k] = budget[k]
  <2>1. k # "all" /\ k # kind
    BY DEF FaultKinds
  <2>2. k \in DOMAIN budget
    BY DEF BudgetType, FaultKinds
  <2> QED BY <1>1, <2>1, <2>2 DEF Spend
<1> QED BY <1>1, <1>3, <1>4, <1>5 DEF Met

LEMMA MetTypes == ASSUME budget \in BudgetType PROVE \A k \in FaultKinds : Met(k) \in Nat
<1>1. Budget \in [kill : Nat, io : Nat, torn : Nat, power : Nat, misread : Nat, all : Nat]
  BY PipelineAssumption
<1> QED BY <1>1 DEF BudgetType, FaultKinds, Met

LEMMA StagedTypes ==
  ASSUME budget \in BudgetType, NEW d \in {"notvalidated", "outputs"}, NEW b \in Batches
  PROVE  Staged(d, b) \in StagedType
BY MetTypes DEF Staged, StagedType, FaultKinds

(* The source file goes away or, when unlink fails, stays. *)
LEMMA TryDeleteTypes ==
  ASSUME PendingTypeOK, budget \in BudgetType, TryDeleteSource
  PROVE  PendingTypeOK' /\ budget' \in BudgetType
<1>1. CASE DeleteSource /\ UNCHANGED budget
  BY <1>1 DEF DeleteSource, Without, PendingTypeOK
<1>2. CASE Spend("io") /\ UNCHANGED pending
  BY <1>2, SpendTypes DEF PendingTypeOK, FaultKinds
<1> QED BY <1>1, <1>2 DEF TryDeleteSource

(* The staged file of a failed write goes away or, when unlink fails, stays. *)
LEMMA DropStagedTypes ==
  ASSUME tmps \subseteq StagedType, undeleted \subseteq StagedType,
         NEW f \in StagedType, DropStaged(f)
  PROVE  tmps' \subseteq StagedType /\ undeleted' \subseteq StagedType
BY DEF DropStaged

LEMMA DeleteTypes ==
  ASSUME PendingTypeOK, DeleteSource PROVE PendingTypeOK'
BY DEF DeleteSource, Without, PendingTypeOK

ValidatorType == [pc : {"idle", "delete", "credit", "write", "staged", "renamed", "unlink"},
                  batch : Batches \cup {NoBatch}, seq : Nat, hash : Hash]

(* The parts of TypeOK. *)
LEMMA TypeParts ==
  TypeOK <=> /\ LedgerTypeOK /\ PendingTypeOK /\ budget \in BudgetType /\ va \in ValidatorType
             /\ DOMAIN durPending \subseteq Batches
             /\ \A b \in DOMAIN durPending : durPending[b] \in [mtime : Nat, circuit : Circuits]
             /\ outputs \subseteq [batch : Batches, copy : Nat, seq : Nat, hash : Hash]
             /\ durOutputs \subseteq outputs
             /\ tmps \subseteq StagedType /\ undeleted \subseteq StagedType
             /\ proc \in {"up", "down", "refused"} /\ circuit \in Circuits
             /\ wr \in [pc : {"idle", "staged", "renamed"}, batch : Batches \cup {NoBatch}]
             /\ wr.pc # "idle" => wr.batch \in Batches
             /\ va.pc # "idle" => va.batch \in DOMAIN pending
             /\ lastMtime \in Nat
             /\ written \subseteq Batches /\ credited \in Seq(Batches)
             /\ forfeited \subseteq Batches /\ safe \subseteq Batches
             /\ unsynced \subseteq Batches
BY DEF TypeOK, PendingTypeOK, BudgetType, ValidatorType, StagedType

(* The steps of the shot thread. *)
LEMMA ShotThreadTypes == TypeOK /\ ShotThread => TypeOK'
<1> SUFFICES ASSUME TypeOK, ShotThread PROVE TypeOK'
  OBVIOUS
<1> USE DEF ledgerVars, durVars, fileVars, histVars
<1>0. WriterIdle \in [pc : {"idle", "staged", "renamed"}, batch : Batches \cup {NoBatch}]
      /\ WriterIdle.pc = "idle"
  BY DEF WriterIdle
<1>a. budget \in BudgetType /\ tmps \subseteq StagedType /\ undeleted \subseteq StagedType
  BY TypeParts
<1>b. UNCHANGED ledgerVars => LedgerTypeOK'
  BY DEF TypeOK, LedgerTypeOK
<1>1. ASSUME NEW b \in Batches, StageBatch(b) PROVE TypeOK'
  <2>1. tmps' \subseteq StagedType
    BY <1>1, <1>a, StagedTypes DEF StageBatch
  <2>2. /\ wr' \in [pc : {"idle", "staged", "renamed"}, batch : Batches \cup {NoBatch}]
        /\ wr'.batch \in Batches /\ lastMtime' \in Nat
    BY <1>1 DEF StageBatch, TypeOK
  <2> QED BY <1>1, <1>b, <2>1, <2>2 DEF StageBatch, TypeOK, StagedType
<1>2. CASE RenameBatch
  <2>1. DOMAIN pending' = DOMAIN pending \cup {wr.batch} /\ wr.batch \in Batches
        /\ \A b \in DOMAIN pending' : pending'[b] \in [mtime : Nat, circuit : Circuits]
    BY <1>2 DEF RenameBatch, Put, TypeOK
  <2>2. /\ wr' \in [pc : {"idle", "staged", "renamed"}, batch : Batches \cup {NoBatch}]
        /\ wr'.batch \in Batches
    BY <1>2, <2>1 DEF RenameBatch, TypeOK
  <2> QED BY <1>2, <1>b, <2>1, <2>2 DEF RenameBatch, TypeOK
<1>3. CASE WriteFails
  <2>1. wr.batch \in Batches /\ budget' \in BudgetType
    BY <1>3, <1>a, SpendTypes DEF WriteFails, TypeOK, FaultKinds
  <2>2. tmps' \subseteq StagedType /\ undeleted' \subseteq StagedType
    BY <1>3, <1>a, <2>1, StagedTypes, DropStagedTypes DEF WriteFails
  <2> QED BY <1>0, <1>3, <1>b, <2>1, <2>2 DEF WriteFails, TypeOK, BudgetType, StagedType
<1>4. CASE SyncPending
  <2>1. budget' \in BudgetType
    BY <1>4, <1>a, SpendTypes DEF SyncPending, FaultKinds
  <2>2. /\ DOMAIN durPending' \subseteq Batches /\ safe' \subseteq Batches
        /\ \A b \in DOMAIN durPending' : durPending'[b] \in [mtime : Nat, circuit : Circuits]
    BY <1>4 DEF SyncPending, PendingDurable, TypeOK
  <2> QED BY <1>0, <1>4, <1>b, <2>1, <2>2 DEF SyncPending, TypeOK, BudgetType
<1> QED BY <1>1, <1>2, <1>3, <1>4 DEF ShotThread

(* The steps of the validator thread. *)
LEMMA ValidatorThreadTypes == TypeOK /\ ValidatorThread => TypeOK'
<1> SUFFICES ASSUME TypeOK, ValidatorThread PROVE TypeOK'
  OBVIOUS
<1> USE DEF ledgerVars, durVars, fileVars, histVars
<1>0. ValidatorIdle \in ValidatorType /\ ValidatorIdle.pc = "idle"
  BY DEF Genesis, Hash, ValidatorType, ValidatorIdle
<1>a. PendingTypeOK /\ budget \in BudgetType /\ LedgerTypeOK /\ va \in ValidatorType
  BY TypeParts
<1>b. UNCHANGED ledgerVars => LedgerTypeOK'
  BY DEF TypeOK, LedgerTypeOK
<1>c. tmps \subseteq StagedType /\ undeleted \subseteq StagedType
  BY TypeParts
<1>1. ASSUME NEW b \in Batches, Pick(b) PROVE TypeOK'
  <2>1. va' \in ValidatorType /\ va'.batch = b
    BY <1>0, <1>1 DEF Pick, ValidatorIdle, ValidatorType
  <2>2. budget' \in BudgetType
    BY <1>a, <1>1, SpendTypes DEF Pick, Listed, FaultKinds
  <2>3. forfeited' \subseteq Batches
    BY <1>1 DEF Pick, TypeOK
  <2> QED BY <1>1, <1>b, <2>1, <2>2, <2>3 DEF Pick, TypeOK, ValidatorType, BudgetType
<1>2. ASSUME NEW b \in Batches, PickUnreadable(b) PROVE TypeOK'
  <2>1. va' \in ValidatorType /\ va'.batch = b
    BY <1>0, <1>2 DEF PickUnreadable, ValidatorIdle, ValidatorType
  <2>2. budget' \in BudgetType
    BY <1>a, <1>2, SpendTypes DEF PickUnreadable, FaultKinds
  <2> QED BY <1>2, <1>b, <2>1, <2>2 DEF PickUnreadable, TypeOK, ValidatorType, BudgetType
<1>3. CASE Reject
  <2>1. PendingTypeOK' /\ budget' \in BudgetType
    BY <1>a, <1>3, TryDeleteTypes DEF Reject
  <2> QED BY <1>0, <1>3, <1>b, <2>1
          DEF Reject, TypeOK, PendingTypeOK, BudgetType, ValidatorType
<1>4. CASE Credit
  <2>1. va.batch \in Batches /\ va.batch \in DOMAIN pending
    BY <1>4 DEF Credit, TypeOK
  <2>2. LedgerTypeOK'
    BY <1>a, <1>4, <2>1, AppendOkTypes DEF Credit
  <2>3. HashOf(NextEntry(va.batch)) \in Hash /\ nextSeq \in Nat
    BY <1>a, <2>1, NextEntryIsLine DEF LedgerTypeOK
  <2>4. va' \in ValidatorType /\ va'.batch = va.batch
    BY <1>a, <1>4, <2>3 DEF Credit, ValidatorType
  <2>5. credited' \in Seq(Batches)
    BY <1>4, <2>1 DEF Credit, TypeOK
  <2> QED BY <1>4, <2>1, <2>2, <2>4, <2>5 DEF Credit, TypeOK, ValidatorType
<1>5. CASE CreditFails
  <2>1. va.batch \in Batches
    BY <1>5 DEF CreditFails, TypeOK
  <2>2. LedgerTypeOK' /\ budget' \in BudgetType
    <3>1. CASE Spend("io") /\ AppendNothing
      BY <1>a, <3>1, SpendTypes DEF AppendNothing, LedgerTypeOK, FaultKinds
    <3>2. CASE Spend("torn") /\ AppendTorn(va.batch)
      BY <1>a, <2>1, <3>2, SpendTypes, AppendTornTypes DEF FaultKinds
    <3> QED BY <1>5, <3>1, <3>2 DEF CreditFails
  <2> QED BY <1>0, <1>5, <2>2 DEF CreditFails, TypeOK, ValidatorType, BudgetType
<1>6. CASE StageOutput
  <2>1. va' \in ValidatorType /\ va'.batch = va.batch
    BY <1>a, <1>6 DEF StageOutput, ValidatorType
  <2>2. va.batch \in Batches
    BY <1>6 DEF StageOutput, TypeOK
  <2>3. tmps' \subseteq StagedType
    BY <1>6, <1>a, <1>c, <2>2, StagedTypes DEF StageOutput
  <2> QED BY <1>6, <1>b, <2>1, <2>3 DEF StageOutput, TypeOK, StagedType, ValidatorType
<1>7. CASE OutputFails
  <2>0. va.batch \in Batches
    BY <1>7 DEF OutputFails, TypeOK
  <2>1. PendingTypeOK' /\ budget' \in BudgetType /\ forfeited' \subseteq Batches
    <3>1. budget' \in BudgetType
      BY <1>a, <1>7, SpendTypes DEF OutputFails, FaultKinds
    <3>2. CASE DeleteSource /\ forfeited' = forfeited \cup {va.batch}
      BY <1>a, <2>0, <3>1, <3>2, DeleteTypes DEF TypeOK
    <3>3. CASE UNCHANGED <<pending, forfeited>>
      BY <1>a, <3>1, <3>3 DEF PendingTypeOK, TypeOK
    <3> QED BY <1>7, <3>2, <3>3 DEF OutputFails
  <2>2. tmps' \subseteq StagedType /\ undeleted' \subseteq StagedType
    BY <1>7, <1>a, <1>c, <2>0, StagedTypes, DropStagedTypes DEF OutputFails
  <2> QED BY <1>0, <1>7, <1>b, <2>1, <2>2
          DEF OutputFails, TypeOK, PendingTypeOK, BudgetType, StagedType, ValidatorType
<1>8. CASE RenameOutput
  <2>1. va' \in ValidatorType /\ va'.batch = va.batch
    BY <1>a, <1>8 DEF RenameOutput, ValidatorType
  <2>2. PICK n \in 1 .. Cardinality(outputs) + 1 : outputs' = outputs \cup {Proof(n)}
    BY <1>8 DEF RenameOutput
  <2>3. Proof(n) \in [batch : Batches, copy : Nat, seq : Nat, hash : Hash]
    BY <1>a, <1>8 DEF Proof, RenameOutput, TypeOK, ValidatorType
  <2> QED BY <1>8, <1>b, <2>1, <2>2, <2>3 DEF RenameOutput, TypeOK, ValidatorType
<1>9. CASE SyncOutputs
  <2>1. va' \in ValidatorType /\ va'.batch = va.batch
    BY <1>a, <1>9 DEF SyncOutputs, ValidatorType
  <2>2. va.batch \in Batches
    BY <1>9 DEF SyncOutputs, TypeOK
  <2>3. budget' \in BudgetType
    BY <1>9, <1>a, SpendTypes DEF SyncOutputs, FaultKinds
  <2>4. durOutputs' \subseteq outputs /\ unsynced' \subseteq Batches
    BY <1>9, <2>2 DEF SyncOutputs, OutputsDurable, TypeOK
  <2> QED BY <1>9, <1>b, <2>1, <2>3, <2>4 DEF SyncOutputs, TypeOK, BudgetType, ValidatorType
<1>10. CASE UnlinkSource
  <2>1. PendingTypeOK' /\ budget' \in BudgetType
    BY <1>a, <1>10, TryDeleteTypes DEF UnlinkSource
  <2> QED BY <1>0, <1>10, <1>b, <2>1
          DEF UnlinkSource, TypeOK, PendingTypeOK, BudgetType, ValidatorType
<1> QED BY <1>1, <1>2, <1>3, <1>4, <1>5, <1>6, <1>7, <1>8, <1>9, <1>10 DEF ValidatorThread

(* Kills, power failures and starts. *)
LEMMA ProcessTypes == TypeOK /\ (Kill \/ PowerLoss \/ Start \/ StartRefused) => TypeOK'
<1> SUFFICES ASSUME TypeOK, Kill \/ PowerLoss \/ Start \/ StartRefused PROVE TypeOK'
  OBVIOUS
<1> USE DEF ledgerVars, durVars, fileVars, histVars, threadVars
<1>0. /\ ValidatorIdle \in ValidatorType /\ ValidatorIdle.pc = "idle"
      /\ WriterIdle \in [pc : {"idle", "staged", "renamed"}, batch : Batches \cup {NoBatch}]
      /\ WriterIdle.pc = "idle" /\ Genesis \in Hash
  BY DEF Genesis, Hash, ValidatorType, ValidatorIdle, WriterIdle
<1>a. PendingTypeOK /\ budget \in BudgetType /\ LedgerTypeOK /\ va \in ValidatorType
  BY TypeParts
<1>b. UNCHANGED ledgerVars => LedgerTypeOK'
  BY DEF TypeOK, LedgerTypeOK
<1>1. CASE Kill
  <2>1. budget' \in BudgetType
    BY <1>a, <1>1, SpendTypes DEF Kill, FaultKinds
  <2>2. LedgerTypeOK'
    BY <1>0, <1>1, <1>a DEF Kill, StopProcess, LedgerTypeOK
  <2> QED BY <1>0, <1>1, <2>1, <2>2 DEF Kill, StopProcess, TypeOK, BudgetType, ValidatorType
<1>2. CASE PowerLoss
  <2>1. budget' \in BudgetType
    BY <1>a, <1>2, SpendTypes DEF PowerLoss, FaultKinds
  <2>2. LedgerTypeOK'
    BY <1>a, <1>2, LoseSuffixTypes DEF PowerLoss, StopProcess
  <2>3. PendingTypeOK'
    <3>1. PICK gone \in SUBSET (DOMAIN pending \ DOMAIN durPending),
               back \in SUBSET (DOMAIN durPending \ DOMAIN pending) :
            pending' = [b \in (DOMAIN pending \ gone) \cup back |->
                          IF b \in back THEN durPending[b] ELSE pending[b]]
      BY <1>2 DEF PowerLoss
    <3> QED BY <3>1 DEF PendingTypeOK, TypeOK
  <2>4. outputs' \subseteq outputs
    BY <1>2 DEF PowerLoss
  <2>5. durPending' = pending' /\ durOutputs' = outputs'
    BY <1>2 DEF PowerLoss
  <2>6. forfeited' \subseteq Batches /\ unsynced' \subseteq Batches
    BY <1>2 DEF PowerLoss, TypeOK
  <2> QED BY <1>0, <1>2, <2>1, <2>2, <2>3, <2>4, <2>5, <2>6
          DEF PowerLoss, StopProcess, TypeOK, PendingTypeOK, BudgetType, ValidatorType
<1>3. CASE Start
  <2>1. PICK n \in 0 .. Len(lines) :
          /\ Loads(n) /\ LoadTail(n)
          /\ \/ SweepTmps
             \/ SweepFails /\ (Spend("io") \/ Spend("misread"))
    BY <1>3 DEF Start
  <2>2. nextSeq' \in Nat \ {0} /\ lastHash' \in Hash
    <3>1. CASE n = 0
      BY <1>0, <2>1, <3>1 DEF LoadTail, SeqAfter, HashAfter
    <3>2. CASE n # 0
      <4>1. n \in DOMAIN lines /\ lines[n] \in Line /\ lines[n].ok
        BY <1>a, <2>1, <3>2 DEF LedgerTypeOK, Loads
      <4>2. lines[n].batch \in Batches
        BY <1>a, <4>1 DEF LedgerTypeOK
      <4>3. HashOf(lines[n]) \in Hash /\ lines[n].seq \in Nat
        BY <4>1, <4>2, LineHash DEF Line
      <4> QED BY <2>1, <3>2, <4>3 DEF LoadTail, SeqAfter, HashAfter
    <3> QED BY <3>1, <3>2
  <2>3. LedgerTypeOK'
    BY <1>3, <1>a, <2>2 DEF Start, LedgerTypeOK
  <2>4. budget' \in BudgetType
    BY <1>a, <2>1, SpendTypes DEF SweepTmps, FaultKinds
  <2>5. tmps' \subseteq StagedType /\ undeleted' \subseteq StagedType
    <3>1. tmps \subseteq StagedType
      BY TypeParts
    <3> QED BY <2>1, <3>1 DEF SweepTmps, SweepFails
  <2> QED BY <1>3, <2>3, <2>4, <2>5 DEF Start, TypeOK, StagedType, BudgetType
<1>4. CASE StartRefused
  BY <1>4, <1>b DEF StartRefused, TypeOK
<1> QED BY <1>1, <1>2, <1>3, <1>4

LEMMA StutterTypes == TypeOK /\ UNCHANGED vars => TypeOK'
BY DEF TypeOK, LedgerTypeOK, vars, ledgerVars, pipeVars, fileVars, durVars, threadVars, histVars

(* Whatever is killed, torn or cut off, the files, the threads and the      *)
(* ledger tail keep the types the code gives them; a batch in the hands of  *)
(* the validator is in notvalidated/ until the validator deletes it.        *)
THEOREM TypeCorrect == Spec => []TypeOK
<1>1. Init => TypeOK
  BY InitTypes
<1>2. TypeOK /\ [Next]_vars => TypeOK'
  BY ShotThreadTypes, ValidatorThreadTypes, ProcessTypes, StutterTypes DEF Next
<1> QED BY <1>1, <1>2, PTL DEF Spec

-----------------------------------------------------------------------------
(* No useful batch is lost.  NoUsefulLost is not inductive: a power failure *)
(* takes the files back to what the directory syncs covered, so the same    *)
(* must hold of that part, where an output whose sync failed does not       *)
(* count; and the two deletions of a source rest on what the validator did  *)
(* before them.                                                             *)

DurHasOutput(b) == \E o \in durOutputs : o.batch = b

LossInv ==
  /\ \A b \in safe \cap Useful :
       b \in DOMAIN durPending \/ DurHasOutput(b) \/ b \in forfeited \/ b \in unsynced
  /\ \A b \in safe \cap Useful :
       b \in DOMAIN pending \/ DurHasOutput(b) \/ b \in forfeited \/ b \in unsynced
  /\ \A b \in unsynced : HasOutput(b)
  /\ va.pc = "unlink" => DurHasOutput(va.batch) \/ va.batch \in unsynced
  /\ va.pc = "renamed" => HasOutput(va.batch)
  /\ va.pc = "delete" => va.batch \notin Useful \/ va.batch \in forfeited

LEMMA LossInvSuffices == TypeOK /\ LossInv => NoUsefulLost
BY DEF TypeOK, LossInv, NoUsefulLost, DurHasOutput, HasOutput

LEMMA LossInvInit == Init => LossInv
BY DEF Init, LossInv, ValidatorIdle

LEMMA LossInvShotThread == TypeOK /\ LossInv /\ ShotThread => LossInv'
<1> SUFFICES ASSUME TypeOK, LossInv, ShotThread PROVE LossInv'
  OBVIOUS
<1> USE DEF LossInv, DurHasOutput, HasOutput, durVars, histVars
<1>1. ASSUME NEW b \in Batches, StageBatch(b) PROVE LossInv'
  BY <1>1 DEF StageBatch
<1>2. CASE RenameBatch
  <2>1. DOMAIN pending \subseteq DOMAIN pending'
    BY <1>2 DEF RenameBatch, Put
  <2> QED BY <1>2, <2>1 DEF RenameBatch
<1>3. CASE WriteFails
  BY <1>3 DEF WriteFails
<1>4. CASE SyncPending
  BY <1>4 DEF SyncPending, PendingDurable
<1> QED BY <1>1, <1>2, <1>3, <1>4 DEF ShotThread

LEMMA LossInvValidatorThread == TypeOK /\ LossInv /\ ValidatorThread => LossInv'
<1> SUFFICES ASSUME TypeOK, LossInv, ValidatorThread PROVE LossInv'
  OBVIOUS
<1> USE DEF LossInv, DurHasOutput, HasOutput, durVars, histVars, fileVars
<1>0. va \in ValidatorType /\ ValidatorIdle.pc = "idle"
  BY DEF TypeOK, ValidatorType, ValidatorIdle
<1>1. ASSUME NEW b \in Batches, Pick(b) PROVE LossInv'
  <2>1. va'.batch = b /\ va'.pc = IF Passes(b) THEN "credit" ELSE "delete"
    BY <1>1 DEF Pick, ValidatorIdle
  <2> QED BY <1>1, <2>1 DEF Pick, Passes
<1>2. ASSUME NEW b \in Batches, PickUnreadable(b) PROVE LossInv'
  <2>1. va'.batch = b /\ va'.pc = "delete"
    BY <1>2 DEF PickUnreadable, ValidatorIdle
  <2> QED BY <1>2, <2>1 DEF PickUnreadable
<1>3. CASE Reject
  <2>1. DOMAIN pending \ {va.batch} \subseteq DOMAIN pending'
    BY <1>3 DEF Reject, TryDeleteSource, DeleteSource, Without
  <2> QED BY <1>0, <1>3, <2>1 DEF Reject
<1>4. CASE Credit
  <2>1. va'.pc = "write"
    BY <1>0, <1>4 DEF Credit, ValidatorType
  <2> QED BY <1>4, <2>1 DEF Credit
<1>5. CASE CreditFails
  BY <1>0, <1>5 DEF CreditFails
<1>6. CASE StageOutput
  <2>1. va'.pc = "staged"
    BY <1>0, <1>6 DEF StageOutput, ValidatorType
  <2> QED BY <1>6, <2>1 DEF StageOutput
<1>7. CASE OutputFails
  <2>1. \/ DOMAIN pending \ {va.batch} \subseteq DOMAIN pending'
           /\ forfeited' = forfeited \cup {va.batch}
        \/ UNCHANGED <<pending, forfeited>>
    BY <1>7 DEF OutputFails, DeleteSource, Without
  <2>2. UNCHANGED <<outputs, safe, unsynced, durPending, durOutputs>> /\ va'.pc = "idle"
    BY <1>0, <1>7 DEF OutputFails
  <2> QED BY <2>1, <2>2
<1>8. CASE RenameOutput
  <2>1. va'.pc = "renamed" /\ va'.batch = va.batch
    BY <1>0, <1>8 DEF RenameOutput, ValidatorType
  <2>2. PICK n \in 1 .. Cardinality(outputs) + 1 : outputs' = outputs \cup {Proof(n)}
    BY <1>8 DEF RenameOutput
  <2>3. Proof(n).batch = va.batch
    BY DEF Proof
  <2> QED BY <1>8, <2>1, <2>2, <2>3 DEF RenameOutput
<1>9. CASE SyncOutputs
  <2>1. va'.pc = "unlink" /\ va'.batch = va.batch /\ HasOutput(va.batch)
    BY <1>0, <1>9 DEF SyncOutputs, ValidatorType
  <2>2. UNCHANGED <<pending, outputs, durPending, safe, forfeited>>
    BY <1>9 DEF SyncOutputs
  <2>3. CASE OutputsDurable
    <3>1. \A b \in unsynced : b \in {o.batch : o \in outputs}
      OBVIOUS
    <3>2. unsynced' = {} /\ durOutputs' = outputs /\ durOutputs \subseteq outputs
      BY <2>3, <3>1 DEF OutputsDurable, TypeOK
    <3> QED BY <2>1, <2>2, <3>2
  <2>4. CASE unsynced' = unsynced \cup {va.batch} /\ UNCHANGED durOutputs
    BY <2>1, <2>2, <2>4
  <2> QED BY <1>9, <2>3, <2>4 DEF SyncOutputs
<1>10. CASE UnlinkSource
  <2>1. DOMAIN pending \ {va.batch} \subseteq DOMAIN pending'
    BY <1>10 DEF UnlinkSource, TryDeleteSource, DeleteSource, Without
  <2> QED BY <1>0, <1>10, <2>1 DEF UnlinkSource
<1> QED BY <1>1, <1>2, <1>3, <1>4, <1>5, <1>6, <1>7, <1>8, <1>9, <1>10 DEF ValidatorThread

LEMMA LossInvProcess ==
  TypeOK /\ LossInv /\ (Kill \/ PowerLoss \/ Start \/ StartRefused) => LossInv'
<1> SUFFICES ASSUME TypeOK, LossInv, Kill \/ PowerLoss \/ Start \/ StartRefused PROVE LossInv'
  OBVIOUS
<1> USE DEF LossInv, DurHasOutput, HasOutput, durVars, histVars, fileVars, threadVars
<1>0. ValidatorIdle.pc = "idle"
  BY DEF ValidatorIdle
<1>1. CASE Kill
  BY <1>0, <1>1 DEF Kill, StopProcess
<1>2. CASE PowerLoss
  <2>1. PICK gone \in SUBSET (outputs \ durOutputs) : outputs' = outputs \ gone
    BY <1>2 DEF PowerLoss
  <2>2. durOutputs \subseteq durOutputs'
    BY <1>2, <2>1 DEF PowerLoss, TypeOK
  <2>3. \A b \in DOMAIN pending \cap DOMAIN durPending : b \in DOMAIN pending'
    BY <1>2 DEF PowerLoss
  <2>4. /\ durPending' = pending' /\ durOutputs' = outputs' /\ safe' = safe
        /\ forfeited' = forfeited \cup unsynced /\ unsynced' = {}
    BY <1>2 DEF PowerLoss
  <2>5. ASSUME NEW b \in safe \cap Useful
        PROVE  b \in DOMAIN pending' \/ DurHasOutput(b)' \/ b \in forfeited'
    BY <2>2, <2>3, <2>4
  <2> QED BY <1>0, <1>2, <2>4, <2>5 DEF PowerLoss, StopProcess
<1>3. CASE Start
  BY <1>3 DEF Start
<1>4. CASE StartRefused
  BY <1>4 DEF StartRefused
<1> QED BY <1>1, <1>2, <1>3, <1>4

(* A useful batch whose directory entry reached the disk is pending or      *)
(* promoted, whatever kills, power failures and I/O errors come between the *)
(* steps of validate_file, unless it was given up: for another circuit, for *)
(* a read or write that failed, or in a power failure after the sync of its *)
(* output had failed.                                                       *)
THEOREM UsefulNeverLost == Spec => []NoUsefulLost
<1>1. Init => LossInv
  BY LossInvInit
<1>2. TypeOK /\ LossInv /\ [Next]_vars => LossInv'
  <2>1. TypeOK /\ LossInv /\ UNCHANGED vars => LossInv'
    BY DEF LossInv, DurHasOutput, HasOutput, vars, pipeVars, fileVars, durVars, threadVars,
           histVars
  <2> QED BY <2>1, LossInvShotThread, LossInvValidatorThread, LossInvProcess DEF Next
<1> QED BY <1>1, <1>2, TypeCorrect, LossInvSuffices, PTL DEF Spec

-----------------------------------------------------------------------------
(* Faults only add up. *)

LEMMA NoPowerSpent ==
  ASSUME Next, ~ PowerLoss
  PROVE  UNCHANGED budget \/ \E k \in FaultKinds \ {"power"} : Spend(k)
<1> USE DEF FaultKinds
<1>1. CASE ShotThread
  BY <1>1 DEF ShotThread, StageBatch, RenameBatch, WriteFails, SyncPending
<1>2. CASE ValidatorThread
  <2>1. CASE \E b \in Batches : Pick(b) \/ PickUnreadable(b)
    BY <2>1 DEF Pick, Listed, PickUnreadable
  <2>2. CASE Reject \/ UnlinkSource
    BY <2>2 DEF Reject, UnlinkSource, TryDeleteSource
  <2>3. CASE Credit \/ CreditFails \/ StageOutput \/ OutputFails \/ RenameOutput \/ SyncOutputs
    BY <2>3 DEF Credit, CreditFails, StageOutput, OutputFails, RenameOutput, SyncOutputs
  <2> QED BY <1>2, <2>1, <2>2, <2>3 DEF ValidatorThread
<1>3. CASE Kill
  BY <1>3 DEF Kill
<1>4. CASE Start \/ StartRefused
  BY <1>4 DEF Start, SweepTmps, StartRefused
<1> QED BY <1>1, <1>2, <1>3, <1>4 DEF Next

LEMMA StepMeetsAtMostOneFault ==
  [Next]_vars => UNCHANGED budget \/ \E k \in FaultKinds : Spend(k)
<1>1. UNCHANGED vars => UNCHANGED budget
  BY DEF vars, pipeVars
<1>2. PowerLoss => Spend("power") /\ "power" \in FaultKinds
  BY DEF PowerLoss, FaultKinds
<1> QED BY <1>1, <1>2, NoPowerSpent

LEMMA FaultsAddUp ==
  TypeOK /\ [Next]_vars => \A k \in FaultKinds : Met(k) \in Nat /\ Met(k)' \in Nat
                                                 /\ Met(k) <= Met(k)'
<1> SUFFICES ASSUME TypeOK, [Next]_vars, NEW k \in FaultKinds
             PROVE  Met(k) \in Nat /\ Met(k)' \in Nat /\ Met(k) <= Met(k)'
  OBVIOUS
<1>1. budget \in BudgetType /\ Met(k) \in Nat
  BY TypeParts, MetTypes
<1>2. CASE UNCHANGED budget
  <2>1. Met(k)' = Met(k)
    BY <1>2 DEF Met
  <2> QED BY <1>1, <2>1
<1>3. ASSUME NEW f \in FaultKinds, Spend(f) PROVE Met(k)' \in {Met(k), Met(k) + 1}
  BY <1>1, <1>3, SpendTypes
<1>4. CASE \E f \in FaultKinds : Spend(f)
  <2>1. Met(k)' \in {Met(k), Met(k) + 1}
    BY <1>3, <1>4
  <2> QED BY <1>1, <2>1
<1> QED BY <1>2, <1>4, StepMeetsAtMostOneFault

-----------------------------------------------------------------------------
(* The chain is broken only by starts that did not read the whole file.     *)
(* The invariant adds that a tail in memory that does not fit the file has  *)
(* one such start left to account for the break its next entry makes.       *)

Fits == Loads(Len(lines)) /\ ~ open =>
          nextSeq = SeqAfter(Len(lines)) /\ lastHash = HashAfter(Len(lines))

ChainInv == /\ Cardinality(ChainBreaks) <= Met("misread")
            /\ proc = "up" /\ ~ Fits => Cardinality(ChainBreaks) + 1 <= Met("misread")

LEMMA BreaksFinite ==
  ASSUME LedgerTypeOK PROVE IsFiniteSet(ChainBreaks) /\ Cardinality(ChainBreaks) \in Nat
<1>1. Len(lines) \in Nat /\ DOMAIN lines = 1 .. Len(lines)
  BY DEF LedgerTypeOK
<1>2. IsFiniteSet(1 .. Len(lines))
  BY <1>1, FS_Interval
<1>3. ChainBreaks \subseteq 1 .. Len(lines)
  BY <1>1 DEF ChainBreaks
<1> QED BY <1>2, <1>3, FS_Subset, FS_CardinalityType

LEMMA FewerBreaks ==
  ASSUME LedgerTypeOK, ChainBreaks' \subseteq ChainBreaks
  PROVE  Cardinality(ChainBreaks)' <= Cardinality(ChainBreaks)
         /\ Cardinality(ChainBreaks)' \in Nat
<1>1. Cardinality(ChainBreaks') <= Cardinality(ChainBreaks) /\ Cardinality(ChainBreaks') \in Nat
  BY BreaksFinite, FS_Subset, FS_CardinalityType
<1> QED BY <1>1

LEMMA OneMoreBreak ==
  ASSUME LedgerTypeOK, NEW n \in Nat, ChainBreaks' \subseteq ChainBreaks \cup {n}
  PROVE  Cardinality(ChainBreaks)' <= Cardinality(ChainBreaks) + 1
         /\ Cardinality(ChainBreaks)' \in Nat
<1>1. PICK c : c = Cardinality(ChainBreaks)
  OBVIOUS
<1>2. c \in Nat /\ IsFiniteSet(ChainBreaks)
  BY <1>1, BreaksFinite
<1>3. IsFiniteSet(ChainBreaks \cup {n}) /\ Cardinality(ChainBreaks \cup {n}) \in {c, c + 1}
  BY <1>1, <1>2, FS_AddElement
<1>4. Cardinality(ChainBreaks') <= Cardinality(ChainBreaks \cup {n})
      /\ Cardinality(ChainBreaks') \in Nat
  BY <1>3, FS_Subset, FS_CardinalityType
<1>5. Cardinality(ChainBreaks') <= c + 1
  BY <1>2, <1>3, <1>4
<1> QED BY <1>1, <1>4, <1>5

(* What is before a line decides whether the line continues it. *)
LEMMA SamePrefixSameBreaks ==
  ASSUME lines \in Seq(Line), lines' \in Seq(Line), NEW k \in Nat,
         \A i \in DOMAIN lines' : i <= k => i \in DOMAIN lines /\ lines'[i] = lines[i],
         NEW i \in ChainBreaks', i <= k
  PROVE  i \in ChainBreaks
<1>1. i \in DOMAIN lines' /\ i \in Nat \ {0} /\ DOMAIN lines' = 1 .. Len(lines')
      /\ \A j \in 1 .. i : j \in DOMAIN lines'
  <2>1. i \in DOMAIN lines'
    BY DEF ChainBreaks
  <2> QED BY <2>1
<1>2. \A j \in 1 .. i : j \in DOMAIN lines /\ lines'[j] = lines[j]
  BY <1>1
<1>3. i \in 1 .. i /\ (i - 1 # 0 => i - 1 \in 1 .. i)
  BY <1>1
<1>4. Loads(i) /\ i \in DOMAIN lines
  BY <1>2, <1>3 DEF ChainBreaks, Loads
<1>5. Continues(i) <=> Continues(i)'
  BY <1>2, <1>3 DEF Continues, SeqAfter, HashAfter
<1> QED BY <1>4, <1>5 DEF ChainBreaks

(* A file that is a part of the old one, damaged from some line on, has no  *)
(* new break.                                                               *)
LEMMA DamagedPrefixBreaks ==
  ASSUME lines \in Seq(Line), lines' \in Seq(Line), NEW k \in Nat,
         \A i \in DOMAIN lines' : i <= k => i \in DOMAIN lines /\ lines'[i] = lines[i],
         \A i \in DOMAIN lines' : i > k => ~ lines'[i].ok
  PROVE  ChainBreaks' \subseteq ChainBreaks
<1> SUFFICES ASSUME NEW i \in ChainBreaks' PROVE i \in ChainBreaks
  OBVIOUS
<1>1. i \in DOMAIN lines' /\ i \in Nat \ {0}
  <2>1. i \in DOMAIN lines'
    BY DEF ChainBreaks
  <2> QED BY <2>1
<1>2. i \in 1 .. i
  BY <1>1
<1>3. lines'[i].ok
  BY <1>2 DEF ChainBreaks, Loads
<1>4. i <= k
  BY <1>1, <1>3
<1> QED BY <1>4, SamePrefixSameBreaks

(* Text added to a file that ends in a newline. *)
LEMMA AddEntryToClosed ==
  ASSUME LedgerTypeOK, ~ open, NEW e \in Line, lines' = AddText(e)
  PROVE  /\ lines' = Append(lines, e) /\ lines' \in Seq(Line)
         /\ Len(lines') = Len(lines) + 1
         /\ DOMAIN lines = 1 .. Len(lines) /\ DOMAIN lines' = 1 .. Len(lines) + 1
         /\ \A i \in DOMAIN lines : lines'[i] = lines[i]
         /\ lines'[Len(lines) + 1] = e
<1>1. lines \in Seq(Line) /\ lines' = Append(lines, e)
  BY DEF LedgerTypeOK, AddText
<1> QED BY <1>1

(* Text added to an open line damages it. *)
LEMMA AddToOpenLine ==
  ASSUME LedgerTypeOK, open, NEW e \in Line, lines' = AddText(e)
  PROVE  ChainBreaks' \subseteq ChainBreaks /\ ~ Loads(Len(lines))'
<1>1. lines \in Seq(Line) /\ lines # << >> /\ lines' = [lines EXCEPT ![Len(lines)] = Garbage]
  BY DEF LedgerTypeOK, AddText
<1>2. PICK n : n = Len(lines)
  OBVIOUS
<1>3. /\ lines' \in Seq(Line) /\ Len(lines') = n /\ n \in Nat \ {0} /\ n \in DOMAIN lines'
      /\ DOMAIN lines' = 1 .. n /\ DOMAIN lines = 1 .. n
      /\ \A i \in DOMAIN lines' : i <= n - 1 => i \in DOMAIN lines /\ lines'[i] = lines[i]
      /\ lines'[n] = Garbage
  BY <1>1, <1>2, GarbageIsLine
<1>4. n - 1 \in Nat /\ \A i \in DOMAIN lines' : i > n - 1 => ~ lines'[i].ok
  BY <1>3, GarbageIsLine
<1>5. ChainBreaks' \subseteq ChainBreaks
  BY <1>1, <1>3, <1>4, DamagedPrefixBreaks
<1>6. n \in 1 .. Len(lines') /\ ~ lines'[n].ok
  BY <1>3, GarbageIsLine
<1> QED BY <1>5, <1>6 DEF Loads

LEMMA GarbageAppended ==
  ASSUME LedgerTypeOK, ~ open, lines' = AddText(Garbage)
  PROVE  ChainBreaks' \subseteq ChainBreaks
<1>1. lines \in Seq(Line) /\ Len(lines) \in Nat
  BY DEF LedgerTypeOK
<1>2. /\ lines' \in Seq(Line) /\ DOMAIN lines = 1 .. Len(lines)
      /\ DOMAIN lines' = 1 .. Len(lines) + 1
      /\ \A i \in DOMAIN lines : lines'[i] = lines[i]
      /\ lines'[Len(lines) + 1] = Garbage
  BY GarbageIsLine, AddEntryToClosed
<1> QED BY <1>1, <1>2, GarbageIsLine, DamagedPrefixBreaks

(* The next entry breaks the chain only if the tail does not fit the file.  *)
LEMMA NextEntryBreaks ==
  ASSUME LedgerTypeOK, ~ open, NEW b \in Batches, lines' = AddText(NextEntry(b))
  PROVE  /\ ChainBreaks' \subseteq ChainBreaks \cup {Len(lines) + 1}
         /\ Fits => ChainBreaks' \subseteq ChainBreaks
<1>1. /\ lines \in Seq(Line) /\ Len(lines) \in Nat /\ NextEntry(b) \in Line
      /\ NextEntry(b).seq = nextSeq /\ NextEntry(b).prev = lastHash
  BY NextEntryIsLine DEF LedgerTypeOK, NextEntry, Entry
<1>2. PICK n : n = Len(lines)
  OBVIOUS
<1>3. /\ lines' \in Seq(Line) /\ n \in Nat
      /\ DOMAIN lines = 1 .. n /\ DOMAIN lines' = 1 .. n + 1
      /\ \A i \in DOMAIN lines : lines'[i] = lines[i]
      /\ lines'[n + 1] = NextEntry(b)
  BY <1>1, <1>2, AddEntryToClosed
<1>4. ASSUME NEW i \in ChainBreaks' PROVE i \in ChainBreaks \cup {n + 1}
  <2>1. i \in 1 .. n + 1
    BY <1>3 DEF ChainBreaks
  <2>2. CASE i <= n
    BY <1>1, <1>3, <1>4, <2>2, SamePrefixSameBreaks
  <2> QED BY <1>3, <2>1, <2>2
<1>5. ASSUME Fits, n + 1 \in ChainBreaks' PROVE FALSE
  <2>1. Loads(n + 1)' /\ ~ Continues(n + 1)'
    BY <1>5 DEF ChainBreaks
  <2>2. \A i \in 1 .. n : i \in 1 .. n + 1
    BY <1>3
  <2>3. Loads(n)
    BY <1>3, <2>1, <2>2 DEF Loads
  <2>4. nextSeq = SeqAfter(n) /\ lastHash = HashAfter(n)
    BY <1>2, <1>5, <2>3 DEF Fits
  <2>5. n + 1 - 1 = n /\ (n # 0 => n \in DOMAIN lines)
    BY <1>3
  <2>6. SeqAfter(n)' = SeqAfter(n) /\ HashAfter(n)' = HashAfter(n)
    BY <1>3, <2>5 DEF SeqAfter, HashAfter
  <2>7. Continues(n + 1)'
    BY <1>1, <1>3, <2>4, <2>5, <2>6 DEF Continues
  <2> QED BY <2>1, <2>7
<1> QED BY <1>2, <1>4, <1>5

LEMMA LostSuffixBreaks ==
  ASSUME LedgerTypeOK, LoseSuffix PROVE ChainBreaks' \subseteq ChainBreaks
<1>1. PICK n \in 0 .. Len(lines) :
        \/ lines' = SubSeq(lines, 1, n)
        \/ n > 0 /\ lines' = Append(SubSeq(lines, 1, n - 1), Garbage)
  BY DEF LoseSuffix
<1>2. lines \in Seq(Line) /\ Len(lines) \in Nat /\ n \in Nat
  BY DEF LedgerTypeOK
<1>3. CASE lines' = SubSeq(lines, 1, n)
  <2>1. /\ lines' \in Seq(Line) /\ DOMAIN lines' = 1 .. n
        /\ \A i \in 1 .. n : i \in DOMAIN lines /\ lines'[i] = lines[i]
    BY <1>2, <1>3
  <2> QED BY <1>2, <2>1, DamagedPrefixBreaks
<1>4. CASE n > 0 /\ lines' = Append(SubSeq(lines, 1, n - 1), Garbage)
  <2>1. /\ SubSeq(lines, 1, n - 1) \in Seq(Line)
        /\ Len(SubSeq(lines, 1, n - 1)) = n - 1
        /\ \A i \in 1 .. n - 1 : SubSeq(lines, 1, n - 1)[i] = lines[i]
    BY <1>2, <1>4
  <2>2. /\ lines' \in Seq(Line) /\ DOMAIN lines' = 1 .. n /\ lines'[n] = Garbage
        /\ \A i \in 1 .. n - 1 : i \in DOMAIN lines /\ lines'[i] = lines[i]
    BY <1>2, <1>4, <2>1, GarbageIsLine
  <2>3. n - 1 \in Nat /\ \A i \in DOMAIN lines' : i > n - 1 => ~ lines'[i].ok
    BY <1>2, <1>4, <2>2, GarbageIsLine
  <2>4. \A i \in DOMAIN lines' : i <= n - 1 => i \in DOMAIN lines /\ lines'[i] = lines[i]
    BY <1>2, <2>2
  <2> QED BY <1>2, <2>2, <2>3, <2>4, DamagedPrefixBreaks
<1> QED BY <1>1, <1>3, <1>4

LEMMA ChainInvInit == Init => ChainInv
<1> SUFFICES ASSUME Init PROVE ChainInv
  OBVIOUS
<1>1. lines = << >> /\ nextSeq = 1 /\ lastHash = Genesis /\ budget = Budget
  BY DEF Init, LedgerInit
<1>2. Len(lines) = 0 /\ DOMAIN lines = {}
  BY <1>1
<1>3. ChainBreaks = {}
  BY <1>2 DEF ChainBreaks
<1>4. Cardinality(ChainBreaks) = 0
  BY <1>3, FS_EmptySet
<1>5. Met("misread") = 0
  BY <1>1, PipelineAssumption DEF Met
<1>6. Fits
  BY <1>1, <1>2 DEF Fits, SeqAfter, HashAfter
<1> QED BY <1>4, <1>5, <1>6 DEF ChainInv

(* What the steps that leave the ledger alone need. *)
LEMMA ChainInvKept ==
  ASSUME TypeOK, ChainInv, UNCHANGED ledgerVars, proc' = "up" => proc = "up",
         Met("misread") \in Nat, Met("misread")' \in Nat, Met("misread") <= Met("misread")'
  PROVE  ChainInv'
<1>1. Cardinality(ChainBreaks) \in Nat
  BY BreaksFinite DEF TypeOK
<1>2. PICK s, h : s = SeqAfter(Len(lines)) /\ h = HashAfter(Len(lines))
  OBVIOUS
<1>3. SeqAfter(Len(lines))' = s /\ HashAfter(Len(lines))' = h
      /\ Loads(Len(lines))' = Loads(Len(lines))
  BY <1>2 DEF ledgerVars, SeqAfter, HashAfter, Loads
<1>4. Fits' <=> Fits
  BY <1>2, <1>3 DEF Fits, ledgerVars
<1>5. ChainBreaks' = ChainBreaks
  BY DEF ChainBreaks, Loads, Continues, SeqAfter, HashAfter, ledgerVars
<1>6. Cardinality(ChainBreaks)' = Cardinality(ChainBreaks)
  BY <1>5
<1> QED BY <1>1, <1>4, <1>6 DEF ChainInv

(* A step that adds no break, and after which the tail fits or the daemon   *)
(* is down.                                                                 *)
LEMMA ChainInvFits ==
  ASSUME TypeOK, ChainInv, Fits' \/ proc' # "up",
         \/ ChainBreaks' \subseteq ChainBreaks
         \/ proc = "up" /\ ~ Fits /\ ChainBreaks' \subseteq ChainBreaks \cup {Len(lines) + 1},
         Met("misread") \in Nat, Met("misread")' \in Nat, Met("misread") <= Met("misread")'
  PROVE  ChainInv'
<1>1. LedgerTypeOK /\ Len(lines) \in Nat
  BY DEF TypeOK, LedgerTypeOK
<1>2. PICK c : c = Cardinality(ChainBreaks)
  OBVIOUS
<1>3. c \in Nat /\ c <= Met("misread") /\ (proc = "up" /\ ~ Fits => c + 1 <= Met("misread"))
  BY <1>1, <1>2, BreaksFinite DEF ChainInv
<1>4. CASE ChainBreaks' \subseteq ChainBreaks
  <2>1. Cardinality(ChainBreaks)' <= c /\ Cardinality(ChainBreaks)' \in Nat
    BY <1>1, <1>2, <1>4, FewerBreaks
  <2>2. Cardinality(ChainBreaks)' <= Met("misread")'
    BY <1>3, <2>1
  <2> QED BY <2>2 DEF ChainInv
<1>5. CASE proc = "up" /\ ~ Fits /\ ChainBreaks' \subseteq ChainBreaks \cup {Len(lines) + 1}
  <2>1. Cardinality(ChainBreaks)' <= c + 1 /\ Cardinality(ChainBreaks)' \in Nat
    <3>1. Len(lines) + 1 \in Nat
      BY <1>1
    <3> QED BY <1>1, <1>2, <1>5, <3>1, OneMoreBreak
  <2>2. Cardinality(ChainBreaks)' <= Met("misread")'
    BY <1>3, <1>5, <2>1
  <2> QED BY <2>2 DEF ChainInv
<1> QED BY <1>4, <1>5

LEMMA ChainInvCredit ==
  ASSUME TypeOK, ChainInv, Credit,
         Met("misread") \in Nat, Met("misread")' \in Nat, Met("misread") <= Met("misread")'
  PROVE  ChainInv'
<1>1. LedgerTypeOK /\ va.batch \in Batches /\ proc = "up"
  BY DEF TypeOK, Credit
<1>2. PICK e : e = NextEntry(va.batch)
  OBVIOUS
<1>3. e \in Line /\ lines' = AddText(e) /\ e.seq = nextSeq
  BY <1>1, <1>2, NextEntryIsLine DEF Credit, AppendOk, NextEntry, Entry
<1>4. CASE open
  <2>1. ChainBreaks' \subseteq ChainBreaks /\ ~ Loads(Len(lines))'
    BY <1>1, <1>3, <1>4, AddToOpenLine
  <2>2. Fits'
    BY <2>1 DEF Fits
  <2> QED BY <2>1, <2>2, ChainInvFits
<1>5. CASE ~ open
  <2>1. ChainBreaks' \subseteq ChainBreaks \cup {Len(lines) + 1}
        /\ (Fits => ChainBreaks' \subseteq ChainBreaks)
    BY <1>1, <1>2, <1>3, <1>5, NextEntryBreaks
  <2>2. Fits'
    <3>1. PICK n : n = Len(lines)
      OBVIOUS
    <3>2. n \in Nat /\ Len(lines') = n + 1 /\ lines'[n + 1] = e
      BY <1>1, <1>3, <1>5, <3>1, AddEntryToClosed DEF LedgerTypeOK
    <3>3. nextSeq' = e.seq + 1 /\ lastHash' = HashOf(e)
      BY <1>2, <1>3 DEF Credit, AppendOk, Advance
    <3>4. n + 1 # 0
      BY <3>2
    <3>5. SeqAfter(n + 1)' = e.seq + 1 /\ HashAfter(n + 1)' = HashOf(e)
      BY <3>2, <3>4 DEF SeqAfter, HashAfter
    <3> QED BY <3>2, <3>3, <3>5 DEF Fits
  <2> QED BY <1>1, <2>1, <2>2, ChainInvFits
<1> QED BY <1>4, <1>5

(* An append that fails may leave a part of the line, or all of it. *)
LEMMA ChainInvCreditFails ==
  ASSUME TypeOK, ChainInv, CreditFails,
         Met("misread") \in Nat, Met("misread")' \in Nat, Met("misread") <= Met("misread")'
  PROVE  ChainInv'
<1>1. LedgerTypeOK /\ va.batch \in Batches /\ proc = "up" /\ proc' = "up"
  BY DEF TypeOK, CreditFails
<1>2. CASE AppendNothing
  BY <1>1, <1>2, ChainInvKept DEF AppendNothing
<1>3. CASE AppendTorn(va.batch)
  <2>1. open' = TRUE /\ lines' \in {AddText(Garbage), AddText(NextEntry(va.batch))}
    BY <1>3 DEF AppendTorn
  <2>2. Fits'
    BY <2>1 DEF Fits
  <2>3. CASE open
    <3>1. ChainBreaks' \subseteq ChainBreaks
      BY <1>1, <2>1, <2>3, NextEntryIsLine, GarbageIsLine, AddToOpenLine
    <3> QED BY <2>2, <3>1, ChainInvFits
  <2>4. CASE ~ open /\ lines' = AddText(Garbage)
    BY <1>1, <2>2, <2>4, GarbageAppended, ChainInvFits
  <2>5. CASE ~ open /\ lines' = AddText(NextEntry(va.batch))
    <3>1. ChainBreaks' \subseteq ChainBreaks \cup {Len(lines) + 1}
          /\ (Fits => ChainBreaks' \subseteq ChainBreaks)
      BY <1>1, <2>5, NextEntryBreaks
    <3> QED BY <1>1, <2>2, <3>1, ChainInvFits
  <2> QED BY <2>1, <2>3, <2>4, <2>5
<1> QED BY <1>2, <1>3 DEF CreditFails

(* A start: the tail fits, or it was paid for. *)
LEMMA ChainInvStart ==
  ASSUME TypeOK, ChainInv, Start,
         Met("misread") \in Nat, Met("misread")' \in Nat, Met("misread") <= Met("misread")'
  PROVE  ChainInv'
<1>1. UNCHANGED <<lines, open>> /\ LedgerTypeOK /\ budget \in BudgetType
  BY TypeParts DEF Start
<1>2. PICK n \in 0 .. Len(lines) :
        /\ Loads(n) /\ LoadTail(n)
        /\ n = Len(lines) \/ Spend("misread")
  BY DEF Start
<1>3. ChainBreaks' = ChainBreaks
  BY <1>1 DEF ChainBreaks, Loads, Continues, SeqAfter, HashAfter
<1>4. CASE n = Len(lines)
  <2>1. SeqAfter(n)' = SeqAfter(n) /\ HashAfter(n)' = HashAfter(n)
    BY <1>1 DEF SeqAfter, HashAfter
  <2>2. nextSeq' = SeqAfter(n) /\ lastHash' = HashAfter(n) /\ n = Len(lines')
    BY <1>1, <1>2, <1>4 DEF LoadTail
  <2>3. Fits'
    BY <2>1, <2>2 DEF Fits
  <2> QED BY <1>3, <2>3, ChainInvFits
<1>5. CASE Spend("misread")
  <2>1. Met("misread")' = Met("misread") + 1
    BY <1>1, <1>5, SpendTypes DEF FaultKinds
  <2>2. Cardinality(ChainBreaks) <= Met("misread") /\ Cardinality(ChainBreaks) \in Nat
    BY <1>1, BreaksFinite DEF ChainInv
  <2>3. Cardinality(ChainBreaks)' = Cardinality(ChainBreaks)
    BY <1>3
  <2>4. Cardinality(ChainBreaks)' <= Met("misread")'
        /\ Cardinality(ChainBreaks)' + 1 <= Met("misread")'
    BY <2>1, <2>2, <2>3
  <2> QED BY <2>4 DEF ChainInv
<1> QED BY <1>2, <1>4, <1>5

LEMMA ChainInvNext == TypeOK /\ ChainInv /\ [Next]_vars => ChainInv'
<1> SUFFICES ASSUME TypeOK, ChainInv, [Next]_vars PROVE ChainInv'
  OBVIOUS
<1>0. Met("misread") \in Nat /\ Met("misread")' \in Nat /\ Met("misread") <= Met("misread")'
  BY FaultsAddUp DEF FaultKinds
<1>1. CASE ShotThread
  <2>1. UNCHANGED ledgerVars /\ proc' = proc
    BY <1>1 DEF ShotThread, StageBatch, RenameBatch, WriteFails, SyncPending
  <2> QED BY <1>0, <2>1, ChainInvKept
<1>2. CASE ValidatorThread
  <2>1. CASE Credit
    BY <1>0, <2>1, ChainInvCredit
  <2>2. CASE CreditFails
    BY <1>0, <2>2, ChainInvCreditFails
  <2>3. CASE ~ Credit /\ ~ CreditFails
    <3>1. UNCHANGED ledgerVars /\ proc' = proc
      BY <1>2, <2>3 DEF ValidatorThread, Pick, PickUnreadable, Reject, StageOutput,
                        OutputFails, RenameOutput, SyncOutputs, UnlinkSource
    <3> QED BY <1>0, <3>1, ChainInvKept
  <2> QED BY <2>1, <2>2, <2>3
<1>3. CASE Kill
  <2>1. proc' # "up" /\ UNCHANGED lines
    BY <1>3 DEF Kill, StopProcess
  <2>2. ChainBreaks' = ChainBreaks
    BY <2>1 DEF ChainBreaks, Loads, Continues, SeqAfter, HashAfter
  <2> QED BY <1>0, <2>1, <2>2, ChainInvFits
<1>4. CASE PowerLoss
  <2>1. proc' # "up" /\ LoseSuffix /\ LedgerTypeOK
    BY <1>4 DEF PowerLoss, StopProcess, TypeOK
  <2> QED BY <1>0, <2>1, LostSuffixBreaks, ChainInvFits
<1>5. CASE Start
  BY <1>0, <1>5, ChainInvStart
<1>6. CASE StartRefused
  <2>1. UNCHANGED ledgerVars /\ proc' # "up"
    BY <1>6 DEF StartRefused
  <2> QED BY <1>0, <2>1, ChainInvKept
<1>7. CASE UNCHANGED vars
  BY <1>0, <1>7, ChainInvKept DEF vars, pipeVars
<1> QED BY <1>1, <1>2, <1>3, <1>4, <1>5, <1>6, <1>7 DEF Next

(* Whatever was killed, torn, cut off or not been read: ahead of the first  *)
(* damaged line the chain is broken at no more places than there were       *)
(* starts that did not read the whole file (or passes that did not list the *)
(* whole directory).                                                        *)
THEOREM ChainBrokenOnlyByMisreads == Spec => []BrokenOnlyByMisreads
<1>1. ChainInv => BrokenOnlyByMisreads
  BY DEF ChainInv, BrokenOnlyByMisreads
<1> QED BY <1>1, ChainInvInit, ChainInvNext, TypeCorrect, PTL DEF Spec

-----------------------------------------------------------------------------
(* As long as no append is torn and the power does not fail, the file is    *)
(* not damaged, and every promoted record is backed by its line: the proof  *)
(* names what this process has appended, whatever tail it had loaded.  As   *)
(* long as every start has read the whole file as well, the tail continues  *)
(* it and the chain verifies.                                               *)

HasLine(b, s, h) ==
  \E i \in DOMAIN lines :
    lines[i].ok /\ lines[i].seq = s /\ HashOf(lines[i]) = h /\ lines[i].batch = b

Undamaged ==
  /\ Loads(Len(lines)) /\ ~ open
  /\ \A o \in outputs : Backed(o)
  /\ va.pc \in {"write", "staged"} => HasLine(va.batch, va.seq, va.hash)

TailCurrent == nextSeq = Len(lines) + 1 /\ lastHash = HashAfter(Len(lines))

CleanInv == /\ Whole => Undamaged
            /\ Whole /\ AllRead => VerifyChain /\ (proc = "up" => TailCurrent)

LEMMA CleanInvInit == Init => CleanInv
<1> SUFFICES ASSUME Init PROVE CleanInv
  OBVIOUS
<1>1. /\ lines = << >> /\ open = FALSE /\ nextSeq = 1 /\ lastHash = Genesis
      /\ outputs = {} /\ va.pc = "idle"
  BY DEF Init, LedgerInit, ValidatorIdle
<1>2. Len(lines) = 0 /\ DOMAIN lines = {}
  BY <1>1
<1>3. Undamaged
  BY <1>1, <1>2 DEF Undamaged, Loads
<1>4. VerifyChain /\ TailCurrent
  BY <1>1, <1>2 DEF VerifyChain, TailCurrent, HashAfter
<1> QED BY <1>3, <1>4 DEF CleanInv

(* What a step has not spoiled was not spoiled before. *)
LEMMA WholeBefore ==
  TypeOK /\ [Next]_vars => /\ Whole' => Whole
                           /\ Whole' /\ AllRead' => AllRead
<1> SUFFICES ASSUME TypeOK, [Next]_vars
             PROVE  (Whole' => Whole) /\ (Whole' /\ AllRead' => AllRead)
  OBVIOUS
<1>1. ASSUME NEW k \in FaultKinds, Met(k)' = 0 PROVE Met(k) = 0
  <2>1. Met(k) \in Nat /\ Met(k)' \in Nat /\ Met(k) <= Met(k)'
    BY FaultsAddUp
  <2> QED BY <1>1, <2>1
<1> QED BY <1>1 DEF Whole, AllRead, FaultKinds

(* Nor has a torn append or a power failure happened in it. *)
LEMMA WholeStep ==
  ASSUME TypeOK, Whole' PROVE ~ Spend("torn") /\ ~ Spend("power")
<1>1. ASSUME NEW k \in {"torn", "power"}, Spend(k) PROVE FALSE
  <2>1. budget \in BudgetType /\ k \in FaultKinds
    BY TypeParts DEF FaultKinds
  <2>2. Met(k)' = Met(k) + 1 /\ Met(k) \in Nat
    BY <1>1, <2>1, SpendTypes, MetTypes
  <2>3. Met(k)' = 0
    BY DEF Whole
  <2> QED BY <2>2, <2>3
<1> QED BY <1>1

(* The steps that leave the ledger file and the outputs alone. *)
LEMMA CleanInvKept ==
  ASSUME CleanInv, Whole' => Whole, Whole' /\ AllRead' => AllRead,
         UNCHANGED <<lines, open, outputs>>,
         proc' = "up" => proc = "up" /\ UNCHANGED <<nextSeq, lastHash>>,
         va'.pc \in {"write", "staged"} =>
           /\ va.pc \in {"write", "staged"}
           /\ va'.batch = va.batch /\ va'.seq = va.seq /\ va'.hash = va.hash
  PROVE  CleanInv'
<1>1. Undamaged => Undamaged'
  BY DEF Undamaged, Loads, Backed, HasLine
<1>2. VerifyChain => VerifyChain'
  BY DEF VerifyChain, ChainLink, HashAfter
<1>3. HashAfter(Len(lines))' = HashAfter(Len(lines))
  BY DEF HashAfter
<1>4. proc' = "up" /\ TailCurrent => TailCurrent'
  BY <1>3 DEF TailCurrent
<1> QED BY <1>1, <1>2, <1>4 DEF CleanInv

LEMMA CleanInvCredit ==
  ASSUME TypeOK, CleanInv, Credit, Whole' => Whole, Whole' /\ AllRead' => AllRead
  PROVE  CleanInv'
<1>1. LedgerTypeOK /\ va.batch \in Batches /\ va \in ValidatorType /\ proc = "up"
  BY TypeParts DEF TypeOK, Credit
<1>2. PICK b, e, n : b = va.batch /\ e = NextEntry(b) /\ n = Len(lines)
  OBVIOUS
<1>3. /\ e \in Line /\ e.ok /\ e.batch = b /\ e.seq = nextSeq /\ e.prev = lastHash
      /\ lines' = AddText(e) /\ n \in Nat
  BY <1>1, <1>2, NextEntryIsLine DEF Credit, AppendOk, NextEntry, Entry, LedgerTypeOK
<1>4. /\ va'.batch = b /\ va'.seq = e.seq /\ va'.hash = HashOf(e)
      /\ open' = FALSE /\ outputs' = outputs
      /\ nextSeq' = e.seq + 1 /\ lastHash' = HashOf(e)
  BY <1>1, <1>2, <1>3 DEF Credit, ValidatorType, AppendOk, Advance, fileVars
<1>5. ASSUME Whole'
      PROVE  /\ DOMAIN lines = 1 .. n /\ DOMAIN lines' = 1 .. n + 1 /\ Len(lines') = n + 1
             /\ \A i \in DOMAIN lines : lines'[i] = lines[i]
             /\ lines'[n + 1] = e
             /\ Undamaged
  <2>1. Undamaged /\ ~ open
    BY <1>5 DEF CleanInv, Undamaged
  <2> QED BY <1>1, <1>2, <1>3, <2>1, AddEntryToClosed
<1>6. ASSUME Whole' PROVE Undamaged'
  <2>1. Loads(Len(lines))'
    BY <1>2, <1>3, <1>5, <1>6 DEF Undamaged, Loads
  <2>2. \A o \in outputs : Backed(o)'
    BY <1>3, <1>5, <1>6 DEF Undamaged, Backed
  <2>3. n + 1 \in DOMAIN lines'
    BY <1>3, <1>5, <1>6
  <2>4. HasLine(va.batch, va.seq, va.hash)'
    BY <1>3, <1>4, <1>5, <1>6, <2>3 DEF HasLine
  <2> QED BY <1>4, <2>1, <2>2, <2>4 DEF Undamaged
<1>7. ASSUME Whole', AllRead' PROVE VerifyChain' /\ TailCurrent'
  <2>1. VerifyChain /\ nextSeq = n + 1 /\ lastHash = HashAfter(n)
    BY <1>1, <1>2, <1>7 DEF CleanInv, TailCurrent
  <2>2. ASSUME NEW i \in DOMAIN lines' PROVE ChainLink(i)'
    <3>1. CASE i \in DOMAIN lines
      <4>1. i - 1 # 0 => i - 1 \in DOMAIN lines
        BY <1>3, <1>5, <1>7, <3>1
      <4>2. HashAfter(i - 1)' = HashAfter(i - 1)
        BY <1>5, <1>7, <4>1 DEF HashAfter
      <4> QED BY <1>5, <1>7, <2>1, <3>1, <4>2 DEF VerifyChain, ChainLink
    <3>2. CASE i = n + 1
      <4>1. i - 1 = n /\ (n # 0 => n \in DOMAIN lines)
        BY <1>3, <1>5, <1>7, <3>2
      <4>2. HashAfter(n)' = HashAfter(n)
        BY <1>5, <1>7, <4>1 DEF HashAfter
      <4> QED BY <1>3, <1>5, <1>7, <2>1, <3>2, <4>1, <4>2 DEF ChainLink
    <3> QED BY <1>3, <1>5, <1>7, <2>2, <3>1, <3>2
  <2>3. HashAfter(n + 1)' = HashOf(e)
    <3>1. n + 1 # 0
      BY <1>3
    <3> QED BY <1>5, <1>7, <3>1 DEF HashAfter
  <2> QED BY <1>3, <1>4, <1>5, <1>7, <2>1, <2>2, <2>3 DEF VerifyChain, TailCurrent
<1> QED BY <1>6, <1>7 DEF CleanInv

(* The record that is promoted names the line of the credit. *)
LEMMA CleanInvRenameOutput ==
  ASSUME TypeOK, CleanInv, RenameOutput, Whole' => Whole, Whole' /\ AllRead' => AllRead
  PROVE  CleanInv'
<1>0. va \in ValidatorType
  BY TypeParts
<1>1. PICK n \in 1 .. Cardinality(outputs) + 1 : outputs' = outputs \cup {Proof(n)}
  BY DEF RenameOutput
<1>2. va.pc = "staged" /\ va'.pc = "renamed" /\ UNCHANGED <<lines, open, nextSeq, lastHash, proc>>
  BY <1>0 DEF RenameOutput, ValidatorType, ledgerVars
<1>3. ASSUME Undamaged PROVE Undamaged'
  <2>1. HasLine(va.batch, va.seq, va.hash)
    BY <1>2, <1>3 DEF Undamaged
  <2>2. Backed(Proof(n))
    BY <2>1 DEF Proof, HasLine, Backed
  <2>3. \A o \in outputs \cup {Proof(n)} : Backed(o)
    BY <1>3, <2>2 DEF Undamaged
  <2>4. \A o \in outputs' : Backed(o)'
    BY <1>1, <1>2, <2>3 DEF Backed
  <2>5. Loads(Len(lines))' /\ ~ open'
    BY <1>2, <1>3 DEF Undamaged, Loads
  <2> QED BY <1>2, <2>4, <2>5 DEF Undamaged
<1>4. VerifyChain => VerifyChain'
  BY <1>2 DEF VerifyChain, ChainLink, HashAfter
<1>5. HashAfter(Len(lines))' = HashAfter(Len(lines))
  BY <1>2 DEF HashAfter
<1>6. proc' = "up" /\ TailCurrent => proc = "up" /\ TailCurrent'
  BY <1>2, <1>5 DEF TailCurrent
<1> QED BY <1>2, <1>3, <1>4, <1>6 DEF CleanInv

LEMMA CleanInvValidatorThread ==
  ASSUME TypeOK, CleanInv, ValidatorThread, Whole' => Whole, Whole' /\ AllRead' => AllRead
  PROVE  CleanInv'
<1> USE DEF ledgerVars, fileVars
<1>0. va \in ValidatorType /\ ValidatorIdle.pc = "idle"
  BY DEF TypeOK, ValidatorType, ValidatorIdle
<1>1. ASSUME NEW b \in Batches, Pick(b) \/ PickUnreadable(b) PROVE CleanInv'
  <2>1. va'.pc \in {"credit", "delete"}
    BY <1>1 DEF Pick, PickUnreadable, ValidatorIdle
  <2> QED BY <1>1, <2>1, CleanInvKept DEF Pick, PickUnreadable
<1>2. CASE Reject \/ OutputFails \/ UnlinkSource
  BY <1>0, <1>2, CleanInvKept DEF Reject, OutputFails, UnlinkSource
<1>3. CASE Credit
  BY <1>3, CleanInvCredit
<1>4. CASE CreditFails
  <2>1. CASE AppendNothing
    BY <1>0, <1>4, <2>1, CleanInvKept DEF CreditFails, AppendNothing
  <2>2. CASE Spend("torn")
    BY <2>2, WholeStep DEF CleanInv
  <2> QED BY <1>4, <2>1, <2>2 DEF CreditFails
<1>5. CASE StageOutput
  <2>1. va'.batch = va.batch /\ va'.seq = va.seq /\ va'.hash = va.hash /\ va.pc = "write"
    BY <1>0, <1>5 DEF StageOutput, ValidatorType
  <2> QED BY <1>5, <2>1, CleanInvKept DEF StageOutput
<1>6. CASE RenameOutput
  BY <1>6, CleanInvRenameOutput
<1>7. CASE SyncOutputs
  <2>1. va'.pc = "unlink"
    BY <1>0, <1>7 DEF SyncOutputs, ValidatorType
  <2> QED BY <1>7, <2>1, CleanInvKept DEF SyncOutputs
<1> QED BY <1>1, <1>2, <1>3, <1>4, <1>5, <1>6, <1>7 DEF ValidatorThread

(* A start that has read the whole of a chain that verifies continues it. *)
LEMMA CleanInvStart ==
  ASSUME TypeOK, CleanInv, Start, Whole' => Whole, Whole' /\ AllRead' => AllRead
  PROVE  CleanInv'
<1>1. UNCHANGED <<lines, open, outputs, va>> /\ LedgerTypeOK
  BY DEF Start, TypeOK, threadVars
<1>2. PICK n \in 0 .. Len(lines) : Loads(n) /\ LoadTail(n) /\ (n = Len(lines) \/ Spend("misread"))
  BY DEF Start
<1>3. Undamaged => Undamaged'
  BY <1>1 DEF Undamaged, Loads, Backed, HasLine
<1>4. VerifyChain => VerifyChain'
  BY <1>1 DEF VerifyChain, ChainLink, HashAfter
<1>5. ASSUME VerifyChain, n = Len(lines) PROVE TailCurrent'
  <2>1. n \in Nat /\ (n # 0 => n \in DOMAIN lines)
    BY <1>1, <1>5 DEF LedgerTypeOK
  <2>2. SeqAfter(n) = n + 1
    BY <1>5, <2>1 DEF SeqAfter, VerifyChain, ChainLink
  <2>3. HashAfter(n)' = HashAfter(n)
    BY <1>1 DEF HashAfter
  <2>4. nextSeq' = n + 1 /\ lastHash' = HashAfter(n) /\ n = Len(lines')
    BY <1>1, <1>2, <1>5, <2>2 DEF LoadTail
  <2> QED BY <2>3, <2>4 DEF TailCurrent
<1>6. ASSUME Spend("misread") PROVE ~ AllRead'
  <2>1. budget \in BudgetType /\ "misread" \in FaultKinds
    BY TypeParts DEF FaultKinds
  <2>2. Met("misread")' = Met("misread") + 1 /\ Met("misread") \in Nat
    BY <1>6, <2>1, SpendTypes, MetTypes
  <2> QED BY <2>2 DEF AllRead
<1> QED BY <1>2, <1>3, <1>4, <1>5, <1>6 DEF CleanInv

LEMMA CleanInvNext == TypeOK /\ CleanInv /\ [Next]_vars => CleanInv'
<1> SUFFICES ASSUME TypeOK, CleanInv, [Next]_vars PROVE CleanInv'
  OBVIOUS
<1> USE DEF ledgerVars, fileVars, threadVars
<1>0. /\ Whole' => Whole
      /\ Whole' /\ AllRead' => AllRead
      /\ ValidatorIdle.pc = "idle"
  BY WholeBefore DEF ValidatorIdle
<1>1. CASE ShotThread
  <2>1. UNCHANGED <<ledgerVars, outputs, proc, va>>
    BY <1>1 DEF ShotThread, StageBatch, RenameBatch, WriteFails, SyncPending
  <2> QED BY <1>0, <2>1, CleanInvKept
<1>2. CASE ValidatorThread
  BY <1>0, <1>2, CleanInvValidatorThread
<1>3. CASE Kill
  BY <1>0, <1>3, CleanInvKept DEF Kill, StopProcess
<1>4. CASE PowerLoss
  <2>1. ~ Whole'
    BY <1>4, WholeStep DEF PowerLoss
  <2> QED BY <2>1 DEF CleanInv
<1>5. CASE Start
  BY <1>0, <1>5, CleanInvStart
<1>6. CASE StartRefused
  BY <1>0, <1>6, CleanInvKept DEF StartRefused
<1>7. CASE UNCHANGED vars
  BY <1>0, <1>7, CleanInvKept DEF vars, pipeVars
<1> QED BY <1>1, <1>2, <1>3, <1>4, <1>5, <1>6, <1>7 DEF Next

(* Until an append is torn, the power fails or a start does not read the    *)
(* whole file, the whole ledger verifies, across any number of kills,       *)
(* restarts and I/O errors.                                                 *)
THEOREM ChainAlwaysVerifies == Spec => []ChainVerifies
<1>1. CleanInv => ChainVerifies
  BY DEF CleanInv, ChainVerifies
<1> QED BY <1>1, CleanInvInit, CleanInvNext, TypeCorrect, PTL DEF Spec

(* Until an append is torn or the power fails, every promoted record names  *)
(* a ledger line that credits its batch, by number and by hash, even after  *)
(* starts that read only a part of the ledger; and until such a start it    *)
(* passes the ledger check of the audit.                                    *)
THEOREM PromotionsAudit == Spec => []OutputsAudit
<1>1. ASSUME TypeOK, Undamaged, VerifyChain, NEW o \in outputs PROVE Audited(o)
  <2>1. DOMAIN lines = 1 .. Len(lines) /\ Len(lines) \in Nat
    BY <1>1 DEF TypeOK, LedgerTypeOK
  <2>2. PICK i \in 1 .. Len(lines) :
          /\ lines[i].seq = o.seq /\ HashOf(lines[i]) = o.hash /\ lines[i].batch = o.batch
    BY <1>1, <2>1 DEF Undamaged, Backed
  <2>3. \A j \in 1 .. Len(lines) : lines[j].ok /\ lines[j].seq = j
    BY <1>1, <2>1 DEF VerifyChain, ChainLink
  <2>4. /\ \A j \in 1 .. i : j \in 1 .. Len(lines)
        /\ \A j \in 1 .. i - 1 : j \in 1 .. Len(lines) /\ j # i
    BY <2>1, <2>2
  <2>5. \A j \in 1 .. i - 1 : lines[j].seq # o.seq
    BY <2>2, <2>3, <2>4
  <2> QED BY <2>1, <2>2, <2>3, <2>4, <2>5 DEF Audited
<1>2. TypeOK /\ CleanInv => OutputsAudit
  BY <1>1 DEF CleanInv, Undamaged, OutputsAudit
<1> QED BY <1>2, CleanInvInit, CleanInvNext, TypeCorrect, PTL DEF Spec

-----------------------------------------------------------------------------
(* Staged files.  Only a kill and a power failure end the process whose id  *)
(* is in their names.                                                       *)

WriterTmp == IF wr.pc = "staged" THEN {Staged("notvalidated", wr.batch)} ELSE {}
ValidatorTmp == IF va.pc = "staged" THEN {Staged("outputs", va.batch)} ELSE {}

LEMMA StagedKept ==
  ASSUME TypeOK, UNCHANGED budget \/ Spend("io") \/ Spend("torn") \/ Spend("misread")
  PROVE  \A d, b : Staged(d, b)' = Staged(d, b)
<1>1. budget \in BudgetType
  BY TypeParts
<1>2. Met("kill")' = Met("kill") /\ Met("power")' = Met("power")
  <2>1. CASE UNCHANGED budget
    BY <2>1 DEF Met
  <2>2. ASSUME NEW k \in {"io", "torn", "misread"}, Spend(k)
        PROVE  Met("kill")' = Met("kill") /\ Met("power")' = Met("power")
    <3>1. k \in FaultKinds /\ "kill" \in FaultKinds \ {k} /\ "power" \in FaultKinds \ {k}
      BY DEF FaultKinds
    <3> QED BY <1>1, <2>2, <3>1, SpendTypes
  <2> QED BY <2>1, <2>2
<1> QED BY <1>2 DEF Staged

LEMMA NoStaleTmpNext == TypeOK /\ NoStaleTmp /\ [Next]_vars => NoStaleTmp'
<1> SUFFICES ASSUME TypeOK, NoStaleTmp, [Next]_vars PROVE NoStaleTmp'
  OBVIOUS
<1> USE DEF fileVars, threadVars, histVars
<1>0. /\ va \in ValidatorType
      /\ wr \in [pc : {"idle", "staged", "renamed"}, batch : Batches \cup {NoBatch}]
      /\ WriterIdle.pc = "idle" /\ ValidatorIdle.pc = "idle"
  BY DEF TypeOK, ValidatorType, WriterIdle, ValidatorIdle
<1>1. /\ proc = "up" => tmps \subseteq WriterTmp \cup ValidatorTmp \cup undeleted
      /\ (proc' = "up" => tmps' \subseteq WriterTmp' \cup ValidatorTmp' \cup undeleted')
           => NoStaleTmp'
  BY DEF NoStaleTmp, InProgress, WriterTmp, ValidatorTmp
<1>2. CASE ShotThread
  <2>1. proc = "up" /\ UNCHANGED va
    BY <1>2 DEF ShotThread, StageBatch, RenameBatch, WriteFails, SyncPending
  <2>2. \A d, b : Staged(d, b)' = Staged(d, b)
    <3>1. UNCHANGED budget \/ Spend("io")
      BY <1>2 DEF ShotThread, StageBatch, RenameBatch, WriteFails, SyncPending
    <3> QED BY <3>1, StagedKept
  <2>3. ValidatorTmp' = ValidatorTmp
    BY <2>1, <2>2 DEF ValidatorTmp
  <2>4. ASSUME NEW b \in Batches, StageBatch(b)
        PROVE  tmps' \subseteq WriterTmp' \cup ValidatorTmp' \cup undeleted'
    <3>1. WriterTmp = {} /\ WriterTmp' = {Staged("notvalidated", b)}
      BY <2>2, <2>4 DEF StageBatch, WriterTmp
    <3>2. tmps' = tmps \cup {Staged("notvalidated", b)} /\ undeleted' = undeleted
      BY <2>4 DEF StageBatch
    <3> QED BY <1>1, <2>1, <2>3, <3>1, <3>2
  <2>5. CASE RenameBatch
    <3>1. tmps' = tmps \ WriterTmp /\ undeleted' = undeleted
      BY <2>5 DEF RenameBatch, WriterTmp
    <3> QED BY <1>1, <2>1, <2>3, <3>1
  <2>6. CASE WriteFails
    <3>1. \/ tmps' = tmps \ WriterTmp /\ undeleted' = undeleted
          \/ undeleted' = undeleted \cup WriterTmp /\ tmps' = tmps
      BY <2>6 DEF WriteFails, DropStaged, WriterTmp
    <3> QED BY <1>1, <2>1, <2>3, <3>1
  <2>7. CASE SyncPending
    <3>1. tmps' = tmps /\ undeleted' = undeleted /\ WriterTmp = {}
      BY <2>7 DEF SyncPending, WriterTmp
    <3> QED BY <1>1, <2>1, <2>3, <3>1
  <2> QED BY <1>1, <1>2, <2>4, <2>5, <2>6, <2>7 DEF ShotThread
<1>3. CASE ValidatorThread
  <2>1. proc = "up" /\ UNCHANGED wr
    BY <1>3 DEF ValidatorThread, Pick, PickUnreadable, Reject, Credit, CreditFails,
                StageOutput, OutputFails, RenameOutput, SyncOutputs, UnlinkSource
  <2>2. \A d, b : Staged(d, b)' = Staged(d, b)
    <3>1. UNCHANGED budget \/ Spend("io") \/ Spend("torn") \/ Spend("misread")
      <4>1. CASE \E b \in Batches : Pick(b) \/ PickUnreadable(b)
        BY <4>1 DEF Pick, Listed, PickUnreadable
      <4>2. CASE ~ \E b \in Batches : Pick(b) \/ PickUnreadable(b)
        BY <1>3, <4>2 DEF ValidatorThread, Reject, Credit, CreditFails, StageOutput,
           OutputFails, RenameOutput, SyncOutputs, UnlinkSource, TryDeleteSource
      <4> QED BY <4>1, <4>2
    <3> QED BY <3>1, StagedKept
  <2>3. WriterTmp' = WriterTmp
    BY <2>1, <2>2 DEF WriterTmp
  <2>4. CASE StageOutput
    <3>1. ValidatorTmp = {} /\ ValidatorTmp' = {Staged("outputs", va.batch)}
      BY <1>0, <2>2, <2>4 DEF StageOutput, ValidatorTmp, ValidatorType
    <3>2. tmps' = tmps \cup {Staged("outputs", va.batch)} /\ undeleted' = undeleted
      BY <2>4 DEF StageOutput
    <3> QED BY <1>1, <2>1, <2>3, <3>1, <3>2
  <2>5. CASE OutputFails
    <3>1. \/ tmps' = tmps \ ValidatorTmp /\ undeleted' = undeleted
          \/ undeleted' = undeleted \cup ValidatorTmp /\ tmps' = tmps
      BY <2>5 DEF OutputFails, DropStaged, ValidatorTmp
    <3> QED BY <1>1, <2>1, <2>3, <3>1
  <2>6. CASE RenameOutput
    <3>1. tmps' = tmps \ ValidatorTmp /\ undeleted' = undeleted
      BY <2>6 DEF RenameOutput, ValidatorTmp
    <3> QED BY <1>1, <2>1, <2>3, <3>1
  <2>7. CASE ~ StageOutput /\ ~ OutputFails /\ ~ RenameOutput
    <3>1. va.pc # "staged" /\ tmps' = tmps /\ undeleted' = undeleted
      BY <1>3, <2>7 DEF ValidatorThread, Pick, PickUnreadable, Reject, Credit, CreditFails,
                        SyncOutputs, UnlinkSource
    <3>2. ValidatorTmp = {}
      BY <3>1 DEF ValidatorTmp
    <3> QED BY <1>1, <2>1, <2>3, <3>1, <3>2
  <2> QED BY <2>4, <2>5, <2>6, <2>7
<1>4. CASE Kill \/ PowerLoss \/ StartRefused
  <2>1. proc' # "up"
    BY <1>4 DEF Kill, PowerLoss, StopProcess, StartRefused
  <2> QED BY <1>1, <2>1
<1>5. CASE Start
  <2>1. tmps' \subseteq undeleted'
    BY <1>5 DEF Start, SweepTmps, SweepFails
  <2> QED BY <1>1, <2>1
<1>6. CASE UNCHANGED vars
  <2>1. UNCHANGED <<tmps, undeleted, proc, wr, va, budget>>
    BY <1>6 DEF vars, pipeVars
  <2>2. WriterTmp' = WriterTmp /\ ValidatorTmp' = ValidatorTmp
    BY <2>1 DEF WriterTmp, ValidatorTmp, Staged, Met
  <2> QED BY <1>1, <2>1, <2>2
<1> QED BY <1>2, <1>3, <1>4, <1>5, <1>6 DEF Next

(* Whatever was killed or lost between the staging of a file and its        *)
(* rename, and whatever deletion failed in an earlier run: while the daemon *)
(* runs, the staged files are those of the writes in progress and those     *)
(* whose deletion has failed in this run.                                   *)
THEOREM StagedFilesAreInProgress == Spec => []NoStaleTmp
<1>1. Init => NoStaleTmp
  BY DEF Init, NoStaleTmp
<1> QED BY <1>1, NoStaleTmpNext, TypeCorrect, PTL DEF Spec

-----------------------------------------------------------------------------
(* A batch appears once, so that no rename replaces a file of notvalidated/ *)
(* and a batch that was handled comes back only from the disk.              *)

AppearInv ==
  /\ DOMAIN pending \subseteq written
  /\ DOMAIN durPending \subseteq written
  /\ wr.pc = "staged" => wr.batch \notin written

(* A step of the validator removes at most its own batch from notvalidated/, *)
(* and adds none.                                                            *)
LEMMA OnlyOwnDeleted ==
  ASSUME ValidatorThread
  PROVE  /\ \/ UNCHANGED pending
            \/ va.pc # "idle" /\ va'.pc = "idle" /\ DeleteSource
         /\ UNCHANGED <<written, durPending, wr, lastMtime, proc>>
<1> USE DEF fileVars, durVars, histVars
<1>0. ValidatorIdle.pc = "idle"
  BY DEF ValidatorIdle
<1>1. CASE \E b \in Batches : Pick(b) \/ PickUnreadable(b)
  BY <1>1 DEF Pick, PickUnreadable
<1>2. CASE Reject \/ UnlinkSource
  BY <1>0, <1>2 DEF Reject, UnlinkSource, TryDeleteSource
<1>3. CASE OutputFails
  BY <1>0, <1>3 DEF OutputFails
<1>4. CASE Credit \/ CreditFails \/ StageOutput \/ RenameOutput \/ SyncOutputs
  BY <1>4 DEF Credit, CreditFails, StageOutput, RenameOutput, SyncOutputs
<1> QED BY <1>1, <1>2, <1>3, <1>4 DEF ValidatorThread

(* The validator keeps the batch it picked until it is idle again.           *)
LEMMA HoldsItsBatch ==
  ASSUME TypeOK, ValidatorThread, va.pc # "idle", va'.pc # "idle"
  PROVE  va'.batch = va.batch
<1>0. va \in ValidatorType /\ ValidatorIdle.pc = "idle"
  BY DEF TypeOK, ValidatorType, ValidatorIdle
<1>1. CASE Credit \/ StageOutput \/ RenameOutput \/ SyncOutputs
  BY <1>0, <1>1 DEF Credit, StageOutput, RenameOutput, SyncOutputs, ValidatorType
<1>2. CASE \E b \in Batches : Pick(b) \/ PickUnreadable(b)
  BY <1>2 DEF Pick, PickUnreadable
<1>3. CASE Reject \/ CreditFails \/ OutputFails \/ UnlinkSource
  BY <1>0, <1>3 DEF Reject, CreditFails, OutputFails, UnlinkSource
<1> QED BY <1>1, <1>2, <1>3 DEF ValidatorThread

LEMMA RestoredPending ==
  ASSUME PowerLoss
  PROVE  /\ durPending' = pending'
         /\ \A b \in DOMAIN pending' :
              \/ b \in DOMAIN pending /\ pending'[b] = pending[b]
              \/ b \in DOMAIN durPending /\ pending'[b] = durPending[b]
<1>1. PICK gone \in SUBSET (DOMAIN pending \ DOMAIN durPending),
           back \in SUBSET (DOMAIN durPending \ DOMAIN pending) :
        pending' = [b \in (DOMAIN pending \ gone) \cup back |->
                      IF b \in back THEN durPending[b] ELSE pending[b]]
  BY DEF PowerLoss
<1> QED BY <1>1 DEF PowerLoss

LEMMA AppearInvNext == TypeOK /\ AppearInv /\ [Next]_vars => AppearInv'
<1> SUFFICES ASSUME TypeOK, AppearInv, [Next]_vars PROVE AppearInv'
  OBVIOUS
<1> USE DEF fileVars, durVars, histVars, threadVars, AppearInv
<1>0. WriterIdle.pc = "idle"
  BY DEF WriterIdle
<1>1. ASSUME NEW b \in Batches, StageBatch(b) PROVE AppearInv'
  BY <1>1 DEF StageBatch
<1>2. CASE RenameBatch
  <2>1. DOMAIN pending' = DOMAIN pending \cup {wr.batch} /\ UNCHANGED durPending
        /\ written' = written \cup {wr.batch}
    BY <1>2 DEF RenameBatch, Put
  <2>2. wr'.pc = "renamed"
    BY <1>2 DEF RenameBatch, TypeOK
  <2> QED BY <2>1, <2>2
<1>3. CASE WriteFails
  BY <1>0, <1>3 DEF WriteFails
<1>4. CASE SyncPending
  BY <1>0, <1>4 DEF SyncPending, PendingDurable
<1>5. CASE ValidatorThread
  <2>1. DOMAIN pending' \subseteq DOMAIN pending /\ UNCHANGED <<written, durPending, wr>>
    BY <1>5, OnlyOwnDeleted DEF DeleteSource, Without
  <2> QED BY <2>1
<1>6. CASE Kill
  BY <1>0, <1>6 DEF Kill, StopProcess
<1>7. CASE PowerLoss
  <2>1. DOMAIN pending' \subseteq DOMAIN pending \cup DOMAIN durPending /\ durPending' = pending'
    BY <1>7, RestoredPending
  <2>2. UNCHANGED written /\ wr'.pc = "idle"
    BY <1>0, <1>7 DEF PowerLoss, StopProcess
  <2> QED BY <2>1, <2>2
<1>8. CASE Start \/ StartRefused \/ UNCHANGED vars
  BY <1>8 DEF Start, StartRefused, vars, pipeVars
<1> QED BY <1>1, <1>2, <1>3, <1>4, <1>5, <1>6, <1>7, <1>8 DEF Next, ShotThread

LEMMA AppearsOnce == Spec => []AppearInv
<1>1. Init => AppearInv
  BY DEF Init, AppearInv, WriterIdle
<1> QED BY <1>1, AppearInvNext, TypeCorrect, PTL DEF Spec

-----------------------------------------------------------------------------
(* The order of handling.  As long as every pass saw the whole directory,   *)
(* the batch in the validator's hands was the oldest when it was picked,    *)
(* and what appears afterwards is not older.                                *)

NoneOlder == \A o \in DOMAIN pending : pending[o].mtime >= pending[va.batch].mtime

LineInv ==
  /\ \A b \in DOMAIN pending : pending[b].mtime <= lastMtime
  /\ \A b \in DOMAIN durPending : durPending[b].mtime <= lastMtime
  /\ AllRead /\ va.pc # "idle" => NoneOlder

LEMMA AllReadBefore ==
  ASSUME TypeOK, [Next]_vars, AllRead'
  PROVE  AllRead /\ ~ Spend("misread")
<1>1. /\ Met("misread") \in Nat /\ Met("misread")' \in Nat
      /\ Met("misread") <= Met("misread")' /\ Met("misread")' = 0
  BY FaultsAddUp DEF AllRead, FaultKinds
<1>2. ASSUME Spend("misread") PROVE FALSE
  <2>1. budget \in BudgetType /\ "misread" \in FaultKinds
    BY TypeParts DEF FaultKinds
  <2>2. Met("misread")' = Met("misread") + 1
    BY <1>2, <2>1, SpendTypes
  <2> QED BY <1>1, <2>2
<1> QED BY <1>1, <1>2 DEF AllRead

LEMMA LineInvNext == TypeOK /\ AppearInv /\ LineInv /\ [Next]_vars => LineInv'
<1> SUFFICES ASSUME TypeOK, AppearInv, LineInv, [Next]_vars PROVE LineInv'
  OBVIOUS
<1> USE DEF fileVars, durVars, histVars, threadVars
<1>0. /\ ValidatorIdle.pc = "idle" /\ lastMtime \in Nat
      /\ \A b \in DOMAIN pending : pending[b].mtime \in Nat
      /\ \A b \in DOMAIN durPending : durPending[b].mtime \in Nat
      /\ va.pc # "idle" => va.batch \in DOMAIN pending
      /\ AllRead' => AllRead /\ ~ Spend("misread")
  BY AllReadBefore DEF TypeOK, ValidatorIdle
<1>1. ASSUME NEW b \in Batches, StageBatch(b) PROVE LineInv'
  <2>1. lastMtime <= lastMtime' /\ lastMtime' \in Nat /\ UNCHANGED <<pending, durPending, va>>
    BY <1>0, <1>1 DEF StageBatch
  <2> QED BY <1>0, <2>1 DEF LineInv, NoneOlder
<1>2. CASE RenameBatch
  <2>1. /\ DOMAIN pending' = DOMAIN pending \cup {wr.batch}
        /\ \A b \in DOMAIN pending : b # wr.batch => pending'[b] = pending[b]
        /\ pending'[wr.batch].mtime = lastMtime
        /\ UNCHANGED <<durPending, va, lastMtime>>
    BY <1>2 DEF RenameBatch, Put
  <2>2. wr.batch \notin DOMAIN pending
    BY <1>2 DEF RenameBatch, AppearInv
  <2> QED BY <1>0, <2>1, <2>2 DEF LineInv, NoneOlder
<1>3. CASE WriteFails
  BY <1>0, <1>3 DEF WriteFails, LineInv, NoneOlder
<1>4. CASE SyncPending
  BY <1>0, <1>4 DEF SyncPending, PendingDurable, LineInv, NoneOlder
<1>5. CASE ValidatorThread
  <2>1. CASE va.pc = "idle"
    <3>1. PICK b \in DOMAIN pending : va'.batch = b /\ (Oldest(b) \/ Spend("misread"))
      <4>1. PICK b \in Batches : Pick(b) \/ PickUnreadable(b)
        BY <1>5, <2>1 DEF ValidatorThread, Reject, Credit, CreditFails,
             StageOutput, OutputFails, RenameOutput, SyncOutputs, UnlinkSource
      <4>2. b \in DOMAIN pending /\ va'.batch = b
        BY <4>1 DEF Pick, PickUnreadable, ValidatorIdle
      <4>3. Oldest(b) \/ Spend("misread")
        <5>1. CASE Pick(b)
          BY <5>1 DEF Pick, Listed
        <5>2. CASE PickUnreadable(b) /\ ~ Oldest(b)
          BY <5>2 DEF PickUnreadable
        <5> QED BY <4>1, <5>1, <5>2
      <4> QED BY <4>2, <4>3
    <3>2. UNCHANGED <<pending, durPending, lastMtime>>
      BY <1>5, <2>1, OnlyOwnDeleted
    <3>3. Oldest(b) => \A o \in DOMAIN pending : pending[o].mtime >= pending[b].mtime
      BY <1>0, <3>1 DEF Oldest, Before
    <3> QED BY <1>0, <3>1, <3>2, <3>3 DEF LineInv, NoneOlder
  <2>2. CASE va.pc # "idle" /\ va'.pc # "idle"
    <3>1. va'.batch = va.batch
      BY <1>5, <2>2, HoldsItsBatch
    <3>2. UNCHANGED <<pending, durPending, lastMtime>>
      BY <1>5, <2>2, OnlyOwnDeleted
    <3> QED BY <1>0, <2>2, <3>1, <3>2 DEF LineInv, NoneOlder
  <2>3. CASE va'.pc = "idle"
    <3>1. /\ UNCHANGED <<durPending, lastMtime>>
          /\ \A b \in DOMAIN pending' : b \in DOMAIN pending /\ pending'[b] = pending[b]
      BY <1>5, OnlyOwnDeleted DEF DeleteSource, Without
    <3> QED BY <2>3, <3>1 DEF LineInv
  <2> QED BY <2>1, <2>2, <2>3
<1>6. CASE Kill
  BY <1>0, <1>6 DEF Kill, StopProcess, LineInv
<1>7. CASE PowerLoss
  <2>1. lastMtime' = lastMtime /\ va'.pc = "idle"
    BY <1>0, <1>7 DEF PowerLoss, StopProcess
  <2> QED BY <1>7, <2>1, RestoredPending DEF LineInv
<1>8. CASE Start \/ StartRefused \/ UNCHANGED vars
  BY <1>0, <1>8 DEF Start, StartRefused, vars, pipeVars, LineInv, NoneOlder
<1> QED BY <1>1, <1>2, <1>3, <1>4, <1>5, <1>6, <1>7, <1>8 DEF Next, ShotThread

(* A batch leaves notvalidated/ while the daemon runs only when no batch    *)
(* with an older mtime waits there, as long as every pass saw the whole     *)
(* directory.                                                               *)
THEOREM OldestLeavesFirst == Spec => NeverCutInLine
<1> DEFINE Handled == \A b \in DOMAIN pending :
                        b \notin DOMAIN pending' /\ proc' = "up" /\ AllRead
                        => \A o \in DOMAIN pending : pending[o].mtime >= pending[b].mtime
<1>1. ASSUME TypeOK, LineInv, [Next]_vars PROVE Handled
  <2> SUFFICES ASSUME NEW b \in DOMAIN pending, b \notin DOMAIN pending', proc' = "up", AllRead
               PROVE  \A o \in DOMAIN pending : pending[o].mtime >= pending[b].mtime
    OBVIOUS
  <2>1. CASE ShotThread
    BY <2>1 DEF ShotThread, StageBatch, RenameBatch, WriteFails, SyncPending, Put
  <2>2. CASE ValidatorThread
    <3>1. va.pc # "idle" /\ DeleteSource
      BY <2>2, OnlyOwnDeleted
    <3>2. b = va.batch
      BY <3>1 DEF DeleteSource, Without
    <3> QED BY <1>1, <3>1, <3>2 DEF LineInv, NoneOlder
  <2>3. CASE Kill \/ PowerLoss
    BY <2>3 DEF Kill, PowerLoss, StopProcess
  <2>4. CASE Start \/ StartRefused \/ UNCHANGED vars
    BY <2>4 DEF Start, StartRefused, fileVars, vars, pipeVars
  <2> QED BY <1>1, <2>1, <2>2, <2>3, <2>4 DEF Next
<1>2. Init => LineInv
  BY DEF Init, LineInv, ValidatorIdle
<1>3. TypeOK /\ LineInv /\ [Next]_vars => [Handled]_vars
  BY <1>1
<1> QED BY <1>2, <1>3, LineInvNext, TypeCorrect, AppearsOnce, PTL DEF Spec, NeverCutInLine

-----------------------------------------------------------------------------
(* The credits of a batch.  Each one beyond the first is paid for by a kill, *)
(* an error, a torn append or a power failure; a batch that still waits to   *)
(* be credited has one credit less than it may have.                         *)

Spent == Met("kill") + Met("power") + Met("io") + Met("torn")

PastCredit(b) == va.pc \in {"write", "staged", "renamed", "unlink"} /\ va.batch = b

Awaits(b) == (b \in DOMAIN pending \/ b \notin written) /\ ~ PastCredit(b)

CreditInv ==
  \A b \in Batches : /\ Cardinality(Credits(b)) <= Spent + 1
                     /\ Awaits(b) => Cardinality(Credits(b)) <= Spent

PaidKinds == {"kill", "io", "torn", "power"}

LEMMA SpentIsNat == ASSUME TypeOK PROVE Spent \in Nat
<1>1. \A k \in FaultKinds : Met(k) \in Nat
  BY TypeParts, MetTypes
<1> QED BY <1>1 DEF Spent, FaultKinds

LEMMA SpendCounts ==
  ASSUME TypeOK
  PROVE  /\ \A k \in PaidKinds : Spend(k) => Spent' = Spent + 1
         /\ Spend("misread") \/ UNCHANGED budget => Spent' = Spent
<1>1. budget \in BudgetType /\ \A k \in FaultKinds : Met(k) \in Nat
  BY TypeParts, MetTypes
<1>2. ASSUME NEW k \in FaultKinds, Spend(k)
      PROVE  Met(k)' = Met(k) + 1 /\ \A j \in FaultKinds \ {k} : Met(j)' = Met(j)
  BY <1>1, <1>2, SpendTypes
<1>3. ASSUME NEW k \in PaidKinds, Spend(k) PROVE Spent' = Spent + 1
  BY <1>1, <1>2, <1>3 DEF PaidKinds, FaultKinds, Spent
<1>4. ASSUME Spend("misread") PROVE Spent' = Spent
  <2>1. \A j \in FaultKinds \ {"misread"} : Met(j)' = Met(j)
    BY <1>2, <1>4 DEF FaultKinds
  <2>2. Met("kill")' = Met("kill") /\ Met("power")' = Met("power")
        /\ Met("io")' = Met("io") /\ Met("torn")' = Met("torn")
    BY <2>1 DEF FaultKinds
  <2> QED BY <2>2 DEF Spent
<1>5. UNCHANGED budget => Spent' = Spent
  BY DEF Spent, Met
<1> QED BY <1>3, <1>4, <1>5

LEMMA CreditsFinite ==
  ASSUME LedgerTypeOK, NEW b \in Batches
  PROVE  IsFiniteSet(Credits(b)) /\ Cardinality(Credits(b)) \in Nat
<1>1. Len(lines) \in Nat /\ DOMAIN lines = 1 .. Len(lines)
  BY DEF LedgerTypeOK
<1>2. IsFiniteSet(1 .. Len(lines))
  BY <1>1, FS_Interval
<1>3. Credits(b) \subseteq 1 .. Len(lines)
  BY <1>1 DEF Credits
<1> QED BY <1>2, <1>3, FS_Subset, FS_CardinalityType

LEMMA FewerCredits ==
  ASSUME LedgerTypeOK, NEW b \in Batches, Credits(b)' \subseteq Credits(b)
  PROVE  Cardinality(Credits(b)') <= Cardinality(Credits(b)) /\ Cardinality(Credits(b)') \in Nat
BY CreditsFinite, FS_Subset, FS_CardinalityType

(* An append credits one batch, at most once more, and no other.            *)
LEMMA AppendCredits ==
  ASSUME LedgerTypeOK, NEW e \in Line, lines' = AddText(e), NEW b \in Batches
  PROVE  /\ Cardinality(Credits(b)') \in Nat
         /\ Cardinality(Credits(b)') <= Cardinality(Credits(b)) + 1
         /\ e.batch # b \/ ~ e.ok => Cardinality(Credits(b)') <= Cardinality(Credits(b))
<1>1. lines \in Seq(Line) /\ Len(lines) \in Nat /\ (open => lines # << >>)
  BY DEF LedgerTypeOK
<1>2. Cardinality(Credits(b)) \in Nat /\ IsFiniteSet(Credits(b))
  BY CreditsFinite
<1>3. CASE open
  <2>1. lines' = [lines EXCEPT ![Len(lines)] = Garbage]
    BY <1>3 DEF AddText
  <2>2. Credits(b)' \subseteq Credits(b)
    BY <1>1, <2>1, GarbageIsLine DEF Credits
  <2> QED BY <1>2, <2>2, FewerCredits
<1>4. CASE ~ open
  <2>1. /\ DOMAIN lines = 1 .. Len(lines) /\ DOMAIN lines' = 1 .. Len(lines) + 1
        /\ \A i \in DOMAIN lines : lines'[i] = lines[i]
        /\ lines'[Len(lines) + 1] = e
    BY <1>1, <1>4, AddEntryToClosed
  <2>2. CASE e.batch # b \/ ~ e.ok
    <3>1. Credits(b)' \subseteq Credits(b)
      BY <1>1, <2>1, <2>2 DEF Credits
    <3> QED BY <1>2, <3>1, FewerCredits
  <2>3. CASE e.batch = b /\ e.ok
    <3>1. Credits(b)' = Credits(b) \cup {Len(lines) + 1}
      BY <1>1, <2>1, <2>3 DEF Credits
    <3>2. Len(lines) + 1 \notin Credits(b)
      BY <1>1, <2>1 DEF Credits
    <3>3. Cardinality(Credits(b)') = Cardinality(Credits(b)) + 1
      BY <1>2, <3>1, <3>2, FS_AddElement
    <3> QED BY <1>2, <2>3, <3>3
  <2> QED BY <2>2, <2>3
<1> QED BY <1>3, <1>4

LEMMA LostCredits ==
  ASSUME LedgerTypeOK, LoseSuffix, NEW b \in Batches
  PROVE  Credits(b)' \subseteq Credits(b)
<1>1. PICK n \in 0 .. Len(lines) :
        \/ lines' = SubSeq(lines, 1, n)
        \/ n > 0 /\ lines' = Append(SubSeq(lines, 1, n - 1), Garbage)
  BY DEF LoseSuffix
<1>2. lines \in Seq(Line) /\ Len(lines) \in Nat /\ n \in Nat
  BY DEF LedgerTypeOK
<1>3. CASE lines' = SubSeq(lines, 1, n)
  <2>1. DOMAIN lines' = 1 .. n /\ \A i \in 1 .. n : i \in DOMAIN lines /\ lines'[i] = lines[i]
    BY <1>2, <1>3
  <2> QED BY <2>1 DEF Credits
<1>4. CASE n > 0 /\ lines' = Append(SubSeq(lines, 1, n - 1), Garbage)
  <2>1. /\ SubSeq(lines, 1, n - 1) \in Seq(Line)
        /\ Len(SubSeq(lines, 1, n - 1)) = n - 1
        /\ \A i \in 1 .. n - 1 : SubSeq(lines, 1, n - 1)[i] = lines[i]
    BY <1>2, <1>4
  <2>2. /\ DOMAIN lines' = 1 .. n /\ lines'[n] = Garbage
        /\ \A i \in 1 .. n - 1 : i \in DOMAIN lines /\ lines'[i] = lines[i]
    BY <1>2, <1>4, <2>1, GarbageIsLine
  <2>3. ~ lines'[n].ok
    BY <2>2, GarbageIsLine
  <2> QED BY <1>2, <2>2, <2>3 DEF Credits
<1> QED BY <1>1, <1>3, <1>4

(* A step that pays credits no batch anew: every batch has one more to go.  *)
LEMMA PaidStep ==
  ASSUME TypeOK, CreditInv, NEW kind \in PaidKinds, Spend(kind),
         \A b \in Batches : Credits(b)' \subseteq Credits(b)
  PROVE  CreditInv'
<1>1. Spent \in Nat /\ Spent' = Spent + 1
  BY SpentIsNat, SpendCounts
<1>2. ASSUME NEW b \in Batches PROVE Cardinality(Credits(b)') <= Spent'
  <2>1. LedgerTypeOK
    BY DEF TypeOK
  <2>2. Cardinality(Credits(b)) \in Nat
    BY <2>1, CreditsFinite
  <2>3. Cardinality(Credits(b)') <= Cardinality(Credits(b)) /\ Cardinality(Credits(b)') \in Nat
    BY <2>1, FewerCredits
  <2>4. Cardinality(Credits(b)) <= Spent + 1
    BY DEF CreditInv
  <2> QED BY <1>1, <2>2, <2>3, <2>4
<1>3. ASSUME NEW b \in Batches PROVE Cardinality(Credits(b)') \in Nat
  BY FewerCredits DEF TypeOK
<1>4. \A b \in Batches : (Cardinality(Credits(b)) <= Spent + 1)'
  BY <1>1, <1>2, <1>3
<1> QED BY <1>1, <1>2, <1>4 DEF CreditInv

(* A step that leaves the ledger alone and after which no batch waits that  *)
(* did not.                                                                 *)
LEMMA FreeStep ==
  ASSUME TypeOK, CreditInv, UNCHANGED lines,
         \A b \in Batches : Awaits(b)' => Awaits(b),
         UNCHANGED budget \/ \E k \in FaultKinds : Spend(k)
  PROVE  CreditInv'
<1>1. \A b \in Batches : Credits(b)' = Credits(b)
  BY DEF Credits
<1>2. CASE Spend("misread") \/ UNCHANGED budget
  <2>1. Spent' = Spent
    BY <1>2, SpendCounts
  <2> QED BY <1>1, <2>1 DEF CreditInv
<1>3. CASE \E k \in PaidKinds : Spend(k)
  BY <1>1, <1>3, PaidStep
<1> QED BY <1>2, <1>3 DEF FaultKinds, PaidKinds

LEMMA CreditInvCredit == TypeOK /\ AppearInv /\ CreditInv /\ Credit => CreditInv'
<1> SUFFICES ASSUME TypeOK, AppearInv, CreditInv, Credit PROVE CreditInv'
  OBVIOUS
<1>1. /\ va.batch \in Batches /\ va.batch \in DOMAIN pending /\ LedgerTypeOK
      /\ UNCHANGED <<pending, written, budget>> /\ va'.pc = "write" /\ va'.batch = va.batch
  BY DEF TypeOK, Credit, fileVars, histVars
<1>2. /\ NextEntry(va.batch) \in Line /\ NextEntry(va.batch).batch = va.batch
      /\ lines' = AddText(NextEntry(va.batch))
  BY <1>1, NextEntryIsLine DEF Credit, AppendOk
<1>3. Spent \in Nat /\ Spent' = Spent
  BY <1>1, SpentIsNat, SpendCounts
<1>4. ASSUME NEW b \in Batches
      PROVE  /\ Cardinality(Credits(b)') <= Spent' + 1
             /\ Awaits(b)' => Cardinality(Credits(b)') <= Spent'
  <2>1. Cardinality(Credits(b)) \in Nat
    BY <1>1, CreditsFinite
  <2>2. /\ Cardinality(Credits(b)') \in Nat
        /\ Cardinality(Credits(b)') <= Cardinality(Credits(b)) + 1
        /\ va.batch # b => Cardinality(Credits(b)') <= Cardinality(Credits(b))
    BY <1>1, <1>2, AppendCredits
  <2>3. /\ Cardinality(Credits(b)) <= Spent + 1
        /\ Awaits(b) => Cardinality(Credits(b)) <= Spent
    BY DEF CreditInv
  <2>4. CASE b = va.batch
    <3>1. Awaits(b) /\ ~ Awaits(b)'
      BY <1>1, <2>4 DEF Awaits, PastCredit, Credit
    <3> QED BY <1>3, <2>1, <2>2, <2>3, <3>1
  <2>5. CASE b # va.batch
    <3>1. Awaits(b)' => Awaits(b)
      BY <1>1, <2>5 DEF Awaits, PastCredit, Credit
    <3> QED BY <1>3, <2>1, <2>2, <2>3, <2>5, <3>1
  <2> QED BY <2>4, <2>5
<1> QED BY <1>3, <1>4 DEF CreditInv

(* An append that fails may still leave a text that reads as the credit; it *)
(* is paid for.                                                             *)
LEMMA CreditInvCreditFails == TypeOK /\ CreditInv /\ CreditFails => CreditInv'
<1> SUFFICES ASSUME TypeOK, CreditInv, CreditFails PROVE CreditInv'
  OBVIOUS
<1>1. va.batch \in Batches /\ va.batch \in DOMAIN pending /\ LedgerTypeOK
  BY DEF TypeOK, CreditFails
<1>2. CASE Spend("io") /\ AppendNothing
  <2>1. \A b \in Batches : Credits(b)' \subseteq Credits(b)
    BY <1>2 DEF AppendNothing, ledgerVars, Credits
  <2> QED BY <1>2, <2>1, PaidStep DEF PaidKinds
<1>3. CASE Spend("torn") /\ AppendTorn(va.batch)
  <2>1. Spent \in Nat /\ Spent' = Spent + 1
    BY <1>3, SpentIsNat, SpendCounts DEF PaidKinds
  <2>2. /\ UNCHANGED <<pending, written>>
        /\ ~ PastCredit(va.batch) /\ \A b \in Batches : ~ PastCredit(b)'
    BY DEF CreditFails, PastCredit, fileVars, histVars, ValidatorIdle
  <2>3. PICK e \in {Garbage, NextEntry(va.batch)} : lines' = AddText(e)
    BY <1>3 DEF AppendTorn
  <2>4. e \in Line /\ (e.ok => e.batch = va.batch)
    BY <1>1, <2>3, GarbageIsLine, NextEntryIsLine
  <2>5. ASSUME NEW b \in Batches PROVE Cardinality(Credits(b)') <= Spent'
                                       /\ Cardinality(Credits(b)') \in Nat
    <3>1. Cardinality(Credits(b)) \in Nat
      BY <1>1, CreditsFinite
    <3>2. /\ Cardinality(Credits(b)') \in Nat
          /\ Cardinality(Credits(b)') <= Cardinality(Credits(b)) + 1
          /\ e.batch # b \/ ~ e.ok => Cardinality(Credits(b)') <= Cardinality(Credits(b))
      BY <1>1, <2>3, <2>4, AppendCredits
    <3>3. CASE b = va.batch
      <4>1. Awaits(b)
        BY <1>1, <2>2, <3>3 DEF Awaits
      <4>2. Cardinality(Credits(b)) <= Spent
        BY <4>1 DEF CreditInv
      <4> QED BY <2>1, <3>1, <3>2, <4>2
    <3>4. CASE b # va.batch
      <4>1. Cardinality(Credits(b)) <= Spent + 1
        BY DEF CreditInv
      <4>2. e.batch # b \/ ~ e.ok
        BY <2>4, <3>4
      <4> QED BY <2>1, <3>1, <3>2, <4>1, <4>2
    <3> QED BY <3>3, <3>4
  <2> QED BY <2>1, <2>5 DEF CreditInv
<1> QED BY <1>2, <1>3 DEF CreditFails

(* The source of a credited batch goes away, or an error pays for the next  *)
(* pass over it.                                                            *)
LEMMA CreditInvUnlink ==
  ASSUME TypeOK, AppearInv, CreditInv, va.pc # "idle", va' = ValidatorIdle,
         UNCHANGED <<lines, written>>, TryDeleteSource
  PROVE  CreditInv'
<1>1. va.batch \in DOMAIN pending /\ DOMAIN pending \subseteq written
      /\ \A b \in Batches : ~ PastCredit(b)'
  BY DEF TypeOK, AppearInv, PastCredit, ValidatorIdle
<1>2. CASE DeleteSource /\ UNCHANGED budget
  <2>1. DOMAIN pending' = DOMAIN pending \ {va.batch}
    BY <1>2 DEF DeleteSource, Without
  <2>2. \A b \in Batches : Awaits(b)' => Awaits(b)
    BY <1>1, <2>1 DEF Awaits, PastCredit
  <2> QED BY <1>2, <2>2, FreeStep
<1>3. CASE Spend("io")
  <2>1. \A b \in Batches : Credits(b)' \subseteq Credits(b)
    BY DEF Credits
  <2> QED BY <1>3, <2>1, PaidStep DEF PaidKinds
<1> QED BY <1>2, <1>3 DEF TryDeleteSource

LEMMA CreditInvValidatorThread ==
  TypeOK /\ AppearInv /\ CreditInv /\ ValidatorThread => CreditInv'
<1> SUFFICES ASSUME TypeOK, AppearInv, CreditInv, ValidatorThread PROVE CreditInv'
  OBVIOUS
<1> USE DEF fileVars, ledgerVars, histVars, durVars
<1>0. va \in ValidatorType /\ ValidatorIdle.pc = "idle"
  BY DEF TypeOK, ValidatorType, ValidatorIdle
<1>a. UNCHANGED budget \/ \E k \in FaultKinds : Spend(k)
  BY StepMeetsAtMostOneFault DEF Next
<1>1. ASSUME NEW b \in Batches, Pick(b) \/ PickUnreadable(b) PROVE CreditInv'
  <2>1. UNCHANGED <<lines, pending, written>> /\ va.pc = "idle" /\ va'.pc \in {"credit", "delete"}
    BY <1>1 DEF Pick, PickUnreadable, ValidatorIdle
  <2>2. \A c \in Batches : Awaits(c)' => Awaits(c)
    BY <2>1 DEF Awaits, PastCredit
  <2> QED BY <1>a, <2>1, <2>2, FreeStep
<1>2. CASE Reject \/ UnlinkSource
  BY <1>2, CreditInvUnlink DEF Reject, UnlinkSource
<1>3. CASE Credit
  BY <1>3, CreditInvCredit
<1>4. CASE CreditFails
  BY <1>4, CreditInvCreditFails
<1>5. CASE OutputFails
  <2>1. \A b \in Batches : Credits(b)' \subseteq Credits(b)
    BY <1>5 DEF OutputFails, Credits
  <2> QED BY <1>5, <2>1, PaidStep DEF OutputFails, PaidKinds
<1>6. CASE StageOutput \/ RenameOutput \/ SyncOutputs
  <2>1. /\ va.pc \in {"write", "staged", "renamed"} /\ va'.pc \in {"staged", "renamed", "unlink"}
        /\ va'.batch = va.batch /\ UNCHANGED <<lines, pending, written>>
    BY <1>0, <1>6 DEF StageOutput, RenameOutput, SyncOutputs, ValidatorType
  <2>2. \A b \in Batches : Awaits(b)' => Awaits(b)
    BY <2>1 DEF Awaits, PastCredit
  <2> QED BY <1>a, <2>1, <2>2, FreeStep
<1> QED BY <1>1, <1>2, <1>3, <1>4, <1>5, <1>6 DEF ValidatorThread

LEMMA CreditInvNext == TypeOK /\ AppearInv /\ CreditInv /\ [Next]_vars => CreditInv'
<1> SUFFICES ASSUME TypeOK, AppearInv, CreditInv, [Next]_vars PROVE CreditInv'
  OBVIOUS
<1> USE DEF fileVars, ledgerVars, histVars, durVars, threadVars
<1>0. UNCHANGED budget \/ \E k \in FaultKinds : Spend(k)
  BY StepMeetsAtMostOneFault
<1>1. CASE RenameBatch
  <2>1. UNCHANGED <<lines, va>> /\ written' = written \cup {wr.batch} /\ wr.batch \notin written
    BY <1>1 DEF RenameBatch, AppearInv
  <2>2. DOMAIN pending' = DOMAIN pending \cup {wr.batch}
    BY <1>1 DEF RenameBatch, Put
  <2>3. \A b \in Batches : Awaits(b)' => Awaits(b)
    BY <2>1, <2>2 DEF Awaits, PastCredit
  <2> QED BY <1>0, <2>1, <2>3, FreeStep
<1>2. CASE (\E b \in Batches : StageBatch(b)) \/ WriteFails \/ SyncPending
           \/ Start \/ StartRefused \/ UNCHANGED vars
  <2>1. UNCHANGED <<lines, pending, written, va>>
    BY <1>2 DEF StageBatch, WriteFails, SyncPending, Start, StartRefused, vars, pipeVars
  <2>2. \A b \in Batches : Awaits(b)' => Awaits(b)
    BY <2>1 DEF Awaits, PastCredit
  <2> QED BY <1>0, <2>1, <2>2, FreeStep
<1>3. CASE ValidatorThread
  BY <1>3, CreditInvValidatorThread
<1>4. CASE Kill
  <2>1. \A b \in Batches : Credits(b)' \subseteq Credits(b)
    BY <1>4 DEF Kill, Credits
  <2> QED BY <1>4, <2>1, PaidStep DEF Kill, PaidKinds
<1>5. CASE PowerLoss
  <2>1. \A b \in Batches : Credits(b)' \subseteq Credits(b)
    BY <1>5, LostCredits DEF PowerLoss, TypeOK
  <2> QED BY <1>5, <2>1, PaidStep DEF PowerLoss, PaidKinds
<1> QED BY <1>1, <1>2, <1>3, <1>4, <1>5 DEF Next, ShotThread

LEMMA CreditInvInit == Init => CreditInv
<1> SUFFICES ASSUME Init PROVE CreditInv
  OBVIOUS
<1>1. DOMAIN lines = {} /\ budget = Budget
  BY DEF Init, LedgerInit
<1>2. Spent = 0
  BY <1>1, PipelineAssumption DEF Spent, Met
<1>3. ASSUME NEW b \in Batches PROVE Cardinality(Credits(b)) = 0
  <2>1. Credits(b) = {}
    BY <1>1 DEF Credits
  <2> QED BY <2>1, FS_EmptySet
<1>4. ASSUME NEW b \in Batches
      PROVE  Cardinality(Credits(b)) <= Spent + 1 /\ Cardinality(Credits(b)) <= Spent
  <2>1. PICK c, m : c = Cardinality(Credits(b)) /\ m = Spent
    OBVIOUS
  <2>2. c = 0 /\ m = 0
    BY <1>2, <1>3, <2>1
  <2>3. c <= m + 1 /\ c <= m
    BY <2>2
  <2> QED BY <2>1, <2>3
<1> QED BY <1>4 DEF CreditInv

(* Whatever happens to the process, the machine and the disk, a batch has   *)
(* at most one credit in the ledger more than there were kills, power       *)
(* failures, I/O errors and torn appends.                                   *)
THEOREM CreditsAreBounded == Spec => []CreditsBounded
<1>1. TypeOK /\ CreditInv => CreditsBounded
  <2> SUFFICES ASSUME TypeOK, CreditInv, NEW b \in Batches
               PROVE  Cardinality(Credits(b)) <=
                        1 + Met("kill") + Met("power") + Met("io") + Met("torn")
    BY DEF CreditsBounded
  <2>1. Cardinality(Credits(b)) <= Spent + 1
    BY DEF CreditInv
  <2>2. \A k \in FaultKinds : Met(k) \in Nat
    BY TypeParts, MetTypes
  <2>3. Spent + 1 = 1 + Met("kill") + Met("power") + Met("io") + Met("torn")
    BY <2>2 DEF Spent, FaultKinds
  <2> QED BY <2>1, <2>3
<1> QED BY <1>1, CreditInvInit, CreditInvNext, TypeCorrect, AppearsOnce, PTL DEF Spec

-----------------------------------------------------------------------------
(* Pipeline implements BatchStore.                                          *)

phaseBar    == [b \in Batches |-> Phase(b)]
releasedBar == {o.batch : o \in outputs}

(* What the refinement needs beyond AppearInv: only useful batches are      *)
(* credited, and what is promoted was credited.                             *)
UsefulInv ==
  /\ va.pc = "credit" => va.batch \in Useful
  /\ va.pc \in {"write", "staged"} => \E i \in DOMAIN credited : credited[i] = va.batch

LEMMA AppendedCredit ==
  ASSUME credited \in Seq(Batches), NEW b \in Batches, credited' = Append(credited, b)
  PROVE  \E i \in DOMAIN credited' : credited'[i] = b
<1>1. Len(credited') = Len(credited) + 1 /\ credited'[Len(credited) + 1] = b
      /\ DOMAIN credited' = 1 .. Len(credited) + 1 /\ Len(credited) \in Nat
  OBVIOUS
<1> QED BY <1>1

LEMMA UsefulInvNext == TypeOK /\ UsefulInv /\ [Next]_vars => UsefulInv'
<1> SUFFICES ASSUME TypeOK, UsefulInv, [Next]_vars PROVE UsefulInv'
  OBVIOUS
<1> USE DEF threadVars, histVars, UsefulInv
<1>0. va \in ValidatorType /\ ValidatorIdle.pc = "idle"
  BY DEF TypeOK, ValidatorType, ValidatorIdle
<1>1. ASSUME NEW b \in Batches, Pick(b) \/ PickUnreadable(b) PROVE UsefulInv'
  <2>1. /\ va'.batch = b /\ va'.pc \in {"credit", "delete"}
        /\ va'.pc = "credit" => b \in Useful
    BY <1>1 DEF Pick, PickUnreadable, ValidatorIdle, Passes
  <2> QED BY <2>1
<1>2. CASE Credit
  <2>1. va.batch \in Batches /\ credited \in Seq(Batches)
    BY <1>2 DEF Credit, TypeOK
  <2>2. va'.pc = "write" /\ va'.batch = va.batch /\ credited' = Append(credited, va.batch)
    BY <1>0, <1>2 DEF Credit, ValidatorType
  <2> QED BY <2>1, <2>2, AppendedCredit
<1>3. CASE StageOutput
  <2>1. va.pc = "write" /\ va'.pc = "staged" /\ va'.batch = va.batch /\ credited' = credited
    BY <1>0, <1>3 DEF StageOutput, ValidatorType
  <2> QED BY <2>1
<1>4. CASE RenameOutput \/ SyncOutputs
  <2>1. va'.pc \in {"renamed", "unlink"}
    BY <1>0, <1>4 DEF RenameOutput, SyncOutputs, ValidatorType
  <2> QED BY <2>1
<1>5. CASE Reject \/ CreditFails \/ OutputFails \/ UnlinkSource \/ Kill \/ PowerLoss
  <2>1. va'.pc = "idle"
    BY <1>0, <1>5 DEF Reject, CreditFails, OutputFails, UnlinkSource, Kill, PowerLoss, StopProcess
  <2> QED BY <2>1
<1>6. CASE ShotThread \/ Start \/ StartRefused \/ UNCHANGED vars
  <2>1. UNCHANGED <<va, credited>>
    BY <1>6 DEF ShotThread, StageBatch, RenameBatch, WriteFails, SyncPending, Start,
                StartRefused, vars, pipeVars
  <2> QED BY <2>1
<1> QED BY <1>1, <1>2, <1>3, <1>4, <1>5, <1>6 DEF Next, ValidatorThread

LEMMA OnlyUsefulCredited == Spec => []UsefulInv
<1>1. Init => UsefulInv
  BY DEF Init, UsefulInv, ValidatorIdle
<1> QED BY <1>1, UsefulInvNext, TypeCorrect, PTL DEF Spec

-----------------------------------------------------------------------------
(* The steps of the pipeline as steps of the store. *)

LEMMA StoreInit == Init => Store!Init
<1> SUFFICES ASSUME Init PROVE Store!Init
  OBVIOUS
<1>1. /\ DOMAIN pending = {} /\ written = {} /\ credited = << >> /\ outputs = {}
      /\ budget = Budget
  BY DEF Init
<1>2. phaseBar = [b \in Batches |-> "absent"]
  BY <1>1 DEF phaseBar, Phase
<1>3. Met("power") = 0
  BY <1>1, PipelineAssumption DEF Met
<1> QED BY <1>1, <1>2, <1>3 DEF Store!Init, phaseBar

(* Only a power failure counts as one. *)
LEMMA PowerKept ==
  ASSUME TypeOK, UNCHANGED budget \/ \E k \in FaultKinds \ {"power"} : Spend(k)
  PROVE  Met("power")' = Met("power")
<1>1. budget \in BudgetType
  BY TypeParts
<1>2. ASSUME NEW k \in FaultKinds \ {"power"}, Spend(k) PROVE Met("power")' = Met("power")
  <2>1. k \in FaultKinds /\ "power" \in FaultKinds \ {k}
    BY DEF FaultKinds
  <2> QED BY <1>1, <1>2, <2>1, SpendTypes
<1>3. CASE UNCHANGED budget
  BY <1>3 DEF Met
<1> QED BY <1>2, <1>3

(* A step that changes neither the directory, the histories nor the outputs *)
(* changes nothing of the store.                                            *)
LEMMA StoreStutter ==
  ASSUME DOMAIN pending' = DOMAIN pending, UNCHANGED <<written, credited, outputs>>,
         Met("power")' = Met("power")
  PROVE  UNCHANGED Store!storeVars
BY DEF Store!storeVars, Phase

(* The source of a batch goes away, or stays when unlink fails. *)
LEMMA StoreDrop ==
  ASSUME AppearInv, NEW b \in Batches, b \in DOMAIN pending,
         DOMAIN pending' \in {DOMAIN pending, DOMAIN pending \ {b}},
         UNCHANGED <<written, credited, outputs>>, Met("power")' = Met("power")
  PROVE  Store!Drop(b) \/ UNCHANGED Store!storeVars
<1>1. CASE DOMAIN pending' = DOMAIN pending
  BY <1>1, StoreStutter
<1>2. CASE DOMAIN pending' = DOMAIN pending \ {b}
  <2>1. b \in written
    BY DEF AppearInv
  <2>2. Phase(b) = "stored" /\ Phase(b)' = "gone"
    BY <1>2, <2>1 DEF Phase
  <2>3. \A c \in Batches : c # b => Phase(c)' = Phase(c)
    BY <1>2 DEF Phase
  <2>4. phaseBar' = [phaseBar EXCEPT ![b] = "gone"] /\ phaseBar[b] = "stored"
    BY <2>2, <2>3 DEF phaseBar
  <2> QED BY <2>4 DEF Store!Drop, phaseBar
<1> QED BY <1>1, <1>2

LEMMA StoreStep ==
  ASSUME TypeOK, AppearInv, UsefulInv, Next
  PROVE  Store!Next \/ UNCHANGED Store!storeVars
<1> USE DEF ledgerVars, histVars, fileVars, threadVars
<1>0. va \in ValidatorType
  BY TypeParts
<1>a. ~ PowerLoss => Met("power")' = Met("power")
  BY NoPowerSpent, PowerKept
<1>1. CASE RenameBatch
  <2>0. PICK b : b = wr.batch
    OBVIOUS
  <2>1. b \in Batches /\ b \notin written
    BY <1>1, <2>0 DEF RenameBatch, TypeOK, AppearInv
  <2>2. written' = written \cup {b} /\ DOMAIN pending' = DOMAIN pending \cup {b}
    BY <1>1, <2>0 DEF RenameBatch, Put
  <2>3. Phase(b) = "absent" /\ Phase(b)' = "stored"
    <3>1. b \notin DOMAIN pending
      BY <2>1 DEF AppearInv
    <3>2. Phase(b) = "absent"
      BY <2>1, <3>1 DEF Phase
    <3>3. b \in DOMAIN pending'
      BY <2>2
    <3> QED BY <3>2, <3>3 DEF Phase
  <2>4. \A c \in Batches : c # b => Phase(c)' = Phase(c)
    BY <2>2 DEF Phase
  <2>5. phaseBar' = [phaseBar EXCEPT ![b] = "stored"] /\ phaseBar[b] = "absent"
    BY <2>1, <2>3, <2>4 DEF phaseBar
  <2>6. UNCHANGED <<credited, outputs, budget>>
    BY <1>1 DEF RenameBatch
  <2>7. Met("power")' = Met("power")
    BY <2>6 DEF Met
  <2>8. Store!Store(b)
    BY <2>5, <2>6, <2>7 DEF Store!Store, phaseBar
  <2> QED BY <2>1, <2>8 DEF Store!Next
<1>2. CASE (\E b \in Batches : StageBatch(b) \/ Pick(b) \/ PickUnreadable(b))
           \/ WriteFails \/ SyncPending \/ CreditFails \/ StageOutput \/ SyncOutputs
           \/ Kill \/ Start \/ StartRefused
  <2>1. UNCHANGED <<pending, written, credited, outputs>>
    BY <1>2 DEF StageBatch, Pick, PickUnreadable, WriteFails, SyncPending, CreditFails,
                StageOutput, SyncOutputs, Kill, Start, StartRefused
  <2>2. ~ PowerLoss \/ Met("power")' = Met("power")
    <3>1. CASE \E b \in Batches : StageBatch(b)
      BY <3>1 DEF StageBatch, PowerLoss, StopProcess, WriterIdle
    <3>2. CASE \E b \in Batches : Pick(b) \/ PickUnreadable(b)
      BY <3>2 DEF Pick, PickUnreadable, PowerLoss, StopProcess
    <3>3. CASE WriteFails \/ SyncPending \/ CreditFails \/ StageOutput \/ SyncOutputs
      BY <3>3 DEF WriteFails, SyncPending, CreditFails, StageOutput, SyncOutputs,
                  PowerLoss, StopProcess
    <3>4. CASE Kill
      <4>1. UNCHANGED budget \/ \E k \in FaultKinds \ {"power"} : Spend(k)
        BY <3>4 DEF Kill, FaultKinds
      <4> QED BY <4>1, PowerKept
    <3>5. CASE Start \/ StartRefused
      BY <3>5 DEF Start, StartRefused, PowerLoss, StopProcess
    <3> QED BY <1>2, <3>1, <3>2, <3>3, <3>4, <3>5
  <2> QED BY <1>a, <2>1, <2>2, StoreStutter
<1>3. CASE Reject \/ OutputFails \/ UnlinkSource
  <2>1. va.batch \in Batches /\ va.batch \in DOMAIN pending
    BY <1>3 DEF Reject, OutputFails, UnlinkSource, TypeOK
  <2>2. DOMAIN pending' \in {DOMAIN pending, DOMAIN pending \ {va.batch}}
    BY <1>3 DEF Reject, OutputFails, UnlinkSource, TryDeleteSource, DeleteSource, Without
  <2>3. UNCHANGED <<written, credited, outputs>> /\ proc' = proc /\ proc = "up"
    BY <1>3 DEF Reject, OutputFails, UnlinkSource
  <2>4. ~ PowerLoss
    BY <2>3 DEF PowerLoss, StopProcess
  <2> QED BY <1>a, <2>1, <2>2, <2>3, <2>4, StoreDrop DEF Store!Next
<1>4. CASE Credit
  <2>0. PICK b : b = va.batch
    OBVIOUS
  <2>1. b \in Batches /\ b \in DOMAIN pending /\ b \in Useful
    BY <1>4, <2>0 DEF Credit, TypeOK, UsefulInv
  <2>2. UNCHANGED <<pending, written, outputs, budget>> /\ credited' = Append(credited, b)
    BY <1>4, <2>0 DEF Credit
  <2>3. phaseBar' = phaseBar /\ phaseBar[b] = "stored"
    BY <2>1, <2>2 DEF phaseBar, Phase
  <2>4. Met("power")' = Met("power")
    BY <2>2 DEF Met
  <2>5. Store!Credit(b)
    BY <2>1, <2>2, <2>3, <2>4 DEF Store!Credit, phaseBar
  <2> QED BY <2>1, <2>5 DEF Store!Next
<1>5. CASE RenameOutput
  <2>0. PICK b : b = va.batch
    OBVIOUS
  <2>1. b \in Batches /\ b \in DOMAIN pending /\ \E i \in DOMAIN credited : credited[i] = b
    BY <1>5, <2>0 DEF RenameOutput, TypeOK, UsefulInv
  <2>2. PICK n \in 1 .. Cardinality(outputs) + 1 : outputs' = outputs \cup {Proof(n)}
    BY <1>5 DEF RenameOutput
  <2>3. Proof(n).batch = b
    BY <2>0 DEF Proof
  <2>4. releasedBar' = releasedBar \cup {b}
    BY <2>2, <2>3 DEF releasedBar
  <2>5. UNCHANGED <<pending, written, credited, budget>>
    BY <1>5 DEF RenameOutput
  <2>6. phaseBar' = phaseBar /\ phaseBar[b] = "stored"
    BY <2>1, <2>5 DEF phaseBar, Phase
  <2>7. Met("power")' = Met("power")
    BY <2>5 DEF Met
  <2>8. Store!Release(b)
    BY <2>1, <2>4, <2>5, <2>6, <2>7 DEF Store!Release, Store!Credited, phaseBar, releasedBar
  <2> QED BY <2>1, <2>8 DEF Store!Next
<1>6. CASE PowerLoss
  <2>1. Met("power")' = Met("power") + 1
    <3>1. budget \in BudgetType /\ Spend("power") /\ "power" \in FaultKinds
      BY <1>6, TypeParts DEF PowerLoss, FaultKinds
    <3> QED BY <3>1, SpendTypes
  <2>2. UNCHANGED <<written, credited>> /\ outputs' \subseteq outputs
    BY <1>6 DEF PowerLoss
  <2>3. DOMAIN pending \subseteq written /\ DOMAIN pending' \subseteq written
    BY <1>6, RestoredPending DEF AppearInv
  <2>4. \A b \in Batches : Phase(b)' = "absent" <=> Phase(b) = "absent"
    BY <2>2, <2>3 DEF Phase
  <2>5. phaseBar' \in [Batches -> {"absent", "stored", "gone"}]
    BY DEF phaseBar, Phase
  <2>6. \A b \in Batches : phaseBar'[b] = "absent" <=> phaseBar[b] = "absent"
    BY <2>4 DEF phaseBar
  <2>7. releasedBar' \subseteq releasedBar
    BY <2>2 DEF releasedBar
  <2>8. Store!PowerFailure
    BY <2>1, <2>2, <2>5, <2>6, <2>7 DEF Store!PowerFailure, phaseBar, releasedBar
  <2> QED BY <2>8 DEF Store!Next
<1> QED BY <1>1, <1>2, <1>3, <1>4, <1>5, <1>6 DEF Next, ShotThread, ValidatorThread

(* The pipeline implements the batch store, whatever faults it meets: each  *)
(* batch is stored once, only stored, useful batches are credited, only     *)
(* credited ones are released, and a batch that has left the store stays    *)
(* gone unless a power failure brings it back.                              *)
THEOREM PipelineImplementsStore == Spec => ImplementsStore
<1>1. Init => Store!Init
  BY StoreInit
<1>2. TypeOK /\ AppearInv /\ UsefulInv /\ [Next]_vars => [Store!Next]_(Store!storeVars)
  <2>1. ASSUME UNCHANGED vars PROVE UNCHANGED Store!storeVars
    <3>1. UNCHANGED <<pending, written, credited, outputs, budget>>
      BY <2>1 DEF vars, pipeVars, fileVars, histVars
    <3>2. Met("power")' = Met("power")
      BY <3>1 DEF Met
    <3> QED BY <3>1, <3>2, StoreStutter
  <2> QED BY <2>1, StoreStep
<1> QED BY <1>1, <1>2, AppearsOnce, OnlyUsefulCredited, TypeCorrect, PTL
        DEF Spec, ImplementsStore, Store!Spec
=============================================================================
