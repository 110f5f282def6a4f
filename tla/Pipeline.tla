------------------------------ MODULE Pipeline ------------------------------
(***************************************************************************)
(* The proof pipeline (cpp/src/pipeline.cpp): the shot thread stores       *)
(* batches in notvalidated/, the validator thread checks the oldest one,   *)
(* credits it in the ledger and promotes it to outputs/.  One step is one  *)
(* system call that changes a file, so the two threads, kills of the       *)
(* process and power failures interleave between them.                     *)
(*                                                                         *)
(* Abstractions.                                                           *)
(*  - A batch appears once: its name has a timestamp and 128 bits of the   *)
(*    hash of its header, and unique_path adds _2, _3, ... to a name in    *)
(*    use.  Batches are numbers in the order of their file names, which is *)
(*    not the order they are written in.                                   *)
(*  - validate_file re-derives everything it checks from the batch and the *)
(*    daemon's circuit: a batch the daemon wrote fails the check only when *)
(*    it was written under another circuit, and passes the usefulness gate *)
(*    when it is in Useful.                                                *)
(*  - `budget` bounds the faults: kills, power failures, appends torn      *)
(*    inside a line, errors of a system call ("io") and reads that end     *)
(*    early unnoticed, of the ledger or of a directory ("misread").  In a  *)
(*    step that meets an error several of its calls may fail.              *)
(***************************************************************************)
EXTENDS Ledger, FiniteSets

CONSTANTS
  Useful,    \* the batches whose statistics pass evaluate_gate
  Circuits,  \* circuit configurations the daemon may be started with
  Budget     \* bound: how many faults of each kind, and of all kinds

ASSUME PipelineAssumption ==
  /\ Batches \subseteq Nat
  /\ Useful \subseteq Batches
  /\ Circuits # {}
  /\ Budget \in [kill : Nat, io : Nat, torn : Nat, power : Nat, misread : Nat, all : Nat]

VARIABLES
  pending,    \* notvalidated/: batch -> [mtime, circuit]
  outputs,    \* outputs/: records [batch, copy, seq, hash]
  tmps,       \* staged files: <<directory, batch, process>>
  proc,       \* the daemon: "up", "down" or "refused" (exit on a bad ledger)
  circuit,    \* cfg_ of the running daemon
  wr,         \* shot thread in write_pending: [pc, batch]
  va,         \* validator thread in validate_file: [pc, batch, seq, hash]
  lastMtime,  \* mtime of the newest staged batch
  written,    \* history: the batches that have appeared
  credited,   \* history: the batches credited, in order
  forfeited,  \* history: batches given up: other circuit, read or write error,
              \* output not on the disk when the power failed
  safe,       \* history: batches whose directory entry reached the disk
  unsynced,   \* history: batches promoted while the sync of outputs/ failed
  undeleted,  \* history: staged files whose deletion failed
  durPending, \* the part of notvalidated/ that a power failure restores
  durOutputs, \* the part of outputs/ that a power failure keeps
  budget      \* what is left of Budget

durVars    == <<durPending, durOutputs>>
fileVars   == <<pending, outputs, tmps, durVars>>
threadVars == <<wr, va>>
histVars   == <<written, credited, forfeited, safe, unsynced, undeleted>>
pipeVars   == <<fileVars, proc, circuit, threadVars, lastMtime, histVars, budget>>
vars       == <<ledgerVars, pipeVars>>

Put(f, k, v) == [x \in DOMAIN f \cup {k} |-> IF x = k THEN v ELSE f[x]]
Without(f, k) == [x \in DOMAIN f \ {k} |-> f[x]]

WriterIdle    == [pc |-> "idle", batch |-> NoBatch]
ValidatorIdle == [pc |-> "idle", batch |-> NoBatch, seq |-> 0, hash |-> Genesis]

Spend(kind) == /\ budget[kind] > 0 /\ budget.all > 0
               /\ budget' = [[budget EXCEPT ![kind] = @ - 1] EXCEPT !.all = @ - 1]

(* The faults of a kind met so far. *)
Met(kind) == Budget[kind] - budget[kind]

(* write_file_atomic stages a file under the name it will have, with the    *)
(* process id added.                                                        *)
Staged(dir, b) == <<dir, b, Met("kill") + Met("power")>>

(* unlink() of a staged file whose write failed; it may fail, too. *)
DropStaged(f) == \/ tmps' = tmps \ {f} /\ UNCHANGED undeleted
                 \/ undeleted' = undeleted \cup {f} /\ UNCHANGED tmps

-----------------------------------------------------------------------------
(* write_pending, on the shot thread. *)

(* write_file_atomic stages the record beside its final path.  Its mtime is *)
(* taken here; two batches may get the same one.                            *)
StageBatch(b) ==
  /\ proc = "up" /\ wr.pc = "idle"
  /\ b \notin written
  /\ wr' = [pc |-> "staged", batch |-> b]
  /\ lastMtime' \in {lastMtime, lastMtime + 1}
  /\ tmps' = tmps \cup {Staged("notvalidated", b)}
  /\ UNCHANGED <<ledgerVars, pending, outputs, proc, circuit, va, histVars,
                 durVars, budget>>

(* rename(): the batch appears, complete, under its final name. *)
RenameBatch ==
  /\ proc = "up" /\ wr.pc = "staged"
  /\ pending' = Put(pending, wr.batch, [mtime |-> lastMtime, circuit |-> circuit])
  /\ tmps' = tmps \ {Staged("notvalidated", wr.batch)}
  /\ written' = written \cup {wr.batch}
  /\ wr' = [wr EXCEPT !.pc = "renamed"]
  /\ UNCHANGED <<ledgerVars, outputs, proc, circuit, va, lastMtime, credited, forfeited,
                 safe, unsynced, undeleted, durVars, budget>>

(* open, write, fsync or rename fails: the staged file is unlinked and      *)
(* shot_loop logs the error; the share has no batch.                        *)
WriteFails ==
  /\ proc = "up" /\ wr.pc = "staged"
  /\ Spend("io")
  /\ DropStaged(Staged("notvalidated", wr.batch))
  /\ wr' = WriterIdle
  /\ UNCHANGED <<ledgerVars, pending, outputs, proc, circuit, va, lastMtime,
                 written, credited, forfeited, safe, unsynced, durVars>>

(* What notvalidated/ holds now, and what was unlinked from it, is on the   *)
(* disk.                                                                    *)
PendingDurable == durPending' = pending /\ safe' = safe \cup DOMAIN pending

(* fsync_dir(notvalidated_dir()): nobody looks at its result, nor it at     *)
(* that of fsync.                                                           *)
SyncPending ==
  /\ proc = "up" /\ wr.pc = "renamed"
  /\ \/ PendingDurable /\ UNCHANGED budget
     \/ Spend("io") /\ UNCHANGED <<durPending, safe>>
  /\ wr' = WriterIdle
  /\ UNCHANGED <<ledgerVars, pending, outputs, tmps, proc, circuit, va, lastMtime,
                 written, credited, forfeited, unsynced, undeleted, durOutputs>>

ShotThread == (\E b \in Batches : StageBatch(b)) \/ RenameBatch \/ WriteFails \/ SyncPending

-----------------------------------------------------------------------------
(* validate_next and validate_file, on the validator thread. *)

(* std::sort on (mtime, name). *)
Before(a, b) == \/ pending[a].mtime < pending[b].mtime
                \/ pending[a].mtime = pending[b].mtime /\ a < b

Oldest_ByName(b) == \A o \in DOMAIN pending : b <= o

(* files.front(): the batch validate_next takes. *)
Oldest(b) == \A o \in DOMAIN pending \ {b} : Before(b, o)

Passes_NoGate(b) == pending[b].circuit = circuit

(* list_dir and stat have found every batch; or they have missed an older   *)
(* one, which validate_next takes no notice of.                             *)
Listed(b) == \/ Oldest(b) /\ UNCHANGED budget
             \/ ~ Oldest(b) /\ Spend("misread")

(* The verdict of validate_file: written under this circuit, and useful. *)
Passes(b) == pending[b].circuit = circuit /\ b \in Useful

(* validate_next lists the directory and takes the oldest batch, and        *)
(* validate_file reads it and decides.  No file changes before the next     *)
(* step.                                                                    *)
Pick(b) ==
  /\ proc = "up" /\ va.pc = "idle"
  /\ b \in DOMAIN pending /\ Listed(b)
  /\ va' = [ValidatorIdle EXCEPT
              !.batch = b,
              !.pc = IF Passes(b) THEN "credit" ELSE "delete"]
  /\ forfeited' = IF pending[b].circuit # circuit THEN forfeited \cup {b} ELSE forfeited
  /\ UNCHANGED <<ledgerVars, fileVars, proc, circuit, wr, lastMtime, written, credited,
                 safe, unsynced, undeleted>>

(* The file cannot be read: it is deleted like an invalid one. *)
PickUnreadable(b) ==
  /\ proc = "up" /\ va.pc = "idle"
  /\ b \in DOMAIN pending
  /\ Spend(IF Oldest(b) THEN "io" ELSE "misread")
  /\ va' = [ValidatorIdle EXCEPT !.batch = b, !.pc = "delete"]
  /\ forfeited' = forfeited \cup {b}
  /\ UNCHANGED <<ledgerVars, fileVars, proc, circuit, wr, lastMtime, written, credited,
                 safe, unsynced, undeleted>>

DeleteSource_Kept == UNCHANGED pending

(* delete_file(path) of the batch being validated. *)
DeleteSource == pending' = Without(pending, va.batch)

(* unlink() may fail; no caller retries it before the next pass. *)
TryDeleteSource == \/ DeleteSource /\ UNCHANGED budget
                   \/ Spend("io") /\ UNCHANGED pending

Reject_KeepsFile ==
  /\ proc = "up" /\ va.pc = "delete"
  /\ va' = ValidatorIdle
  /\ UNCHANGED <<ledgerVars, fileVars, proc, circuit, wr, lastMtime, histVars, budget>>

(* INVALID or USELESS: the batch is deleted. *)
Reject ==
  /\ proc = "up" /\ va.pc = "delete"
  /\ TryDeleteSource
  /\ va' = ValidatorIdle
  /\ UNCHANGED <<ledgerVars, outputs, tmps, proc, circuit, wr, lastMtime, histVars, durVars>>

(* The ledger entry is appended, and its seq and hash kept for the proof. *)
Credit ==
  /\ proc = "up" /\ va.pc = "credit"
  /\ AppendOk(va.batch)
  /\ credited' = Append(credited, va.batch)
  /\ va' = [va EXCEPT !.pc = "write", !.seq = nextSeq, !.hash = HashOf(NextEntry(va.batch))]
  /\ UNCHANGED <<fileVars, proc, circuit, wr, lastMtime, written, forfeited, safe,
                 unsynced, undeleted, budget>>

(* LEDGER ERROR: keep the pending file, retry on the next pass. *)
CreditFails ==
  /\ proc = "up" /\ va.pc = "credit"
  /\ \/ Spend("io") /\ AppendNothing
     \/ Spend("torn") /\ AppendTorn(va.batch)
  /\ va' = ValidatorIdle
  /\ UNCHANGED <<fileVars, proc, circuit, wr, lastMtime, histVars>>

(* write_file_atomic stages the promoted record beside its final path. *)
StageOutput ==
  /\ proc = "up" /\ va.pc = "write"
  /\ tmps' = tmps \cup {Staged("outputs", va.batch)}
  /\ va' = [va EXCEPT !.pc = "staged"]
  /\ UNCHANGED <<ledgerVars, pending, outputs, proc, circuit, wr, lastMtime,
                 histVars, durVars, budget>>

(* OUTPUT WRITE FAILED: the staged file and the source are deleted, if that *)
(* does not fail as well; the ledger entry stays.                           *)
OutputFails ==
  /\ proc = "up" /\ va.pc = "staged"
  /\ Spend("io")
  /\ DropStaged(Staged("outputs", va.batch))
  /\ \/ DeleteSource /\ forfeited' = forfeited \cup {va.batch}
     \/ UNCHANGED <<pending, forfeited>>
  /\ va' = ValidatorIdle
  /\ UNCHANGED <<ledgerVars, outputs, proc, circuit, wr, lastMtime, written, credited,
                 safe, unsynced, durVars>>

(* unique_path: the first free one of name, name_2, name_3, ... *)
Taken(b, n) == \E o \in outputs : o.batch = b /\ o.copy = n

FirstFree(b, n) == ~ Taken(b, n) /\ \A m \in 1 .. n - 1 : Taken(b, m)

Proof_LoadedTail(n) == [batch |-> va.batch, copy |-> n, seq |-> nextSeq, hash |-> lastHash]

(* The record promoted as copy n: its proof names the ledger entry. *)
Proof(n) == [batch |-> va.batch, copy |-> n, seq |-> va.seq, hash |-> va.hash]

RenameOutput ==
  /\ proc = "up" /\ va.pc = "staged"
  /\ \E n \in 1 .. Cardinality(outputs) + 1 :
       FirstFree(va.batch, n) /\ outputs' = outputs \cup {Proof(n)}
  /\ tmps' = tmps \ {Staged("outputs", va.batch)}
  /\ va' = [va EXCEPT !.pc = "renamed"]
  /\ UNCHANGED <<ledgerVars, pending, proc, circuit, wr, lastMtime, histVars,
                 durVars, budget>>

OutputsDurable_Unsynced ==
  durOutputs' = durOutputs /\ unsynced' = unsynced \ {o.batch : o \in outputs}

(* What outputs/ holds now is on the disk. *)
OutputsDurable ==
  durOutputs' = outputs /\ unsynced' = unsynced \ {o.batch : o \in outputs}

(* fsync_dir(outputs_dir()): the source is unlinked whether it syncs or not. *)
SyncOutputs ==
  /\ proc = "up" /\ va.pc = "renamed"
  /\ \/ OutputsDurable /\ UNCHANGED budget
     \/ Spend("io") /\ unsynced' = unsynced \cup {va.batch} /\ UNCHANGED durOutputs
  /\ va' = [va EXCEPT !.pc = "unlink"]
  /\ UNCHANGED <<ledgerVars, pending, outputs, tmps, proc, circuit, wr, lastMtime,
                 written, credited, forfeited, safe, undeleted, durPending>>

(* The source is deleted; a failure is only noted in the log line. *)
UnlinkSource ==
  /\ proc = "up" /\ va.pc = "unlink"
  /\ TryDeleteSource
  /\ va' = ValidatorIdle
  /\ UNCHANGED <<ledgerVars, outputs, tmps, proc, circuit, wr, lastMtime, histVars, durVars>>

ValidatorThread ==
  \/ \E b \in Batches : Pick(b) \/ PickUnreadable(b)
  \/ Reject \/ Credit \/ CreditFails \/ StageOutput \/ OutputFails
  \/ RenameOutput \/ SyncOutputs \/ UnlinkSource

-----------------------------------------------------------------------------
(* Kills, power failures and the start of the daemon. *)

(* The process is gone; the files are as it left them. *)
StopProcess ==
  /\ proc = "up"
  /\ proc' = "down"
  /\ wr' = WriterIdle /\ va' = ValidatorIdle
  /\ nextSeq' = 1 /\ lastHash' = Genesis

Kill ==
  /\ StopProcess
  /\ Spend("kill")
  /\ UNCHANGED <<lines, open, fileVars, circuit, lastMtime, histVars>>

(* The machine is gone: renames and unlinks that no fsync_dir covered may   *)
(* be undone, and the unsynced end of the ledger is cut off.  (Staged files *)
(* stay: to lose one as well does no harm.)                                 *)
PowerLoss ==
  /\ StopProcess
  /\ Spend("power")
  /\ LoseSuffix
  /\ \E gone \in SUBSET (outputs \ durOutputs) : outputs' = outputs \ gone
  /\ \E gone \in SUBSET (DOMAIN pending \ DOMAIN durPending),
        back \in SUBSET (DOMAIN durPending \ DOMAIN pending) :
       pending' = [b \in (DOMAIN pending \ gone) \cup back |->
                     IF b \in back THEN durPending[b] ELSE pending[b]]
  /\ durPending' = pending' /\ durOutputs' = outputs'
  /\ forfeited' = forfeited \cup unsynced /\ unsynced' = {}
  /\ UNCHANGED <<tmps, circuit, lastMtime, written, credited, safe, undeleted>>

SweepTmps_OldPattern == tmps' = tmps /\ undeleted' = {} /\ UNCHANGED budget

(* cleanup_tmp_files. *)
SweepTmps == tmps' = {} /\ undeleted' = {} /\ UNCHANGED budget

(* Its deletions may fail, and no one looks whether they did. *)
SweepFails == tmps' \in SUBSET tmps /\ undeleted' = tmps'

(* Daemon::run: load the ledger tail from the lines that can be read;       *)
(* sweep the staged files; run, perhaps with another circuit.               *)
Start ==
  /\ proc = "down"
  /\ proc' = "up"
  /\ \E n \in 0 .. Len(lines) :
       /\ Loads(n) /\ LoadTail(n)
       /\ \/ n = Len(lines) /\ SweepTmps
          \/ n = Len(lines) /\ SweepFails /\ tmps # {} /\ Spend("io")
          \/ n # Len(lines) /\ SweepFails /\ Spend("misread")
  /\ circuit' \in Circuits
  /\ UNCHANGED <<lines, open, pending, outputs, durVars, threadVars, lastMtime,
                 written, credited, forfeited, safe, unsynced>>

(* A line that does not parse ends the daemon. *)
StartRefused ==
  /\ proc = "down" /\ ~ Loads(Len(lines))
  /\ proc' = "refused"
  /\ UNCHANGED <<ledgerVars, fileVars, circuit, threadVars, lastMtime, histVars, budget>>

-----------------------------------------------------------------------------
Init ==
  /\ LedgerInit
  /\ pending = << >>
  /\ outputs = {}
  /\ tmps = {}
  /\ proc = "up"
  /\ circuit \in Circuits
  /\ wr = WriterIdle
  /\ va = ValidatorIdle
  /\ lastMtime = 0
  /\ written = {}
  /\ credited = << >>
  /\ forfeited = {}
  /\ safe = {}
  /\ unsynced = {}
  /\ undeleted = {}
  /\ durPending = << >>
  /\ durOutputs = {}
  /\ budget = Budget

Next == ShotThread \/ ValidatorThread \/ Kill \/ PowerLoss \/ Start \/ StartRefused

Spec == Init /\ [][Next]_vars

(* validator_loop runs until it is told to stop, so the validator takes its *)
(* next step eventually; the errors it meets are bounded by the budget.     *)
FairSpec == Spec /\ WF_vars(ValidatorThread)

-----------------------------------------------------------------------------
(* Properties. *)

(* The state has the types of the code's files and fields. *)
TypeOK ==
  /\ LedgerTypeOK
  /\ DOMAIN pending \subseteq Batches
  /\ \A b \in DOMAIN pending : pending[b] \in [mtime : Nat, circuit : Circuits]
  /\ DOMAIN durPending \subseteq Batches
  /\ \A b \in DOMAIN durPending : durPending[b] \in [mtime : Nat, circuit : Circuits]
  /\ outputs \subseteq [batch : Batches, copy : Nat, seq : Nat, hash : Hash]
  /\ durOutputs \subseteq outputs
  /\ tmps \subseteq {"notvalidated", "outputs"} \X Batches \X Nat
  /\ proc \in {"up", "down", "refused"}
  /\ circuit \in Circuits
  /\ wr \in [pc : {"idle", "staged", "renamed"}, batch : Batches \cup {NoBatch}]
  /\ va \in [pc : {"idle", "delete", "credit", "write", "staged", "renamed", "unlink"},
             batch : Batches \cup {NoBatch}, seq : Nat, hash : Hash]
  /\ wr.pc # "idle" => wr.batch \in Batches
  /\ va.pc # "idle" => va.batch \in DOMAIN pending
  /\ lastMtime \in Nat
  /\ written \subseteq Batches /\ credited \in Seq(Batches)
  /\ forfeited \subseteq Batches /\ safe \subseteq Batches /\ unsynced \subseteq Batches
  /\ undeleted \subseteq {"notvalidated", "outputs"} \X Batches \X Nat
  /\ budget \in [kill : 0 .. Budget.kill, io : 0 .. Budget.io, torn : 0 .. Budget.torn,
                 power : 0 .. Budget.power, misread : 0 .. Budget.misread,
                 all : 0 .. Budget.all]

(* No append was torn and no power failure cut the ledger: every line of it *)
(* is one that append reported as written.                                  *)
Whole == Met("torn") = 0 /\ Met("power") = 0

(* Besides, every start read all of it, and every pass the whole directory. *)
AllRead == Met("misread") = 0

(* The ledger file verifies from genesis to its last line at every moment,  *)
(* across kills, restarts and I/O errors: the tail the daemon holds in      *)
(* memory, or loads, always continues the file.                             *)
ChainVerifies == Whole /\ AllRead => VerifyChain

(* Whatever has been torn, cut off or not been read: up to the first        *)
(* damaged line, the chain is broken only where a start did not read the    *)
(* whole file, and at no more places than there were such starts.           *)
BrokenOnlyByMisreads == Cardinality(ChainBreaks) <= Met("misread")

(* A line of the ledger credits o's share, with the number and the hash the *)
(* record's proof gives.                                                    *)
Backed(o) ==
  \E i \in DOMAIN lines :
    /\ lines[i].ok /\ lines[i].seq = o.seq
    /\ HashOf(lines[i]) = o.hash /\ lines[i].batch = o.batch

(* The ledger check of the third-party audit (asqs/verify.py): of the lines *)
(* up to the first with the record's number all can be read, and that line  *)
(* has the record's hash and credits its share.                             *)
Audited(o) ==
  \E i \in DOMAIN lines :
    /\ \A j \in 1 .. i : lines[j].ok
    /\ \A j \in 1 .. i - 1 : lines[j].seq # o.seq
    /\ lines[i].seq = o.seq /\ HashOf(lines[i]) = o.hash /\ lines[i].batch = o.batch

(* Every promoted record has its line in the ledger, at any moment and      *)
(* after any history of kills, restarts, I/O errors and starts that read    *)
(* only a part of the file; and it passes the audit as long as every start  *)
(* read the whole file.                                                     *)
OutputsAudit ==
  Whole => \A o \in outputs : Backed(o) /\ (AllRead => Audited(o))

HasOutput(b) == \E o \in outputs : o.batch = b

(* A useful batch that reached the disk is never lost: it is pending or it  *)
(* is promoted, unless it was given up as belonging to another circuit,     *)
(* because it could not be read or its output not written, or because the   *)
(* power failed after an error in the sync of its output.                   *)
NoUsefulLost ==
  \A b \in safe \cap Useful : b \in DOMAIN pending \/ HasOutput(b) \/ b \in forfeited

(* A batch is credited again only after a kill, a power failure or an       *)
(* error: its credits in the ledger beyond the first are paid for by them.  *)
CreditsBounded ==
  \A b \in Batches :
    Cardinality(Credits(b)) <= 1 + Met("kill") + Met("power") + Met("io") + Met("torn")

(* While the daemon runs, a staged file belongs to the write in progress,   *)
(* or its deletion has failed in this run: what a crash left behind, and    *)
(* what an earlier run failed to delete, is gone.                           *)
InProgress ==
  (IF wr.pc = "staged" THEN {Staged("notvalidated", wr.batch)} ELSE {})
  \cup (IF va.pc = "staged" THEN {Staged("outputs", va.batch)} ELSE {})

NoStaleTmp == proc = "up" => tmps \subseteq InProgress \cup undeleted

(* No batch is handled while a batch with an older mtime waits, as long as  *)
(* every pass saw the whole directory.                                      *)
NeverCutInLine ==
  [][\A b \in DOMAIN pending : b \notin DOMAIN pending' /\ proc' = "up" /\ AllRead
       => \A o \in DOMAIN pending : pending[o].mtime >= pending[b].mtime]_vars

(* A pending batch is eventually handled, as long as the daemon runs. *)
PendingDrains ==
  \A b \in Batches : (b \in DOMAIN pending) ~> (b \notin DOMAIN pending \/ proc # "up")

-----------------------------------------------------------------------------
(* The pipeline implements the batch store. *)

Phase(b) == IF b \in DOMAIN pending THEN "stored"
            ELSE IF b \in written THEN "gone"
            ELSE "absent"

Store == INSTANCE BatchStore WITH
           phase <- [b \in Batches |-> Phase(b)],
           credits <- credited,
           released <- {o.batch : o \in outputs},
           failures <- Met("power")

ImplementsStore == Store!Spec
=============================================================================
