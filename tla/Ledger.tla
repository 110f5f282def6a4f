------------------------------- MODULE Ledger -------------------------------
(***************************************************************************)
(* The hash-chained ledger (cpp/include/ledger.h): the file ledger.jsonl   *)
(* and the chain tail the process keeps in memory.                         *)
(*                                                                         *)
(* Abstractions.                                                           *)
(*  - A line is an entry or garbage: text jparse rejects.  Of an entry     *)
(*    only seq, prev_hash and the batch it credits are kept.               *)
(*  - SHA-256 has no collisions: the hash of an entry is its contents, and *)
(*    prev_hash is such a hash, so a hash is the history it commits to.    *)
(*  - `open` says that the last line of the file has no newline yet: the   *)
(*    next append continues that line, and two texts on one line are       *)
(*    garbage.                                                             *)
(***************************************************************************)
EXTENDS Integers, Sequences

CONSTANTS Batches,   \* the batches that may be credited
          NoBatch    \* the batch of a line that is no entry

ASSUME BatchesAssumption == NoBatch \notin Batches

VARIABLES
  lines,     \* the lines of ledger.jsonl
  open,      \* the last line is unterminated
  nextSeq,   \* next_seq_
  lastHash   \* last_hash_

ledgerVars == <<lines, open, nextSeq, lastHash>>

Hash == Seq(Nat \X Batches)

Line == [ok : BOOLEAN, seq : Nat, prev : Hash, batch : Batches \cup {NoBatch}]

Genesis == << >>

Entry(n, h, b) == [ok |-> TRUE, seq |-> n, prev |-> h, batch |-> b]

Garbage == [ok |-> FALSE, seq |-> 0, prev |-> Genesis, batch |-> NoBatch]

HashOf(e) == Append(e.prev, <<e.seq, e.batch>>)

-----------------------------------------------------------------------------
(* Ledger::init.  getline ends at the end of the file and at a read error   *)
(* alike, and a file that cannot be opened counts as a new one: init goes   *)
(* by the first n lines, as many as it has read, and notices nothing.       *)

(* Each of the first n lines parses. *)
Loads(n) == \A i \in 1 .. n : lines[i].ok

(* The tail of the chain after n lines: seq and prev_hash of the next one. *)
SeqAfter(n)  == IF n = 0 THEN 1 ELSE lines[n].seq + 1
HashAfter(n) == IF n = 0 THEN Genesis ELSE HashOf(lines[n])

LoadTail_Count(n) == nextSeq' = n /\ lastHash' = HashAfter(n)

LoadTail(n) == nextSeq' = SeqAfter(n) /\ lastHash' = HashAfter(n)

-----------------------------------------------------------------------------
(* Ledger::append. *)

NextEntry(b) == Entry(nextSeq, lastHash, b)

(* The file after text that reads as `line` was added at its end. *)
AddText(line) ==
  IF open THEN [lines EXCEPT ![Len(lines)] = Garbage] ELSE Append(lines, line)

Advance_NoSeq(b) == /\ nextSeq' = nextSeq
                    /\ lastHash' = HashOf(NextEntry(b))

(* The in-memory tail after a successful append. *)
Advance(b) == /\ nextSeq' = nextSeq + 1
              /\ lastHash' = HashOf(NextEntry(b))

(* The stream is good after the flush: the whole line is in the file. *)
AppendOk(b) ==
  /\ lines' = AddText(NextEntry(b))
  /\ open' = FALSE
  /\ Advance(b)

(* ofstream could not open the file, or nothing of the line was written. *)
AppendNothing == UNCHANGED ledgerVars

(* The write stopped inside the line: a part of the text, or all of it but *)
(* the newline, is in the file, and append returns false.                  *)
AppendTorn(b) ==
  /\ lines' \in {AddText(Garbage), AddText(NextEntry(b))}
  /\ open' = TRUE
  /\ UNCHANGED <<nextSeq, lastHash>>

-----------------------------------------------------------------------------
(* The file after a power failure: append does not fsync, so any suffix of *)
(* it may be missing, and the cut may fall inside a line.                  *)
LoseSuffix ==
  \E n \in 0 .. Len(lines) :
    \/ lines' = SubSeq(lines, 1, n) /\ open' = (open /\ n = Len(lines))
    \/ n > 0 /\ lines' = SubSeq(lines, 1, n) /\ open' = TRUE
    \/ n > 0 /\ lines' = Append(SubSeq(lines, 1, n - 1), Garbage) /\ open' = TRUE

-----------------------------------------------------------------------------
(* Ledger::verify_chain on the file: seq counts from 1 and every prev_hash *)
(* is the hash of the line before.                                         *)
ChainLink(i) ==
  /\ lines[i].ok
  /\ lines[i].seq = i
  /\ lines[i].prev = HashAfter(i - 1)

VerifyChain == \A i \in DOMAIN lines : ChainLink(i)

(* The undamaged lines at the head of the file that do not continue the one *)
(* before.                                                                  *)
Continues(i) == lines[i].seq = SeqAfter(i - 1) /\ lines[i].prev = HashAfter(i - 1)

ChainBreaks == {i \in DOMAIN lines : Loads(i) /\ ~ Continues(i)}

(* How often the file credits b. *)
Credits(b) == {i \in DOMAIN lines : lines[i].ok /\ lines[i].batch = b}

LedgerTypeOK == /\ lines \in Seq(Line)
                /\ \A i \in DOMAIN lines : lines[i].ok => lines[i].batch \in Batches
                /\ open \in BOOLEAN
                /\ open => lines # << >>
                /\ nextSeq \in Nat \ {0}
                /\ lastHash \in Hash

LedgerInit == /\ lines = << >>
              /\ open = FALSE
              /\ nextSeq = 1
              /\ lastHash = Genesis
=============================================================================
