----------------------------- MODULE Dashboard -----------------------------
(***************************************************************************)
(* The web dashboard (website/serve.py): the background indexer that lists *)
(* and parses the outputs, and the request handlers, one thread each, that *)
(* share a cache of compressed answers.  Beside them the pipeline adds     *)
(* outputs, each behind its ledger line, and the cross-check               *)
(* (python/asqs/reference.py) replaces them in place, by renames.          *)
(*                                                                         *)
(* Abstraction.  The content of a file is its version, and so is its       *)
(* modification time with its size: two versions differ in one of them.    *)
(* A row of the index is its ledger flag and the version it was computed   *)
(* from.  The order in which files are parsed, by size, is any order.      *)
(* Between two steps of a thread any other may run: the interpreter        *)
(* switches between them at any operation.  A damaged file does not parse; *)
(* an output whose name was taken has no line under its own, as old ones.  *)
(***************************************************************************)
EXTENDS Integers, FiniteSets, Sequences

CONSTANTS
  Files,        \* the outputs there may be
  Old,          \* those that were there, without a line in today's ledger
  Damaged,      \* those that do not parse
  Handlers,     \* the threads that serve requests
  CacheLimit,   \* GZIP_CACHE_LIMIT
  MaxVersion,   \* bound: contents of one output
  MaxRequests   \* bound: requests served

ASSUME DashboardAssumption ==
  /\ Old \subseteq Files /\ Damaged \subseteq Files
  /\ MaxVersion \in Nat \ {0}
  \* Threads that evict at the same time find something to evict.
  /\ IsFiniteSet(Handlers) /\ CacheLimit \in Nat /\ CacheLimit + 1 >= Cardinality(Handlers)

VARIABLES
  version,   \* of each output in the directory; None while it is not there
  credited,  \* the outputs with a ledger line
  indexer,   \* its thread: the next step, what it read, and what is left to parse
  rows,      \* batches
  indexed,
  indexing,
  gzCache,   \* gz_cache: of each cached file, stamp and content
  gzOrder,   \* gz_order
  handler,   \* each handler: its step, its request, and what it holds
  requests   \* counts requests up to their bound

indexVars == <<indexer, rows, indexed, indexing>>
cacheVars == <<gzCache, gzOrder>>
serveVars == <<handler, requests>>
dirVars == <<version, credited>>
vars == <<version, credited, indexer, rows, indexed, indexing,
          gzCache, gzOrder, handler, requests>>

None == 0
Nobody == ""

Present == {f \in Files : version[f] # None}
-----------------------------------------------------------------------------
(* The other programs. *)

(* The validator appends the ledger line, and then renames the output. *)
Credit(f) ==
  /\ version[f] = None /\ f \notin credited
  /\ credited' = credited \cup {f}
  /\ UNCHANGED <<version, indexVars, cacheVars, serveVars>>

Promote(f) ==
  /\ version[f] = None /\ f \in credited
  /\ version' = [version EXCEPT ![f] = 1]
  /\ UNCHANGED <<credited, indexVars, cacheVars, serveVars>>

(* The cross-check adds its reference block to an output. *)
CrossCheck(f) ==
  /\ f \notin Damaged
  /\ version[f] # None /\ version[f] < MaxVersion
  /\ version' = [version EXCEPT ![f] = @ + 1]
  /\ UNCHANGED <<credited, indexVars, cacheVars, serveVars>>
-----------------------------------------------------------------------------
(* The indexer. *)

ReadLedger ==
  /\ indexer.pc = "ledger"
  /\ indexer' = [indexer EXCEPT !.pc = "list", !.ledger = credited]
  /\ UNCHANGED <<rows, indexed, indexing, dirVars, cacheVars, serveVars>>

(* A row before its file is parsed. *)
Skeleton(f, known) == [ledger |-> f \in known, parsed |-> None, error |-> FALSE]

(* The listing becomes the index at once, under the lock. *)
List ==
  /\ indexer.pc = "list"
  /\ rows' = [f \in Present |-> Skeleton(f, indexer.ledger)]
  /\ indexed' = 0
  /\ indexer' = [indexer EXCEPT !.pc = "next", !.todo = Present]
  /\ UNCHANGED <<indexing, dirVars, cacheVars, serveVars>>

Parse(f) ==
  /\ indexer.pc = "next" /\ f \in indexer.todo
  /\ indexer' = [indexer EXCEPT !.pc = "row", !.todo = @ \ {f}, !.file = f,
                                !.read = version[f]]
  /\ UNCHANGED <<rows, indexed, indexing, dirVars, cacheVars, serveVars>>

(* Mutant: the flag of the skeleton is not carried over. *)
Enriched_NoLedger(row) == [ledger |-> FALSE, parsed |-> indexer.read, error |-> FALSE]

(* The row of the file parsed; only the ledger's part is kept.              *)
Enriched(row) == [ledger |-> row.ledger, parsed |-> indexer.read, error |-> FALSE]

Enrich ==
  /\ indexer.pc = "row"
  /\ rows' = [rows EXCEPT ![indexer.file] =
                IF indexer.file \in Damaged THEN [@ EXCEPT !.error = TRUE] ELSE Enriched(@)]
  /\ indexer' = [indexer EXCEPT !.pc = "count", !.file = Nobody, !.read = None]
  /\ UNCHANGED <<indexed, indexing, dirVars, cacheVars, serveVars>>

CountRow ==
  /\ indexer.pc = "count"
  /\ indexed' = indexed + 1
  /\ indexer' = [indexer EXCEPT !.pc = "next"]
  /\ UNCHANGED <<rows, indexing, dirVars, cacheVars, serveVars>>

(* All are parsed: after its sleep the indexer starts anew. *)
Rest ==
  /\ indexer.pc = "next" /\ indexer.todo = {}
  /\ indexing' = FALSE
  /\ indexer' = [indexer EXCEPT !.pc = "ledger", !.ledger = {}]
  /\ UNCHANGED <<rows, indexed, dirVars, cacheVars, serveVars>>

Index == ReadLedger \/ List \/ (\E f \in Files : Parse(f)) \/ Enrich \/ CountRow \/ Rest
-----------------------------------------------------------------------------
(* The handlers. *)

Idle == [pc |-> "idle", file |-> Nobody, stamp |-> None, content |-> None, victim |-> Nobody]

Goes(h, next) == handler' = [handler EXCEPT ![h] = next]

(* The file is there, and its time and size are taken.  A client that does  *)
(* not accept gzip gets the file as it is read.                             *)
Request(h, f) ==
  /\ handler[h].pc = "idle" /\ f \in Present
  /\ requests < MaxRequests /\ requests' = requests + 1
  /\ \E next \in {"look", "plain"} :
        Goes(h, [Idle EXCEPT !.pc = next, !.file = f, !.stamp = version[f]])
  /\ UNCHANGED <<dirVars, indexVars, cacheVars>>

ReadPlain(h) ==
  /\ handler[h].pc = "plain"
  /\ Goes(h, [handler[h] EXCEPT !.pc = "answer", !.content = version[handler[h].file]])
  /\ UNCHANGED <<requests, dirVars, indexVars, cacheVars>>

(* Mutant: a cached answer is not checked against the file. *)
Hit_AnyStamp(f, stamp) == f \in DOMAIN gzCache

Hit(f, stamp) == f \in DOMAIN gzCache /\ gzCache[f].stamp = stamp

Look(h) ==
  /\ handler[h].pc = "look"
  /\ LET me == handler[h]
     IN  IF Hit(me.file, me.stamp)
         THEN Goes(h, [me EXCEPT !.pc = "answer", !.content = gzCache[me.file].content])
         ELSE Goes(h, [me EXCEPT !.pc = "read"])
  /\ UNCHANGED <<requests, dirVars, indexVars, cacheVars>>

Read(h) ==
  /\ handler[h].pc = "read"
  /\ Goes(h, [handler[h] EXCEPT !.pc = "store", !.content = version[handler[h].file]])
  /\ UNCHANGED <<requests, dirVars, indexVars, cacheVars>>

Store(h) ==
  /\ handler[h].pc = "store"
  /\ LET me == handler[h]
     IN  gzCache' = [f \in DOMAIN gzCache \cup {me.file} |->
                       IF f = me.file THEN [stamp |-> me.stamp, content |-> me.content]
                       ELSE gzCache[f]]
  /\ Goes(h, [handler[h] EXCEPT !.pc = "order"])
  /\ UNCHANGED <<requests, gzOrder, dirVars, indexVars>>

(* Mutant: a key that is in the cache is taken to be in the order. *)
Ordered_Once(f) == IF f \in DOMAIN gzCache THEN gzOrder ELSE Append(gzOrder, f)

(* A key that is stored again is in the order twice. *)
Ordered(f) == Append(gzOrder, f)

Order(h) ==
  /\ handler[h].pc = "order"
  /\ gzOrder' = Ordered(handler[h].file)
  /\ Goes(h, [handler[h] EXCEPT !.pc = "full"])
  /\ UNCHANGED <<requests, gzCache, dirVars, indexVars>>

(* The condition of the loop that evicts. *)
Full(h) ==
  /\ handler[h].pc = "full"
  /\ Goes(h, [handler[h] EXCEPT !.pc = IF Len(gzOrder) > CacheLimit THEN "pop" ELSE "answer"])
  /\ UNCHANGED <<requests, dirVars, indexVars, cacheVars>>

(* The first key leaves the order, and then the cache. *)
PopOrder(h) ==
  /\ handler[h].pc = "pop"
  /\ gzOrder' = Tail(gzOrder)
  /\ Goes(h, [handler[h] EXCEPT !.pc = "drop", !.victim = Head(gzOrder)])
  /\ UNCHANGED <<requests, gzCache, dirVars, indexVars>>

PopCache(h) ==
  /\ handler[h].pc = "drop"
  /\ gzCache' = [f \in DOMAIN gzCache \ {handler[h].victim} |-> gzCache[f]]
  /\ Goes(h, [handler[h] EXCEPT !.pc = "full", !.victim = Nobody])
  /\ UNCHANGED <<requests, gzOrder, dirVars, indexVars>>

Send(h) ==
  /\ handler[h].pc = "answer"
  /\ Goes(h, Idle)
  /\ UNCHANGED <<requests, dirVars, indexVars, cacheVars>>

Serve(h) == ReadPlain(h) \/ Look(h) \/ Read(h) \/ Store(h) \/ Order(h) \/ Full(h)
              \/ PopOrder(h) \/ PopCache(h) \/ Send(h)
-----------------------------------------------------------------------------
Init ==
  /\ version = [f \in Files |-> IF f \in Old THEN 1 ELSE None]
  /\ credited = {}
  /\ indexer = [pc |-> "ledger", ledger |-> {}, todo |-> {}, file |-> Nobody, read |-> None]
  /\ rows = [f \in {} |-> Skeleton(f, {})]
  /\ indexed = 0
  /\ indexing = TRUE
  /\ gzCache = [f \in {} |-> [stamp |-> None, content |-> None]]
  /\ gzOrder = << >>
  /\ handler = [h \in Handlers |-> Idle]
  /\ requests = 0

Next ==
  \/ \E f \in Files : Credit(f) \/ Promote(f) \/ CrossCheck(f)
  \/ Index
  \/ \E h \in Handlers : Serve(h) \/ \E f \in Files : Request(h, f)

Spec == Init /\ [][Next]_vars

(* The indexer's thread goes round for ever; nothing else must happen. *)
FairSpec == Spec /\ WF_vars(Index)
-----------------------------------------------------------------------------
(* Properties. *)

(* An answer is never older than the file was when its request came: the    *)
(* stamp is taken before the file is read, so that what is cached under it  *)
(* is at least as new, whichever handlers store one key at the same time    *)
(* and whenever the file is replaced.                                       *)
FreshAnswers ==
  /\ \A h \in Handlers : handler[h].pc = "answer" => handler[h].content >= handler[h].stamp
  /\ \A f \in DOMAIN gzCache : gzCache[f].content >= gzCache[f].stamp

(* While no request is served the cache is within its limit, although keys  *)
(* enter the order and the cache, and leave them, in separate steps and may *)
(* be in the order twice: no entry is left without a key that evicts it.    *)
CacheBounded ==
  (\A h \in Handlers : handler[h].pc = "idle") => Cardinality(DOMAIN gzCache) <= CacheLimit

(* A file that stays as it is gets its row, and with it what was parsed of  *)
(* this version, pass after pass; and its ledger flag ends up right, also   *)
(* where the ledger was read before the line and the directory after the    *)
(* file.                                                                    *)
IndexCatchesUp ==
  \A f \in Files : \A v \in 1 .. MaxVersion :
    <>[](version[f] = v) =>
      /\ []<>(f \in DOMAIN rows /\ IF f \in Damaged THEN rows[f].error ELSE rows[f].parsed = v)
      /\ <>[](f \in DOMAIN rows /\ rows[f].ledger = (f \in credited))
=============================================================================
