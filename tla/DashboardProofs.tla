-------------------------- MODULE DashboardProofs --------------------------
(***************************************************************************)
(* Proofs about Dashboard for any number of files, versions, handlers and  *)
(* requests: no answer is older than its file was when the request came,   *)
(* and between requests the cache is within its limit.                     *)
(***************************************************************************)
EXTENDS Dashboard, FunctionTheorems, FiniteSetTheorems, SequenceTheorems, TLAPS

Steps == {"idle", "look", "plain", "read", "store", "order", "full", "pop", "drop", "answer"}

HandlerRecord == [pc : Steps, file : Files \cup {Nobody}, stamp : Nat,
                  content : Nat, victim : Files \cup {Nobody}]

(* The types of what the handlers share and of what each of them holds. *)
Types ==
  /\ version \in [Files -> Nat]
  /\ gzOrder \in Seq(Files)
  /\ DOMAIN gzCache \subseteq Files
  /\ \A f \in DOMAIN gzCache : gzCache[f].stamp \in Nat /\ gzCache[f].content \in Nat
  /\ handler \in [Handlers -> HandlerRecord]
  /\ \A h \in Handlers : handler[h].pc # "idle" => handler[h].file \in Files
  /\ \A h \in Handlers : handler[h].pc = "drop" => handler[h].victim \in Files

(* Until a handler has its content the file is at least as new as the stamp, *)
(* and from then on the content is; so is what is cached.                    *)
Fresh ==
  /\ \A h \in Handlers :
       /\ handler[h].pc \in {"look", "plain", "read"}
            => handler[h].stamp <= version[handler[h].file]
       /\ handler[h].pc \in {"store", "order", "full", "pop", "drop", "answer"}
            => handler[h].stamp <= handler[h].content
  /\ \A f \in DOMAIN gzCache : gzCache[f].stamp <= gzCache[f].content

(* The handlers at one of the steps of S. *)
At(S) == {h \in Handlers : handler[h].pc \in S}

(* Every cached key is in the order, or about to enter it, or has left it   *)
(* and is about to leave the cache.                                         *)
Covered ==
  \A f \in DOMAIN gzCache :
    \/ \E i \in 1 .. Len(gzOrder) : gzOrder[i] = f
    \/ \E h \in At({"order"}) : handler[h].file = f
    \/ \E h \in At({"drop"}) : handler[h].victim = f

(* The order is over the limit by no more than the handlers that evict, and *)
(* there is something to evict for each that is about to.                   *)
Counted ==
  /\ Len(gzOrder) <= CacheLimit + Cardinality(At({"full", "pop", "drop"}))
  /\ Cardinality(At({"pop"})) <= Len(gzOrder)

CacheIInv == Types /\ Fresh /\ Covered /\ Counted

-----------------------------------------------------------------------------
(* Counting handlers. *)

LEMMA AtFinite ==
  ASSUME NEW S
  PROVE  /\ IsFiniteSet(At(S))
         /\ Cardinality(At(S)) \in Nat
         /\ Cardinality(At(S)) <= Cardinality(Handlers)
<1>1. At(S) \in SUBSET Handlers /\ IsFiniteSet(Handlers)
  BY DashboardAssumption DEF At
<1> QED BY <1>1, FS_Subset, FS_CardinalityType

(* A handler that goes from one step to the next is counted there. *)
LEMMA AtNext ==
  ASSUME handler \in [Handlers -> HandlerRecord], NEW h \in Handlers, NEW next, Goes(h, next), NEW S
  PROVE  /\ Cardinality(At(S)') \in Nat
         /\ Cardinality(At(S)') = Cardinality(At(S))
              - (IF handler[h].pc \in S THEN 1 ELSE 0) + (IF next.pc \in S THEN 1 ELSE 0)
<1> DEFINE A == At(S)
           B == A \ {h}
<1>1. IsFiniteSet(A) /\ Cardinality(A) \in Nat /\ (h \in A <=> handler[h].pc \in S)
  BY AtFinite DEF At
<1>2. At(S)' = IF next.pc \in S THEN B \cup {h} ELSE B
  BY DEF At, Goes
<1>3. IsFiniteSet(B) /\ h \notin B
      /\ Cardinality(B) = IF h \in A THEN Cardinality(A) - 1 ELSE Cardinality(A)
  <2> HIDE DEF A
  <2> QED BY <1>1, FS_RemoveElement
<1>4. Cardinality(B) \in Nat
  BY <1>3, FS_CardinalityType
<1>5. Cardinality(B \cup {h}) = Cardinality(B) + 1
  <2> HIDE DEF B
  <2> QED BY <1>3, FS_AddElement
<1> HIDE DEF A, B
<1>6. CASE next.pc \in S
  BY <1>1, <1>2, <1>3, <1>4, <1>5, <1>6 DEF A
<1>7. CASE next.pc \notin S
  BY <1>1, <1>2, <1>3, <1>4, <1>7 DEF A
<1> QED BY <1>6, <1>7

-----------------------------------------------------------------------------
(* What each step of a handler needs of the invariant. *)

(* Outside the handlers' steps only the files change, and they get newer. *)
LEMMA OthersKeep ==
  ASSUME Types,
         \/ \E f \in Files : Credit(f) \/ Promote(f) \/ CrossCheck(f)
         \/ Index
         \/ UNCHANGED vars
  PROVE  /\ UNCHANGED <<gzCache, gzOrder, handler>>
         /\ version' \in [Files -> Nat]
         /\ \A f \in Files : version[f] <= version'[f]
<1>1. version \in [Files -> Nat] /\ \A f \in Files : version[f] <= version[f]
  BY DEF Types
<1>2. ASSUME NEW f \in Files, Credit(f) \/ Promote(f) \/ CrossCheck(f)
      PROVE  /\ UNCHANGED <<gzCache, gzOrder, handler>>
             /\ version' \in [Files -> Nat]
             /\ \A g \in Files : version[g] <= version'[g]
  BY <1>1, <1>2 DEF Credit, Promote, CrossCheck, None, cacheVars, serveVars
<1>3. ASSUME Index PROVE UNCHANGED <<gzCache, gzOrder, handler, version>>
  BY <1>3 DEF Index, ReadLedger, List, Parse, Enrich, CountRow, Rest, cacheVars, serveVars,
              dirVars
<1> QED BY <1>1, <1>2, <1>3 DEF vars

(* A handler's step changes no file and no other handler. *)
LEMMA ServeKeeps ==
  ASSUME Types, NEW h \in Handlers, Serve(h) \/ \E f \in Files : Request(h, f)
  PROVE  /\ version' = version
         /\ \A k \in Handlers \ {h} : handler'[k] = handler[k]
BY DEF Types, Serve, Request, ReadPlain, Look, Read, Store, Order, Full, PopOrder, PopCache,
       Send, Goes, dirVars

LEMMA PopsNonempty ==
  ASSUME Types, Counted, NEW h \in Handlers, handler[h].pc = "pop"
  PROVE  /\ gzOrder # << >>
         /\ Len(gzOrder) \in Nat \ {0}
<1>1. h \in At({"pop"})
  BY DEF At
<1>2. /\ IsFiniteSet(At({"pop"})) /\ Cardinality(At({"pop"})) \in Nat
      /\ Cardinality(At({"pop"})) # 0
  BY <1>1, AtFinite, FS_EmptySet
<1>3. Len(gzOrder) \in Nat
  BY LenProperties DEF Types
<1> QED BY <1>2, <1>3, EmptySeq DEF Counted

(* The record a handler goes to is of its type. *)
LEMMA HandlerGoes ==
  ASSUME handler \in [Handlers -> HandlerRecord], NEW h \in Handlers, NEW next \in HandlerRecord,
         Goes(h, next)
  PROVE  handler' \in [Handlers -> HandlerRecord] /\ handler'[h] = next
BY DEF Goes

LEMMA ServeTypes ==
  ASSUME Types, Counted, NEW h \in Handlers, Serve(h) \/ \E f \in Files : Request(h, f)
  PROVE  Types'
<1> DEFINE me == handler[h]
<1>1. /\ version \in [Files -> Nat] /\ gzOrder \in Seq(Files) /\ DOMAIN gzCache \subseteq Files
      /\ \A f \in DOMAIN gzCache : gzCache[f].stamp \in Nat /\ gzCache[f].content \in Nat
      /\ handler \in [Handlers -> HandlerRecord] /\ me \in HandlerRecord
      /\ me.pc # "idle" => me.file \in Files
      /\ me.pc = "drop" => me.victim \in Files
  BY DEF Types, HandlerRecord
<1>2. version' = version /\ \A k \in Handlers \ {h} : handler'[k] = handler[k]
  BY ServeKeeps
<1>3. ASSUME NEW next \in HandlerRecord, Goes(h, next),
             next.pc # "idle" => next.file \in Files,
             next.pc = "drop" => next.victim \in Files,
             gzOrder' \in Seq(Files), DOMAIN gzCache' \subseteq Files,
             \A f \in DOMAIN gzCache' : gzCache'[f].stamp \in Nat /\ gzCache'[f].content \in Nat
      PROVE  Types'
  <2>1. handler' \in [Handlers -> HandlerRecord] /\ handler'[h] = next
    BY <1>1, <1>3, HandlerGoes
  <2>2. \A k \in Handlers : /\ handler'[k].pc # "idle" => handler'[k].file \in Files
                            /\ handler'[k].pc = "drop" => handler'[k].victim \in Files
    BY <1>2, <1>3, <2>1 DEF Types
  <2> QED BY <1>1, <1>2, <1>3, <2>1, <2>2 DEF Types, HandlerRecord
<1>4. ASSUME NEW next \in HandlerRecord, Goes(h, next), next.file \in Files,
             next.pc # "drop", UNCHANGED <<gzOrder, gzCache>>
      PROVE  Types'
  BY <1>1, <1>3, <1>4
<1>5. Idle \in HandlerRecord
  BY DEF Idle, HandlerRecord, Steps, None
<1>6. ASSUME NEW f \in Files, Request(h, f) PROVE Types'
  <2>1. PICK next \in {"look", "plain"} :
           Goes(h, [Idle EXCEPT !.pc = next, !.file = f, !.stamp = version[f]])
    BY <1>6 DEF Request
  <2>2. [Idle EXCEPT !.pc = next, !.file = f, !.stamp = version[f]] \in HandlerRecord
    BY <1>1, <1>5 DEF HandlerRecord, Steps
  <2>3. UNCHANGED <<gzOrder, gzCache>>
    BY <1>6 DEF Request, cacheVars
  <2> QED BY <1>4, <1>5, <2>1, <2>2, <2>3 DEF HandlerRecord
<1>7. ASSUME NEW v \in Nat, NEW pc \in Steps, me.file \in Files, pc # "drop",
             Goes(h, [me EXCEPT !.pc = pc, !.content = v]), UNCHANGED <<gzOrder, gzCache>>
      PROVE  Types'
  <2>1. [me EXCEPT !.pc = pc, !.content = v] \in HandlerRecord
        /\ [me EXCEPT !.pc = pc, !.content = v].file = me.file
        /\ [me EXCEPT !.pc = pc, !.content = v].pc = pc
    BY <1>1, <1>7 DEF HandlerRecord
  <2> QED BY <1>4, <1>7, <2>1
<1>8. ASSUME NEW pc \in Steps, me.file \in Files, pc # "drop" PROVE
         /\ [me EXCEPT !.pc = pc] \in HandlerRecord
         /\ [me EXCEPT !.pc = pc].file \in Files
         /\ [me EXCEPT !.pc = pc].pc = pc
  BY <1>1, <1>8 DEF HandlerRecord
<1>9. ASSUME ReadPlain(h) PROVE Types'
  BY <1>1, <1>7, <1>9 DEF ReadPlain, cacheVars, Steps
<1>10. ASSUME Look(h) PROVE Types'
  <2>1. me.file \in Files /\ UNCHANGED <<gzOrder, gzCache>>
    BY <1>1, <1>10 DEF Look, cacheVars
  <2>2. CASE Hit(me.file, me.stamp)
    BY <1>1, <1>7, <1>10, <2>1, <2>2 DEF Look, Hit, Steps
  <2>3. CASE ~ Hit(me.file, me.stamp)
    BY <1>4, <1>8, <1>10, <2>1, <2>3 DEF Look, Steps
  <2> QED BY <2>2, <2>3
<1>11. ASSUME Read(h) PROVE Types'
  BY <1>1, <1>7, <1>11 DEF Read, cacheVars, Steps
<1>12. ASSUME Store(h) PROVE Types'
  <2>1. me.file \in Files /\ me.stamp \in Nat /\ me.content \in Nat /\ gzOrder' = gzOrder
    BY <1>1, <1>12 DEF Store, HandlerRecord
  <2>2. /\ DOMAIN gzCache' \subseteq Files
        /\ \A f \in DOMAIN gzCache' : gzCache'[f].stamp \in Nat /\ gzCache'[f].content \in Nat
    BY <1>1, <1>12, <2>1 DEF Store
  <2>3. Goes(h, [me EXCEPT !.pc = "order"]) /\ "order" \in Steps
    BY <1>12 DEF Store, Steps
  <2> QED BY <1>1, <1>3, <1>8, <2>1, <2>2, <2>3
<1>13. ASSUME Order(h) PROVE Types'
  <2>1. me.file \in Files /\ gzCache' = gzCache /\ gzOrder' = Append(gzOrder, me.file)
    BY <1>1, <1>13 DEF Order, Ordered
  <2>2. gzOrder' \in Seq(Files)
    BY <1>1, <2>1, AppendProperties
  <2>3. Goes(h, [me EXCEPT !.pc = "full"]) /\ "full" \in Steps
    BY <1>13 DEF Order, Steps
  <2> QED BY <1>1, <1>3, <1>8, <2>1, <2>2, <2>3
<1>14. ASSUME Full(h) PROVE Types'
  <2>1. PICK pc \in {"pop", "answer"} : Goes(h, [me EXCEPT !.pc = pc])
    BY <1>14 DEF Full
  <2> QED BY <1>1, <1>4, <1>8, <1>14, <2>1 DEF Full, cacheVars, Steps
<1>15. ASSUME PopOrder(h) PROVE Types'
  <2>1. gzOrder # << >>
    BY <1>15, PopsNonempty DEF PopOrder
  <2>2. Head(gzOrder) \in Files /\ gzOrder' \in Seq(Files) /\ gzCache' = gzCache
    BY <1>1, <1>15, <2>1, HeadTailProperties DEF PopOrder
  <2> DEFINE next == [me EXCEPT !.pc = "drop", !.victim = Head(gzOrder)]
  <2>3. next \in HandlerRecord /\ next.file \in Files /\ next.victim \in Files
    BY <1>1, <1>15, <2>2 DEF PopOrder, HandlerRecord, Steps
  <2>4. Goes(h, next)
    BY <1>15 DEF PopOrder
  <2> HIDE DEF next
  <2> QED BY <1>1, <1>3, <2>2, <2>3, <2>4
<1>16. ASSUME PopCache(h) PROVE Types'
  <2> DEFINE next == [me EXCEPT !.pc = "full", !.victim = Nobody]
  <2>1. next \in HandlerRecord /\ next.file \in Files /\ next.pc = "full"
    BY <1>1, <1>16 DEF PopCache, HandlerRecord, Steps
  <2>2. /\ DOMAIN gzCache' \subseteq Files /\ gzOrder' = gzOrder
        /\ \A f \in DOMAIN gzCache' : gzCache'[f].stamp \in Nat /\ gzCache'[f].content \in Nat
    BY <1>1, <1>16 DEF PopCache
  <2>3. Goes(h, next)
    BY <1>16 DEF PopCache
  <2> HIDE DEF next
  <2> QED BY <1>1, <1>3, <2>1, <2>2, <2>3
<1>17. ASSUME Send(h) PROVE Types'
  BY <1>1, <1>3, <1>5, <1>17 DEF Send, Idle, cacheVars
<1> QED BY <1>6, <1>9, <1>10, <1>11, <1>12, <1>13, <1>14, <1>15, <1>16, <1>17 DEF Serve

-----------------------------------------------------------------------------
(* Every step keeps the rest of the invariant. *)

LEMMA ServeFresh ==
  ASSUME Types, Types', Fresh, NEW h \in Handlers, Serve(h) \/ \E f \in Files : Request(h, f)
  PROVE  Fresh'
<1> DEFINE Before(m) == m.pc \in {"look", "plain", "read"} => m.stamp <= version[m.file]
           After(m) == m.pc \in {"store", "order", "full", "pop", "drop", "answer"}
                          => m.stamp <= m.content
           me == handler[h]
<1>1. /\ me \in HandlerRecord /\ handler \in [Handlers -> HandlerRecord]
      /\ version \in [Files -> Nat]
      /\ \A f \in Files : version[f] \in Nat
      /\ me.pc # "idle" => me.file \in Files
  BY DEF Types
<1>2. version' = version /\ \A k \in Handlers \ {h} : handler'[k] = handler[k]
  BY ServeKeeps
<1>3. Before(me) /\ After(me) /\ \A f \in DOMAIN gzCache : gzCache[f].stamp <= gzCache[f].content
  BY DEF Fresh
<1>4. ASSUME Before(handler'[h]), After(handler'[h]),
             \A f \in DOMAIN gzCache' : gzCache'[f].stamp <= gzCache'[f].content
      PROVE  Fresh'
  <2>1. \A k \in Handlers : Before(handler'[k]) /\ After(handler'[k])
    BY <1>2, <1>4 DEF Fresh
  <2> QED BY <1>2, <1>4, <2>1 DEF Fresh
<1>5. ASSUME NEW f \in Files, Request(h, f) PROVE Fresh'
  <2>1. PICK next \in {"look", "plain"} :
           Goes(h, [Idle EXCEPT !.pc = next, !.file = f, !.stamp = version[f]])
    BY <1>5 DEF Request
  <2>2. Before(handler'[h]) /\ After(handler'[h])
    BY <1>1, <2>1 DEF Goes, Idle
  <2> QED BY <1>3, <1>4, <1>5, <2>2 DEF Request, cacheVars
<1>6. ASSUME ReadPlain(h) \/ Read(h) PROVE Fresh'
  <2>1. gzCache' = gzCache
    BY <1>6 DEF ReadPlain, Read, cacheVars
  <2>2. PICK next \in {"answer", "store"} :
           handler'[h] = [me EXCEPT !.pc = next, !.content = version[me.file]]
    BY <1>1, <1>6 DEF ReadPlain, Read, Goes
  <2>3. me.pc \in {"plain", "read"}
    BY <1>6 DEF ReadPlain, Read
  <2>4. me.stamp <= version[me.file]
    BY <1>1, <1>3, <2>3
  <2>5. Before(handler'[h]) /\ After(handler'[h])
    BY <1>1, <2>2, <2>4 DEF HandlerRecord
  <2> QED BY <1>3, <1>4, <2>1, <2>5
<1>7. ASSUME Look(h) PROVE Fresh'
  <2>1. CASE Hit(me.file, me.stamp)
    <3>1. /\ handler'[h] = [me EXCEPT !.pc = "answer", !.content = gzCache[me.file].content]
          /\ me.file \in DOMAIN gzCache /\ gzCache[me.file].stamp = me.stamp
      BY <1>1, <1>7, <2>1 DEF Look, Goes, Hit
    <3>2. me.stamp <= gzCache[me.file].content
      BY <1>3, <3>1
    <3>3. Before(handler'[h]) /\ After(handler'[h])
      BY <1>1, <3>1, <3>2 DEF HandlerRecord
    <3> QED BY <1>3, <1>4, <1>7, <3>3 DEF Look, cacheVars
  <2>2. CASE ~ Hit(me.file, me.stamp)
    <3>1. handler'[h] = [me EXCEPT !.pc = "read"]
      BY <1>1, <1>7, <2>2 DEF Look, Goes
    <3>2. Before(handler'[h]) /\ After(handler'[h])
      BY <1>1, <1>3, <1>7, <3>1 DEF Look, HandlerRecord
    <3> QED BY <1>3, <1>4, <1>7, <3>2 DEF Look, cacheVars
  <2> QED BY <2>1, <2>2
<1>8. ASSUME Store(h) PROVE Fresh'
  <2>1. Before(handler'[h]) /\ After(handler'[h]) /\ me.stamp <= me.content
    BY <1>1, <1>3, <1>8 DEF Store, Goes, HandlerRecord
  <2>2. \A f \in DOMAIN gzCache' : gzCache'[f].stamp <= gzCache'[f].content
    BY <1>3, <1>8, <2>1 DEF Store
  <2> QED BY <1>4, <2>1, <2>2
<1>9. ASSUME Order(h) \/ Full(h) \/ PopOrder(h) PROVE Fresh'
  <2>1. /\ handler'[h].pc \in {"full", "pop", "answer", "drop"}
        /\ handler'[h].stamp = me.stamp /\ handler'[h].content = me.content
    <3>1. CASE Order(h)
      BY <1>1, <3>1 DEF Order, Goes, HandlerRecord
    <3>2. CASE Full(h)
      BY <1>1, <3>2 DEF Full, Goes, HandlerRecord
    <3>3. CASE PopOrder(h)
      BY <1>1, <3>3 DEF PopOrder, Goes, HandlerRecord
    <3> QED BY <1>9, <3>1, <3>2, <3>3
  <2>2. me.pc \in {"order", "full", "pop"} /\ gzCache' = gzCache
    BY <1>9 DEF Order, Full, PopOrder, cacheVars
  <2>3. Before(handler'[h]) /\ After(handler'[h])
    BY <1>3, <2>1, <2>2
  <2> QED BY <1>3, <1>4, <2>2, <2>3
<1>10. ASSUME PopCache(h) PROVE Fresh'
  <2>1. Before(handler'[h]) /\ After(handler'[h])
    BY <1>1, <1>3, <1>10 DEF PopCache, Goes, HandlerRecord
  <2>2. \A f \in DOMAIN gzCache' : gzCache'[f].stamp <= gzCache'[f].content
    BY <1>3, <1>10 DEF PopCache
  <2> QED BY <1>4, <2>1, <2>2
<1>11. ASSUME Send(h) PROVE Fresh'
  <2>1. Before(handler'[h]) /\ After(handler'[h]) /\ gzCache' = gzCache
    BY <1>1, <1>11 DEF Send, Goes, Idle, cacheVars
  <2> QED BY <1>3, <1>4, <2>1
<1> QED BY <1>5, <1>6, <1>7, <1>8, <1>9, <1>10, <1>11 DEF Serve

LEMMA ServeCovered ==
  ASSUME Types, Counted, Covered, NEW h \in Handlers,
         Serve(h) \/ \E f \in Files : Request(h, f)
  PROVE  Covered'
<1> DEFINE me == handler[h]
           InOrder(f) == \E i \in 1 .. Len(gzOrder) : gzOrder[i] = f
           Entering(f) == \E k \in Handlers : handler[k].pc = "order" /\ handler[k].file = f
           Leaving(f) == \E k \in Handlers : handler[k].pc = "drop" /\ handler[k].victim = f
           InOrderNext(f) == \E i \in 1 .. Len(gzOrder') : gzOrder'[i] = f
           EnteringNext(f) ==
             \E k \in Handlers : handler'[k].pc = "order" /\ handler'[k].file = f
           LeavingNext(f) ==
             \E k \in Handlers : handler'[k].pc = "drop" /\ handler'[k].victim = f
<1>1. /\ me \in HandlerRecord /\ handler \in [Handlers -> HandlerRecord]
      /\ gzOrder \in Seq(Files) /\ Len(gzOrder) \in Nat
      /\ me.pc # "idle" => me.file \in Files
  BY LenProperties DEF Types
<1>2. \A k \in Handlers \ {h} : handler'[k] = handler[k]
  BY ServeKeeps
<1>3. \A f \in DOMAIN gzCache : InOrder(f) \/ Entering(f) \/ Leaving(f)
  BY DEF Covered, At
<1>4. ASSUME \A f \in DOMAIN gzCache' : InOrderNext(f) \/ EnteringNext(f) \/ LeavingNext(f)
      PROVE  Covered'
  BY <1>4 DEF Covered, At
<1>5. ASSUME me.pc # "order", me.pc # "drop", gzOrder' = gzOrder, gzCache' = gzCache
      PROVE  Covered'
  <2>1. ASSUME NEW f PROVE (Entering(f) => EnteringNext(f)) /\ (Leaving(f) => LeavingNext(f))
    BY <1>2, <1>5
  <2> QED BY <1>3, <1>4, <1>5, <2>1
<1>6. CASE \E f \in Files : Request(h, f)
  BY <1>5, <1>6 DEF Request, cacheVars
<1>7. CASE ReadPlain(h) \/ Look(h) \/ Read(h) \/ Full(h) \/ Send(h)
  BY <1>5, <1>7 DEF ReadPlain, Look, Read, Full, Send, cacheVars
<1>8. CASE Store(h)
  <2>1. /\ gzOrder' = gzOrder /\ DOMAIN gzCache' = DOMAIN gzCache \cup {me.file}
        /\ handler'[h] = [me EXCEPT !.pc = "order"] /\ me.pc = "store"
    BY <1>1, <1>8 DEF Store, Goes
  <2>2. EnteringNext(me.file)
    BY <1>1, <2>1 DEF HandlerRecord
  <2>3. ASSUME NEW f PROVE (Entering(f) => EnteringNext(f)) /\ (Leaving(f) => LeavingNext(f))
    BY <1>2, <2>1
  <2> QED BY <1>3, <1>4, <2>1, <2>2, <2>3
<1>9. CASE Order(h)
  <2>1. /\ gzOrder' = Append(gzOrder, me.file) /\ gzCache' = gzCache
        /\ me.pc = "order" /\ me.file \in Files
    BY <1>1, <1>9 DEF Order, Ordered
  <2>2. /\ Len(gzOrder') = Len(gzOrder) + 1
        /\ \A i \in 1 .. Len(gzOrder) : gzOrder'[i] = gzOrder[i]
        /\ gzOrder'[Len(gzOrder) + 1] = me.file
    BY <1>1, <2>1, AppendProperties
  <2>3. ASSUME NEW f PROVE InOrder(f) => InOrderNext(f)
    BY <1>1, <2>2
  <2>4. InOrderNext(me.file)
    <3>1. Len(gzOrder) + 1 \in 1 .. Len(gzOrder')
      BY <1>1, <2>2
    <3> QED BY <2>2, <3>1
  <2>5. ASSUME NEW f, Entering(f) PROVE f = me.file \/ EnteringNext(f)
    BY <1>2, <2>5
  <2>6. ASSUME NEW f PROVE Leaving(f) => LeavingNext(f)
    BY <1>2, <2>1
  <2> HIDE DEF InOrder, Entering, Leaving, InOrderNext, EnteringNext, LeavingNext
  <2> QED BY <1>3, <1>4, <2>1, <2>3, <2>4, <2>5, <2>6
<1>10. CASE PopOrder(h)
  <2>1. /\ me.pc = "pop" /\ gzOrder # << >> /\ gzCache' = gzCache /\ gzOrder' = Tail(gzOrder)
        /\ handler'[h] = [me EXCEPT !.pc = "drop", !.victim = Head(gzOrder)]
    BY <1>1, <1>10, PopsNonempty DEF PopOrder, Goes
  <2>2. /\ Len(gzOrder') = Len(gzOrder) - 1
        /\ \A i \in 1 .. Len(gzOrder') : gzOrder'[i] = gzOrder[i + 1]
        /\ Head(gzOrder) = gzOrder[1]
    BY <1>1, <2>1, HeadTailProperties
  <2>3. LeavingNext(gzOrder[1])
    BY <1>1, <2>1, <2>2 DEF HandlerRecord
  <2>4. ASSUME NEW f, InOrder(f) PROVE f = gzOrder[1] \/ InOrderNext(f)
    <3>1. PICK i \in 1 .. Len(gzOrder) : gzOrder[i] = f
      BY <2>4
    <3>2. CASE i = 1
      BY <3>1, <3>2
    <3>3. CASE i # 1
      <4>1. i - 1 \in 1 .. Len(gzOrder') /\ gzOrder'[i - 1] = f
        BY <1>1, <2>2, <3>1, <3>3
      <4> QED BY <4>1
    <3> QED BY <3>2, <3>3
  <2>5. ASSUME NEW f PROVE (Entering(f) => EnteringNext(f)) /\ (Leaving(f) => LeavingNext(f))
    BY <1>2, <2>1
  <2> HIDE DEF InOrder, Entering, Leaving, InOrderNext, EnteringNext, LeavingNext
  <2> QED BY <1>3, <1>4, <2>1, <2>3, <2>4, <2>5
<1>11. CASE PopCache(h)
  <2>1. /\ me.pc = "drop" /\ gzOrder' = gzOrder /\ DOMAIN gzCache' = DOMAIN gzCache \ {me.victim}
    BY <1>11 DEF PopCache
  <2>2. ASSUME NEW f, Leaving(f) PROVE f = me.victim \/ LeavingNext(f)
    BY <1>2, <2>2
  <2>3. ASSUME NEW f PROVE Entering(f) => EnteringNext(f)
    BY <1>2, <2>1
  <2> QED BY <1>3, <1>4, <2>1, <2>2, <2>3
<1> QED BY <1>6, <1>7, <1>8, <1>9, <1>10, <1>11 DEF Serve

LEMMA ServeCounted ==
  ASSUME Types, Counted, NEW h \in Handlers, Serve(h) \/ \E f \in Files : Request(h, f)
  PROVE  Counted'
<1> DEFINE me == handler[h]
           E == {"full", "pop", "drop"}
           evicting == Cardinality(At(E))
           popping == Cardinality(At({"pop"}))
           n == Len(gzOrder)
<1>1. /\ me \in HandlerRecord /\ handler \in [Handlers -> HandlerRecord]
      /\ gzOrder \in Seq(Files) /\ n \in Nat
      /\ me.pc # "idle" => me.file \in Files
      /\ CacheLimit \in Nat
  BY LenProperties, DashboardAssumption DEF Types
<1>2. evicting \in Nat /\ popping \in Nat /\ n <= CacheLimit + evicting /\ popping <= n
  BY AtFinite DEF Counted
<1>3. ASSUME NEW next, Goes(h, next)
      PROVE  /\ evicting' \in Nat
             /\ evicting' = evicting - (IF me.pc \in E THEN 1 ELSE 0)
                                     + (IF next.pc \in E THEN 1 ELSE 0)
             /\ popping' \in Nat
             /\ popping' = popping - (IF me.pc = "pop" THEN 1 ELSE 0)
                                   + (IF next.pc = "pop" THEN 1 ELSE 0)
  <2>1. /\ evicting' \in Nat
        /\ evicting' = evicting - (IF me.pc \in E THEN 1 ELSE 0)
                                + (IF next.pc \in E THEN 1 ELSE 0)
    <3> HIDE DEF E
    <3> QED BY <1>1, <1>3, AtNext
  <2>2. /\ popping' \in Nat
        /\ popping' = popping - (IF me.pc \in {"pop"} THEN 1 ELSE 0)
                              + (IF next.pc \in {"pop"} THEN 1 ELSE 0)
    BY <1>1, <1>3, AtNext
  <2> QED BY <2>1, <2>2
<1>4. ASSUME n' <= CacheLimit + evicting', popping' <= n' PROVE Counted'
  BY <1>4 DEF Counted
<1> HIDE DEF n, evicting, popping
<1>5. ASSUME NEW next, Goes(h, next), me.pc \notin E, next.pc \notin E, n' = n PROVE Counted'
  BY <1>2, <1>3, <1>4, <1>5
<1>6. ASSUME NEW f \in Files, Request(h, f) PROVE Counted'
  <2>1. PICK next \in {"look", "plain"} :
           Goes(h, [Idle EXCEPT !.pc = next, !.file = f, !.stamp = version[f]])
    BY <1>6 DEF Request
  <2>2. [Idle EXCEPT !.pc = next, !.file = f, !.stamp = version[f]].pc = next /\ n' = n
        /\ me.pc = "idle"
    BY <1>6 DEF Idle, Request, cacheVars, n
  <2> QED BY <1>5, <2>1, <2>2
<1>7. ASSUME ReadPlain(h) \/ Read(h) \/ Look(h) \/ Store(h) PROVE Counted'
  <2>1. n' = n /\ me.pc \notin E
    BY <1>7 DEF ReadPlain, Read, Look, Store, cacheVars, n
  <2>2. PICK next : Goes(h, next) /\ next.pc \in {"answer", "store", "read", "order"}
    <3>1. \A pc, v : /\ [me EXCEPT !.pc = pc].pc = pc
                     /\ [me EXCEPT !.pc = pc, !.content = v].pc = pc
      BY <1>1 DEF HandlerRecord
    <3> HIDE DEF me
    <3>2. PICK pc \in {"answer", "store", "read", "order"} :
             \/ Goes(h, [me EXCEPT !.pc = pc])
             \/ \E v : Goes(h, [me EXCEPT !.pc = pc, !.content = v])
      BY <1>7 DEF ReadPlain, Read, Look, Store, me
    <3>3. ASSUME NEW next, Goes(h, next), next.pc = pc
          PROVE  \E r : Goes(h, r) /\ r.pc \in {"answer", "store", "read", "order"}
      BY <3>3
    <3>4. CASE Goes(h, [me EXCEPT !.pc = pc])
      BY <3>1, <3>3, <3>4
    <3>5. ASSUME NEW v, Goes(h, [me EXCEPT !.pc = pc, !.content = v])
          PROVE  \E r : Goes(h, r) /\ r.pc \in {"answer", "store", "read", "order"}
      <4> DEFINE r == [me EXCEPT !.pc = pc, !.content = v]
      <4>1. Goes(h, r) /\ r.pc = pc
        BY <3>1, <3>5
      <4> HIDE DEF r
      <4> QED BY <3>3, <4>1
    <3> QED BY <3>2, <3>4, <3>5
  <2> QED BY <1>5, <2>1, <2>2
<1>8. ASSUME Order(h) PROVE Counted'
  <2>1. PICK next : Goes(h, next) /\ next.pc = "full" /\ me.pc = "order"
    BY <1>1, <1>8 DEF Order, HandlerRecord
  <2>2. n' = n + 1
    <3>1. gzOrder' = Append(gzOrder, me.file) /\ me.file \in Files
      BY <1>1, <1>8 DEF Order, Ordered
    <3> QED BY <1>1, <3>1, AppendProperties DEF n
  <2>3. evicting' = evicting + 1 /\ popping' = popping
    BY <1>2, <1>3, <2>1
  <2> QED BY <1>1, <1>2, <1>4, <2>2, <2>3
<1>9. ASSUME Full(h), n > CacheLimit PROVE Counted'
  <2>1. PICK next : Goes(h, next) /\ next.pc = "pop" /\ me.pc = "full" /\ n' = n
    BY <1>1, <1>9 DEF Full, HandlerRecord, cacheVars, n
  <2>2. evicting' = evicting
    BY <1>2, <1>3, <2>1
  <2>3. popping' <= Cardinality(Handlers) /\ Cardinality(Handlers) \in Nat /\ popping' \in Nat
    <3>1. At({"pop"})' \in SUBSET Handlers
      BY DEF At
    <3> QED BY <3>1, FS_Subset, FS_CardinalityType, DashboardAssumption DEF popping
  <2>4. popping' <= n'
    BY <1>1, <1>9, <2>1, <2>3, DashboardAssumption
  <2> QED BY <1>2, <1>4, <2>1, <2>2, <2>4
<1>10. ASSUME Full(h), ~ (n > CacheLimit) PROVE Counted'
  <2>1. PICK next : Goes(h, next) /\ next.pc = "answer" /\ me.pc = "full" /\ n' = n
    BY <1>1, <1>10 DEF Full, HandlerRecord, cacheVars, n
  <2>2. popping' = popping /\ evicting' \in Nat
    BY <1>2, <1>3, <2>1
  <2>3. n <= CacheLimit + evicting'
    <3>1. n \in Nat /\ CacheLimit \in Nat /\ n <= CacheLimit
      BY <1>1, <1>10
    <3>2. \A a, b, c \in Nat : a <= b => a <= b + c
      OBVIOUS
    <3> QED BY <2>2, <3>1, <3>2, Zenon
  <2> QED BY <1>2, <1>4, <2>1, <2>2, <2>3
<1>11. ASSUME PopOrder(h) PROVE Counted'
  <2>1. PICK next : Goes(h, next) /\ next.pc = "drop" /\ me.pc = "pop"
    BY <1>1, <1>11 DEF PopOrder, HandlerRecord
  <2>2. n' = n - 1
    BY <1>1, <1>11, <2>1, PopsNonempty, HeadTailProperties DEF PopOrder, n
  <2>3. evicting' = evicting /\ popping' = popping - 1
    BY <1>2, <1>3, <2>1
  <2> QED BY <1>1, <1>2, <1>4, <2>2, <2>3
<1>12. ASSUME PopCache(h) PROVE Counted'
  <2>1. PICK next : Goes(h, next) /\ next.pc = "full" /\ me.pc = "drop" /\ n' = n
    BY <1>1, <1>12 DEF PopCache, HandlerRecord, n
  <2>2. evicting' = evicting /\ popping' = popping
    BY <1>2, <1>3, <2>1
  <2> QED BY <1>2, <1>4, <2>1, <2>2
<1>13. ASSUME Send(h) PROVE Counted'
  <2>1. Goes(h, Idle) /\ Idle.pc = "idle" /\ me.pc = "answer" /\ n' = n
    BY <1>13 DEF Send, Idle, cacheVars, n
  <2> QED BY <1>5, <2>1
<1> QED BY <1>6, <1>7, <1>8, <1>9, <1>10, <1>11, <1>12, <1>13 DEF Serve

-----------------------------------------------------------------------------
(* The invariant holds. *)

LEMMA InitCache == Init => CacheIInv
<1> SUFFICES ASSUME Init PROVE CacheIInv
  OBVIOUS
<1>1. Types
  BY EmptySeq DEF Init, Types, Idle, HandlerRecord, Steps, None
<1>2. Fresh /\ Covered
  BY DEF Init, Fresh, Covered, Idle
<1>3. Counted
  <2>1. At({"pop"}) = {} /\ At({"full", "pop", "drop"}) = {}
    BY DEF Init, At, Idle
  <2>2. Len(gzOrder) = 0
    BY EmptySeq DEF Init
  <2>3. Cardinality(At({"pop"})) = 0 /\ Cardinality(At({"full", "pop", "drop"})) = 0
    BY <2>1, FS_EmptySet
  <2> QED BY <2>2, <2>3, DashboardAssumption DEF Counted
<1> QED BY <1>1, <1>2, <1>3 DEF CacheIInv

LEMMA NextCache == CacheIInv /\ [Next]_vars => CacheIInv'
<1> SUFFICES ASSUME CacheIInv, [Next]_vars PROVE CacheIInv'
  OBVIOUS
<1>1. Types /\ Fresh /\ Covered /\ Counted
  BY DEF CacheIInv
<1>2. ASSUME NEW h \in Handlers, Serve(h) \/ \E f \in Files : Request(h, f) PROVE CacheIInv'
  <2>1. Types'
    BY <1>1, <1>2, ServeTypes
  <2> QED BY <1>1, <1>2, <2>1, ServeFresh, ServeCovered, ServeCounted DEF CacheIInv
<1>3. ASSUME UNCHANGED <<gzCache, gzOrder, handler>>, version' \in [Files -> Nat],
             \A f \in Files : version[f] <= version'[f]
      PROVE  CacheIInv'
  <2>1. Types'
    BY <1>1, <1>3 DEF Types
  <2>2. Fresh'
    <3>1. ASSUME NEW h \in Handlers, handler[h].pc \in {"look", "plain", "read"}
          PROVE  handler[h].stamp <= version'[handler[h].file]
      <4>1. /\ handler[h].file \in Files /\ handler[h].stamp \in Nat
            /\ version[handler[h].file] \in Nat /\ version'[handler[h].file] \in Nat
            /\ handler[h].stamp <= version[handler[h].file]
        BY <1>1, <1>3, <3>1 DEF Types, Fresh, HandlerRecord
      <4> QED BY <1>3, <4>1
    <3> QED BY <1>1, <1>3, <3>1 DEF Fresh
  <2>3. Covered' /\ Counted'
    BY <1>1, <1>3 DEF Covered, Counted, At
  <2> QED BY <2>1, <2>2, <2>3 DEF CacheIInv
<1>4. ASSUME \/ \E f \in Files : Credit(f) \/ Promote(f) \/ CrossCheck(f)
             \/ Index
             \/ UNCHANGED vars
      PROVE  CacheIInv'
  BY <1>1, <1>3, <1>4, OthersKeep
<1> QED BY <1>2, <1>4 DEF Next

LEMMA CacheIInvHolds == Spec => []CacheIInv
BY InitCache, NextCache, PTL DEF Spec

(* No answer is older than its file was when the request came, and nothing  *)
(* older than its stamp is cached, for any number of handlers that read and *)
(* store one key while its file is replaced.                                *)
THEOREM AnswersAreFresh == Spec => []FreshAnswers
<1>1. CacheIInv => FreshAnswers
  <2> SUFFICES ASSUME CacheIInv PROVE FreshAnswers
    OBVIOUS
  <2>1. Types /\ Fresh
    BY DEF CacheIInv
  <2> QED BY <2>1 DEF Types, Fresh, FreshAnswers, HandlerRecord
<1> QED BY <1>1, CacheIInvHolds, PTL

(* The keys that the order holds are no more than its length. *)
LEMMA KeysOfOrder ==
  ASSUME NEW s \in Seq(Files)
  PROVE  /\ IsFiniteSet(Range(s))
         /\ Cardinality(Range(s)) <= Len(s)
<1>1. DOMAIN s = 1 .. Len(s) /\ Len(s) \in Nat /\ s \in [1 .. Len(s) -> Files]
  BY LenProperties
<1>2. s \in Surjection(1 .. Len(s), Range(s))
  BY <1>1 DEF Surjection, Range
<1>3. IsFiniteSet(1 .. Len(s)) /\ Cardinality(1 .. Len(s)) = Len(s)
  BY <1>1, FS_Interval
<1> QED BY <1>2, <1>3, FS_Surjection

(* While no request is served the cache is within its limit, whatever the   *)
(* limit, the handlers and the files: each entry has a key in the order,    *)
(* which the last handler that evicts leaves at the limit.                  *)
THEOREM CacheWithinLimit == Spec => []CacheBounded
<1>1. ASSUME CacheIInv, \A h \in Handlers : handler[h].pc = "idle"
      PROVE  Cardinality(DOMAIN gzCache) <= CacheLimit
  <2>1. /\ gzOrder \in Seq(Files) /\ Len(gzOrder) \in Nat /\ DOMAIN gzOrder = 1 .. Len(gzOrder)
        /\ CacheLimit \in Nat
    BY <1>1, LenProperties, DashboardAssumption DEF CacheIInv, Types
  <2>2. At({"order"}) = {} /\ At({"drop"}) = {} /\ At({"full", "pop", "drop"}) = {}
    BY <1>1 DEF At
  <2>3. Len(gzOrder) <= CacheLimit
    <3>1. Cardinality(At({"full", "pop", "drop"})) = 0
      BY <2>2, FS_EmptySet
    <3> QED BY <1>1, <2>1, <3>1 DEF CacheIInv, Counted
  <2>4. DOMAIN gzCache \in SUBSET Range(gzOrder)
    BY <1>1, <2>1, <2>2 DEF CacheIInv, Covered, Range
  <2>5. Cardinality(DOMAIN gzCache) <= Cardinality(Range(gzOrder))
    BY <2>1, <2>4, KeysOfOrder, FS_Subset
  <2>6. /\ Cardinality(DOMAIN gzCache) \in Nat /\ Cardinality(Range(gzOrder)) \in Nat
        /\ Cardinality(Range(gzOrder)) <= Len(gzOrder)
    BY <2>1, <2>4, KeysOfOrder, FS_Subset, FS_CardinalityType
  <2> QED BY <2>1, <2>3, <2>5, <2>6
<1>2. CacheIInv => CacheBounded
  BY <1>1 DEF CacheBounded
<1> QED BY <1>2, CacheIInvHolds, PTL
=============================================================================
