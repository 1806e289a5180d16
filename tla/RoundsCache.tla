----------------------------- MODULE RoundsCache -----------------------------
(***************************************************************************)
(* The rounds endpoint and its cache (src/internal/web/rounds.go,          *)
(* rounds_cache.go and rounds_compact.go).  Every request is a goroutine;  *)
(* readers of one height share a build through flights, readers of one     *)
(* cached report share an encoding through variantFlights, and builds and  *)
(* encodings compete for builder slots.  One step is one critical section  *)
(* of the cache mutex, one read of the tracker, or one wait.               *)
(*                                                                         *)
(* A report is a heap object, because a reader keeps using one that the    *)
(* cache has replaced.  A closed channel wakes its waiters at once.        *)
(* Bodies are the fields that tell two reports apart; sizes are the        *)
(* charges ReportSize and VariantSize.  Which cached report is the least   *)
(* recently used depends on wall-clock reads, so trimming may pick any;    *)
(* whether a report is younger than roundsCoalesce is likewise a choice    *)
(* made wherever the code reads the clock.                                 *)
(***************************************************************************)
EXTENDS Archive, Sequences

Views == {"full", "compact", "capture"}

CONSTANTS
  Readers, Nothing,
  Watched,       \* the readers whose answers are checked against RoundsService
  Requests,      \* what each reader may ask for, as <<reader, height, view>>
  Builders,      \* capacity of the builders channel
  LaneLimit,     \* capacity of the lane of each view: readers, legacy, captures
  MaxEntries,    \* roundsCacheEntries
  MaxVariants,   \* roundsCacheVariants
  CacheBytes,    \* roundsCacheBytes
  ReportSize, VariantSize,
  MaxEvidence, MaxCatalogue   \* bounds of the model on the two revisions

ASSUME CacheAssumption ==
  /\ IsFiniteSet(Readers) /\ IsFiniteSet(Heights)
  /\ Watched \subseteq Readers /\ Requests \subseteq Readers \X Heights \X Views
  /\ {Builders, MaxEntries, MaxVariants, CacheBytes, ReportSize, VariantSize} \subseteq Nat \ {0}
  /\ LaneLimit \in [Views -> Nat \ {0}]

VARIABLES
  reader,    \* per request its program counter and locals
  heap,      \* the report objects in use, by their identities
  entries,   \* per height the cached object, Nothing if none
  flights,   \* heights whose report is being built
  bytes,     \* the charge of all cached objects
  building,  \* occupied builder slots
  answer,    \* the answer the last step wrote, Nothing if it wrote none
  shown      \* history: see RoundsService

cacheVars == <<reader, heap, entries, flights, bytes, building, answer, shown>>
vars == <<archiveVars, cacheVars>>

Ids == 1..(Cardinality(Readers) + Cardinality(Heights) + 1)
Idle == [pc |-> "idle"]

(* The service this endpoint implements; a request that is being worked on *)
(* is one that has no answer yet.                                          *)
Service == INSTANCE RoundsService WITH
  Readers <- Watched,
  pending <- [r \in Watched |->
                IF reader[r].pc = "idle" THEN Nothing
                ELSE [height |-> reader[r].height, view |-> reader[r].view,
                      floor |-> reader[r].floor]]

ASSUME NothingAssumption ==
  Nothing \notin Ids /\ Nothing \notin Service!Asked /\ Nothing \notin Service!Answers

-----------------------------------------------------------------------------
(* Reports *)

(* The object built from what the tracker shows as version v.              *)
NewReport(h, v) ==
  [height |-> h, found |-> v.found, evidence |-> v.evidence, seal |-> v.seal, lost |-> v.lost,
   variants |-> [k \in {} |-> Nothing], variantFlights |-> {}, size |-> ReportSize]

(* What an answer contains: withCatalogue takes status and retention from  *)
(* the version, everything else from the report.                           *)
Body(e, v) ==
  [found |-> e.found, evidence |-> e.evidence, seal |-> e.seal, lost |-> e.lost,
   catalogue |-> v.catalogue, status |-> v.status, retained |-> v.retained]

(* Mutant: a report is shared across the commit of its height.             *)
CanCoalesce_AcrossCommit(e, v) == v.found /\ e.lost = v.lost

(* canCoalesce, apart from the age of the report.                          *)
CanCoalesce(e, v) == v.found /\ e.seal = v.seal /\ e.lost = v.lost

FreeId == CHOOSE i \in Ids : i \notin DOMAIN heap

Cached(ent) == {h \in Heights : ent[h] # Nothing}
Charge(ent, hp, K) == MapThenSumSet(LAMBDA h : hp[ent[h]].size, K)
Only(ent, K) == [h \in Heights |-> IF h \in K THEN ent[h] ELSE Nothing]
Drop(ent, h) == [ent EXCEPT ![h] = Nothing]

(* removeLocked *)
SizeAt(ent, hp, h) == IF ent[h] = Nothing THEN 0 ELSE hp[ent[h]].size

(* trimLocked: what may be left of the entries, with charge total.         *)
Left(ent, hp, total, K) == total - Charge(ent, hp, Cached(ent) \ K)
Fits(ent, hp, total, K) == Left(ent, hp, total, K) <= CacheBytes /\ Cardinality(K) <= MaxEntries

Kept(ent, hp, total) ==
  {K \in SUBSET Cached(ent) :
     /\ Fits(ent, hp, total, K)
     /\ K = Cached(ent) \/ \E h \in Cached(ent) \ K : ~Fits(ent, hp, total, K \cup {h})}

Trims(ent, hp, total) ==
  {[entries |-> Only(ent, K), bytes |-> Left(ent, hp, total, K)] : K \in Kept(ent, hp, total)}

Holds(x, i) == "e" \in DOMAIN x /\ x.e = i

(* The heap after a step: hp without the objects nobody refers to.         *)
Heap(hp) ==
  heap' = Restrict(hp, {i \in DOMAIN hp : \/ \E h \in Heights : entries'[h] = i
                                          \/ \E r \in Readers : Holds(reader'[r], i)})

-----------------------------------------------------------------------------
(* The handler *)

At(r, pc) == reader[r].pc = pc
Go(r, pc) == [reader[r] EXCEPT !.pc = pc]
Asked(x) == [pc |-> x.pc, height |-> x.height, view |-> x.view, floor |-> x.floor]
Put(x, field, value) == [f \in DOMAIN x \cup {field} |-> IF f = field THEN value ELSE x[f]]

Unanswered == answer' = Nothing /\ UNCHANGED shown

InLane(view) == {r \in Readers : reader[r].pc # "idle" /\ reader[r].view = view}

(* handleBlockRounds up to its cache call.  A request that finds its lane  *)
(* full is refused and changes nothing.                                    *)
Request(r, h, view) ==
  /\ reader[r] = Idle /\ Cardinality(InLane(view)) < LaneLimit[view]
  /\ LET asked == [pc |-> "capture", height |-> h, view |-> view,
                   floor |-> IF r \in Watched THEN Service!Floor(h, view) ELSE Nothing]
     IN reader' = [reader EXCEPT ![r] = IF view = "capture" THEN asked
                                        ELSE Put([asked EXCEPT !.pc = "lookup"], "v", Version(h))]
  /\ Unanswered /\ UNCHANGED <<archiveVars, heap, entries, flights, bytes, building>>

(* The answer is written and the request ends.                             *)
Finish(r, body) ==
  LET x == reader[r]
      a == [reader |-> r, height |-> x.height, view |-> x.view, found |-> body.found,
            evidence |-> body.evidence, seal |-> body.seal, lost |-> body.lost,
            catalogue |-> body.catalogue, status |-> body.status, retained |-> body.retained]
  IN IF r \in Watched
     THEN /\ answer' = a
          /\ shown' = IF x.view = "capture" THEN shown
                      ELSE [shown EXCEPT ![r][x.height] = Larger(@, a.evidence)]
     ELSE Unanswered

-----------------------------------------------------------------------------
(* get *)

ReadVersion(r) ==
  /\ At(r, "version")
  /\ reader' = [reader EXCEPT ![r] = Put(Go(r, "lookup"), "v", Version(@.height))]
  /\ Unanswered /\ UNCHANGED <<archiveVars, heap, entries, flights, bytes, building>>

(* A height that is not retained leaves the cache; its header is answered. *)
LookupAbsent(r) ==
  LET x == reader[r]  h == x.height IN
  /\ At(r, "lookup") /\ ~x.v.found
  /\ entries' = Drop(entries, h)
  /\ bytes' = bytes - SizeAt(entries, heap, h)
  /\ reader' = [reader EXCEPT ![r] = Put(Go(r, "encode"), "e", FreeId)]
  /\ Unanswered /\ UNCHANGED <<archiveVars, flights, building>>
  /\ Heap(Put(heap, FreeId, NewReport(h, x.v)))

(* What the cache holds will do for x, if it is recent or of the very      *)
(* version asked for.                                                      *)
Exact(x) == entries[x.height] # Nothing /\ heap[entries[x.height]].evidence = x.v.evidence
Usable(x) == entries[x.height] # Nothing /\ x.view = "compact" /\ CanCoalesce(heap[entries[x.height]], x.v)

LookupHit(r) ==
  LET x == reader[r] IN
  /\ At(r, "lookup") /\ x.v.found /\ (Exact(x) \/ Usable(x))
  /\ reader' = [reader EXCEPT ![r] = Put(Go(r, "encode"), "e", entries[x.height])]
  /\ Unanswered /\ UNCHANGED <<archiveVars, heap, entries, flights, bytes, building>>

LookupMiss(r) ==
  LET x == reader[r] IN
  /\ At(r, "lookup") /\ x.v.found /\ ~Exact(x)
  /\ reader' = [reader EXCEPT ![r] =
                [Asked(x) EXCEPT !.pc = IF x.height \in flights THEN "wait" ELSE "build"]]
  /\ flights' = flights \cup {x.height}
  /\ Unanswered /\ UNCHANGED <<archiveVars, heap, entries, bytes, building>>

(* build: a slot, and the capture of the evidence under the tracker's lock. *)
Capture(r) ==
  LET x == reader[r]  v == Version(x.height) IN
  /\ At(r, "build") \/ At(r, "capture")
  /\ building < Builders
  /\ building' = building + 1
  /\ reader' = [reader EXCEPT ![r] = Put(Put(Go(r, IF @.pc = "build" THEN "built" ELSE "captured"),
                                             "v", v), "e", FreeId)]
  /\ Unanswered /\ UNCHANGED <<archiveVars, entries, flights, bytes>>
  /\ Heap(Put(heap, FreeId, NewReport(x.height, v)))

(* The slot is returned and the version read once more.                    *)
ReadLatest(r) ==
  /\ At(r, "built") \/ At(r, "failed")
  /\ building' = IF At(r, "built") THEN building - 1 ELSE building
  /\ reader' = [reader EXCEPT ![r] = Put(Go(r, "publish"), "v", Version(@.height))]
  /\ Unanswered /\ UNCHANGED <<archiveVars, heap, entries, flights, bytes>>

(* Waiters of a closed channel start over.                                 *)
Woken(q, h) == IF At(q, "wait") /\ reader[q].height = h THEN [Asked(reader[q]) EXCEPT !.pc = "version"]
               ELSE reader[q]

Built(x) == "e" \in DOMAIN x

PublishEntry(x) ==
  LET h == x.height
      e == heap[x.e]
      total == bytes - SizeAt(entries, heap, h) + e.size
  IN IF Built(x) /\ x.v.found /\ e.found /\ e.size <= CacheBytes
     THEN \E left \in Trims([entries EXCEPT ![h] = x.e], heap, total) :
            entries' = left.entries /\ bytes' = left.bytes
     ELSE UNCHANGED <<entries, bytes>>

(* What the builder does after the flight: give up, start over, or go on.  *)
AfterBuild(x) ==
  LET e == heap[x.e]
      again == [Asked(x) EXCEPT !.pc = "version"]
      on == [x EXCEPT !.pc = "encode"]
  IN IF ~Built(x) THEN {Idle}
     ELSE IF ~x.v.found THEN {again}
     ELSE IF e.evidence = x.v.evidence THEN {on}
     ELSE IF CanCoalesce(e, x.v) THEN {on, again} ELSE {again}

(* Mutant: a build that fails returns before its flight is cleared.        *)
Publish_KeepsFlight(r) ==
  LET x == reader[r] IN
  /\ At(r, "publish")
  /\ PublishEntry(x)
  /\ flights' = IF Built(x) THEN flights \ {x.height} ELSE flights
  /\ \E after \in AfterBuild(x) :
       reader' = [q \in Readers |->
                    IF q = r THEN after ELSE IF Built(x) THEN Woken(q, x.height) ELSE reader[q]]
  /\ Unanswered /\ UNCHANGED <<archiveVars, building>>
  /\ Heap(heap)

Publish(r) ==
  LET x == reader[r] IN
  /\ At(r, "publish")
  /\ PublishEntry(x)
  /\ flights' = flights \ {x.height}
  /\ \E after \in AfterBuild(x) :
       reader' = [q \in Readers |-> IF q = r THEN after ELSE Woken(q, x.height)]
  /\ Unanswered /\ UNCHANGED <<archiveVars, building>>
  /\ Heap(heap)

(* capture=1 bypasses the cache.                                           *)
FinishCapture(r) ==
  LET x == reader[r] IN
  /\ At(r, "captured")
  /\ building' = building - 1
  /\ Finish(r, Body(heap[x.e], x.v))
  /\ reader' = [reader EXCEPT ![r] = Idle]
  /\ UNCHANGED <<archiveVars, entries, flights, bytes>>
  /\ Heap(heap)

-----------------------------------------------------------------------------
(* encoded *)

KeyOf(x) == <<x.view, x.v.catalogue>>

EncodeHit(r) ==
  LET x == reader[r]  e == heap[x.e] IN
  /\ At(r, "encode") /\ KeyOf(x) \in DOMAIN e.variants
  /\ Finish(r, e.variants[KeyOf(x)])
  /\ reader' = [reader EXCEPT ![r] = Idle]
  /\ UNCHANGED <<archiveVars, entries, flights, bytes, building>>
  /\ Heap(heap)

EncodeMiss(r) ==
  LET x == reader[r]  e == heap[x.e]  k == KeyOf(x) IN
  /\ At(r, "encode") /\ k \notin DOMAIN e.variants
  /\ reader' = [reader EXCEPT ![r] = Go(r, IF k \in e.variantFlights THEN "variant_wait" ELSE "variant")]
  /\ heap' = [heap EXCEPT ![x.e].variantFlights = @ \cup {k}]
  /\ Unanswered /\ UNCHANGED <<archiveVars, entries, flights, bytes, building>>

TakeSlot(r) ==
  /\ At(r, "variant") /\ building < Builders
  /\ building' = building + 1
  /\ reader' = [reader EXCEPT ![r] = Go(r, "encoded")]
  /\ Unanswered /\ UNCHANGED <<archiveVars, heap, entries, flights, bytes>>

WokenVariant(q, x) ==
  IF At(q, "variant_wait") /\ reader[q].e = x.e /\ KeyOf(reader[q]) = KeyOf(x)
  THEN Go(q, "encode") ELSE reader[q]

NoFlight(e, k) == [e EXCEPT !.variantFlights = @ \ {k}]

(* A full set of variants is emptied before one is added.                  *)
WithVariant(e, k, body) ==
  LET kept == IF Cardinality(DOMAIN e.variants) >= MaxVariants THEN {} ELSE DOMAIN e.variants
      gone == Cardinality(DOMAIN e.variants \ kept)
  IN [e EXCEPT !.variants = [x \in kept \cup {k} |-> IF x = k THEN body ELSE @[x]],
               !.size = @ - gone * VariantSize + VariantSize]

(* Mutant: a variant is charged though its report was replaced.            *)
StoreVariant_Unchecked(r) ==
  LET x == reader[r]  e == heap[x.e]  k == KeyOf(x)
      body == Body(e, x.v)
      added == WithVariant(e, k, body)
      hp == [heap EXCEPT ![x.e] = NoFlight(added, k)]
  IN /\ At(r, "encoded")
     /\ building' = building - 1
     /\ Finish(r, body)
     /\ reader' = [q \in Readers |-> IF q = r THEN Idle ELSE WokenVariant(q, x)]
     /\ IF entries[e.height] # Nothing
        THEN /\ \E left \in Trims(entries, hp, bytes - e.size + added.size) :
                  entries' = left.entries /\ bytes' = left.bytes
             /\ Heap(hp)
        ELSE UNCHANGED <<entries, bytes>> /\ Heap([heap EXCEPT ![x.e] = NoFlight(@, k)])
     /\ UNCHANGED <<archiveVars, flights>>

StoreVariant(r) ==
  LET x == reader[r]  e == heap[x.e]  k == KeyOf(x)
      body == Body(e, x.v)
      added == WithVariant(e, k, body)
      hp == [heap EXCEPT ![x.e] = NoFlight(added, k)]
  IN /\ At(r, "encoded")
     /\ building' = building - 1
     /\ Finish(r, body)
     /\ reader' = [q \in Readers |-> IF q = r THEN Idle ELSE WokenVariant(q, x)]
     /\ IF entries[e.height] = x.e
        THEN /\ \E left \in Trims(entries, hp, bytes - e.size + added.size) :
                  entries' = left.entries /\ bytes' = left.bytes
             /\ Heap(hp)
        ELSE UNCHANGED <<entries, bytes>> /\ Heap([heap EXCEPT ![x.e] = NoFlight(@, k)])
     /\ UNCHANGED <<archiveVars, flights>>

-----------------------------------------------------------------------------
(* The client goes away; ctx is looked at here and nowhere else.           *)

CancelWaiting(r) ==
  /\ reader[r].pc \in {"version", "wait", "variant_wait", "capture"}
  /\ reader' = [reader EXCEPT ![r] = Idle]
  /\ Unanswered /\ UNCHANGED <<archiveVars, entries, flights, bytes, building>>
  /\ Heap(heap)

CancelBuild(r) ==
  /\ At(r, "build")
  /\ reader' = [reader EXCEPT ![r] = Go(r, "failed")]
  /\ Unanswered /\ UNCHANGED <<archiveVars, heap, entries, flights, bytes, building>>

CancelVariant(r) ==
  LET x == reader[r] IN
  /\ At(r, "variant")
  /\ reader' = [q \in Readers |-> IF q = r THEN Idle ELSE WokenVariant(q, x)]
  /\ Unanswered /\ UNCHANGED <<archiveVars, entries, flights, bytes, building>>
  /\ Heap([heap EXCEPT ![x.e] = NoFlight(@, KeyOf(x))])

-----------------------------------------------------------------------------
(* The tracker changes, up to the bounds of the model.                     *)
TrackerStep ==
  /\ ArchiveNext
  /\ catalogue' <= MaxCatalogue /\ \A h \in DOMAIN archive' : archive'[h].evidence <= MaxEvidence
  /\ Unanswered /\ UNCHANGED <<reader, heap, entries, flights, bytes, building>>

Init ==
  /\ ArchiveInit
  /\ reader = [r \in Readers |-> Idle]
  /\ heap = [i \in {} |-> Nothing]
  /\ entries = [h \in Heights |-> Nothing]
  /\ flights = {} /\ bytes = 0 /\ building = 0
  /\ answer = Nothing /\ shown = [r \in Watched |-> [h \in Heights |-> 0]]

Proceed(r) ==
  \/ ReadVersion(r) \/ LookupAbsent(r) \/ LookupHit(r) \/ LookupMiss(r)
  \/ Capture(r) \/ ReadLatest(r) \/ Publish(r) \/ FinishCapture(r)
  \/ EncodeHit(r) \/ EncodeMiss(r) \/ TakeSlot(r) \/ StoreVariant(r)
  \/ CancelWaiting(r) \/ CancelBuild(r) \/ CancelVariant(r)

Arrive == \E q \in Requests : Request(q[1], q[2], q[3])

Next == Arrive \/ (\E r \in Readers : Proceed(r)) \/ TrackerStep

Spec == Init /\ [][Next]_vars

-----------------------------------------------------------------------------
(* Properties *)

(* c.bytes is exactly the charge of what is cached, through replacement,   *)
(* trimming, variants thrown away and variants finished for a report that  *)
(* the cache no longer holds; and the limits hold.                         *)
ChargeExact ==
  /\ bytes = Charge(entries, heap, Cached(entries)) /\ bytes <= CacheBytes
  /\ Cardinality(Cached(entries)) <= MaxEntries
  /\ \A h \in Cached(entries) :
       LET e == heap[entries[h]] IN
       e.size = ReportSize + VariantSize * Cardinality(DOMAIN e.variants)

(* One reader per height builds and one per variant encodes, nobody waits  *)
(* for a flight that nobody flies (a builder whose client goes away still  *)
(* lands), and every occupied slot is held by a request at work.           *)
SingleFlight ==
  /\ \A h \in Heights :
       Cardinality({r \in Readers : reader[r].pc \in {"build", "built", "failed", "publish"}
                                    /\ reader[r].height = h})
         = IF h \in flights THEN 1 ELSE 0
  /\ \A r \in Readers :
       /\ At(r, "wait") => reader[r].height \in flights
       /\ At(r, "variant_wait") =>
            \E q \in Readers : /\ reader[q].pc \in {"variant", "encoded"}
                               /\ reader[q].e = reader[r].e /\ KeyOf(reader[q]) = KeyOf(reader[r])
  /\ building <= Builders
  /\ building = Cardinality({r \in Readers : reader[r].pc \in {"built", "captured", "encoded"}})

(* The revision of an answer, "evidence:catalogue", and the ETag that      *)
(* stands for it identify the answer: one that carries the current         *)
(* revision is the current report, however it was cached on the way.       *)
RevisionIdentifies ==
  answer # Nothing =>
     LET a == answer  now == Version(a.height) IN
     a.evidence = now.evidence /\ a.catalogue = now.catalogue
       => /\ a.found = now.found /\ a.seal = now.seal /\ a.lost = now.lost
          /\ a.status = now.status /\ a.retained = now.retained

(* The endpoint keeps the promises of RoundsService.                       *)
ImplementsService == Service!ServiceSpec
=============================================================================
