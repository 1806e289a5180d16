-------------------------- MODULE RoundsCacheProofs --------------------------
(***************************************************************************)
(* Proofs about the rounds endpoint: who waits for whom in it, what it     *)
(* answers, and what its cache is charged with.                            *)
(* Every lemma about an action names it; the invariants take the           *)
(* requests rd, the reports hp, the entries en, the flights fl and the     *)
(* slots bu as parameters, so that most lemmas speak of two states without *)
(* a prime.                                                                *)
(***************************************************************************)
EXTENDS RoundsCache, FiniteSetTheorems, TLAPS

-----------------------------------------------------------------------------
(* The inductive invariant, part one: who waits for whom *)

Fields == {"pc", "height", "view", "floor"}
Starting == {"capture", "version", "wait", "build", "failed"}
Bearing == {"built", "captured", "encode", "variant", "variant_wait", "encoded"}
Flying == {"build", "built", "failed", "publish"}
Encoding == {"variant", "encoded"}
Slotted == {"built", "captured", "encoded"}

(* What a request carries at each program counter.                         *)
Shapes(pc) ==
  {Fields \cup extra : extra \in IF pc \in Starting THEN {{}}
                                 ELSE IF pc = "lookup" THEN {{"v"}}
                                 ELSE IF pc = "publish" THEN {{"v"}, {"v", "e"}}
                                 ELSE {{"v", "e"}}}

ReaderOK(x) ==
  x # Idle =>
    /\ x.pc \in Starting \cup Bearing \cup {"lookup", "publish"}
    /\ DOMAIN x \in Shapes(x.pc)
    /\ x.height \in Heights /\ x.view \in Views

ReadersOK(rd) == DOMAIN rd = Readers /\ \A r \in Readers : ReaderOK(rd[r])

(* A report is kept exactly as long as somebody refers to it.              *)
HeapOK(rd, hp, en) ==
  /\ DOMAIN hp \subseteq Ids /\ DOMAIN en = Heights
  /\ \A h \in Heights : en[h] \in DOMAIN hp \cup {Nothing}
  /\ \A r \in Readers : "e" \in DOMAIN rd[r] => rd[r].e \in DOMAIN hp
  /\ \A i \in DOMAIN hp : (\E h \in Heights : en[h] = i) \/ \E r \in Readers : Holds(rd[r], i)

(* A flight is one builder's, and who waits, waits for a flight.           *)
Flyer(rd, r, h) == r \in Readers /\ rd[r].pc \in Flying /\ rd[r].height = h
FlightsOK(rd, fl) ==
  /\ fl \subseteq Heights
  /\ \A r \in Readers, h \in Heights : Flyer(rd, r, h) => h \in fl
  /\ \A h \in fl : \E r \in Readers : Flyer(rd, r, h)
  /\ \A r, q \in Readers, h \in Heights : Flyer(rd, r, h) /\ Flyer(rd, q, h) => r = q
  /\ \A r \in Readers : rd[r].pc = "wait" => rd[r].height \in fl

Encoder(rd, q, i, k) ==
  q \in Readers /\ rd[q].pc \in Encoding /\ rd[q].e = i /\ KeyOf(rd[q]) = k

VariantsOK(rd, hp) ==
  /\ \A i \in DOMAIN hp : \A k \in hp[i].variantFlights : \E q \in Readers : Encoder(rd, q, i, k)
  /\ \A r \in Readers :
       rd[r].pc = "variant_wait" => KeyOf(rd[r]) \in hp[rd[r].e].variantFlights

Holding(rd) == {r \in Readers : rd[r].pc \in Slotted}
SlotsOK(rd, bu) == bu \in Nat /\ bu <= Builders /\ bu = Cardinality(Holding(rd))

Waits(rd, hp, en, fl, bu) ==
  /\ ReadersOK(rd) /\ HeapOK(rd, hp, en) /\ FlightsOK(rd, fl)
  /\ VariantsOK(rd, hp) /\ SlotsOK(rd, bu)

WaitInv == Waits(reader, heap, entries, flights, building)

-----------------------------------------------------------------------------
(* A new report finds an identity *)

(* The values of a function on a finite set are at most its arguments.     *)
LEMMA ImageBound ==
  ASSUME NEW S, IsFiniteSet(S), NEW f, DOMAIN f = S
  PROVE  LET T == {f[x] : x \in S}
         IN  IsFiniteSet(T) /\ Cardinality(T) \in Nat /\ Cardinality(T) <= Cardinality(S)
  <1> DEFINE T == {f[x] : x \in S}
             g == [x \in S |-> f[x]]
  <1>1. g \in Surjection(S, T)
    BY DEF Surjection
  <1> HIDE DEF g
  <1>2. IsFiniteSet(T) /\ Cardinality(T) <= Cardinality(S)
    BY <1>1, FS_Surjection
  <1> QED BY <1>2, FS_CardinalityType

(* With one report per request and one per height an identity is free.     *)
LEMMA SomeIdIsFree ==
  ASSUME NEW rd, NEW hp, NEW en, HeapOK(rd, hp, en), DOMAIN rd = Readers
  PROVE  \E i \in Ids : i \notin DOMAIN hp
  <1> SUFFICES ASSUME Ids \subseteq DOMAIN hp PROVE FALSE
    OBVIOUS
  <1> DEFINE f == [r \in Readers |-> rd[r].e]
             A == {f[r] : r \in Readers}
             B == {en[h] : h \in Heights}
  <1>1. IsFiniteSet(A) /\ Cardinality(A) \in Nat /\ Cardinality(A) <= Cardinality(Readers)
    <2>1. DOMAIN f = Readers
      OBVIOUS
    <2> HIDE DEF f
    <2> QED BY <2>1, ImageBound, CacheAssumption
  <1>2. IsFiniteSet(B) /\ Cardinality(B) \in Nat /\ Cardinality(B) <= Cardinality(Heights)
    BY ImageBound, CacheAssumption DEF HeapOK
  <1>3. Ids \subseteq A \cup B
    BY DEF HeapOK, Holds
  <1> HIDE DEF A, B
  <1>4. Cardinality(Readers) \in Nat /\ Cardinality(Heights) \in Nat
    BY CacheAssumption, FS_CardinalityType
  <1>5. IsFiniteSet(Ids) /\ Cardinality(Ids) = Cardinality(Readers) + Cardinality(Heights) + 1
    <2> DEFINE n == Cardinality(Readers) + Cardinality(Heights) + 1
    <2>1. n \in Nat /\ n > 0
      BY <1>4
    <2>2. Ids = 1..n
      BY DEF Ids
    <2> HIDE DEF n
    <2>3. IsFiniteSet(1..n) /\ Cardinality(1..n) = n
      BY <2>1, FS_Interval
    <2> QED BY <2>2, <2>3 DEF n
  <1>6. IsFiniteSet(A \cup B) /\ Cardinality(A \cup B) = Cardinality(A) + Cardinality(B) - Cardinality(A \cap B)
    BY <1>1, <1>2, FS_Union
  <1>7. Cardinality(A \cap B) \in Nat
    BY <1>1, FS_Subset, FS_CardinalityType
  <1>8. Cardinality(Ids) <= Cardinality(A \cup B)
    BY <1>3, <1>6, FS_Subset
  <1> QED BY <1>1, <1>2, <1>4, <1>5, <1>6, <1>7, <1>8

(* FreeId is one.                                                          *)
LEMMA FreeIdIsFree ==
  ASSUME WaitInv
  PROVE  FreeId \in Ids /\ FreeId \notin DOMAIN heap /\ FreeId # Nothing
  <1>1. \E i \in Ids : i \notin DOMAIN heap
    BY SomeIdIsFree DEF WaitInv, Waits, ReadersOK
  <1> QED BY <1>1, NothingAssumption DEF FreeId

(* What Heap leaves of the reports hp.                                     *)
Collected(rd, hp, en) ==
  Restrict(hp, {i \in DOMAIN hp : (\E h \in Heights : en[h] = i) \/ \E r \in Readers : Holds(rd[r], i)})

(* Every report in use stays, as it was.                                   *)
LEMMA CollectedKeeps ==
  ASSUME NEW rd, NEW hp, NEW en, NEW hp2, hp2 = Collected(rd, hp, en),
         DOMAIN hp \subseteq Ids, DOMAIN en = Heights,
         \A h \in Heights : en[h] \in DOMAIN hp \cup {Nothing},
         \A r \in Readers : "e" \in DOMAIN rd[r] => rd[r].e \in DOMAIN hp
  PROVE  /\ HeapOK(rd, hp2, en)
         /\ DOMAIN hp2 \subseteq DOMAIN hp
         /\ \A i \in DOMAIN hp2 : hp2[i] = hp[i]
  BY NothingAssumption DEF Collected, Restrict, HeapOK, Holds

-----------------------------------------------------------------------------
(* What a step leaves alone, part by part *)

(* The flights, when nobody begins or ends one or begins to wait.          *)
LEMMA FlightsStay ==
  ASSUME NEW rd, NEW rd2, NEW fl, FlightsOK(rd, fl),
         \A q \in Readers : rd2[q].pc \in Flying <=> rd[q].pc \in Flying,
         \A q \in Readers : rd2[q].pc = "wait" => rd[q].pc = "wait",
         \A q \in Readers : rd2[q].pc \in Flying \cup {"wait"} => rd2[q].height = rd[q].height
  PROVE  FlightsOK(rd2, fl)
  <1>1. \A q \in Readers, h \in Heights : Flyer(rd2, q, h) <=> Flyer(rd, q, h)
    BY DEF Flyer
  <1>2. \A h \in fl : \E q \in Readers : Flyer(rd2, q, h)
    BY <1>1 DEF FlightsOK
  <1>3. \A q \in Readers : rd2[q].pc = "wait" => rd2[q].height \in fl
    BY DEF FlightsOK
  <1> QED BY <1>1, <1>2, <1>3 DEF FlightsOK

(* The encodings, when no encoder leaves and nobody begins to wait.        *)
LEMMA VariantsStay ==
  ASSUME NEW rd, NEW rd2, NEW hp, NEW hp2, VariantsOK(rd, hp),
         \A i \in DOMAIN hp2 : \/ hp2[i].variantFlights = {}
                               \/ i \in DOMAIN hp /\ hp2[i].variantFlights = hp[i].variantFlights,
         \A q \in Readers : rd[q].pc \in Encoding =>
                              /\ rd2[q].pc \in Encoding /\ rd2[q].e = rd[q].e
                              /\ rd2[q].view = rd[q].view /\ rd2[q].v = rd[q].v,
         \A q \in Readers : rd2[q].pc = "variant_wait" =>
                              rd2[q] = rd[q] /\ hp2[rd[q].e].variantFlights = hp[rd[q].e].variantFlights
  PROVE  VariantsOK(rd2, hp2)
  <1>1. \A q \in Readers : \A i, k : Encoder(rd, q, i, k) => Encoder(rd2, q, i, k)
    BY DEF Encoder, KeyOf
  <1>2. \A i \in DOMAIN hp2 : \A k \in hp2[i].variantFlights : \E q \in Readers : Encoder(rd2, q, i, k)
    BY <1>1 DEF VariantsOK
  <1>3. \A q \in Readers : rd2[q].pc = "variant_wait" =>
                             KeyOf(rd2[q]) \in hp2[rd2[q].e].variantFlights
    BY DEF VariantsOK
  <1> QED BY <1>2, <1>3 DEF VariantsOK

(* There are finitely many builder slots in use.                           *)
LEMMA HoldingFinite == \A rd : IsFiniteSet(Holding(rd)) /\ Cardinality(Holding(rd)) \in Nat
  <1>1. \A rd : Holding(rd) \subseteq Readers
    BY DEF Holding
  <1> QED BY <1>1, CacheAssumption, FS_Subset, FS_CardinalityType

(* Slots that stay with their holders.                                     *)
LEMMA SlotsStay ==
  ASSUME NEW rd, NEW rd2, NEW bu, SlotsOK(rd, bu),
         \A q \in Readers : rd2[q].pc \in Slotted <=> rd[q].pc \in Slotted
  PROVE  SlotsOK(rd2, bu)
  <1>1. Holding(rd2) = Holding(rd)
    BY DEF Holding
  <1> QED BY <1>1 DEF SlotsOK

(* A slot is taken below the limit only.                                   *)
LEMMA SlotTaken ==
  ASSUME NEW rd, NEW rd2, NEW bu, NEW r \in Readers, SlotsOK(rd, bu), bu < Builders,
         rd[r].pc \notin Slotted, rd2[r].pc \in Slotted,
         \A q \in Readers \ {r} : rd2[q].pc \in Slotted <=> rd[q].pc \in Slotted
  PROVE  SlotsOK(rd2, bu + 1)
  <1>1. Holding(rd2) = Holding(rd) \cup {r} /\ r \notin Holding(rd)
    BY DEF Holding
  <1>2. Cardinality(Holding(rd2)) = Cardinality(Holding(rd)) + 1
    BY <1>1, HoldingFinite, FS_AddElement
  <1> QED BY <1>2, CacheAssumption DEF SlotsOK

(* A slot that is given back was held.                                     *)
LEMMA SlotGiven ==
  ASSUME NEW rd, NEW rd2, NEW bu, NEW r \in Readers, SlotsOK(rd, bu),
         rd[r].pc \in Slotted, rd2[r].pc \notin Slotted,
         \A q \in Readers \ {r} : rd2[q].pc \in Slotted <=> rd[q].pc \in Slotted
  PROVE  SlotsOK(rd2, bu - 1)
  <1>1. Holding(rd2) = Holding(rd) \ {r} /\ r \in Holding(rd)
    BY DEF Holding
  <1>2. Cardinality(Holding(rd2)) = Cardinality(Holding(rd)) - 1
    BY <1>1, HoldingFinite, FS_RemoveElement
  <1> QED BY <1>2, HoldingFinite, CacheAssumption DEF SlotsOK

(* The heap, when nobody lets go of a report.                              *)
LEMMA HeapStays ==
  ASSUME NEW rd, NEW rd2, NEW hp, NEW en, HeapOK(rd, hp, en),
         \A q \in Readers : "e" \in DOMAIN rd[q] => "e" \in DOMAIN rd2[q] /\ rd2[q].e = rd[q].e,
         \A q \in Readers : "e" \in DOMAIN rd2[q] => rd2[q].e \in DOMAIN hp
  PROVE  HeapOK(rd2, hp, en)
  BY DEF HeapOK, Holds

-----------------------------------------------------------------------------
(* One lemma per action *)

(* A new request builds, waits for and holds nothing.                      *)
LEMMA RequestWaits ==
  ASSUME WaitInv, NEW r \in Readers, NEW h \in Heights, NEW view \in Views, Request(r, h, view)
  PROVE  WaitInv'
  <1>1. PICK f : LET asked == [pc |-> "capture", height |-> h, view |-> view, floor |-> f]
                 IN reader' = [reader EXCEPT ![r] = IF view = "capture" THEN asked
                                ELSE Put([asked EXCEPT !.pc = "lookup"], "v", Version(h))]
    BY DEF Request
  <1> DEFINE asked == [pc |-> "capture", height |-> h, view |-> view, floor |-> f]
             z == [asked EXCEPT !.pc = "lookup"]
  <1>2. PICK y : y = IF view = "capture" THEN asked ELSE Put(z, "v", Version(h))
    OBVIOUS
  <1>3. reader' = [reader EXCEPT ![r] = y]
    BY <1>1, <1>2
  <1>4. DOMAIN z = Fields /\ z.pc = "lookup" /\ z.height = h /\ z.view = view
    BY DEF Fields
  <1>5. ReaderOK(y) /\ y.pc \in {"capture", "lookup"} /\ "e" \notin DOMAIN y
    <2>1. CASE view = "capture"
      BY <2>1, <1>2 DEF ReaderOK, Fields, Starting, Shapes
    <2>2. CASE view # "capture"
      <3>1. y = Put(z, "v", Version(h))
        BY <2>2, <1>2
      <3> HIDE DEF z
      <3>2. DOMAIN y = Fields \cup {"v"} /\ y.pc = "lookup" /\ y.height = h /\ y.view = view
        BY <3>1, <1>4 DEF Put, Fields
      <3> QED BY <3>2 DEF ReaderOK, Fields, Starting, Shapes
    <2> QED BY <2>1, <2>2
  <1>6. reader[r] = Idle /\ reader[r].pc = "idle" /\ "e" \notin DOMAIN reader[r]
    BY DEF Request, Idle
  <1>7. ReadersOK(reader') /\ reader'[r] = y /\ \A q \in Readers : q # r => reader'[q] = reader[q]
    BY <1>3, <1>5 DEF WaitInv, Waits, ReadersOK
  <1>8. UNCHANGED <<heap, entries, flights, building>>
    BY DEF Request
  <1>9. HeapOK(reader', heap', entries')
    <2>1. \A q \in Readers : "e" \in DOMAIN reader[q] =>
                                "e" \in DOMAIN reader'[q] /\ reader'[q].e = reader[q].e
      BY <1>6, <1>7
    <2>2. \A q \in Readers : "e" \in DOMAIN reader'[q] => reader'[q].e \in DOMAIN heap
      BY <1>5, <1>7 DEF WaitInv, Waits, HeapOK
    <2> QED BY <2>1, <2>2, <1>8, HeapStays DEF WaitInv, Waits
  <1>10. FlightsOK(reader', flights')
    BY <1>5, <1>6, <1>7, <1>8, FlightsStay DEF WaitInv, Waits, Flying
  <1>11. VariantsOK(reader', heap')
    BY <1>5, <1>6, <1>7, <1>8, VariantsStay DEF WaitInv, Waits, Encoding
  <1>12. SlotsOK(reader', building')
    BY <1>5, <1>6, <1>7, <1>8, SlotsStay DEF WaitInv, Waits, Slotted
  <1> QED BY <1>7, <1>9, <1>10, <1>11, <1>12 DEF WaitInv, Waits

(* What a request carries follows from where it is.                        *)
LEMMA AtFields ==
  ASSUME WaitInv, NEW r \in Readers
  PROVE  /\ reader[r].pc \in Starting => DOMAIN reader[r] = Fields
         /\ reader[r].pc = "lookup" => DOMAIN reader[r] = Fields \cup {"v"}
         /\ reader[r].pc \in Bearing => DOMAIN reader[r] = Fields \cup {"v", "e"}
         /\ reader[r].pc = "publish" => DOMAIN reader[r] \in {Fields \cup {"v"}, Fields \cup {"v", "e"}}
         /\ "e" \in DOMAIN reader[r] => reader[r].e \in DOMAIN heap
         /\ reader[r].pc # "idle" => reader[r].height \in Heights /\ reader[r].view \in Views
         /\ reader[r].pc \in Starting \cup Bearing \cup {"lookup", "publish", "idle"}
         /\ "e" \in DOMAIN reader[r] => reader[r].pc \in Bearing \cup {"publish"}
  <1>1. "e" \in DOMAIN reader[r] => reader[r].e \in DOMAIN heap
    BY DEF WaitInv, Waits, HeapOK
  <1>2. ReaderOK(reader[r])
    BY DEF WaitInv, Waits, ReadersOK
  <1>3. CASE reader[r] = Idle
    BY <1>3, <1>1 DEF Idle, Starting, Bearing
  <1>4. CASE reader[r] # Idle
    <2> DEFINE x == reader[r]
    <2>1. x.pc \in Starting \cup Bearing \cup {"lookup", "publish"} /\ x.height \in Heights /\ x.view \in Views
      BY <1>2, <1>4 DEF ReaderOK
    <2>2. DOMAIN x \in Shapes(x.pc)
      BY <1>2, <1>4 DEF ReaderOK
    <2>3. x.pc \in Starting => DOMAIN x = Fields
      BY <2>2 DEF Shapes
    <2>4. x.pc = "lookup" => DOMAIN x = Fields \cup {"v"}
      BY <2>2 DEF Shapes, Starting
    <2>5. x.pc \in Bearing => DOMAIN x = Fields \cup {"v", "e"}
      BY <2>2 DEF Shapes, Starting, Bearing
    <2>6. x.pc = "publish" => DOMAIN x \in {Fields \cup {"v"}, Fields \cup {"v", "e"}}
      BY <2>2 DEF Shapes, Starting
    <2> HIDE DEF x
    <2>7. "e" \in DOMAIN x => x.pc \in Bearing \cup {"publish"}
      BY <2>1, <2>3, <2>4 DEF Fields
    <2> QED BY <1>1, <2>1, <2>3, <2>4, <2>5, <2>6, <2>7 DEF x
  <1> QED BY <1>3, <1>4

(* A request that reads the version waits for nobody.                      *)
LEMMA ReadVersionWaits ==
  ASSUME WaitInv, NEW r \in Readers, ReadVersion(r)
  PROVE  WaitInv'
  <1> DEFINE x == reader[r]
  <1>1. PICK y : y = Put([x EXCEPT !.pc = "lookup"], "v", Version(x.height))
    OBVIOUS
  <1>2. reader' = [reader EXCEPT ![r] = y] /\ x.pc = "version"
    BY <1>1 DEF ReadVersion, Go, At
  <1>3. DOMAIN x = Fields /\ x.height \in Heights /\ x.view \in Views
    BY <1>2, AtFields DEF Starting
  <1>4. DOMAIN y = Fields \cup {"v"} /\ y.pc = "lookup" /\ y.height = x.height /\ y.view = x.view
    BY <1>1, <1>3 DEF Put, Fields
  <1>5. ReaderOK(y) /\ "e" \notin DOMAIN y
    BY <1>3, <1>4 DEF ReaderOK, Fields, Shapes, Starting
  <1>6. ReadersOK(reader') /\ reader'[r] = y /\ \A q \in Readers : q # r => reader'[q] = reader[q]
    BY <1>2, <1>5 DEF WaitInv, Waits, ReadersOK
  <1>moved. /\ reader[r].pc = "version" /\ reader'[r].pc = "lookup"
        /\ \A q \in Readers : q # r => reader'[q] = reader[q]
    BY <1>2, <1>4, <1>6
  <1>7. UNCHANGED <<heap, entries, flights, building>>
    BY DEF ReadVersion
  <1>8. HeapOK(reader', heap', entries')
    <2>1. \A q \in Readers : "e" \in DOMAIN reader[q] =>
                                "e" \in DOMAIN reader'[q] /\ reader'[q].e = reader[q].e
      BY <1>3, <1>6 DEF Fields
    <2>2. \A q \in Readers : "e" \in DOMAIN reader'[q] => reader'[q].e \in DOMAIN heap
      BY <1>5, <1>6 DEF WaitInv, Waits, HeapOK
    <2> QED BY <2>1, <2>2, <1>7, HeapStays DEF WaitInv, Waits
  <1>9. FlightsOK(reader', flights')
    BY <1>moved, <1>7, FlightsStay DEF WaitInv, Waits, Flying
  <1>10. VariantsOK(reader', heap')
    BY <1>moved, <1>7, VariantsStay DEF WaitInv, Waits, Encoding
  <1>11. SlotsOK(reader', building')
    BY <1>moved, <1>7, SlotsStay DEF WaitInv, Waits, Slotted
  <1> QED BY <1>6, <1>8, <1>9, <1>10, <1>11 DEF WaitInv, Waits

(* A report from the cache is one that the cache keeps in use.             *)
LEMMA LookupHitWaits ==
  ASSUME WaitInv, NEW r \in Readers, LookupHit(r)
  PROVE  WaitInv'
  <1> DEFINE x == reader[r]
  <1>1. PICK y : y = Put([x EXCEPT !.pc = "encode"], "e", entries[x.height])
    OBVIOUS
  <1>2. reader' = [reader EXCEPT ![r] = y] /\ x.pc = "lookup" /\ entries[x.height] # Nothing
    BY <1>1 DEF LookupHit, Go, At, Exact, Usable
  <1>3. DOMAIN x = Fields \cup {"v"} /\ x.height \in Heights /\ x.view \in Views
    BY <1>2, AtFields
  <1>4. /\ DOMAIN y = Fields \cup {"v", "e"} /\ y.pc = "encode" /\ y.height = x.height /\ y.view = x.view
        /\ y.e = entries[x.height]
    BY <1>1, <1>3 DEF Put, Fields
  <1>5. ReaderOK(y) /\ y.e \in DOMAIN heap
    <2>1. y.e \in DOMAIN heap
      BY <1>2, <1>3, <1>4 DEF WaitInv, Waits, HeapOK
    <2> QED BY <2>1, <1>3, <1>4 DEF ReaderOK, Fields, Shapes, Starting, Bearing
  <1>6. ReadersOK(reader') /\ reader'[r] = y /\ \A q \in Readers : q # r => reader'[q] = reader[q]
    BY <1>2, <1>5 DEF WaitInv, Waits, ReadersOK
  <1>moved. /\ reader[r].pc = "lookup" /\ reader'[r].pc = "encode"
        /\ \A q \in Readers : q # r => reader'[q] = reader[q]
    BY <1>2, <1>4, <1>6
  <1>7. UNCHANGED <<heap, entries, flights, building>>
    BY DEF LookupHit
  <1>8. HeapOK(reader', heap', entries')
    <2>1. \A q \in Readers : "e" \in DOMAIN reader[q] =>
                                "e" \in DOMAIN reader'[q] /\ reader'[q].e = reader[q].e
      BY <1>3, <1>6 DEF Fields
    <2>2. \A q \in Readers : "e" \in DOMAIN reader'[q] => reader'[q].e \in DOMAIN heap
      BY <1>5, <1>6 DEF WaitInv, Waits, HeapOK
    <2> QED BY <2>1, <2>2, <1>7, HeapStays DEF WaitInv, Waits
  <1>9. FlightsOK(reader', flights')
    BY <1>moved, <1>7, FlightsStay DEF WaitInv, Waits, Flying
  <1>10. VariantsOK(reader', heap')
    BY <1>moved, <1>7, VariantsStay DEF WaitInv, Waits, Encoding
  <1>11. SlotsOK(reader', building')
    BY <1>moved, <1>7, SlotsStay DEF WaitInv, Waits, Slotted
  <1> QED BY <1>6, <1>8, <1>9, <1>10, <1>11 DEF WaitInv, Waits

(* Without a flight the request becomes its builder; with one it waits.    *)
LEMMA LookupMissWaits ==
  ASSUME WaitInv, NEW r \in Readers, LookupMiss(r)
  PROVE  WaitInv'
  <1> DEFINE x == reader[r]
             pc == IF x.height \in flights THEN "wait" ELSE "build"
  <1>1. PICK y : y = [Asked(x) EXCEPT !.pc = pc]
    OBVIOUS
  <1>2. /\ reader' = [reader EXCEPT ![r] = y] /\ x.pc = "lookup"
        /\ flights' = flights \cup {x.height} /\ UNCHANGED <<heap, entries, building>>
    BY <1>1 DEF LookupMiss, At
  <1>3. DOMAIN x = Fields \cup {"v"} /\ x.height \in Heights /\ x.view \in Views
    BY <1>2, AtFields
  <1>4. DOMAIN y = Fields /\ y.pc = pc /\ y.height = x.height /\ y.view = x.view
    BY <1>1 DEF Asked, Fields
  <1>5. ReaderOK(y) /\ "e" \notin DOMAIN y
    BY <1>3, <1>4 DEF ReaderOK, Fields, Shapes, Starting
  <1>6. ReadersOK(reader') /\ reader'[r] = y /\ \A q \in Readers : q # r => reader'[q] = reader[q]
    BY <1>2, <1>5 DEF WaitInv, Waits, ReadersOK
  <1>moved. /\ reader[r].pc = "lookup" /\ reader'[r].pc \in {"wait", "build"} /\ UNCHANGED <<heap, building>>
        /\ \A q \in Readers : q # r => reader'[q] = reader[q]
    BY <1>2, <1>4, <1>6
  <1>7. HeapOK(reader', heap', entries')
    <2>1. \A q \in Readers : "e" \in DOMAIN reader[q] =>
                                "e" \in DOMAIN reader'[q] /\ reader'[q].e = reader[q].e
      BY <1>3, <1>6 DEF Fields
    <2>2. \A q \in Readers : "e" \in DOMAIN reader'[q] => reader'[q].e \in DOMAIN heap
      BY <1>5, <1>6 DEF WaitInv, Waits, HeapOK
    <2> QED BY <2>1, <2>2, <1>2, HeapStays DEF WaitInv, Waits
  <1>8. FlightsOK(reader', flights')
    <2>1. FlightsOK(reader, flights)
      BY DEF WaitInv, Waits
    <2>2. CASE x.height \in flights
      <3>1. flights' = flights /\ y.pc = "wait"
        BY <2>2, <1>2, <1>4
      <3>2. \A q \in Readers, h \in Heights : Flyer(reader', q, h) <=> Flyer(reader, q, h)
        BY <3>1, <1>2, <1>6 DEF Flyer, Flying
      <3>3. \A q \in Readers : reader'[q].pc = "wait" => reader'[q].height \in flights
        BY <2>1, <2>2, <1>4, <1>6 DEF FlightsOK
      <3> QED BY <2>1, <3>1, <3>2, <3>3 DEF FlightsOK
    <2>3. CASE x.height \notin flights
      <3>1. y.pc = "build"
        BY <2>3, <1>4
      <3>2. \A q \in Readers, h \in Heights :
              Flyer(reader', q, h) <=> Flyer(reader, q, h) \/ (q = r /\ h = x.height)
        BY <3>1, <1>2, <1>4, <1>6 DEF Flyer, Flying
      <3>3. \A q \in Readers : reader'[q].pc = "wait" => reader'[q].height \in flights
        BY <2>1, <3>1, <1>6 DEF FlightsOK
      <3>4. \A q \in Readers : ~Flyer(reader, q, x.height)
        BY <2>1, <2>3, <1>3 DEF FlightsOK
      <3>5. flights' \subseteq Heights /\ flights' = flights \cup {x.height}
        BY <2>1, <1>2, <1>3 DEF FlightsOK
      <3>6. \A q \in Readers, h \in Heights : Flyer(reader', q, h) => h \in flights'
        BY <2>1, <3>2, <3>5 DEF FlightsOK
      <3>7. \A h \in flights' : \E q \in Readers : Flyer(reader', q, h)
        BY <2>1, <1>3, <3>2, <3>5 DEF FlightsOK
      <3>8. \A p, q \in Readers, h \in Heights : Flyer(reader', p, h) /\ Flyer(reader', q, h) => p = q
        BY <2>1, <3>2, <3>4 DEF FlightsOK
      <3> QED BY <1>2, <3>3, <3>5, <3>6, <3>7, <3>8 DEF FlightsOK
    <2> QED BY <2>2, <2>3
  <1>9. VariantsOK(reader', heap')
    BY <1>moved, VariantsStay DEF WaitInv, Waits, Encoding
  <1>10. SlotsOK(reader', building')
    BY <1>moved, SlotsStay DEF WaitInv, Waits, Slotted
  <1> QED BY <1>6, <1>7, <1>8, <1>9, <1>10 DEF WaitInv, Waits

(* A builder that returns its slot is still the flight's builder.          *)
LEMMA ReadLatestWaits ==
  ASSUME WaitInv, NEW r \in Readers, ReadLatest(r)
  PROVE  WaitInv'
  <1> DEFINE x == reader[r]
  <1>1. PICK y : y = Put([x EXCEPT !.pc = "publish"], "v", Version(x.height))
    OBVIOUS
  <1>2. /\ reader' = [reader EXCEPT ![r] = y] /\ x.pc \in {"built", "failed"}
        /\ building' = IF x.pc = "built" THEN building - 1 ELSE building
        /\ UNCHANGED <<heap, entries, flights>>
    BY <1>1 DEF ReadLatest, Go, At
  <1>same. UNCHANGED <<heap, entries, flights>>
    BY <1>2
  <1>3. /\ DOMAIN x = IF x.pc = "built" THEN Fields \cup {"v", "e"} ELSE Fields
        /\ x.height \in Heights /\ x.view \in Views
    BY <1>2, AtFields DEF Starting, Bearing
  <1>4. DOMAIN y = DOMAIN x \cup {"v"} /\ y.pc = "publish" /\ y.height = x.height /\ y.view = x.view
    BY <1>1, <1>3 DEF Put, Fields
  <1>5. "e" \in DOMAIN x => "e" \in DOMAIN y /\ y.e = x.e
    BY <1>1, <1>3 DEF Put, Fields
  <1>6. DOMAIN y \in {Fields \cup {"v"}, Fields \cup {"v", "e"}}
    BY <1>3, <1>4
  <1>7. ReaderOK(y)
    BY <1>3, <1>4, <1>6 DEF ReaderOK, Shapes, Starting
  <1>8. ReadersOK(reader') /\ reader'[r] = y /\ \A q \in Readers : q # r => reader'[q] = reader[q]
    BY <1>2, <1>7 DEF WaitInv, Waits, ReadersOK
  <1>moved. /\ reader[r].pc \in {"built", "failed"} /\ reader'[r].pc = "publish"
            /\ reader'[r].height = reader[r].height
            /\ \A q \in Readers : q # r => reader'[q] = reader[q]
    BY <1>2, <1>4, <1>8
  <1>9. HeapOK(reader', heap', entries')
    <2>1. \A q \in Readers : "e" \in DOMAIN reader[q] =>
                                "e" \in DOMAIN reader'[q] /\ reader'[q].e = reader[q].e
      BY <1>5, <1>8
    <2>2. "e" \in DOMAIN y => "e" \in DOMAIN x
      BY <1>4
    <2>3. \A q \in Readers : "e" \in DOMAIN reader'[q] => reader'[q].e \in DOMAIN heap
      BY <2>2, <1>5, <1>8 DEF WaitInv, Waits, HeapOK
    <2> QED BY <2>1, <2>3, <1>2, HeapStays DEF WaitInv, Waits
  <1>10. FlightsOK(reader', flights')
    BY <1>same, <1>moved, FlightsStay DEF WaitInv, Waits, Flying
  <1>11. VariantsOK(reader', heap')
    BY <1>same, <1>moved, VariantsStay DEF WaitInv, Waits, Encoding
  <1>12. SlotsOK(reader', building')
    <2>1. CASE x.pc = "built"
      <3>1. building' = building - 1
        BY <2>1, <1>2
      <3>2. SlotsOK(reader', building - 1)
        BY <2>1, <1>moved, SlotGiven DEF WaitInv, Waits, Slotted
      <3> QED BY <3>1, <3>2
    <2>2. CASE x.pc = "failed"
      <3>1. building' = building
        BY <2>2, <1>2
      <3> QED BY <3>1, <2>2, <1>moved, SlotsStay DEF WaitInv, Waits, Slotted
    <2> QED BY <2>1, <2>2, <1>2
  <1> QED BY <1>8, <1>9, <1>10, <1>11, <1>12 DEF WaitInv, Waits

(* The encoder takes a slot and stays the encoder.                         *)
LEMMA TakeSlotWaits ==
  ASSUME WaitInv, NEW r \in Readers, TakeSlot(r)
  PROVE  WaitInv'
  <1> DEFINE x == reader[r]
  <1>1. PICK y : y = [x EXCEPT !.pc = "encoded"]
    OBVIOUS
  <1>2. /\ reader' = [reader EXCEPT ![r] = y] /\ x.pc = "variant"
        /\ building < Builders /\ building' = building + 1 /\ UNCHANGED <<heap, entries, flights>>
    BY <1>1 DEF TakeSlot, Go, At
  <1>same. UNCHANGED <<heap, entries, flights>>
    BY <1>2
  <1>3. DOMAIN x = Fields \cup {"v", "e"} /\ x.height \in Heights /\ x.view \in Views
    BY <1>2, AtFields DEF Bearing
  <1>4. /\ DOMAIN y = Fields \cup {"v", "e"} /\ y.pc = "encoded"
        /\ y.height = x.height /\ y.view = x.view /\ y.e = x.e /\ y.v = x.v
    BY <1>1, <1>3 DEF Fields
  <1>5. ReaderOK(y)
    BY <1>3, <1>4 DEF ReaderOK, Fields, Shapes, Starting, Bearing
  <1>6. ReadersOK(reader') /\ reader'[r] = y /\ \A q \in Readers : q # r => reader'[q] = reader[q]
    BY <1>2, <1>5 DEF WaitInv, Waits, ReadersOK
  <1>moved. /\ reader[r].pc = "variant" /\ reader'[r].pc = "encoded"
            /\ reader'[r].view = reader[r].view /\ reader'[r].e = reader[r].e /\ reader'[r].v = reader[r].v
            /\ \A q \in Readers : q # r => reader'[q] = reader[q]
    BY <1>2, <1>4, <1>6
  <1>7. HeapOK(reader', heap', entries')
    <2>1. \A q \in Readers : "e" \in DOMAIN reader[q] =>
                                "e" \in DOMAIN reader'[q] /\ reader'[q].e = reader[q].e
      BY <1>4, <1>6
    <2>2. \A q \in Readers : "e" \in DOMAIN reader'[q] => reader'[q].e \in DOMAIN heap
      BY <1>3, <1>4, <1>6 DEF WaitInv, Waits, HeapOK
    <2> QED BY <2>1, <2>2, <1>2, HeapStays DEF WaitInv, Waits
  <1>8. FlightsOK(reader', flights')
    BY <1>same, <1>moved, FlightsStay DEF WaitInv, Waits, Flying
  <1>9. VariantsOK(reader', heap')
    BY <1>same, <1>moved, VariantsStay DEF WaitInv, Waits, Encoding
  <1>10. SlotsOK(reader', building')
    <2>1. SlotsOK(reader', building + 1)
      BY <1>2, <1>moved, SlotTaken DEF WaitInv, Waits, Slotted
    <2> QED BY <2>1, <1>2
  <1> QED BY <1>6, <1>7, <1>8, <1>9, <1>10 DEF WaitInv, Waits

(* A builder whose client goes away stays the flight's builder.            *)
LEMMA CancelBuildWaits ==
  ASSUME WaitInv, NEW r \in Readers, CancelBuild(r)
  PROVE  WaitInv'
  <1> DEFINE x == reader[r]
  <1>1. PICK y : y = [x EXCEPT !.pc = "failed"]
    OBVIOUS
  <1>2. /\ reader' = [reader EXCEPT ![r] = y] /\ x.pc = "build"
        /\ UNCHANGED <<heap, entries, flights, building>>
    BY <1>1 DEF CancelBuild, Go, At
  <1>same. UNCHANGED <<heap, entries, flights, building>>
    BY <1>2
  <1>3. DOMAIN x = Fields /\ x.height \in Heights /\ x.view \in Views
    BY <1>2, AtFields DEF Starting
  <1>4. DOMAIN y = Fields /\ y.pc = "failed" /\ y.height = x.height /\ y.view = x.view
    BY <1>1, <1>3 DEF Fields
  <1>5. ReaderOK(y) /\ "e" \notin DOMAIN y
    BY <1>3, <1>4 DEF ReaderOK, Fields, Shapes, Starting
  <1>6. ReadersOK(reader') /\ reader'[r] = y /\ \A q \in Readers : q # r => reader'[q] = reader[q]
    BY <1>2, <1>5 DEF WaitInv, Waits, ReadersOK
  <1>moved. /\ reader[r].pc = "build" /\ reader'[r].pc = "failed"
            /\ reader'[r].height = reader[r].height
            /\ \A q \in Readers : q # r => reader'[q] = reader[q]
    BY <1>2, <1>4, <1>6
  <1>7. HeapOK(reader', heap', entries')
    <2>1. \A q \in Readers : "e" \in DOMAIN reader[q] =>
                                "e" \in DOMAIN reader'[q] /\ reader'[q].e = reader[q].e
      BY <1>3, <1>6 DEF Fields
    <2>2. \A q \in Readers : "e" \in DOMAIN reader'[q] => reader'[q].e \in DOMAIN heap
      BY <1>5, <1>6 DEF WaitInv, Waits, HeapOK
    <2> QED BY <2>1, <2>2, <1>2, HeapStays DEF WaitInv, Waits
  <1>8. FlightsOK(reader', flights')
    BY <1>same, <1>moved, FlightsStay DEF WaitInv, Waits, Flying
  <1>9. VariantsOK(reader', heap')
    BY <1>same, <1>moved, VariantsStay DEF WaitInv, Waits, Encoding
  <1>10. SlotsOK(reader', building')
    BY <1>same, <1>moved, SlotsStay DEF WaitInv, Waits, Slotted
  <1> QED BY <1>6, <1>7, <1>8, <1>9, <1>10 DEF WaitInv, Waits

(* Whoever finds no encoding under way claims it; the others wait.         *)
LEMMA EncodeMissWaits ==
  ASSUME WaitInv, NEW r \in Readers, EncodeMiss(r)
  PROVE  WaitInv'
  <1> DEFINE x == reader[r]
             k == KeyOf(x)
             pc == IF k \in heap[x.e].variantFlights THEN "variant_wait" ELSE "variant"
  <1>1. PICK y : y = [x EXCEPT !.pc = pc]
    OBVIOUS
  <1>2. /\ reader' = [reader EXCEPT ![r] = y] /\ x.pc = "encode"
        /\ heap' = [heap EXCEPT ![x.e].variantFlights = @ \cup {k}]
        /\ UNCHANGED <<entries, flights, building>>
    BY <1>1 DEF EncodeMiss, Go, At
  <1>same. UNCHANGED <<entries, flights, building>>
    BY <1>2
  <1>3. DOMAIN x = Fields \cup {"v", "e"} /\ x.height \in Heights /\ x.view \in Views /\ x.e \in DOMAIN heap
    BY <1>2, AtFields DEF Bearing
  <1>4. /\ DOMAIN y = Fields \cup {"v", "e"} /\ y.pc = pc
        /\ y.height = x.height /\ y.view = x.view /\ y.e = x.e /\ y.v = x.v
    BY <1>1, <1>3 DEF Fields
  <1>5. ReaderOK(y)
    BY <1>3, <1>4 DEF ReaderOK, Fields, Shapes, Starting, Bearing
  <1>6. ReadersOK(reader') /\ reader'[r] = y /\ \A q \in Readers : q # r => reader'[q] = reader[q]
    BY <1>2, <1>5 DEF WaitInv, Waits, ReadersOK
  <1>moved. /\ reader[r].pc = "encode" /\ reader'[r].pc \in {"variant", "variant_wait"}
            /\ \A q \in Readers : q # r => reader'[q] = reader[q]
    BY <1>2, <1>4, <1>6
  <1>7. HeapOK(reader', heap', entries')
    <2>1. \A q \in Readers : "e" \in DOMAIN reader[q] =>
                                "e" \in DOMAIN reader'[q] /\ reader'[q].e = reader[q].e
      BY <1>4, <1>6
    <2>2. \A q \in Readers : "e" \in DOMAIN reader'[q] => reader'[q].e \in DOMAIN heap
      BY <1>3, <1>4, <1>6 DEF WaitInv, Waits, HeapOK
    <2>3. HeapOK(reader', heap, entries)
      BY <2>1, <2>2, HeapStays DEF WaitInv, Waits
    <2>4. DOMAIN heap' = DOMAIN heap /\ entries' = entries
      BY <1>2
    <2> QED BY <2>3, <2>4 DEF HeapOK
  <1>8. FlightsOK(reader', flights')
    BY <1>same, <1>moved, FlightsStay DEF WaitInv, Waits, Flying
  <1>9. VariantsOK(reader', heap')
    <2>1. VariantsOK(reader, heap)
      BY DEF WaitInv, Waits
    <2>2. /\ DOMAIN heap' = DOMAIN heap
          /\ \A i \in DOMAIN heap : heap'[i].variantFlights =
                IF i = x.e THEN heap[i].variantFlights \cup {k} ELSE heap[i].variantFlights
      BY <1>2, <1>3
    <2>3. \A q \in Readers : \A i, j : Encoder(reader, q, i, j) => Encoder(reader', q, i, j)
      BY <1>moved DEF Encoder, Encoding
    <2>4. KeyOf(reader'[r]) = k /\ reader'[r].e = x.e
      BY <1>4, <1>6 DEF KeyOf
    <2>5. y.pc = "variant" => Encoder(reader', r, x.e, k)
      BY <2>4, <1>6 DEF Encoder, Encoding
    <2>6. y.pc # "variant" => k \in heap[x.e].variantFlights
      BY <1>4
    <2>7. \A i \in DOMAIN heap' : \A j \in heap'[i].variantFlights :
            \E q \in Readers : Encoder(reader', q, i, j)
      BY <2>1, <2>2, <2>3, <2>5, <2>6 DEF VariantsOK
    <2>8. \A q \in Readers : reader'[q].pc = "variant_wait" =>
            KeyOf(reader'[q]) \in heap'[reader'[q].e].variantFlights
      <3> SUFFICES ASSUME NEW q \in Readers, reader'[q].pc = "variant_wait"
                   PROVE  KeyOf(reader'[q]) \in heap'[reader'[q].e].variantFlights
        OBVIOUS
      <3>1. CASE q = r
        BY <3>1, <2>2, <2>4, <1>3
      <3>2. CASE q # r
        <4>1. reader'[q] = reader[q]
          BY <3>2, <1>6
        <4>2. "e" \in DOMAIN reader[q]
          BY <4>1, AtFields DEF Bearing, Fields
        <4>3. reader[q].e \in DOMAIN heap
          BY <4>2, AtFields
        <4> QED BY <4>1, <4>3, <2>1, <2>2 DEF VariantsOK
      <3> QED BY <3>1, <3>2
    <2> QED BY <2>7, <2>8 DEF VariantsOK
  <1>10. SlotsOK(reader', building')
    BY <1>same, <1>moved, SlotsStay DEF WaitInv, Waits, Slotted
  <1> QED BY <1>6, <1>7, <1>8, <1>9, <1>10 DEF WaitInv, Waits

(* The encodings, when the heap is collected and no encoder leaves.        *)
LEMMA CollectedVariants ==
  ASSUME WaitInv, NEW rd2, NEW hp2, NEW en2, HeapOK(rd2, hp2, en2), ReadersOK(rd2),
         \A i \in DOMAIN hp2 : i \in DOMAIN heap => hp2[i].variantFlights = heap[i].variantFlights,
         \A i \in DOMAIN hp2 : i \notin DOMAIN heap => hp2[i].variantFlights = {},
         \A q \in Readers : reader[q].pc \in Encoding =>
                              /\ rd2[q].pc \in Encoding /\ rd2[q].e = reader[q].e
                              /\ rd2[q].view = reader[q].view /\ rd2[q].v = reader[q].v,
         \A q \in Readers : rd2[q].pc = "variant_wait" => rd2[q] = reader[q]
  PROVE  VariantsOK(rd2, hp2)
  <1>1. \A q \in Readers : rd2[q].pc = "variant_wait" =>
                             hp2[reader[q].e].variantFlights = heap[reader[q].e].variantFlights
    <2> SUFFICES ASSUME NEW q \in Readers, rd2[q].pc = "variant_wait"
                 PROVE  hp2[reader[q].e].variantFlights = heap[reader[q].e].variantFlights
      OBVIOUS
    <2>1. rd2[q] = reader[q]
      OBVIOUS
    <2>2. reader[q].pc = "variant_wait"
      BY <2>1
    <2>3. DOMAIN reader[q] = Fields \cup {"v", "e"}
      BY <2>2, AtFields DEF Bearing
    <2>4. "e" \in DOMAIN reader[q]
      BY <2>3
    <2>5. reader[q].e \in DOMAIN heap
      BY <2>4, AtFields
    <2>6. reader[q].e \in DOMAIN hp2
      BY <2>1, <2>4 DEF HeapOK
    <2> QED BY <2>5, <2>6
  <1>2. \A i \in DOMAIN hp2 : \/ hp2[i].variantFlights = {}
                              \/ i \in DOMAIN heap /\ hp2[i].variantFlights = heap[i].variantFlights
    OBVIOUS
  <1> QED BY <1>1, <1>2, VariantsStay DEF WaitInv, Waits
(* The heap with a new report.                                             *)
LEMMA NewReportFields ==
  ASSUME WaitInv, NEW h, NEW v, NEW hp, hp = Put(heap, FreeId, NewReport(h, v))
  PROVE  /\ DOMAIN hp = DOMAIN heap \cup {FreeId} /\ DOMAIN hp \subseteq Ids
         /\ hp[FreeId] = NewReport(h, v) /\ hp[FreeId].variantFlights = {}
         /\ \A i \in DOMAIN heap : hp[i] = heap[i]
  <1>1. FreeId \in Ids /\ FreeId \notin DOMAIN heap
    BY FreeIdIsFree
  <1>2. hp[FreeId] = NewReport(h, v) /\ DOMAIN hp = DOMAIN heap \cup {FreeId}
    BY DEF Put
  <1>3. hp[FreeId].variantFlights = {}
    BY <1>2 DEF NewReport
  <1>4. \A i \in DOMAIN heap : hp[i] = heap[i]
    BY <1>1 DEF Put
  <1>5. DOMAIN heap \subseteq Ids
    BY DEF WaitInv, Waits, HeapOK
  <1> QED BY <1>1, <1>2, <1>3, <1>4, <1>5

(* A header is a new report with an identity of its own.                   *)
LEMMA LookupAbsentWaits ==
  ASSUME WaitInv, NEW r \in Readers, LookupAbsent(r)
  PROVE  WaitInv'
  <1> DEFINE x == reader[r]
  <1>1. PICK y : y = Put([x EXCEPT !.pc = "encode"], "e", FreeId)
    OBVIOUS
  <1>2. PICK hp : hp = Put(heap, FreeId, NewReport(x.height, x.v))
    OBVIOUS
  <1>3. /\ reader' = [reader EXCEPT ![r] = y] /\ x.pc = "lookup"
        /\ entries' = Drop(entries, x.height)
        /\ heap' = Collected(reader', hp, entries')
    BY <1>1, <1>2 DEF LookupAbsent, Go, At, Heap, Collected
  <1>same. UNCHANGED <<flights, building>>
    BY DEF LookupAbsent
  <1>4. DOMAIN x = Fields \cup {"v"} /\ x.height \in Heights /\ x.view \in Views
    BY <1>3, AtFields
  <1>5. /\ DOMAIN y = Fields \cup {"v", "e"} /\ y.pc = "encode" /\ y.height = x.height /\ y.view = x.view
        /\ y.e = FreeId
    BY <1>1, <1>4 DEF Put, Fields
  <1>6. ReaderOK(y)
    BY <1>4, <1>5 DEF ReaderOK, Fields, Shapes, Starting, Bearing
  <1>7. ReadersOK(reader') /\ reader'[r] = y /\ \A q \in Readers : q # r => reader'[q] = reader[q]
    BY <1>3, <1>6 DEF WaitInv, Waits, ReadersOK
  <1>moved. /\ reader[r].pc = "lookup" /\ reader'[r].pc = "encode"
            /\ \A q \in Readers : q # r => reader'[q] = reader[q]
    BY <1>3, <1>5, <1>7
  <1>8. /\ DOMAIN hp = DOMAIN heap \cup {FreeId} /\ DOMAIN hp \subseteq Ids
        /\ hp[FreeId].variantFlights = {} /\ \A i \in DOMAIN heap : hp[i] = heap[i]
    BY <1>2, NewReportFields
  <1>9. /\ HeapOK(reader', heap', entries') /\ DOMAIN heap' \subseteq DOMAIN hp
        /\ \A i \in DOMAIN heap' : heap'[i] = hp[i]
    <2>1. DOMAIN entries' = Heights /\ \A h \in Heights : entries'[h] \in DOMAIN hp \cup {Nothing}
      BY <1>3, <1>8 DEF Drop, WaitInv, Waits, HeapOK
    <2>2. \A q \in Readers : "e" \in DOMAIN reader'[q] => reader'[q].e \in DOMAIN hp
      BY <1>5, <1>7, <1>8 DEF WaitInv, Waits, HeapOK
    <2>3. heap' = Collected(reader', hp, entries') /\ DOMAIN hp \subseteq Ids
      BY <1>3, <1>8
    <2> QED BY <2>1, <2>2, <2>3, CollectedKeeps
  <1>10. FlightsOK(reader', flights')
    BY <1>same, <1>moved, FlightsStay DEF WaitInv, Waits, Flying
  <1>11. VariantsOK(reader', heap')
    <2>1. \A i \in DOMAIN heap' : i \in DOMAIN heap => heap'[i] = heap[i]
      BY <1>8, <1>9
    <2>4. \A i \in DOMAIN heap' : i \notin DOMAIN heap => heap'[i].variantFlights = {}
      <3>1. \A i \in DOMAIN heap' : i \notin DOMAIN heap => i = FreeId /\ heap'[i] = hp[i]
        BY <1>8, <1>9
      <3> QED BY <3>1, <1>8
    <2>5. \A i \in DOMAIN heap' : i \in DOMAIN heap => heap'[i].variantFlights = heap[i].variantFlights
      <3> TAKE i \in DOMAIN heap'
      <3> HAVE i \in DOMAIN heap
      <3>1. heap'[i] = heap[i]
        BY <2>1
      <3> QED BY <3>1
    <2>2. /\ \A q \in Readers : reader[q].pc \in Encoding => reader'[q] = reader[q]
          /\ \A q \in Readers : reader'[q].pc = "variant_wait" => reader'[q] = reader[q]
      BY <1>moved DEF Encoding
    <2>3. \A q \in Readers : reader[q].pc \in Encoding =>
            /\ reader'[q].pc \in Encoding /\ reader'[q].e = reader[q].e
            /\ reader'[q].view = reader[q].view /\ reader'[q].v = reader[q].v
      BY <2>2
    <2> QED BY <1>7, <1>9, <2>2, <2>3, <2>4, <2>5, CollectedVariants
  <1>12. SlotsOK(reader', building')
    BY <1>same, <1>moved, SlotsStay DEF WaitInv, Waits, Slotted
  <1> QED BY <1>7, <1>9, <1>10, <1>11, <1>12 DEF WaitInv, Waits

(* A step that only lets go of reports.                                    *)
LEMMA JustCollected ==
  ASSUME WaitInv, NEW rd2, NEW en2, NEW hp2, hp2 = Collected(rd2, heap, en2), ReadersOK(rd2),
         DOMAIN en2 = Heights, \A h \in Heights : en2[h] \in DOMAIN heap \cup {Nothing},
         \A q \in Readers : "e" \in DOMAIN rd2[q] => rd2[q].e \in DOMAIN heap
  PROVE  HeapOK(rd2, hp2, en2) /\ \A i \in DOMAIN hp2 : i \in DOMAIN heap /\ hp2[i] = heap[i]
  <1>1. DOMAIN heap \subseteq Ids
    BY DEF WaitInv, Waits, HeapOK
  <1>2. HeapOK(rd2, hp2, en2) /\ DOMAIN hp2 \subseteq DOMAIN heap /\ \A i \in DOMAIN hp2 : hp2[i] = heap[i]
    BY <1>1, CollectedKeeps
  <1> QED BY <1>2

(* One request ends that neither builds nor encodes for others.            *)
LEMMA EndWaits ==
  ASSUME WaitInv, NEW r \in Readers, NEW rd2, DOMAIN rd2 = Readers,
         rd2[r] = Idle, \A q \in Readers : q # r => rd2[q] = reader[q],
         reader[r].pc \notin Flying, reader[r].pc \notin Encoding,
         NEW hp2, hp2 = Collected(rd2, heap, entries)
  PROVE  ReadersOK(rd2) /\ HeapOK(rd2, hp2, entries) /\ FlightsOK(rd2, flights) /\ VariantsOK(rd2, hp2)
  <1>1. rd2[r] = Idle /\ \A q \in Readers : q # r => rd2[q] = reader[q]
    OBVIOUS
  <1>2. rd2[r].pc = "idle" /\ "e" \notin DOMAIN rd2[r]
    BY <1>1 DEF Idle
  <1>3. ReadersOK(rd2)
    BY <1>1 DEF WaitInv, Waits, ReadersOK, ReaderOK
  <1>4. \A q \in Readers : "e" \in DOMAIN rd2[q] => rd2[q].e \in DOMAIN heap
    BY <1>1, <1>2 DEF WaitInv, Waits, HeapOK
  <1>5. DOMAIN entries = Heights /\ \A h \in Heights : entries[h] \in DOMAIN heap \cup {Nothing}
    BY DEF WaitInv, Waits, HeapOK
  <1>6. HeapOK(rd2, hp2, entries) /\ \A i \in DOMAIN hp2 : i \in DOMAIN heap /\ hp2[i] = heap[i]
    BY <1>3, <1>4, <1>5, JustCollected
  <1>7. FlightsOK(rd2, flights)
    <2>1. \A q \in Readers : rd2[q].pc \in Flying <=> reader[q].pc \in Flying
      BY <1>1, <1>2 DEF Flying
    <2>2. \A q \in Readers : rd2[q].pc = "wait" => reader[q].pc = "wait"
      BY <1>1, <1>2
    <2>3. \A q \in Readers : rd2[q].pc \in Flying \cup {"wait"} => rd2[q].height = reader[q].height
      BY <1>1, <1>2 DEF Flying
    <2>4. FlightsOK(reader, flights)
      BY DEF WaitInv, Waits
    <2> QED BY <2>1, <2>2, <2>3, <2>4, FlightsStay
  <1>8. VariantsOK(rd2, hp2)
    <2>1. \A i \in DOMAIN hp2 : i \in DOMAIN heap => hp2[i].variantFlights = heap[i].variantFlights
      <3> TAKE i \in DOMAIN hp2
      <3>1. hp2[i] = heap[i]
        BY <1>6
      <3> QED BY <3>1
    <2>2. \A i \in DOMAIN hp2 : i \notin DOMAIN heap => hp2[i].variantFlights = {}
      BY <1>6
    <2>3. \A q \in Readers : reader[q].pc \in Encoding =>
            /\ rd2[q].pc \in Encoding /\ rd2[q].e = reader[q].e
            /\ rd2[q].view = reader[q].view /\ rd2[q].v = reader[q].v
      BY <1>1
    <2>4. \A q \in Readers : rd2[q].pc = "variant_wait" => rd2[q] = reader[q]
      BY <1>1, <1>2
    <2> QED BY <1>3, <1>6, <2>1, <2>2, <2>3, <2>4, CollectedVariants
  <1> QED BY <1>3, <1>6, <1>7, <1>8

(* A capture gives back its slot and nobody waited for it.                 *)
LEMMA FinishCaptureWaits ==
  ASSUME WaitInv, NEW r \in Readers, FinishCapture(r)
  PROVE  WaitInv'
  <1>1. /\ reader' = [reader EXCEPT ![r] = Idle] /\ heap' = Collected(reader', heap, entries')
        /\ UNCHANGED <<entries, flights>> /\ building' = building - 1 /\ reader[r].pc = "captured"
    BY DEF FinishCapture, At, Heap, Collected
  <1>2. heap' = Collected(reader', heap, entries)
    BY <1>1
  <1>ended. /\ DOMAIN reader' = Readers /\ reader'[r] = Idle
        /\ \A q \in Readers : q # r => reader'[q] = reader[q]
    BY <1>1 DEF WaitInv, Waits, ReadersOK
  <1>3. /\ ReadersOK(reader') /\ HeapOK(reader', heap', entries)
        /\ FlightsOK(reader', flights) /\ VariantsOK(reader', heap')
    <2>1. reader[r].pc \notin Flying /\ reader[r].pc \notin Encoding
      BY <1>1 DEF Flying, Encoding
    <2> QED BY <1>ended, <1>2, <2>1, EndWaits
  <1>4. reader'[r].pc = "idle" /\ reader[r].pc = "captured" /\ \A q \in Readers : q # r => reader'[q] = reader[q]
    BY <1>1 DEF WaitInv, Waits, ReadersOK, Idle
  <1>5. SlotsOK(reader', building - 1)
    BY <1>4, SlotGiven DEF WaitInv, Waits, Slotted
  <1> QED BY <1>1, <1>3, <1>5 DEF WaitInv, Waits

(* A finished encoding is answered at once.                                *)
LEMMA EncodeHitWaits ==
  ASSUME WaitInv, NEW r \in Readers, EncodeHit(r)
  PROVE  WaitInv'
  <1>1. /\ reader' = [reader EXCEPT ![r] = Idle] /\ heap' = Collected(reader', heap, entries')
        /\ UNCHANGED <<entries, flights, building>> /\ reader[r].pc = "encode"
    BY DEF EncodeHit, At, Heap, Collected
  <1>2. heap' = Collected(reader', heap, entries)
    BY <1>1
  <1>ended. /\ DOMAIN reader' = Readers /\ reader'[r] = Idle
        /\ \A q \in Readers : q # r => reader'[q] = reader[q]
    BY <1>1 DEF WaitInv, Waits, ReadersOK
  <1>3. /\ ReadersOK(reader') /\ HeapOK(reader', heap', entries)
        /\ FlightsOK(reader', flights) /\ VariantsOK(reader', heap')
    <2>1. reader[r].pc \notin Flying /\ reader[r].pc \notin Encoding
      BY <1>1 DEF Flying, Encoding
    <2> QED BY <1>ended, <1>2, <2>1, EndWaits
  <1>4. reader'[r].pc = "idle" /\ reader[r].pc = "encode" /\ \A q \in Readers : q # r => reader'[q] = reader[q]
    BY <1>1 DEF WaitInv, Waits, ReadersOK, Idle
  <1>5. SlotsOK(reader', building)
    BY <1>4, SlotsStay DEF WaitInv, Waits, Slotted
  <1> QED BY <1>1, <1>3, <1>5 DEF WaitInv, Waits

(* A client that goes away while it waits leaves nobody waiting for it.    *)
LEMMA CancelWaitingWaits ==
  ASSUME WaitInv, NEW r \in Readers, CancelWaiting(r)
  PROVE  WaitInv'
  <1>1. /\ reader' = [reader EXCEPT ![r] = Idle] /\ heap' = Collected(reader', heap, entries')
        /\ UNCHANGED <<entries, flights, building>>
        /\ reader[r].pc \in {"version", "wait", "variant_wait", "capture"}
    BY DEF CancelWaiting, Heap, Collected
  <1>2. heap' = Collected(reader', heap, entries)
    BY <1>1
  <1>ended. /\ DOMAIN reader' = Readers /\ reader'[r] = Idle
        /\ \A q \in Readers : q # r => reader'[q] = reader[q]
    BY <1>1 DEF WaitInv, Waits, ReadersOK
  <1>3. /\ ReadersOK(reader') /\ HeapOK(reader', heap', entries)
        /\ FlightsOK(reader', flights) /\ VariantsOK(reader', heap')
    <2>1. reader[r].pc \notin Flying /\ reader[r].pc \notin Encoding
      BY <1>1 DEF Flying, Encoding
    <2> QED BY <1>ended, <1>2, <2>1, EndWaits
  <1>4. /\ reader'[r].pc = "idle" /\ reader[r].pc \in {"version", "wait", "variant_wait", "capture"}
        /\ \A q \in Readers : q # r => reader'[q] = reader[q]
    BY <1>1 DEF WaitInv, Waits, ReadersOK, Idle
  <1>5. SlotsOK(reader', building)
    BY <1>4, SlotsStay DEF WaitInv, Waits, Slotted
  <1> QED BY <1>1, <1>3, <1>5 DEF WaitInv, Waits

(* A captured report is new, and its builder occupies a slot.              *)
LEMMA CaptureWaits ==
  ASSUME WaitInv, NEW r \in Readers, Capture(r)
  PROVE  WaitInv'
  <1> DEFINE x == reader[r]
             pc == IF x.pc = "build" THEN "built" ELSE "captured"
  <1>1. PICK v : v = Version(x.height)
    OBVIOUS
  <1>2. PICK y : y = Put(Put([x EXCEPT !.pc = pc], "v", v), "e", FreeId)
    OBVIOUS
  <1>3. PICK hp : hp = Put(heap, FreeId, NewReport(x.height, v))
    OBVIOUS
  <1>4. /\ reader' = [reader EXCEPT ![r] = y] /\ x.pc \in {"build", "capture"}
        /\ heap' = Collected(reader', hp, entries')
    BY <1>1, <1>2, <1>3 DEF Capture, Go, At, Heap, Collected
  <1>same. UNCHANGED <<entries, flights>> /\ building < Builders /\ building' = building + 1
    BY DEF Capture
  <1>5. DOMAIN x = Fields /\ x.height \in Heights /\ x.view \in Views
    BY <1>4, AtFields DEF Starting
  <1>6. PICK u : u = Put([x EXCEPT !.pc = pc], "v", v)
    OBVIOUS
  <1>7. DOMAIN u = Fields \cup {"v"} /\ u.pc = pc /\ u.height = x.height /\ u.view = x.view
    BY <1>5, <1>6 DEF Put, Fields
  <1>8. /\ DOMAIN y = Fields \cup {"v", "e"} /\ y.pc = pc /\ y.height = x.height /\ y.view = x.view
        /\ y.e = FreeId
    <2>1. y = Put(u, "e", FreeId)
      BY <1>2, <1>6
    <2> QED BY <2>1, <1>7 DEF Put, Fields
  <1>9. ReaderOK(y)
    BY <1>5, <1>8 DEF ReaderOK, Fields, Shapes, Starting, Bearing
  <1>10. ReadersOK(reader') /\ reader'[r] = y /\ \A q \in Readers : q # r => reader'[q] = reader[q]
    BY <1>4, <1>9 DEF WaitInv, Waits, ReadersOK
  <1>moved. /\ \/ reader[r].pc = "build" /\ reader'[r].pc = "built"
               \/ reader[r].pc = "capture" /\ reader'[r].pc = "captured"
            /\ reader'[r].height = reader[r].height
            /\ \A q \in Readers : q # r => reader'[q] = reader[q]
    BY <1>4, <1>8, <1>10
  <1>11. /\ DOMAIN hp = DOMAIN heap \cup {FreeId} /\ DOMAIN hp \subseteq Ids
         /\ hp[FreeId].variantFlights = {} /\ \A i \in DOMAIN heap : hp[i] = heap[i]
    BY <1>3, NewReportFields
  <1>12. /\ HeapOK(reader', heap', entries') /\ DOMAIN heap' \subseteq DOMAIN hp
         /\ \A i \in DOMAIN heap' : heap'[i] = hp[i]
    <2>1. DOMAIN entries' = Heights /\ \A h \in Heights : entries'[h] \in DOMAIN hp \cup {Nothing}
      BY <1>same, <1>11 DEF WaitInv, Waits, HeapOK
    <2>2. \A q \in Readers : "e" \in DOMAIN reader'[q] => reader'[q].e \in DOMAIN hp
      BY <1>8, <1>10, <1>11 DEF WaitInv, Waits, HeapOK
    <2>3. heap' = Collected(reader', hp, entries') /\ DOMAIN hp \subseteq Ids
      BY <1>4, <1>11
    <2> QED BY <2>1, <2>2, <2>3, CollectedKeeps
  <1>13. FlightsOK(reader', flights')
    BY <1>same, <1>moved, FlightsStay DEF WaitInv, Waits, Flying
  <1>14. VariantsOK(reader', heap')
    <2>1. \A i \in DOMAIN heap' : i \in DOMAIN heap => heap'[i] = heap[i]
      BY <1>11, <1>12
    <2>2. \A i \in DOMAIN heap' : i \notin DOMAIN heap => heap'[i].variantFlights = {}
      <3>1. \A i \in DOMAIN heap' : i \notin DOMAIN heap => i = FreeId /\ heap'[i] = hp[i]
        BY <1>11, <1>12
      <3> QED BY <3>1, <1>11
    <2>3. \A i \in DOMAIN heap' : i \in DOMAIN heap => heap'[i].variantFlights = heap[i].variantFlights
      <3> TAKE i \in DOMAIN heap'
      <3> HAVE i \in DOMAIN heap
      <3>1. heap'[i] = heap[i]
        BY <2>1
      <3> QED BY <3>1
    <2>4. /\ \A q \in Readers : reader[q].pc \in Encoding => reader'[q] = reader[q]
          /\ \A q \in Readers : reader'[q].pc = "variant_wait" => reader'[q] = reader[q]
      BY <1>moved DEF Encoding
    <2>5. \A q \in Readers : reader[q].pc \in Encoding =>
            /\ reader'[q].pc \in Encoding /\ reader'[q].e = reader[q].e
            /\ reader'[q].view = reader[q].view /\ reader'[q].v = reader[q].v
      BY <2>4
    <2> QED BY <1>10, <1>12, <2>2, <2>3, <2>4, <2>5, CollectedVariants
  <1>15. SlotsOK(reader', building')
    <2>1. SlotsOK(reader', building + 1)
      BY <1>same, <1>moved, SlotTaken DEF WaitInv, Waits, Slotted
    <2> QED BY <2>1, <1>same
  <1> QED BY <1>10, <1>12, <1>13, <1>14, <1>15 DEF WaitInv, Waits

(* What is left when request r has given up its encoding.                  *)
EncoderGone(r, rd2, hp2, en2) ==
  /\ ReadersOK(rd2) /\ HeapOK(rd2, hp2, en2) /\ FlightsOK(rd2, flights)
  /\ VariantsOK(rd2, hp2)
  /\ \A q \in Readers : q # r => (rd2[q].pc \in Slotted <=> reader[q].pc \in Slotted)

(* An encoder leaves: it takes back its claim and wakes who waits for it.  *)
LEMMA EncoderLeaves ==
  ASSUME WaitInv, NEW r \in Readers, reader[r].pc \in Encoding,
         NEW rd2, DOMAIN rd2 = Readers, rd2[r] = Idle,
         \A q \in Readers : q # r => rd2[q] = WokenVariant(q, reader[r]),
         NEW hp, DOMAIN hp = DOMAIN heap,
         \A i \in DOMAIN heap : hp[i].variantFlights =
            IF i = reader[r].e THEN heap[i].variantFlights \ {KeyOf(reader[r])} ELSE heap[i].variantFlights,
         NEW en2, DOMAIN en2 = Heights, \A h \in Heights : en2[h] \in DOMAIN heap \cup {Nothing},
         NEW hp2, hp2 = Collected(rd2, hp, en2)
  PROVE  EncoderGone(r, rd2, hp2, en2)
  <1> DEFINE x == reader[r]
             k == KeyOf(x)
             woken(q) == reader[q].pc = "variant_wait" /\ reader[q].e = x.e /\ KeyOf(reader[q]) = k
  <1>1. rd2[r].pc = "idle" /\ "e" \notin DOMAIN rd2[r] /\ ReaderOK(rd2[r])
    BY DEF Idle, ReaderOK
  <1>2. \A q \in Readers : q # r => rd2[q] = IF woken(q) THEN [reader[q] EXCEPT !.pc = "encode"] ELSE reader[q]
    BY DEF WokenVariant, At, Go
  <1>3. ASSUME NEW q \in Readers, q # r, woken(q)
        PROVE  /\ DOMAIN rd2[q] = DOMAIN reader[q] /\ rd2[q].pc = "encode"
               /\ rd2[q].height = reader[q].height /\ rd2[q].view = reader[q].view
               /\ rd2[q].e = reader[q].e /\ rd2[q].v = reader[q].v
               /\ DOMAIN reader[q] = Fields \cup {"v", "e"}
               /\ reader[q].height \in Heights /\ reader[q].view \in Views
    <2>1. DOMAIN reader[q] = Fields \cup {"v", "e"} /\ reader[q].height \in Heights /\ reader[q].view \in Views
      BY <1>3, AtFields DEF Bearing
    <2>2. rd2[q] = [reader[q] EXCEPT !.pc = "encode"]
      BY <1>2, <1>3
    <2> QED BY <2>1, <2>2 DEF Fields
  <1>4. \A q \in Readers : q # r /\ ~woken(q) => rd2[q] = reader[q]
    BY <1>2
  <1> HIDE DEF woken
  <1>5. ReadersOK(rd2)
    <2> SUFFICES ASSUME NEW q \in Readers PROVE ReaderOK(rd2[q])
      BY DEF ReadersOK
    <2>1. CASE q # r /\ woken(q)
      BY <1>3, <2>1 DEF ReaderOK, Shapes, Starting, Bearing
    <2>2. CASE q # r /\ ~woken(q)
      BY <1>4, <2>2 DEF WaitInv, Waits, ReadersOK
    <2> QED BY <1>1, <2>1, <2>2
  <1>6. \A q \in Readers : "e" \in DOMAIN rd2[q] => rd2[q].e \in DOMAIN hp
    <2> SUFFICES ASSUME NEW q \in Readers, "e" \in DOMAIN rd2[q] PROVE rd2[q].e \in DOMAIN hp
      OBVIOUS
    <2>1. q # r
      BY <1>1
    <2>2. "e" \in DOMAIN reader[q] /\ rd2[q].e = reader[q].e
      BY <2>1, <1>3, <1>4
    <2> QED BY <2>2, AtFields
  <1>7. /\ HeapOK(rd2, hp2, en2) /\ DOMAIN hp2 \subseteq DOMAIN hp
        /\ \A i \in DOMAIN hp2 : hp2[i] = hp[i]
    <2>1. DOMAIN hp \subseteq Ids
      BY DEF WaitInv, Waits, HeapOK
    <2> QED BY <1>6, <2>1, CollectedKeeps
  <1>8. FlightsOK(rd2, flights)
    <2>1. \A q \in Readers : rd2[q].pc \in Flying <=> reader[q].pc \in Flying
      <3> TAKE q \in Readers
      <3>1. CASE q = r
        BY <3>1, <1>1 DEF Flying, Encoding
      <3>2. CASE q # r /\ woken(q)
        BY <3>2, <1>3 DEF woken, Flying
      <3>3. CASE q # r /\ ~woken(q)
        BY <3>3, <1>4
      <3> QED BY <3>1, <3>2, <3>3
    <2>2. \A q \in Readers : rd2[q].pc = "wait" => reader[q].pc = "wait"
      BY <1>1, <1>3, <1>4
    <2>3. \A q \in Readers : rd2[q].pc \in Flying \cup {"wait"} => rd2[q].height = reader[q].height
      BY <1>1, <1>3, <1>4 DEF Flying
    <2>4. FlightsOK(reader, flights)
      BY DEF WaitInv, Waits
    <2> QED BY <2>1, <2>2, <2>3, <2>4, FlightsStay
  <1>9. VariantsOK(rd2, hp2)
    <2>1. VariantsOK(reader, heap)
      BY DEF WaitInv, Waits
    <2>2. ASSUME NEW i \in DOMAIN hp2, NEW j \in hp2[i].variantFlights
          PROVE  \E q \in Readers : Encoder(rd2, q, i, j)
      <3>1. i \in DOMAIN heap /\ hp2[i] = hp[i]
        BY <1>7
      <3>2. j \in hp[i].variantFlights
        BY <3>1
      <3>3. j \in heap[i].variantFlights /\ (i = x.e => j # k)
        BY <3>1, <3>2
      <3>4. PICK q \in Readers : Encoder(reader, q, i, j)
        BY <2>1, <3>1, <3>3 DEF VariantsOK
      <3>5. q # r
        BY <3>3, <3>4 DEF Encoder
      <3>6. ~woken(q)
        BY <3>4 DEF woken, Encoder, Encoding
      <3>7. rd2[q] = reader[q]
        BY <3>5, <3>6, <1>4
      <3>8. Encoder(rd2, q, i, j)
        BY <3>4, <3>7 DEF Encoder
      <3> QED BY <3>8
    <2>3. ASSUME NEW q \in Readers, rd2[q].pc = "variant_wait"
          PROVE  KeyOf(rd2[q]) \in hp2[rd2[q].e].variantFlights
      <3>1. q # r /\ ~woken(q)
        BY <2>3, <1>1, <1>3
      <3>2. rd2[q] = reader[q]
        BY <3>1, <1>4
      <3>3. DOMAIN reader[q] = Fields \cup {"v", "e"}
        BY <2>3, <3>2, AtFields DEF Bearing
      <3>4. reader[q].e \in DOMAIN hp2
        BY <3>2, <3>3, <1>7 DEF HeapOK
      <3>5. reader[q].e \in DOMAIN heap /\ hp2[reader[q].e] = hp[reader[q].e]
        BY <3>4, <1>7
      <3>6. KeyOf(reader[q]) \in heap[reader[q].e].variantFlights
        BY <2>1, <2>3, <3>2 DEF VariantsOK
      <3>7. reader[q].e = x.e => KeyOf(reader[q]) # k
        BY <3>1, <3>2, <2>3 DEF woken
      <3>8. KeyOf(reader[q]) \in hp[reader[q].e].variantFlights
        BY <3>5, <3>6, <3>7
      <3> QED BY <3>2, <3>5, <3>8
    <2> QED BY <2>2, <2>3 DEF VariantsOK
  <1>10. \A q \in Readers : q # r => (rd2[q].pc \in Slotted <=> reader[q].pc \in Slotted)
    <2> TAKE q \in Readers
    <2> HAVE q # r
    <2>1. CASE woken(q)
      BY <2>1, <1>3 DEF woken, Slotted
    <2>2. CASE ~woken(q)
      BY <2>2, <1>4
    <2> QED BY <2>1, <2>2
  <1> QED BY <1>5, <1>7, <1>8, <1>9, <1>10 DEF EncoderGone

(* Trimming keeps some of the entries and changes none.                    *)
LEMMA TrimsEntries ==
  ASSUME NEW ent, NEW hp, NEW total, NEW left \in Trims(ent, hp, total)
  PROVE  /\ DOMAIN left.entries = Heights
         /\ \A h \in Heights : left.entries[h] \in {ent[h], Nothing}
  <1>1. \E K \in SUBSET Cached(ent) : left.entries = Only(ent, K)
    BY DEF Trims, Kept
  <1> QED BY <1>1 DEF Only

(* An encoder whose client goes away wakes who waits for it.               *)
LEMMA CancelVariantWaits ==
  ASSUME WaitInv, NEW r \in Readers, CancelVariant(r)
  PROVE  WaitInv'
  <1> DEFINE x == reader[r]
  <1>1. PICK hp : hp = [heap EXCEPT ![x.e] = NoFlight(@, KeyOf(x))]
    OBVIOUS
  <1>2. /\ x.pc = "variant" /\ UNCHANGED <<entries, flights, building>>
        /\ reader' = [q \in Readers |-> IF q = r THEN Idle ELSE WokenVariant(q, x)]
        /\ heap' = Collected(reader', hp, entries')
    BY <1>1 DEF CancelVariant, At, Heap, Collected
  <1>3. /\ DOMAIN reader' = Readers /\ reader'[r] = Idle
        /\ \A q \in Readers : q # r => reader'[q] = WokenVariant(q, x)
    BY <1>2
  <1>4. /\ DOMAIN hp = DOMAIN heap
        /\ \A i \in DOMAIN heap : hp[i].variantFlights =
             IF i = x.e THEN heap[i].variantFlights \ {KeyOf(x)} ELSE heap[i].variantFlights
    BY <1>1 DEF NoFlight
  <1>5. DOMAIN entries = Heights /\ \A h \in Heights : entries[h] \in DOMAIN heap \cup {Nothing}
    BY DEF WaitInv, Waits, HeapOK
  <1>6. heap' = Collected(reader', hp, entries) /\ x.pc \in Encoding
    BY <1>2 DEF Encoding
  <1>7. /\ ReadersOK(reader') /\ HeapOK(reader', heap', entries) /\ FlightsOK(reader', flights)
        /\ VariantsOK(reader', heap')
        /\ \A q \in Readers : q # r => (reader'[q].pc \in Slotted <=> reader[q].pc \in Slotted)
    <2>1. reader[r].pc \in Encoding /\ heap' = Collected(reader', hp, entries)
      BY <1>6
    <2>2. EncoderGone(r, reader', heap', entries)
      BY <2>1, <1>3, <1>4, <1>5, EncoderLeaves
    <2> QED BY <2>2 DEF EncoderGone
  <1>8. reader'[r].pc = "idle" /\ reader[r].pc = "variant"
    BY <1>2, <1>3 DEF Idle
  <1>9. SlotsOK(reader', building)
    BY <1>7, <1>8, SlotsStay DEF WaitInv, Waits, Slotted
  <1> QED BY <1>2, <1>7, <1>9 DEF WaitInv, Waits

(* A finished encoder wakes who waits, whatever becomes of its report.     *)
LEMMA StoreVariantWaits ==
  ASSUME WaitInv, NEW r \in Readers, StoreVariant(r)
  PROVE  WaitInv'
  <1> DEFINE x == reader[r]
             e == heap[x.e]
             k == KeyOf(x)
             added == WithVariant(e, k, Body(e, x.v))
             full == [heap EXCEPT ![x.e] = NoFlight(added, k)]
             bare == [heap EXCEPT ![x.e] = NoFlight(@, k)]
  <1>1. /\ x.pc = "encoded" /\ UNCHANGED flights /\ building' = building - 1
        /\ reader' = [q \in Readers |-> IF q = r THEN Idle ELSE WokenVariant(q, x)]
    BY DEF StoreVariant, At
  <1>2. /\ DOMAIN reader' = Readers /\ reader'[r] = Idle
        /\ \A q \in Readers : q # r => reader'[q] = WokenVariant(q, x)
    BY <1>1
  <1>3. PICK hp \in {full, bare} :
          /\ heap' = Collected(reader', hp, entries')
          /\ \/ entries' = entries
             \/ \E total : \E left \in Trims(entries, full, total) : entries' = left.entries
    <2>1. CASE entries[e.height] = x.e
      <3>1. \E left \in Trims(entries, full, bytes - e.size + added.size) : entries' = left.entries
        BY <2>1 DEF StoreVariant
      <3>2. heap' = Collected(reader', full, entries')
        BY <2>1 DEF StoreVariant, Heap, Collected
      <3> HIDE DEF full, bare
      <3> QED BY <3>1, <3>2
    <2>2. CASE entries[e.height] # x.e
      <3>1. entries' = entries
        BY <2>2 DEF StoreVariant
      <3>2. heap' = Collected(reader', bare, entries')
        BY <2>2 DEF StoreVariant, Heap, Collected
      <3> HIDE DEF full, bare
      <3> QED BY <3>1, <3>2
    <2> QED BY <2>1, <2>2
  <1>4. DOMAIN entries = Heights /\ \A h \in Heights : entries[h] \in DOMAIN heap \cup {Nothing}
    BY DEF WaitInv, Waits, HeapOK
  <1>5. DOMAIN entries' = Heights /\ \A h \in Heights : entries'[h] \in DOMAIN heap \cup {Nothing}
    <2>1. CASE entries' = entries
      BY <1>4, <2>1
    <2>2. CASE \E total : \E left \in Trims(entries, full, total) : entries' = left.entries
      <3>1. PICK total : \E left \in Trims(entries, full, total) : entries' = left.entries
        BY <2>2
      <3>2. PICK left \in Trims(entries, full, total) : entries' = left.entries
        BY <3>1
      <3>3. DOMAIN left.entries = Heights /\ \A h \in Heights : left.entries[h] \in {entries[h], Nothing}
        BY TrimsEntries
      <3> QED BY <3>2, <3>3, <1>4
    <2> QED BY <1>3, <2>1, <2>2
  <1>6. /\ DOMAIN full = DOMAIN heap
        /\ \A i \in DOMAIN heap : full[i].variantFlights =
             IF i = x.e THEN heap[i].variantFlights \ {k} ELSE heap[i].variantFlights
    <2>1. added.variantFlights = e.variantFlights
      BY DEF WithVariant
    <2>2. NoFlight(added, k).variantFlights = e.variantFlights \ {k}
      BY <2>1 DEF NoFlight
    <2> HIDE DEF added, k
    <2> QED BY <2>2
  <1>7. /\ DOMAIN bare = DOMAIN heap
        /\ \A i \in DOMAIN heap : bare[i].variantFlights =
             IF i = x.e THEN heap[i].variantFlights \ {k} ELSE heap[i].variantFlights
    BY DEF NoFlight
  <1>8. /\ DOMAIN hp = DOMAIN heap
        /\ \A i \in DOMAIN heap : hp[i].variantFlights =
             IF i = x.e THEN heap[i].variantFlights \ {k} ELSE heap[i].variantFlights
    <2> HIDE DEF full, bare, k
    <2> QED BY <1>3, <1>6, <1>7
  <1> HIDE DEF full, bare, added
  <1>9. heap' = Collected(reader', hp, entries') /\ x.pc \in Encoding
    BY <1>1, <1>3 DEF Encoding
  <1>10. /\ ReadersOK(reader') /\ HeapOK(reader', heap', entries') /\ FlightsOK(reader', flights)
         /\ VariantsOK(reader', heap')
         /\ \A q \in Readers : q # r => (reader'[q].pc \in Slotted <=> reader[q].pc \in Slotted)
    <2>1. reader[r].pc \in Encoding /\ heap' = Collected(reader', hp, entries')
      BY <1>9
    <2>2. EncoderGone(r, reader', heap', entries')
      BY <2>1, <1>2, <1>5, <1>8, EncoderLeaves
    <2> QED BY <2>2 DEF EncoderGone
  <1>11. reader'[r].pc = "idle" /\ reader[r].pc = "encoded"
    BY <1>1, <1>2 DEF Idle
  <1>12. SlotsOK(reader', building - 1)
    BY <1>10, <1>11, SlotGiven DEF WaitInv, Waits, Slotted
  <1> QED BY <1>1, <1>10, <1>12 DEF WaitInv, Waits

(* The builder gives up, starts over or goes on with its report.           *)
LEMMA AfterBuildFields ==
  ASSUME WaitInv, NEW r \in Readers, reader[r].pc = "publish", NEW y \in AfterBuild(reader[r])
  PROVE  /\ ReaderOK(y)
         /\ \/ y = Idle
            \/ y.pc = "version" /\ "e" \notin DOMAIN y
            \/ y.pc = "encode" /\ "e" \in DOMAIN y /\ "e" \in DOMAIN reader[r] /\ y.e = reader[r].e
  <1> DEFINE x == reader[r]
             again == [Asked(x) EXCEPT !.pc = "version"]
             on == [x EXCEPT !.pc = "encode"]
  <1>1. y = Idle \/ y = again \/ (y = on /\ Built(x))
    BY DEF AfterBuild
  <1>2. /\ DOMAIN x \in {Fields \cup {"v"}, Fields \cup {"v", "e"}}
        /\ x.height \in Heights /\ x.view \in Views
    BY AtFields
  <1>3. CASE y = Idle
    BY <1>3 DEF ReaderOK
  <1>4. CASE y = again
    <2>1. DOMAIN y = Fields /\ y.pc = "version" /\ y.height = x.height /\ y.view = x.view
      BY <1>4 DEF Asked, Fields
    <2> QED BY <2>1, <1>2 DEF ReaderOK, Shapes, Starting, Fields
  <1>5. CASE y = on /\ Built(x)
    <2>1. DOMAIN x = Fields \cup {"v", "e"}
      BY <1>2, <1>5 DEF Built, Fields
    <2>2. /\ DOMAIN y = Fields \cup {"v", "e"} /\ y.pc = "encode" /\ y.height = x.height
          /\ y.view = x.view /\ y.e = x.e
      BY <1>5, <2>1 DEF Fields
    <2> QED BY <2>1, <2>2, <1>2 DEF ReaderOK, Shapes, Starting, Bearing, Fields
  <1> QED BY <1>1, <1>3, <1>4, <1>5

(* What a publication makes of the entries.                                *)
LEMMA PublishEntries ==
  ASSUME WaitInv, NEW r \in Readers, reader[r].pc = "publish", PublishEntry(reader[r])
  PROVE  /\ DOMAIN entries' = Heights
         /\ \A h \in Heights : \/ entries'[h] \in {entries[h], Nothing}
                               \/ /\ h = reader[r].height /\ entries'[h] = reader[r].e
                                  /\ Built(reader[r]) /\ reader[r].v.found /\ heap[reader[r].e].found
  <1> DEFINE x == reader[r]
             ent == [entries EXCEPT ![x.height] = x.e]
  <1>1. DOMAIN entries = Heights
    BY DEF WaitInv, Waits, HeapOK
  <1>2. CASE entries' = entries
    BY <1>1, <1>2
  <1>3. CASE entries' # entries
    <2>1. Built(x) /\ x.v.found /\ heap[x.e].found
      BY <1>3 DEF PublishEntry
    <2>2. \E total : \E left \in Trims(ent, heap, total) : entries' = left.entries
      BY <1>3 DEF PublishEntry
    <2>3. PICK total : \E left \in Trims(ent, heap, total) : entries' = left.entries
      BY <2>2
    <2>4. PICK left \in Trims(ent, heap, total) : entries' = left.entries
      BY <2>3
    <2>5. DOMAIN ent = Heights /\ \A h \in Heights : ent[h] = IF h = x.height THEN x.e ELSE entries[h]
      BY <1>1
    <2> HIDE DEF ent
    <2>6. DOMAIN left.entries = Heights /\ \A h \in Heights : left.entries[h] \in {ent[h], Nothing}
      BY TrimsEntries
    <2> QED BY <2>1, <2>4, <2>5, <2>6
  <1> QED BY <1>2, <1>3

(* The end of a flight, landed or failed, wakes all who wait for it.       *)
LEMMA PublishWaits ==
  ASSUME WaitInv, NEW r \in Readers, Publish(r)
  PROVE  WaitInv'
  <1> DEFINE x == reader[r]
             h == x.height
             woken(q) == reader[q].pc = "wait" /\ reader[q].height = h
  <1>1. PICK y \in AfterBuild(x) :
          reader' = [q \in Readers |-> IF q = r THEN y ELSE Woken(q, h)]
    BY DEF Publish
  <1>2. /\ x.pc = "publish" /\ flights' = flights \ {h} /\ PublishEntry(x)
        /\ heap' = Collected(reader', heap, entries')
    BY DEF Publish, At, Heap, Collected
  <1>same. building' = building
    BY DEF Publish
  <1>3. /\ ReaderOK(y)
        /\ \/ y = Idle
           \/ y.pc = "version" /\ "e" \notin DOMAIN y
           \/ y.pc = "encode" /\ "e" \in DOMAIN y /\ "e" \in DOMAIN x /\ y.e = x.e
    BY <1>2, AfterBuildFields
  <1>4. y.pc \in {"idle", "version", "encode"} /\ (y.pc # "encode" => "e" \notin DOMAIN y)
    BY <1>3 DEF Idle
  <1>5. h \in Heights
    BY <1>2, AtFields
  <1>6. /\ DOMAIN reader' = Readers /\ reader'[r] = y
        /\ \A q \in Readers : q # r =>
             reader'[q] = IF woken(q) THEN [Asked(reader[q]) EXCEPT !.pc = "version"] ELSE reader[q]
    BY <1>1 DEF Woken, At
  <1>7. ASSUME NEW q \in Readers, q # r, woken(q)
        PROVE  /\ DOMAIN reader'[q] = Fields /\ reader'[q].pc = "version"
               /\ reader'[q].height \in Heights /\ reader'[q].view \in Views
               /\ "e" \notin DOMAIN reader[q] /\ "e" \notin DOMAIN reader'[q]
    <2>1. DOMAIN reader[q] = Fields /\ reader[q].height \in Heights /\ reader[q].view \in Views
      BY <1>7, AtFields DEF Starting
    <2>2. reader'[q] = [Asked(reader[q]) EXCEPT !.pc = "version"]
      BY <1>6, <1>7
    <2>3. /\ DOMAIN reader'[q] = Fields /\ reader'[q].pc = "version"
          /\ reader'[q].height = reader[q].height /\ reader'[q].view = reader[q].view
      BY <2>2 DEF Asked, Fields
    <2> QED BY <2>1, <2>3 DEF Fields
  <1>8. \A q \in Readers : q # r /\ ~woken(q) => reader'[q] = reader[q]
    BY <1>6
  <1> HIDE DEF woken
  <1>9. ReadersOK(reader')
    <2> SUFFICES ASSUME NEW q \in Readers PROVE ReaderOK(reader'[q])
      BY <1>6 DEF ReadersOK
    <2>1. CASE q # r /\ woken(q)
      <3>1. reader'[q].pc \in Starting /\ DOMAIN reader'[q] \in Shapes(reader'[q].pc)
        BY <1>7, <2>1 DEF Shapes, Starting
      <3> QED BY <3>1, <1>7, <2>1 DEF ReaderOK
    <2>2. CASE q # r /\ ~woken(q)
      BY <1>8, <2>2 DEF WaitInv, Waits, ReadersOK
    <2> QED BY <1>3, <1>6, <2>1, <2>2
  <1>10. DOMAIN entries' = Heights /\ \A g \in Heights : entries'[g] \in DOMAIN heap \cup {Nothing}
    <2>1. /\ DOMAIN entries' = Heights
          /\ \A g \in Heights : entries'[g] \in {entries[g], Nothing} \/ (entries'[g] = x.e /\ Built(x))
      BY <1>2, PublishEntries
    <2>2. \A g \in Heights : entries[g] \in DOMAIN heap \cup {Nothing}
      BY DEF WaitInv, Waits, HeapOK
    <2>3. Built(x) => x.e \in DOMAIN heap
      BY AtFields DEF Built
    <2> QED BY <2>1, <2>2, <2>3
  <1>11. \A q \in Readers : "e" \in DOMAIN reader'[q] => reader'[q].e \in DOMAIN heap
    <2> SUFFICES ASSUME NEW q \in Readers, "e" \in DOMAIN reader'[q] PROVE reader'[q].e \in DOMAIN heap
      OBVIOUS
    <2>1. CASE q = r
        <3>1. "e" \in DOMAIN y
          BY <2>1, <1>6
        <3>2. "e" \in DOMAIN x /\ y.e = x.e
          BY <3>1, <1>3 DEF Idle
        <3>3. x.e \in DOMAIN heap
          BY <3>2, AtFields
        <3> QED BY <2>1, <3>2, <3>3, <1>6
    <2>2. CASE q # r
        <3>1. ~woken(q)
          BY <2>2, <1>7
        <3>2. reader'[q] = reader[q]
          BY <2>2, <3>1, <1>8
        <3> QED BY <3>2, AtFields
    <2> QED BY <2>1, <2>2
  <1>12. HeapOK(reader', heap', entries') /\ \A i \in DOMAIN heap' : i \in DOMAIN heap /\ heap'[i] = heap[i]
    <2>1. heap' = Collected(reader', heap, entries')
      BY <1>2
    <2> QED BY <2>1, <1>9, <1>10, <1>11, JustCollected
  <1>13. FlightsOK(reader', flights')
    <2>1. FlightsOK(reader, flights) /\ Flyer(reader, r, h)
      BY <1>2 DEF WaitInv, Waits, Flyer, Flying
    <2>2. \A q \in Readers, g \in Heights : Flyer(reader', q, g) <=> Flyer(reader, q, g) /\ q # r
      <3> TAKE q \in Readers, g \in Heights
      <3>1. CASE q = r
        BY <3>1, <1>4, <1>6 DEF Flyer, Flying
      <3>2. CASE q # r /\ woken(q)
        BY <3>2, <1>7 DEF Flyer, Flying, woken
      <3>3. CASE q # r /\ ~woken(q)
        BY <3>3, <1>8 DEF Flyer
      <3> QED BY <3>1, <3>2, <3>3
    <2>3. \A q \in Readers, g \in Heights : Flyer(reader, q, g) /\ q # r => g # h
      BY <2>1, <1>5 DEF FlightsOK
    <2>4. \A q \in Readers, g \in Heights : Flyer(reader', q, g) => g \in flights'
      BY <2>1, <2>2, <2>3, <1>2 DEF FlightsOK
    <2>5. \A g \in flights' : \E q \in Readers : Flyer(reader', q, g)
      <3> TAKE g \in flights'
      <3>1. g \in flights /\ g # h /\ g \in Heights
        BY <2>1, <1>2 DEF FlightsOK
      <3>2. PICK q \in Readers : Flyer(reader, q, g)
        BY <2>1, <3>1 DEF FlightsOK
      <3>3. q # r
        BY <3>1, <3>2 DEF Flyer
      <3> QED BY <2>2, <3>1, <3>2, <3>3
    <2>6. \A p, q \in Readers, g \in Heights : Flyer(reader', p, g) /\ Flyer(reader', q, g) => p = q
      BY <2>1, <2>2 DEF FlightsOK
    <2>7. \A q \in Readers : reader'[q].pc = "wait" => reader'[q].height \in flights'
      <3> TAKE q \in Readers
      <3> HAVE reader'[q].pc = "wait"
      <3>1. q # r /\ ~woken(q)
        BY <1>4, <1>6, <1>7
      <3>2. reader'[q] = reader[q]
        BY <3>1, <1>8
      <3>3. reader[q].height \in flights /\ reader[q].height # h
        BY <3>1, <3>2, <2>1 DEF FlightsOK, woken
      <3> QED BY <3>2, <3>3, <1>2
    <2>8. flights' \subseteq Heights
      BY <2>1, <1>2 DEF FlightsOK
    <2> QED BY <2>4, <2>5, <2>6, <2>7, <2>8 DEF FlightsOK
  <1>14. VariantsOK(reader', heap')
    <2>1. \A i \in DOMAIN heap' : i \in DOMAIN heap => heap'[i].variantFlights = heap[i].variantFlights
      <3> TAKE i \in DOMAIN heap'
      <3>1. heap'[i] = heap[i]
        BY <1>12
      <3> QED BY <3>1
    <2>2. \A i \in DOMAIN heap' : i \notin DOMAIN heap => heap'[i].variantFlights = {}
      BY <1>12
    <2>3. \A q \in Readers : reader[q].pc \in Encoding => reader'[q] = reader[q]
      BY <1>2, <1>8 DEF Encoding, woken
    <2>4. \A q \in Readers : reader[q].pc \in Encoding =>
            /\ reader'[q].pc \in Encoding /\ reader'[q].e = reader[q].e
            /\ reader'[q].view = reader[q].view /\ reader'[q].v = reader[q].v
      BY <2>3
    <2>5. \A q \in Readers : reader'[q].pc = "variant_wait" => reader'[q] = reader[q]
      BY <1>4, <1>6, <1>7, <1>8
    <2> QED BY <1>9, <1>12, <2>1, <2>2, <2>4, <2>5, CollectedVariants
  <1>15. SlotsOK(reader', building')
    <2>1. \A q \in Readers : reader'[q].pc \in Slotted <=> reader[q].pc \in Slotted
      <3> TAKE q \in Readers
      <3>1. CASE q = r
        BY <3>1, <1>2, <1>4, <1>6 DEF Slotted
      <3>2. CASE q # r /\ woken(q)
        BY <3>2, <1>7 DEF Slotted, woken
      <3>3. CASE q # r /\ ~woken(q)
        BY <3>3, <1>8
      <3> QED BY <3>1, <3>2, <3>3
    <2> QED BY <2>1, <1>same, SlotsStay DEF WaitInv, Waits
  <1> QED BY <1>9, <1>12, <1>13, <1>14, <1>15 DEF WaitInv, Waits

(* The cache starts empty.                                                 *)
LEMMA InitialWaits == Init => WaitInv
  <1> SUFFICES ASSUME Init PROVE WaitInv
    OBVIOUS
  <1>1. \A r \in Readers : reader[r] = Idle /\ reader[r].pc = "idle" /\ "e" \notin DOMAIN reader[r]
    BY DEF Init, Idle
  <1>2. DOMAIN reader = Readers /\ DOMAIN heap = {} /\ DOMAIN entries = Heights /\ flights = {} /\ building = 0
    BY DEF Init
  <1>3. \A h \in Heights : entries[h] = Nothing
    BY DEF Init
  <1>4. ReadersOK(reader)
    BY <1>1, <1>2 DEF ReadersOK, ReaderOK
  <1>5. HeapOK(reader, heap, entries)
    BY <1>1, <1>2, <1>3 DEF HeapOK
  <1>6. FlightsOK(reader, flights)
    BY <1>1, <1>2 DEF FlightsOK, Flyer, Flying
  <1>7. VariantsOK(reader, heap)
    BY <1>1, <1>2 DEF VariantsOK
  <1>8. SlotsOK(reader, building)
    <2>1. Holding(reader) = {}
      BY <1>1 DEF Holding, Slotted
    <2> QED BY <2>1, <1>2, FS_EmptySet, CacheAssumption DEF SlotsOK
  <1> QED BY <1>4, <1>5, <1>6, <1>7, <1>8 DEF WaitInv, Waits

(* Every step keeps who waits for whom.                                    *)
LEMMA WaitInvInductive == WaitInv /\ [Next]_vars => WaitInv'
  <1> SUFFICES ASSUME WaitInv, [Next]_vars PROVE WaitInv'
    OBVIOUS
  <1>1. CASE Arrive
    <2>1. PICK q \in Requests : Request(q[1], q[2], q[3])
      BY <1>1 DEF Arrive
    <2>2. q[1] \in Readers /\ q[2] \in Heights /\ q[3] \in Views
      BY CacheAssumption
    <2> QED BY <2>1, <2>2, RequestWaits
  <1>2. ASSUME NEW r \in Readers, Proceed(r)
        PROVE  WaitInv'
    BY <1>2, ReadVersionWaits, LookupAbsentWaits, LookupHitWaits, LookupMissWaits, CaptureWaits,
       ReadLatestWaits, PublishWaits, FinishCaptureWaits, EncodeHitWaits, EncodeMissWaits,
       TakeSlotWaits, StoreVariantWaits, CancelWaitingWaits, CancelBuildWaits, CancelVariantWaits
       DEF Proceed
  <1>3. CASE TrackerStep \/ UNCHANGED vars
    <2>1. UNCHANGED <<reader, heap, entries, flights, building>>
      BY <1>3 DEF TrackerStep, vars, cacheVars
    <2> QED BY <2>1 DEF WaitInv
  <1> QED BY <1>1, <1>2, <1>3 DEF Next

(* So it always holds.                                                     *)
LEMMA AlwaysWaits == Spec => []WaitInv
  BY InitialWaits, WaitInvInductive, PTL DEF Spec

(* One reader per height builds, nobody waits for a flight that nobody     *)
(* flies, and every occupied slot is held by a request at work.            *)
THEOREM NobodyWaitsForNobody == Spec => []SingleFlight
  <1>1. WaitInv => SingleFlight
    <2> SUFFICES ASSUME WaitInv PROVE SingleFlight
      OBVIOUS
    <2>1. ASSUME NEW h \in Heights
          PROVE  Cardinality({r \in Readers : reader[r].pc \in {"build", "built", "failed", "publish"}
                                              /\ reader[r].height = h}) = IF h \in flights THEN 1 ELSE 0
      <3> DEFINE S == {r \in Readers : reader[r].pc \in {"build", "built", "failed", "publish"}
                                       /\ reader[r].height = h}
      <3>1. \A r : r \in S <=> Flyer(reader, r, h)
        BY DEF Flyer, Flying
      <3> HIDE DEF S
      <3>2. CASE h \in flights
        <4>1. PICK r \in Readers : Flyer(reader, r, h)
          BY <3>2 DEF WaitInv, Waits, FlightsOK
        <4>2. \A q : Flyer(reader, q, h) => q = r
          BY <4>1 DEF WaitInv, Waits, FlightsOK, Flyer
        <4>3. S = {r}
          BY <3>1, <4>1, <4>2
        <4> QED BY <3>2, <4>3, FS_Singleton DEF S
      <3>3. CASE h \notin flights
        <4>1. \A q : ~Flyer(reader, q, h)
          BY <3>3 DEF WaitInv, Waits, FlightsOK, Flyer
        <4>2. S = {}
          BY <3>1, <4>1
        <4> QED BY <3>3, <4>2, FS_EmptySet DEF S
      <3> QED BY <3>2, <3>3
    <2>2. ASSUME NEW r \in Readers
          PROVE  /\ At(r, "wait") => reader[r].height \in flights
                 /\ At(r, "variant_wait") =>
                      \E q \in Readers : /\ reader[q].pc \in {"variant", "encoded"}
                                         /\ reader[q].e = reader[r].e /\ KeyOf(reader[q]) = KeyOf(reader[r])
      <3>1. At(r, "wait") => reader[r].height \in flights
        BY DEF At, WaitInv, Waits, FlightsOK
      <3>2. ASSUME At(r, "variant_wait")
            PROVE  \E q \in Readers : /\ reader[q].pc \in {"variant", "encoded"}
                                      /\ reader[q].e = reader[r].e /\ KeyOf(reader[q]) = KeyOf(reader[r])
        <4>1. "e" \in DOMAIN reader[r]
          BY <3>2, AtFields DEF At, Bearing, Fields
        <4>2. reader[r].e \in DOMAIN heap
          BY <4>1, AtFields
        <4>3. PICK q \in Readers : Encoder(reader, q, reader[r].e, KeyOf(reader[r]))
          BY <3>2, <4>2 DEF At, WaitInv, Waits, VariantsOK
        <4> QED BY <4>3 DEF Encoder, Encoding
      <3> QED BY <3>1, <3>2
    <2>3. building <= Builders
      BY DEF WaitInv, Waits, SlotsOK
    <2>4. building = Cardinality({r \in Readers : reader[r].pc \in {"built", "captured", "encoded"}})
      BY DEF WaitInv, Waits, SlotsOK, Holding, Slotted
    <2> QED BY <2>1, <2>2, <2>3, <2>4 DEF SingleFlight
  <1> QED BY <1>1, AlwaysWaits, PTL

-----------------------------------------------------------------------------
(* The archive, as its readers see it *)

(* The archive in one value, so that two of them can be compared.          *)
Now == [archive |-> archive, latest |-> archiveLatest, evicted |-> evictedThrough,
        committed |-> committedHeight, catalogue |-> catalogue]

HeldIn(a) == DOMAIN a.archive
Blocks == [evidence : Nat \ {0}, seal : 0..2, lost : Nat]

ArchiveOK(a) ==
  /\ HeldIn(a) \subseteq Heights /\ a.archive \in [HeldIn(a) -> Blocks]
  /\ \A h \in HeldIn(a) : h > a.evicted /\ h <= a.latest
  /\ Cardinality(HeldIn(a)) <= HistorySize
  /\ a.evicted \in Nat /\ a.latest \in Int /\ a.committed \in Int /\ a.catalogue \in Nat

(* What becomes of a block while it is held.                               *)
Newer(b, c) ==
  /\ b.evidence <= c.evidence /\ b.seal <= c.seal /\ b.lost <= c.lost
  /\ b.evidence = c.evidence => c = b

(* What becomes of an archive.                                             *)
Moved(a, b) ==
  /\ \A h \in HeldIn(a) \cap HeldIn(b) : Newer(a.archive[h], b.archive[h])
  /\ \A h \in HeldIn(a) \ HeldIn(b) : h > 0 /\ h <= b.evicted
  /\ \A h \in HeldIn(b) \ HeldIn(a) : h > a.evicted
  /\ a.evicted <= b.evicted /\ a.catalogue <= b.catalogue
  /\ a.catalogue = b.catalogue =>
       /\ HeldIn(b) = HeldIn(a) /\ b.evicted = a.evicted
       /\ b.latest = a.latest /\ b.committed = a.committed

(* A block stays as it is, or is no older than it was.                     *)
LEMMA NewerSelf == \A b \in Blocks : Newer(b, b)
  BY DEF Newer, Blocks

(* The parts of Now.                                                       *)
LEMMA NowIs ==
  /\ HeldIn(Now) = DOMAIN archive /\ Now.archive = archive /\ Now.latest = archiveLatest
  /\ Now.evicted = evictedThrough /\ Now.committed = committedHeight /\ Now.catalogue = catalogue
  BY DEF Now, HeldIn

(* A set of naturals has a least element: otherwise z |-> z + 1 would      *)
(* inject its lower bounds, a finite set, into those without 0.            *)
LEMMA LeastNatural ==
  ASSUME NEW S \in SUBSET Nat, S # {}
  PROVE  \E x \in S : \A y \in S : x <= y
  <1> SUFFICES ASSUME \A x \in S : \E y \in S : y < x
               PROVE  FALSE
    OBVIOUS
  <1>1. PICK top \in S : TRUE
    OBVIOUS
  <1> DEFINE D == {z \in 0..top : \A y \in S : z <= y}
             E == D \ {0}
             up == [z \in D |-> z + 1]
  <1>2. 0 \in D /\ IsFiniteSet(D)
    <2>1. IsFiniteSet(0..top)
      BY <1>1, FS_Interval
    <2> QED BY <2>1, <1>1, FS_Subset
  <1>3. IsFiniteSet(E) /\ Cardinality(E) = Cardinality(D) - 1 /\ Cardinality(D) \in Nat
    BY <1>2, FS_RemoveElement, FS_CardinalityType
  <1>4. \A z \in D : z + 1 \in E
    <2> SUFFICES ASSUME NEW z \in D PROVE z + 1 \in E
      OBVIOUS
    <2>1. z \in Nat /\ \A y \in S : z <= y
      BY <1>1
    <2>2. \A y \in S : z + 1 <= y
      <3> SUFFICES ASSUME NEW y \in S PROVE z + 1 <= y
        OBVIOUS
      <3>1. PICK w \in S : w < y
        OBVIOUS
      <3> QED BY <2>1, <3>1
    <2> QED BY <2>1, <2>2, <1>1
  <1>5. up \in [D -> E]
    BY <1>4
  <1>6. \A x, y \in D : up[x] = up[y] => x = y
    BY <1>1
  <1>7. Cardinality(E) < Cardinality(D)
    BY <1>3
  <1> HIDE DEF D, E, up
  <1>8. \E x, y \in D : x # y /\ up[x] = up[y]
    BY <1>2, <1>3, <1>5, <1>7, FS_PigeonHole
  <1> QED BY <1>6, <1>8

(* Retaining a block moves the archive, if the catalogue follows.          *)
LEMMA RetainMoves ==
  ASSUME ArchiveOK(Now), NEW h \in Heights, MayHold(h), NEW b \in Blocks,
         h \in Held => Newer(archive[h], b), Retain(h, b),
         catalogue' \in Nat, catalogue' >= catalogue + New(h), committedHeight' \in Int,
         committedHeight' = committedHeight \/ catalogue' > catalogue
  PROVE  ArchiveOK(Now') /\ Moved(Now, Now')
  <1>1. /\ Held \subseteq Heights /\ archive \in [Held -> Blocks]
        /\ \A g \in Held : g > evictedThrough /\ g <= archiveLatest
        /\ Cardinality(Held) <= HistorySize
        /\ evictedThrough \in Nat /\ archiveLatest \in Int /\ committedHeight \in Int /\ catalogue \in Nat
    BY NowIs DEF ArchiveOK, Held
  <1>2. Heights \subseteq Int /\ HistorySize \in Nat
    BY ArchiveAssumption
  <1>3. PICK grown : grown = [x \in Held \cup {h} |-> IF x = h THEN b ELSE archive[x]]
    OBVIOUS
  <1>4. DOMAIN grown = Held \cup {h} /\ grown[h] = b /\ \A x \in Held : x # h => grown[x] = archive[x]
    BY <1>3
  <1>5. \A g \in DOMAIN grown : g > evictedThrough /\ g > 0 /\ g \in Nat /\ grown[g] \in Blocks
    <2>1. \A g \in Held \cup {h} : g \in Int /\ g > evictedThrough
      BY <1>1, <1>2 DEF MayHold
    <2>2. \A g \in Held \cup {h} : grown[g] \in Blocks
      BY <1>1, <1>4
    <2> QED BY <1>1, <1>4, <2>1, <2>2
  <1>6. PICK low : low = Min(DOMAIN grown)
    OBVIOUS
  <1>7. low \in DOMAIN grown /\ \A y \in DOMAIN grown : low <= y
    <2>1. DOMAIN grown \in SUBSET Nat /\ DOMAIN grown # {}
      BY <1>4, <1>5
    <2>2. \E x \in DOMAIN grown : \A y \in DOMAIN grown : x <= y
      BY <2>1, LeastNatural
    <2> QED BY <1>6, <2>2 DEF Min
  <1>8. IsFiniteSet(Held) /\ Cardinality(Held) \in Nat
    BY <1>1, CacheAssumption, FS_Subset, FS_CardinalityType
  <1>9. /\ IsFiniteSet(DOMAIN grown)
        /\ Cardinality(DOMAIN grown) = IF h \in Held THEN Cardinality(Held) ELSE Cardinality(Held) + 1
    <2>1. CASE h \in Held
      <3>1. DOMAIN grown = Held
        BY <2>1, <1>4
      <3> QED BY <3>1, <2>1, <1>8
    <2>2. CASE h \notin Held
      BY <2>2, <1>4, <1>8, FS_AddElement
    <2> QED BY <2>1, <2>2
  <1>10. archiveLatest' = Larger(h, archiveLatest) /\ archiveLatest' \in Int
         /\ archiveLatest <= archiveLatest' /\ h <= archiveLatest'
    BY <1>1, <1>2 DEF Retain, Larger
  <1>11. CASE Cardinality(DOMAIN grown) > HistorySize
    <2>1. h \notin Held /\ Cardinality(DOMAIN grown) = Cardinality(Held) + 1
      BY <1>1, <1>2, <1>8, <1>9, <1>11
    <2>2. archive' = Restrict(grown, DOMAIN grown \ {low}) /\ evictedThrough' = low
      BY <1>3, <1>6, <1>11 DEF Retain
    <2>3. /\ DOMAIN archive' = DOMAIN grown \ {low}
          /\ \A g \in DOMAIN grown \ {low} : archive'[g] = grown[g]
          /\ archive' = [x \in DOMAIN archive' |-> archive'[x]]
      BY <2>2 DEF Restrict
    <2>4. Cardinality(DOMAIN archive') <= HistorySize
      <3>1. Cardinality(DOMAIN grown \ {low}) = Cardinality(DOMAIN grown) - 1
        BY <1>7, <1>9, FS_RemoveElement
      <3> QED BY <3>1, <2>1, <2>3, <1>1, <1>2, <1>8
    <2>5. evictedThrough' \in Nat /\ evictedThrough < evictedThrough' /\ evictedThrough' > 0
      BY <1>1, <1>5, <1>7, <2>2
    <2>6. \A g \in DOMAIN archive' : g > evictedThrough'
      BY <1>5, <1>7, <2>2, <2>3
    <2>7. \A g \in DOMAIN archive' : g \in Heights /\ g <= archiveLatest' /\ archive'[g] \in Blocks
      BY <1>1, <1>2, <1>4, <1>5, <1>10, <2>3
    <2>8. ArchiveOK(Now')
      <3>1. HeldIn(Now)' = DOMAIN archive' /\ Now'.archive = archive' /\ Now'.latest = archiveLatest'
            /\ Now'.evicted = evictedThrough' /\ Now'.committed = committedHeight'
            /\ Now'.catalogue = catalogue' /\ HeldIn(Now') = DOMAIN archive'
        BY DEF Now, HeldIn
      <3>2. archive' \in [DOMAIN archive' -> Blocks]
        <4>1. \A g \in DOMAIN archive' : archive'[g] \in Blocks
          BY <2>7
        <4>2. archive' = [x \in DOMAIN archive' |-> archive'[x]]
          BY <2>3
        <4> QED BY <4>1, <4>2
      <3> QED BY <3>1, <3>2, <1>10, <2>4, <2>5, <2>6, <2>7 DEF ArchiveOK
    <2>9. Moved(Now, Now')
      <3>1. /\ HeldIn(Now) = Held /\ Now.archive = archive /\ Now.latest = archiveLatest
            /\ Now.evicted = evictedThrough /\ Now.committed = committedHeight /\ Now.catalogue = catalogue
            /\ HeldIn(Now') = DOMAIN archive' /\ Now'.archive = archive' /\ Now'.latest = archiveLatest'
            /\ Now'.evicted = evictedThrough' /\ Now'.committed = committedHeight'
            /\ Now'.catalogue = catalogue'
        BY DEF Now, HeldIn, Held
      <3>2. \A g \in Held \cap DOMAIN archive' : Newer(archive[g], archive'[g])
        <4> TAKE g \in Held \cap DOMAIN archive'
        <4>1. archive'[g] = archive[g] /\ archive[g] \in Blocks
          BY <1>1, <1>4, <2>1, <2>3
        <4> QED BY <4>1, NewerSelf
      <3>3. \A g \in Held \ DOMAIN archive' : g > 0 /\ g <= evictedThrough'
        BY <1>4, <1>5, <1>7, <2>2, <2>3
      <3>4. \A g \in DOMAIN archive' \ Held : g > evictedThrough
        BY <1>5, <2>3
      <3>5. catalogue < catalogue'
        BY <1>1, <2>1 DEF New
      <3> QED BY <1>1, <3>1, <3>2, <3>3, <3>4, <3>5, <2>5 DEF Moved
    <2> QED BY <2>8, <2>9
  <1>12. CASE ~(Cardinality(DOMAIN grown) > HistorySize)
    <2>2. archive' = grown /\ evictedThrough' = evictedThrough
      BY <1>3, <1>12 DEF Retain
    <2>3. DOMAIN archive' = Held \cup {h} /\ archive'[h] = b /\ \A x \in Held : x # h => archive'[x] = archive[x]
      BY <1>4, <2>2
    <2>4. Cardinality(DOMAIN archive') <= HistorySize
      BY <1>2, <1>8, <1>9, <1>12, <2>2
    <2>8. ArchiveOK(Now')
      <3>1. /\ Now'.archive = archive' /\ Now'.latest = archiveLatest'
            /\ Now'.evicted = evictedThrough' /\ Now'.committed = committedHeight'
            /\ Now'.catalogue = catalogue' /\ HeldIn(Now') = DOMAIN archive'
        BY DEF Now, HeldIn
      <3>2. archive' \in [DOMAIN archive' -> Blocks]
        BY <1>3, <1>5, <2>2
      <3>3. \A g \in DOMAIN archive' : g > evictedThrough' /\ g <= archiveLatest' /\ g \in Heights
        BY <1>1, <1>2, <1>4, <1>5, <1>10, <2>2
      <3> QED BY <1>1, <1>10, <2>2, <2>4, <3>1, <3>2, <3>3 DEF ArchiveOK
    <2>9. Moved(Now, Now')
      <3>1. /\ HeldIn(Now) = Held /\ Now.archive = archive /\ Now.latest = archiveLatest
            /\ Now.evicted = evictedThrough /\ Now.committed = committedHeight /\ Now.catalogue = catalogue
            /\ HeldIn(Now') = DOMAIN archive' /\ Now'.archive = archive' /\ Now'.latest = archiveLatest'
            /\ Now'.evicted = evictedThrough' /\ Now'.committed = committedHeight'
            /\ Now'.catalogue = catalogue'
        BY DEF Now, HeldIn, Held
      <3>2. \A g \in Held : Newer(archive[g], archive'[g])
        <4> TAKE g \in Held
        <4>1. CASE g = h
          BY <4>1, <2>3
        <4>2. CASE g # h
          <5>1. archive'[g] = archive[g] /\ archive[g] \in Blocks
            BY <4>2, <1>1, <2>3
          <5> QED BY <5>1, NewerSelf
        <4> QED BY <4>1, <4>2
      <3>3. \A g \in DOMAIN archive' \ Held : g > evictedThrough
        BY <1>4, <1>5, <2>2
      <3>4. catalogue <= catalogue'
        BY <1>1 DEF New
      <3>5. catalogue' = catalogue => h \in Held
        BY <1>1 DEF New
      <3>6. catalogue' = catalogue => committedHeight' = committedHeight
        BY <1>1
      <3>7. h \in Held => archiveLatest' = archiveLatest
        BY <1>1, <1>2, <1>10 DEF Larger
      <3>8. h \in Held => DOMAIN archive' = Held
        BY <2>3
      <3>9. \A g \in Held : g \in DOMAIN archive'
        BY <2>3
      <3> QED BY <1>1, <2>2, <3>1, <3>2, <3>3, <3>4, <3>5, <3>6, <3>7, <3>8, <3>9 DEF Moved
    <2> QED BY <2>8, <2>9
  <1> QED BY <1>11, <1>12

(* Every call of the tracker moves the archive.                            *)
LEMMA ArchiveMoves ==
  ASSUME ArchiveOK(Now), ArchiveNext
  PROVE  ArchiveOK(Now') /\ Moved(Now, Now')
  <1>1. /\ Held \subseteq Heights /\ archive \in [Held -> Blocks]
        /\ \A g \in Held : g > evictedThrough /\ g <= archiveLatest
        /\ Cardinality(Held) <= HistorySize
        /\ evictedThrough \in Nat /\ archiveLatest \in Int /\ committedHeight \in Int /\ catalogue \in Nat
    BY NowIs DEF ArchiveOK, Held
  <1>2. /\ HeldIn(Now) = Held /\ Now.archive = archive /\ Now.latest = archiveLatest
        /\ Now.evicted = evictedThrough /\ Now.committed = committedHeight /\ Now.catalogue = catalogue
        /\ HeldIn(Now') = DOMAIN archive' /\ Now'.archive = archive' /\ Now'.latest = archiveLatest'
        /\ Now'.evicted = evictedThrough' /\ Now'.committed = committedHeight'
        /\ Now'.catalogue = catalogue'
    BY DEF Now, HeldIn, Held
  <1>3. CASE ObserveNothing
    <2>1. Now' = Now
      BY <1>3 DEF ObserveNothing, archiveVars, Now
    <2>2. \A g \in Held : Newer(archive[g], archive[g])
      BY <1>1, NewerSelf
    <2>3. Moved(Now, Now)
      BY <1>1, <1>2, <2>2 DEF Moved
    <2> QED BY <2>1, <2>3
  <1>4. ASSUME NEW h \in Heights, NEW n \in Jumps, NEW lost \in {0, 1}, Observe(h, n, lost)
        PROVE  ArchiveOK(Now') /\ Moved(Now, Now')
    <2>1. BlockAt(h) \in Blocks
      BY <1>1 DEF BlockAt, NewHeight, Blocks
    <2>2. PICK b : b = [BlockAt(h) EXCEPT !.evidence = @ + n, !.lost = @ + lost]
      OBVIOUS
    <2>3. n \in Nat /\ n > 0 /\ lost \in Nat
      BY ArchiveAssumption
    <2>4. b \in Blocks /\ Newer(BlockAt(h), b)
      <3>1. PICK o \in Blocks : o = BlockAt(h)
        BY <2>1
      <3>2. o.evidence \in Nat /\ o.evidence > 0 /\ o.lost \in Nat /\ o.seal \in 0..2
        BY DEF Blocks
      <3>3. PICK i, j : i = o.evidence + n /\ j = o.lost + lost
        OBVIOUS
      <3>4. b = [o EXCEPT !.evidence = i, !.lost = j]
        BY <2>2, <3>1, <3>3
      <3>5. i \in Nat \ {0} /\ j \in Nat /\ o.evidence < i /\ o.lost <= j
        BY <2>3, <3>2, <3>3
      <3>6. b \in Blocks /\ b.evidence = i /\ b.lost = j /\ b.seal = o.seal
        BY <3>4, <3>5 DEF Blocks
      <3> QED BY <3>1, <3>2, <3>5, <3>6 DEF Newer
    <2>5. MayHold(h) /\ Retain(h, b) /\ catalogue' = catalogue + New(h) /\ committedHeight' = committedHeight
      BY <1>4, <2>2 DEF Observe
    <2>6. New(h) \in Nat
      BY DEF New
    <2>7. h \in Held => Newer(archive[h], b)
      BY <2>4 DEF BlockAt
    <2>8. catalogue' \in Nat /\ catalogue' >= catalogue + New(h) /\ committedHeight' \in Int
      BY <1>1, <2>5, <2>6
    <2> QED BY <2>4, <2>5, <2>7, <2>8, RetainMoves
  <1>5. ASSUME NEW n \in [Held -> Jumps \cup {0}], FillRosters(n)
        PROVE  ArchiveOK(Now') /\ Moved(Now, Now')
    <2>1. /\ DOMAIN archive' = Held
          /\ \A h \in Held : archive'[h] = [archive[h] EXCEPT !.evidence = @ + n[h]]
          /\ archive' = [g \in Held |-> archive'[g]]
      BY <1>5 DEF FillRosters
    <2>2. UNCHANGED <<archiveLatest, evictedThrough, committedHeight, catalogue>>
      BY <1>5 DEF FillRosters
    <2>3. \A h \in Held : n[h] \in Nat
      <3>1. Jumps \cup {0} \subseteq Nat
        BY ArchiveAssumption
      <3> QED BY <3>1
    <2>4. \A h \in Held : archive'[h] \in Blocks /\ Newer(archive[h], archive'[h])
      <3> TAKE h \in Held
      <3>1. PICK b \in Blocks : b = archive[h]
        BY <1>1
      <3>2. PICK k \in Nat : k = n[h]
        BY <2>3
      <3>3. archive'[h] = [b EXCEPT !.evidence = @ + k]
        BY <2>1, <3>1, <3>2
      <3>4. [b EXCEPT !.evidence = @ + k] \in Blocks
        BY DEF Blocks
      <3>5. Newer(b, [b EXCEPT !.evidence = @ + k])
        BY DEF Blocks, Newer
      <3> QED BY <3>1, <3>3, <3>4, <3>5
    <2>5. ArchiveOK(Now')
      <3>1. archive' \in [Held -> Blocks]
        BY <2>1, <2>4
      <3> QED BY <1>1, <1>2, <2>1, <2>2, <3>1 DEF ArchiveOK
    <2>6. Moved(Now, Now')
      BY <1>1, <1>2, <2>1, <2>2, <2>4 DEF Moved
    <2> QED BY <2>5, <2>6
  <1>6. ASSUME NEW h \in Heights, NEW seal \in Seals, Commit(h, seal)
        PROVE  ArchiveOK(Now') /\ Moved(Now, Now')
    <2>1. BlockAt(h) \in Blocks /\ seal \in 0..2 /\ h \in Int
      BY <1>1, ArchiveAssumption DEF BlockAt, NewHeight, Blocks
    <2>2. PICK sealed : sealed = [BlockAt(h) EXCEPT !.seal = seal, !.evidence = @ + 1]
      OBVIOUS
    <2>3. PICK b : b = IF BlockAt(h).seal < seal THEN sealed ELSE BlockAt(h)
      OBVIOUS
    <2>4. b \in Blocks /\ Newer(BlockAt(h), b)
      <3>1. PICK o \in Blocks : o = BlockAt(h)
        BY <2>1
      <3>2. o.evidence \in Nat /\ o.evidence > 0 /\ o.lost \in Nat /\ o.seal \in 0..2
        BY DEF Blocks
      <3>3. PICK i : i = o.evidence + 1
        OBVIOUS
      <3>4. sealed = [o EXCEPT !.seal = seal, !.evidence = i]
        BY <2>2, <3>1, <3>3
      <3>5. i \in Nat \ {0} /\ o.evidence < i
        BY <3>2, <3>3
      <3>6. sealed \in Blocks /\ sealed.evidence = i /\ sealed.lost = o.lost /\ sealed.seal = seal
        BY <2>1, <3>4, <3>5 DEF Blocks
      <3>7. CASE o.seal < seal
        BY <2>1, <2>3, <3>1, <3>2, <3>5, <3>6, <3>7 DEF Newer
      <3>8. CASE ~(o.seal < seal)
        BY <2>3, <3>1, <3>8, NewerSelf
      <3> QED BY <3>7, <3>8
    <2>5. committedHeight' = Larger(h, committedHeight)
      BY <1>6 DEF Commit
    <2>6. committedHeight' \in Int /\ (committedHeight' = committedHeight \/ h > committedHeight)
      BY <1>1, <2>1, <2>5 DEF Larger
    <2>7. New(h) \in Nat
      BY DEF New
    <2>8. CASE seal > 0 /\ MayHold(h)
      <3>1. Retain(h, b) /\ catalogue' = catalogue + New(h) + (IF h > committedHeight THEN 1 ELSE 0)
        BY <1>6, <2>2, <2>3, <2>8 DEF Commit
      <3>2. h \in Held => Newer(archive[h], b)
        BY <2>4 DEF BlockAt
      <3>3. catalogue' \in Nat /\ catalogue' >= catalogue + New(h)
        BY <1>1, <2>7, <3>1
      <3>4. committedHeight' = committedHeight \/ catalogue' > catalogue
        BY <1>1, <2>6, <2>7, <3>1
      <3> QED BY <2>4, <2>6, <2>8, <3>1, <3>2, <3>3, <3>4, RetainMoves
    <2>9. CASE ~(seal > 0 /\ MayHold(h))
      <3>1. UNCHANGED <<archive, archiveLatest, evictedThrough>>
            /\ catalogue' = catalogue + 0 + (IF h > committedHeight THEN 1 ELSE 0)
        BY <1>6, <2>9 DEF Commit
      <3>2. catalogue' \in Nat /\ catalogue <= catalogue'
            /\ (catalogue' = catalogue => committedHeight' = committedHeight)
        BY <1>1, <2>6, <3>1
      <3>3. \A g \in Held : Newer(archive[g], archive[g])
        BY <1>1, NewerSelf
      <3>4. ArchiveOK(Now')
        BY <1>1, <1>2, <2>6, <3>1, <3>2 DEF ArchiveOK, Held
      <3>5. Moved(Now, Now')
        BY <1>1, <1>2, <3>1, <3>2, <3>3 DEF Moved, Held
      <3> QED BY <3>4, <3>5
    <2> QED BY <2>8, <2>9
  <1> QED BY <1>3, <1>4, <1>5, <1>6 DEF ArchiveNext

-----------------------------------------------------------------------------
(* What was read of the archive, and what it is worth later *)

(* p says of height h what the archive said of it at some time.            *)
Known(a, p, h) ==
  /\ p.found \in BOOLEAN /\ p.evidence \in Nat /\ p.seal \in 0..2 /\ p.lost \in Nat
  /\ p.found => p.evidence > 0
  /\ ~p.found => p.evidence = 0 /\ p.seal = 0 /\ p.lost = 0
  /\ p.found /\ h \notin HeldIn(a) => h > 0 /\ h <= a.evicted
  /\ p.found /\ h \in HeldIn(a) =>
       LET b == a.archive[h] IN
       /\ p.evidence <= b.evidence /\ p.seal <= b.seal /\ p.lost <= b.lost
       /\ p.evidence = b.evidence => p.seal = b.seal /\ p.lost = b.lost

(* The status of a height whose commit is known as far as seal.            *)
StatusFor(a, h, seal) ==
  IF h \notin HeldIn(a) THEN IF h > 0 /\ h <= a.evicted THEN "evicted" ELSE "not_observed"
  ELSE IF seal > 0 THEN "committed"
  ELSE IF h < a.latest \/ h <= a.committed THEN "passed"
  ELSE "live"

(* c shows the catalogue of some time, in an answer whose evidence is p.   *)
Catalogued(a, c, p, h) ==
  /\ c.catalogue \in Nat /\ c.catalogue <= a.catalogue
  /\ c.status \in Statuses /\ c.retained \in SUBSET Heights
  /\ c.catalogue = a.catalogue => c.retained = HeldIn(a) /\ c.status = StatusFor(a, h, p.seal)
  /\ p.found => (c.status = "committed" <=> p.seal > 0)

(* f is what was known of h when a request for it began.                   *)
Floored(a, f, h) ==
  /\ f \in Service!Floors /\ f.catalogue <= a.catalogue
  /\ ~f.found => f.evidence = 0 /\ f.seal = 0 /\ f.lost = 0
  /\ f.found /\ h \notin HeldIn(a) => h > 0 /\ h <= a.evicted
  /\ f.found /\ h \in HeldIn(a) =>
       LET b == a.archive[h] IN
       f.evidence <= b.evidence /\ f.seal <= b.seal /\ f.lost <= b.lost

(* p is the newest report of h there can be.                               *)
Newest(a, p, h) ==
  /\ Known(a, p, h) /\ (p.found <=> h \in HeldIn(a))
  /\ p.found => p.evidence = a.archive[h].evidence

(* What was known stays known.                                             *)
LEMMA KnownLater ==
  ASSUME NEW a, NEW b, Moved(a, b), ArchiveOK(a), ArchiveOK(b), NEW h \in Heights, NEW p, Known(a, p, h)
  PROVE  Known(b, p, h)
  <1>1. h \in Int /\ a.evicted \in Nat /\ b.evicted \in Nat /\ a.evicted <= b.evicted
    BY ArchiveAssumption DEF Moved, ArchiveOK
  <1>2. \A g \in HeldIn(a) : a.archive[g].evidence \in Nat /\ a.archive[g].seal \in 0..2 /\ a.archive[g].lost \in Nat
    BY DEF ArchiveOK, Blocks
  <1>3. \A g \in HeldIn(b) : b.archive[g].evidence \in Nat /\ b.archive[g].seal \in 0..2 /\ b.archive[g].lost \in Nat
    BY DEF ArchiveOK, Blocks
  <1>4. p.found /\ h \notin HeldIn(b) => h > 0 /\ h <= b.evicted
    BY <1>1 DEF Known, Moved
  <1>5. ASSUME p.found, h \in HeldIn(b)
        PROVE  LET d == b.archive[h] IN
               /\ p.evidence <= d.evidence /\ p.seal <= d.seal /\ p.lost <= d.lost
               /\ p.evidence = d.evidence => p.seal = d.seal /\ p.lost = d.lost
    <2>1. h \in HeldIn(a)
      BY <1>1, <1>5 DEF Known, Moved
    <2>2. Newer(a.archive[h], b.archive[h])
      BY <2>1, <1>5 DEF Moved
    <2>3. /\ p.evidence <= a.archive[h].evidence /\ p.seal <= a.archive[h].seal /\ p.lost <= a.archive[h].lost
          /\ p.evidence = a.archive[h].evidence => p.seal = a.archive[h].seal /\ p.lost = a.archive[h].lost
          /\ p.evidence \in Nat /\ p.seal \in 0..2 /\ p.lost \in Nat
      BY <2>1, <1>5 DEF Known
    <2> QED BY <1>2, <1>3, <1>5, <2>1, <2>2, <2>3 DEF Newer
  <1> QED BY <1>4, <1>5 DEF Known

(* A catalogue that was read is one that has gone or the present one.      *)
LEMMA CataloguedLater ==
  ASSUME NEW a, NEW b, Moved(a, b), ArchiveOK(a), ArchiveOK(b), NEW h \in Heights,
         NEW c, NEW p, Catalogued(a, c, p, h)
  PROVE  Catalogued(b, c, p, h)
  <1>1. a.catalogue \in Nat /\ b.catalogue \in Nat /\ a.catalogue <= b.catalogue /\ c.catalogue \in Nat
        /\ c.catalogue <= a.catalogue
    BY DEF Moved, ArchiveOK, Catalogued
  <1>2. c.catalogue = b.catalogue => c.retained = HeldIn(b) /\ c.status = StatusFor(b, h, p.seal)
    <2> SUFFICES ASSUME c.catalogue = b.catalogue
                 PROVE  c.retained = HeldIn(b) /\ c.status = StatusFor(b, h, p.seal)
      OBVIOUS
    <2>1. a.catalogue = b.catalogue /\ c.catalogue = a.catalogue
      BY <1>1
    <2>2. HeldIn(b) = HeldIn(a) /\ b.evicted = a.evicted /\ b.latest = a.latest /\ b.committed = a.committed
      BY <2>1 DEF Moved
    <2>3. StatusFor(b, h, p.seal) = StatusFor(a, h, p.seal)
      BY <2>2 DEF StatusFor
    <2> QED BY <2>1, <2>2, <2>3 DEF Catalogued
  <1> QED BY <1>1, <1>2 DEF Catalogued

(* So does what a request began with.                                      *)
LEMMA FlooredLater ==
  ASSUME NEW a, NEW b, Moved(a, b), ArchiveOK(a), ArchiveOK(b), NEW h \in Heights, NEW f, Floored(a, f, h)
  PROVE  Floored(b, f, h)
  <1>1. /\ h \in Int /\ a.evicted \in Nat /\ b.evicted \in Nat /\ a.evicted <= b.evicted
        /\ a.catalogue \in Nat /\ b.catalogue \in Nat /\ a.catalogue <= b.catalogue
    BY ArchiveAssumption DEF Moved, ArchiveOK
  <1>2. \A g \in HeldIn(a) : a.archive[g].evidence \in Nat /\ a.archive[g].seal \in 0..2 /\ a.archive[g].lost \in Nat
    BY DEF ArchiveOK, Blocks
  <1>3. \A g \in HeldIn(b) : b.archive[g].evidence \in Nat /\ b.archive[g].seal \in 0..2 /\ b.archive[g].lost \in Nat
    BY DEF ArchiveOK, Blocks
  <1>4. f.found \in BOOLEAN /\ f.evidence \in Nat /\ f.seal \in 0..2 /\ f.lost \in Nat /\ f.catalogue \in Nat
    BY DEF Floored, Service!Floors
  <1>5. f.found /\ h \notin HeldIn(b) => h > 0 /\ h <= b.evicted
    BY <1>1 DEF Floored, Moved
  <1>6. ASSUME f.found, h \in HeldIn(b)
        PROVE  LET d == b.archive[h] IN f.evidence <= d.evidence /\ f.seal <= d.seal /\ f.lost <= d.lost
    <2>1. h \in HeldIn(a)
      BY <1>1, <1>6 DEF Floored, Moved
    <2>2. Newer(a.archive[h], b.archive[h])
      BY <2>1, <1>6 DEF Moved
    <2>3. f.evidence <= a.archive[h].evidence /\ f.seal <= a.archive[h].seal /\ f.lost <= a.archive[h].lost
      BY <2>1, <1>6 DEF Floored
    <2> QED BY <1>2, <1>3, <1>4, <1>6, <2>1, <2>2, <2>3 DEF Newer
  <1>7. f.catalogue <= b.catalogue
    BY <1>1, <1>4 DEF Floored
  <1> QED BY <1>5, <1>6, <1>7 DEF Floored

(* What is read now.                                                       *)
LEMMA VersionIs ==
  ASSUME ArchiveOK(Now), NEW h \in Heights, NEW v, v = Version(h)
  PROVE  /\ Newest(Now, v, h) /\ Catalogued(Now, v, v, h) /\ v.catalogue = Now.catalogue
         /\ v.found => v.seal = archive[h].seal /\ v.lost = archive[h].lost
         /\ v.retained = HeldIn(Now) /\ v.status = StatusFor(Now, h, v.seal)
  <1>1. /\ Held = HeldIn(Now) /\ archive = Now.archive /\ archiveLatest = Now.latest
        /\ evictedThrough = Now.evicted /\ committedHeight = Now.committed /\ catalogue = Now.catalogue
    BY NowIs DEF Held
  <1>2. /\ v.found = (h \in Held) /\ v.evidence = (IF h \in Held THEN archive[h].evidence ELSE 0)
        /\ v.seal = (IF h \in Held THEN archive[h].seal ELSE 0)
        /\ v.lost = (IF h \in Held THEN archive[h].lost ELSE 0)
        /\ v.catalogue = catalogue /\ v.status = Status(h) /\ v.retained = Held
    BY DEF Version
  <1>3. h \in Held => archive[h] \in Blocks
    BY <1>1 DEF ArchiveOK
  <1>4. h \in Held => /\ archive[h].evidence \in Nat /\ archive[h].evidence > 0
                      /\ archive[h].seal \in 0..2 /\ archive[h].lost \in Nat
    BY <1>3 DEF Blocks
  <1>5. v.status = StatusFor(Now, h, v.seal)
    BY <1>1, <1>2 DEF Status, StatusFor
  <1>6. Known(Now, v, h)
    <2>1. CASE h \in Held
      <3>1. v.found /\ v.found = TRUE
        BY <1>2, <2>1
      <3>2. /\ v.evidence = archive[h].evidence /\ v.seal = archive[h].seal /\ v.lost = archive[h].lost
            /\ v.evidence \in Nat /\ v.evidence > 0 /\ v.seal \in 0..2 /\ v.lost \in Nat
        BY <1>2, <1>4, <2>1
      <3>3. h \in HeldIn(Now) /\ Now.archive[h] = archive[h]
        BY <1>1, <2>1
      <3> QED BY <3>1, <3>2, <3>3 DEF Known
    <2>2. CASE h \notin Held
      <3>1. v.found = FALSE
        <4>1. (h \in Held) = FALSE
          BY <2>2
        <4>2. v.found = (h \in Held)
          BY <1>2
        <4> QED BY <4>1, <4>2, Zenon
      <3>2. v.evidence = 0 /\ v.seal = 0 /\ v.lost = 0
        BY <1>2, <2>2
      <3>3. v.evidence \in Nat /\ v.seal \in 0..2 /\ v.lost \in Nat
        BY <3>2
      <3> QED BY <3>1, <3>2, <3>3 DEF Known
    <2> QED BY <2>1, <2>2
  <1>7. v.status \in Statuses
    BY <1>2 DEF Status, Statuses
  <1>8. v.found => (v.status = "committed" <=> v.seal > 0)
    BY <1>1, <1>2, <1>5 DEF StatusFor
  <1>9. catalogue \in Nat /\ Held \in SUBSET Heights
    BY <1>1 DEF ArchiveOK
  <1>10. Catalogued(Now, v, v, h)
    BY <1>1, <1>2, <1>5, <1>7, <1>8, <1>9 DEF Catalogued
  <1>11. Newest(Now, v, h)
    BY <1>1, <1>2, <1>6 DEF Newest
  <1> QED BY <1>1, <1>2, <1>5, <1>10, <1>11

-----------------------------------------------------------------------------
(* The inductive invariant, part two: what can be answered *)

Versioned == Bearing \cup {"lookup", "publish"}
Choosing == {"encode", "variant", "variant_wait", "encoded"}
Settled == Choosing \cup {"captured"}

Same(o, p) == o.found = p.found /\ o.evidence = p.evidence /\ o.seal = p.seal /\ o.lost = p.lost

(* A report says what was known of its height, in each of its variants.    *)
ReportAt(a, e) ==
  /\ e.height \in Heights /\ Known(a, e, e.height)
  /\ \A k \in DOMAIN e.variants :
       /\ Same(e.variants[k], e) /\ e.variants[k].catalogue = k[2]
       /\ Catalogued(a, e.variants[k], e, e.height)

(* The version and the report of a request are of its height, and those it *)
(* is answered with are of the same commit and the same evictions.         *)
RequestAt(a, x, hp) ==
  /\ x.pc \in Versioned => Known(a, x.v, x.height) /\ Catalogued(a, x.v, x.v, x.height)
  /\ "e" \in DOMAIN x => hp[x.e].height = x.height
  /\ x.pc \in Settled =>
       /\ hp[x.e].seal = x.v.seal /\ hp[x.e].lost = x.v.lost
       /\ hp[x.e].found => x.v.found

(* A version and a report of the same evidence are of the same commit and  *)
(* the same evictions, however long ago either was read.                   *)
Matching(x, hp) ==
  x.pc \in Versioned =>
    \A i \in DOMAIN hp :
      hp[i].height = x.height /\ hp[i].found /\ x.v.found /\ hp[i].evidence = x.v.evidence
        => hp[i].seal = x.v.seal /\ hp[i].lost = x.v.lost

EntryAt(hp, h, i) == i # Nothing => i \in DOMAIN hp /\ hp[i].height = h /\ hp[i].found

Answerable(a, rd, hp, en) ==
  /\ \A i \in DOMAIN hp : ReportAt(a, hp[i])
  /\ \A r \in Readers : RequestAt(a, rd[r], hp) /\ Matching(rd[r], hp)
  /\ \A h \in Heights : EntryAt(hp, h, en[h])

AnswerInv == ArchiveOK(Now) /\ Answerable(Now, reader, heap, entries)

-----------------------------------------------------------------------------
(* What keeps it *)

(* The heap keeps what its reports say, and a new one is up to date.       *)
Grown(a, hp, hp2) ==
  \A i \in DOMAIN hp2 :
    /\ ReportAt(a, hp2[i])
    /\ IF i \in DOMAIN hp THEN hp2[i].height = hp[i].height /\ Same(hp2[i], hp[i])
       ELSE hp2[i].found => Newest(a, hp2[i], hp2[i].height)

(* Request y has nothing that it had not when it was x.                    *)
Carries(x, y) ==
  /\ y.pc \in Versioned => x.pc \in Versioned /\ y.v = x.v /\ y.height = x.height
  /\ "e" \in DOMAIN y => "e" \in DOMAIN x /\ y.e = x.e /\ y.height = x.height
  /\ y.pc \in Settled => x.pc \in Settled /\ "e" \in DOMAIN y

(* A version and a new report of the same evidence agree.                  *)
LEMMA NewestMatches ==
  ASSUME NEW a, ArchiveOK(a), NEW h \in Heights, NEW p, NEW q, Known(a, p, h), Newest(a, q, h),
         p.found, q.found, p.evidence = q.evidence
  PROVE  p.seal = q.seal /\ p.lost = q.lost
  BY DEF Newest, Known

(* A request that carries on stays as it was.                              *)
LEMMA RequestCarries ==
  ASSUME NEW a, ArchiveOK(a), NEW hp, NEW hp2, Grown(a, hp, hp2), NEW x, NEW y, Carries(x, y),
         RequestAt(a, x, hp), Matching(x, hp),
         "e" \in DOMAIN x => x.e \in DOMAIN hp, "e" \in DOMAIN y => y.e \in DOMAIN hp2
  PROVE  RequestAt(a, y, hp2) /\ Matching(y, hp2)
  <1>1. y.pc \in Versioned => Known(a, y.v, y.height) /\ Catalogued(a, y.v, y.v, y.height)
    BY DEF Carries, RequestAt
  <1>2. "e" \in DOMAIN y => /\ y.e = x.e /\ hp2[y.e].height = hp[x.e].height
                            /\ Same(hp2[y.e], hp[x.e]) /\ hp[x.e].height = y.height
    BY DEF Carries, Grown, RequestAt
  <1>3. ASSUME y.pc \in Settled
        PROVE  hp2[y.e].seal = y.v.seal /\ hp2[y.e].lost = y.v.lost /\ (hp2[y.e].found => y.v.found)
    <2>1. x.pc \in Settled /\ "e" \in DOMAIN y /\ y.v = x.v
      BY <1>3 DEF Carries, Settled, Choosing, Versioned, Bearing
    <2> QED BY <2>1, <1>2 DEF RequestAt, Same
  <1>4. ASSUME y.pc \in Versioned, NEW i \in DOMAIN hp2, hp2[i].height = y.height, hp2[i].found,
               y.v.found, hp2[i].evidence = y.v.evidence
        PROVE  hp2[i].seal = y.v.seal /\ hp2[i].lost = y.v.lost
    <2>1. x.pc \in Versioned /\ y.v = x.v /\ y.height = x.height
      BY <1>4 DEF Carries
    <2>2. CASE i \in DOMAIN hp
      <3>1. hp2[i].height = hp[i].height /\ Same(hp2[i], hp[i])
        BY <2>2, <1>4 DEF Grown
      <3> QED BY <3>1, <2>1, <2>2, <1>4 DEF Matching, Same
    <2>3. CASE i \notin DOMAIN hp
      <3>1. ReportAt(a, hp2[i]) /\ Newest(a, hp2[i], hp2[i].height)
        BY <2>3, <1>4 DEF Grown
      <3>2. y.height \in Heights
        BY <3>1, <1>4 DEF ReportAt
      <3> QED BY <3>1, <3>2, <1>1, <1>4, NewestMatches
    <2> QED BY <2>2, <2>3
  <1> QED BY <1>1, <1>2, <1>3, <1>4 DEF RequestAt, Matching

(* If every request carries on, or is in order by itself, and every entry  *)
(* is an old one or one in order, nothing is lost.                         *)
LEMMA AnswerStays ==
  ASSUME WaitInv, WaitInv', AnswerInv, UNCHANGED archiveVars, Grown(Now, heap, heap'),
         \A q \in Readers : \/ Carries(reader[q], reader'[q])
                            \/ RequestAt(Now, reader'[q], heap') /\ Matching(reader'[q], heap'),
         \A h \in Heights : \/ entries'[h] \in {Nothing, entries[h]}
                            \/ EntryAt(heap, h, entries'[h])
  PROVE  AnswerInv'
  <1>1. Now' = Now
    BY DEF Now, archiveVars
  <1>2. /\ \A h \in Heights : entries'[h] \in DOMAIN heap' \cup {Nothing}
        /\ \A r \in Readers : "e" \in DOMAIN reader[r] => reader[r].e \in DOMAIN heap
        /\ \A r \in Readers : "e" \in DOMAIN reader'[r] => reader'[r].e \in DOMAIN heap'
    BY DEF WaitInv, Waits, HeapOK
  <1>3. \A i \in DOMAIN heap' : ReportAt(Now, heap'[i])
    BY DEF Grown
  <1>4. \A r \in Readers : RequestAt(Now, reader'[r], heap') /\ Matching(reader'[r], heap')
    <2> TAKE r \in Readers
    <2>1. RequestAt(Now, reader[r], heap) /\ Matching(reader[r], heap) /\ ArchiveOK(Now)
      BY DEF AnswerInv, Answerable
    <2>2. CASE Carries(reader[r], reader'[r])
      BY <1>2, <2>1, <2>2, RequestCarries
    <2> QED BY <2>2
  <1>5. \A h \in Heights : EntryAt(heap', h, entries'[h])
    <2> TAKE h \in Heights
    <2> SUFFICES ASSUME entries'[h] # Nothing
                 PROVE  heap'[entries'[h]].height = h /\ heap'[entries'[h]].found
      BY <1>2 DEF EntryAt
    <2>1. EntryAt(heap, h, entries[h])
      BY DEF AnswerInv, Answerable
    <2>2. EntryAt(heap, h, entries'[h])
      BY <2>1
    <2>3. entries'[h] \in DOMAIN heap /\ entries'[h] \in DOMAIN heap'
      BY <1>2, <2>2 DEF EntryAt
    <2> QED BY <2>2, <2>3 DEF Grown, Same, EntryAt
  <1> QED BY <1>1, <1>3, <1>4, <1>5 DEF AnswerInv, Answerable

(* A request that does nothing carries on.                                 *)
LEMMA CarriesItself ==
  ASSUME WaitInv, NEW r \in Readers
  PROVE  Carries(reader[r], reader[r])
  BY AtFields DEF Carries, Settled, Choosing, Bearing, Fields

(* So does one that has ended or that starts over.                         *)
LEMMA CarriesNothing ==
  ASSUME NEW x, NEW y, "e" \notin DOMAIN y, y.pc \in Starting \cup {"idle"}
  PROVE  Carries(x, y)
  BY DEF Carries, Settled, Choosing, Versioned, Bearing, Starting

(* A heap of old reports has grown.                                        *)
LEMMA OldReports ==
  ASSUME AnswerInv, NEW hp2, \A i \in DOMAIN hp2 : i \in DOMAIN heap /\ hp2[i] = heap[i]
  PROVE  Grown(Now, heap, hp2)
  <1> SUFFICES ASSUME NEW i \in DOMAIN hp2
               PROVE  /\ ReportAt(Now, hp2[i]) /\ i \in DOMAIN heap
                      /\ hp2[i].height = heap[i].height /\ Same(hp2[i], heap[i])
    BY DEF Grown
  <1>1. i \in DOMAIN heap /\ hp2[i] = heap[i] /\ ReportAt(Now, heap[i])
    BY DEF AnswerInv, Answerable
  <1> QED BY <1>1 DEF Same

-----------------------------------------------------------------------------
(* One lemma per action *)

(* The actions that only let go of reports.                                *)
LEMMA MereSteps ==
  ASSUME WaitInv, WaitInv', AnswerInv, UNCHANGED archiveVars,
         \A q \in Readers : Carries(reader[q], reader'[q]),
         \A i \in DOMAIN heap' : i \in DOMAIN heap /\ heap'[i] = heap[i],
         \A h \in Heights : entries'[h] \in {Nothing, entries[h]}
  PROVE  AnswerInv'
  BY OldReports, AnswerStays

(* What a collection of the heap leaves.                                   *)
LEMMA HeapOld ==
  ASSUME NEW hp, Heap(hp)
  PROVE  \A i \in DOMAIN heap' : i \in DOMAIN hp /\ heap'[i] = hp[i]
  BY DEF Heap, Restrict

(* A request that ends.                                                    *)
LEMMA EndAnswers ==
  ASSUME WaitInv, WaitInv', AnswerInv, NEW r \in Readers, UNCHANGED <<archiveVars, entries>>,
         reader' = [reader EXCEPT ![r] = Idle], Heap(heap)
  PROVE  AnswerInv'
  <1>1. \A q \in Readers : Carries(reader[q], reader'[q])
    <2> TAKE q \in Readers
    <2>1. CASE q = r
      <3>1. reader'[q] = Idle
        BY <2>1 DEF WaitInv, Waits, ReadersOK
      <3>2. "e" \notin DOMAIN Idle /\ Idle.pc = "idle"
        BY DEF Idle
      <3> QED BY <3>1, <3>2, CarriesNothing
    <2>2. CASE q # r
      <3>1. reader'[q] = reader[q]
        BY <2>2 DEF WaitInv, Waits, ReadersOK
      <3> QED BY <3>1, CarriesItself
    <2> QED BY <2>1, <2>2
  <1>2. \A i \in DOMAIN heap' : i \in DOMAIN heap /\ heap'[i] = heap[i]
    BY HeapOld
  <1> QED BY <1>1, <1>2, MereSteps

(* A request moves within the code and touches nothing.                    *)
LEMMA MoveAnswers ==
  ASSUME WaitInv, WaitInv', AnswerInv, NEW r \in Readers, UNCHANGED <<archiveVars, entries, heap>>,
         NEW y, reader' = [reader EXCEPT ![r] = y],
         \/ Carries(reader[r], y)
         \/ RequestAt(Now, y, heap) /\ Matching(y, heap)
  PROVE  AnswerInv'
  <1>1. \A q \in Readers : \/ Carries(reader[q], reader'[q])
                           \/ RequestAt(Now, reader'[q], heap') /\ Matching(reader'[q], heap')
    <2> TAKE q \in Readers
    <2>1. CASE q = r
      <3>1. reader'[q] = y
        BY <2>1 DEF WaitInv, Waits, ReadersOK
      <3> QED BY <2>1, <3>1
    <2>2. CASE q # r
      <3>1. reader'[q] = reader[q]
        BY <2>2 DEF WaitInv, Waits, ReadersOK
      <3> QED BY <3>1, CarriesItself
    <2> QED BY <2>1, <2>2
  <1>2. \A i \in DOMAIN heap' : i \in DOMAIN heap /\ heap'[i] = heap[i]
    OBVIOUS
  <1>3. Grown(Now, heap, heap')
    BY <1>2, OldReports
  <1>4. \A h \in Heights : entries'[h] \in {Nothing, entries[h]}
    OBVIOUS
  <1> QED BY <1>1, <1>3, <1>4, AnswerStays

(* A version that has just been read matches every report there is.        *)
LEMMA VersionMatches ==
  ASSUME AnswerInv, NEW y, y.height \in Heights, y.v = Version(y.height)
  PROVE  /\ Matching(y, heap)
         /\ Newest(Now, y.v, y.height) /\ Known(Now, y.v, y.height) /\ Catalogued(Now, y.v, y.v, y.height)
  <1>1. ArchiveOK(Now)
    BY DEF AnswerInv
  <1>2. Newest(Now, y.v, y.height) /\ Catalogued(Now, y.v, y.v, y.height)
    BY <1>1, VersionIs
  <1>3. Known(Now, y.v, y.height)
    BY <1>2 DEF Newest
  <1>4. ASSUME NEW i \in DOMAIN heap, heap[i].height = y.height, heap[i].found, y.v.found,
               heap[i].evidence = y.v.evidence
        PROVE  heap[i].seal = y.v.seal /\ heap[i].lost = y.v.lost
    <2>1. Known(Now, heap[i], y.height)
      BY <1>4 DEF AnswerInv, Answerable, ReportAt
    <2> QED BY <1>1, <1>2, <1>4, <2>1, NewestMatches
  <1> QED BY <1>2, <1>3, <1>4 DEF Matching

(* A request arrives.                                                      *)
LEMMA RequestAnswers ==
  ASSUME WaitInv, WaitInv', AnswerInv, NEW r \in Readers, NEW h \in Heights, NEW view \in Views,
         Request(r, h, view)
  PROVE  AnswerInv'
  <1>1. PICK f : LET asked == [pc |-> "capture", height |-> h, view |-> view, floor |-> f]
                 IN reader' = [reader EXCEPT ![r] =
                      IF view = "capture" THEN asked
                      ELSE Put([asked EXCEPT !.pc = "lookup"], "v", Version(h))]
    BY DEF Request
  <1>2. UNCHANGED <<archiveVars, entries, heap>>
    BY DEF Request
  <1>3. CASE view = "capture"
    <2> DEFINE y == [pc |-> "capture", height |-> h, view |-> view, floor |-> f]
    <2>1. reader' = [reader EXCEPT ![r] = y]
      BY <1>1, <1>3
    <2>2. Carries(reader[r], y)
      BY CarriesNothing DEF Starting
    <2> HIDE DEF y
    <2> QED BY <1>2, <2>1, <2>2, MoveAnswers
  <1>4. CASE view # "capture"
    <2>1. PICK y : y = Put([[pc |-> "capture", height |-> h, view |-> view, floor |-> f]
                              EXCEPT !.pc = "lookup"], "v", Version(h))
      OBVIOUS
    <2>2. reader' = [reader EXCEPT ![r] = y]
      BY <1>1, <1>4, <2>1
    <2>3. y.pc = "lookup" /\ y.height = h /\ y.v = Version(h) /\ "e" \notin DOMAIN y
      BY <2>1 DEF Put
    <2>4. Matching(y, heap) /\ Known(Now, y.v, y.height) /\ Catalogued(Now, y.v, y.v, y.height)
      BY <2>3, VersionMatches
    <2>5. RequestAt(Now, y, heap)
      BY <2>3, <2>4 DEF RequestAt, Settled, Choosing
    <2> QED BY <1>2, <2>2, <2>4, <2>5, MoveAnswers
  <1> QED BY <1>3, <1>4

(* A woken waiter reads the version.                                       *)
LEMMA ReadVersionAnswers ==
  ASSUME WaitInv, WaitInv', AnswerInv, NEW r \in Readers, ReadVersion(r)
  PROVE  AnswerInv'
  <1> DEFINE x == reader[r]
  <1>1. PICK y : y = Put([x EXCEPT !.pc = "lookup"], "v", Version(x.height))
    OBVIOUS
  <1>2. /\ reader' = [reader EXCEPT ![r] = y] /\ x.pc = "version"
        /\ UNCHANGED <<archiveVars, entries, heap>>
    BY <1>1 DEF ReadVersion, Go, At
  <1>3. DOMAIN x = Fields /\ x.height \in Heights
    BY <1>2, AtFields DEF Starting
  <1>4. y.pc = "lookup" /\ y.height = x.height /\ y.v = Version(x.height) /\ "e" \notin DOMAIN y
    BY <1>1, <1>3 DEF Put, Fields
  <1>5. Matching(y, heap) /\ Known(Now, y.v, y.height) /\ Catalogued(Now, y.v, y.v, y.height)
    BY <1>3, <1>4, VersionMatches
  <1>6. RequestAt(Now, y, heap)
    BY <1>4, <1>5 DEF RequestAt, Settled, Choosing
  <1> QED BY <1>2, <1>5, <1>6, MoveAnswers

(* A builder reads the version once more.                                  *)
LEMMA ReadLatestAnswers ==
  ASSUME WaitInv, WaitInv', AnswerInv, NEW r \in Readers, ReadLatest(r)
  PROVE  AnswerInv'
  <1> DEFINE x == reader[r]
  <1>1. PICK y : y = Put([x EXCEPT !.pc = "publish"], "v", Version(x.height))
    OBVIOUS
  <1>2. /\ reader' = [reader EXCEPT ![r] = y] /\ x.pc \in {"built", "failed"}
        /\ UNCHANGED <<archiveVars, entries, heap>>
    BY <1>1 DEF ReadLatest, Go, At
  <1>3. x.height \in Heights /\ DOMAIN x \in {Fields, Fields \cup {"v", "e"}}
    BY <1>2, AtFields DEF Starting, Bearing
  <1>4. /\ y.pc = "publish" /\ y.height = x.height /\ y.v = Version(x.height)
        /\ "e" \in DOMAIN y => "e" \in DOMAIN x /\ y.e = x.e
    BY <1>1, <1>3 DEF Put, Fields
  <1>5. Matching(y, heap) /\ Known(Now, y.v, y.height) /\ Catalogued(Now, y.v, y.v, y.height)
    BY <1>3, <1>4, VersionMatches
  <1>6. RequestAt(Now, x, heap)
    BY DEF AnswerInv, Answerable
  <1>7. RequestAt(Now, y, heap)
    BY <1>4, <1>5, <1>6 DEF RequestAt, Settled, Choosing
  <1> QED BY <1>2, <1>5, <1>7, MoveAnswers

(* What the cache has will do for the request that finds it.               *)
LEMMA LookupHitAnswers ==
  ASSUME WaitInv, WaitInv', AnswerInv, NEW r \in Readers, LookupHit(r)
  PROVE  AnswerInv'
  <1> DEFINE x == reader[r]
             e == heap[entries[x.height]]
  <1>1. PICK y : y = Put([x EXCEPT !.pc = "encode"], "e", entries[x.height])
    OBVIOUS
  <1>2. /\ reader' = [reader EXCEPT ![r] = y] /\ x.pc = "lookup" /\ x.v.found
        /\ entries[x.height] # Nothing /\ UNCHANGED <<archiveVars, entries, heap>>
        /\ e.evidence = x.v.evidence \/ (e.seal = x.v.seal /\ e.lost = x.v.lost)
    BY <1>1 DEF LookupHit, Go, At, Exact, Usable, CanCoalesce
  <1>3. DOMAIN x = Fields \cup {"v"} /\ x.height \in Heights
    BY <1>2, AtFields
  <1>4. /\ y.pc = "encode" /\ y.height = x.height /\ y.v = x.v /\ y.e = entries[x.height]
    BY <1>1, <1>3 DEF Put, Fields
  <1>5. /\ RequestAt(Now, x, heap) /\ Matching(x, heap) /\ EntryAt(heap, x.height, entries[x.height])
    BY <1>3 DEF AnswerInv, Answerable
  <1>6. entries[x.height] \in DOMAIN heap /\ e.height = x.height /\ e.found
    BY <1>2, <1>5 DEF EntryAt
  <1>7. x.pc \in Versioned
    BY <1>2 DEF Versioned
  <1>8. e.seal = x.v.seal /\ e.lost = x.v.lost
    BY <1>2, <1>5, <1>6, <1>7 DEF Matching
  <1>9. Matching(y, heap)
    BY <1>4, <1>5, <1>7 DEF Matching
  <1>10. RequestAt(Now, y, heap)
    <2>1. Known(Now, y.v, y.height) /\ Catalogued(Now, y.v, y.v, y.height)
      BY <1>4, <1>5, <1>7 DEF RequestAt
    <2>2. heap[y.e].height = y.height /\ heap[y.e].seal = y.v.seal /\ heap[y.e].lost = y.v.lost /\ y.v.found
      BY <1>2, <1>4, <1>6, <1>8
    <2> QED BY <2>1, <2>2 DEF RequestAt
  <1> QED BY <1>2, <1>9, <1>10, MoveAnswers

(* Otherwise the request builds or waits.                                  *)
LEMMA LookupMissAnswers ==
  ASSUME WaitInv, WaitInv', AnswerInv, NEW r \in Readers, LookupMiss(r)
  PROVE  AnswerInv'
  <1> DEFINE x == reader[r]
             y == [Asked(x) EXCEPT !.pc = IF x.height \in flights THEN "wait" ELSE "build"]
  <1>1. reader' = [reader EXCEPT ![r] = y] /\ UNCHANGED <<archiveVars, entries, heap>>
    BY DEF LookupMiss
  <1>2. Carries(x, y)
    BY CarriesNothing DEF Asked, Starting
  <1> HIDE DEF y
  <1> QED BY <1>1, <1>2, MoveAnswers

(* A slot is taken, or the client of a builder goes away.                  *)
LEMMA SlotAnswers ==
  ASSUME WaitInv, WaitInv', AnswerInv, NEW r \in Readers, TakeSlot(r) \/ CancelBuild(r)
  PROVE  AnswerInv'
  <1> DEFINE x == reader[r]
  <1>1. CASE TakeSlot(r)
    <2>1. PICK y : y = [x EXCEPT !.pc = "encoded"]
      OBVIOUS
    <2>2. reader' = [reader EXCEPT ![r] = y] /\ x.pc = "variant" /\ UNCHANGED <<archiveVars, entries, heap>>
      BY <1>1, <2>1 DEF TakeSlot, Go, At
    <2>3. DOMAIN x = Fields \cup {"v", "e"}
      BY <2>2, AtFields DEF Bearing
    <2>4. DOMAIN y = DOMAIN x /\ y.pc = "encoded" /\ y.v = x.v /\ y.e = x.e /\ y.height = x.height
      BY <2>1, <2>3 DEF Fields
    <2>5. Carries(x, y)
      BY <2>2, <2>3, <2>4 DEF Carries, Versioned, Bearing, Settled, Choosing
    <2> QED BY <2>2, <2>5, MoveAnswers
  <1>2. CASE CancelBuild(r)
    <2>1. PICK y : y = [x EXCEPT !.pc = "failed"]
      OBVIOUS
    <2>2. reader' = [reader EXCEPT ![r] = y] /\ x.pc = "build" /\ UNCHANGED <<archiveVars, entries, heap>>
      BY <1>2, <2>1 DEF CancelBuild, Go, At
    <2>3. DOMAIN x = Fields
      BY <2>2, AtFields DEF Starting
    <2>4. "e" \notin DOMAIN y /\ y.pc = "failed"
      BY <2>1, <2>3 DEF Fields
    <2>5. Carries(x, y)
      BY <2>4, CarriesNothing DEF Starting
    <2> QED BY <2>2, <2>5, MoveAnswers
  <1> QED BY <1>1, <1>2

(* A heap with one report more, which is up to date or of nothing held.    *)
LEMMA NewReportGrown ==
  ASSUME WaitInv, AnswerInv, NEW h \in Heights, NEW v, Known(Now, v, h), v.found => Newest(Now, v, h),
         NEW hp, hp = Put(heap, FreeId, NewReport(h, v)),
         NEW hp2, \A i \in DOMAIN hp2 : i \in DOMAIN hp /\ hp2[i] = hp[i]
  PROVE  Grown(Now, heap, hp2)
  <1> SUFFICES ASSUME NEW i \in DOMAIN hp2
               PROVE  /\ ReportAt(Now, hp2[i])
                      /\ IF i \in DOMAIN heap THEN hp2[i].height = heap[i].height /\ Same(hp2[i], heap[i])
                         ELSE hp2[i].found => Newest(Now, hp2[i], hp2[i].height)
    BY DEF Grown
  <1>1. /\ DOMAIN hp = DOMAIN heap \cup {FreeId} /\ hp[FreeId] = NewReport(h, v)
        /\ \A j \in DOMAIN heap : hp[j] = heap[j]
    BY NewReportFields
  <1>2. FreeId \notin DOMAIN heap
    BY FreeIdIsFree
  <1>3. CASE i \in DOMAIN heap
    <2>1. hp2[i] = heap[i] /\ ReportAt(Now, heap[i])
      BY <1>1, <1>3 DEF AnswerInv, Answerable
    <2> QED BY <1>3, <2>1 DEF Same
  <1>4. CASE i \notin DOMAIN heap
    <2>1. PICK o : o = NewReport(h, v)
      OBVIOUS
    <2>2. hp2[i] = o
      BY <1>1, <1>4, <2>1
    <2>3. o.height = h /\ Same(o, v) /\ DOMAIN o.variants = {}
      BY <2>1 DEF NewReport, Same
    <2>4. Known(Now, o, h)
      BY <2>3 DEF Known, Same
    <2>5. o.found => Newest(Now, o, h)
      BY <2>3, <2>4 DEF Newest, Same
    <2>6. ReportAt(Now, o)
      BY <2>3, <2>4 DEF ReportAt
    <2> QED BY <1>4, <2>2, <2>3, <2>5, <2>6
  <1> QED BY <1>3, <1>4

(* A request and its new report.                                           *)
LEMMA NewReportAnswers ==
  ASSUME WaitInv, WaitInv', AnswerInv, NEW r \in Readers, UNCHANGED archiveVars,
         NEW y, reader' = [reader EXCEPT ![r] = y], NEW h \in Heights, NEW v,
         Known(Now, v, h), Catalogued(Now, v, v, h), v.found => Newest(Now, v, h),
         Matching(y, heap), y.height = h, y.v = v, y.e = FreeId, "e" \in DOMAIN y,
         NEW hp, hp = Put(heap, FreeId, NewReport(h, v)), Heap(hp),
         \A g \in Heights : entries'[g] \in {Nothing, entries[g]}
  PROVE  AnswerInv'
  <1>1. /\ DOMAIN hp = DOMAIN heap \cup {FreeId} /\ hp[FreeId] = NewReport(h, v)
        /\ \A j \in DOMAIN heap : hp[j] = heap[j]
    BY NewReportFields
  <1>2. \A i \in DOMAIN heap' : i \in DOMAIN hp /\ heap'[i] = hp[i]
    BY HeapOld
  <1>3. Grown(Now, heap, heap')
    BY <1>2, NewReportGrown
  <1>4. reader'[r] = y /\ \A q \in Readers : q # r => reader'[q] = reader[q]
    BY DEF WaitInv, Waits, ReadersOK
  <1>5. y.e \in DOMAIN heap'
    BY <1>4 DEF WaitInv, Waits, HeapOK
  <1>6. PICK o : o = NewReport(h, v)
    OBVIOUS
  <1>7. o.height = h /\ Same(o, v)
    BY <1>6 DEF NewReport, Same
  <1>8. heap'[y.e] = o
    BY <1>1, <1>2, <1>5, <1>6
  <1>9. RequestAt(Now, y, heap')
    <2>1. heap'[y.e].height = y.height /\ heap'[y.e].seal = y.v.seal /\ heap'[y.e].lost = y.v.lost
          /\ (heap'[y.e].found => y.v.found)
      BY <1>7, <1>8 DEF Same
    <2> QED BY <2>1 DEF RequestAt
  <1>10. Matching(y, heap')
    <2> SUFFICES ASSUME y.pc \in Versioned, NEW i \in DOMAIN heap', heap'[i].height = y.height,
                        heap'[i].found, y.v.found, heap'[i].evidence = y.v.evidence
                 PROVE  heap'[i].seal = y.v.seal /\ heap'[i].lost = y.v.lost
      BY DEF Matching
    <2>1. CASE i \in DOMAIN heap
      <3>1. heap'[i] = heap[i]
        BY <2>1, <1>1, <1>2
      <3> QED BY <2>1, <3>1 DEF Matching
    <2>2. CASE i \notin DOMAIN heap
      <3>1. heap'[i] = o
        BY <2>2, <1>1, <1>2, <1>6
      <3> QED BY <3>1, <1>7 DEF Same
    <2> QED BY <2>1, <2>2
  <1>11. \A q \in Readers : \/ Carries(reader[q], reader'[q])
                            \/ RequestAt(Now, reader'[q], heap') /\ Matching(reader'[q], heap')
    <2> TAKE q \in Readers
    <2>1. CASE q = r
      BY <2>1, <1>4, <1>9, <1>10
    <2>2. CASE q # r
      BY <2>2, <1>4, CarriesItself
    <2> QED BY <2>1, <2>2
  <1> QED BY <1>3, <1>11, AnswerStays

(* A height that is not retained is answered by its header.                *)
LEMMA LookupAbsentAnswers ==
  ASSUME WaitInv, WaitInv', AnswerInv, NEW r \in Readers, LookupAbsent(r)
  PROVE  AnswerInv'
  <1> DEFINE x == reader[r]
             h == x.height
             v == x.v
  <1>1. PICK y : y = Put([x EXCEPT !.pc = "encode"], "e", FreeId)
    OBVIOUS
  <1>2. PICK hp : hp = Put(heap, FreeId, NewReport(h, v))
    OBVIOUS
  <1>3. /\ reader' = [reader EXCEPT ![r] = y] /\ x.pc = "lookup" /\ ~v.found
        /\ entries' = Drop(entries, h) /\ UNCHANGED archiveVars /\ Heap(hp)
    BY <1>1, <1>2 DEF LookupAbsent, Go, At
  <1>4. DOMAIN x = Fields \cup {"v"} /\ h \in Heights
    BY <1>3, AtFields
  <1>5. /\ y.pc = "encode" /\ y.height = h /\ y.v = v /\ y.e = FreeId /\ "e" \in DOMAIN y
    BY <1>1, <1>4 DEF Put, Fields
  <1>6. RequestAt(Now, x, heap) /\ Matching(x, heap)
    BY DEF AnswerInv, Answerable
  <1>7. x.pc \in Versioned
    BY <1>3 DEF Versioned
  <1>8. Known(Now, v, h) /\ Catalogued(Now, v, v, h)
    BY <1>6, <1>7 DEF RequestAt
  <1>9. Matching(y, heap)
    BY <1>3, <1>5 DEF Matching
  <1>10. \A g \in Heights : entries'[g] \in {Nothing, entries[g]}
    BY <1>3 DEF Drop, WaitInv, Waits, HeapOK
  <1> HIDE DEF x, h, v
  <1> QED BY <1>2, <1>3, <1>4, <1>5, <1>8, <1>9, <1>10, NewReportAnswers

(* A builder or a capture takes the evidence.                              *)
LEMMA CaptureAnswers ==
  ASSUME WaitInv, WaitInv', AnswerInv, NEW r \in Readers, Capture(r)
  PROVE  AnswerInv'
  <1> DEFINE x == reader[r]
             h == x.height
             pc == IF x.pc = "build" THEN "built" ELSE "captured"
  <1>1. PICK v : v = Version(h)
    OBVIOUS
  <1>2. PICK y : y = Put(Put([x EXCEPT !.pc = pc], "v", v), "e", FreeId)
    OBVIOUS
  <1>3. PICK hp : hp = Put(heap, FreeId, NewReport(h, v))
    OBVIOUS
  <1>4. /\ reader' = [reader EXCEPT ![r] = y] /\ x.pc \in {"build", "capture"}
        /\ UNCHANGED <<archiveVars, entries>> /\ Heap(hp)
    BY <1>1, <1>2, <1>3 DEF Capture, Go, At
  <1>5. DOMAIN x = Fields /\ h \in Heights
    BY <1>4, AtFields DEF Starting
  <1>6. PICK u : u = Put([x EXCEPT !.pc = pc], "v", v)
    OBVIOUS
  <1>7. DOMAIN u = Fields \cup {"v"} /\ u.height = h /\ u.v = v
    BY <1>5, <1>6 DEF Put, Fields
  <1>8. y.height = h /\ y.v = v /\ y.e = FreeId /\ "e" \in DOMAIN y
    <2>1. y = Put(u, "e", FreeId)
      BY <1>2, <1>6
    <2> QED BY <2>1, <1>7 DEF Put, Fields
  <1> HIDE DEF x, h, pc
  <1>9. y.height \in Heights /\ y.v = Version(y.height)
    BY <1>1, <1>5, <1>8
  <1>10. /\ Matching(y, heap) /\ Newest(Now, v, h) /\ Known(Now, v, h) /\ Catalogued(Now, v, v, h)
    BY <1>8, <1>9, VersionMatches
  <1>11. \A g \in Heights : entries'[g] \in {Nothing, entries[g]}
    BY <1>4
  <1> QED BY <1>3, <1>4, <1>5, <1>8, <1>10, <1>11, NewReportAnswers

(* A report that only differs in its flights and its size is as good.      *)
LEMMA ReportTouched ==
  ASSUME NEW a, NEW e, NEW o, ReportAt(a, e), o.height = e.height, Same(o, e), o.variants = e.variants
  PROVE  ReportAt(a, o)
  <1>1. Known(a, o, o.height)
    BY DEF ReportAt, Known, Same
  <1>2. ASSUME NEW k \in DOMAIN o.variants
        PROVE  /\ Same(o.variants[k], o) /\ o.variants[k].catalogue = k[2]
               /\ Catalogued(a, o.variants[k], o, o.height)
    <2>1. /\ Same(e.variants[k], e) /\ e.variants[k].catalogue = k[2]
          /\ Catalogued(a, e.variants[k], e, e.height)
      BY <1>2 DEF ReportAt
    <2> QED BY <2>1 DEF Same, Catalogued
  <1> QED BY <1>1, <1>2 DEF ReportAt

(* Only one report has changed, and says what it said.                     *)
LEMMA OneReport ==
  ASSUME AnswerInv, NEW j, NEW hp, DOMAIN hp = DOMAIN heap,
         \A i \in DOMAIN heap : i # j => hp[i] = heap[i],
         j \in DOMAIN heap => hp[j].height = heap[j].height /\ Same(hp[j], heap[j]) /\ ReportAt(Now, hp[j]),
         NEW hp2, \A i \in DOMAIN hp2 : i \in DOMAIN hp /\ hp2[i] = hp[i]
  PROVE  Grown(Now, heap, hp2)
  <1> SUFFICES ASSUME NEW i \in DOMAIN hp2
               PROVE  /\ ReportAt(Now, hp2[i]) /\ i \in DOMAIN heap
                      /\ hp2[i].height = heap[i].height /\ Same(hp2[i], heap[i])
    BY DEF Grown
  <1>1. hp2[i] = hp[i] /\ i \in DOMAIN heap /\ ReportAt(Now, heap[i])
    BY DEF AnswerInv, Answerable
  <1>2. CASE i = j
    BY <1>1, <1>2
  <1>3. CASE i # j
    <2>1. hp2[i] = heap[i]
      BY <1>1, <1>3
    <2> QED BY <1>1, <2>1 DEF Same
  <1> QED BY <1>2, <1>3

(* An encoding begins, or another is waited for.                           *)
LEMMA EncodeMissAnswers ==
  ASSUME WaitInv, WaitInv', AnswerInv, NEW r \in Readers, EncodeMiss(r)
  PROVE  AnswerInv'
  <1> DEFINE x == reader[r]
             k == KeyOf(x)
             pc == IF k \in heap[x.e].variantFlights THEN "variant_wait" ELSE "variant"
  <1>1. PICK y : y = [x EXCEPT !.pc = pc]
    OBVIOUS
  <1>2. /\ reader' = [reader EXCEPT ![r] = y] /\ x.pc = "encode" /\ UNCHANGED <<archiveVars, entries>>
        /\ heap' = [heap EXCEPT ![x.e].variantFlights = @ \cup {k}]
    BY <1>1 DEF EncodeMiss, Go, At
  <1>3. DOMAIN x = Fields \cup {"v", "e"} /\ x.e \in DOMAIN heap
    BY <1>2, AtFields DEF Bearing, Fields
  <1>4. /\ DOMAIN y = DOMAIN x /\ y.pc \in {"variant", "variant_wait"}
        /\ y.v = x.v /\ y.e = x.e /\ y.height = x.height
    BY <1>1, <1>3 DEF Fields
  <1>5. Carries(x, y)
    BY <1>2, <1>3, <1>4 DEF Carries, Versioned, Bearing, Settled, Choosing
  <1>6. Grown(Now, heap, heap')
    <2>1. PICK o : o = [heap[x.e] EXCEPT !.variantFlights = @ \cup {k}]
      OBVIOUS
    <2>2. /\ o.height = heap[x.e].height /\ Same(o, heap[x.e]) /\ o.variants = heap[x.e].variants
      BY <2>1 DEF Same
    <2>3. DOMAIN heap' = DOMAIN heap /\ heap'[x.e] = o /\ \A i \in DOMAIN heap : i # x.e => heap'[i] = heap[i]
      BY <1>2, <1>3, <2>1
    <2>4. ReportAt(Now, heap[x.e])
      BY <1>3 DEF AnswerInv, Answerable
    <2>5. ReportAt(Now, o)
      BY <2>2, <2>4, ReportTouched
    <2> QED BY <2>2, <2>3, <2>5, OneReport
  <1>7. \A q \in Readers : Carries(reader[q], reader'[q])
    <2> TAKE q \in Readers
    <2>1. CASE q = r
      <3>1. reader'[q] = y
        BY <1>2, <2>1 DEF WaitInv, Waits, ReadersOK
      <3> QED BY <2>1, <3>1, <1>5
    <2>2. CASE q # r
      <3>1. reader'[q] = reader[q]
        BY <1>2, <2>2 DEF WaitInv, Waits, ReadersOK
      <3> QED BY <3>1, CarriesItself
    <2> QED BY <2>1, <2>2
  <1>8. \A h \in Heights : entries'[h] \in {Nothing, entries[h]}
    BY <1>2
  <1> QED BY <1>2, <1>6, <1>7, <1>8, AnswerStays

(* Who waits for an encoding and is woken carries on.                      *)
LEMMA WokenCarries ==
  ASSUME WaitInv, NEW q \in Readers, NEW x
  PROVE  Carries(reader[q], WokenVariant(q, x))
  <1> DEFINE z == reader[q]
  <1>1. CASE WokenVariant(q, x) = z
    BY <1>1, CarriesItself
  <1>2. CASE WokenVariant(q, x) # z
    <2>1. z.pc = "variant_wait" /\ WokenVariant(q, x) = [z EXCEPT !.pc = "encode"]
      BY <1>2 DEF WokenVariant, At, Go
    <2>2. DOMAIN z = Fields \cup {"v", "e"}
      BY <2>1, AtFields DEF Bearing
    <2>3. PICK y : y = [z EXCEPT !.pc = "encode"]
      OBVIOUS
    <2>4. DOMAIN y = DOMAIN z /\ y.pc = "encode" /\ y.v = z.v /\ y.e = z.e /\ y.height = z.height
      BY <2>2, <2>3 DEF Fields
    <2>5. Carries(z, y)
      BY <2>1, <2>2, <2>4 DEF Carries, Versioned, Bearing, Settled, Choosing
    <2> QED BY <2>1, <2>3, <2>5
  <1> QED BY <1>1, <1>2

(* An encoder leaves, and its report is as good as it was.                 *)
LEMMA EncoderAnswers ==
  ASSUME WaitInv, WaitInv', AnswerInv, NEW r \in Readers, reader[r].pc \in Encoding, UNCHANGED archiveVars,
         reader' = [q \in Readers |-> IF q = r THEN Idle ELSE WokenVariant(q, reader[r])],
         NEW o, o.height = heap[reader[r].e].height, Same(o, heap[reader[r].e]), ReportAt(Now, o),
         NEW hp, hp = [heap EXCEPT ![reader[r].e] = o], Heap(hp),
         \A h \in Heights : entries'[h] \in {Nothing, entries[h]}
  PROVE  AnswerInv'
  <1> DEFINE x == reader[r]
  <1>1. DOMAIN x = Fields \cup {"v", "e"} /\ x.e \in DOMAIN heap
    BY AtFields DEF Bearing, Encoding, Fields
  <1>2. DOMAIN hp = DOMAIN heap /\ hp[x.e] = o /\ \A i \in DOMAIN heap : i # x.e => hp[i] = heap[i]
    BY <1>1
  <1>3. \A i \in DOMAIN heap' : i \in DOMAIN hp /\ heap'[i] = hp[i]
    BY HeapOld
  <1>4. Grown(Now, heap, heap')
    BY <1>2, <1>3, OneReport
  <1>5. \A q \in Readers : Carries(reader[q], reader'[q])
    <2> TAKE q \in Readers
    <2>1. CASE q = r
      <3>1. reader'[q] = Idle /\ "e" \notin DOMAIN Idle /\ Idle.pc = "idle"
        BY <2>1 DEF Idle
      <3> QED BY <3>1, CarriesNothing
    <2>2. CASE q # r
      <3>1. reader'[q] = WokenVariant(q, x)
        BY <2>2
      <3> QED BY <3>1, WokenCarries
    <2> QED BY <2>1, <2>2
  <1> QED BY <1>4, <1>5, AnswerStays

(* The report without the flight of a variant.                             *)
LEMMA NoFlightTouched ==
  ASSUME NEW a, NEW e, NEW k, NEW o, o = NoFlight(e, k)
  PROVE  o.height = e.height /\ Same(o, e) /\ o.variants = e.variants
  BY DEF NoFlight, Same

(* The client of an encoder goes away before it begins.                    *)
LEMMA CancelVariantAnswers ==
  ASSUME WaitInv, WaitInv', AnswerInv, NEW r \in Readers, CancelVariant(r)
  PROVE  AnswerInv'
  <1> DEFINE x == reader[r]
             e == heap[x.e]
  <1>1. PICK o : o = NoFlight(e, KeyOf(x))
    OBVIOUS
  <1>2. PICK hp : hp = [heap EXCEPT ![x.e] = o]
    OBVIOUS
  <1>3. /\ x.pc \in Encoding /\ UNCHANGED <<archiveVars, entries>> /\ Heap(hp)
        /\ reader' = [q \in Readers |-> IF q = r THEN Idle ELSE WokenVariant(q, x)]
    BY <1>1, <1>2 DEF CancelVariant, At, Encoding
  <1>4. x.e \in DOMAIN heap
    BY <1>3, AtFields DEF Bearing, Encoding, Fields
  <1>5. o.height = e.height /\ Same(o, e) /\ o.variants = e.variants
    BY <1>1, NoFlightTouched
  <1>6. ReportAt(Now, o)
    <2>1. ReportAt(Now, e)
      BY <1>4 DEF AnswerInv, Answerable
    <2> QED BY <1>5, <2>1, ReportTouched
  <1>7. \A h \in Heights : entries'[h] \in {Nothing, entries[h]}
    BY <1>3
  <1> HIDE DEF x, e
  <1>8. reader[r] = x /\ heap[reader[r].e] = e
    BY DEF x, e
  <1> QED BY <1>2, <1>3, <1>5, <1>6, <1>7, <1>8, EncoderAnswers

(* A new variant says what its report says.                                *)
LEMMA WithVariantReport ==
  ASSUME NEW a, NEW e, ReportAt(a, e), NEW v, Known(a, v, e.height), Catalogued(a, v, v, e.height),
         e.seal = v.seal, e.found => v.found,
         NEW k, k[2] = v.catalogue, NEW o, o = NoFlight(WithVariant(e, k, Body(e, v)), k)
  PROVE  o.height = e.height /\ Same(o, e) /\ ReportAt(a, o)
  <1>1. PICK b : b = Body(e, v)
    OBVIOUS
  <1>2. /\ Same(b, e) /\ b.catalogue = v.catalogue /\ b.status = v.status /\ b.retained = v.retained
    BY <1>1 DEF Body, Same
  <1>3. o.height = e.height /\ Same(o, e)
    BY DEF NoFlight, WithVariant, Same
  <1>4. \A j \in DOMAIN o.variants :
           \/ o.variants[j] = b /\ j = k
           \/ j \in DOMAIN e.variants /\ o.variants[j] = e.variants[j]
    <2> DEFINE kept == IF Cardinality(DOMAIN e.variants) >= MaxVariants THEN {} ELSE DOMAIN e.variants
    <2>1. o.variants = [j \in kept \cup {k} |-> IF j = k THEN b ELSE e.variants[j]]
      <3>1. o.variants = WithVariant(e, k, b).variants
        BY <1>1 DEF NoFlight
      <3> QED BY <3>1 DEF WithVariant
    <2>2. kept \subseteq DOMAIN e.variants
      OBVIOUS
    <2> HIDE DEF kept
    <2> QED BY <2>1, <2>2
  <1>5. Known(a, o, o.height) /\ o.height \in Heights
    BY <1>3 DEF ReportAt, Known, Same
  <1>6. Catalogued(a, b, o, o.height)
    BY <1>2, <1>3 DEF Catalogued, Same
  <1>7. ASSUME NEW j \in DOMAIN o.variants
        PROVE  /\ Same(o.variants[j], o) /\ o.variants[j].catalogue = j[2]
               /\ Catalogued(a, o.variants[j], o, o.height)
    <2>1. CASE o.variants[j] = b /\ j = k
      BY <2>1, <1>2, <1>3, <1>6 DEF Same
    <2>2. CASE j \in DOMAIN e.variants /\ o.variants[j] = e.variants[j]
      <3>1. /\ Same(e.variants[j], e) /\ e.variants[j].catalogue = j[2]
            /\ Catalogued(a, e.variants[j], e, e.height)
        BY <2>2 DEF ReportAt
      <3>2. Catalogued(a, e.variants[j], o, o.height)
        BY <1>3, <3>1 DEF Catalogued, Same
      <3> QED BY <2>2, <1>3, <3>1, <3>2 DEF Same
    <2> QED BY <1>4, <2>1, <2>2
  <1> QED BY <1>3, <1>5, <1>7 DEF ReportAt

(* What a request about to answer knows.                                   *)
LEMMA SettledRequest ==
  ASSUME WaitInv, AnswerInv, NEW r \in Readers, reader[r].pc \in Settled
  PROVE  LET x == reader[r]
             e == heap[x.e]
         IN  /\ "e" \in DOMAIN x /\ x.e \in DOMAIN heap /\ x.height \in Heights
             /\ ReportAt(Now, e) /\ e.height = x.height
             /\ Known(Now, x.v, x.height) /\ Catalogued(Now, x.v, x.v, x.height)
             /\ e.seal = x.v.seal /\ e.lost = x.v.lost /\ (e.found => x.v.found)
  <1> DEFINE x == reader[r]
  <1>1. x.pc \in Versioned /\ x.pc \in Bearing /\ x.pc # "idle"
    BY DEF Settled, Choosing, Versioned, Bearing
  <1>2. "e" \in DOMAIN x /\ x.e \in DOMAIN heap /\ x.height \in Heights
    BY <1>1, AtFields DEF Fields
  <1>3. RequestAt(Now, x, heap) /\ ReportAt(Now, heap[x.e])
    BY <1>2 DEF AnswerInv, Answerable
  <1> QED BY <1>1, <1>2, <1>3 DEF RequestAt

(* An encoder finishes.                                                    *)
LEMMA StoreVariantAnswers ==
  ASSUME WaitInv, WaitInv', AnswerInv, NEW r \in Readers, StoreVariant(r)
  PROVE  AnswerInv'
  <1> DEFINE x == reader[r]
             e == heap[x.e]
             k == KeyOf(x)
             added == WithVariant(e, k, Body(e, x.v))
             full == NoFlight(added, k)
             bare == NoFlight(e, k)
             hpf == [heap EXCEPT ![x.e] = full]
             hpb == [heap EXCEPT ![x.e] = bare]
  <1>1. /\ x.pc = "encoded" /\ UNCHANGED archiveVars
        /\ reader' = [q \in Readers |-> IF q = r THEN Idle ELSE WokenVariant(q, x)]
    BY DEF StoreVariant, At
  <1>2. \/ Heap(hpb) /\ entries' = entries
        \/ Heap(hpf) /\ \E total : \E left \in Trims(entries, hpf, total) : entries' = left.entries
    BY DEF StoreVariant
  <1>3. /\ x.e \in DOMAIN heap /\ ReportAt(Now, e) /\ e.height = x.height
        /\ Known(Now, x.v, x.height) /\ Catalogued(Now, x.v, x.v, x.height)
        /\ e.seal = x.v.seal /\ (e.found => x.v.found)
    BY <1>1, SettledRequest DEF Settled, Choosing
  <1>4. k[2] = x.v.catalogue
    BY DEF KeyOf
  <1>5. x.pc \in Encoding
    BY <1>1 DEF Encoding
  <1>6. CASE Heap(hpb) /\ entries' = entries
    <2>1. PICK o : o = bare
      OBVIOUS
    <2>2. o.height = e.height /\ Same(o, e) /\ o.variants = e.variants
      BY <2>1, NoFlightTouched
    <2>3. ReportAt(Now, o)
      BY <1>3, <2>2, ReportTouched
    <2>4. Heap([heap EXCEPT ![x.e] = o])
      BY <1>6, <2>1
    <2>5. \A h \in Heights : entries'[h] \in {Nothing, entries[h]}
      BY <1>6
    <2> QED BY <1>1, <1>5, <2>2, <2>3, <2>4, <2>5, EncoderAnswers
  <1>7. CASE Heap(hpf) /\ \E total : \E left \in Trims(entries, hpf, total) : entries' = left.entries
    <2>1. PICK o : o = full
      OBVIOUS
    <2>2. o.height = e.height /\ Same(o, e) /\ ReportAt(Now, o)
      BY <1>3, <1>4, <2>1, WithVariantReport
    <2>3. Heap([heap EXCEPT ![x.e] = o])
      BY <1>7, <2>1
    <2>4. \A h \in Heights : entries'[h] \in {Nothing, entries[h]}
      <3> HIDE DEF hpf
      <3>1. PICK total : \E left \in Trims(entries, hpf, total) : entries' = left.entries
        BY <1>7
      <3>2. PICK left \in Trims(entries, hpf, total) : entries' = left.entries
        BY <3>1
      <3>3. \A h \in Heights : left.entries[h] \in {entries[h], Nothing}
        BY TrimsEntries
      <3> QED BY <3>2, <3>3
    <2> QED BY <1>1, <1>5, <2>2, <2>3, <2>4, EncoderAnswers
  <1> QED BY <1>2, <1>6, <1>7

(* The builder that goes on has a report of the version's commit.          *)
LEMMA PublishedReader ==
  ASSUME WaitInv, AnswerInv, NEW r \in Readers, reader[r].pc = "publish",
         NEW y \in AfterBuild(reader[r]), NEW hp2, \A i \in DOMAIN hp2 : i \in DOMAIN heap /\ hp2[i] = heap[i],
         "e" \in DOMAIN y => y.e \in DOMAIN hp2
  PROVE  Carries(reader[r], y) \/ (RequestAt(Now, y, hp2) /\ Matching(y, hp2))
  <1> DEFINE x == reader[r]
             again == [Asked(x) EXCEPT !.pc = "version"]
             on == [x EXCEPT !.pc = "encode"]
             e == heap[x.e]
  <1>1. \/ y = Idle \/ y = again
        \/ /\ y = on /\ Built(x) /\ x.v.found
           /\ e.evidence = x.v.evidence \/ (e.seal = x.v.seal /\ e.lost = x.v.lost)
    BY DEF AfterBuild, CanCoalesce
  <1>2. CASE y = Idle
    <2>1. "e" \notin DOMAIN y /\ y.pc = "idle"
      BY <1>2 DEF Idle
    <2> QED BY <2>1, CarriesNothing
  <1>3. CASE y = again
    <2>1. "e" \notin DOMAIN y /\ y.pc = "version"
      BY <1>3 DEF Asked
    <2> QED BY <2>1, CarriesNothing DEF Starting
  <1>4. CASE /\ y = on /\ Built(x) /\ x.v.found
             /\ e.evidence = x.v.evidence \/ (e.seal = x.v.seal /\ e.lost = x.v.lost)
    <2>1. DOMAIN x = Fields \cup {"v", "e"} /\ x.e \in DOMAIN heap /\ x.height \in Heights
      BY <1>4, AtFields DEF Built, Fields
    <2>2. DOMAIN y = DOMAIN x /\ y.pc = "encode" /\ y.v = x.v /\ y.e = x.e /\ y.height = x.height
      BY <1>4, <2>1 DEF Fields
    <2>3. RequestAt(Now, x, heap) /\ Matching(x, heap) /\ x.pc \in Versioned
      BY DEF AnswerInv, Answerable, Versioned
    <2>4. /\ Known(Now, x.v, x.height) /\ Catalogued(Now, x.v, x.v, x.height) /\ e.height = x.height
      BY <2>1, <2>3 DEF RequestAt
    <2>5. Known(Now, e, x.height)
      BY <2>1, <2>4 DEF AnswerInv, Answerable, ReportAt
    <2>6. e.seal = x.v.seal /\ e.lost = x.v.lost
      <3>1. CASE e.evidence = x.v.evidence
        <4>1. e.found
          BY <1>4, <2>4, <2>5, <3>1 DEF Known
        <4> QED BY <1>4, <2>1, <2>3, <2>4, <3>1, <4>1 DEF Matching
      <3> QED BY <1>4, <3>1
    <2>7. y.e \in DOMAIN hp2 /\ hp2[y.e] = e
      BY <2>1, <2>2 DEF Fields
    <2>8. RequestAt(Now, y, hp2)
      BY <1>4, <2>2, <2>4, <2>6, <2>7 DEF RequestAt
    <2>9. Matching(y, hp2)
      BY <2>2, <2>3 DEF Matching
    <2> QED BY <2>8, <2>9
  <1> QED BY <1>1, <1>2, <1>3, <1>4

(* The end of a flight.                                                    *)
LEMMA PublishAnswers ==
  ASSUME WaitInv, WaitInv', AnswerInv, NEW r \in Readers, Publish(r)
  PROVE  AnswerInv'
  <1> DEFINE x == reader[r]
  <1>1. PICK y \in AfterBuild(x) :
          reader' = [q \in Readers |-> IF q = r THEN y ELSE Woken(q, x.height)]
    BY DEF Publish
  <1>2. /\ x.pc = "publish" /\ PublishEntry(x) /\ Heap(heap) /\ UNCHANGED archiveVars
    BY DEF Publish, At
  <1>3. \A i \in DOMAIN heap' : i \in DOMAIN heap /\ heap'[i] = heap[i]
    BY <1>2, HeapOld
  <1>4. reader'[r] = y /\ \A q \in Readers : q # r => reader'[q] = Woken(q, x.height)
    BY <1>1
  <1>5. "e" \in DOMAIN y => y.e \in DOMAIN heap'
    BY <1>4 DEF WaitInv, Waits, HeapOK
  <1>6. \A q \in Readers : \/ Carries(reader[q], reader'[q])
                           \/ RequestAt(Now, reader'[q], heap') /\ Matching(reader'[q], heap')
    <2> TAKE q \in Readers
    <2>1. CASE q = r
      <3>1. Carries(x, y) \/ (RequestAt(Now, y, heap') /\ Matching(y, heap'))
        BY <1>2, <1>3, <1>5, PublishedReader
      <3> QED BY <2>1, <3>1, <1>4
    <2>2. CASE q # r
      <3>1. CASE reader'[q] = reader[q]
        BY <3>1, CarriesItself
      <3>2. CASE reader'[q] # reader[q]
        <4>1. reader'[q] = [Asked(reader[q]) EXCEPT !.pc = "version"]
          BY <2>2, <3>2, <1>4 DEF Woken
        <4>2. "e" \notin DOMAIN reader'[q] /\ reader'[q].pc = "version"
          BY <4>1 DEF Asked
        <4> QED BY <4>2, CarriesNothing DEF Starting
      <3> QED BY <3>1, <3>2
    <2> QED BY <2>1, <2>2
  <1>7. \A h \in Heights : entries'[h] \in {Nothing, entries[h]} \/ EntryAt(heap, h, entries'[h])
    <2> TAKE h \in Heights
    <2>1. \/ entries'[h] \in {entries[h], Nothing}
          \/ /\ h = x.height /\ entries'[h] = x.e /\ Built(x) /\ x.v.found /\ heap[x.e].found
      BY <1>2, PublishEntries
    <2>2. CASE h = x.height /\ entries'[h] = x.e /\ Built(x) /\ heap[x.e].found
      <3>1. x.e \in DOMAIN heap /\ RequestAt(Now, x, heap)
        BY <2>2, AtFields DEF Built, AnswerInv, Answerable
      <3> QED BY <2>2, <3>1 DEF EntryAt, RequestAt, Built
    <2> QED BY <2>1, <2>2
  <1>8. Grown(Now, heap, heap')
    BY <1>3, OldReports
  <1> QED BY <1>2, <1>6, <1>7, <1>8, AnswerStays

(* The tracker moves on; what was read of it stays true.                   *)
LEMMA TrackerAnswers ==
  ASSUME WaitInv, AnswerInv, TrackerStep
  PROVE  AnswerInv'
  <1>1. ArchiveOK(Now) /\ ArchiveOK(Now') /\ Moved(Now, Now') /\ UNCHANGED <<reader, heap, entries>>
    <2>1. ArchiveNext /\ UNCHANGED <<reader, heap, entries>> /\ ArchiveOK(Now)
      BY DEF TrackerStep, AnswerInv
    <2> QED BY <2>1, ArchiveMoves
  <1>2. ASSUME NEW i \in DOMAIN heap PROVE ReportAt(Now', heap[i])
    <2> DEFINE e == heap[i]
    <2>1. ReportAt(Now, e)
      BY DEF AnswerInv, Answerable
    <2>2. e.height \in Heights /\ Known(Now, e, e.height)
      BY <2>1 DEF ReportAt
    <2>3. Known(Now', e, e.height)
      BY <1>1, <2>2, KnownLater
    <2>4. ASSUME NEW k \in DOMAIN e.variants PROVE Catalogued(Now', e.variants[k], e, e.height)
      <3>1. Catalogued(Now, e.variants[k], e, e.height)
        BY <2>1, <2>4 DEF ReportAt
      <3> QED BY <1>1, <2>2, <3>1, CataloguedLater
    <2> QED BY <2>1, <2>3, <2>4 DEF ReportAt
  <1>3. ASSUME NEW r \in Readers PROVE RequestAt(Now', reader[r], heap)
    <2> DEFINE x == reader[r]
    <2>1. RequestAt(Now, x, heap)
      BY DEF AnswerInv, Answerable
    <2>2. ASSUME x.pc \in Versioned
          PROVE  Known(Now', x.v, x.height) /\ Catalogued(Now', x.v, x.v, x.height)
      <3>1. x.height \in Heights
        BY <2>2, AtFields DEF Versioned, Bearing
      <3>2. Known(Now, x.v, x.height) /\ Catalogued(Now, x.v, x.v, x.height)
        BY <2>1, <2>2 DEF RequestAt
      <3> QED BY <1>1, <3>1, <3>2, KnownLater, CataloguedLater
    <2> QED BY <2>1, <2>2 DEF RequestAt
  <1> QED BY <1>1, <1>2, <1>3 DEF AnswerInv, Answerable

(* The cache starts empty, and so does the archive.                        *)
LEMMA InitialAnswers == Init => AnswerInv
  <1> SUFFICES ASSUME Init PROVE AnswerInv
    OBVIOUS
  <1>1. DOMAIN archive = {} /\ archiveLatest = 0 /\ evictedThrough = 0 /\ committedHeight = 0 /\ catalogue = 0
    BY DEF Init, ArchiveInit
  <1>2. ArchiveOK(Now)
    <2>1. archive \in [{} -> Blocks]
      BY DEF Init, ArchiveInit
    <2>2. Cardinality({}) = 0 /\ HistorySize \in Nat
      BY FS_EmptySet, ArchiveAssumption
    <2>3. HeldIn(Now) = {} /\ Cardinality(HeldIn(Now)) <= HistorySize
      BY <1>1, <2>2, NowIs
    <2> QED BY <1>1, <2>1, <2>3, NowIs DEF ArchiveOK
  <1>3. DOMAIN heap = {} /\ \A h \in Heights : entries[h] = Nothing
    BY DEF Init
  <1>4. ASSUME NEW r \in Readers PROVE RequestAt(Now, reader[r], heap) /\ Matching(reader[r], heap)
    <2>1. reader[r].pc = "idle" /\ "e" \notin DOMAIN reader[r]
      BY DEF Init, Idle
    <2> QED BY <2>1 DEF RequestAt, Matching, Versioned, Bearing, Settled, Choosing
  <1> QED BY <1>2, <1>3, <1>4 DEF AnswerInv, Answerable, EntryAt

(* Every step keeps what can be answered.                                  *)
LEMMA AnswerInvInductive == WaitInv /\ WaitInv' /\ AnswerInv /\ [Next]_vars => AnswerInv'
  <1> SUFFICES ASSUME WaitInv, WaitInv', AnswerInv, [Next]_vars PROVE AnswerInv'
    OBVIOUS
  <1>1. CASE Arrive
    <2>1. PICK q \in Requests : Request(q[1], q[2], q[3])
      BY <1>1 DEF Arrive
    <2>2. q[1] \in Readers /\ q[2] \in Heights /\ q[3] \in Views
      BY CacheAssumption
    <2> QED BY <2>1, <2>2, RequestAnswers
  <1>2. ASSUME NEW r \in Readers, Proceed(r)
        PROVE  AnswerInv'
    <2>1. CASE FinishCapture(r) \/ EncodeHit(r) \/ CancelWaiting(r)
      <3>1. /\ UNCHANGED <<archiveVars, entries>> /\ Heap(heap)
            /\ reader' = [reader EXCEPT ![r] = Idle]
        BY <2>1 DEF FinishCapture, EncodeHit, CancelWaiting
      <3> QED BY <3>1, EndAnswers
    <2> QED BY <1>2, <2>1, ReadVersionAnswers, LookupAbsentAnswers, LookupHitAnswers, LookupMissAnswers,
               CaptureAnswers, ReadLatestAnswers, PublishAnswers, EncodeMissAnswers, SlotAnswers,
               StoreVariantAnswers, CancelVariantAnswers DEF Proceed
  <1>3. CASE TrackerStep
    BY <1>3, TrackerAnswers
  <1>4. CASE UNCHANGED vars
    <2>1. UNCHANGED <<archiveVars, reader, heap, entries>>
      BY <1>4 DEF vars, cacheVars
    <2>2. Now' = Now
      BY <2>1 DEF Now, archiveVars
    <2> QED BY <2>1, <2>2 DEF AnswerInv
  <1> QED BY <1>1, <1>2, <1>3, <1>4 DEF Next

(* So it always holds.                                                     *)
LEMMA AlwaysAnswerable == Spec => [](WaitInv /\ AnswerInv)
  BY InitialWaits, WaitInvInductive, InitialAnswers, AnswerInvInductive, PTL DEF Spec

-----------------------------------------------------------------------------
(* What is answered *)

(* An answer that carries the current revision is the current report.      *)
LEMMA FinishIdentifies ==
  ASSUME AnswerInv, UNCHANGED archiveVars, NEW r \in Readers, reader[r].height \in Heights,
         NEW e, Known(Now, e, reader[r].height),
         NEW body, Finish(r, body), Same(body, e), Catalogued(Now, body, e, reader[r].height)
  PROVE  RevisionIdentifies'
  <1>1. CASE r \notin Watched
    BY <1>1 DEF Finish, Unanswered, RevisionIdentifies
  <1>2. CASE r \in Watched
    <2>1. PICK h : h = reader[r].height
      OBVIOUS
    <2>2. PICK a : a = answer'
      OBVIOUS
    <2>3. /\ a.height = h /\ Same(a, body) /\ a.catalogue = body.catalogue
          /\ a.status = body.status /\ a.retained = body.retained
      BY <1>2, <2>1, <2>2 DEF Finish, Same
    <2>4. PICK v : v = Version(h)
      OBVIOUS
    <2>5. Version(h)' = v
      BY <2>4 DEF Version, Held, Status, archiveVars
    <2>6. /\ Newest(Now, v, h) /\ v.catalogue = Now.catalogue
          /\ v.retained = HeldIn(Now) /\ v.status = StatusFor(Now, h, v.seal)
      BY <2>1, <2>4, VersionIs DEF AnswerInv
    <2>7. Known(Now, v, h) /\ (v.found <=> h \in HeldIn(Now)) /\ ArchiveOK(Now) /\ h \in Heights
      BY <2>1, <2>6 DEF Newest, AnswerInv
    <2>8. Known(Now, e, h) /\ Same(a, e) /\ Catalogued(Now, body, e, h)
      BY <2>1, <2>3 DEF Same
    <2>9. SUFFICES ASSUME a.evidence = v.evidence, a.catalogue = v.catalogue
                   PROVE  /\ a.found = v.found /\ a.seal = v.seal /\ a.lost = v.lost
                          /\ a.status = v.status /\ a.retained = v.retained
      <3>1. Version(a.height)' = v
        BY <2>3, <2>5
      <3> QED BY <2>2, <2>9, <3>1 DEF RevisionIdentifies
    <2>10. e.evidence = v.evidence
      BY <2>8, <2>9 DEF Same
    <2>11. e.found <=> v.found
      BY <2>7, <2>8, <2>10 DEF Known
    <2>12. e.found = v.found
      BY <2>7, <2>8, <2>11 DEF Known
    <2>13. e.seal = v.seal /\ e.lost = v.lost
      <3>1. CASE v.found
        BY <2>6, <2>7, <2>8, <2>10, <2>11, <3>1, NewestMatches
      <3>2. CASE ~v.found
        BY <2>7, <2>8, <2>11, <3>2 DEF Known
      <3> QED BY <3>1, <3>2
    <2>14. body.retained = HeldIn(Now) /\ body.status = StatusFor(Now, h, e.seal)
      BY <2>3, <2>6, <2>8, <2>9 DEF Catalogued
    <2> QED BY <2>3, <2>6, <2>8, <2>12, <2>13, <2>14 DEF Same
  <1> QED BY <1>1, <1>2

(* The body made of a report and a version shows the report and the        *)
(* catalogue of the version.                                               *)
LEMMA BodyShows ==
  ASSUME NEW a, NEW h, NEW e, NEW v, Catalogued(a, v, v, h), e.seal = v.seal, e.found => v.found
  PROVE  Same(Body(e, v), e) /\ Catalogued(a, Body(e, v), e, h)
  <1>1. PICK b : b = Body(e, v)
    OBVIOUS
  <1>2. Same(b, e) /\ b.catalogue = v.catalogue /\ b.status = v.status /\ b.retained = v.retained
    BY <1>1 DEF Body, Same
  <1> QED BY <1>1, <1>2 DEF Catalogued

(* Who ends with an answer: its body shows a report of the cache.          *)
LEMMA Answered ==
  ASSUME WaitInv, AnswerInv, NEW r \in Readers, FinishCapture(r) \/ EncodeHit(r) \/ StoreVariant(r)
  PROVE  \E body :
           LET e == heap[reader[r].e]
           IN  /\ Finish(r, body) /\ Same(body, e)
               /\ Catalogued(Now, body, e, reader[r].height) /\ body.catalogue = reader[r].v.catalogue
  <1> DEFINE x == reader[r]
             e == heap[x.e]
  <1>1. x.pc \in Settled
    BY DEF FinishCapture, EncodeHit, StoreVariant, At, Settled, Choosing
  <1>2. /\ ReportAt(Now, e) /\ e.height = x.height /\ Catalogued(Now, x.v, x.v, x.height)
        /\ e.seal = x.v.seal /\ (e.found => x.v.found)
    BY <1>1, SettledRequest
  <1>3. CASE FinishCapture(r) \/ StoreVariant(r)
    <2>1. PICK body : body = Body(e, x.v)
      BY SMTT(30)
    <2>2. Finish(r, body)
      BY <1>3, <2>1 DEF FinishCapture, StoreVariant
    <2>3. Same(body, e) /\ Catalogued(Now, body, e, x.height)
      BY <1>2, <2>1, BodyShows
    <2>4. body.catalogue = x.v.catalogue
      BY <2>1 DEF Body
    <2> QED BY <2>2, <2>3, <2>4
  <1>4. CASE EncodeHit(r)
    <2>1. PICK body : body = e.variants[KeyOf(x)]
      OBVIOUS
    <2>2. Finish(r, body) /\ KeyOf(x) \in DOMAIN e.variants
      BY <1>4, <2>1 DEF EncodeHit
    <2>3. Same(body, e) /\ Catalogued(Now, body, e, x.height) /\ body.catalogue = KeyOf(x)[2]
      BY <1>2, <2>1, <2>2 DEF ReportAt
    <2> QED BY <2>2, <2>3 DEF KeyOf
  <1> QED BY <1>3, <1>4

(* A revision, and the ETag that stands for it, identifies the answer it   *)
(* goes with: one that carries the current revision is the current report, *)
(* whether it was built for the request, coalesced, or encoded for another *)
(* version of the same report.                                             *)
THEOREM RevisionsIdentify == Spec => []RevisionIdentifies
  <1>1. Init => RevisionIdentifies
    BY DEF Init, RevisionIdentifies
  <1>2. WaitInv /\ AnswerInv /\ RevisionIdentifies /\ [Next]_vars => RevisionIdentifies'
    <2> SUFFICES ASSUME WaitInv, AnswerInv, RevisionIdentifies, [Next]_vars PROVE RevisionIdentifies'
      OBVIOUS
    <2>1. ASSUME NEW r \in Readers, FinishCapture(r) \/ EncodeHit(r) \/ StoreVariant(r)
          PROVE  RevisionIdentifies'
      <3>1. PICK body : /\ Finish(r, body) /\ Same(body, heap[reader[r].e])
                        /\ Catalogued(Now, body, heap[reader[r].e], reader[r].height)
        BY <2>1, Answered
      <3>2. reader[r].pc \in Settled /\ UNCHANGED archiveVars
        BY <2>1 DEF FinishCapture, EncodeHit, StoreVariant, At, Settled, Choosing
      <3>3. /\ reader[r].height \in Heights /\ Known(Now, heap[reader[r].e], reader[r].height)
        BY <3>2, SettledRequest DEF ReportAt
      <3> QED BY <3>1, <3>2, <3>3, FinishIdentifies
    <2>2. ASSUME answer' = Nothing PROVE RevisionIdentifies'
      BY <2>2 DEF RevisionIdentifies
    <2>3. CASE UNCHANGED vars
      <3>1. answer' = answer /\ UNCHANGED archiveVars
        BY <2>3 DEF vars, cacheVars
      <3>2. Version(answer.height)' = Version(answer.height)
        BY <3>1 DEF Version, Held, Status, archiveVars
      <3> QED BY <3>1, <3>2 DEF RevisionIdentifies
    <2>4. CASE Next
      <3>1. \/ answer' = Nothing
            \/ \E r \in Readers : FinishCapture(r) \/ EncodeHit(r) \/ StoreVariant(r)
        BY <2>4 DEF Next, Arrive, Request, Proceed, ReadVersion, LookupAbsent, LookupHit, LookupMiss, Capture,
                    ReadLatest, Publish, EncodeMiss, TakeSlot, CancelWaiting, CancelBuild, CancelVariant,
                    TrackerStep, Unanswered
      <3> QED BY SMTT(30), <3>1, <2>1, <2>2
    <2> QED BY <2>3, <2>4
  <1> QED BY <1>1, <1>2, AlwaysAnswerable, PTL DEF Spec

-----------------------------------------------------------------------------
(* The inductive invariant, part three: no answer is older than what its   *)
(* reader knows                                                            *)

Building(x) == x.pc \in {"built", "publish"} /\ "e" \in DOMAIN x

(* Neither the version nor the report of a request is older than it.       *)
FloorAt(a, x, hp) ==
  /\ x.pc \in {"capture", "captured"} => x.view = "capture"
  /\ x.pc # "idle" => Floored(a, x.floor, x.height) /\ (x.view = "compact" => x.floor.evidence = 0)
  /\ x.pc \in Versioned =>
       /\ x.floor.catalogue <= x.v.catalogue
       /\ x.v.found =>
            x.floor.evidence <= x.v.evidence /\ x.floor.seal <= x.v.seal /\ x.floor.lost <= x.v.lost
       /\ ~x.v.found /\ x.floor.found => x.height \notin HeldIn(a)
  /\ "e" \in DOMAIN x =>
       /\ hp[x.e].found => x.floor.evidence <= hp[x.e].evidence
       /\ ~hp[x.e].found /\ x.floor.found => x.height \notin HeldIn(a)

(* A report that is being built is the builder's alone.                    *)
PrivateAt(q, rd, hp, en) ==
  Building(rd[q]) =>
    /\ hp[rd[q].e].size = ReportSize
    /\ \A g \in Heights : en[g] # rd[q].e
    /\ \A r \in Readers : r # q => ~Holds(rd[r], rd[q].e)

(* n is no more than what is known of h now.                               *)
Within(a, n, h) ==
  /\ n \in Nat
  /\ n > 0 /\ h \notin HeldIn(a) => h > 0 /\ h <= a.evicted
  /\ h \in HeldIn(a) => n <= a.archive[h].evidence

(* n is no more than the evidence of what is being built for h, nor than   *)
(* that of the entry of h.                                                 *)
Below(rd, hp, n, h) ==
  \A q \in Readers :
    Building(rd[q]) /\ rd[q].height = h /\ hp[rd[q].e].found => n <= hp[rd[q].e].evidence
AtMost(rd, hp, en, n, h) ==
  Below(rd, hp, n, h) /\ (en[h] # Nothing => n <= hp[en[h]].evidence)

(* The entry is no newer than what is built, and what a reader has chosen  *)
(* no newer than either.                                                   *)
EntryBelow(h, rd, hp, en) ==
  en[h] # Nothing => ReportSize <= CacheBytes /\ Below(rd, hp, hp[en[h]].evidence, h)
ChosenBelow(r, rd, hp, en) ==
  rd[r].pc \in Choosing /\ hp[rd[r].e].found =>
    AtMost(rd, hp, en, hp[rd[r].e].evidence, rd[r].height)

(* What reader r was shown of h is no newer than anything it may yet be.   *)
ShownAt(a, n, r, h, rd, hp, en) ==
  /\ Within(a, n, h) /\ AtMost(rd, hp, en, n, h)
  /\ rd[r].pc \in Choosing /\ rd[r].height = h /\ hp[rd[r].e].found => n <= hp[rd[r].e].evidence

Rising(a, rd, hp, en, sh) ==
  /\ \A q \in Readers : PrivateAt(q, rd, hp, en)
  /\ \A h \in Heights : EntryBelow(h, rd, hp, en)
  /\ \A r \in Readers : ChosenBelow(r, rd, hp, en)
  /\ \A r \in Watched, h \in Heights : ShownAt(a, sh[r][h], r, h, rd, hp, en)

ServiceInv ==
  /\ \A r \in Watched : FloorAt(Now, reader[r], heap)
  /\ shown \in [Watched -> [Heights -> Nat]]
  /\ Rising(Now, reader, heap, entries, shown)

-----------------------------------------------------------------------------
(* What keeps reports rising *)

(* The report of y is the one that x had, for the same purpose.            *)
Drift(x, y) ==
  /\ "e" \in DOMAIN y => "e" \in DOMAIN x /\ y.e = x.e /\ y.height = x.height
  /\ Building(y) => Building(x)
  /\ y.pc \in Choosing => x.pc \in Choosing /\ "e" \in DOMAIN y

NoneBuilding(rd, h) == \A q \in Readers : Building(rd[q]) => rd[q].height # h

(* Entries are left, go, or are what has been built for their height.      *)
EntryMoves(h, rd, hp, en, rd2, en2) ==
  \/ en2[h] \in {Nothing, en[h]}
  \/ /\ NoneBuilding(rd2, h)
     /\ \E q \in Readers : /\ Building(rd[q]) /\ rd[q].height = h /\ en2[h] = rd[q].e
                           /\ hp[rd[q].e].found /\ hp[rd[q].e].size <= CacheBytes

(* Builders go on, or have a new report that is theirs.                    *)
BuilderMoves(q, rd, hp, rd2, hp2) ==
  Building(rd2[q]) =>
    \/ /\ Building(rd[q]) /\ rd2[q].e = rd[q].e /\ rd2[q].height = rd[q].height
       /\ hp2[rd2[q].e].size = hp[rd2[q].e].size
    \/ /\ rd2[q].e \notin DOMAIN hp /\ hp2[rd2[q].e].size = ReportSize
       /\ \A r \in Readers : r # q => ~Holds(rd2[r], rd2[q].e)

(* Who has chosen a report goes on, or has the entry, or what it has built *)
(* as long as nobody can have a newer one.                                 *)
ChoiceMoves(r, rd, en, rd2, en2) ==
  rd2[r].pc \in Choosing =>
    LET i == rd2[r].e  h == rd2[r].height IN
    \/ rd[r].pc \in Choosing /\ rd[r].e = i /\ rd[r].height = h
    \/ i = en[h] /\ en2[h] \in {Nothing, en[h]}
    \/ /\ Building(rd[r]) /\ rd[r].e = i /\ rd[r].height = h
       /\ en2[h] \in {Nothing, i} /\ NoneBuilding(rd2, h)

(* What is known of a height bounds the evidence of its reports.           *)
LEMMA KnownWithin ==
  ASSUME NEW a, ArchiveOK(a), NEW h \in Heights, NEW p, Known(a, p, h)
  PROVE  Within(a, p.evidence, h)
  <1>1. \A g \in HeldIn(a) : a.archive[g].evidence \in Nat
    BY DEF ArchiveOK, Blocks
  <1> QED BY <1>1 DEF Known, Within

(* A bound on what is built stays one.                                     *)
LEMMA BelowStays ==
  ASSUME NEW a, NEW rd, NEW hp, NEW rd2, NEW hp2, NEW h \in Heights, NEW n,
         Grown(a, hp, hp2), Within(a, n, h), Below(rd, hp, n, h),
         \A q \in Readers : BuilderMoves(q, rd, hp, rd2, hp2),
         \A q \in Readers : Building(rd[q]) => rd[q].e \in DOMAIN hp,
         \A q \in Readers : Building(rd2[q]) =>
                              rd2[q].e \in DOMAIN hp2 /\ hp2[rd2[q].e].height = rd2[q].height
  PROVE  Below(rd2, hp2, n, h)
  <1> SUFFICES ASSUME NEW q \in Readers, Building(rd2[q]), rd2[q].height = h, hp2[rd2[q].e].found
               PROVE  n <= hp2[rd2[q].e].evidence
    BY DEF Below
  <1>1. CASE Building(rd[q]) /\ rd2[q].e = rd[q].e /\ rd2[q].height = rd[q].height
    <2>1. Same(hp2[rd2[q].e], hp[rd[q].e])
      BY <1>1 DEF Grown
    <2> QED BY <1>1, <2>1 DEF Same, Below
  <1>2. CASE rd2[q].e \notin DOMAIN hp
    <2>1. Newest(a, hp2[rd2[q].e], h)
      BY <1>2 DEF Grown
    <2> QED BY <2>1 DEF Newest, Within
  <1> QED BY <1>1, <1>2 DEF BuilderMoves

(* So does one on the entry too.                                           *)
LEMMA AtMostStays ==
  ASSUME NEW a, NEW rd, NEW hp, NEW en, NEW rd2, NEW hp2, NEW en2, NEW h \in Heights, NEW n,
         Grown(a, hp, hp2), Within(a, n, h), AtMost(rd, hp, en, n, h),
         \A q \in Readers : BuilderMoves(q, rd, hp, rd2, hp2),
         EntryMoves(h, rd, hp, en, rd2, en2),
         en[h] \in DOMAIN hp \cup {Nothing}, en2[h] \in DOMAIN hp2 \cup {Nothing},
         \A q \in Readers : Building(rd[q]) => rd[q].e \in DOMAIN hp,
         \A q \in Readers : Building(rd2[q]) =>
                              rd2[q].e \in DOMAIN hp2 /\ hp2[rd2[q].e].height = rd2[q].height
  PROVE  AtMost(rd2, hp2, en2, n, h)
  <1>1. Below(rd2, hp2, n, h)
    BY BelowStays DEF AtMost
  <1>2. ASSUME en2[h] # Nothing PROVE n <= hp2[en2[h]].evidence
    <2>1. CASE en2[h] = en[h]
      <3>1. Same(hp2[en2[h]], hp[en[h]])
        BY <1>2, <2>1 DEF Grown
      <3> QED BY <1>2, <2>1, <3>1 DEF Same, AtMost
    <2>2. CASE \E q \in Readers : /\ Building(rd[q]) /\ rd[q].height = h /\ en2[h] = rd[q].e
                                  /\ hp[rd[q].e].found
      <3>1. PICK q \in Readers : Building(rd[q]) /\ rd[q].height = h /\ en2[h] = rd[q].e /\ hp[rd[q].e].found
        BY <2>2
      <3>2. Same(hp2[en2[h]], hp[rd[q].e])
        BY <1>2, <3>1 DEF Grown
      <3> QED BY <3>1, <3>2 DEF Same, AtMost, Below
    <2> QED BY <1>2, <2>1, <2>2 DEF EntryMoves
  <1> QED BY <1>1, <1>2 DEF AtMost

(* What is in order about the requests and the heap.                       *)
Frame(a, rd, hp, en) ==
  ArchiveOK(a) /\ ReadersOK(rd) /\ HeapOK(rd, hp, en) /\ Answerable(a, rd, hp, en)

(* What the frame says of reports.                                         *)
LEMMA FrameFields ==
  ASSUME NEW a, NEW rd, NEW hp, NEW en, Frame(a, rd, hp, en)
  PROVE  /\ \A r \in Readers : Building(rd[r]) \/ rd[r].pc \in Choosing =>
              /\ "e" \in DOMAIN rd[r] /\ rd[r].e \in DOMAIN hp /\ rd[r].height \in Heights
              /\ hp[rd[r].e].height = rd[r].height /\ Known(a, hp[rd[r].e], rd[r].height)
         /\ \A h \in Heights : en[h] # Nothing =>
              en[h] \in DOMAIN hp /\ hp[en[h]].height = h /\ hp[en[h]].found /\ Known(a, hp[en[h]], h)
         /\ \A h \in Heights : en[h] \in DOMAIN hp \cup {Nothing}
  <1>1. ASSUME NEW r \in Readers, Building(rd[r]) \/ rd[r].pc \in Choosing
        PROVE  /\ "e" \in DOMAIN rd[r] /\ rd[r].e \in DOMAIN hp /\ rd[r].height \in Heights
               /\ hp[rd[r].e].height = rd[r].height /\ Known(a, hp[rd[r].e], rd[r].height)
    <2>1. ReaderOK(rd[r]) /\ rd[r].pc # "idle" /\ rd[r] # Idle
      BY <1>1 DEF Frame, ReadersOK, Building, Choosing, Idle
    <2>2. rd[r].height \in Heights
      BY <2>1 DEF ReaderOK
    <2>3. "e" \in DOMAIN rd[r]
      <3>1. CASE rd[r].pc \in Choosing
        <4>1. DOMAIN rd[r] = Fields \cup {"v", "e"}
          BY <2>1, <3>1 DEF ReaderOK, Shapes, Choosing, Starting
        <4> QED BY <4>1
      <3> QED BY <1>1, <3>1 DEF Building
    <2>4. rd[r].e \in DOMAIN hp
      BY <2>3 DEF Frame, HeapOK
    <2>5. hp[rd[r].e].height = rd[r].height
      BY <2>3 DEF Frame, Answerable, RequestAt
    <2>6. Known(a, hp[rd[r].e], rd[r].height)
      BY <2>4, <2>5 DEF Frame, Answerable, ReportAt
    <2> QED BY <2>2, <2>3, <2>4, <2>5, <2>6
  <1>2. ASSUME NEW h \in Heights, en[h] # Nothing
        PROVE  en[h] \in DOMAIN hp /\ hp[en[h]].height = h /\ hp[en[h]].found /\ Known(a, hp[en[h]], h)
    <2>1. EntryAt(hp, h, en[h])
      BY DEF Frame, Answerable
    <2> QED BY <1>2, <2>1 DEF EntryAt, Frame, Answerable, ReportAt
  <1>3. \A h \in Heights : en[h] \in DOMAIN hp \cup {Nothing}
    BY DEF Frame, HeapOK
  <1> QED BY <1>1, <1>2, <1>3

(* The reports of a builder stay its own.                                  *)
LEMMA PrivateStays ==
  ASSUME NEW a, NEW rd, NEW hp, NEW en, NEW rd2, NEW hp2, NEW en2,
         Frame(a, rd, hp, en), Frame(a, rd2, hp2, en2),
         \A q \in Readers : PrivateAt(q, rd, hp, en),
         \A q \in Readers : BuilderMoves(q, rd, hp, rd2, hp2),
         \A h \in Heights : EntryMoves(h, rd, hp, en, rd2, en2),
         \A r \in Readers : "e" \in DOMAIN rd2[r] => \/ Holds(rd[r], rd2[r].e)
                                                     \/ \E g \in Heights : rd2[r].e = en[g]
                                                     \/ rd2[r].e \notin DOMAIN hp,
         NEW q \in Readers
  PROVE  PrivateAt(q, rd2, hp2, en2)
  <1> SUFFICES ASSUME Building(rd2[q])
               PROVE  /\ hp2[rd2[q].e].size = ReportSize
                      /\ \A g \in Heights : en2[g] # rd2[q].e
                      /\ \A r \in Readers : r # q => ~Holds(rd2[r], rd2[q].e)
    BY DEF PrivateAt
  <1> DEFINE i == rd2[q].e
  <1>1. i \in DOMAIN hp2 /\ i # Nothing
    <2>1. i \in DOMAIN hp2 /\ DOMAIN hp2 \subseteq Ids
      BY FrameFields DEF Frame, HeapOK
    <2> QED BY <2>1, NothingAssumption
  <1>2. CASE Building(rd[q]) /\ i = rd[q].e /\ rd2[q].height = rd[q].height /\ hp2[i].size = hp[i].size
    <2>1. /\ hp[i].size = ReportSize /\ \A g \in Heights : en[g] # i
          /\ \A r \in Readers : r # q => ~Holds(rd[r], i)
      BY <1>2 DEF PrivateAt
    <2>2. i \in DOMAIN hp
      BY <1>2, FrameFields
    <2>3. ASSUME NEW g \in Heights, en2[g] = i PROVE FALSE
      <3>1. PICK p \in Readers : Building(rd[p]) /\ rd[p].height = g /\ i = rd[p].e /\ NoneBuilding(rd2, g)
        BY <1>1, <2>1, <2>3 DEF EntryMoves
      <3>2. p = q
        BY <2>1, <3>1 DEF Holds, Building
      <3> QED BY <1>2, <3>1, <3>2 DEF NoneBuilding
    <2>4. ASSUME NEW r \in Readers, r # q, Holds(rd2[r], i) PROVE FALSE
      BY <2>1, <2>2, <2>4 DEF Holds
    <2> QED BY <1>2, <2>1, <2>3, <2>4
  <1>3. CASE i \notin DOMAIN hp /\ hp2[i].size = ReportSize /\ \A r \in Readers : r # q => ~Holds(rd2[r], i)
    <2>1. ASSUME NEW g \in Heights, en2[g] = i PROVE FALSE
      <3>1. en[g] \in DOMAIN hp \cup {Nothing}
        BY FrameFields
      <3>2. \A p \in Readers : Building(rd[p]) => rd[p].e \in DOMAIN hp
        BY FrameFields
      <3> QED BY <1>1, <1>3, <2>1, <3>1, <3>2 DEF EntryMoves
    <2> QED BY <1>3, <2>1
  <1> QED BY <1>2, <1>3 DEF BuilderMoves

(* An entry stays no newer than what is built for its height.              *)
LEMMA EntryStays ==
  ASSUME NEW a, NEW rd, NEW hp, NEW en, NEW rd2, NEW hp2, NEW en2,
         Frame(a, rd, hp, en), Frame(a, rd2, hp2, en2), Grown(a, hp, hp2),
         \A q \in Readers : PrivateAt(q, rd, hp, en),
         \A q \in Readers : BuilderMoves(q, rd, hp, rd2, hp2),
         NEW h \in Heights, EntryBelow(h, rd, hp, en), EntryMoves(h, rd, hp, en, rd2, en2)
  PROVE  EntryBelow(h, rd2, hp2, en2)
  <1> SUFFICES ASSUME en2[h] # Nothing
               PROVE  ReportSize <= CacheBytes /\ Below(rd2, hp2, hp2[en2[h]].evidence, h)
    BY DEF EntryBelow
  <1>1. CASE en2[h] = en[h]
    <2>1. ReportSize <= CacheBytes /\ Below(rd, hp, hp[en[h]].evidence, h)
      BY <1>1 DEF EntryBelow
    <2>2. Within(a, hp[en[h]].evidence, h)
      BY <1>1, FrameFields, KnownWithin DEF Frame
    <2>3. Below(rd2, hp2, hp[en[h]].evidence, h)
      <3>1. \A q \in Readers : Building(rd[q]) => rd[q].e \in DOMAIN hp
        BY FrameFields
      <3>2. \A q \in Readers : Building(rd2[q]) => rd2[q].e \in DOMAIN hp2 /\ hp2[rd2[q].e].height = rd2[q].height
        BY FrameFields
      <3> QED BY <2>1, <2>2, <3>1, <3>2, BelowStays
    <2>4. hp2[en2[h]].evidence = hp[en[h]].evidence
      <3>1. en[h] \in DOMAIN hp /\ en2[h] \in DOMAIN hp2
        BY <1>1, FrameFields
      <3> QED BY <1>1, <3>1 DEF Grown, Same
    <2> QED BY <2>1, <2>3, <2>4
  <1>2. CASE /\ NoneBuilding(rd2, h)
             /\ \E q \in Readers : Building(rd[q]) /\ hp[rd[q].e].size <= CacheBytes
    <2>1. PICK q \in Readers : Building(rd[q]) /\ hp[rd[q].e].size <= CacheBytes
      BY <1>2
    <2>2. ReportSize <= CacheBytes
      BY <2>1 DEF PrivateAt
    <2>3. Below(rd2, hp2, hp2[en2[h]].evidence, h)
      BY <1>2 DEF Below, NoneBuilding
    <2> QED BY <2>2, <2>3
  <1> QED BY <1>1, <1>2 DEF EntryMoves

(* What a reader has chosen stays no newer than entry and build.           *)
LEMMA ChosenStays ==
  ASSUME NEW a, NEW rd, NEW hp, NEW en, NEW rd2, NEW hp2, NEW en2,
         Frame(a, rd, hp, en), Frame(a, rd2, hp2, en2), Grown(a, hp, hp2),
         \A q \in Readers : BuilderMoves(q, rd, hp, rd2, hp2),
         \A h \in Heights : EntryMoves(h, rd, hp, en, rd2, en2),
         \A h \in Heights : EntryBelow(h, rd, hp, en),
         NEW r \in Readers, ChosenBelow(r, rd, hp, en), ChoiceMoves(r, rd, en, rd2, en2)
         \/ (rd2[r].pc \in Choosing => ~hp2[rd2[r].e].found)
  PROVE  ChosenBelow(r, rd2, hp2, en2)
  <1> SUFFICES ASSUME rd2[r].pc \in Choosing, hp2[rd2[r].e].found, ChoiceMoves(r, rd, en, rd2, en2)
               PROVE  AtMost(rd2, hp2, en2, hp2[rd2[r].e].evidence, rd2[r].height)
    BY DEF ChosenBelow
  <1> DEFINE i == rd2[r].e
             h == rd2[r].height
             n == hp2[i].evidence
  <1>1. h \in Heights /\ i \in DOMAIN hp2 /\ Known(a, hp2[i], h)
    BY FrameFields
  <1>2. Within(a, n, h)
    BY <1>1, KnownWithin DEF Frame
  <1>3. ASSUME AtMost(rd, hp, en, n, h) PROVE AtMost(rd2, hp2, en2, n, h)
    <2>1. \A q \in Readers : Building(rd[q]) => rd[q].e \in DOMAIN hp
      BY FrameFields
    <2>2. \A q \in Readers : Building(rd2[q]) => rd2[q].e \in DOMAIN hp2 /\ hp2[rd2[q].e].height = rd2[q].height
      BY FrameFields
    <2>3. en[h] \in DOMAIN hp \cup {Nothing} /\ en2[h] \in DOMAIN hp2 \cup {Nothing}
      BY <1>1, FrameFields
    <2> HIDE DEF n, h
    <2> QED BY <1>1, <1>2, <1>3, <2>1, <2>2, <2>3, AtMostStays
  <1>4. CASE rd[r].pc \in Choosing /\ rd[r].e = i /\ rd[r].height = h
    <2>1. i \in DOMAIN hp
      BY <1>4, FrameFields
    <2>2. Same(hp2[i], hp[i])
      BY <1>1, <2>1 DEF Grown
    <2>3. AtMost(rd, hp, en, n, h)
      BY <1>4, <2>2 DEF ChosenBelow, Same
    <2> QED BY <1>3, <2>3
  <1>5. CASE i = en[h]
    <2>1. i # Nothing
      BY <1>1, NothingAssumption DEF Frame, HeapOK
    <2>2. i \in DOMAIN hp
      BY <1>1, <1>5, <2>1, FrameFields
    <2>3. Same(hp2[i], hp[i])
      BY <1>1, <2>2 DEF Grown
    <2>4. n = hp[en[h]].evidence /\ n \in Nat
      BY <1>2, <1>5, <2>3 DEF Same, Within
    <2>5. AtMost(rd, hp, en, n, h)
      BY <1>1, <1>5, <2>1, <2>4 DEF AtMost, EntryBelow
    <2> QED BY <1>3, <2>5
  <1>6. CASE en2[h] \in {Nothing, i} /\ NoneBuilding(rd2, h)
    BY <1>2, <1>6 DEF AtMost, Below, NoneBuilding, Within
  <1> QED BY <1>4, <1>5, <1>6 DEF ChoiceMoves

(* What a reader was shown stays no newer than what it may be shown yet.   *)
LEMMA ShownStays ==
  ASSUME NEW a, NEW rd, NEW hp, NEW en, NEW rd2, NEW hp2, NEW en2,
         Frame(a, rd, hp, en), Frame(a, rd2, hp2, en2), Grown(a, hp, hp2),
         \A q \in Readers : BuilderMoves(q, rd, hp, rd2, hp2),
         NEW h \in Heights, EntryMoves(h, rd, hp, en, rd2, en2), NEW r \in Readers,
         ChoiceMoves(r, rd, en, rd2, en2) \/ (rd2[r].pc \in Choosing => ~hp2[rd2[r].e].found),
         NEW n, Within(a, n, h), AtMost(rd, hp, en, n, h),
         \/ rd2[r].pc \notin Choosing
         \/ rd[r].pc \in Choosing /\ rd[r].height = h /\ hp[rd[r].e].found => n <= hp[rd[r].e].evidence
  PROVE  ShownAt(a, n, r, h, rd2, hp2, en2)
  <1>1. AtMost(rd2, hp2, en2, n, h)
    <2>1. \A q \in Readers : Building(rd[q]) => rd[q].e \in DOMAIN hp
      BY FrameFields
    <2>2. \A q \in Readers : Building(rd2[q]) => rd2[q].e \in DOMAIN hp2 /\ hp2[rd2[q].e].height = rd2[q].height
      BY FrameFields
    <2>3. en[h] \in DOMAIN hp \cup {Nothing} /\ en2[h] \in DOMAIN hp2 \cup {Nothing}
      BY FrameFields
    <2> QED BY <2>1, <2>2, <2>3, AtMostStays
  <1>2. ASSUME rd2[r].pc \in Choosing, rd2[r].height = h, hp2[rd2[r].e].found
        PROVE  n <= hp2[rd2[r].e].evidence
    <2> DEFINE i == rd2[r].e
    <2>1. i \in DOMAIN hp2 /\ i # Nothing
      <3>1. i \in DOMAIN hp2 /\ DOMAIN hp2 \subseteq Ids
        BY <1>2, FrameFields DEF Frame, HeapOK
      <3> QED BY <3>1, NothingAssumption
    <2>2. i \in DOMAIN hp => Same(hp2[i], hp[i])
      BY <2>1 DEF Grown
    <2>3. CASE rd[r].pc \in Choosing /\ rd[r].e = i /\ rd[r].height = h
      <3>1. i \in DOMAIN hp
        BY <2>3, FrameFields
      <3> QED BY <1>2, <2>2, <2>3, <3>1 DEF Same
    <2>4. CASE i = en[h]
      <3>1. i \in DOMAIN hp
        BY <2>1, <2>4, FrameFields
      <3> QED BY <2>1, <2>2, <2>4, <3>1 DEF Same, AtMost
    <2>5. CASE Building(rd[r]) /\ rd[r].e = i /\ rd[r].height = h
      <3>1. i \in DOMAIN hp
        BY <2>5, FrameFields
      <3> QED BY <1>2, <2>2, <2>5, <3>1 DEF Same, AtMost, Below
    <2> QED BY <1>2, <2>3, <2>4, <2>5 DEF ChoiceMoves
  <1> QED BY <1>1, <1>2 DEF ShownAt

-----------------------------------------------------------------------------
(* A step of the cache *)

HoldMoves(r, rd, hp, en, rd2) ==
  "e" \in DOMAIN rd2[r] => \/ Holds(rd[r], rd2[r].e)
                           \/ \E g \in Heights : rd2[r].e = en[g]
                           \/ rd2[r].e \notin DOMAIN hp

ReaderMoves(r, rd, hp, en, rd2, hp2, en2) ==
  /\ BuilderMoves(r, rd, hp, rd2, hp2) /\ HoldMoves(r, rd, hp, en, rd2)
  /\ ChoiceMoves(r, rd, en, rd2, en2) \/ (rd2[r].pc \in Choosing => ~hp2[rd2[r].e].found)

(* What a reader has been shown is what it was, or the request is over and *)
(* the answer is as old as this allows.                                    *)
ShownMoves(a, r, h, rd, hp, en, rd2, n, n2) ==
  \/ n2 = n
  \/ rd2[r].pc \notin Choosing /\ Within(a, n2, h) /\ AtMost(rd, hp, en, n2, h)

(* A step that moves all of it so keeps reports rising.                    *)
LEMMA RisingStays ==
  ASSUME NEW a, NEW rd, NEW hp, NEW en, NEW sh, NEW rd2, NEW hp2, NEW en2, NEW sh2,
         Frame(a, rd, hp, en), Frame(a, rd2, hp2, en2), Grown(a, hp, hp2), Rising(a, rd, hp, en, sh),
         \A r \in Readers : ReaderMoves(r, rd, hp, en, rd2, hp2, en2),
         \A h \in Heights : EntryMoves(h, rd, hp, en, rd2, en2),
         \A r \in Watched, h \in Heights : ShownMoves(a, r, h, rd, hp, en, rd2, sh[r][h], sh2[r][h])
  PROVE  Rising(a, rd2, hp2, en2, sh2)
  <1>1. /\ \A q \in Readers : PrivateAt(q, rd, hp, en)
        /\ \A h \in Heights : EntryBelow(h, rd, hp, en)
        /\ \A r \in Readers : ChosenBelow(r, rd, hp, en)
        /\ \A r \in Watched, h \in Heights : ShownAt(a, sh[r][h], r, h, rd, hp, en)
    BY DEF Rising
  <1>2. /\ \A q \in Readers : BuilderMoves(q, rd, hp, rd2, hp2)
        /\ \A r \in Readers : ChoiceMoves(r, rd, en, rd2, en2) \/ (rd2[r].pc \in Choosing => ~hp2[rd2[r].e].found)
    BY DEF ReaderMoves
  <1>3. ASSUME NEW q \in Readers PROVE PrivateAt(q, rd2, hp2, en2)
    <2>1. \A r \in Readers : "e" \in DOMAIN rd2[r] => \/ Holds(rd[r], rd2[r].e)
                                                      \/ \E g \in Heights : rd2[r].e = en[g]
                                                      \/ rd2[r].e \notin DOMAIN hp
      BY DEF ReaderMoves, HoldMoves
    <2> QED BY <1>1, <1>2, <2>1, PrivateStays
  <1>4. ASSUME NEW h \in Heights PROVE EntryBelow(h, rd2, hp2, en2)
    BY <1>1, <1>2, EntryStays
  <1>5. ASSUME NEW r \in Readers PROVE ChosenBelow(r, rd2, hp2, en2)
    BY <1>1, <1>2, ChosenStays
  <1>6. ASSUME NEW r \in Watched, NEW h \in Heights PROVE ShownAt(a, sh2[r][h], r, h, rd2, hp2, en2)
    <2>1. PICK n : n = sh2[r][h]
      OBVIOUS
    <2>2. r \in Readers
      BY CacheAssumption
    <2>3. ShownAt(a, sh[r][h], r, h, rd, hp, en)
      BY <1>1
    <2>4. /\ Within(a, n, h) /\ AtMost(rd, hp, en, n, h)
          /\ \/ rd2[r].pc \notin Choosing
             \/ rd[r].pc \in Choosing /\ rd[r].height = h /\ hp[rd[r].e].found => n <= hp[rd[r].e].evidence
      BY <2>1, <2>3 DEF ShownAt, ShownMoves
    <2>5. ShownAt(a, n, r, h, rd2, hp2, en2)
      BY <1>2, <2>2, <2>4, ShownStays
    <2> QED BY <2>1, <2>5
  <1> QED BY <1>3, <1>4, <1>5, <1>6 DEF Rising

(* A request that drifts moves so.                                         *)
LEMMA DriftMoves ==
  ASSUME NEW rd, NEW hp, NEW en, NEW rd2, NEW hp2, NEW en2, NEW r \in Readers, Drift(rd[r], rd2[r]),
         Building(rd2[r]) => hp2[rd2[r].e].size = hp[rd2[r].e].size
  PROVE  ReaderMoves(r, rd, hp, en, rd2, hp2, en2)
  <1>1. BuilderMoves(r, rd, hp, rd2, hp2)
    BY DEF BuilderMoves, Drift, Building
  <1>2. HoldMoves(r, rd, hp, en, rd2)
    BY DEF HoldMoves, Drift, Holds
  <1>3. ChoiceMoves(r, rd, en, rd2, en2)
    BY DEF ChoiceMoves, Drift
  <1> QED BY <1>1, <1>2, <1>3 DEF ReaderMoves

(* How a request goes on without reading anything.                         *)
Over(x, y) ==
  /\ x.pc \notin {"idle", "capture", "captured"}
  /\ DOMAIN y = Fields /\ y.pc \in Starting \ {"capture"}
  /\ y.height = x.height /\ y.view = x.view /\ y.floor = x.floor
Onward(x, y) ==
  /\ x.pc \in Choosing /\ y.pc \in Choosing /\ DOMAIN x = Fields \cup {"v", "e"} /\ DOMAIN y = DOMAIN x
  /\ y.height = x.height /\ y.view = x.view /\ y.floor = x.floor /\ y.v = x.v /\ y.e = x.e
Follows(x, y) == y = x \/ y = Idle \/ Over(x, y) \/ Onward(x, y)

(* It drifts.                                                              *)
LEMMA FollowsDrifts ==
  ASSUME NEW x, NEW y, Follows(x, y), x.pc \in Choosing => "e" \in DOMAIN x
  PROVE  Drift(x, y)
  <1>1. CASE y = x
    BY <1>1 DEF Drift
  <1>2. CASE y = Idle
    <2>1. "e" \notin DOMAIN Idle /\ Idle.pc = "idle"
      BY DEF Idle
    <2> QED BY <1>2, <2>1 DEF Drift, Building, Choosing
  <1>3. CASE Over(x, y)
    BY <1>3 DEF Over, Drift, Building, Choosing, Starting, Fields
  <1>4. CASE Onward(x, y)
    BY <1>4 DEF Onward, Drift, Building, Choosing, Fields
  <1> QED BY <1>1, <1>2, <1>3, <1>4 DEF Follows

(* Its floor is what it was.                                               *)
LEMMA FollowsFloor ==
  ASSUME NEW a, NEW hp, NEW hp2, Grown(a, hp, hp2), NEW x, NEW y, Follows(x, y), FloorAt(a, x, hp),
         "e" \in DOMAIN x => x.e \in DOMAIN hp, "e" \in DOMAIN y => y.e \in DOMAIN hp2
  PROVE  FloorAt(a, y, hp2)
  <1>0. ASSUME "e" \in DOMAIN x, y.e = x.e, "e" \in DOMAIN y PROVE Same(hp2[y.e], hp[x.e])
    BY <1>0 DEF Grown
  <1>1. CASE y = x
    <2>1. /\ x.pc \in {"capture", "captured"} => x.view = "capture"
          /\ x.pc # "idle" => Floored(a, x.floor, x.height) /\ (x.view = "compact" => x.floor.evidence = 0)
          /\ x.pc \in Versioned =>
               /\ x.floor.catalogue <= x.v.catalogue
               /\ x.v.found =>
                    x.floor.evidence <= x.v.evidence /\ x.floor.seal <= x.v.seal /\ x.floor.lost <= x.v.lost
               /\ ~x.v.found /\ x.floor.found => x.height \notin HeldIn(a)
      BY DEF FloorAt
    <2>2. ASSUME "e" \in DOMAIN x
          PROVE  /\ hp2[x.e].found => x.floor.evidence <= hp2[x.e].evidence
                 /\ ~hp2[x.e].found /\ x.floor.found => x.height \notin HeldIn(a)
      <3>1. Same(hp2[x.e], hp[x.e])
        BY <1>0, <1>1, <2>2
      <3> QED BY <2>2, <3>1 DEF Same, FloorAt
    <2> QED BY <1>1, <2>1, <2>2 DEF FloorAt
  <1>2. CASE y = Idle
    <2>1. "e" \notin DOMAIN Idle /\ Idle.pc = "idle"
      BY DEF Idle
    <2> QED BY <1>2, <2>1 DEF FloorAt, Versioned, Bearing
  <1>3. CASE Over(x, y)
    <2>1. "e" \notin DOMAIN y /\ y.pc \notin Versioned /\ x.pc # "idle" /\ y.pc \notin {"capture", "captured"}
      BY <1>3 DEF Over, Fields, Versioned, Bearing, Starting
    <2> QED BY <1>3, <2>1 DEF Over, FloorAt
  <1>4. CASE Onward(x, y)
    <2>1. /\ "e" \in DOMAIN x /\ "e" \in DOMAIN y /\ y.e = x.e /\ x.pc \in Versioned /\ x.pc # "idle"
          /\ y.pc \notin {"capture", "captured"}
      BY <1>4 DEF Onward, Fields, Versioned, Bearing, Choosing
    <2>2. Same(hp2[y.e], hp[x.e])
      BY <1>0, <2>1
    <2>3. /\ Floored(a, x.floor, x.height) /\ (x.view = "compact" => x.floor.evidence = 0)
          /\ x.floor.catalogue <= x.v.catalogue
          /\ x.v.found =>
               x.floor.evidence <= x.v.evidence /\ x.floor.seal <= x.v.seal /\ x.floor.lost <= x.v.lost
          /\ ~x.v.found /\ x.floor.found => x.height \notin HeldIn(a)
          /\ hp[x.e].found => x.floor.evidence <= hp[x.e].evidence
          /\ ~hp[x.e].found /\ x.floor.found => x.height \notin HeldIn(a)
      BY <2>1 DEF FloorAt
    <2>4. y.height = x.height /\ y.view = x.view /\ y.floor = x.floor /\ y.v = x.v
      BY <1>4 DEF Onward
    <2> HIDE <1>4
    <2> QED BY <2>1, <2>2, <2>3, <2>4 DEF FloorAt, Same
  <1> QED BY <1>1, <1>2, <1>3, <1>4 DEF Follows

(* The frame of the state.                                                 *)
LEMMA FrameIs ==
  ASSUME WaitInv, AnswerInv
  PROVE  Frame(Now, reader, heap, entries)
  BY DEF WaitInv, Waits, AnswerInv, Frame

(* A step that leaves the archive alone and moves everything so.           *)
LEMMA ServiceStays ==
  ASSUME WaitInv, WaitInv', AnswerInv, AnswerInv', ServiceInv, UNCHANGED archiveVars,
         Grown(Now, heap, heap'),
         \A r \in Readers : ReaderMoves(r, reader, heap, entries, reader', heap', entries'),
         \A h \in Heights : EntryMoves(h, reader, heap, entries, reader', entries'),
         \A r \in Watched : FloorAt(Now, reader'[r], heap'),
         shown' \in [Watched -> [Heights -> Nat]],
         \A r \in Watched, h \in Heights :
            ShownMoves(Now, r, h, reader, heap, entries, reader', shown[r][h], shown'[r][h])
  PROVE  ServiceInv'
  <1>1. Now' = Now
    BY DEF Now, archiveVars
  <1>2. Frame(Now, reader, heap, entries)
    BY FrameIs
  <1>3. Frame(Now, reader', heap', entries')
    BY <1>1 DEF WaitInv, Waits, AnswerInv, Frame
  <1>4. Rising(Now, reader, heap, entries, shown)
    BY DEF ServiceInv
  <1>5. Rising(Now, reader', heap', entries', shown')
    BY <1>2, <1>3, <1>4, RisingStays
  <1> QED BY <1>1, <1>5 DEF ServiceInv

(* The floors of requests that only go on.                                 *)
LEMMA FloorsStay ==
  ASSUME WaitInv, WaitInv', ServiceInv, Grown(Now, heap, heap'), NEW r \in Watched,
         Follows(reader[r], reader'[r])
  PROVE  FloorAt(Now, reader'[r], heap')
  <1>1. r \in Readers
    BY CacheAssumption
  <1>2. FloorAt(Now, reader[r], heap)
    BY DEF ServiceInv
  <1>3. /\ "e" \in DOMAIN reader[r] => reader[r].e \in DOMAIN heap
        /\ "e" \in DOMAIN reader'[r] => reader'[r].e \in DOMAIN heap'
    BY <1>1 DEF WaitInv, Waits, HeapOK
  <1> QED BY <1>2, <1>3, FollowsFloor

(* So do the requests themselves move.                                     *)
LEMMA FollowsMoves ==
  ASSUME WaitInv, NEW r \in Readers, Follows(reader[r], reader'[r]),
         Building(reader'[r]) => heap'[reader'[r].e].size = heap[reader'[r].e].size
  PROVE  ReaderMoves(r, reader, heap, entries, reader', heap', entries')
  <1>1. reader[r].pc \in Choosing => "e" \in DOMAIN reader[r]
    BY AtFields DEF Choosing, Bearing, Fields
  <1>2. Drift(reader[r], reader'[r])
    BY <1>1, FollowsDrifts
  <1> QED BY <1>2, DriftMoves

(* Nothing shown is nothing moved.                                         *)
LEMMA ShownSame ==
  ASSUME ServiceInv, UNCHANGED shown
  PROVE  /\ shown' \in [Watched -> [Heights -> Nat]]
         /\ \A r \in Watched, h \in Heights :
              ShownMoves(Now, r, h, reader, heap, entries, reader', shown[r][h], shown'[r][h])
  BY DEF ServiceInv, ShownMoves

(* A step in which every request goes on, and no entry comes.              *)
LEMMA FollowSteps ==
  ASSUME WaitInv, WaitInv', AnswerInv, AnswerInv', ServiceInv, UNCHANGED archiveVars,
         Grown(Now, heap, heap'), \A r \in Readers : Follows(reader[r], reader'[r]),
         \A r \in Readers : Building(reader'[r]) => heap'[reader'[r].e].size = heap[reader'[r].e].size,
         \A h \in Heights : entries'[h] \in {Nothing, entries[h]},
         shown' \in [Watched -> [Heights -> Nat]],
         \A r \in Watched, h \in Heights :
            ShownMoves(Now, r, h, reader, heap, entries, reader', shown[r][h], shown'[r][h])
  PROVE  ServiceInv'
  <1>1. \A r \in Readers : ReaderMoves(r, reader, heap, entries, reader', heap', entries')
    BY FollowsMoves
  <1>2. \A r \in Watched : FloorAt(Now, reader'[r], heap')
    <2>1. \A r \in Watched : r \in Readers
      BY CacheAssumption
    <2> QED BY <2>1, FloorsStay
  <1>3. \A h \in Heights : EntryMoves(h, reader, heap, entries, reader', entries')
    BY DEF EntryMoves
  <1> QED BY <1>1, <1>2, <1>3, ServiceStays

(* A step of one request r that becomes y, by itself and without the heap. *)
LEMMA OneMoves ==
  ASSUME WaitInv, WaitInv', AnswerInv, AnswerInv', ServiceInv, NEW r \in Readers, NEW y,
         UNCHANGED <<archiveVars, heap, entries, shown>>, reader' = [reader EXCEPT ![r] = y],
         ReaderMoves(r, reader, heap, entries, reader', heap', entries'),
         r \in Watched => FloorAt(Now, y, heap)
  PROVE  ServiceInv'
  <1>1. reader'[r] = y /\ \A q \in Readers : q # r => reader'[q] = reader[q]
    BY DEF WaitInv, Waits, ReadersOK
  <1>2. Grown(Now, heap, heap')
    <2>1. \A i \in DOMAIN heap' : i \in DOMAIN heap /\ heap'[i] = heap[i]
      OBVIOUS
    <2> QED BY <2>1, OldReports
  <1>3. \A q \in Readers : ReaderMoves(q, reader, heap, entries, reader', heap', entries')
    <2> TAKE q \in Readers
    <2>1. CASE q # r
      <3>1. Follows(reader[q], reader'[q])
        BY <1>1, <2>1 DEF Follows
      <3> QED BY <3>1, FollowsMoves
    <2> QED BY <2>1
  <1>4. \A q \in Watched : FloorAt(Now, reader'[q], heap')
    <2> TAKE q \in Watched
    <2>1. q \in Readers
      BY CacheAssumption
    <2>2. CASE q # r
      <3>1. Follows(reader[q], reader'[q])
        BY <1>1, <2>1, <2>2 DEF Follows
      <3> QED BY <1>2, <3>1, FloorsStay
    <2> QED BY <1>1, <2>2
  <1>5. \A h \in Heights : EntryMoves(h, reader, heap, entries, reader', entries')
    BY DEF EntryMoves
  <1> QED BY <1>2, <1>3, <1>4, <1>5, ShownSame, ServiceStays

(* Of one request that drifts.                                             *)
LEMMA OneDrifts ==
  ASSUME WaitInv, WaitInv', AnswerInv, AnswerInv', ServiceInv, NEW r \in Readers, NEW y,
         UNCHANGED <<archiveVars, heap, entries, shown>>, reader' = [reader EXCEPT ![r] = y],
         Drift(reader[r], y), r \in Watched => FloorAt(Now, y, heap)
  PROVE  ServiceInv'
  <1>1. reader'[r] = y
    BY DEF WaitInv, Waits, ReadersOK
  <1>2. ReaderMoves(r, reader, heap, entries, reader', heap', entries')
    BY <1>1, DriftMoves
  <1> QED BY <1>2, OneMoves

(* Of one request that goes on.                                            *)
LEMMA OneFollows ==
  ASSUME WaitInv, WaitInv', AnswerInv, AnswerInv', ServiceInv, NEW r \in Readers, NEW y,
         UNCHANGED <<archiveVars, heap, entries, shown>>, reader' = [reader EXCEPT ![r] = y],
         Follows(reader[r], y)
  PROVE  ServiceInv'
  <1>1. reader'[r] = y
    BY DEF WaitInv, Waits, ReadersOK
  <1>2. Drift(reader[r], y)
    <2>1. reader[r].pc \in Choosing => "e" \in DOMAIN reader[r]
      BY AtFields DEF Choosing, Bearing, Fields
    <2> QED BY <2>1, FollowsDrifts
  <1>3. Grown(Now, heap, heap')
    <2>1. \A i \in DOMAIN heap' : i \in DOMAIN heap /\ heap'[i] = heap[i]
      OBVIOUS
    <2> QED BY <2>1, OldReports
  <1>4. r \in Watched => FloorAt(Now, y, heap)
    BY <1>1, <1>3, FloorsStay
  <1> QED BY <1>2, <1>4, OneDrifts

-----------------------------------------------------------------------------
(* One lemma per action *)

(* The service's version of a height is the cache's.                       *)
LEMMA ServiceVersion == \A h : Service!Version(h) = Version(h)
  BY DEF Service!Version, Version, Service!Status, Status, Service!Held, Held

(* A version read now is no older than the floor.                          *)
LEMMA VersionFloor ==
  ASSUME ArchiveOK(Now), NEW h \in Heights, NEW f, Floored(Now, f, h), NEW v, v = Version(h)
  PROVE  /\ f.catalogue <= v.catalogue
         /\ v.found => f.evidence <= v.evidence /\ f.seal <= v.seal /\ f.lost <= v.lost
         /\ ~v.found /\ f.found => h \notin HeldIn(Now)
  <1>1. /\ Newest(Now, v, h) /\ v.catalogue = Now.catalogue
        /\ v.found => v.seal = archive[h].seal /\ v.lost = archive[h].lost
    BY VersionIs
  <1>2. Known(Now, v, h) /\ (v.found <=> h \in HeldIn(Now)) /\ (v.found => v.evidence = archive[h].evidence)
    BY <1>1, NowIs DEF Newest
  <1>3. f.found \in BOOLEAN /\ f.evidence \in Nat /\ f.seal \in 0..2 /\ f.lost \in Nat
    BY DEF Floored, Service!Floors
  <1>4. ASSUME v.found PROVE f.evidence <= v.evidence /\ f.seal <= v.seal /\ f.lost <= v.lost
    <2>1. v.evidence \in Nat /\ v.seal \in 0..2 /\ v.lost \in Nat
      BY <1>2 DEF Known
    <2>2. CASE f.found
      BY <1>1, <1>2, <1>4, <2>2, NowIs DEF Floored
    <2>3. CASE ~f.found
      BY <1>3, <2>1, <2>3 DEF Floored
    <2> QED BY <2>2, <2>3
  <1> QED BY <1>1, <1>2, <1>4 DEF Floored

(* The floor of a request that begins now.                                 *)
LEMMA FloorIs ==
  ASSUME ArchiveOK(Now), NEW h \in Heights, NEW view, NEW f, f = Service!Floor(h, view)
  PROVE  Floored(Now, f, h) /\ (view = "compact" => f.evidence = 0)
  <1>1. PICK v : v = Version(h)
    OBVIOUS
  <1>2. f = [found |-> v.found, evidence |-> IF view = "compact" THEN 0 ELSE v.evidence,
             seal |-> v.seal, lost |-> v.lost, catalogue |-> v.catalogue]
    BY <1>1, ServiceVersion DEF Service!Floor
  <1>3. /\ Newest(Now, v, h) /\ v.catalogue = Now.catalogue
        /\ v.found => v.seal = archive[h].seal /\ v.lost = archive[h].lost
    BY <1>1, VersionIs
  <1>4. Known(Now, v, h) /\ (v.found <=> h \in HeldIn(Now)) /\ (v.found => v.evidence = archive[h].evidence)
    BY <1>3, NowIs DEF Newest
  <1>5. PICK e : e = IF view = "compact" THEN 0 ELSE v.evidence
    OBVIOUS
  <1>6. /\ f.found = v.found /\ f.evidence = e /\ f.seal = v.seal /\ f.lost = v.lost /\ f.catalogue = Now.catalogue
    BY <1>2, <1>3, <1>5
  <1>7. /\ v.found \in BOOLEAN /\ v.evidence \in Nat /\ v.seal \in 0..2 /\ v.lost \in Nat
        /\ Now.catalogue \in Nat /\ e \in Nat /\ e <= v.evidence
    BY <1>4, <1>5 DEF Known, ArchiveOK
  <1>8. f \in Service!Floors
    <2>1. f = [found |-> v.found, evidence |-> e, seal |-> v.seal, lost |-> v.lost, catalogue |-> Now.catalogue]
      BY <1>2, <1>3, <1>5
    <2> QED BY <1>7, <2>1 DEF Service!Floors
  <1>9. ~f.found => f.evidence = 0 /\ f.seal = 0 /\ f.lost = 0
    BY <1>4, <1>6, <1>7 DEF Known
  <1>10. f.found => h \in HeldIn(Now)
    BY <1>4, <1>6
  <1>11. ASSUME f.found
         PROVE  LET b == Now.archive[h] IN f.evidence <= b.evidence /\ f.seal <= b.seal /\ f.lost <= b.lost
    BY <1>3, <1>4, <1>6, <1>7, <1>11, NowIs
  <1>12. f.catalogue <= Now.catalogue
    BY <1>6, <1>7
  <1>13. view = "compact" => f.evidence = 0
    BY <1>5, <1>6
  <1> QED BY <1>8, <1>9, <1>10, <1>11, <1>12, <1>13 DEF Floored

(* A request arrives.                                                      *)
LEMMA RequestServes ==
  ASSUME WaitInv, WaitInv', AnswerInv, AnswerInv', ServiceInv,
         NEW r \in Readers, NEW h \in Heights, NEW view \in Views, Request(r, h, view)
  PROVE  ServiceInv'
  <1>1. PICK f : f = IF r \in Watched THEN Service!Floor(h, view) ELSE Nothing
    OBVIOUS
  <1>2. /\ UNCHANGED <<archiveVars, heap, entries, shown>>
        /\ reader' = [reader EXCEPT ![r] =
             IF view = "capture" THEN [pc |-> "capture", height |-> h, view |-> view, floor |-> f]
             ELSE Put([[pc |-> "capture", height |-> h, view |-> view, floor |-> f] EXCEPT !.pc = "lookup"],
                      "v", Version(h))]
    BY <1>1 DEF Request, Unanswered
  <1>3. r \in Watched => Floored(Now, f, h) /\ (view = "compact" => f.evidence = 0)
    BY <1>1, FloorIs DEF AnswerInv
  <1>4. CASE view = "capture"
    <2>1. PICK y : y = [pc |-> "capture", height |-> h, view |-> view, floor |-> f]
      OBVIOUS
    <2>2. reader' = [reader EXCEPT ![r] = y]
      BY <1>2, <1>4, <2>1
    <2>3. "e" \notin DOMAIN y /\ y.pc = "capture" /\ y.height = h /\ y.view = view /\ y.floor = f
      BY <2>1
    <2>4. Drift(reader[r], y)
      BY <2>3 DEF Drift, Building, Choosing
    <2>5. r \in Watched => FloorAt(Now, y, heap)
      BY <1>3, <1>4, <2>3 DEF FloorAt, Versioned, Bearing
    <2> QED BY <1>2, <2>2, <2>4, <2>5, OneDrifts
  <1>5. CASE view # "capture"
    <2>1. PICK y : y = Put([[pc |-> "capture", height |-> h, view |-> view, floor |-> f]
                              EXCEPT !.pc = "lookup"], "v", Version(h))
      OBVIOUS
    <2>2. reader' = [reader EXCEPT ![r] = y]
      BY <1>2, <1>5, <2>1
    <2>3. /\ "e" \notin DOMAIN y /\ y.pc = "lookup" /\ y.height = h /\ y.view = view /\ y.floor = f
          /\ y.v = Version(h)
      BY <2>1 DEF Put
    <2>4. Drift(reader[r], y)
      BY <2>3 DEF Drift, Building, Choosing
    <2>5. ASSUME r \in Watched PROVE FloorAt(Now, y, heap)
      <3>1. PICK v : v = Version(h)
        OBVIOUS
      <3>2. /\ f.catalogue <= v.catalogue
            /\ v.found => f.evidence <= v.evidence /\ f.seal <= v.seal /\ f.lost <= v.lost
            /\ ~v.found /\ f.found => h \notin HeldIn(Now)
        BY <1>3, <2>5, <3>1, VersionFloor DEF AnswerInv
      <3> QED BY <1>3, <2>3, <2>5, <3>1, <3>2 DEF FloorAt
    <2> QED BY <1>2, <2>2, <2>4, <2>5, OneDrifts
  <1> QED BY <1>4, <1>5

(* A version is read, once more or after a wait.                           *)
LEMMA ReadServes ==
  ASSUME WaitInv, WaitInv', AnswerInv, AnswerInv', ServiceInv, NEW r \in Readers,
         ReadVersion(r) \/ ReadLatest(r)
  PROVE  ServiceInv'
  <1> DEFINE x == reader[r]
  <1>1. PICK pc \in {"lookup", "publish"} :
          /\ reader' = [reader EXCEPT ![r] = Put([x EXCEPT !.pc = pc], "v", Version(x.height))]
          /\ \/ x.pc = "version" /\ pc = "lookup"
             \/ x.pc \in {"built", "failed"} /\ pc = "publish"
    BY DEF ReadVersion, ReadLatest, Go, At
  <1>2. PICK y : y = Put([x EXCEPT !.pc = pc], "v", Version(x.height))
    OBVIOUS
  <1>3. UNCHANGED <<archiveVars, heap, entries, shown>>
    BY DEF ReadVersion, ReadLatest, Unanswered
  <1>4. x.height \in Heights /\ x.pc # "idle"
        /\ DOMAIN x = IF x.pc = "built" THEN Fields \cup {"v", "e"} ELSE Fields
    BY <1>1, AtFields DEF Starting, Bearing
  <1>5. /\ DOMAIN y = IF x.pc = "built" THEN Fields \cup {"v", "e"} ELSE Fields \cup {"v"}
        /\ y.pc = pc /\ y.height = x.height /\ y.view = x.view /\ y.floor = x.floor /\ y.v = Version(x.height)
        /\ "e" \in DOMAIN y => y.e = x.e
    BY <1>2, <1>4 DEF Put, Fields
  <1>6. Drift(x, y)
    <2>1. "e" \in DOMAIN y => x.pc = "built" /\ "e" \in DOMAIN x
      BY <1>4, <1>5 DEF Fields
    <2> QED BY <1>1, <1>5, <2>1 DEF Drift, Building, Choosing
  <1>7. ASSUME r \in Watched PROVE FloorAt(Now, y, heap)
    <2>1. FloorAt(Now, x, heap)
      BY <1>7 DEF ServiceInv
    <2>2. Floored(Now, x.floor, x.height) /\ (x.view = "compact" => x.floor.evidence = 0)
      BY <1>4, <2>1 DEF FloorAt
    <2>3. PICK v : v = Version(x.height)
      OBVIOUS
    <2>4. /\ x.floor.catalogue <= v.catalogue
          /\ v.found => x.floor.evidence <= v.evidence /\ x.floor.seal <= v.seal /\ x.floor.lost <= v.lost
          /\ ~v.found /\ x.floor.found => x.height \notin HeldIn(Now)
      BY <1>4, <2>2, <2>3, VersionFloor DEF AnswerInv
    <2>5. "e" \in DOMAIN y => /\ heap[y.e].found => y.floor.evidence <= heap[y.e].evidence
                              /\ ~heap[y.e].found /\ y.floor.found => y.height \notin HeldIn(Now)
      <3>1. "e" \in DOMAIN y => "e" \in DOMAIN x
        BY <1>4, <1>5 DEF Fields
      <3> QED BY <1>5, <2>1, <3>1 DEF FloorAt
    <2>6. y.pc \notin {"capture", "captured", "idle"}
      BY <1>1, <1>5
    <2> QED BY <1>5, <2>2, <2>3, <2>4, <2>5, <2>6 DEF FloorAt
  <1>8. reader' = [reader EXCEPT ![r] = y]
    BY <1>1, <1>2
  <1> QED BY <1>3, <1>6, <1>7, <1>8, OneDrifts

(* The cached report will do for the request that finds it.                *)
LEMMA LookupHitServes ==
  ASSUME WaitInv, WaitInv', AnswerInv, AnswerInv', ServiceInv, NEW r \in Readers, LookupHit(r)
  PROVE  ServiceInv'
  <1> DEFINE x == reader[r]
             h == x.height
             e == heap[entries[h]]
  <1>1. PICK y : y = Put([x EXCEPT !.pc = "encode"], "e", entries[h])
    OBVIOUS
  <1>2. /\ reader' = [reader EXCEPT ![r] = y] /\ x.pc = "lookup" /\ x.v.found
        /\ entries[h] # Nothing
        /\ e.evidence = x.v.evidence \/ x.view = "compact"
    BY <1>1 DEF LookupHit, Go, At, Exact, Usable
  <1>same. UNCHANGED <<archiveVars, entries, heap, shown>>
    BY DEF LookupHit, Unanswered
  <1>3. DOMAIN x = Fields \cup {"v"} /\ h \in Heights
    BY <1>2, AtFields
  <1>4. /\ y.pc = "encode" /\ y.height = h /\ y.view = x.view /\ y.floor = x.floor /\ y.v = x.v
        /\ y.e = entries[h] /\ DOMAIN y = Fields \cup {"v", "e"}
    BY <1>1, <1>3 DEF Put, Fields
  <1>5. e.found /\ e.evidence \in Nat
    <2>1. EntryAt(heap, h, entries[h])
      BY <1>3 DEF AnswerInv, Answerable
    <2>2. entries[h] \in DOMAIN heap /\ e.found /\ e.height = h
      BY <1>2, <2>1 DEF EntryAt
    <2>3. ReportAt(Now, e)
      BY <2>2 DEF AnswerInv, Answerable
    <2> HIDE DEF e
    <2> QED BY <2>2, <2>3 DEF ReportAt, Known
  <1>6. reader'[r] = y
    BY <1>2 DEF WaitInv, Waits, ReadersOK
  <1>7. ReaderMoves(r, reader, heap, entries, reader', heap', entries')
    <2>1. BuilderMoves(r, reader, heap, reader', heap')
      BY <1>4, <1>6 DEF BuilderMoves, Building
    <2>2. HoldMoves(r, reader, heap, entries, reader')
      BY <1>3, <1>4, <1>6 DEF HoldMoves
    <2>3. ChoiceMoves(r, reader, entries, reader', entries')
      BY <1>same, <1>4, <1>6 DEF ChoiceMoves
    <2> QED BY <2>1, <2>2, <2>3 DEF ReaderMoves
  <1>8. ASSUME r \in Watched PROVE FloorAt(Now, y, heap)
    <2>1. /\ Floored(Now, x.floor, h) /\ (x.view = "compact" => x.floor.evidence = 0)
          /\ x.floor.catalogue <= x.v.catalogue
          /\ x.v.found =>
               x.floor.evidence <= x.v.evidence /\ x.floor.seal <= x.v.seal /\ x.floor.lost <= x.v.lost
          /\ ~x.v.found /\ x.floor.found => h \notin HeldIn(Now)
      BY <1>2, <1>8 DEF ServiceInv, FloorAt, Versioned
    <2>2. x.floor.evidence <= e.evidence
      BY <1>2, <1>5, <2>1
    <2> HIDE DEF h
    <2> QED BY <1>4, <1>5, <2>1, <2>2 DEF FloorAt
  <1> QED BY <1>same, <1>2, <1>7, <1>8, OneMoves

(* The steps that neither read nor end.                                    *)
LEMMA QuietServes ==
  ASSUME WaitInv, WaitInv', AnswerInv, AnswerInv', ServiceInv, NEW r \in Readers,
         LookupMiss(r) \/ TakeSlot(r) \/ CancelBuild(r)
  PROVE  /\ ServiceInv'
         /\ \A q \in Readers : /\ Follows(reader[q], reader'[q])
                               /\ reader'[q].pc = "idle" => reader[q].pc = "idle"
  <1> DEFINE x == reader[r]
  <1>same. UNCHANGED <<archiveVars, entries, heap, shown>>
    BY DEF LookupMiss, TakeSlot, CancelBuild, Unanswered
  <1>1. \E y : reader' = [reader EXCEPT ![r] = y] /\ Follows(x, y) /\ y.pc # "idle"
    <2>1. CASE LookupMiss(r)
      <3>1. PICK y : y = [Asked(x) EXCEPT !.pc = IF x.height \in flights THEN "wait" ELSE "build"]
        OBVIOUS
      <3>2. reader' = [reader EXCEPT ![r] = y] /\ x.pc = "lookup"
        BY <2>1, <3>1 DEF LookupMiss, At
      <3>3. DOMAIN y = Fields /\ y.pc \in {"wait", "build"} /\ y.height = x.height /\ y.view = x.view
            /\ y.floor = x.floor
        BY <3>1 DEF Asked, Fields
      <3>4. Over(x, y)
        BY <3>2, <3>3 DEF Over, Starting
      <3> QED BY <3>2, <3>3, <3>4 DEF Follows
    <2>2. CASE TakeSlot(r)
      <3>1. PICK y : y = [x EXCEPT !.pc = "encoded"]
        OBVIOUS
      <3>2. reader' = [reader EXCEPT ![r] = y] /\ x.pc = "variant"
        BY <2>2, <3>1 DEF TakeSlot, Go, At
      <3>3. DOMAIN x = Fields \cup {"v", "e"}
        BY <3>2, AtFields DEF Bearing
      <3>4. /\ DOMAIN y = DOMAIN x /\ y.pc = "encoded" /\ y.height = x.height /\ y.view = x.view
            /\ y.floor = x.floor /\ y.v = x.v /\ y.e = x.e
        BY <3>1, <3>3 DEF Fields
      <3>5. Onward(x, y)
        BY <3>2, <3>3, <3>4 DEF Onward, Choosing
      <3> QED BY <3>2, <3>4, <3>5 DEF Follows
    <2>3. CASE CancelBuild(r)
      <3>1. PICK y : y = [x EXCEPT !.pc = "failed"]
        OBVIOUS
      <3>2. reader' = [reader EXCEPT ![r] = y] /\ x.pc = "build"
        BY <2>3, <3>1 DEF CancelBuild, Go, At
      <3>3. DOMAIN x = Fields
        BY <3>2, AtFields DEF Starting
      <3>4. /\ DOMAIN y = Fields /\ y.pc = "failed" /\ y.height = x.height /\ y.view = x.view
            /\ y.floor = x.floor
        BY <3>1, <3>3 DEF Fields
      <3>5. Over(x, y)
        BY <3>2, <3>4 DEF Over, Starting
      <3> QED BY <3>2, <3>4, <3>5 DEF Follows
    <2> QED BY <2>1, <2>2, <2>3
  <1>2. PICK y : reader' = [reader EXCEPT ![r] = y] /\ Follows(x, y) /\ y.pc # "idle"
    BY <1>1
  <1>3. ServiceInv'
    BY <1>same, <1>2, OneFollows
  <1>4. reader'[r] = y /\ \A q \in Readers : q # r => reader'[q] = reader[q]
    BY <1>2 DEF WaitInv, Waits, ReadersOK
  <1> QED BY <1>2, <1>3, <1>4 DEF Follows

(* An encoding begins or is waited for.                                    *)
LEMMA EncodeMissServes ==
  ASSUME WaitInv, WaitInv', AnswerInv, AnswerInv', ServiceInv, NEW r \in Readers, EncodeMiss(r)
  PROVE  /\ ServiceInv'
         /\ \A q \in Readers : /\ Follows(reader[q], reader'[q])
                               /\ reader'[q].pc = "idle" => reader[q].pc = "idle"
  <1> DEFINE x == reader[r]
             k == KeyOf(x)
             pc == IF k \in heap[x.e].variantFlights THEN "variant_wait" ELSE "variant"
  <1>1. PICK y : y = [x EXCEPT !.pc = pc]
    OBVIOUS
  <1>2. /\ reader' = [reader EXCEPT ![r] = y] /\ x.pc = "encode" /\ UNCHANGED <<archiveVars, entries, shown>>
        /\ heap' = [heap EXCEPT ![x.e].variantFlights = @ \cup {k}]
    BY <1>1 DEF EncodeMiss, Go, At, Unanswered
  <1>3. DOMAIN x = Fields \cup {"v", "e"} /\ x.e \in DOMAIN heap
    BY <1>2, AtFields DEF Bearing, Fields
  <1>4. /\ DOMAIN y = DOMAIN x /\ y.pc \in {"variant", "variant_wait"} /\ y.height = x.height
        /\ y.view = x.view /\ y.floor = x.floor /\ y.v = x.v /\ y.e = x.e
    BY <1>1, <1>3 DEF Fields
  <1>5. Onward(x, y)
    BY <1>2, <1>3, <1>4 DEF Onward, Choosing
  <1>6. reader'[r] = y /\ \A q \in Readers : q # r => reader'[q] = reader[q]
    BY <1>2 DEF WaitInv, Waits, ReadersOK
  <1>7. \A q \in Readers : Follows(reader[q], reader'[q]) /\ (reader'[q].pc = "idle" => reader[q].pc = "idle")
    BY <1>4, <1>5, <1>6 DEF Follows
  <1>8. PICK o : o = [heap[x.e] EXCEPT !.variantFlights = @ \cup {k}]
    OBVIOUS
  <1>9. /\ o.height = heap[x.e].height /\ Same(o, heap[x.e]) /\ o.variants = heap[x.e].variants
        /\ o.size = heap[x.e].size
    BY <1>8 DEF Same
  <1>10. DOMAIN heap' = DOMAIN heap /\ heap'[x.e] = o /\ \A i \in DOMAIN heap : i # x.e => heap'[i] = heap[i]
    BY <1>2, <1>3, <1>8
  <1>11. Grown(Now, heap, heap')
    <2>1. ReportAt(Now, heap[x.e])
      BY <1>3 DEF AnswerInv, Answerable
    <2>2. ReportAt(Now, o)
      BY <1>9, <2>1, ReportTouched
    <2> QED BY <1>9, <1>10, <2>2, OneReport
  <1>12. \A q \in Readers : Building(reader'[q]) => heap'[reader'[q].e].size = heap[reader'[q].e].size
    <2> TAKE q \in Readers
    <2> HAVE Building(reader'[q])
    <2>1. reader'[q].e \in DOMAIN heap'
      BY DEF Building, WaitInv, Waits, HeapOK
    <2>2. CASE reader'[q].e = x.e
      BY <1>9, <1>10, <2>2
    <2>3. CASE reader'[q].e # x.e
      <3>1. heap'[reader'[q].e] = heap[reader'[q].e]
        BY <1>10, <2>1, <2>3
      <3> QED BY <3>1
    <2> QED BY <2>2, <2>3
  <1>13. \A h \in Heights : entries'[h] \in {Nothing, entries[h]}
    BY <1>2
  <1>14. ServiceInv'
    BY <1>2, <1>7, <1>11, <1>12, <1>13, ShownSame, FollowSteps
  <1> QED BY <1>7, <1>14

(* A request and its new report.                                           *)
LEMMA NewReportServes ==
  ASSUME WaitInv, WaitInv', AnswerInv, AnswerInv', ServiceInv, NEW r \in Readers, UNCHANGED <<archiveVars, shown>>,
         NEW y, reader' = [reader EXCEPT ![r] = y], NEW h \in Heights, NEW v,
         Known(Now, v, h), v.found => Newest(Now, v, h),
         y.e = FreeId, y.pc \in Choosing => ~v.found,
         NEW hp, hp = Put(heap, FreeId, NewReport(h, v)), Heap(hp),
         \A g \in Heights : entries'[g] \in {Nothing, entries[g]},
         "e" \in DOMAIN y,
         ASSUME r \in Watched, NEW hp2, hp2[y.e].found = v.found, hp2[y.e].evidence = v.evidence
         PROVE  FloorAt(Now, y, hp2)
  PROVE  ServiceInv'
  <1>1. /\ DOMAIN hp = DOMAIN heap \cup {FreeId} /\ hp[FreeId] = NewReport(h, v)
        /\ \A j \in DOMAIN heap : hp[j] = heap[j]
    BY NewReportFields
  <1>2. FreeId \notin DOMAIN heap
    BY FreeIdIsFree
  <1>3. \A i \in DOMAIN heap' : i \in DOMAIN hp /\ heap'[i] = hp[i]
    BY HeapOld
  <1>4. Grown(Now, heap, heap')
    BY <1>3, NewReportGrown
  <1>5. reader'[r] = y /\ \A q \in Readers : q # r => reader'[q] = reader[q]
    BY DEF WaitInv, Waits, ReadersOK
  <1>6. /\ y.e \in DOMAIN heap'
        /\ \A q \in Readers : "e" \in DOMAIN reader'[q] => reader'[q].e \in DOMAIN heap'
    BY <1>5 DEF WaitInv, Waits, HeapOK
  <1>7. PICK o : o = NewReport(h, v)
    OBVIOUS
  <1>8. o.found = v.found /\ o.evidence = v.evidence /\ o.size = ReportSize
    BY <1>7 DEF NewReport
  <1>9. heap'[y.e] = o
    BY <1>1, <1>3, <1>6, <1>7
  <1>10. ReaderMoves(r, reader, heap, entries, reader', heap', entries')
    <2>1. BuilderMoves(r, reader, heap, reader', heap')
      <3>1. heap'[reader'[r].e].size = ReportSize /\ reader'[r].e \notin DOMAIN heap
        BY <1>2, <1>5, <1>8, <1>9
      <3>2. \A q \in Readers : q # r => ~Holds(reader'[q], reader'[r].e)
        BY <1>2, <1>5 DEF Holds, WaitInv, Waits, HeapOK
      <3> QED BY <3>1, <3>2 DEF BuilderMoves
    <2>2. HoldMoves(r, reader, heap, entries, reader')
      BY <1>2, <1>5 DEF HoldMoves
    <2>3. reader'[r].pc \in Choosing => ~heap'[reader'[r].e].found
      BY <1>5, <1>8, <1>9
    <2> QED BY <2>1, <2>2, <2>3 DEF ReaderMoves
  <1>11. ASSUME NEW q \in Readers, q # r
         PROVE  /\ Follows(reader[q], reader'[q])
                /\ ReaderMoves(q, reader, heap, entries, reader', heap', entries')
    <2>1. Follows(reader[q], reader'[q])
      BY <1>5, <1>11 DEF Follows
    <2>2. ASSUME Building(reader'[q]) PROVE heap'[reader'[q].e].size = heap[reader'[q].e].size
      <3>1. reader'[q].e \in DOMAIN heap /\ reader'[q].e \in DOMAIN heap'
        BY <1>5, <1>6, <1>11, <2>2 DEF Building, WaitInv, Waits, HeapOK
      <3>2. heap'[reader'[q].e] = heap[reader'[q].e]
        BY <1>1, <1>3, <3>1
      <3> QED BY <3>2
    <2> QED BY <2>1, <2>2, FollowsMoves
  <1>12. \A q \in Readers : ReaderMoves(q, reader, heap, entries, reader', heap', entries')
    BY <1>10, <1>11
  <1>13. \A q \in Watched : FloorAt(Now, reader'[q], heap')
    <2> TAKE q \in Watched
    <2>1. q \in Readers
      BY CacheAssumption
    <2>2. CASE q = r
      <3>1. heap'[y.e].found = v.found /\ heap'[y.e].evidence = v.evidence
        BY <1>8, <1>9
      <3>2. FloorAt(Now, y, heap')
        BY <2>2, <3>1
      <3> QED BY <1>5, <2>2, <3>2
    <2>3. CASE q # r
      BY <1>4, <1>11, <2>1, <2>3, FloorsStay
    <2> QED BY <2>2, <2>3
  <1>14. \A g \in Heights : EntryMoves(g, reader, heap, entries, reader', entries')
    BY DEF EntryMoves
  <1> QED BY <1>4, <1>12, <1>13, <1>14, ShownSame, ServiceStays

(* A height that is not retained is answered by its header.                *)
LEMMA LookupAbsentServes ==
  ASSUME WaitInv, WaitInv', AnswerInv, AnswerInv', ServiceInv, NEW r \in Readers, LookupAbsent(r)
  PROVE  ServiceInv'
  <1> DEFINE x == reader[r]
             h == x.height
             v == x.v
  <1>1. PICK y : y = Put([x EXCEPT !.pc = "encode"], "e", FreeId)
    OBVIOUS
  <1>2. PICK hp : hp = Put(heap, FreeId, NewReport(h, v))
    OBVIOUS
  <1>3. /\ reader' = [reader EXCEPT ![r] = y] /\ x.pc = "lookup" /\ ~v.found
        /\ entries' = Drop(entries, h) /\ UNCHANGED <<archiveVars, shown>> /\ Heap(hp)
    BY <1>1, <1>2 DEF LookupAbsent, Go, At, Unanswered
  <1>4. DOMAIN x = Fields \cup {"v"} /\ h \in Heights
    BY <1>3, AtFields
  <1>5. /\ y.pc = "encode" /\ y.height = h /\ y.view = x.view /\ y.floor = x.floor /\ y.v = v /\ y.e = FreeId
        /\ "e" \in DOMAIN y
    BY <1>1, <1>4 DEF Put, Fields
  <1>6. x.pc \in Versioned
    BY <1>3 DEF Versioned
  <1>7. Known(Now, v, h)
    BY <1>6 DEF AnswerInv, Answerable, RequestAt
  <1>8. \A g \in Heights : entries'[g] \in {Nothing, entries[g]}
    BY <1>3 DEF Drop, WaitInv, Waits, HeapOK
  <1>9. ASSUME r \in Watched, NEW hp2, hp2[y.e].found = v.found, hp2[y.e].evidence = v.evidence
        PROVE  FloorAt(Now, y, hp2)
    <2>1. /\ Floored(Now, x.floor, h) /\ (x.view = "compact" => x.floor.evidence = 0)
          /\ x.floor.catalogue <= v.catalogue
          /\ ~v.found /\ x.floor.found => h \notin HeldIn(Now)
      BY <1>3, <1>6, <1>9 DEF ServiceInv, FloorAt
    <2> HIDE DEF h, v
    <2> QED BY <1>3, <1>5, <1>9, <2>1 DEF FloorAt
  <1> HIDE DEF x, h, v
  <1> QED BY <1>2, <1>3, <1>4, <1>5, <1>7, <1>8, <1>9, NewReportServes

(* A builder or a capture takes the evidence.                              *)
LEMMA CaptureServes ==
  ASSUME WaitInv, WaitInv', AnswerInv, AnswerInv', ServiceInv, NEW r \in Readers, Capture(r)
  PROVE  ServiceInv'
  <1> DEFINE x == reader[r]
             h == x.height
             pc == IF x.pc = "build" THEN "built" ELSE "captured"
  <1>1. PICK v : v = Version(h)
    OBVIOUS
  <1>2. PICK y : y = Put(Put([x EXCEPT !.pc = pc], "v", v), "e", FreeId)
    OBVIOUS
  <1>3. PICK hp : hp = Put(heap, FreeId, NewReport(h, v))
    OBVIOUS
  <1>4. /\ reader' = [reader EXCEPT ![r] = y] /\ x.pc \in {"build", "capture"}
        /\ UNCHANGED <<archiveVars, entries, shown>> /\ Heap(hp)
    BY <1>1, <1>2, <1>3 DEF Capture, Go, At, Unanswered
  <1>5. DOMAIN x = Fields /\ h \in Heights
    BY <1>4, AtFields DEF Starting
  <1>6. PICK u : u = Put([x EXCEPT !.pc = pc], "v", v)
    OBVIOUS
  <1>7. DOMAIN u = Fields \cup {"v"} /\ u.pc = pc /\ u.height = h /\ u.view = x.view /\ u.floor = x.floor
        /\ u.v = v
    BY <1>5, <1>6 DEF Put, Fields
  <1>8. /\ y.pc = pc /\ y.height = h /\ y.view = x.view /\ y.floor = x.floor /\ y.v = v /\ y.e = FreeId
        /\ "e" \in DOMAIN y
    <2>1. y = Put(u, "e", FreeId)
      BY <1>2, <1>6
    <2> QED BY <2>1, <1>7 DEF Put, Fields
  <1>9. Newest(Now, v, h) /\ Known(Now, v, h)
    <2>1. Newest(Now, v, h)
      BY <1>1, <1>5, VersionIs DEF AnswerInv
    <2> QED BY <2>1 DEF Newest
  <1>10. \A g \in Heights : entries'[g] \in {Nothing, entries[g]}
    BY <1>4
  <1>11. ASSUME r \in Watched, NEW hp2, hp2[y.e].found = v.found, hp2[y.e].evidence = v.evidence
         PROVE  FloorAt(Now, y, hp2)
    <2>1. FloorAt(Now, x, heap)
      BY <1>11 DEF ServiceInv
    <2>2. /\ Floored(Now, x.floor, h) /\ (x.view = "compact" => x.floor.evidence = 0)
          /\ x.pc = "capture" => x.view = "capture"
      BY <1>4, <2>1 DEF FloorAt
    <2>3. /\ x.floor.catalogue <= v.catalogue
          /\ v.found => x.floor.evidence <= v.evidence /\ x.floor.seal <= v.seal /\ x.floor.lost <= v.lost
          /\ ~v.found /\ x.floor.found => h \notin HeldIn(Now)
      BY <1>1, <1>5, <2>2, VersionFloor DEF AnswerInv
    <2>4. y.pc \in {"capture", "captured"} => y.view = "capture"
      BY <1>4, <1>8, <2>2
    <2> HIDE DEF x, h, pc
    <2> QED BY <1>8, <1>11, <2>2, <2>3, <2>4 DEF FloorAt
  <1>12. y.pc \notin Choosing
    BY <1>8 DEF Choosing
  <1> HIDE DEF x, h, pc
  <1> QED BY <1>3, <1>4, <1>5, <1>8, <1>9, <1>10, <1>11, <1>12, NewReportServes

(* What a request is about stays while it is being worked on.              *)
Keeps(x, y) ==
  /\ y.pc = "idle" <=> x.pc = "idle"
  /\ x.pc # "idle" => y.height = x.height /\ y.view = x.view /\ y.floor = x.floor

(* A request that follows its own course is still the same request.        *)
LEMMA FollowsKeeps ==
  ASSUME NEW x, NEW y, Follows(x, y), y.pc = "idle" => x.pc = "idle"
  PROVE  Keeps(x, y)
  <1>1. CASE y = x
    BY <1>1 DEF Keeps
  <1>2. CASE y = Idle
    <2>1. y.pc = "idle"
      BY <1>2 DEF Idle
    <2> QED BY <2>1 DEF Keeps
  <1>3. CASE Over(x, y)
    BY <1>3 DEF Over, Keeps, Starting
  <1>4. CASE Onward(x, y)
    BY <1>4 DEF Onward, Keeps, Choosing
  <1> QED BY <1>1, <1>2, <1>3, <1>4 DEF Follows

(* What an answer shows is no newer than what its reader may yet be shown. *)
LEMMA FinishShows ==
  ASSUME WaitInv, AnswerInv, ServiceInv, NEW r \in Readers, reader'[r] = Idle,
         FinishCapture(r) \/ EncodeHit(r) \/ StoreVariant(r)
  PROVE  /\ shown' \in [Watched -> [Heights -> Nat]]
         /\ \A q \in Watched, h \in Heights :
              ShownMoves(Now, q, h, reader, heap, entries, reader', shown[q][h], shown'[q][h])
  <1>1. PICK x : x = reader[r]
    OBVIOUS
  <1>2. PICK e : e = heap[x.e]
    OBVIOUS
  <1>3. PICK body : Finish(r, body) /\ Same(body, e)
    BY <1>1, <1>2, Answered
  <1>4. x.pc \in Settled
    BY <1>1 DEF FinishCapture, EncodeHit, StoreVariant, At, Settled, Choosing
  <1>5. x.height \in Heights /\ ReportAt(Now, e) /\ e.height = x.height
    BY <1>1, <1>2, <1>4, SettledRequest
  <1>6. CASE r \notin Watched \/ x.view = "capture"
    <2>1. shown' = shown
      BY <1>1, <1>3, <1>6 DEF Finish, Unanswered
    <2> QED BY <2>1, ShownSame
  <1>7. CASE r \in Watched /\ x.view # "capture"
    <2>1. PICK m : m = e.evidence
      OBVIOUS
    <2>2. PICK g : g = x.height
      OBVIOUS
    <2>3. g \in Heights /\ Known(Now, e, g) /\ m \in Nat
      BY <1>5, <2>1, <2>2 DEF ReportAt, Known
    <2>4. shown' = [shown EXCEPT ![r][g] = Larger(@, m)]
      <3>1. shown' = [shown EXCEPT ![r][g] = Larger(@, body.evidence)]
        BY <1>1, <1>3, <1>7, <2>2 DEF Finish
      <3> QED BY <3>1, <1>3, <2>1 DEF Same
    <2>5. shown \in [Watched -> [Heights -> Nat]]
      BY DEF ServiceInv
    <2>6. PICK n : n = shown[r][g]
      OBVIOUS
    <2>7. n \in Nat
      BY <1>7, <2>3, <2>5, <2>6
    <2>8. Larger(n, m) \in {n, m} /\ Larger(n, m) \in Nat /\ (m = 0 => Larger(n, m) = n)
      BY <2>3, <2>7 DEF Larger
    <2>9. /\ shown' \in [Watched -> [Heights -> Nat]] /\ shown'[r][g] = Larger(n, m)
          /\ \A q \in Watched, h \in Heights : q # r \/ h # g => shown'[q][h] = shown[q][h]
      BY <1>7, <2>3, <2>4, <2>5, <2>6, <2>8
    <2>10. x.pc \in Choosing
      <3>1. x.pc \in {"capture", "captured"} => x.view = "capture"
        BY <1>1, <1>7 DEF ServiceInv, FloorAt
      <3> QED BY <1>4, <1>7, <3>1 DEF Settled
    <2>11. Within(Now, n, g) /\ AtMost(reader, heap, entries, n, g)
      BY <1>7, <2>3, <2>6 DEF ServiceInv, Rising, ShownAt
    <2>12. e.found => Within(Now, m, g) /\ AtMost(reader, heap, entries, m, g)
      <3>1. Within(Now, m, g)
        BY <2>1, <2>3, KnownWithin DEF AnswerInv
      <3>2. ChosenBelow(r, reader, heap, entries)
        BY DEF ServiceInv, Rising
      <3>3. e.found => AtMost(reader, heap, entries, m, g)
        BY <1>1, <1>2, <2>1, <2>2, <2>10, <3>2 DEF ChosenBelow
      <3> QED BY <3>1, <3>3
    <2>13. Within(Now, Larger(n, m), g) /\ AtMost(reader, heap, entries, Larger(n, m), g)
      <3>1. CASE e.found
        BY <2>8, <2>11, <2>12, <3>1
      <3>2. CASE ~e.found
        <4>1. m = 0
          BY <2>1, <2>3, <3>2 DEF Known
        <4> QED BY <2>8, <2>11, <4>1
      <3> QED BY <3>1, <3>2
    <2>14. reader'[r].pc \notin Choosing
      BY DEF Idle, Choosing
    <2> QED BY <2>9, <2>13, <2>14 DEF ShownMoves
  <1> QED BY <1>6, <1>7

(* A request that ends.                                                    *)
LEMMA EndServes ==
  ASSUME WaitInv, WaitInv', AnswerInv, AnswerInv', ServiceInv, NEW r \in Readers,
         FinishCapture(r) \/ EncodeHit(r) \/ CancelWaiting(r)
  PROVE  /\ ServiceInv' /\ reader'[r] = Idle
         /\ \A q \in Readers : q # r => Keeps(reader[q], reader'[q])
  <1>1. UNCHANGED <<archiveVars, entries>> /\ reader' = [reader EXCEPT ![r] = Idle] /\ Heap(heap)
    BY DEF FinishCapture, EncodeHit, CancelWaiting
  <1>2. reader'[r] = Idle /\ \A q \in Readers : q # r => reader'[q] = reader[q]
    BY <1>1 DEF WaitInv, Waits, ReadersOK
  <1>3. \A i \in DOMAIN heap' : i \in DOMAIN heap /\ heap'[i] = heap[i]
    BY <1>1, HeapOld
  <1>4. Grown(Now, heap, heap')
    BY <1>3, OldReports
  <1>5. \A q \in Readers : Follows(reader[q], reader'[q])
    BY <1>2 DEF Follows
  <1>6. \A q \in Readers : Building(reader'[q]) => heap'[reader'[q].e].size = heap[reader'[q].e].size
    <2> TAKE q \in Readers
    <2> HAVE Building(reader'[q])
    <2>1. reader'[q].e \in DOMAIN heap'
      BY DEF Building, WaitInv, Waits, HeapOK
    <2>2. heap'[reader'[q].e] = heap[reader'[q].e]
      BY <1>3, <2>1
    <2> QED BY <2>2
  <1>7. \A h \in Heights : entries'[h] \in {Nothing, entries[h]}
    BY <1>1
  <1>8. /\ shown' \in [Watched -> [Heights -> Nat]]
        /\ \A q \in Watched, h \in Heights :
             ShownMoves(Now, q, h, reader, heap, entries, reader', shown[q][h], shown'[q][h])
    <2>1. CASE FinishCapture(r) \/ EncodeHit(r)
      BY <1>2, <2>1, FinishShows
    <2>2. CASE CancelWaiting(r)
      BY <2>2, ShownSame DEF CancelWaiting, Unanswered
    <2> QED BY <2>1, <2>2
  <1>9. ServiceInv'
    BY <1>1, <1>4, <1>5, <1>6, <1>7, <1>8, FollowSteps
  <1> QED BY <1>2, <1>9 DEF Keeps

(* Who waits for an encoding and is woken goes on.                         *)
LEMMA WokenVariantFollows ==
  ASSUME WaitInv, NEW q \in Readers, NEW x
  PROVE  /\ Follows(reader[q], WokenVariant(q, x)) /\ Keeps(reader[q], WokenVariant(q, x))
         /\ Building(WokenVariant(q, x)) => WokenVariant(q, x) = reader[q]
  <1> DEFINE z == reader[q]
  <1>1. CASE WokenVariant(q, x) = z
    BY <1>1 DEF Follows, Keeps
  <1>2. CASE WokenVariant(q, x) # z
    <2>1. z.pc = "variant_wait" /\ WokenVariant(q, x) = [z EXCEPT !.pc = "encode"]
      BY <1>2 DEF WokenVariant, At, Go
    <2>2. DOMAIN z = Fields \cup {"v", "e"}
      BY <2>1, AtFields DEF Bearing
    <2>3. PICK y : y = [z EXCEPT !.pc = "encode"]
      OBVIOUS
    <2>4. /\ DOMAIN y = DOMAIN z /\ y.pc = "encode" /\ y.v = z.v /\ y.e = z.e /\ y.height = z.height
          /\ y.view = z.view /\ y.floor = z.floor
      BY <2>2, <2>3 DEF Fields
    <2>5. Onward(z, y)
      BY <2>1, <2>2, <2>4 DEF Onward, Choosing
    <2>6. Follows(z, y) /\ ~Building(y) /\ y.pc # "idle"
      BY <2>4, <2>5 DEF Follows, Building
    <2>7. Keeps(z, y)
      BY <2>6, FollowsKeeps
    <2> QED BY <2>1, <2>3, <2>6, <2>7
  <1> QED BY <1>1, <1>2

(* An encoder leaves.                                                      *)
LEMMA EncoderServes ==
  ASSUME WaitInv, WaitInv', AnswerInv, AnswerInv', ServiceInv, NEW r \in Readers, reader[r].pc \in Encoding,
         UNCHANGED archiveVars,
         reader' = [q \in Readers |-> IF q = r THEN Idle ELSE WokenVariant(q, reader[r])],
         NEW o, o.height = heap[reader[r].e].height, Same(o, heap[reader[r].e]), ReportAt(Now, o),
         NEW hp, hp = [heap EXCEPT ![reader[r].e] = o], Heap(hp),
         \A h \in Heights : entries'[h] \in {Nothing, entries[h]},
         shown' \in [Watched -> [Heights -> Nat]],
         \A q \in Watched, h \in Heights :
            ShownMoves(Now, q, h, reader, heap, entries, reader', shown[q][h], shown'[q][h])
  PROVE  /\ ServiceInv' /\ reader'[r] = Idle
         /\ \A q \in Readers : q # r => Keeps(reader[q], reader'[q])
  <1> DEFINE x == reader[r]
  <1>1. DOMAIN x = Fields \cup {"v", "e"} /\ x.e \in DOMAIN heap
    BY AtFields DEF Bearing, Encoding, Fields
  <1>2. DOMAIN hp = DOMAIN heap /\ hp[x.e] = o /\ \A i \in DOMAIN heap : i # x.e => hp[i] = heap[i]
    BY <1>1
  <1>3. \A i \in DOMAIN heap' : i \in DOMAIN hp /\ heap'[i] = hp[i]
    BY HeapOld
  <1>4. Grown(Now, heap, heap')
    BY <1>2, <1>3, OneReport
  <1>5. reader'[r] = Idle /\ \A q \in Readers : q # r => reader'[q] = WokenVariant(q, x)
    OBVIOUS
  <1>6. /\ \A q \in Readers : Follows(reader[q], reader'[q])
        /\ \A q \in Readers : q # r => Keeps(reader[q], reader'[q])
    BY <1>5, WokenVariantFollows DEF Follows
  <1>7. \A q \in Readers : Building(reader'[q]) => heap'[reader'[q].e].size = heap[reader'[q].e].size
    <2> TAKE q \in Readers
    <2> HAVE Building(reader'[q])
    <2>1. q # r
      BY <1>5 DEF Building, Idle
    <2>2. reader'[q] = reader[q] /\ Building(reader[q])
      BY <1>5, <2>1, WokenVariantFollows
    <2>3. reader[q].e # x.e
      <3>1. PrivateAt(q, reader, heap, entries)
        BY DEF ServiceInv, Rising
      <3> QED BY <1>1, <2>1, <2>2, <3>1 DEF PrivateAt, Holds
    <2>4. reader'[q].e \in DOMAIN heap'
      BY DEF Building, WaitInv, Waits, HeapOK
    <2>5. heap'[reader'[q].e] = heap[reader'[q].e]
      BY <1>2, <1>3, <2>2, <2>3, <2>4
    <2> QED BY <2>5
  <1>8. ServiceInv'
    BY <1>4, <1>6, <1>7, FollowSteps
  <1> QED BY <1>5, <1>6, <1>8

(* The client of an encoder goes away before it begins.                    *)
LEMMA CancelVariantServes ==
  ASSUME WaitInv, WaitInv', AnswerInv, AnswerInv', ServiceInv, NEW r \in Readers, CancelVariant(r)
  PROVE  /\ ServiceInv' /\ reader'[r] = Idle
         /\ \A q \in Readers : q # r => Keeps(reader[q], reader'[q])
  <1> DEFINE x == reader[r]
             e == heap[x.e]
  <1>1. PICK o : o = NoFlight(e, KeyOf(x))
    OBVIOUS
  <1>2. PICK hp : hp = [heap EXCEPT ![x.e] = o]
    OBVIOUS
  <1>3. /\ x.pc \in Encoding /\ UNCHANGED <<archiveVars, entries, shown>> /\ Heap(hp)
        /\ reader' = [q \in Readers |-> IF q = r THEN Idle ELSE WokenVariant(q, x)]
    BY <1>1, <1>2 DEF CancelVariant, At, Encoding, Unanswered
  <1>4. x.e \in DOMAIN heap
    BY <1>3, AtFields DEF Bearing, Encoding, Fields
  <1>5. o.height = e.height /\ Same(o, e) /\ o.variants = e.variants
    BY <1>1, NoFlightTouched
  <1>6. ReportAt(Now, o)
    <2>1. ReportAt(Now, e)
      BY <1>4 DEF AnswerInv, Answerable
    <2> QED BY <1>5, <2>1, ReportTouched
  <1>7. \A h \in Heights : entries'[h] \in {Nothing, entries[h]}
    BY <1>3
  <1>8. /\ shown' \in [Watched -> [Heights -> Nat]]
        /\ \A q \in Watched, h \in Heights :
             ShownMoves(Now, q, h, reader, heap, entries, reader', shown[q][h], shown'[q][h])
    BY <1>3, ShownSame
  <1> HIDE DEF x, e
  <1>9. reader[r] = x /\ heap[reader[r].e] = e
    BY DEF x, e
  <1> QED BY <1>2, <1>3, <1>5, <1>6, <1>7, <1>8, <1>9, EncoderServes

(* An encoder finishes.                                                    *)
LEMMA StoreVariantServes ==
  ASSUME WaitInv, WaitInv', AnswerInv, AnswerInv', ServiceInv, NEW r \in Readers, StoreVariant(r)
  PROVE  /\ ServiceInv' /\ reader'[r] = Idle
         /\ \A q \in Readers : q # r => Keeps(reader[q], reader'[q])
  <1> DEFINE x == reader[r]
             e == heap[x.e]
             k == KeyOf(x)
             full == NoFlight(WithVariant(e, k, Body(e, x.v)), k)
             bare == NoFlight(e, k)
             hpf == [heap EXCEPT ![x.e] = full]
             hpb == [heap EXCEPT ![x.e] = bare]
  <1>1. /\ x.pc = "encoded" /\ UNCHANGED archiveVars
        /\ reader' = [q \in Readers |-> IF q = r THEN Idle ELSE WokenVariant(q, x)]
    BY DEF StoreVariant, At
  <1>2. \/ Heap(hpb) /\ entries' = entries
        \/ Heap(hpf) /\ \E total : \E left \in Trims(entries, hpf, total) : entries' = left.entries
    BY DEF StoreVariant
  <1>3. /\ x.e \in DOMAIN heap /\ ReportAt(Now, e) /\ e.height = x.height
        /\ Known(Now, x.v, x.height) /\ Catalogued(Now, x.v, x.v, x.height)
        /\ e.seal = x.v.seal /\ (e.found => x.v.found)
    BY <1>1, SettledRequest DEF Settled, Choosing
  <1>4. k[2] = x.v.catalogue
    BY DEF KeyOf
  <1>5. x.pc \in Encoding
    BY <1>1 DEF Encoding
  <1>6. reader'[r] = Idle
    BY <1>1
  <1>7. /\ shown' \in [Watched -> [Heights -> Nat]]
        /\ \A q \in Watched, h \in Heights :
             ShownMoves(Now, q, h, reader, heap, entries, reader', shown[q][h], shown'[q][h])
    BY <1>6, FinishShows
  <1>8. CASE Heap(hpb) /\ entries' = entries
    <2>1. PICK o : o = bare
      OBVIOUS
    <2>2. o.height = e.height /\ Same(o, e) /\ o.variants = e.variants
      BY <2>1, NoFlightTouched
    <2>3. ReportAt(Now, o)
      BY <1>3, <2>2, ReportTouched
    <2>4. Heap([heap EXCEPT ![x.e] = o])
      BY <1>8, <2>1
    <2>5. \A h \in Heights : entries'[h] \in {Nothing, entries[h]}
      BY <1>8
    <2> QED BY <1>1, <1>5, <1>7, <2>2, <2>3, <2>4, <2>5, EncoderServes
  <1>9. CASE Heap(hpf) /\ \E total : \E left \in Trims(entries, hpf, total) : entries' = left.entries
    <2>1. PICK o : o = full
      OBVIOUS
    <2>2. o.height = e.height /\ Same(o, e) /\ ReportAt(Now, o)
      BY <1>3, <1>4, <2>1, WithVariantReport
    <2>3. Heap([heap EXCEPT ![x.e] = o])
      BY <1>9, <2>1
    <2>4. \A h \in Heights : entries'[h] \in {Nothing, entries[h]}
      <3> HIDE DEF hpf
      <3>1. PICK total : \E left \in Trims(entries, hpf, total) : entries' = left.entries
        BY <1>9
      <3>2. PICK left \in Trims(entries, hpf, total) : entries' = left.entries
        BY <3>1
      <3>3. \A h \in Heights : left.entries[h] \in {entries[h], Nothing}
        BY TrimsEntries
      <3> QED BY <3>2, <3>3
    <2> QED BY <1>1, <1>5, <1>7, <2>2, <2>3, <2>4, EncoderServes
  <1> QED BY <1>2, <1>8, <1>9

(* What a publication makes of the entries, exactly.                       *)
LEMMA PublishChanges ==
  ASSUME WaitInv, NEW r \in Readers, PublishEntry(reader[r])
  PROVE  LET x == reader[r]
             fits == Built(x) /\ x.v.found /\ heap[x.e].found /\ heap[x.e].size <= CacheBytes
         IN  /\ \A h \in Heights : h # x.height => entries'[h] \in {Nothing, entries[h]}
             /\ fits /\ x.height \in Heights => entries'[x.height] \in {Nothing, x.e}
             /\ ~fits => entries' = entries
  <1> DEFINE x == reader[r]
             fits == Built(x) /\ x.v.found /\ heap[x.e].found /\ heap[x.e].size <= CacheBytes
             ent == [entries EXCEPT ![x.height] = x.e]
  <1>1. CASE ~fits
    <2>1. entries' = entries
      BY <1>1 DEF PublishEntry
    <2> QED BY <1>1, <2>1
  <1>2. CASE fits
    <2>1. \E total : \E left \in Trims(ent, heap, total) : entries' = left.entries
      BY <1>2 DEF PublishEntry
    <2>2. PICK total : \E left \in Trims(ent, heap, total) : entries' = left.entries
      BY <2>1
    <2>3. PICK left \in Trims(ent, heap, total) : entries' = left.entries
      BY <2>2
    <2>4. \A h \in Heights : ent[h] = IF h = x.height THEN x.e ELSE entries[h]
      BY DEF WaitInv, Waits, HeapOK
    <2> HIDE DEF ent
    <2>5. \A h \in Heights : left.entries[h] \in {ent[h], Nothing}
      BY TrimsEntries
    <2>6. \A h \in Heights : entries'[h] \in {Nothing, IF h = x.height THEN x.e ELSE entries[h]}
      BY <2>3, <2>4, <2>5
    <2> QED BY <1>2, <2>6
  <1> QED BY <1>1, <1>2

(* Who waits for a build and is woken goes on.                             *)
LEMMA WokenFollows ==
  ASSUME NEW q \in Readers, NEW h
  PROVE  /\ Follows(reader[q], Woken(q, h)) /\ Keeps(reader[q], Woken(q, h))
         /\ Building(Woken(q, h)) => Woken(q, h) = reader[q]
  <1> DEFINE z == reader[q]
  <1>1. CASE Woken(q, h) = z
    BY <1>1 DEF Follows, Keeps
  <1>2. CASE Woken(q, h) # z
    <2>1. z.pc = "wait" /\ Woken(q, h) = [Asked(z) EXCEPT !.pc = "version"]
      BY <1>2 DEF Woken, At
    <2>2. PICK y : y = [Asked(z) EXCEPT !.pc = "version"]
      OBVIOUS
    <2>3. DOMAIN y = Fields /\ y.pc = "version" /\ y.height = z.height /\ y.view = z.view /\ y.floor = z.floor
      BY <2>2 DEF Asked, Fields
    <2>4. Over(z, y)
      BY <2>1, <2>3 DEF Over, Starting
    <2>5. Follows(z, y) /\ ~Building(y) /\ y.pc # "idle"
      BY <2>3, <2>4 DEF Follows, Building
    <2>6. Keeps(z, y)
      BY <2>5, FollowsKeeps
    <2> QED BY <2>1, <2>2, <2>5, <2>6
  <1> QED BY <1>1, <1>2

(* What a builder does after its flight.                                   *)
LEMMA AfterFlight ==
  ASSUME WaitInv, NEW r \in Readers, reader[r].pc = "publish", NEW y \in AfterBuild(reader[r])
  PROVE  LET x == reader[r] IN
         \/ y = Idle \/ Over(x, y)
         \/ /\ Built(x) /\ x.v.found /\ "e" \in DOMAIN y /\ y.pc = "encode" /\ y.height = x.height
            /\ y.view = x.view /\ y.floor = x.floor /\ y.v = x.v /\ y.e = x.e
  <1> DEFINE x == reader[r]
             again == [Asked(x) EXCEPT !.pc = "version"]
             on == [x EXCEPT !.pc = "encode"]
  <1>1. y = Idle \/ y = again \/ (y = on /\ Built(x) /\ x.v.found)
    BY DEF AfterBuild
  <1>2. CASE y = again
    <2>1. DOMAIN y = Fields /\ y.pc = "version" /\ y.height = x.height /\ y.view = x.view /\ y.floor = x.floor
      BY <1>2 DEF Asked, Fields
    <2>2. Over(x, y)
      BY <2>1 DEF Over, Starting
    <2> QED BY <2>2
  <1>3. CASE y = on /\ Built(x) /\ x.v.found
    <2>1. DOMAIN x = Fields \cup {"v", "e"}
      BY <1>3, AtFields DEF Built, Fields
    <2>2. /\ DOMAIN y = DOMAIN x /\ y.pc = "encode" /\ y.height = x.height /\ y.view = x.view
          /\ y.floor = x.floor /\ y.v = x.v /\ y.e = x.e
      BY <1>3, <2>1 DEF Fields
    <2> QED BY <1>3, <2>1, <2>2 DEF Fields
  <1> QED BY <1>1, <1>2, <1>3

(* The end of a flight.                                                    *)
LEMMA PublishServes ==
  ASSUME WaitInv, WaitInv', AnswerInv, AnswerInv', ServiceInv, NEW r \in Readers, Publish(r)
  PROVE  /\ ServiceInv'
         /\ \A q \in Readers : q # r => Keeps(reader[q], reader'[q])
         /\ reader'[r] = Idle \/ Keeps(reader[r], reader'[r])
  <1> DEFINE x == reader[r]
             h == x.height
  <1>1. PICK y \in AfterBuild(x) : reader' = [q \in Readers |-> IF q = r THEN y ELSE Woken(q, h)]
    BY DEF Publish
  <1>2. /\ x.pc = "publish" /\ PublishEntry(x) /\ Heap(heap) /\ UNCHANGED <<archiveVars, shown>>
    BY DEF Publish, At, Unanswered
  <1>3. reader'[r] = y /\ \A q \in Readers : q # r => reader'[q] = Woken(q, h)
    BY <1>1
  <1>4. h \in Heights
    BY <1>2, AtFields
  <1> DEFINE on == /\ Built(x) /\ x.v.found /\ "e" \in DOMAIN y /\ y.pc = "encode" /\ y.height = h
                      /\ y.view = x.view /\ y.floor = x.floor /\ y.v = x.v /\ y.e = x.e
  <1>5. y = Idle \/ Over(x, y) \/ on
    BY <1>2, AfterFlight
  <1>6. \A i \in DOMAIN heap' : i \in DOMAIN heap /\ heap'[i] = heap[i]
    BY <1>2, HeapOld
  <1>7. Grown(Now, heap, heap')
    BY <1>6, OldReports
  <1>8. ~Building(y)
    BY <1>5 DEF Building, Idle, Over, Starting
  <1>9. NoneBuilding(reader', h)
    <2> SUFFICES ASSUME NEW q \in Readers, Building(reader'[q]), reader'[q].height = h PROVE FALSE
      BY DEF NoneBuilding
    <2>1. q # r
      BY <1>3, <1>8
    <2>2. Building(reader[q]) /\ reader[q].height = h
      BY <1>3, <2>1, WokenFollows
    <2>3. Flyer(reader, q, h) /\ Flyer(reader, r, h)
      BY <1>2, <2>2 DEF Flyer, Flying, Building
    <2> QED BY <1>4, <2>1, <2>3 DEF WaitInv, Waits, FlightsOK
  <1> DEFINE fits == Built(x) /\ x.v.found /\ heap[x.e].found /\ heap[x.e].size <= CacheBytes
  <1>10. /\ \A g \in Heights : g # h => entries'[g] \in {Nothing, entries[g]}
         /\ fits => entries'[h] \in {Nothing, x.e}
         /\ ~fits => entries' = entries
    BY <1>2, <1>4, PublishChanges
  <1>11. ASSUME NEW g \in Heights PROVE EntryMoves(g, reader, heap, entries, reader', entries')
    <2>1. CASE g = h /\ fits /\ entries'[h] = x.e
      <3>1. Building(reader[r])
        BY <1>2, <2>1 DEF Building, Built
      <3> QED BY <1>9, <2>1, <3>1 DEF EntryMoves
    <2>2. CASE ~(g = h /\ fits /\ entries'[h] = x.e)
      <3>1. entries'[g] \in {Nothing, entries[g]}
        BY <1>10, <2>2
      <3> QED BY <3>1 DEF EntryMoves
    <2> QED BY <2>1, <2>2
  <1>12. ASSUME NEW q \in Readers, q # r
         PROVE  /\ Follows(reader[q], reader'[q]) /\ Keeps(reader[q], reader'[q])
                /\ ReaderMoves(q, reader, heap, entries, reader', heap', entries')
    <2>1. /\ Follows(reader[q], reader'[q]) /\ Keeps(reader[q], reader'[q])
          /\ Building(reader'[q]) => reader'[q] = reader[q]
      BY <1>3, <1>12, WokenFollows
    <2>2. ASSUME Building(reader'[q]) PROVE heap'[reader'[q].e].size = heap[reader'[q].e].size
      <3>1. reader'[q].e \in DOMAIN heap'
        BY <2>2 DEF Building, WaitInv, Waits, HeapOK
      <3>2. heap'[reader'[q].e] = heap[reader'[q].e]
        BY <1>6, <3>1
      <3> QED BY <3>2
    <2> QED BY <2>1, <2>2, FollowsMoves
  <1>13. /\ ReaderMoves(r, reader, heap, entries, reader', heap', entries')
         /\ r \in Watched => FloorAt(Now, y, heap')
         /\ y = Idle \/ Keeps(x, y)
    <2>1. CASE y = Idle \/ Over(x, y)
      <3>1. Follows(reader[r], reader'[r])
        BY <1>3, <2>1 DEF Follows
      <3>2. ReaderMoves(r, reader, heap, entries, reader', heap', entries')
        BY <1>3, <1>8, <3>1, FollowsMoves
      <3>3. r \in Watched => FloorAt(Now, y, heap')
        BY <1>3, <1>7, <3>1, FloorsStay
      <3>4. y = Idle \/ Keeps(x, y)
        BY <2>1 DEF Over, Keeps, Starting
      <3> QED BY <3>2, <3>3, <3>4
    <2>2. CASE on
      <3>1. Building(reader[r]) /\ x.e \in DOMAIN heap /\ x.e \in DOMAIN heap'
        BY <1>2, <1>3, <2>2 DEF Building, Built, WaitInv, Waits, HeapOK
      <3>2. heap'[x.e] = heap[x.e]
        BY <1>6, <3>1
      <3>3. BuilderMoves(r, reader, heap, reader', heap') /\ HoldMoves(r, reader, heap, entries, reader')
        BY <1>3, <1>8, <2>2 DEF BuilderMoves, HoldMoves, Holds, Built
      <3>4. ASSUME heap[x.e].found PROVE ChoiceMoves(r, reader, entries, reader', entries')
        <4>1. entries'[h] \in {Nothing, x.e}
          <5>1. CASE fits
            BY <1>10, <5>1
          <5>2. CASE ~fits
            <6>1. ~(heap[x.e].size <= CacheBytes)
              BY <2>2, <3>4, <5>2
            <6>2. heap[x.e].size = ReportSize
              BY <3>1 DEF ServiceInv, Rising, PrivateAt
            <6>3. entries[h] # Nothing => ReportSize <= CacheBytes
              BY <1>4 DEF ServiceInv, Rising, EntryBelow
            <6> QED BY <1>10, <5>2, <6>1, <6>2, <6>3
          <5> QED BY <5>1, <5>2
        <4> QED BY <1>3, <1>9, <2>2, <3>1, <4>1 DEF ChoiceMoves
      <3>5. ReaderMoves(r, reader, heap, entries, reader', heap', entries')
        BY <1>3, <2>2, <3>2, <3>3, <3>4 DEF ReaderMoves
      <3>6. ASSUME r \in Watched PROVE FloorAt(Now, y, heap')
        <4>1. /\ Floored(Now, x.floor, h) /\ (x.view = "compact" => x.floor.evidence = 0)
              /\ x.floor.catalogue <= x.v.catalogue
              /\ x.v.found =>
                   x.floor.evidence <= x.v.evidence /\ x.floor.seal <= x.v.seal /\ x.floor.lost <= x.v.lost
              /\ ~x.v.found /\ x.floor.found => h \notin HeldIn(Now)
              /\ heap[x.e].found => x.floor.evidence <= heap[x.e].evidence
              /\ ~heap[x.e].found /\ x.floor.found => h \notin HeldIn(Now)
          BY <1>2, <2>2, <3>6 DEF ServiceInv, FloorAt, Versioned, Built
        <4> HIDE DEF h
        <4> QED BY <2>2, <3>2, <4>1 DEF FloorAt
      <3>7. Keeps(x, y)
        BY <1>2, <2>2 DEF Keeps
      <3> QED BY <3>5, <3>6, <3>7
    <2> QED BY <1>5, <2>1, <2>2
  <1>14. \A q \in Readers : ReaderMoves(q, reader, heap, entries, reader', heap', entries')
    BY <1>12, <1>13
  <1>15. \A q \in Watched : FloorAt(Now, reader'[q], heap')
    <2> TAKE q \in Watched
    <2>1. q \in Readers
      BY CacheAssumption
    <2> QED BY <1>3, <1>7, <1>12, <1>13, <2>1, FloorsStay
  <1>16. ServiceInv'
    BY <1>2, <1>7, <1>11, <1>14, <1>15, ShownSame, ServiceStays
  <1> QED BY <1>3, <1>12, <1>13, <1>16

(* What is known of a height is known later.                               *)
LEMMA WithinLater ==
  ASSUME NEW a, NEW b, Moved(a, b), ArchiveOK(a), ArchiveOK(b), NEW h \in Heights, NEW n, Within(a, n, h)
  PROVE  Within(b, n, h)
  <1>1. h \in Int /\ a.evicted \in Nat /\ b.evicted \in Nat /\ a.evicted <= b.evicted
    BY ArchiveAssumption DEF Moved, ArchiveOK
  <1>2. n \in Nat
    BY DEF Within
  <1>3. n > 0 /\ h \notin HeldIn(b) => h > 0 /\ h <= b.evicted
    BY <1>1 DEF Within, Moved
  <1>4. ASSUME h \in HeldIn(b) PROVE n <= b.archive[h].evidence
    <2>1. b.archive[h].evidence \in Nat
      BY <1>4 DEF ArchiveOK, Blocks
    <2>2. CASE h \in HeldIn(a)
      <3>1. Newer(a.archive[h], b.archive[h]) /\ n <= a.archive[h].evidence
        BY <1>4, <2>2 DEF Moved, Within
      <3>2. a.archive[h].evidence \in Nat
        BY <2>2 DEF ArchiveOK, Blocks
      <3> QED BY <1>2, <2>1, <3>1, <3>2 DEF Newer
    <2>3. CASE h \notin HeldIn(a)
      <3>1. h > a.evicted
        BY <1>4, <2>3 DEF Moved
      <3>2. ~(n > 0)
        BY <1>1, <2>3, <3>1 DEF Within
      <3> QED BY <1>2, <2>1, <3>2
    <2> QED BY <2>2, <2>3
  <1> QED BY <1>2, <1>3, <1>4 DEF Within

(* A height that was held when a request began does not come back.         *)
LEMMA GoneLater ==
  ASSUME NEW a, NEW b, Moved(a, b), ArchiveOK(a), NEW h \in Heights, NEW f, Floored(a, f, h),
         f.found, h \notin HeldIn(a)
  PROVE  h \notin HeldIn(b)
  <1>1. h \in Int /\ a.evicted \in Nat
    BY ArchiveAssumption DEF ArchiveOK
  <1> QED BY <1>1 DEF Floored, Moved

(* The tracker changes.                                                    *)
LEMMA TrackerServes ==
  ASSUME WaitInv, AnswerInv, ServiceInv, TrackerStep
  PROVE  ServiceInv'
  <1>1. /\ ArchiveOK(Now) /\ ArchiveOK(Now') /\ Moved(Now, Now')
        /\ UNCHANGED <<reader, heap, entries, shown>>
    <2>1. ArchiveNext /\ UNCHANGED <<reader, heap, entries, shown>> /\ ArchiveOK(Now)
      BY DEF TrackerStep, AnswerInv, Unanswered
    <2> QED BY <2>1, ArchiveMoves
  <1>2. ASSUME NEW r \in Watched PROVE FloorAt(Now', reader[r], heap)
    <2>1. PICK x : x = reader[r]
      OBVIOUS
    <2>2. FloorAt(Now, x, heap)
      BY <2>1 DEF ServiceInv
    <2>3. r \in Readers
      BY CacheAssumption
    <2>4. CASE x.pc = "idle"
      <3>1. "e" \notin DOMAIN x
        BY <2>1, <2>3, <2>4, AtFields DEF Bearing
      <3> QED BY <2>1, <2>4, <3>1 DEF FloorAt, Versioned, Bearing
    <2>5. CASE x.pc # "idle"
      <3>1. x.height \in Heights
        BY <2>1, <2>3, <2>5, AtFields
      <3>2. Floored(Now, x.floor, x.height)
        BY <2>2, <2>5 DEF FloorAt
      <3>3. Floored(Now', x.floor, x.height)
        BY <1>1, <3>1, <3>2, FlooredLater
      <3>4. x.floor.found /\ x.height \notin HeldIn(Now) => x.height \notin HeldIn(Now')
        BY <1>1, <3>1, <3>2, GoneLater
      <3> QED BY <2>1, <2>2, <2>5, <3>3, <3>4 DEF FloorAt
    <2> QED BY <2>1, <2>4, <2>5
  <1>3. ASSUME NEW r \in Watched, NEW h \in Heights
        PROVE  ShownAt(Now', shown[r][h], r, h, reader, heap, entries)
    <2>1. ShownAt(Now, shown[r][h], r, h, reader, heap, entries)
      BY DEF ServiceInv, Rising
    <2>2. Within(Now', shown[r][h], h)
      BY <1>1, <2>1, WithinLater DEF ShownAt
    <2> QED BY <2>1, <2>2 DEF ShownAt
  <1>4. Rising(Now', reader, heap, entries, shown)
    BY <1>3 DEF ServiceInv, Rising
  <1>5. shown \in [Watched -> [Heights -> Nat]]
    BY DEF ServiceInv
  <1> QED BY <1>1, <1>2, <1>4, <1>5 DEF ServiceInv

-----------------------------------------------------------------------------
(* Every step keeps what was promised *)

(* Nobody has asked for anything yet.                                      *)
LEMMA InitialServes == Init => ServiceInv
  <1> SUFFICES ASSUME Init PROVE ServiceInv
    OBVIOUS
  <1>1. /\ \A r \in Readers : reader[r].pc = "idle" /\ "e" \notin DOMAIN reader[r]
        /\ \A h \in Heights : entries[h] = Nothing
        /\ shown = [r \in Watched |-> [h \in Heights |-> 0]]
    BY DEF Init, Idle
  <1>2. \A r \in Watched : FloorAt(Now, reader[r], heap)
    BY <1>1, CacheAssumption DEF FloorAt, Versioned, Bearing
  <1>3. ArchiveOK(Now)
    BY InitialAnswers DEF AnswerInv
  <1>4. \A h \in Heights : Within(Now, 0, h)
    <2>1. \A h \in HeldIn(Now) : Now.archive[h].evidence \in Nat
      BY <1>3 DEF ArchiveOK, Blocks
    <2> QED BY <2>1 DEF Within
  <1>5. \A q \in Readers : ~Building(reader[q]) /\ reader[q].pc \notin Choosing
    BY <1>1 DEF Building, Choosing
  <1>6. /\ \A q \in Readers : PrivateAt(q, reader, heap, entries)
        /\ \A h \in Heights : EntryBelow(h, reader, heap, entries)
        /\ \A r \in Readers : ChosenBelow(r, reader, heap, entries)
    BY <1>1, <1>5 DEF PrivateAt, EntryBelow, ChosenBelow
  <1>7. ASSUME NEW r \in Watched, NEW h \in Heights
        PROVE  ShownAt(Now, shown[r][h], r, h, reader, heap, entries)
    <2>1. shown[r][h] = 0 /\ r \in Readers
      BY <1>1, CacheAssumption
    <2>2. ShownAt(Now, 0, r, h, reader, heap, entries)
      BY <1>1, <1>4, <1>5, <2>1 DEF ShownAt, AtMost, Below
    <2> QED BY <2>1, <2>2
  <1>8. shown \in [Watched -> [Heights -> Nat]]
    BY <1>1
  <1> QED BY <1>2, <1>6, <1>7, <1>8 DEF ServiceInv, Rising

(* Every step of the cache preserves ServiceInv.                           *)
LEMMA ServiceInvInductive ==
  WaitInv /\ WaitInv' /\ AnswerInv /\ AnswerInv' /\ ServiceInv /\ [Next]_vars => ServiceInv'
  <1> SUFFICES ASSUME WaitInv, WaitInv', AnswerInv, AnswerInv', ServiceInv, [Next]_vars PROVE ServiceInv'
    OBVIOUS
  <1>1. CASE Arrive
    <2>1. PICK q \in Requests : Request(q[1], q[2], q[3])
      BY <1>1 DEF Arrive
    <2>2. q[1] \in Readers /\ q[2] \in Heights /\ q[3] \in Views
      BY CacheAssumption
    <2> QED BY <2>1, <2>2, RequestServes
  <1>2. ASSUME NEW r \in Readers, Proceed(r)
        PROVE  ServiceInv'
    BY <1>2, ReadServes, LookupAbsentServes, LookupHitServes, QuietServes, CaptureServes, PublishServes,
       EndServes, EncodeMissServes, StoreVariantServes, CancelVariantServes DEF Proceed
  <1>3. CASE TrackerStep
    BY <1>3, TrackerServes
  <1>4. CASE UNCHANGED vars
    <2>1. UNCHANGED <<archiveVars, reader, heap, entries, shown>>
      BY <1>4 DEF vars, cacheVars
    <2>2. Now' = Now
      BY <2>1 DEF Now, archiveVars
    <2> QED BY <2>1, <2>2 DEF ServiceInv
  <1> QED BY <1>1, <1>2, <1>3, <1>4 DEF Next

(* So it always holds.                                                     *)
LEMMA AlwaysServes == Spec => [](WaitInv /\ AnswerInv /\ ServiceInv)
  BY InitialWaits, WaitInvInductive, InitialAnswers, AnswerInvInductive, InitialServes, ServiceInvInductive,
     PTL DEF Spec

-----------------------------------------------------------------------------
(* The cache implements the service *)

(* The service's copies of operators of the archive are the operators.     *)
LEMMA ServiceOperators ==
  /\ \A S : Service!Min(S) = Min(S) /\ Service!Cardinality(S) = Cardinality(S)
  /\ \A f, S : Service!Restrict(f, S) = Restrict(f, S)
  /\ \A a, b : Service!Larger(a, b) = Larger(a, b)
  /\ Service!Held = Held /\ Service!NewHeight = NewHeight
  /\ \A h : /\ Service!BlockAt(h) = BlockAt(h) /\ (Service!MayHold(h) <=> MayHold(h))
            /\ Service!New(h) = New(h)
  <1>1. ASSUME NEW S PROVE Service!Min(S) = Min(S) /\ Service!Cardinality(S) = Cardinality(S)
    BY DEF Service!Min, Min, Service!Cardinality, Cardinality
  <1>2. ASSUME NEW f, NEW S PROVE Service!Restrict(f, S) = Restrict(f, S)
    BY DEF Service!Restrict, Restrict
  <1>3. ASSUME NEW a, NEW b PROVE Service!Larger(a, b) = Larger(a, b)
    BY DEF Service!Larger, Larger
  <1>4. Service!Held = Held /\ Service!NewHeight = NewHeight
    BY DEF Service!Held, Held, Service!NewHeight, NewHeight
  <1>5. ASSUME NEW h PROVE /\ Service!BlockAt(h) = BlockAt(h) /\ (Service!MayHold(h) <=> MayHold(h))
                           /\ Service!New(h) = New(h)
    BY <1>4 DEF Service!BlockAt, BlockAt, Service!MayHold, MayHold, Service!New, New
  <1> QED BY <1>1, <1>2, <1>3, <1>4, <1>5

(* So are its steps.                                                       *)
LEMMA ServiceRetains == ASSUME NEW h, NEW b, Retain(h, b) PROVE Service!Retain(h, b)
  <1>1. PICK grown : grown = [x \in Held \cup {h} |-> IF x = h THEN b ELSE archive[x]]
    OBVIOUS
  <1>2. PICK over \in BOOLEAN : over <=> Cardinality(DOMAIN grown) > HistorySize
    OBVIOUS
  <1>3. /\ archive' = IF over THEN Restrict(grown, DOMAIN grown \ {Min(DOMAIN grown)}) ELSE grown
        /\ evictedThrough' = IF over THEN Min(DOMAIN grown) ELSE evictedThrough
        /\ archiveLatest' = Larger(h, archiveLatest)
    BY <1>1, <1>2 DEF Retain
  <1> QED BY <1>1, <1>2, <1>3, ServiceOperators DEF Service!Retain

(* Each step of the archive is a step of the service's copy of it.         *)
LEMMA ServiceArchive == ASSUME ArchiveNext PROVE Service!ArchiveNext
  <1>1. CASE ObserveNothing
    BY <1>1 DEF ObserveNothing, archiveVars, Service!ArchiveNext, Service!ObserveNothing, Service!archiveVars
  <1>2. ASSUME NEW h \in Heights, NEW n \in Jumps, NEW lost \in {0, 1}, Observe(h, n, lost)
        PROVE  Service!ArchiveNext
    <2>1. Service!Observe(h, n, lost)
      BY <1>2, ServiceOperators, ServiceRetains DEF Observe, Service!Observe
    <2> QED BY <2>1 DEF Service!ArchiveNext
  <1>3. ASSUME NEW n \in [Held -> Jumps \cup {0}], FillRosters(n)
        PROVE  Service!ArchiveNext
    <2>1. Service!FillRosters(n) /\ n \in [Service!Held -> Jumps \cup {0}]
      BY <1>3, ServiceOperators DEF FillRosters, Service!FillRosters
    <2> QED BY <2>1 DEF Service!ArchiveNext
  <1>4. ASSUME NEW h \in Heights, NEW seal \in Seals, Commit(h, seal)
        PROVE  Service!ArchiveNext
    <2>1. PICK b : b = BlockAt(h)
      OBVIOUS
    <2>2. PICK c : c = IF b.seal < seal THEN [b EXCEPT !.seal = seal, !.evidence = @ + 1] ELSE b
      OBVIOUS
    <2>3. /\ IF seal > 0 /\ MayHold(h) THEN Retain(h, c)
             ELSE UNCHANGED <<archive, archiveLatest, evictedThrough>>
          /\ committedHeight' = Larger(h, committedHeight)
          /\ catalogue' = catalogue + (IF seal > 0 /\ MayHold(h) THEN New(h) ELSE 0)
                                    + (IF h > committedHeight THEN 1 ELSE 0)
      BY <1>4, <2>1, <2>2 DEF Commit
    <2>4. /\ IF seal > 0 /\ Service!MayHold(h) THEN Service!Retain(h, c)
             ELSE UNCHANGED <<archive, archiveLatest, evictedThrough>>
          /\ committedHeight' = Service!Larger(h, committedHeight)
          /\ catalogue' = catalogue + (IF seal > 0 /\ Service!MayHold(h) THEN Service!New(h) ELSE 0)
                                    + (IF h > committedHeight THEN 1 ELSE 0)
          /\ b = Service!BlockAt(h)
      BY <2>1, <2>3, ServiceOperators, ServiceRetains
    <2>5. Service!Commit(h, seal)
      BY <2>2, <2>4 DEF Service!Commit
    <2> QED BY <2>5 DEF Service!ArchiveNext
  <1> QED BY <1>1, <1>2, <1>3, <1>4 DEF ArchiveNext

(* A request that has no answer yet, as the service sees it.               *)
Asking(x) ==
  IF x.pc = "idle" THEN Nothing ELSE [height |-> x.height, view |-> x.view, floor |-> x.floor]

(* A watched request is something the service was asked.                   *)
LEMMA AskingIs ==
  ASSUME WaitInv, ServiceInv, NEW r \in Watched, reader[r].pc # "idle"
  PROVE  /\ Asking(reader[r]) # Nothing /\ reader[r].height \in Heights /\ reader[r].view \in Views
         /\ reader[r].floor \in Service!Floors
  <1>1. r \in Readers
    BY CacheAssumption
  <1>2. reader[r].height \in Heights /\ reader[r].view \in Views
    BY <1>1, AtFields
  <1>3. reader[r].floor \in Service!Floors
    BY DEF ServiceInv, FloorAt, Floored
  <1>4. Asking(reader[r]) \in Service!Asked
    BY <1>2, <1>3 DEF Asking, Service!Asked, Views, Service!Views
  <1> QED BY <1>2, <1>3, <1>4, NothingAssumption

(* What Keeps says is enough for the request to stay asked.                *)
LEMMA AskingKept ==
  ASSUME NEW x, NEW y, Keeps(x, y)
  PROVE  Asking(y) = Asking(x)
  BY DEF Keeps, Asking

(* A step of the service, or none.                                         *)
ServiceStutters == [Service!ServiceNext]_<<Service!archiveVars, Service!serviceVars>>

(* A step that no watched reader could tell.                               *)
LEMMA Untold ==
  ASSUME ArchiveNext, answer' = Nothing, shown' = shown,
         \A r \in Watched : Asking(reader'[r]) = Asking(reader[r])
  PROVE  ServiceStutters
  <1>1. Service!ArchiveNext
    BY ServiceArchive
  <1>2. Service!Unasked
    BY DEF Service!Unasked, Asking
  <1> QED BY <1>1, <1>2 DEF ServiceStutters, Service!ServiceNext

(* Nor a step that leaves the archive and every watched request alone.     *)
LEMMA UntoldKept ==
  ASSUME UNCHANGED archiveVars, answer' = Nothing, shown' = shown,
         \A r \in Watched : Keeps(reader[r], reader'[r])
  PROVE  ServiceStutters
  <1>1. ArchiveNext
    BY DEF ArchiveNext, ObserveNothing
  <1> QED BY <1>1, AskingKept, Untold

(* A watched request that ends without an answer is abandoned.             *)
LEMMA Abandons ==
  ASSUME WaitInv, ServiceInv, NEW r \in Readers, reader[r].pc # "idle", reader'[r] = Idle,
         UNCHANGED archiveVars, answer' = Nothing, shown' = shown,
         \A q \in Readers : q # r => Keeps(reader[q], reader'[q])
  PROVE  ServiceStutters
  <1>1. \A q \in Watched : q # r => Asking(reader'[q]) = Asking(reader[q])
    BY CacheAssumption, AskingKept
  <1>2. CASE r \notin Watched
    <2>1. ArchiveNext
      BY DEF ArchiveNext, ObserveNothing
    <2> QED BY <1>1, <1>2, <2>1, Untold
  <1>3. CASE r \in Watched
    <2>1. Asking(reader[r]) # Nothing /\ Asking(reader'[r]) = Nothing
      BY <1>3, AskingIs DEF Asking, Idle
    <2>2. Service!Abandon(r)
      BY <1>1, <1>3, <2>1 DEF Service!Abandon, Asking
    <2>3. UNCHANGED Service!archiveVars
      BY DEF archiveVars, Service!archiveVars
    <2> QED BY <1>3, <2>2, <2>3 DEF ServiceStutters, Service!ServiceNext, Service!ServiceStep
  <1> QED BY <1>2, <1>3

(* A watched request is asked for.                                         *)
LEMMA Asks ==
  ASSUME WaitInv, NEW r \in Readers, NEW h \in Heights, NEW view \in Views, Request(r, h, view)
  PROVE  ServiceStutters
  <1>1. PICK f : f = IF r \in Watched THEN Service!Floor(h, view) ELSE Nothing
    OBVIOUS
  <1>2. /\ UNCHANGED archiveVars /\ answer' = Nothing /\ shown' = shown /\ reader[r] = Idle
        /\ reader' = [reader EXCEPT ![r] =
             IF view = "capture" THEN [pc |-> "capture", height |-> h, view |-> view, floor |-> f]
             ELSE Put([[pc |-> "capture", height |-> h, view |-> view, floor |-> f] EXCEPT !.pc = "lookup"],
                      "v", Version(h))]
    BY <1>1 DEF Request, Unanswered
  <1>3. PICK y : y = reader'[r]
    OBVIOUS
  <1>4. y.pc # "idle" /\ y.height = h /\ y.view = view /\ y.floor = f
    <2>1. y = IF view = "capture" THEN [pc |-> "capture", height |-> h, view |-> view, floor |-> f]
              ELSE Put([[pc |-> "capture", height |-> h, view |-> view, floor |-> f] EXCEPT !.pc = "lookup"],
                       "v", Version(h))
      BY <1>2, <1>3 DEF WaitInv, Waits, ReadersOK
    <2> QED BY <2>1 DEF Put
  <1>5. \A q \in Watched : q # r => Asking(reader'[q]) = Asking(reader[q])
    <2>1. \A q \in Readers : q # r => reader'[q] = reader[q]
      BY <1>2 DEF WaitInv, Waits, ReadersOK
    <2> QED BY <2>1, CacheAssumption
  <1>6. CASE r \notin Watched
    <2>1. ArchiveNext
      BY <1>2 DEF ArchiveNext, ObserveNothing
    <2> QED BY <1>2, <1>5, <1>6, <2>1, Untold
  <1>7. CASE r \in Watched
    <2>1. /\ Asking(reader[r]) = Nothing
          /\ Asking(reader'[r]) = [height |-> h, view |-> view, floor |-> Service!Floor(h, view)]
      BY <1>1, <1>2, <1>3, <1>4, <1>7 DEF Asking, Idle
    <2>2. Service!Ask(r, h, view)
      BY <1>2, <1>5, <1>7, <2>1 DEF Service!Ask, Asking
    <2>3. UNCHANGED Service!archiveVars /\ view \in Service!Views
      BY <1>2 DEF archiveVars, Service!archiveVars, Views, Service!Views
    <2> QED BY <1>7, <2>2, <2>3 DEF ServiceStutters, Service!ServiceNext, Service!ServiceStep
  <1> QED BY <1>6, <1>7

(* What is answered is what was promised.                                  *)
LEMMA AnswersCurrent ==
  ASSUME WaitInv, AnswerInv, ServiceInv, NEW r \in Watched, NEW x, x = reader[r], x.pc \in Settled,
         NEW e, e = heap[x.e], NEW a, Same(a, e), a.catalogue = x.v.catalogue, Catalogued(Now, a, e, x.height),
         NEW request, request.height = x.height, request.view = x.view, request.floor = x.floor
  PROVE  Service!Current(r, request, a)
  <1>1. r \in Readers
    BY CacheAssumption
  <1>2. PICK h : h = x.height
    OBVIOUS
  <1>3. PICK f : f = x.floor
    OBVIOUS
  <1>4. /\ "e" \in DOMAIN x /\ h \in Heights /\ ReportAt(Now, e) /\ e.height = h
        /\ e.seal = x.v.seal /\ (e.found => x.v.found)
    BY <1>1, <1>2, SettledRequest
  <1>5. Known(Now, e, h)
    BY <1>4 DEF ReportAt
  <1>6. /\ Floored(Now, f, h) /\ f.catalogue <= x.v.catalogue
        /\ x.v.found => f.evidence <= x.v.evidence /\ f.seal <= x.v.seal /\ f.lost <= x.v.lost
        /\ e.found => f.evidence <= e.evidence
        /\ ~e.found /\ f.found => h \notin HeldIn(Now)
        /\ x.pc \in {"capture", "captured"} => x.view = "capture"
    <2>1. FloorAt(Now, x, heap)
      BY DEF ServiceInv
    <2>2. x.pc \in Versioned /\ x.pc # "idle"
      BY DEF Settled, Choosing, Versioned, Bearing
    <2> QED BY <1>2, <1>3, <1>4, <2>1, <2>2 DEF FloorAt
  <1>7. e.lost = x.v.lost
    BY <1>1, SettledRequest
  <1>8. PICK v : v = Version(h)
    OBVIOUS
  <1>9. /\ v.catalogue = Now.catalogue /\ v.status = StatusFor(Now, h, v.seal)
        /\ Known(Now, v, h) /\ (v.found <=> h \in HeldIn(Now))
        /\ v.found => v.evidence = Now.archive[h].evidence
    <2>1. Newest(Now, v, h) /\ v.catalogue = Now.catalogue /\ v.status = StatusFor(Now, h, v.seal)
      BY <1>4, <1>8, VersionIs DEF AnswerInv
    <2> QED BY <2>1 DEF Newest
  <1>10. Service!Version(h) = v
    BY <1>8, ServiceVersion
  <1>11. a.catalogue \in f.catalogue..v.catalogue
    <2>1. a.catalogue \in Nat /\ a.catalogue <= Now.catalogue
      BY DEF Catalogued
    <2>2. f.catalogue \in Nat /\ Now.catalogue \in Nat
      BY <1>6 DEF Floored, Service!Floors, AnswerInv, ArchiveOK
    <2> QED BY <1>6, <1>9, <2>1, <2>2
  <1>12. a.found => a.evidence >= f.evidence /\ a.seal >= f.seal /\ a.lost >= f.lost
    <2>1. /\ e.evidence \in Nat /\ e.seal \in 0..2 /\ e.lost \in Nat
          /\ f.evidence \in Nat /\ f.seal \in 0..2 /\ f.lost \in Nat
      BY <1>5, <1>6 DEF Known, Floored, Service!Floors
    <2> QED BY <1>4, <1>6, <1>7, <2>1 DEF Same
  <1>13. ASSUME a.found, x.view # "capture" PROVE a.evidence >= shown[r][h]
    <2>1. x.pc \in Choosing
      BY <1>6, <1>13 DEF Settled
    <2>2. ShownAt(Now, shown[r][h], r, h, reader, heap, entries)
      BY <1>4 DEF ServiceInv, Rising
    <2>3. shown[r][h] <= e.evidence
      BY <1>2, <1>13, <2>1, <2>2 DEF ShownAt, Same
    <2>4. shown[r][h] \in Nat /\ e.evidence \in Nat
      BY <1>5, <2>2 DEF ShownAt, Within, Known
    <2> QED BY <2>3, <2>4 DEF Same
  <1>14. v.found => a.evidence <= v.evidence
    <2>1. e.evidence \in Nat /\ v.evidence \in Nat /\ (~e.found => e.evidence = 0)
      BY <1>5, <1>9 DEF Known
    <2>2. ASSUME v.found, e.found PROVE e.evidence <= v.evidence
      BY <1>5, <1>9, <2>2 DEF Known
    <2>3. a.evidence = e.evidence
      BY DEF Same
    <2> QED BY <2>1, <2>2, <2>3
  <1>15. ~a.found => ~f.found \/ v.status = "evicted"
    <2> SUFFICES ASSUME ~a.found, f.found PROVE v.status = "evicted"
      OBVIOUS
    <2>1. h \notin HeldIn(Now)
      BY <1>6 DEF Same
    <2>2. h > 0 /\ h <= Now.evicted
      BY <1>6, <2>1 DEF Floored
    <2> QED BY <1>9, <2>1, <2>2 DEF StatusFor
  <1>16. a.found => (a.status = "committed" <=> a.seal > 0)
    BY DEF Same, Catalogued
  <1> QED BY <1>2, <1>3, <1>10, <1>11, <1>12, <1>13, <1>14, <1>15, <1>16 DEF Service!Current

(* A watched request is answered.                                          *)
LEMMA AnswersAsked ==
  ASSUME WaitInv, AnswerInv, ServiceInv, NEW r \in Readers,
         FinishCapture(r) \/ EncodeHit(r) \/ StoreVariant(r), reader'[r] = Idle,
         \A q \in Readers : q # r => Keeps(reader[q], reader'[q])
  PROVE  ServiceStutters
  <1>1. PICK x : x = reader[r]
    OBVIOUS
  <1>2. PICK e : e = heap[x.e]
    OBVIOUS
  <1>3. x.pc \in Settled /\ x.pc # "idle" /\ UNCHANGED archiveVars
    BY <1>1 DEF FinishCapture, EncodeHit, StoreVariant, At, Settled, Choosing
  <1>4. PICK body : /\ Finish(r, body) /\ Same(body, e) /\ Catalogued(Now, body, e, x.height)
                    /\ body.catalogue = x.v.catalogue
    BY <1>1, <1>2, Answered
  <1>5. CASE r \notin Watched
    <2>1. answer' = Nothing /\ shown' = shown
      BY <1>4, <1>5 DEF Finish, Unanswered
    <2>2. \A q \in Watched : Keeps(reader[q], reader'[q])
      BY <1>5, CacheAssumption
    <2> QED BY <1>3, <2>1, <2>2, UntoldKept
  <1>6. CASE r \in Watched
    <2>1. PICK a : a = answer'
      OBVIOUS
    <2>2. a = [reader |-> r, height |-> x.height, view |-> x.view, found |-> body.found,
               evidence |-> body.evidence, seal |-> body.seal, lost |-> body.lost,
               catalogue |-> body.catalogue, status |-> body.status, retained |-> body.retained]
      BY <1>1, <1>4, <1>6, <2>1 DEF Finish
    <2>3. /\ a.reader = r /\ a.height = x.height /\ a.view = x.view
          /\ Same(a, e) /\ a.catalogue = x.v.catalogue /\ Catalogued(Now, a, e, x.height)
      BY <1>4, <2>2 DEF Same, Catalogued
    <2>4. /\ Asking(x) # Nothing /\ x.height \in Heights /\ x.view \in Views
      BY <1>1, <1>3, <1>6, AskingIs
    <2>5. Known(Now, e, x.height)
      BY <1>1, <1>2, <1>3, SettledRequest DEF ReportAt
    <2>6. a # Nothing
      <3>1. /\ body.found \in BOOLEAN /\ body.evidence \in Nat /\ body.seal \in 0..2 /\ body.lost \in Nat
            /\ body.catalogue \in Nat /\ body.status \in Service!Statuses /\ body.retained \in SUBSET Heights
            /\ x.view \in Service!Views
        BY <1>4, <2>4, <2>5 DEF Same, Known, Catalogued, Statuses, Service!Statuses, Views, Service!Views
      <3>2. a \in Service!Answers
        BY <1>6, <2>2, <2>4, <3>1 DEF Service!Answers
      <3> QED BY <3>2, NothingAssumption
    <2>7. PICK request : request = Asking(x)
      OBVIOUS
    <2>8. request.height = x.height /\ request.view = x.view /\ request.floor = x.floor
      BY <1>3, <2>7 DEF Asking
    <2>9. Service!Current(r, request, a)
      BY <1>1, <1>2, <1>3, <1>6, <2>3, <2>8, AnswersCurrent
    <2>10. shown' = IF request.view = "capture" THEN shown
                    ELSE [shown EXCEPT ![r][request.height] = Service!Larger(@, a.evidence)]
      BY <1>1, <1>4, <1>6, <2>2, <2>8, ServiceOperators DEF Finish
    <2>11. \A q \in Watched : Asking(reader'[q]) = IF q = r THEN Nothing ELSE Asking(reader[q])
      BY CacheAssumption, AskingKept DEF Asking, Idle
    <2>12. Service!Answer(r)
      <3>1. [q \in Watched |-> Asking(reader[q])][r] = request
        BY <1>1, <1>6, <2>7
      <3>2. [q \in Watched |-> Asking(reader'[q])] =
              [[q \in Watched |-> Asking(reader[q])] EXCEPT ![r] = Nothing]
        BY <1>6, <2>11
      <3> QED BY <2>1, <2>3, <2>4, <2>6, <2>7, <2>8, <2>9, <2>10, <3>1, <3>2 DEF Service!Answer, Asking
    <2>13. UNCHANGED Service!archiveVars
      BY <1>3 DEF archiveVars, Service!archiveVars
    <2> QED BY <1>6, <2>12, <2>13 DEF ServiceStutters, Service!ServiceNext, Service!ServiceStep
  <1> QED BY <1>5, <1>6

(* Moving on with a field more keeps what was asked.                       *)
LEMMA PutKeeps ==
  ASSUME NEW x, NEW pc, pc # "idle", x.pc # "idle", Fields \subseteq DOMAIN x,
         NEW f \in {"v", "e"}, NEW c
  PROVE  LET y == Put([x EXCEPT !.pc = pc], f, c)
         IN Keeps(x, y) /\ y.pc = pc /\ Fields \subseteq DOMAIN y
  <1>1. PICK z : z = [x EXCEPT !.pc = pc]
    OBVIOUS
  <1>2. Fields \subseteq DOMAIN z /\ z.pc = pc /\ z.height = x.height /\ z.view = x.view /\ z.floor = x.floor
    BY <1>1 DEF Fields
  <1>3. PICK y : y = Put(z, f, c)
    OBVIOUS
  <1>4. Fields \subseteq DOMAIN y /\ y.pc = z.pc /\ y.height = z.height /\ y.view = z.view /\ y.floor = z.floor
    BY <1>2, <1>3 DEF Put, Fields
  <1> QED BY <1>1, <1>2, <1>3, <1>4 DEF Keeps

(* The steps that read a version or find a report keep what was asked.     *)
LEMMA ReadKeeps ==
  ASSUME WaitInv, NEW r \in Readers,
         ReadVersion(r) \/ ReadLatest(r) \/ LookupAbsent(r) \/ LookupHit(r) \/ Capture(r)
  PROVE  \A q \in Readers : Keeps(reader[q], reader'[q])
  <1>1. PICK x : x = reader[r]
    OBVIOUS
  <1>2. x.pc # "idle" /\ Fields \subseteq DOMAIN x
    <2>1. x.pc \in {"version", "built", "failed", "lookup", "build", "capture"}
      BY <1>1 DEF ReadVersion, ReadLatest, LookupAbsent, LookupHit, Capture, At
    <2> QED BY <1>1, <2>1, AtFields DEF Starting, Bearing
  <1>3. ASSUME NEW y, Keeps(x, y), reader' = [reader EXCEPT ![r] = y]
        PROVE  \A q \in Readers : Keeps(reader[q], reader'[q])
    <2>1. reader'[r] = y /\ \A q \in Readers : q # r => reader'[q] = reader[q]
      BY <1>3 DEF WaitInv, Waits, ReadersOK
    <2> QED BY <1>1, <1>3, <2>1 DEF Keeps
  <1>4. ASSUME NEW pc, pc # "idle", NEW f \in {"v", "e"}, NEW c,
               reader' = [reader EXCEPT ![r] = Put(Go(r, pc), f, c)]
        PROVE  \A q \in Readers : Keeps(reader[q], reader'[q])
    <2>1. PICK y : y = Put([x EXCEPT !.pc = pc], f, c)
      OBVIOUS
    <2>2. Keeps(x, y)
      BY <1>2, <1>4, <2>1, PutKeeps
    <2> QED BY <1>1, <1>3, <1>4, <2>1, <2>2 DEF Go
  <1>5. CASE ReadVersion(r)
    BY <1>4, <1>5 DEF ReadVersion
  <1>6. CASE ReadLatest(r)
    BY <1>4, <1>6 DEF ReadLatest
  <1>7. CASE LookupAbsent(r)
    BY <1>4, <1>7 DEF LookupAbsent
  <1>8. CASE LookupHit(r)
    BY <1>4, <1>8 DEF LookupHit
  <1>9. CASE Capture(r)
    <2>1. PICK pc : pc = IF x.pc = "build" THEN "built" ELSE "captured"
      OBVIOUS
    <2>2. PICK d, c : reader' = [reader EXCEPT ![r] = Put(Put(Go(r, pc), "v", d), "e", c)]
      BY <1>1, <1>9, <2>1 DEF Capture
    <2>3. pc # "idle"
      BY <2>1
    <2>4. PICK w : w = Put([x EXCEPT !.pc = pc], "v", d)
      OBVIOUS
    <2>5. Keeps(x, w) /\ w.pc # "idle" /\ Fields \subseteq DOMAIN w
      BY <1>2, <2>3, <2>4, PutKeeps
    <2>6. PICK y : y = Put(w, "e", c)
      OBVIOUS
    <2>7. Fields \subseteq DOMAIN y /\ \A g \in Fields : y[g] = w[g]
      BY <2>5, <2>6 DEF Put, Fields
    <2>8. Keeps(x, y)
      BY <2>5, <2>7 DEF Keeps, Fields
    <2> QED BY <1>1, <1>3, <2>2, <2>4, <2>6, <2>8 DEF Go
  <1> QED BY <1>5, <1>6, <1>7, <1>8, <1>9

(* The initial states are the service's.                                   *)
LEMMA InitialService == Init => Service!ServiceInit
  <1> SUFFICES ASSUME Init PROVE Service!ServiceInit
    OBVIOUS
  <1>1. Service!ArchiveInit
    BY DEF Init, ArchiveInit, Service!ArchiveInit, NewHeight, Service!NewHeight
  <1>2. /\ answer = Nothing /\ shown = [r \in Watched |-> [h \in Heights |-> 0]]
        /\ \A r \in Watched : reader[r].pc = "idle"
    BY CacheAssumption DEF Init, Idle
  <1> QED BY <1>1, <1>2 DEF Service!ServiceInit

(* Every step is one of the service's.                                     *)
LEMMA NextServes ==
  ASSUME WaitInv, WaitInv', AnswerInv, AnswerInv', ServiceInv, [Next]_vars
  PROVE  ServiceStutters
  <1>1. CASE Arrive
    <2>1. PICK q \in Requests : Request(q[1], q[2], q[3])
      BY <1>1 DEF Arrive
    <2>2. q[1] \in Readers /\ q[2] \in Heights /\ q[3] \in Views
      BY CacheAssumption
    <2> QED BY <2>1, <2>2, Asks
  <1>2. ASSUME NEW r \in Readers, Proceed(r)
        PROVE  ServiceStutters
    <2>1. CASE FinishCapture(r) \/ EncodeHit(r) \/ StoreVariant(r)
      <3>1. reader'[r] = Idle /\ \A q \in Readers : q # r => Keeps(reader[q], reader'[q])
        BY <2>1, EndServes, StoreVariantServes
      <3> QED BY <2>1, <3>1, AnswersAsked
    <2>2. CASE CancelWaiting(r) \/ CancelVariant(r)
      <3>1. reader'[r] = Idle /\ \A q \in Readers : q # r => Keeps(reader[q], reader'[q])
        BY <2>2, EndServes, CancelVariantServes
      <3>2. /\ UNCHANGED archiveVars /\ answer' = Nothing /\ shown' = shown /\ reader[r].pc # "idle"
        BY <2>2 DEF CancelWaiting, CancelVariant, Unanswered, At
      <3> QED BY <3>1, <3>2, Abandons
    <2>3. CASE Publish(r)
      <3>1. UNCHANGED archiveVars /\ answer' = Nothing /\ shown' = shown /\ reader[r].pc # "idle"
        BY <2>3 DEF Publish, Unanswered, At
      <3>2. /\ \A q \in Readers : q # r => Keeps(reader[q], reader'[q])
            /\ reader'[r] = Idle \/ Keeps(reader[r], reader'[r])
        BY <2>3, PublishServes
      <3>3. CASE reader'[r] = Idle
        BY <3>1, <3>2, <3>3, Abandons
      <3>4. CASE Keeps(reader[r], reader'[r])
        <4>1. \A q \in Watched : Keeps(reader[q], reader'[q])
          BY <3>2, <3>4, CacheAssumption
        <4> QED BY <3>1, <4>1, UntoldKept
      <3> QED BY <3>2, <3>3, <3>4
    <2>4. CASE \/ ReadVersion(r) \/ ReadLatest(r) \/ LookupAbsent(r) \/ LookupHit(r) \/ Capture(r)
               \/ LookupMiss(r) \/ TakeSlot(r) \/ CancelBuild(r) \/ EncodeMiss(r)
      <3>1. UNCHANGED archiveVars /\ answer' = Nothing /\ shown' = shown
        BY <2>4 DEF ReadVersion, ReadLatest, LookupAbsent, LookupHit, Capture, LookupMiss, TakeSlot,
                    CancelBuild, EncodeMiss, Unanswered
      <3>2. \A q \in Readers : Keeps(reader[q], reader'[q])
        <4>1. CASE LookupMiss(r) \/ TakeSlot(r) \/ CancelBuild(r) \/ EncodeMiss(r)
          BY <4>1, QuietServes, EncodeMissServes, FollowsKeeps
        <4> QED BY <2>4, <4>1, ReadKeeps
      <3>3. \A q \in Watched : Keeps(reader[q], reader'[q])
        BY <3>2, CacheAssumption
      <3> QED BY <3>1, <3>3, UntoldKept
    <2> QED BY <1>2, <2>1, <2>2, <2>3, <2>4 DEF Proceed
  <1>3. CASE TrackerStep
    <2>1. ArchiveNext /\ answer' = Nothing /\ shown' = shown /\ reader' = reader
      BY <1>3 DEF TrackerStep, Unanswered
    <2> QED BY <2>1, Untold
  <1>4. CASE UNCHANGED vars
    BY <1>4 DEF vars, cacheVars, archiveVars, ServiceStutters, Service!archiveVars, Service!serviceVars
  <1> QED BY <1>1, <1>2, <1>3, <1>4 DEF Next

(* Whatever requests share, coalesce, throw away or publish late, the      *)
(* cache answers each as the service promises: with evidence no older than *)
(* the request and than what its reader was shown before, with the present *)
(* commit and evictions, and in a catalogue between then and now.          *)
THEOREM ServiceImplemented == Spec => ImplementsService
  <1>1. Init => Service!ServiceInit
    BY InitialService
  <1>2. WaitInv /\ WaitInv' /\ AnswerInv /\ AnswerInv' /\ ServiceInv /\ [Next]_vars
          => [Service!ServiceNext]_<<Service!archiveVars, Service!serviceVars>>
    BY NextServes DEF ServiceStutters
  <1> QED BY <1>1, <1>2, AlwaysServes, PTL DEF Spec, ImplementsService, Service!ServiceSpec

-----------------------------------------------------------------------------
(* Sums over finite sets, as in TrackerProofs *)

(* Induction over a finite set: G is the set of its subsets of which the   *)
(* claim is known.  The smallest set outside G would lack one element of   *)
(* itself.                                                                 *)
LEMMA FiniteInduction ==
  ASSUME NEW D, IsFiniteSet(D), NEW G,
         {} \in G, \A T \in SUBSET D, x \in D : T \in G /\ x \notin T => T \cup {x} \in G
  PROVE  D \in G
  <1> SUFFICES ASSUME D \notin G PROVE FALSE
    OBVIOUS
  <1> DEFINE Missing(n) == \E T \in SUBSET D : T \notin G /\ Cardinality(T) = n
             S == {n \in Nat : Missing(n)}
  <1>1. \A T \in SUBSET D : IsFiniteSet(T) /\ Cardinality(T) \in Nat
    BY FS_Subset, FS_CardinalityType
  <1>2. Cardinality(D) \in S
    BY <1>1
  <1>3. PICK n \in S : \A k \in S : n <= k
    BY <1>2, LeastNatural
  <1>4. PICK T \in SUBSET D : T \notin G /\ Cardinality(T) = n
    BY <1>3
  <1>5. PICK x \in T : TRUE
    BY <1>4
  <1>6. Cardinality(T \ {x}) = n - 1 /\ T \ {x} \in SUBSET D /\ n \in Nat
    BY <1>1, <1>4, <1>5, FS_RemoveElement
  <1>7. T \ {x} \in G
    <2> SUFFICES ASSUME T \ {x} \notin G PROVE FALSE
      OBVIOUS
    <2>1. Cardinality(T \ {x}) \in S
      BY <1>1, <1>6
    <2> QED BY <1>3, <1>6, <2>1
  <1>8. (T \ {x}) \cup {x} = T /\ x \in D
    BY <1>4, <1>5
  <1> QED BY <1>4, <1>5, <1>6, <1>7, <1>8

Chosen(T) == CHOOSE x \in T : TRUE

(* f gives the sum of the weights w over each subset of their domain.      *)
Sums(w, f) ==
  f = [T \in SUBSET DOMAIN w |-> IF T = {} THEN 0 ELSE w[Chosen(T)] + f[T \ {Chosen(T)}]]

Total(w) == (CHOOSE f : Sums(w, f))[DOMAIN w]

Weights(w) == IsFiniteSet(DOMAIN w) /\ w \in [DOMAIN w -> Int]

(* The recursion that defines a sum has a solution.                        *)
LEMMA SumsExist == ASSUME NEW w, Weights(w) PROVE \E f : Sums(w, f)
  <1> DEFINE D == DOMAIN w
             Part(E, f) == f = [T \in SUBSET E |-> IF T = {} THEN 0 ELSE w[Chosen(T)] + f[T \ {Chosen(T)}]]
             Small(n) == {T \in SUBSET D : Cardinality(T) <= n}
             Upto(n, f) == f = [T \in Small(n) |-> IF T = {} THEN 0 ELSE w[Chosen(T)] + f[T \ {Chosen(T)}]]
             S == {n \in Nat : ~ \E f : Upto(n, f)}
  <1>1. \A T \in SUBSET D : IsFiniteSet(T) /\ Cardinality(T) \in Nat
    BY FS_Subset, FS_CardinalityType DEF Weights
  <1>2. \A T \in SUBSET D : T # {} => Chosen(T) \in T /\ Cardinality(T \ {Chosen(T)}) = Cardinality(T) - 1
    BY <1>1, FS_RemoveElement DEF Chosen
  <1>3. \A n \in Nat : \E f : Upto(n, f)
    <2> SUFFICES ASSUME S # {} PROVE FALSE
      OBVIOUS
    <2>1. PICK n \in S : \A k \in S : n <= k
      BY LeastNatural
    <2>2. CASE n = 0
      <3>1. \A T \in Small(0) : T = {}
        <4> SUFFICES ASSUME NEW T \in SUBSET D, Cardinality(T) <= 0, T # {} PROVE FALSE
          OBVIOUS
        <4>1. Cardinality(T) \in Nat /\ Cardinality(T) - 1 \in Nat
          BY <1>1, <1>2
        <4> QED BY <4>1
      <3>2. Upto(0, [T \in Small(0) |-> 0])
        BY <3>1
      <3> QED BY <2>1, <2>2, <3>2
    <2>3. CASE n # 0
      <3>1. n - 1 \in Nat /\ n - 1 \notin S /\ n \in Nat
        <4>1. n \in Nat
          BY <2>1
        <4> HIDE DEF S
        <4> QED BY <2>1, <2>3, <4>1
      <3>2. PICK f : Upto(n - 1, f)
        BY <3>1
      <3> DEFINE g == [T \in Small(n) |-> IF T = {} THEN 0 ELSE w[Chosen(T)] + f[T \ {Chosen(T)}]]
      <3>3. \A T \in Small(n - 1) : T \in Small(n) /\ g[T] = f[T]
        <4> SUFFICES ASSUME NEW T \in Small(n - 1) PROVE T \in Small(n) /\ g[T] = f[T]
          OBVIOUS
        <4>1. T \in Small(n)
          BY <1>1, <3>1
        <4>2. f[T] = IF T = {} THEN 0 ELSE w[Chosen(T)] + f[T \ {Chosen(T)}]
          BY <3>2
        <4> QED BY <4>1, <4>2
      <3>4. \A T \in Small(n) : T # {} => T \ {Chosen(T)} \in Small(n - 1)
        BY <1>1, <1>2, <3>1
      <3> HIDE DEF Small
      <3>5. \A T \in Small(n) : g[T] = IF T = {} THEN 0 ELSE w[Chosen(T)] + g[T \ {Chosen(T)}]
        BY <3>3, <3>4
      <3>6. Upto(n, g)
        BY <3>5
      <3> QED BY <2>1, <3>6
    <2> QED BY <2>2, <2>3
  <1>4. Small(Cardinality(D)) = SUBSET D /\ Cardinality(D) \in Nat
    BY <1>1, FS_Subset DEF Weights
  <1> QED BY <1>3, <1>4 DEF Sums

(* It does not depend on the order in which the elements are chosen.       *)
LEMMA SumStep ==
  ASSUME NEW w, Weights(w), NEW f, Sums(w, f)
  PROVE  /\ f[{}] = 0
         /\ \A T \in SUBSET DOMAIN w : f[T] \in Int /\ \A x \in T : f[T] = w[x] + f[T \ {x}]
  <1> DEFINE D == DOMAIN w
             Right(T) == f[T] \in Int /\ \A x \in T : f[T] = w[x] + f[T \ {x}]
             S == {n \in Nat : \E T \in SUBSET D : Cardinality(T) = n /\ ~Right(T)}
  <1>1. \A T \in SUBSET D : /\ IsFiniteSet(T) /\ Cardinality(T) \in Nat
                            /\ \A x \in T : Cardinality(T \ {x}) = Cardinality(T) - 1
    BY FS_Subset, FS_CardinalityType, FS_RemoveElement DEF Weights
  <1>2. \A T \in SUBSET D : f[T] = IF T = {} THEN 0 ELSE w[Chosen(T)] + f[T \ {Chosen(T)}]
    BY DEF Sums
  <1>3. \A T \in SUBSET D : T # {} => Chosen(T) \in T
    BY DEF Chosen
  <1>4. \A x \in D : w[x] \in Int
    BY DEF Weights
  <1>5. S = {}
    <2> SUFFICES ASSUME S # {} PROVE FALSE
      OBVIOUS
    <2>1. PICK n \in S : \A k \in S : n <= k
      BY LeastNatural
    <2>2. PICK T \in SUBSET D : Cardinality(T) = n /\ ~Right(T)
      BY <2>1
    <2>3. \A U \in SUBSET D : Cardinality(U) < n => Right(U)
      <3> SUFFICES ASSUME NEW U \in SUBSET D, Cardinality(U) < n, ~Right(U) PROVE FALSE
        OBVIOUS
      <3>1. Cardinality(U) \in S /\ n \in Nat /\ Cardinality(U) \in Nat
        BY <1>1, <2>1
      <3> HIDE DEF S
      <3> QED BY <2>1, <3>1
    <2>4. T # {}
      <3>1. f[{}] = 0
        BY <1>2
      <3> QED BY <2>2, <3>1
    <2>5. n \in Nat
      BY <2>1
    <2> DEFINE c == Chosen(T)
    <2>6. c \in T /\ f[T] = w[c] + f[T \ {c}]
      BY <1>2, <1>3, <2>4
    <2> HIDE DEF c
    <2>7. Right(T \ {c})
      BY <1>1, <2>2, <2>3, <2>5, <2>6
    <2>8. f[T] \in Int
      BY <1>4, <2>6, <2>7
    <2>9. ASSUME NEW x \in T PROVE f[T] = w[x] + f[T \ {x}]
      <3>1. CASE x = c
        BY <2>6, <3>1
      <3>2. CASE x # c
        <4>1. Right(T \ {x})
          BY <1>1, <2>2, <2>3, <2>5
        <4>2. (T \ {c}) \ {x} = (T \ {x}) \ {c} /\ x \in T \ {c} /\ c \in T \ {x}
          BY <2>6, <3>2
        <4>3. f[T \ {c}] = w[x] + f[(T \ {x}) \ {c}]
          BY <2>7, <4>2
        <4>4. f[T \ {x}] = w[c] + f[(T \ {x}) \ {c}]
          BY <4>1, <4>2
        <4>5. Right((T \ {x}) \ {c})
          <5>1. Cardinality(T \ {x}) = n - 1 /\ T \ {x} \in SUBSET D /\ n - 1 \in Nat
            BY <1>1, <2>2, <2>9
          <5>2. Cardinality((T \ {x}) \ {c}) = n - 2 /\ (T \ {x}) \ {c} \in SUBSET D
            BY <1>1, <4>2, <5>1
          <5>3. n - 2 < n
            BY <2>5
          <5> HIDE DEF Right, D
          <5> QED BY <2>3, <5>2, <5>3
        <4>6. f[(T \ {x}) \ {c}] \in Int /\ w[x] \in Int /\ w[c] \in Int
          BY <1>4, <2>6, <4>5
        <4> HIDE DEF Right
        <4> QED BY <2>6, <4>3, <4>4, <4>6
      <3> QED BY <3>1, <3>2
    <2> QED BY <2>2, <2>8, <2>9
  <1>6. \A T \in SUBSET D : Right(T)
    BY <1>1, <1>5
  <1> QED BY <1>2, <1>6

(* Two sums agree where their weights do.                                  *)
LEMMA SumsAgree ==
  ASSUME NEW w, NEW u, NEW f, NEW g, Weights(w), Weights(u), Sums(w, f), Sums(u, g),
         NEW E, E \subseteq DOMAIN w, E \subseteq DOMAIN u, \A x \in E : w[x] = u[x]
  PROVE  f[E] = g[E]
  <1> DEFINE G == {T \in SUBSET E : f[T] = g[T]}
  <1>1. IsFiniteSet(E)
    BY FS_Subset DEF Weights
  <1>4. f[{}] = 0 /\ \A T \in SUBSET DOMAIN w : f[T] \in Int /\ \A x \in T : f[T] = w[x] + f[T \ {x}]
    BY SumStep
  <1>5. g[{}] = 0 /\ \A T \in SUBSET DOMAIN u : g[T] \in Int /\ \A x \in T : g[T] = u[x] + g[T \ {x}]
    BY SMTT(30), SumStep
  <1>2. {} \in G
    BY <1>4, <1>5
  <1>3. ASSUME NEW T \in SUBSET E, NEW x \in E, T \in G, x \notin T
        PROVE  T \cup {x} \in G
    <2>1. (T \cup {x}) \ {x} = T /\ T \cup {x} \in SUBSET E /\ w[x] = u[x]
      BY <1>3
    <2> DEFINE U == T \cup {x}
    <2>2. f[U] = w[x] + f[U \ {x}]
      <3>1. U \in SUBSET DOMAIN w /\ x \in U
        BY <2>1
      <3> HIDE DEF U
      <3> QED BY <3>1, <1>4, <1>5
    <2>3. g[U] = u[x] + g[U \ {x}]
      <3>1. U \in SUBSET DOMAIN u /\ x \in U
        BY <2>1
      <3> HIDE DEF U
      <3> QED BY <3>1, <1>4, <1>5
    <2> QED BY <1>3, <2>1, <2>2, <2>3
  <1> HIDE DEF G
  <1>6. E \in G
    BY <1>1, <1>2, <1>3, FiniteInduction
  <1> QED BY <1>6 DEF G

(* A total grows by the weight of each element.                            *)
LEMMA TotalStep ==
  ASSUME NEW w, Weights(w)
  PROVE  /\ Total(w) \in Int /\ (DOMAIN w = {} => Total(w) = 0)
         /\ \A x \in DOMAIN w : Total(w) = w[x] + Total([a \in DOMAIN w \ {x} |-> w[a]])
  <1> DEFINE f == CHOOSE f : Sums(w, f)
  <1>1. Sums(w, f) /\ Total(w) = f[DOMAIN w]
    BY SumsExist DEF Total
  <1> HIDE DEF f
  <1>2. f[{}] = 0 /\ \A T \in SUBSET DOMAIN w : f[T] \in Int /\ \A x \in T : f[T] = w[x] + f[T \ {x}]
    BY <1>1, SumStep
  <1>3. ASSUME NEW x \in DOMAIN w PROVE Total(w) = w[x] + Total([a \in DOMAIN w \ {x} |-> w[a]])
    <2> DEFINE u == [a \in DOMAIN w \ {x} |-> w[a]]
               g == CHOOSE g : Sums(u, g)
    <2>1. Weights(u) /\ DOMAIN u = DOMAIN w \ {x} /\ \A a \in DOMAIN u : u[a] = w[a]
      BY FS_Subset DEF Weights
    <2> HIDE DEF u
    <2>2. Sums(u, g) /\ Total(u) = g[DOMAIN u]
      BY <2>1, SumsExist DEF Total
    <2> HIDE DEF g
    <2>3. f[DOMAIN u] = g[DOMAIN u]
      <3>1. PICK E : E = DOMAIN u
        OBVIOUS
      <3>2. E \subseteq DOMAIN w /\ E \subseteq DOMAIN u /\ \A a \in E : w[a] = u[a]
        BY <2>1, <3>1
      <3>3. f[E] = g[E]
        BY <1>1, <2>1, <2>2, <3>2, SumsAgree
      <3> QED BY <3>1, <3>3
    <2>4. Total(w) = w[x] + f[DOMAIN w \ {x}]
      BY <1>1, <1>2
    <2>5. Total(w) = w[x] + Total(u)
      BY <2>1, <2>2, <2>3, <2>4
    <2> QED BY <2>5 DEF u
  <1> QED BY <1>1, <1>2, <1>3


-----------------------------------------------------------------------------
(* The charge of a set of entries *)

Sizes(ent, hp, K) == [h \in K |-> hp[ent[h]].size]

(* The charge is the total of the sizes.                                   *)
LEMMA ChargeIsTotal ==
  ASSUME NEW ent, NEW hp, NEW K
  PROVE  Charge(ent, hp, K) = Total(Sizes(ent, hp, K))
  <1> DEFINE Given(f) == f = [T \in SUBSET K |-> IF T = {} THEN 0
                               ELSE hp[ent[CHOOSE x \in T : TRUE]].size + f[T \ {CHOOSE x \in T : TRUE}]]
  <1>1. Charge(ent, hp, K) = (CHOOSE f : Given(f))[K]
    BY DEF Charge, MapThenSumSet, MapThenFoldSet
  <1>2. PICK w : w = Sizes(ent, hp, K)
    OBVIOUS
  <1>3. DOMAIN w = K /\ \A T \in SUBSET K : T # {} => w[Chosen(T)] = hp[ent[Chosen(T)]].size
    BY <1>2 DEF Chosen, Sizes
  <1>4. ASSUME NEW f PROVE Given(f) <=> Sums(w, f)
    <2> DEFINE A(T) == IF T = {} THEN 0 ELSE hp[ent[Chosen(T)]].size + f[T \ {Chosen(T)}]
               B(T) == IF T = {} THEN 0 ELSE w[Chosen(T)] + f[T \ {Chosen(T)}]
    <2>1. \A T \in SUBSET K : A(T) = B(T)
      BY <1>3
    <2>2. [T \in SUBSET K |-> A(T)] = [T \in SUBSET K |-> B(T)]
      BY <2>1
    <2>3. Given(f) <=> f = [T \in SUBSET K |-> A(T)]
      BY DEF Chosen
    <2>4. Sums(w, f) <=> f = [T \in SUBSET K |-> B(T)]
      BY <1>3 DEF Sums
    <2> HIDE DEF A, B, Given
    <2> QED BY <2>2, <2>3, <2>4
  <1> HIDE DEF Given
  <1>5. (CHOOSE f : Given(f)) = (CHOOSE f : Sums(w, f))
    BY <1>4
  <1> QED BY <1>1, <1>2, <1>3, <1>5 DEF Total

(* It depends on the sizes only.                                           *)
LEMMA ChargeAgrees ==
  ASSUME NEW ent, NEW hp, NEW ent2, NEW hp2, NEW K,
         \A h \in K : hp[ent[h]].size = hp2[ent2[h]].size
  PROVE  Charge(ent, hp, K) = Charge(ent2, hp2, K)
  <1>1. Sizes(ent, hp, K) = Sizes(ent2, hp2, K)
    BY DEF Sizes
  <1> QED BY <1>1, ChargeIsTotal

(* It grows by the size of each entry.                                     *)
LEMMA ChargeStep ==
  ASSUME NEW ent, NEW hp, NEW K, IsFiniteSet(K), \A h \in K : hp[ent[h]].size \in Int
  PROVE  /\ Charge(ent, hp, K) \in Int /\ (K = {} => Charge(ent, hp, K) = 0)
         /\ \A h \in K : Charge(ent, hp, K) = hp[ent[h]].size + Charge(ent, hp, K \ {h})
  <1>1. PICK w : w = Sizes(ent, hp, K)
    OBVIOUS
  <1>2. DOMAIN w = K /\ Weights(w) /\ \A h \in K : w[h] = hp[ent[h]].size
    BY <1>1 DEF Weights, Sizes
  <1>3. /\ Total(w) \in Int /\ (DOMAIN w = {} => Total(w) = 0)
        /\ \A h \in DOMAIN w : Total(w) = w[h] + Total([g \in DOMAIN w \ {h} |-> w[g]])
    BY <1>2, TotalStep
  <1>4. \A h \in K : [g \in DOMAIN w \ {h} |-> w[g]] = Sizes(ent, hp, K \ {h})
    BY <1>2 DEF Sizes
  <1>5. Charge(ent, hp, K) = Total(w) /\ \A h \in K : Charge(ent, hp, K \ {h}) = Total(Sizes(ent, hp, K \ {h}))
    BY <1>1, ChargeIsTotal
  <1>6. ASSUME NEW h \in K PROVE Charge(ent, hp, K) = hp[ent[h]].size + Charge(ent, hp, K \ {h})
    <2>1. Total(w) = w[h] + Total([g \in DOMAIN w \ {h} |-> w[g]])
      BY <1>2, <1>3
    <2> QED BY <1>2, <1>4, <1>5, <2>1
  <1> QED BY <1>2, <1>3, <1>5, <1>6

(* What is kept and what is not add up.                                    *)
LEMMA ChargeOfUnion ==
  ASSUME NEW ent, NEW hp, NEW K, NEW L, IsFiniteSet(K), IsFiniteSet(L), K \cap L = {},
         \A h \in K \cup L : hp[ent[h]].size \in Int
  PROVE  Charge(ent, hp, K \cup L) = Charge(ent, hp, K) + Charge(ent, hp, L)
  <1> DEFINE G == {T \in SUBSET K : Charge(ent, hp, T \cup L) = Charge(ent, hp, T) + Charge(ent, hp, L)}
  <1>1. \A T \in SUBSET K : IsFiniteSet(T) /\ IsFiniteSet(T \cup L)
    BY FS_Subset, FS_Union
  <1>2. Charge(ent, hp, L) \in Int /\ Charge(ent, hp, {}) = 0
    <2>1. \A h \in L : hp[ent[h]].size \in Int
      OBVIOUS
    <2>2. Charge(ent, hp, L) \in Int
      BY <2>1, ChargeStep
    <2>3. IsFiniteSet({}) /\ \A h \in {} : hp[ent[h]].size \in Int
      BY FS_EmptySet
    <2>4. Charge(ent, hp, {}) = 0
      BY <2>3, ChargeStep
    <2> QED BY <2>2, <2>4
  <1>3. {} \in G
    BY <1>2
  <1>4. ASSUME NEW T \in SUBSET K, NEW x \in K, T \in G, x \notin T
        PROVE  T \cup {x} \in G
    <2>1. PICK U : U = T \cup {x}
      OBVIOUS
    <2>2. U \in SUBSET K /\ x \in U /\ U \ {x} = T /\ x \in U \cup L /\ (U \cup L) \ {x} = T \cup L
      BY <1>4, <2>1
    <2>3. Charge(ent, hp, U) = hp[ent[x]].size + Charge(ent, hp, T)
      <3>1. IsFiniteSet(U) /\ \A h \in U : hp[ent[h]].size \in Int
        BY <1>1, <2>2
      <3>2. Charge(ent, hp, U) = hp[ent[x]].size + Charge(ent, hp, U \ {x})
        BY <2>2, <3>1, ChargeStep
      <3> QED BY <2>2, <3>2
    <2>4. Charge(ent, hp, U \cup L) = hp[ent[x]].size + Charge(ent, hp, T \cup L)
      <3>1. IsFiniteSet(U \cup L) /\ \A h \in U \cup L : hp[ent[h]].size \in Int
        BY <1>1, <2>2
      <3>2. PICK W : W = U \cup L
        OBVIOUS
      <3>3. IsFiniteSet(W) /\ \A h \in W : hp[ent[h]].size \in Int
        BY <3>1, <3>2
      <3> HIDE DEF G
      <3>4. \A h \in W : Charge(ent, hp, W) = hp[ent[h]].size + Charge(ent, hp, W \ {h})
        BY ONLY <3>3, ChargeStep
      <3>5. Charge(ent, hp, W) = hp[ent[x]].size + Charge(ent, hp, W \ {x})
        BY <2>2, <3>2, <3>4
      <3> QED BY <2>2, <3>2, <3>5
    <2>5. Charge(ent, hp, T) \in Int /\ hp[ent[x]].size \in Int
      <3>1. IsFiniteSet(T) /\ \A h \in T : hp[ent[h]].size \in Int
        BY <1>1
      <3> QED BY <3>1, ChargeStep
    <2>6. Charge(ent, hp, T \cup L) = Charge(ent, hp, T) + Charge(ent, hp, L)
      BY <1>4
    <2>7. Charge(ent, hp, U \cup L) = Charge(ent, hp, U) + Charge(ent, hp, L)
      BY <1>2, <2>3, <2>4, <2>5, <2>6
    <2> QED BY <2>1, <2>2, <2>7
  <1> HIDE DEF G
  <1>5. K \in G
    BY <1>3, <1>4, FiniteInduction
  <1> QED BY <1>5 DEF G

-----------------------------------------------------------------------------
(* The inductive invariant, part four: what is charged *)

SizeOK(e) ==
  IsFiniteSet(DOMAIN e.variants) /\ e.size = ReportSize + VariantSize * Cardinality(DOMAIN e.variants)

SizesOK(hp) == \A i \in DOMAIN hp : SizeOK(hp[i])

(* An encoder has a flight to itself, and what it encodes is not there yet. *)
EncodersOK(rd, hp) ==
  /\ \A r \in Readers : rd[r].pc \in Encoding =>
       LET e == hp[rd[r].e] IN
       KeyOf(rd[r]) \in e.variantFlights /\ KeyOf(rd[r]) \notin DOMAIN e.variants
  /\ \A r, q \in Readers :
       rd[r].pc \in Encoding /\ rd[q].pc \in Encoding /\ rd[r].e = rd[q].e
         /\ KeyOf(rd[r]) = KeyOf(rd[q]) => r = q

Bill(en, hp, by) ==
  /\ by = Charge(en, hp, Cached(en)) /\ by <= CacheBytes
  /\ Cardinality(Cached(en)) <= MaxEntries

ChargeInv == EncodersOK(reader, heap) /\ SizesOK(heap) /\ Bill(entries, heap, bytes)

(* A size is a natural.                                                    *)
LEMMA SizeNatural == \A e : SizeOK(e) => e.size \in Nat
  <1> SUFFICES ASSUME NEW e, SizeOK(e) PROVE e.size \in Nat
    OBVIOUS
  <1>1. PICK n : n = Cardinality(DOMAIN e.variants)
    OBVIOUS
  <1>2. n \in Nat /\ ReportSize \in Nat /\ VariantSize \in Nat
    BY <1>1, FS_CardinalityType, CacheAssumption DEF SizeOK
  <1>3. e.size = ReportSize + VariantSize * n /\ VariantSize * n \in Nat
    BY <1>1, <1>2 DEF SizeOK
  <1> QED BY <1>2, <1>3

(* There are finitely many entries, each a report of its own.              *)
LEMMA CachedFacts ==
  ASSUME NEW en
  PROVE  /\ Cached(en) \subseteq Heights /\ IsFiniteSet(Cached(en))
         /\ \A K \in SUBSET Cached(en) : IsFiniteSet(K) /\ Cardinality(K) <= Cardinality(Cached(en))
         /\ Cardinality(Cached(en)) \in Nat
  <1>1. Cached(en) \subseteq Heights
    BY DEF Cached
  <1> QED BY <1>1, CacheAssumption, FS_Subset, FS_CardinalityType

(* Trimming takes the charge of what it drops off the total.               *)
LEMMA TrimsBill ==
  ASSUME NEW ent, NEW hp, NEW total, total = Charge(ent, hp, Cached(ent)),
         \A h \in Cached(ent) : hp[ent[h]].size \in Int,
         NEW left \in Trims(ent, hp, total)
  PROVE  Bill(left.entries, hp, left.bytes)
  <1>1. PICK K \in Kept(ent, hp, total) :
          left = [entries |-> Only(ent, K), bytes |-> Left(ent, hp, total, K)]
    BY DEF Trims
  <1>2. /\ K \in SUBSET Cached(ent) /\ Left(ent, hp, total, K) <= CacheBytes
        /\ Cardinality(K) <= MaxEntries
    BY <1>1 DEF Kept, Fits
  <1>3. PICK L : L = Cached(ent) \ K
    OBVIOUS
  <1>4. K \cup L = Cached(ent) /\ K \cap L = {} /\ L \in SUBSET Cached(ent)
    BY <1>2, <1>3
  <1>5. IsFiniteSet(K) /\ IsFiniteSet(L)
    BY <1>2, <1>4, CachedFacts
  <1>6. Charge(ent, hp, K \cup L) = Charge(ent, hp, K) + Charge(ent, hp, L)
    BY <1>4, <1>5, ChargeOfUnion
  <1>7. Charge(ent, hp, K) \in Int /\ Charge(ent, hp, L) \in Int
    <2>1. \A h \in K : hp[ent[h]].size \in Int
      BY <1>2
    <2>2. \A h \in L : hp[ent[h]].size \in Int
      BY <1>4
    <2> QED BY <2>1, <2>2, <1>5, ChargeStep
  <1>8. Left(ent, hp, total, K) = Charge(ent, hp, K)
    <2>1. Left(ent, hp, total, K) = total - Charge(ent, hp, L)
      BY <1>3 DEF Left
    <2>2. total = Charge(ent, hp, K) + Charge(ent, hp, L)
      BY <1>4, <1>6
    <2> QED BY <1>7, <2>1, <2>2
  <1>9. PICK en : en = Only(ent, K)
    OBVIOUS
  <1>10. \A h \in Heights : en[h] = IF h \in K THEN ent[h] ELSE Nothing
    BY <1>9 DEF Only
  <1>11. Cached(en) = K
    BY <1>2, <1>10 DEF Cached
  <1>12. Charge(en, hp, K) = Charge(ent, hp, K)
    <2>1. \A h \in K : hp[en[h]].size = hp[ent[h]].size
      BY <1>2, <1>10, CachedFacts
    <2> QED BY <2>1, ChargeAgrees
  <1>13. left.entries = en /\ left.bytes = Charge(ent, hp, K)
    BY <1>1, <1>8, <1>9
  <1> QED BY <1>2, <1>8, <1>11, <1>12, <1>13 DEF Bill

(* The bill stays when the entries do and their sizes.                     *)
LEMMA BillStays ==
  ASSUME NEW en, NEW hp, NEW hp2, NEW by, Bill(en, hp, by),
         \A h \in Cached(en) : hp2[en[h]].size = hp[en[h]].size
  PROVE  Bill(en, hp2, by)
  <1>1. Charge(en, hp2, Cached(en)) = Charge(en, hp, Cached(en))
    BY ChargeAgrees
  <1> QED BY <1>1 DEF Bill

(* An entry that is dropped takes its size along.                          *)
LEMMA BillWithout ==
  ASSUME NEW en, DOMAIN en = Heights, NEW hp, NEW by, Bill(en, hp, by), NEW h \in Heights,
         \A g \in Cached(en) : hp[en[g]].size \in Nat
  PROVE  /\ Charge(en, hp, Cached(en) \ {h}) = by - SizeAt(en, hp, h)
         /\ Charge(en, hp, Cached(en) \ {h}) \in Int
         /\ Bill(Drop(en, h), hp, by - SizeAt(en, hp, h))
  <1>1. IsFiniteSet(Cached(en)) /\ by = Charge(en, hp, Cached(en)) /\ by <= CacheBytes
        /\ Cardinality(Cached(en)) <= MaxEntries /\ Cardinality(Cached(en)) \in Nat
    BY CachedFacts DEF Bill
  <1>2. PICK K : K = Cached(en) \ {h}
    OBVIOUS
  <1>3. K \in SUBSET Cached(en) /\ IsFiniteSet(K) /\ Cardinality(K) <= Cardinality(Cached(en))
    BY <1>2, CachedFacts
  <1>4. Charge(en, hp, K) \in Int /\ by \in Int
    <2>1. \A g \in K : hp[en[g]].size \in Int
      BY <1>3
    <2>2. \A g \in Cached(en) : hp[en[g]].size \in Int
      OBVIOUS
    <2>3. Charge(en, hp, K) \in Int
      BY <1>3, <2>1, ChargeStep
    <2>4. Charge(en, hp, Cached(en)) \in Int
      BY <1>1, <2>2, ChargeStep
    <2> QED BY <1>1, <2>3, <2>4
  <1>5. Charge(en, hp, K) = by - SizeAt(en, hp, h) /\ SizeAt(en, hp, h) \in Nat
    <2>1. CASE h \in Cached(en)
      <3>1. en[h] # Nothing
        BY <2>1 DEF Cached
      <3>2. SizeAt(en, hp, h) = hp[en[h]].size
        BY <3>1 DEF SizeAt
      <3>3. Charge(en, hp, Cached(en)) = hp[en[h]].size + Charge(en, hp, Cached(en) \ {h})
        <4>1. \A g \in Cached(en) : hp[en[g]].size \in Int
          OBVIOUS
        <4> QED BY <1>1, <2>1, <4>1, ChargeStep
      <3>4. hp[en[h]].size \in Nat
        BY <2>1
      <3> QED BY <1>1, <1>2, <1>4, <3>2, <3>3, <3>4
    <2>2. CASE h \notin Cached(en)
      <3>1. SizeAt(en, hp, h) = 0
        BY <2>2 DEF SizeAt, Cached
      <3>2. K = Cached(en)
        BY <1>2, <2>2
      <3> QED BY <1>1, <1>4, <3>1, <3>2
    <2> QED BY <2>1, <2>2
  <1>6. PICK en2 : en2 = Drop(en, h)
    OBVIOUS
  <1>7. \A g \in Heights : en2[g] = IF g = h THEN Nothing ELSE en[g]
    BY <1>6 DEF Drop
  <1>8. Cached(en2) = K
    BY <1>2, <1>7 DEF Cached
  <1>9. Charge(en2, hp, K) = Charge(en, hp, K)
    <2>1. \A g \in K : g \in Heights /\ g # h
      BY <1>2 DEF Cached
    <2>2. \A g \in K : hp[en2[g]].size = hp[en[g]].size
      BY <1>7, <2>1
    <2> QED BY <2>2, ChargeAgrees
  <1>10. by - SizeAt(en, hp, h) <= CacheBytes
    BY <1>1, <1>4, <1>5, CacheAssumption
  <1>11. Cardinality(K) <= MaxEntries
    <2>1. Cardinality(K) \in Nat /\ MaxEntries \in Nat
      BY <1>3, FS_CardinalityType, CacheAssumption
    <2> QED BY <1>1, <1>3, <2>1
  <1>12. Bill(en2, hp, by - SizeAt(en, hp, h))
    BY <1>5, <1>8, <1>9, <1>10, <1>11 DEF Bill
  <1> QED BY <1>2, <1>4, <1>5, <1>6, <1>12

(* A variant that is added is charged, and so are those that give way.     *)
LEMMA VariantCharged ==
  ASSUME NEW e, SizeOK(e), NEW k, k \notin DOMAIN e.variants, NEW b, NEW added, added = WithVariant(e, k, b),
         NEW o, o = NoFlight(added, k)
  PROVE  /\ SizeOK(o) /\ o.size = added.size /\ o.height = e.height
         /\ o.variantFlights = e.variantFlights \ {k}
         /\ DOMAIN o.variants \subseteq DOMAIN e.variants \cup {k}
  <1> DEFINE D == DOMAIN e.variants
             full == Cardinality(D) >= MaxVariants
  <1>1. PICK kept : kept = IF full THEN {} ELSE D
    OBVIOUS
  <1>2. PICK gone : gone = Cardinality(D \ kept)
    OBVIOUS
  <1>3. /\ DOMAIN added.variants = kept \cup {k} /\ added.variantFlights = e.variantFlights
        /\ added.size = e.size - gone * VariantSize + VariantSize /\ added.height = e.height
    BY <1>1, <1>2 DEF WithVariant
  <1>4. /\ o.variants = added.variants /\ o.size = added.size /\ o.height = added.height
        /\ o.variantFlights = added.variantFlights \ {k}
    BY DEF NoFlight
  <1>5. PICK n : n = Cardinality(D)
    OBVIOUS
  <1>6. IsFiniteSet(D) /\ n \in Nat /\ e.size = ReportSize + VariantSize * n
    BY <1>5, FS_CardinalityType DEF SizeOK
  <1>7. ReportSize \in Nat /\ VariantSize \in Nat
    BY CacheAssumption
  <1>8. IsFiniteSet(kept) /\ k \notin kept /\ kept \subseteq D
    BY <1>1, <1>6, FS_EmptySet
  <1>9. /\ IsFiniteSet(kept \cup {k})
        /\ Cardinality(kept \cup {k}) = Cardinality(kept) + 1
    BY <1>8, FS_AddElement
  <1>10. added.size = ReportSize + VariantSize * Cardinality(kept \cup {k})
    <2>1. CASE full
      <3>1. kept = {} /\ D \ kept = D
        BY <1>1, <2>1
      <3>2. gone = n /\ Cardinality(kept) = 0
        BY <1>2, <1>5, <3>1, FS_EmptySet
      <3>3. added.size = (ReportSize + VariantSize * n) - n * VariantSize + VariantSize
        BY <1>3, <1>6, <3>2
      <3>4. VariantSize * n = n * VariantSize /\ n * VariantSize \in Nat
        BY <1>6, <1>7
      <3>5. added.size = ReportSize + VariantSize
        BY <1>7, <3>3, <3>4
      <3>6. Cardinality(kept \cup {k}) = 1
        BY <1>9, <3>2
      <3> QED BY <1>7, <3>5, <3>6
    <2>2. CASE ~full
      <3>1. kept = D /\ D \ kept = {}
        BY <1>1, <2>2
      <3>2. gone = 0 /\ Cardinality(kept) = n
        BY <1>2, <1>5, <3>1, FS_EmptySet
      <3>3. added.size = (ReportSize + VariantSize * n) - 0 + VariantSize
        BY <1>3, <1>6, <1>7, <3>2
      <3>4. VariantSize * (n + 1) = VariantSize * n + VariantSize /\ VariantSize * n \in Nat
        BY <1>6, <1>7
      <3>5. Cardinality(kept \cup {k}) = n + 1
        BY <1>9, <3>2
      <3> QED BY <1>7, <3>3, <3>4, <3>5
    <2> QED BY <2>1, <2>2
  <1>11. SizeOK(o)
    BY <1>3, <1>4, <1>9, <1>10 DEF SizeOK
  <1>12. DOMAIN o.variants \subseteq D \cup {k}
    BY <1>3, <1>4, <1>8
  <1> QED BY <1>3, <1>4, <1>11, <1>12

-----------------------------------------------------------------------------
(* What keeps it *)

(* An encoder has a report.                                                *)
LEMMA EncoderHolds ==
  ASSUME NEW rd, NEW hp, NEW en, ReadersOK(rd), HeapOK(rd, hp, en), NEW r \in Readers, rd[r].pc \in Encoding
  PROVE  rd[r].e \in DOMAIN hp
  <1>1. rd[r] # Idle /\ rd[r].pc \in Bearing /\ rd[r].pc \notin Starting \cup {"lookup", "publish"}
    BY DEF Idle, Encoding, Bearing, Starting
  <1>2. DOMAIN rd[r] = Fields \cup {"v", "e"}
    BY <1>1 DEF ReadersOK, ReaderOK, Shapes
  <1> QED BY <1>2 DEF HeapOK, Fields

(* Encoders that were encoders before, of reports that are as they were.   *)
LEMMA EncodersStay ==
  ASSUME NEW rd, NEW hp, NEW en, NEW rd2, NEW hp2, NEW en2, EncodersOK(rd, hp),
         ReadersOK(rd), HeapOK(rd, hp, en), ReadersOK(rd2), HeapOK(rd2, hp2, en2),
         \A i \in DOMAIN hp \cap DOMAIN hp2 : hp2[i].variants = hp[i].variants
                                             /\ hp2[i].variantFlights = hp[i].variantFlights,
         \A q \in Readers : rd2[q].pc \in Encoding =>
           /\ rd[q].pc \in Encoding /\ rd2[q].e = rd[q].e
           /\ rd2[q].view = rd[q].view /\ rd2[q].v = rd[q].v
  PROVE  EncodersOK(rd2, hp2)
  <1>1. ASSUME NEW q \in Readers, rd2[q].pc \in Encoding
        PROVE  /\ rd[q].pc \in Encoding /\ rd2[q].e = rd[q].e /\ KeyOf(rd2[q]) = KeyOf(rd[q])
               /\ rd[q].e \in DOMAIN hp \cap DOMAIN hp2
    <2>1. rd2[q].e \in DOMAIN hp2 /\ rd[q].e \in DOMAIN hp
      BY <1>1, EncoderHolds
    <2> QED BY <1>1, <2>1 DEF KeyOf
  <1>2. ASSUME NEW q \in Readers, rd2[q].pc \in Encoding
        PROVE  /\ KeyOf(rd2[q]) \in hp2[rd2[q].e].variantFlights
               /\ KeyOf(rd2[q]) \notin DOMAIN hp2[rd2[q].e].variants
    <2>1. PICK i \in DOMAIN hp \cap DOMAIN hp2 : i = rd[q].e
      BY <1>1, <1>2
    <2>2. KeyOf(rd[q]) \in hp[i].variantFlights /\ KeyOf(rd[q]) \notin DOMAIN hp[i].variants
      BY <1>1, <1>2, <2>1 DEF EncodersOK
    <2>3. hp2[i].variants = hp[i].variants /\ hp2[i].variantFlights = hp[i].variantFlights
      OBVIOUS
    <2> QED BY <1>1, <1>2, <2>1, <2>2, <2>3
  <1>3. ASSUME NEW q \in Readers, NEW p \in Readers, rd2[q].pc \in Encoding, rd2[p].pc \in Encoding,
               rd2[q].e = rd2[p].e, KeyOf(rd2[q]) = KeyOf(rd2[p])
        PROVE  q = p
    BY <1>1, <1>3 DEF EncodersOK
  <1> QED BY <1>2, <1>3 DEF EncodersOK

(* Every report is of a size, and the entries are reports.                 *)
LEMMA EntrySizes ==
  ASSUME WaitInv, ChargeInv
  PROVE  /\ DOMAIN entries = Heights
         /\ \A h \in Cached(entries) : entries[h] \in DOMAIN heap /\ heap[entries[h]].size \in Nat
  <1>1. DOMAIN entries = Heights /\ \A h \in Cached(entries) : entries[h] \in DOMAIN heap
    BY DEF WaitInv, Waits, HeapOK, Cached
  <1>2. \A i \in DOMAIN heap : heap[i].size \in Nat
    BY SizeNatural DEF ChargeInv, SizesOK
  <1> QED BY <1>1, <1>2

(* The step of a request that touches neither entries nor reports.         *)
LEMMA UntouchedCharge ==
  ASSUME WaitInv, WaitInv', ChargeInv, UNCHANGED <<entries, bytes>>,
         \A i \in DOMAIN heap' : SizeOK(heap'[i]),
         \A i \in DOMAIN heap \cap DOMAIN heap' : heap'[i].size = heap[i].size
  PROVE  SizesOK(heap') /\ Bill(entries', heap', bytes')
  <1>1. \A h \in Cached(entries) : entries[h] \in DOMAIN heap \cap DOMAIN heap'
    BY DEF WaitInv, Waits, HeapOK, Cached
  <1>2. \A h \in Cached(entries) : heap'[entries[h]].size = heap[entries[h]].size
    BY <1>1
  <1>3. Bill(entries, heap', bytes)
    BY <1>2, BillStays DEF ChargeInv
  <1> QED BY <1>3 DEF SizesOK

(* What is collected is as it was.                                         *)
LEMMA HeapSame ==
  ASSUME NEW hp, Heap(hp)
  PROVE  \A i \in DOMAIN heap' : i \in DOMAIN hp /\ heap'[i] = hp[i]
  BY DEF Heap, Restrict

(* The step of a request that encodes nothing afterwards.                  *)
LEMMA OtherEncoders ==
  ASSUME WaitInv, NEW r \in Readers, NEW y, reader' = [reader EXCEPT ![r] = y], y.pc \notin Encoding,
         NEW q \in Readers, reader'[q].pc \in Encoding
  PROVE  reader'[q] = reader[q]
  BY DEF WaitInv, Waits, ReadersOK

(* Such a step keeps the charge if it keeps the reports it does not drop.  *)
LEMMA StepCharges ==
  ASSUME WaitInv, WaitInv', ChargeInv, UNCHANGED <<entries, bytes>>,
         \A i \in DOMAIN heap' : i \in DOMAIN heap /\ heap'[i] = heap[i],
         \A q \in Readers : reader'[q].pc \in Encoding =>
           /\ reader[q].pc \in Encoding /\ reader'[q].e = reader[q].e
           /\ reader'[q].view = reader[q].view /\ reader'[q].v = reader[q].v
  PROVE  ChargeInv'
  <1>1. SizesOK(heap') /\ Bill(entries', heap', bytes')
    <2>1. \A i \in DOMAIN heap' : SizeOK(heap'[i])
      BY DEF ChargeInv, SizesOK
    <2> QED BY <2>1, UntouchedCharge
  <1>2. EncodersOK(reader', heap')
    <2>1. EncodersOK(reader, heap) /\ ReadersOK(reader) /\ HeapOK(reader, heap, entries)
          /\ ReadersOK(reader') /\ HeapOK(reader', heap', entries')
      BY DEF ChargeInv, WaitInv, Waits
    <2> QED BY <2>1, EncodersStay
  <1> QED BY <1>1, <1>2 DEF ChargeInv

(* The same for one request that becomes y.                                *)
LEMMA OneCharges ==
  ASSUME WaitInv, WaitInv', ChargeInv, UNCHANGED <<entries, bytes>>, UNCHANGED heap \/ Heap(heap),
         NEW r \in Readers, NEW y, reader' = [reader EXCEPT ![r] = y], y.pc \notin Encoding
  PROVE  ChargeInv'
  <1>1. \A i \in DOMAIN heap' : i \in DOMAIN heap /\ heap'[i] = heap[i]
    BY HeapSame
  <1>2. \A q \in Readers : reader'[q].pc \in Encoding => reader'[q] = reader[q]
    BY OtherEncoders
  <1> QED BY <1>1, <1>2, StepCharges

(* Where a request is after it was given a field.                          *)
LEMMA PutKeepsPlace ==
  ASSUME NEW x, "pc" \in DOMAIN x, NEW pc, NEW f, f # "pc", NEW v
  PROVE  Put([x EXCEPT !.pc = pc], f, v).pc = pc /\ [x EXCEPT !.pc = pc].pc = pc
  <1>1. PICK z : z = [x EXCEPT !.pc = pc]
    OBVIOUS
  <1>2. z.pc = pc /\ "pc" \in DOMAIN z
    BY <1>1
  <1>3. Put(z, f, v).pc = pc
    BY <1>2 DEF Put
  <1> QED BY <1>1, <1>2, <1>3

(* Every request is somewhere.                                             *)
LEMMA HasPlace ==
  ASSUME WaitInv, NEW r \in Readers
  PROVE  "pc" \in DOMAIN reader[r]
  <1>1. reader[r] = Idle \/ DOMAIN reader[r] \in Shapes(reader[r].pc)
    BY DEF WaitInv, Waits, ReadersOK, ReaderOK
  <1>2. \A pc : \A S \in Shapes(pc) : Fields \subseteq S
    BY DEF Shapes
  <1> QED BY <1>1, <1>2 DEF Idle, Fields

(* A new request.                                                          *)
LEMMA RequestCharges ==
  ASSUME WaitInv, WaitInv', ChargeInv, NEW r \in Readers, NEW h, NEW view, Request(r, h, view)
  PROVE  ChargeInv'
  <1>1. PICK f : LET asked == [pc |-> "capture", height |-> h, view |-> view, floor |-> f]
                 IN reader' = [reader EXCEPT ![r] = IF view = "capture" THEN asked
                                ELSE Put([asked EXCEPT !.pc = "lookup"], "v", Version(h))]
    BY DEF Request
  <1> DEFINE asked == [pc |-> "capture", height |-> h, view |-> view, floor |-> f]
  <1>2. PICK y : y = IF view = "capture" THEN asked ELSE Put([asked EXCEPT !.pc = "lookup"], "v", Version(h))
    OBVIOUS
  <1>3. reader' = [reader EXCEPT ![r] = y]
    BY <1>1, <1>2
  <1>4. y.pc \in {"capture", "lookup"}
    <2>1. "pc" \in DOMAIN asked /\ asked.pc = "capture"
      OBVIOUS
    <2> HIDE DEF asked
    <2>2. Put([asked EXCEPT !.pc = "lookup"], "v", Version(h)).pc = "lookup"
      BY <2>1, PutKeepsPlace
    <2> QED BY <1>2, <2>1, <2>2
  <1>5. UNCHANGED <<heap, entries, bytes>>
    BY DEF Request
  <1> QED BY <1>3, <1>4, <1>5, OneCharges DEF Encoding

(* The steps that only read, wait or let go.                               *)
LEMMA QuietCharges ==
  ASSUME WaitInv, WaitInv', ChargeInv, NEW r \in Readers,
         \/ ReadVersion(r) \/ LookupHit(r) \/ LookupMiss(r) \/ ReadLatest(r) \/ CancelBuild(r)
         \/ FinishCapture(r) \/ EncodeHit(r) \/ CancelWaiting(r)
  PROVE  ChargeInv'
  <1> DEFINE x == reader[r]
  <1>1. "pc" \in DOMAIN x
    BY HasPlace
  <1>2. UNCHANGED <<entries, bytes>> /\ (UNCHANGED heap \/ Heap(heap))
    BY DEF ReadVersion, LookupHit, LookupMiss, ReadLatest, CancelBuild, FinishCapture, EncodeHit, CancelWaiting
  <1>3. \E y : reader' = [reader EXCEPT ![r] = y] /\ y.pc \notin Encoding
    <2>1. CASE ReadVersion(r) \/ ReadLatest(r)
      <3>1. PICK pc \in {"lookup", "publish"} :
              reader' = [reader EXCEPT ![r] = Put([x EXCEPT !.pc = pc], "v", Version(x.height))]
        BY <2>1 DEF ReadVersion, ReadLatest, Go
      <3>2. PICK y : y = Put([x EXCEPT !.pc = pc], "v", Version(x.height))
        OBVIOUS
      <3>3. y.pc = pc
        BY <1>1, <3>2, PutKeepsPlace
      <3> QED BY <3>1, <3>2, <3>3 DEF Encoding
    <2>2. CASE LookupHit(r)
      <3>1. PICK y : y = Put([x EXCEPT !.pc = "encode"], "e", entries[x.height]) /\ reader' = [reader EXCEPT ![r] = y]
        BY <2>2 DEF LookupHit, Go
      <3>2. y.pc = "encode"
        BY <1>1, <3>1, PutKeepsPlace
      <3> QED BY <3>1, <3>2 DEF Encoding
    <2>3. CASE LookupMiss(r)
      <3>1. PICK pc : pc = IF x.height \in flights THEN "wait" ELSE "build"
        OBVIOUS
      <3>2. PICK y : y = [Asked(x) EXCEPT !.pc = pc]
        OBVIOUS
      <3>3. reader' = [reader EXCEPT ![r] = y]
        BY <2>3, <3>1, <3>2 DEF LookupMiss
      <3>4. y.pc = pc
        BY <3>2 DEF Asked
      <3> QED BY <3>1, <3>3, <3>4 DEF Encoding
    <2>4. CASE CancelBuild(r)
      <3>1. reader' = [reader EXCEPT ![r] = [x EXCEPT !.pc = "failed"]]
        BY <2>4 DEF CancelBuild, Go
      <3>2. [x EXCEPT !.pc = "failed"].pc = "failed"
        BY <1>1
      <3> QED BY <3>1, <3>2 DEF Encoding
    <2>5. CASE FinishCapture(r) \/ EncodeHit(r) \/ CancelWaiting(r)
      <3>1. reader' = [reader EXCEPT ![r] = Idle] /\ Idle.pc = "idle"
        BY <2>5 DEF FinishCapture, EncodeHit, CancelWaiting, Idle
      <3> QED BY <3>1 DEF Encoding
    <2> QED BY <2>1, <2>2, <2>3, <2>4, <2>5
  <1>4. PICK y : reader' = [reader EXCEPT ![r] = y] /\ y.pc \notin Encoding
    BY <1>3
  <1> QED BY <1>2, <1>4, OneCharges

(* An encoder begins its work.                                             *)
LEMMA TakeSlotCharges ==
  ASSUME WaitInv, WaitInv', ChargeInv, NEW r \in Readers, TakeSlot(r)
  PROVE  ChargeInv'
  <1> DEFINE x == reader[r]
  <1>1. PICK y : y = [x EXCEPT !.pc = "encoded"]
    OBVIOUS
  <1>2. /\ x.pc = "variant" /\ reader' = [reader EXCEPT ![r] = y] /\ UNCHANGED <<entries, bytes, heap>>
    BY <1>1 DEF TakeSlot, Go, At
  <1>3. DOMAIN x = Fields \cup {"v", "e"}
    BY <1>2, AtFields DEF Bearing
  <1>4. y.e = x.e /\ y.view = x.view /\ y.v = x.v
    BY <1>1, <1>3 DEF Fields
  <1>5. \A q \in Readers : reader'[q].pc \in Encoding =>
           /\ reader[q].pc \in Encoding /\ reader'[q].e = reader[q].e
           /\ reader'[q].view = reader[q].view /\ reader'[q].v = reader[q].v
    <2> TAKE q \in Readers
    <2>1. reader'[q] = IF q = r THEN y ELSE reader[q]
      BY <1>2 DEF WaitInv, Waits, ReadersOK
    <2> QED BY <1>2, <1>4, <2>1 DEF Encoding
  <1>6. \A i \in DOMAIN heap' : i \in DOMAIN heap /\ heap'[i] = heap[i]
    BY <1>2
  <1> QED BY <1>2, <1>5, <1>6, StepCharges

(* A new report is charged for itself only.                                *)
LEMMA NewReportCharges ==
  ASSUME WaitInv, WaitInv', ChargeInv, NEW r \in Readers, NEW y, reader' = [reader EXCEPT ![r] = y],
         y.pc \notin Encoding, NEW h, NEW v, NEW hp, hp = Put(heap, FreeId, NewReport(h, v)), Heap(hp)
  PROVE  /\ EncodersOK(reader', heap') /\ SizesOK(heap')
         /\ \A i \in DOMAIN heap : hp[i] = heap[i]
  <1>1. /\ DOMAIN hp = DOMAIN heap \cup {FreeId} /\ hp[FreeId] = NewReport(h, v)
        /\ \A i \in DOMAIN heap : hp[i] = heap[i]
    BY NewReportFields
  <1>2. SizeOK(NewReport(h, v))
    <2>1. PICK e : e = NewReport(h, v)
      OBVIOUS
    <2>2. DOMAIN e.variants = {} /\ e.size = ReportSize
      BY <2>1 DEF NewReport
    <2>3. IsFiniteSet(DOMAIN e.variants) /\ Cardinality(DOMAIN e.variants) = 0
      BY <2>2, FS_EmptySet
    <2>4. e.size = ReportSize + VariantSize * Cardinality(DOMAIN e.variants)
      BY <2>2, <2>3, CacheAssumption
    <2> QED BY <2>1, <2>3, <2>4 DEF SizeOK
  <1>3. \A i \in DOMAIN heap' : i \in DOMAIN hp /\ heap'[i] = hp[i]
    BY HeapSame
  <1>4. SizesOK(heap')
    <2> SUFFICES ASSUME NEW i \in DOMAIN heap' PROVE SizeOK(heap'[i])
      BY DEF SizesOK
    <2>1. heap'[i] = IF i = FreeId THEN NewReport(h, v) ELSE heap[i]
      BY <1>1, <1>3
    <2>2. i # FreeId => i \in DOMAIN heap
      BY <1>1, <1>3
    <2> QED BY <1>2, <2>1, <2>2 DEF ChargeInv, SizesOK
  <1>5. EncodersOK(reader', heap')
    <2>1. /\ EncodersOK(reader, heap) /\ ReadersOK(reader) /\ HeapOK(reader, heap, entries)
          /\ ReadersOK(reader') /\ HeapOK(reader', heap', entries')
      BY DEF ChargeInv, WaitInv, Waits
    <2>2. \A i \in DOMAIN heap \cap DOMAIN heap' : heap'[i] = heap[i]
      BY <1>1, <1>3
    <2>3. \A i \in DOMAIN heap \cap DOMAIN heap' :
            heap'[i].variants = heap[i].variants /\ heap'[i].variantFlights = heap[i].variantFlights
      BY <2>2
    <2>4. \A q \in Readers : reader'[q].pc \in Encoding => reader'[q] = reader[q]
      BY OtherEncoders
    <2> QED BY <2>1, <2>3, <2>4, EncodersStay
  <1> QED BY <1>1, <1>4, <1>5

(* What is collected is not among the entries.                             *)
LEMMA BillCollected ==
  ASSUME WaitInv', NEW hp, Heap(hp), Bill(entries', hp, bytes')
  PROVE  Bill(entries', heap', bytes')
  <1>1. \A i \in DOMAIN heap' : heap'[i] = hp[i]
    BY HeapSame
  <1>2. \A g \in Cached(entries') : entries'[g] \in DOMAIN heap'
    BY DEF WaitInv, Waits, HeapOK, Cached
  <1>3. \A g \in Cached(entries') : heap'[entries'[g]].size = hp[entries'[g]].size
    BY <1>1, <1>2
  <1> QED BY <1>3, BillStays

(* A capture.                                                              *)
LEMMA CaptureCharges ==
  ASSUME WaitInv, WaitInv', ChargeInv, NEW r \in Readers, Capture(r)
  PROVE  ChargeInv'
  <1> DEFINE x == reader[r]
             pc == IF x.pc = "build" THEN "built" ELSE "captured"
  <1>1. PICK v : v = Version(x.height)
    OBVIOUS
  <1>2. PICK u : u = Put([x EXCEPT !.pc = pc], "v", v)
    OBVIOUS
  <1>3. PICK y : y = Put(u, "e", FreeId)
    OBVIOUS
  <1>4. PICK hp : hp = Put(heap, FreeId, NewReport(x.height, v))
    OBVIOUS
  <1>5. reader' = [reader EXCEPT ![r] = y] /\ Heap(hp) /\ UNCHANGED <<entries, bytes>>
    BY <1>1, <1>2, <1>3, <1>4 DEF Capture, Go, At
  <1>6. y.pc \in {"built", "captured"}
    <2>1. "pc" \in DOMAIN x
      BY HasPlace
    <2>2. u.pc = pc
      <3> HIDE DEF pc
      <3> QED BY <1>2, <2>1, PutKeepsPlace
    <2>3. "pc" \in DOMAIN u
      BY <1>2, <2>1 DEF Put
    <2>4. y.pc = u.pc
      BY <1>3, <2>3 DEF Put
    <2> QED BY <2>2, <2>4
  <1>7. /\ EncodersOK(reader', heap') /\ SizesOK(heap')
        /\ \A i \in DOMAIN heap : hp[i] = heap[i]
    BY <1>4, <1>5, <1>6, NewReportCharges DEF Encoding
  <1>8. Bill(entries', heap', bytes')
    <2>1. \A h \in Cached(entries) : entries[h] \in DOMAIN heap
      BY EntrySizes
    <2>2. \A h \in Cached(entries) : hp[entries[h]].size = heap[entries[h]].size
      BY <1>7, <2>1
    <2>3. Bill(entries, hp, bytes)
      BY <2>2, BillStays DEF ChargeInv
    <2> QED BY <1>5, <2>3, BillCollected
  <1> QED BY <1>7, <1>8 DEF ChargeInv

(* A height that is gone leaves the cache with its charge.                 *)
LEMMA LookupAbsentCharges ==
  ASSUME WaitInv, WaitInv', ChargeInv, NEW r \in Readers, LookupAbsent(r)
  PROVE  ChargeInv'
  <1> DEFINE x == reader[r]
  <1>1. PICK h : h = x.height
    OBVIOUS
  <1>2. PICK y : y = Put([x EXCEPT !.pc = "encode"], "e", FreeId)
    OBVIOUS
  <1>v. PICK v : v = x.v
    OBVIOUS
  <1>3. PICK hp : hp = Put(heap, FreeId, NewReport(h, v))
    OBVIOUS
  <1>4. /\ reader' = [reader EXCEPT ![r] = y] /\ Heap(hp) /\ x.pc = "lookup"
        /\ entries' = Drop(entries, h) /\ bytes' = bytes - SizeAt(entries, heap, h)
    BY <1>1, <1>2, <1>v, <1>3 DEF LookupAbsent, Go, At
  <1>5. y.pc = "encode"
    BY <1>2, HasPlace, PutKeepsPlace
  <1>6. /\ EncodersOK(reader', heap') /\ SizesOK(heap')
        /\ \A i \in DOMAIN heap : hp[i] = heap[i]
    <2>1. y.pc \notin Encoding
      BY <1>5 DEF Encoding
    <2> QED BY <1>3, <1>4, <2>1, NewReportCharges
  <1>7. Bill(entries', heap, bytes')
    <2>1. h \in Heights
      BY <1>1, <1>4, AtFields
    <2>2. /\ DOMAIN entries = Heights /\ Bill(entries, heap, bytes)
          /\ \A g \in Cached(entries) : heap[entries[g]].size \in Nat
      BY EntrySizes DEF ChargeInv
    <2> QED BY <1>4, <2>1, <2>2, BillWithout
  <1>8. Bill(entries', hp, bytes')
    <2>1. \A g \in Cached(entries') : entries'[g] \in DOMAIN heap
      <3> TAKE g \in Cached(entries')
      <3>1. g \in Heights /\ entries'[g] # Nothing
        BY DEF Cached
      <3>2. entries'[g] = entries[g]
        BY <1>4, <3>1, EntrySizes DEF Drop
      <3> QED BY <3>1, <3>2, EntrySizes DEF Cached
    <2>2. \A g \in Cached(entries') : hp[entries'[g]].size = heap[entries'[g]].size
      BY <1>6, <2>1
    <2> QED BY <1>7, <2>2, BillStays
  <1>9. Bill(entries', heap', bytes')
    BY <1>4, <1>8, BillCollected
  <1> QED BY <1>6, <1>9 DEF ChargeInv

(* An encoding begins only if there is neither flight nor variant.         *)
LEMMA EncodeMissCharges ==
  ASSUME WaitInv, WaitInv', ChargeInv, NEW r \in Readers, EncodeMiss(r)
  PROVE  ChargeInv'
  <1> DEFINE x == reader[r]
             k == KeyOf(x)
             pc == IF k \in heap[x.e].variantFlights THEN "variant_wait" ELSE "variant"
  <1>1. PICK y : y = [x EXCEPT !.pc = pc]
    OBVIOUS
  <1>2. /\ reader' = [reader EXCEPT ![r] = y] /\ x.pc = "encode" /\ UNCHANGED <<entries, bytes>>
        /\ heap' = [heap EXCEPT ![x.e].variantFlights = @ \cup {k}] /\ k \notin DOMAIN heap[x.e].variants
    BY <1>1 DEF EncodeMiss, Go, At
  <1>3. DOMAIN x = Fields \cup {"v", "e"} /\ x.e \in DOMAIN heap
    BY <1>2, AtFields DEF Bearing, Fields
  <1>4. y.pc = pc /\ y.v = x.v /\ y.e = x.e /\ y.view = x.view
    BY <1>1, <1>3 DEF Fields
  <1>5. KeyOf(y) = k
    BY <1>4 DEF KeyOf
  <1>6. PICK o : o = [heap[x.e] EXCEPT !.variantFlights = @ \cup {k}]
    OBVIOUS
  <1>7. o.variants = heap[x.e].variants /\ o.size = heap[x.e].size
        /\ o.variantFlights = heap[x.e].variantFlights \cup {k}
    BY <1>6
  <1>8. DOMAIN heap' = DOMAIN heap /\ heap'[x.e] = o /\ \A i \in DOMAIN heap : i # x.e => heap'[i] = heap[i]
    BY <1>2, <1>3, <1>6
  <1>9. \A i \in DOMAIN heap : /\ heap'[i].variants = heap[i].variants /\ heap'[i].size = heap[i].size
                              /\ heap[i].variantFlights \subseteq heap'[i].variantFlights
    <2> TAKE i \in DOMAIN heap
    <2>1. CASE i = x.e
      BY <1>7, <1>8, <2>1
    <2>2. CASE i # x.e
      <3>1. heap'[i] = heap[i]
        BY <1>8, <2>2
      <3> QED BY <3>1
    <2> QED BY <2>1, <2>2
  <1>10. SizesOK(heap') /\ Bill(entries', heap', bytes')
    <2>1. \A i \in DOMAIN heap' : SizeOK(heap'[i])
      BY <1>8, <1>9 DEF ChargeInv, SizesOK, SizeOK
    <2>2. \A i \in DOMAIN heap \cap DOMAIN heap' : heap'[i].size = heap[i].size
      BY <1>9
    <2> QED BY <1>2, <2>1, <2>2, UntouchedCharge
  <1>11. \A q \in Readers : reader'[q] = IF q = r THEN y ELSE reader[q]
    BY <1>2 DEF WaitInv, Waits, ReadersOK
  <1>12. /\ EncodersOK(reader, heap) /\ ReadersOK(reader) /\ HeapOK(reader, heap, entries)
    BY DEF ChargeInv, WaitInv, Waits
  <1> HIDE DEF k
  <1>13. ASSUME NEW q \in Readers, reader'[q].pc \in Encoding
         PROVE  /\ KeyOf(reader'[q]) \in heap'[reader'[q].e].variantFlights
                /\ KeyOf(reader'[q]) \notin DOMAIN heap'[reader'[q].e].variants
    <2>1. CASE q = r
      <3>1. reader'[q] = y /\ y.e = x.e /\ KeyOf(y) = k
        BY <1>4, <1>5, <1>11, <2>1
      <3> QED BY <3>1, <1>2, <1>7, <1>8
    <2>2. CASE q # r
      <3>1. reader'[q] = reader[q] /\ reader[q].pc \in Encoding
        BY <1>11, <1>13, <2>2
      <3>2. PICK i \in DOMAIN heap : i = reader[q].e
        BY <1>12, <3>1, EncoderHolds
      <3>3. KeyOf(reader[q]) \in heap[i].variantFlights /\ KeyOf(reader[q]) \notin DOMAIN heap[i].variants
        BY <1>12, <3>1, <3>2 DEF EncodersOK
      <3> QED BY <1>9, <3>1, <3>2, <3>3
    <2> QED BY <2>1, <2>2
  <1>14. ASSUME NEW q \in Readers, reader'[q].pc \in Encoding, q # r, y.pc \in Encoding
         PROVE  ~(reader'[q].e = y.e /\ KeyOf(reader'[q]) = KeyOf(y))
    <2>1. k \notin heap[x.e].variantFlights
      BY <1>4, <1>14 DEF Encoding
    <2>2. reader'[q] = reader[q] /\ reader[q].pc \in Encoding
      BY <1>11, <1>14
    <2>3. KeyOf(reader[q]) \in heap[reader[q].e].variantFlights
      BY <1>12, <2>2 DEF EncodersOK
    <2> QED BY <1>4, <1>5, <2>1, <2>2, <2>3
  <1>15. ASSUME NEW q \in Readers, NEW p \in Readers, reader'[q].pc \in Encoding, reader'[p].pc \in Encoding,
                reader'[q].e = reader'[p].e, KeyOf(reader'[q]) = KeyOf(reader'[p])
         PROVE  q = p
    <2>1. CASE q = r \/ p = r
      BY <1>11, <1>14, <1>15, <2>1
    <2>2. CASE q # r /\ p # r
      <3>1. reader'[q] = reader[q] /\ reader'[p] = reader[p]
        BY <1>11, <2>2
      <3> QED BY <1>12, <1>15, <3>1 DEF EncodersOK
    <2> QED BY <2>1, <2>2
  <1>16. EncodersOK(reader', heap')
    BY <1>13, <1>15 DEF EncodersOK
  <1> QED BY <1>10, <1>16 DEF ChargeInv

(* An encoder that ends its flight leaves the others theirs.               *)
LEMMA EncoderCharges ==
  ASSUME WaitInv, WaitInv', ChargeInv, NEW r \in Readers, reader[r].pc \in Encoding,
         reader' = [q \in Readers |-> IF q = r THEN Idle ELSE WokenVariant(q, reader[r])],
         NEW o, SizeOK(o), o.variantFlights = heap[reader[r].e].variantFlights \ {KeyOf(reader[r])},
         DOMAIN o.variants \subseteq DOMAIN heap[reader[r].e].variants \cup {KeyOf(reader[r])},
         NEW hp, hp = [heap EXCEPT ![reader[r].e] = o], Heap(hp)
  PROVE  EncodersOK(reader', heap') /\ SizesOK(heap')
  <1> DEFINE x == reader[r]
             k == KeyOf(x)
  <1>1. PICK j : j = x.e
    OBVIOUS
  <1>2. j \in DOMAIN heap /\ DOMAIN hp = DOMAIN heap /\ hp[j] = o
        /\ \A i \in DOMAIN heap : i # j => hp[i] = heap[i]
    BY <1>1, EncoderHolds DEF WaitInv, Waits
  <1>3. \A i \in DOMAIN heap' : i \in DOMAIN heap /\ heap'[i] = hp[i]
    BY <1>2, HeapSame
  <1>4. SizesOK(heap')
    <2> SUFFICES ASSUME NEW i \in DOMAIN heap' PROVE SizeOK(heap'[i])
      BY DEF SizesOK
    <2>1. i = j \/ hp[i] = heap[i]
      BY <1>2, <1>3
    <2> QED BY <1>2, <1>3, <2>1 DEF ChargeInv, SizesOK
  <1>5. ASSUME NEW q \in Readers, reader'[q].pc \in Encoding
        PROVE  q # r /\ reader'[q] = reader[q] /\ reader[q].pc \in Encoding
    <2>1. q # r
      BY <1>5 DEF Idle, Encoding
    <2>2. reader'[q] = WokenVariant(q, x)
      BY <2>1
    <2>3. ASSUME At(q, "variant_wait") PROVE Go(q, "encode").pc \notin Encoding
      <3>1. Go(q, "encode").pc = "encode"
        BY HasPlace DEF Go
      <3> QED BY <3>1 DEF Encoding
    <2>4. reader'[q] = reader[q]
      BY <1>5, <2>2, <2>3 DEF WokenVariant
    <2> QED BY <1>5, <2>1, <2>4
  <1>6. /\ EncodersOK(reader, heap) /\ ReadersOK(reader') /\ HeapOK(reader', heap', entries')
    BY DEF ChargeInv, WaitInv, Waits
  <1>7. ASSUME NEW q \in Readers, reader'[q].pc \in Encoding
        PROVE  /\ KeyOf(reader'[q]) \in heap'[reader'[q].e].variantFlights
               /\ KeyOf(reader'[q]) \notin DOMAIN heap'[reader'[q].e].variants
    <2>1. q # r /\ reader'[q] = reader[q] /\ reader[q].pc \in Encoding
      BY <1>5, <1>7
    <2>2. PICK i \in DOMAIN heap' : i = reader[q].e
      BY <1>6, <1>7, <2>1, EncoderHolds
    <2>3. PICK l : l = KeyOf(reader[q])
      OBVIOUS
    <2>4. l \in heap[i].variantFlights /\ l \notin DOMAIN heap[i].variants
      BY <1>6, <2>1, <2>2, <2>3 DEF EncodersOK
    <2>5. heap'[i] = hp[i]
      BY <1>3
    <2>6. CASE i = j
      <3>1. l # k
        BY <1>1, <1>6, <2>1, <2>2, <2>3, <2>6 DEF EncodersOK
      <3>2. heap'[i] = o
        BY <1>2, <2>5, <2>6
      <3>3. l \in o.variantFlights /\ l \notin DOMAIN o.variants
        BY <1>1, <2>4, <2>6, <3>1
      <3> QED BY <2>1, <2>2, <2>3, <3>2, <3>3
    <2>7. CASE i # j
      <3>1. heap'[i] = heap[i]
        BY <1>2, <1>3, <2>5, <2>7
      <3> QED BY <2>1, <2>2, <2>3, <2>4, <3>1
    <2> QED BY <2>6, <2>7
  <1>8. ASSUME NEW q \in Readers, NEW p \in Readers, reader'[q].pc \in Encoding, reader'[p].pc \in Encoding,
               reader'[q].e = reader'[p].e, KeyOf(reader'[q]) = KeyOf(reader'[p])
        PROVE  q = p
    BY <1>5, <1>6, <1>8 DEF EncodersOK
  <1>9. EncodersOK(reader', heap')
    BY <1>7, <1>8 DEF EncodersOK
  <1> QED BY <1>4, <1>9

(* A report of which only the flights are fewer.                           *)
LEMMA NoFlightSize ==
  ASSUME NEW e, SizeOK(e), NEW k, NEW o, o = NoFlight(e, k)
  PROVE  /\ SizeOK(o) /\ o.size = e.size /\ o.variantFlights = e.variantFlights \ {k}
         /\ DOMAIN o.variants \subseteq DOMAIN e.variants \cup {k}
  <1>1. o.variants = e.variants /\ o.size = e.size /\ o.variantFlights = e.variantFlights \ {k}
    BY DEF NoFlight
  <1> QED BY <1>1 DEF SizeOK

(* The end of a flight that leaves no variant, or none that is cached.     *)
LEMMA BareCharges ==
  ASSUME WaitInv, WaitInv', ChargeInv, NEW r \in Readers, reader[r].pc \in Encoding,
         UNCHANGED <<entries, bytes>>,
         reader' = [q \in Readers |-> IF q = r THEN Idle ELSE WokenVariant(q, reader[r])],
         Heap([heap EXCEPT ![reader[r].e] = NoFlight(@, KeyOf(reader[r]))])
  PROVE  ChargeInv'
  <1> DEFINE x == reader[r]
  <1>1. PICK o : o = NoFlight(heap[x.e], KeyOf(x))
    OBVIOUS
  <1>2. PICK hp : hp = [heap EXCEPT ![x.e] = o]
    OBVIOUS
  <1>3. Heap(hp)
    BY <1>1, <1>2
  <1>4. x.e \in DOMAIN heap
    BY EncoderHolds DEF WaitInv, Waits
  <1>5. SizeOK(heap[x.e])
    BY <1>4 DEF ChargeInv, SizesOK
  <1>6. /\ SizeOK(o) /\ o.size = heap[x.e].size /\ o.variantFlights = heap[x.e].variantFlights \ {KeyOf(x)}
        /\ DOMAIN o.variants \subseteq DOMAIN heap[x.e].variants \cup {KeyOf(x)}
    BY <1>1, <1>5, NoFlightSize
  <1>7. EncodersOK(reader', heap') /\ SizesOK(heap')
    BY <1>2, <1>3, <1>6, EncoderCharges
  <1>8. \A i \in DOMAIN heap \cap DOMAIN heap' : heap'[i].size = heap[i].size
    <2> TAKE i \in DOMAIN heap \cap DOMAIN heap'
    <2>1. heap'[i] = hp[i]
      BY <1>3, HeapSame
    <2>2. hp[i] = IF i = x.e THEN o ELSE heap[i]
      BY <1>2, <1>4
    <2> QED BY <1>6, <2>1, <2>2
  <1>9. Bill(entries', heap', bytes')
    <2>1. \A i \in DOMAIN heap' : SizeOK(heap'[i])
      BY <1>7 DEF SizesOK
    <2> QED BY <1>8, <2>1, UntouchedCharge
  <1> QED BY <1>7, <1>9 DEF ChargeInv

(* An encoder whose client goes away.                                      *)
LEMMA CancelVariantCharges ==
  ASSUME WaitInv, WaitInv', ChargeInv, NEW r \in Readers, CancelVariant(r)
  PROVE  ChargeInv'
  <1>1. reader[r].pc \in Encoding
    BY DEF CancelVariant, At, Encoding
  <1>2. /\ UNCHANGED <<entries, bytes>>
        /\ reader' = [q \in Readers |-> IF q = r THEN Idle ELSE WokenVariant(q, reader[r])]
        /\ Heap([heap EXCEPT ![reader[r].e] = NoFlight(@, KeyOf(reader[r]))])
    BY DEF CancelVariant
  <1> QED BY <1>1, <1>2, BareCharges

(* A variant is charged if its report is still the entry of its height;    *)
(* then no other height has that report.                                   *)
LEMMA StoreVariantCharges ==
  ASSUME WaitInv, WaitInv', AnswerInv, ChargeInv, NEW r \in Readers, StoreVariant(r)
  PROVE  ChargeInv'
  <1> DEFINE x == reader[r]
             e == heap[x.e]
             k == KeyOf(x)
  <1>1. PICK b : b = Body(e, x.v)
    OBVIOUS
  <1>2. PICK added : added = WithVariant(e, k, b)
    OBVIOUS
  <1>3. PICK o : o = NoFlight(added, k)
    OBVIOUS
  <1>4. PICK hp : hp = [heap EXCEPT ![x.e] = o]
    OBVIOUS
  <1>5. /\ x.pc \in Encoding
        /\ reader' = [q \in Readers |-> IF q = r THEN Idle ELSE WokenVariant(q, x)]
    BY DEF StoreVariant, At, Encoding
  <1>6. CASE entries[e.height] # x.e
    <2>1. UNCHANGED <<entries, bytes>> /\ Heap([heap EXCEPT ![x.e] = NoFlight(@, k)])
      BY <1>6 DEF StoreVariant
    <2> QED BY <1>5, <2>1, BareCharges
  <1>7. CASE entries[e.height] = x.e
    <2>1. PICK i : i = x.e
      OBVIOUS
    <2>2. i \in DOMAIN heap /\ i # Nothing
      BY <1>5, <2>1, EncoderHolds, NothingAssumption DEF WaitInv, Waits, HeapOK
    <2>3. PICK h : h = e.height
      OBVIOUS
    <2>4. h \in Heights /\ heap[i].height = h
      BY <2>1, <2>2, <2>3 DEF AnswerInv, Answerable, ReportAt
    <2>5. PICK total : total = bytes - e.size + added.size
      BY SMTT(30)
    <2>6. Heap(hp) /\ \E left \in Trims(entries, hp, total) : entries' = left.entries /\ bytes' = left.bytes
      BY <1>1, <1>2, <1>3, <1>4, <1>7, <2>5 DEF StoreVariant
    <2>7. SizeOK(heap[i]) /\ k \notin DOMAIN heap[i].variants
      BY <1>5, <2>1, <2>2 DEF ChargeInv, SizesOK, EncodersOK
    <2>8. /\ SizeOK(o) /\ o.size = added.size /\ o.variantFlights = e.variantFlights \ {k}
          /\ DOMAIN o.variants \subseteq DOMAIN e.variants \cup {k}
      BY <1>2, <1>3, <2>1, <2>7, VariantCharged
    <2>9. EncodersOK(reader', heap') /\ SizesOK(heap')
      BY <1>4, <1>5, <2>6, <2>8, EncoderCharges
    <2>10. DOMAIN hp = DOMAIN heap /\ hp[i] = o /\ \A j \in DOMAIN heap : j # i => hp[j] = heap[j]
      BY <1>4, <2>1, <2>2
    <2>11. PICK C : C = Cached(entries)
      OBVIOUS
    <2>12. h \in C /\ entries[h] = i /\ IsFiniteSet(C)
      BY <1>7, <2>1, <2>2, <2>3, <2>4, <2>11, CachedFacts DEF Cached
    <2>13. \A g \in C : /\ entries[g] \in DOMAIN heap /\ heap[entries[g]].size \in Nat
                       /\ (g # h => entries[g] # i)
      <3>1. \A g \in C : entries[g] \in DOMAIN heap /\ heap[entries[g]].size \in Nat
        BY <2>11, EntrySizes
      <3>2. \A g \in C : heap[entries[g]].height = g
        BY <2>11 DEF AnswerInv, Answerable, EntryAt, Cached
      <3> QED BY <2>4, <3>1, <3>2
    <2>14. \A g \in C : hp[entries[g]].size \in Int
      <3>1. o.size \in Nat
        BY <2>8, SizeNatural
      <3> QED BY <2>10, <2>13, <3>1
    <2>15. Charge(entries, hp, C \ {h}) = Charge(entries, heap, C \ {h})
      <3>1. \A g \in C \ {h} : hp[entries[g]].size = heap[entries[g]].size
        BY <2>10, <2>13
      <3> QED BY <3>1, ChargeAgrees
    <2>16. Charge(entries, hp, C) = o.size + Charge(entries, hp, C \ {h})
      <3>1. \A g \in C : Charge(entries, hp, C) = hp[entries[g]].size + Charge(entries, hp, C \ {g})
        BY <2>12, <2>14, ChargeStep
      <3>2. Charge(entries, hp, C) = hp[entries[h]].size + Charge(entries, hp, C \ {h})
        BY <2>12, <3>1
      <3> QED BY <2>10, <2>12, <3>2
    <2>17. /\ Charge(entries, heap, C \ {h}) = bytes - SizeAt(entries, heap, h)
           /\ Charge(entries, heap, C \ {h}) \in Int
      <3>1. DOMAIN entries = Heights /\ Bill(entries, heap, bytes)
            /\ \A g \in Cached(entries) : heap[entries[g]].size \in Nat
        BY <2>11, <2>13, EntrySizes DEF ChargeInv
      <3> QED BY <2>4, <2>11, <3>1, BillWithout
    <2>18. SizeAt(entries, heap, h) = e.size
      BY <2>1, <2>2, <2>12 DEF SizeAt
    <2>19. bytes \in Int /\ e.size \in Int /\ added.size \in Int
      <3>1. \A g \in C : heap[entries[g]].size \in Int
        BY <2>13
      <3>2. Charge(entries, heap, C) \in Int
        BY <2>12, <3>1, ChargeStep
      <3>3. bytes = Charge(entries, heap, C)
        BY <2>11 DEF ChargeInv, Bill
      <3>4. e.size \in Nat /\ o.size \in Nat
        BY <2>1, <2>7, <2>8, SizeNatural
      <3> QED BY <2>8, <3>2, <3>3, <3>4
    <2>20. total = Charge(entries, hp, C)
      BY <2>5, <2>8, <2>15, <2>16, <2>17, <2>18, <2>19
    <2>21. PICK left \in Trims(entries, hp, total) : entries' = left.entries /\ bytes' = left.bytes
      BY <2>6
    <2>22. Bill(left.entries, hp, left.bytes)
      BY <2>11, <2>14, <2>20, TrimsBill
    <2>23. Bill(entries', heap', bytes')
      BY <2>6, <2>21, <2>22, BillCollected
    <2> QED BY <2>9, <2>23 DEF ChargeInv
  <1> QED BY <1>6, <1>7

(* A report that is published is charged instead of the one it replaces.   *)
LEMMA PublishCharges ==
  ASSUME WaitInv, WaitInv', ChargeInv, NEW r \in Readers, Publish(r)
  PROVE  ChargeInv'
  <1> DEFINE x == reader[r]
  <1>1. x.pc = "publish" /\ PublishEntry(x) /\ Heap(heap)
    BY DEF Publish, At
  <1>2. PICK y \in AfterBuild(x) :
          reader' = [q \in Readers |-> IF q = r THEN y ELSE Woken(q, x.height)]
    BY DEF Publish
  <1>3. \A i \in DOMAIN heap' : i \in DOMAIN heap /\ heap'[i] = heap[i]
    BY <1>1, HeapSame
  <1>4. \A q \in Readers : reader'[q].pc \in Encoding => reader'[q] = reader[q]
    <2> SUFFICES ASSUME NEW q \in Readers, reader'[q].pc \in Encoding PROVE reader'[q] = reader[q]
      OBVIOUS
    <2>1. y.pc \notin Encoding
      BY <1>1, AfterBuildFields DEF Idle, Encoding
    <2>2. q # r /\ reader'[q] = Woken(q, x.height)
      BY <1>2, <2>1
    <2>3. [Asked(reader[q]) EXCEPT !.pc = "version"].pc = "version"
      BY DEF Asked
    <2> QED BY <2>2, <2>3 DEF Woken, Encoding
  <1>5. SizesOK(heap')
    BY <1>3 DEF ChargeInv, SizesOK
  <1>6. EncodersOK(reader', heap')
    <2>1. /\ EncodersOK(reader, heap) /\ ReadersOK(reader) /\ HeapOK(reader, heap, entries)
          /\ ReadersOK(reader') /\ HeapOK(reader', heap', entries')
      BY DEF ChargeInv, WaitInv, Waits
    <2>2. \A i \in DOMAIN heap \cap DOMAIN heap' :
            heap'[i].variants = heap[i].variants /\ heap'[i].variantFlights = heap[i].variantFlights
      BY <1>3
    <2> QED BY <1>4, <2>1, <2>2, EncodersStay
  <1>7. Bill(entries', heap, bytes')
    <2>1. PICK h : h = x.height
      OBVIOUS
    <2>2. PICK i : i = x.e
      OBVIOUS
    <2>3. PICK ent : ent = [entries EXCEPT ![h] = i]
      OBVIOUS
    <2>4. PICK total : total = bytes - SizeAt(entries, heap, h) + heap[i].size
      OBVIOUS
    <2>5. CASE UNCHANGED <<entries, bytes>>
      BY <2>5 DEF ChargeInv
    <2>6. CASE Built(x) /\ \E left \in Trims(ent, heap, total) : entries' = left.entries /\ bytes' = left.bytes
      <3>1. h \in Heights /\ i \in DOMAIN heap /\ i # Nothing
        <4>1. DOMAIN heap \subseteq Ids
          BY DEF WaitInv, Waits, HeapOK
        <4>2. h \in Heights /\ i \in DOMAIN heap
          BY <1>1, <2>1, <2>2, <2>6, AtFields DEF Built
        <4> QED BY <4>1, <4>2, NothingAssumption
      <3>2. \A g \in Heights : ent[g] = IF g = h THEN i ELSE entries[g]
        BY <2>3, EntrySizes
      <3>3. PICK C : C = Cached(ent)
        OBVIOUS
      <3>4. h \in C /\ C \ {h} = Cached(entries) \ {h} /\ IsFiniteSet(C)
        BY <3>1, <3>2, <3>3, CachedFacts DEF Cached
      <3>5. heap[i].size \in Nat
        BY <3>1, SizeNatural DEF ChargeInv, SizesOK
      <3>6. \A g \in C : g \in Heights /\ (g # h => g \in Cached(entries))
        BY <3>3, <3>4 DEF Cached
      <3>7. \A g \in C : heap[ent[g]].size \in Int
        BY <3>2, <3>5, <3>6, EntrySizes
      <3>8. Charge(ent, heap, C) = heap[i].size + Charge(ent, heap, C \ {h})
        <4>1. Charge(ent, heap, C) = heap[ent[h]].size + Charge(ent, heap, C \ {h})
          BY <3>4, <3>7, ChargeStep
        <4> QED BY <3>1, <3>2, <4>1
      <3>9. Charge(ent, heap, C \ {h}) = Charge(entries, heap, C \ {h})
        <4>1. \A g \in C \ {h} : heap[ent[g]].size = heap[entries[g]].size
          BY <3>2, <3>6
        <4> QED BY <4>1, ChargeAgrees
      <3>10. /\ Charge(entries, heap, C \ {h}) = bytes - SizeAt(entries, heap, h)
             /\ Charge(entries, heap, C \ {h}) \in Int
        <4>1. DOMAIN entries = Heights /\ Bill(entries, heap, bytes)
              /\ \A g \in Cached(entries) : heap[entries[g]].size \in Nat
          BY EntrySizes DEF ChargeInv
        <4>2. /\ Charge(entries, heap, Cached(entries) \ {h}) = bytes - SizeAt(entries, heap, h)
              /\ Charge(entries, heap, Cached(entries) \ {h}) \in Int
          BY <3>1, <4>1, BillWithout
        <4> QED BY <3>4, <4>2
      <3>11. total = Charge(ent, heap, Cached(ent))
        BY <2>4, <3>3, <3>5, <3>8, <3>9, <3>10
      <3>12. PICK left \in Trims(ent, heap, total) : entries' = left.entries /\ bytes' = left.bytes
        BY <2>6
      <3>13. Bill(left.entries, heap, left.bytes)
        BY <3>3, <3>7, <3>11, TrimsBill
      <3> QED BY <3>12, <3>13
    <2> QED BY <1>1, <2>1, <2>2, <2>3, <2>4, <2>5, <2>6 DEF PublishEntry
  <1>8. Bill(entries', heap', bytes')
    BY <1>1, <1>7, BillCollected
  <1> QED BY <1>5, <1>6, <1>8 DEF ChargeInv

(* Nothing is charged at first.                                            *)
LEMMA InitialCharge == Init => ChargeInv
  <1> SUFFICES ASSUME Init PROVE ChargeInv
    OBVIOUS
  <1>1. \A r \in Readers : reader[r].pc = "idle"
    BY DEF Init, Idle
  <1>2. EncodersOK(reader, heap)
    BY <1>1 DEF EncodersOK, Encoding
  <1>3. SizesOK(heap)
    BY DEF Init, SizesOK
  <1>4. Cached(entries) = {}
    BY DEF Init, Cached
  <1>5. PICK C : C = Cached(entries)
    OBVIOUS
  <1>6. Bill(entries, heap, bytes)
    <2>1. C = {} /\ IsFiniteSet(C) /\ Cardinality(C) = 0
      BY <1>4, <1>5, FS_EmptySet
    <2>2. \A h \in C : heap[entries[h]].size \in Int
      BY <2>1
    <2>3. Charge(entries, heap, C) = 0
      BY <2>1, <2>2, ChargeStep
    <2>4. bytes = 0 /\ 0 <= CacheBytes /\ 0 <= MaxEntries
      BY CacheAssumption DEF Init
    <2> QED BY <1>5, <2>1, <2>3, <2>4 DEF Bill
  <1> QED BY <1>2, <1>3, <1>6 DEF ChargeInv

(* Every step keeps the bill.                                              *)
LEMMA ChargeInvInductive == WaitInv /\ WaitInv' /\ AnswerInv /\ ChargeInv /\ [Next]_vars => ChargeInv'
  <1> SUFFICES ASSUME WaitInv, WaitInv', AnswerInv, ChargeInv, [Next]_vars PROVE ChargeInv'
    OBVIOUS
  <1>1. CASE Arrive
    <2>1. PICK q \in Requests : Request(q[1], q[2], q[3])
      BY <1>1 DEF Arrive
    <2>2. q[1] \in Readers
      BY CacheAssumption
    <2> QED BY <2>1, <2>2, RequestCharges
  <1>2. ASSUME NEW r \in Readers, Proceed(r)
        PROVE  ChargeInv'
    BY <1>2, QuietCharges, LookupAbsentCharges, CaptureCharges, PublishCharges, EncodeMissCharges,
       TakeSlotCharges, StoreVariantCharges, CancelVariantCharges DEF Proceed
  <1>3. CASE TrackerStep \/ UNCHANGED vars
    <2>1. UNCHANGED <<reader, heap, entries, bytes>>
      BY <1>3 DEF TrackerStep, vars, cacheVars
    <2> QED BY <2>1 DEF ChargeInv
  <1> QED BY <1>1, <1>2, <1>3 DEF Next

(* c.bytes is exactly what is cached, through replacement, trimming,       *)
(* variants thrown away and variants finished for a report that the cache  *)
(* no longer holds, and the limits hold.                                   *)
THEOREM ChargeIsExact == Spec => []ChargeExact
  <1>1. WaitInv /\ ChargeInv => ChargeExact
    <2> SUFFICES ASSUME WaitInv, ChargeInv PROVE ChargeExact
      OBVIOUS
    <2>1. \A h \in Cached(entries) : SizeOK(heap[entries[h]])
      BY EntrySizes DEF ChargeInv, SizesOK
    <2>2. Bill(entries, heap, bytes)
      BY DEF ChargeInv
    <2> QED BY <2>1, <2>2 DEF ChargeExact, Bill, SizeOK
  <1>2. Init => ChargeInv
    BY InitialCharge
  <1>3. WaitInv /\ WaitInv' /\ AnswerInv /\ ChargeInv /\ [Next]_vars => ChargeInv'
    BY ChargeInvInductive
  <1> QED BY <1>1, <1>2, <1>3, AlwaysAnswerable, PTL DEF Spec

=============================================================================
