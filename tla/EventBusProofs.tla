---------------------------- MODULE EventBusProofs ----------------------------
(***************************************************************************)
(* The event bus, for every number of publishers and subscribers, every    *)
(* capacity and every number of events: cancelling never makes a Publish   *)
(* panic, each publisher's events arrive in order, and loss is counted.    *)
(***************************************************************************)
EXTENDS EventBus, SequenceTheorems, FiniteSetTheorems, TLAPS

-----------------------------------------------------------------------------
(* The inductive invariant *)

Sending == [pc : {"offer", "drop", "retry"}, ev : Event,
            todo : SUBSET Subscribers, at : SUBSET Subscribers]

BusShape ==
  /\ subs \in SUBSET Subscribers /\ closed \in SUBSET Subscribers
  /\ ch \in [Subscribers -> Seq(Event)]
  /\ dropped \in [Subscribers -> Nat] /\ lost \in [Subscribers -> Nat]
  /\ pub \in [Publishers -> Sending \cup {Outside}]
  /\ count \in [Publishers -> 0..MaxEvents]
  /\ seen \in [Subscribers -> [Publishers -> Nat]]

(* Publisher p has yet to serve i.                                         *)
Owes(p, i) == pub[p] # Outside /\ i \in pub[p].todo

(* What a publisher is sending is its latest event, and whom it has yet to *)
(* serve is subscribed: the read lock keeps Cancel out.                    *)
InFlight ==
  /\ subs \cap closed = {}
  /\ \A p \in Publishers : pub[p] # Outside =>
       /\ pub[p].ev.from = p /\ pub[p].ev.seq = count[p]
       /\ pub[p].todo \subseteq subs
       /\ pub[p].pc \in {"drop", "retry"} => pub[p].at \subseteq pub[p].todo

(* No subscriber is ahead of a publisher, and whom it has yet to serve has *)
(* neither received nor been sent the latest event.                        *)
Behind ==
  \A i \in Subscribers, p \in Publishers :
     /\ seen[i][p] <= count[p]
     /\ Owes(p, i) => seen[i][p] < count[p]
     /\ \A m \in 1..Len(ch[i]) : ch[i][m].from = p =>
          ch[i][m].seq <= count[p] /\ (Owes(p, i) => ch[i][m].seq < count[p])

(* The publishers between the two sends to i: each may have lost an event  *)
(* that it has not counted yet.                                            *)
Retrying(i) == {p \in Publishers : pub[p] # Outside /\ pub[p].pc = "retry" /\ pub[p].at = {i}}

Accounted ==
  \A i \in Subscribers :
     IsFiniteSet(Retrying(i)) /\ lost[i] <= 2 * dropped[i] + Cardinality(Retrying(i))

BusInv == BusShape /\ NoPanic /\ InFlight /\ Behind /\ InOrder /\ Accounted

-----------------------------------------------------------------------------
(* Steps on one channel *)

(* What InOrder says of one channel.                                       *)
Ordered(c, last) ==
  /\ Len(c) <= BufCap
  /\ \A m \in DOMAIN c : c[m].seq > last[c[m].from]
  /\ \A m, n \in DOMAIN c : m < n /\ c[m].from = c[n].from => c[m].seq < c[n].seq

(* Dropping the oldest event leaves the order of the others.               *)
LEMMA TailOrdered ==
  ASSUME NEW c \in Seq(Event), c # <<>>, NEW last, Ordered(c, last)
  PROVE  /\ Tail(c) \in Seq(Event) /\ Head(c) \in Event /\ Ordered(Tail(c), last)
         /\ \A m \in 1..Len(Tail(c)) : m + 1 \in 1..Len(c) /\ Tail(c)[m] = c[m + 1]
  <1>1. /\ Tail(c) \in Seq(Event) /\ Len(Tail(c)) = Len(c) - 1 /\ Len(c) \in Nat
        /\ \A m \in 1..Len(Tail(c)) : Tail(c)[m] = c[m + 1]
        /\ DOMAIN c = 1..Len(c) /\ DOMAIN Tail(c) = 1..Len(Tail(c)) /\ Head(c) \in Event
    BY HeadTailProperties, LenProperties
  <1>2. \A m \in 1..Len(Tail(c)) : m + 1 \in 1..Len(c)
    BY <1>1
  <1> QED BY <1>1, <1>2, BusAssumption DEF Ordered

(* Receiving it too: what is left is newer than what was received.         *)
LEMMA ReceivedOrdered ==
  ASSUME NEW c \in Seq(Event), c # <<>>, NEW last \in [Publishers -> Nat], Ordered(c, last)
  PROVE  Ordered(Tail(c), [last EXCEPT ![Head(c).from] = Head(c).seq])
  <1> DEFINE new == [last EXCEPT ![Head(c).from] = Head(c).seq]
  <1>1. Head(c) = c[1] /\ 1 \in DOMAIN c /\ DOMAIN c = 1..Len(c)
    BY HeadTailProperties, LenProperties, EmptySeq
  <1>2. \A m \in 1..Len(Tail(c)) : m + 1 \in DOMAIN c /\ 1 < m + 1 /\ Tail(c)[m] = c[m + 1] /\ c[m + 1] \in Event
    BY <1>1, TailOrdered, ElementOfSeq
  <1>3. \A m \in 1..Len(Tail(c)) : Tail(c)[m].seq > new[Tail(c)[m].from]
    <2> SUFFICES ASSUME NEW m \in 1..Len(Tail(c)) PROVE Tail(c)[m].seq > new[Tail(c)[m].from]
      OBVIOUS
    <2>1. CASE c[m + 1].from = c[1].from
      <3>1. c[1].seq < c[m + 1].seq
        BY <1>1, <1>2, <2>1 DEF Ordered
      <3>2. new[c[m + 1].from] = c[1].seq
        BY <1>1, <1>2, <2>1 DEF Event
      <3> QED BY <1>2, <3>1, <3>2, TailOrdered, <1>1 DEF Event
    <2>2. CASE c[m + 1].from # c[1].from
      <3>1. c[m + 1].seq > last[c[m + 1].from]
        BY <1>2 DEF Ordered
      <3>2. new[c[m + 1].from] = last[c[m + 1].from]
        BY <1>1, <1>2, <2>2 DEF Event
      <3> QED BY <1>2, <3>1, <3>2
    <2> QED BY <2>1, <2>2
  <1>4. DOMAIN Tail(c) = 1..Len(Tail(c))
    BY TailOrdered, LenProperties
  <1> QED BY <1>3, <1>4, TailOrdered DEF Ordered

(* Sending an event that is newer than everything of its publisher.        *)
LEMMA SentOrdered ==
  ASSUME NEW c \in Seq(Event), NEW last, Ordered(c, last), Len(c) < BufCap, NEW ev \in Event,
         last[ev.from] < ev.seq,
         \A m \in 1..Len(c) : c[m].from = ev.from => c[m].seq < ev.seq
  PROVE  /\ Append(c, ev) \in Seq(Event) /\ Ordered(Append(c, ev), last)
         /\ \A m \in 1..Len(Append(c, ev)) :
              \/ m \in 1..Len(c) /\ Append(c, ev)[m] = c[m]
              \/ Append(c, ev)[m] = ev
  <1> DEFINE a == Append(c, ev)
  <1>1. /\ a \in Seq(Event) /\ Len(a) = Len(c) + 1 /\ a[Len(c) + 1] = ev /\ Len(c) \in Nat
        /\ \A m \in 1..Len(c) : a[m] = c[m]
        /\ DOMAIN c = 1..Len(c) /\ DOMAIN a = 1..Len(a)
    BY AppendProperties, LenProperties
  <1> HIDE DEF a
  <1>2. \A m \in 1..Len(a) : \/ m \in 1..Len(c) /\ a[m] = c[m]
                             \/ m = Len(c) + 1 /\ a[m] = ev
    BY <1>1
  <1>3. \A m \in DOMAIN a : a[m].seq > last[a[m].from]
    BY <1>1, <1>2 DEF Ordered
  <1>4. \A m, n \in DOMAIN a : m < n /\ a[m].from = a[n].from => a[m].seq < a[n].seq
    <2> SUFFICES ASSUME NEW m \in 1..Len(a), NEW n \in 1..Len(a), m < n, a[m].from = a[n].from
                 PROVE  a[m].seq < a[n].seq
      BY <1>1
    <2>1. m \in 1..Len(c) /\ a[m] = c[m]
      BY <1>1, <1>2
    <2>2. CASE n \in 1..Len(c) /\ a[n] = c[n]
      BY <1>1, <2>1, <2>2 DEF Ordered
    <2>3. CASE a[n] = ev
      BY <2>1, <2>3
    <2> QED BY <1>2, <2>2, <2>3
  <1>5. Len(a) <= BufCap
    BY <1>1, BusAssumption
  <1>6. Ordered(a, last)
    BY <1>3, <1>4, <1>5 DEF Ordered
  <1> QED BY <1>1, <1>2, <1>6 DEF a

(* InOrder, one subscriber at a time.                                      *)
LEMMA InOrderIs == InOrder <=> \A i \in Subscribers : Ordered(ch[i], seen[i])
  BY DEF InOrder, Ordered

-----------------------------------------------------------------------------
(* Steps of one publisher *)

(* A publisher that is sending is not outside.                             *)
LEMMA SendingIsInside == \A n \in Sending : n # Outside
  BY DEF Sending, Outside

(* A publisher that moves on keeps its event and owes nobody new.          *)
LEMMA MovesOn ==
  ASSUME BusInv, NEW p \in Publishers, pub[p] # Outside, NEW n \in Sending,
         pub' = [pub EXCEPT ![p] = n], n.ev = pub[p].ev, n.todo \subseteq pub[p].todo,
         n.pc \in {"drop", "retry"} => n.at \subseteq n.todo,
         subs' = subs, closed' = closed, count' = count
  PROVE  /\ InFlight' /\ pub' \in [Publishers -> Sending \cup {Outside}]
         /\ \A q \in Publishers, i \in Subscribers : Owes(q, i)' => Owes(q, i)
         /\ \A q \in Publishers : q # p => pub'[q] = pub[q]
         /\ pub'[p] = n
  <1>1. /\ pub' \in [Publishers -> Sending \cup {Outside}]
        /\ \A q \in Publishers : q # p => pub'[q] = pub[q]
        /\ pub'[p] = n /\ n # Outside
    BY SendingIsInside DEF BusInv, BusShape
  <1>2. \A q \in Publishers, i \in Subscribers : Owes(q, i)' => Owes(q, i)
    BY <1>1 DEF Owes
  <1>3. InFlight'
    <2>1. subs' \cap closed' = {}
      BY DEF BusInv, InFlight
    <2> SUFFICES ASSUME NEW q \in Publishers, pub'[q] # Outside
                 PROVE  /\ pub'[q].ev.from = q /\ pub'[q].ev.seq = count'[q]
                        /\ pub'[q].todo \subseteq subs'
                        /\ pub'[q].pc \in {"drop", "retry"} => pub'[q].at \subseteq pub'[q].todo
      BY <2>1 DEF InFlight
    <2>2. CASE q = p
      BY <1>1, <2>2 DEF BusInv, InFlight
    <2>3. CASE q # p
      BY <1>1, <2>3 DEF BusInv, InFlight
    <2> QED BY <2>2, <2>3
  <1> QED BY <1>1, <1>2, <1>3

(* What Served writes: fewer are left to serve.                            *)
LEMMA ServedRecord ==
  ASSUME NEW w \in Sending, NEW rest \in SUBSET Subscribers
  PROVE  LET n == [w EXCEPT !.pc = "offer", !.todo = rest, !.at = {}] IN
         n \in Sending /\ n.ev = w.ev /\ n.todo = rest /\ n.pc = "offer"
  BY DEF Sending

(* The latest event of a publisher that owes i may be sent to i.           *)
LEMMA MayBeSent ==
  ASSUME BusInv, NEW p \in Publishers, NEW i \in Subscribers, Owes(p, i)
  PROVE  /\ pub[p] \in Sending /\ pub[p].ev \in Event /\ pub[p].ev.from = p
         /\ pub[p].ev.seq = count[p] /\ i \in subs /\ i \notin closed
         /\ seen[i][p] < pub[p].ev.seq
         /\ \A m \in 1..Len(ch[i]) : ch[i][m].from = p => ch[i][m].seq < pub[p].ev.seq
  <1>1. pub[p] \in Sending /\ pub[p] # Outside
    BY DEF Owes, BusInv, BusShape
  <1>2. /\ pub[p].ev \in Event /\ pub[p].ev.from = p
        /\ pub[p].ev.seq = count[p] /\ i \in subs /\ i \notin closed
    BY <1>1 DEF Sending, Owes, BusInv, InFlight
  <1> QED BY <1>1, <1>2 DEF BusInv, Behind

(* Steps that change no channel and let nobody owe more keep Behind.       *)
LEMMA StillBehind ==
  ASSUME BusInv, ch' = ch, seen' = seen, count' = count,
         \A q \in Publishers, i \in Subscribers : Owes(q, i)' => Owes(q, i)
  PROVE  Behind'
  BY DEF BusInv, Behind

(* Serving i with the latest event: i is not owed any longer.              *)
LEMMA SendKeeps ==
  ASSUME BusInv, NEW p \in Publishers, NEW i \in Subscribers, Owes(p, i), Room(i),
         Send(p, i), Served(p, i),
         subs' = subs, closed' = closed, count' = count, seen' = seen
  PROVE  /\ ch' \in [Subscribers -> Seq(Event)] /\ pub' \in [Publishers -> Sending \cup {Outside}]
         /\ NoPanic' /\ InFlight' /\ Behind' /\ InOrder'
  <1> DEFINE rest == pub[p].todo \ {i}
             n == [pub[p] EXCEPT !.pc = "offer", !.todo = rest, !.at = {}]
  <1>1. pub[p] \in Sending /\ pub[p] # Outside
    BY MayBeSent DEF Owes
  <1>2. /\ n \in Sending /\ n.ev = pub[p].ev /\ n.todo = rest /\ n.pc = "offer"
    <2>1. rest \in SUBSET Subscribers
      BY <1>1 DEF Sending
    <2> QED BY <1>1, <2>1, ServedRecord
  <1>set. pub' = [pub EXCEPT ![p] = n]
    BY DEF Served
  <1> HIDE DEF n
  <1>3. /\ InFlight' /\ pub' \in [Publishers -> Sending \cup {Outside}]
        /\ \A q \in Publishers, j \in Subscribers : Owes(q, j)' => Owes(q, j)
        /\ \A q \in Publishers : q # p => pub'[q] = pub[q]
        /\ pub'[p] = n
    BY <1>1, <1>2, <1>set, MovesOn
  <1>4. ~Owes(p, i)'
    BY <1>2, <1>3 DEF Owes
  <1>5. NoPanic'
    BY MayBeSent DEF BusInv, NoPanic, Send
  <1> DEFINE c == Append(ch[i], pub[p].ev)
  <1>6. ch[i] \in Seq(Event) /\ Ordered(ch[i], seen[i]) /\ Len(ch[i]) < BufCap
    BY InOrderIs DEF BusInv, BusShape, Room
  <1>7. /\ c \in Seq(Event) /\ Ordered(c, seen[i])
        /\ \A m \in 1..Len(c) : \/ m \in 1..Len(ch[i]) /\ c[m] = ch[i][m]
                                \/ c[m] = pub[p].ev
    BY <1>6, MayBeSent, SentOrdered
  <1>8. /\ ch' \in [Subscribers -> Seq(Event)] /\ ch'[i] = c
        /\ \A j \in Subscribers : j # i => ch'[j] = ch[j]
    BY <1>7 DEF Send, BusInv, BusShape
  <1> HIDE DEF c
  <1>9. InOrder'
    BY <1>7, <1>8, InOrderIs DEF BusInv, Ordered, InOrder
  <1>10. Behind'
    <2> SUFFICES ASSUME NEW j \in Subscribers, NEW q \in Publishers
                 PROVE  /\ seen[j][q] <= count[q]
                        /\ Owes(q, j)' => seen[j][q] < count[q]
                        /\ \A m \in 1..Len(ch'[j]) : ch'[j][m].from = q =>
                             ch'[j][m].seq <= count[q] /\ (Owes(q, j)' => ch'[j][m].seq < count[q])
      BY DEF Behind, Owes
    <2>1. CASE j # i
      BY <2>1, <1>3, <1>8 DEF BusInv, Behind
    <2>2. CASE j = i
      <3> SUFFICES ASSUME NEW m \in 1..Len(c), c[m].from = q
                   PROVE  c[m].seq <= count[q] /\ (Owes(q, j)' => c[m].seq < count[q])
        BY <2>2, <1>3, <1>8 DEF BusInv, Behind
      <3>1. CASE m \in 1..Len(ch[i]) /\ c[m] = ch[i][m]
        BY <3>1, <2>2, <1>3 DEF BusInv, Behind
      <3>2. CASE c[m] = pub[p].ev
        <4>1. pub[p].ev.from = p /\ pub[p].ev.seq = count[p]
          BY MayBeSent
        <4>2. q = p /\ c[m].seq = count[p]
          BY <3>2, <4>1
        <4>3. count[p] \in Nat
          BY BusAssumption DEF BusInv, BusShape
        <4> QED BY <4>2, <4>3, <2>2, <1>4
      <3> QED BY <3>1, <3>2, <1>7
    <2> QED BY <2>1, <2>2
  <1> QED BY <1>3, <1>5, <1>8, <1>9, <1>10

(* The publishers between the sends to any i, when p does not become one.  *)
LEMMA SameRetrying ==
  ASSUME BusInv, NEW p \in Publishers, \A q \in Publishers : q # p => pub'[q] = pub[q],
         \A i \in Subscribers : p \in Retrying(i)' <=> p \in Retrying(i),
         lost' = lost, dropped' = dropped
  PROVE  Accounted'
  <1>1. \A i \in Subscribers : Retrying(i)' = Retrying(i)
    BY DEF Retrying
  <1> QED BY <1>1 DEF BusInv, Accounted

-----------------------------------------------------------------------------
(* One lemma per action *)

(* The first send, or its default branch.                                  *)
LEMMA OfferKeeps ==
  ASSUME BusInv, NEW p \in Publishers, NEW i \in Subscribers, TrySend(p, i)
  PROVE  BusInv'
  <1>1. pub[p] # Outside /\ Owes(p, i) /\ pub[p] \in Sending
    BY DEF TrySend, Outside, Owes, BusInv, BusShape
  <1>2. CASE Room(i) /\ Send(p, i) /\ Served(p, i)
    <2>1. /\ ch' \in [Subscribers -> Seq(Event)] /\ pub' \in [Publishers -> Sending \cup {Outside}]
          /\ NoPanic' /\ InFlight' /\ Behind' /\ InOrder'
      BY <1>1, <1>2, SendKeeps DEF TrySend
    <2>2. pub'[p].pc = "offer" /\ \A q \in Publishers : q # p => pub'[q] = pub[q]
      BY <1>1, <1>2 DEF Served, Sending, BusInv, BusShape
    <2>3. pub[p].pc = "offer"
      BY DEF TrySend
    <2>4. Accounted'
      BY <2>2, <2>3, SameRetrying DEF TrySend, Retrying
    <2> QED BY <2>1, <2>4 DEF TrySend, BusInv, BusShape
  <1>3. CASE Move(p, i, "drop") /\ UNCHANGED <<ch, panicked>>
    <2> DEFINE n == [pub[p] EXCEPT !.pc = "drop", !.at = {i}]
    <2>1. /\ n \in Sending /\ n.ev = pub[p].ev /\ n.todo = pub[p].todo /\ n.pc = "drop"
          /\ n.at = {i} /\ i \in pub[p].todo /\ pub' = [pub EXCEPT ![p] = n]
      BY <1>1, <1>3 DEF Sending, Move, TrySend
    <2> HIDE DEF n
    <2>2. /\ InFlight' /\ pub' \in [Publishers -> Sending \cup {Outside}]
          /\ \A q \in Publishers, j \in Subscribers : Owes(q, j)' => Owes(q, j)
          /\ \A q \in Publishers : q # p => pub'[q] = pub[q]
          /\ pub'[p] = n
      BY <1>1, <2>1, MovesOn DEF TrySend
    <2>3. Behind'
      BY <1>3, <2>2, StillBehind DEF TrySend
    <2>4. Accounted'
      BY <2>1, <2>2, SameRetrying DEF TrySend, Retrying
    <2> QED BY <1>3, <2>2, <2>3, <2>4 DEF TrySend, BusInv, BusShape, NoPanic, InOrder
  <1> QED BY <1>2, <1>3 DEF TrySend

(* The receive of the oldest event: p joins those with an uncounted loss.  *)
LEMMA DropKeeps ==
  ASSUME BusInv, NEW p \in Publishers, NEW i \in Subscribers, Drop(p, i)
  PROVE  BusInv'
  <1>1. pub[p] # Outside /\ pub[p] \in Sending /\ pub[p].pc = "drop" /\ pub[p].at = {i}
    BY DEF Drop, Outside, BusInv, BusShape
  <1> DEFINE n == [pub[p] EXCEPT !.pc = "retry", !.at = {i}]
  <1>2. /\ n \in Sending /\ n.ev = pub[p].ev /\ n.todo = pub[p].todo /\ n.pc = "retry"
        /\ n.at = {i} /\ pub' = [pub EXCEPT ![p] = n]
    BY <1>1 DEF Sending, Move, Drop
  <1>3. i \in pub[p].todo
    BY <1>1 DEF BusInv, InFlight
  <1> HIDE DEF n
  <1>4. /\ InFlight' /\ pub' \in [Publishers -> Sending \cup {Outside}]
        /\ \A q \in Publishers, j \in Subscribers : Owes(q, j)' => Owes(q, j)
        /\ \A q \in Publishers : q # p => pub'[q] = pub[q]
        /\ pub'[p] = n
    BY <1>1, <1>2, <1>3, MovesOn DEF Drop
  <1>5. /\ ch' \in [Subscribers -> Seq(Event)] /\ lost' \in [Subscribers -> Nat]
        /\ \A j \in Subscribers : j # i => ch'[j] = ch[j] /\ lost'[j] = lost[j]
        /\ lost'[i] <= lost[i] + 1
        /\ \/ ch'[i] = ch[i]
           \/ ch[i] # <<>> /\ ch'[i] = Tail(ch[i])
    <2>1. CASE ch[i] # <<>>
      <3>1. Tail(ch[i]) \in Seq(Event)
        BY <2>1, HeadTailProperties DEF BusInv, BusShape
      <3>2. ch' = [ch EXCEPT ![i] = Tail(ch[i])] /\ lost' = [lost EXCEPT ![i] = lost[i] + 1]
        BY <2>1 DEF Drop
      <3>3. ch \in [Subscribers -> Seq(Event)] /\ lost \in [Subscribers -> Nat]
        BY DEF BusInv, BusShape
      <3>4. ch' \in [Subscribers -> Seq(Event)] /\ ch'[i] = Tail(ch[i])
            /\ \A j \in Subscribers : j # i => ch'[j] = ch[j]
        BY <3>1, <3>2, <3>3
      <3>5. lost' \in [Subscribers -> Nat] /\ lost'[i] = lost[i] + 1
            /\ \A j \in Subscribers : j # i => lost'[j] = lost[j]
        BY <3>2, <3>3
      <3> QED BY <2>1, <3>3, <3>4, <3>5
    <2>2. CASE ch[i] = <<>>
      BY <2>2 DEF Drop, BusInv, BusShape
    <2> QED BY <2>1, <2>2
  <1>6. \A j \in Subscribers : /\ Ordered(ch'[j], seen[j])
                               /\ \A m \in 1..Len(ch'[j]) : \E k \in 1..Len(ch[j]) : ch'[j][m] = ch[j][k]
    <2>1. \A j \in Subscribers : ch[j] \in Seq(Event) /\ Ordered(ch[j], seen[j])
      BY InOrderIs DEF BusInv, BusShape
    <2>2. \A j \in Subscribers : ch'[j] = ch[j] \/ (ch[j] # <<>> /\ ch'[j] = Tail(ch[j]))
      BY <1>5
    <2> SUFFICES ASSUME NEW j \in Subscribers
                 PROVE  /\ Ordered(ch'[j], seen[j])
                        /\ \A m \in 1..Len(ch'[j]) : \E k \in 1..Len(ch[j]) : ch'[j][m] = ch[j][k]
      OBVIOUS
    <2>3. CASE ch'[j] = ch[j]
      BY <2>1, <2>3
    <2>4. CASE ch[j] # <<>> /\ ch'[j] = Tail(ch[j])
      BY <2>1, <2>4, TailOrdered
    <2> QED BY <2>2, <2>3, <2>4
  <1>7. InOrder'
    BY <1>6 DEF InOrder, Ordered, Drop
  <1>8. Behind'
    BY SMTT(30), <1>4, <1>6 DEF Behind, BusInv, Drop
  <1>9. Accounted'
    <2>1. /\ Retrying(i)' = Retrying(i) \cup {p} /\ p \notin Retrying(i)
          /\ \A j \in Subscribers : j # i => Retrying(j)' = Retrying(j)
      BY <1>1, <1>2, <1>4, SendingIsInside DEF Retrying
    <2>2. IsFiniteSet(Retrying(i)') /\ Cardinality(Retrying(i)') = Cardinality(Retrying(i)) + 1
          /\ Cardinality(Retrying(i)) \in Nat
      BY <2>1, FS_AddElement, FS_CardinalityType DEF BusInv, Accounted
    <2>3. lost'[i] <= 2 * dropped'[i] + Cardinality(Retrying(i)')
      BY <1>5, <2>2 DEF BusInv, BusShape, Accounted, Drop
    <2> QED BY <1>5, <2>1, <2>2, <2>3 DEF BusInv, Accounted, Drop
  <1> QED BY <1>4, <1>5, <1>7, <1>8, <1>9 DEF Drop, BusInv, BusShape, NoPanic

(* The second send: whatever was lost is counted.                          *)
LEMMA RetryKeeps ==
  ASSUME BusInv, NEW p \in Publishers, NEW i \in Subscribers, Retry(p, i)
  PROVE  BusInv'
  <1>1. pub[p] # Outside /\ pub[p] \in Sending /\ pub[p].pc = "retry" /\ pub[p].at = {i}
    BY DEF Retry, Outside, BusInv, BusShape
  <1>2. i \in pub[p].todo /\ Owes(p, i)
    BY <1>1 DEF BusInv, InFlight, Owes
  <1> DEFINE rest == pub[p].todo \ {i}
             n == [pub[p] EXCEPT !.pc = "offer", !.todo = rest, !.at = {}]
  <1>3. /\ n \in Sending /\ n.ev = pub[p].ev /\ n.todo = rest /\ n.pc = "offer"
    <2>1. rest \in SUBSET Subscribers
      BY <1>1 DEF Sending
    <2> QED BY <1>1, <2>1, ServedRecord
  <1>set. pub' = [pub EXCEPT ![p] = n]
    BY DEF Served, Retry
  <1> HIDE DEF n
  <1>4. /\ InFlight' /\ pub' \in [Publishers -> Sending \cup {Outside}]
        /\ \A q \in Publishers, j \in Subscribers : Owes(q, j)' => Owes(q, j)
        /\ \A q \in Publishers : q # p => pub'[q] = pub[q]
        /\ pub'[p] = n
    BY <1>1, <1>3, <1>set, MovesOn DEF Retry
  <1>5. /\ dropped' \in [Subscribers -> Nat] /\ lost' \in [Subscribers -> Nat]
        /\ \A j \in Subscribers : j # i => dropped'[j] = dropped[j] /\ lost'[j] = lost[j]
        /\ dropped'[i] = dropped[i] + 1 /\ lost'[i] <= lost[i] + 1
    BY DEF Retry, BusInv, BusShape
  <1>6. ch' \in [Subscribers -> Seq(Event)] /\ NoPanic' /\ Behind' /\ InOrder'
    <2>1. CASE Room(i) /\ Send(p, i)
      BY <1>2, <2>1, SendKeeps DEF Retry
    <2>2. CASE UNCHANGED <<ch, panicked>>
      <3>1. Behind'
        BY <1>4, <2>2, StillBehind DEF Retry
      <3> QED BY <2>2, <3>1 DEF Retry, BusInv, BusShape, NoPanic, InOrder
    <2> QED BY <2>1, <2>2 DEF Retry
  <1>7. Accounted'
    <2>1. /\ Retrying(i)' = Retrying(i) \ {p} /\ p \in Retrying(i)
          /\ \A j \in Subscribers : j # i => Retrying(j)' = Retrying(j)
      BY <1>1, <1>3, <1>4 DEF Retrying
    <2>2. IsFiniteSet(Retrying(i)') /\ Cardinality(Retrying(i)') = Cardinality(Retrying(i)) - 1
          /\ Cardinality(Retrying(i)) \in Nat
      BY <2>1, FS_RemoveElement, FS_CardinalityType DEF BusInv, Accounted
    <2>3. lost'[i] <= 2 * dropped'[i] + Cardinality(Retrying(i)')
      BY SMTT(30), <1>5, <2>2 DEF BusInv, BusShape, Accounted
    <2> QED BY <1>5, <2>1, <2>2, <2>3 DEF BusInv, Accounted
  <1> QED BY <1>4, <1>5, <1>6, <1>7 DEF Retry, BusInv, BusShape

(* Publish returns: it owes nobody.                                        *)
LEMMA ReturnKeeps ==
  ASSUME BusInv, NEW p \in Publishers, Return(p)
  PROVE  BusInv'
  <1>1. pub' = [pub EXCEPT ![p] = Outside] /\ pub[p].pc = "offer"
    BY DEF Return
  <1>2. /\ pub' \in [Publishers -> Sending \cup {Outside}] /\ pub'[p] = Outside
        /\ \A q \in Publishers : q # p => pub'[q] = pub[q]
    BY <1>1 DEF BusInv, BusShape
  <1>3. InFlight'
    BY <1>2 DEF Return, BusInv, InFlight
  <1>4. \A q \in Publishers, i \in Subscribers : Owes(q, i)' => Owes(q, i)
    BY <1>2 DEF Owes
  <1>5. Behind'
    BY <1>4, StillBehind DEF Return
  <1>6. Accounted'
    BY <1>1, <1>2, SameRetrying DEF Return, Retrying
  <1> QED BY <1>2, <1>3, <1>5, <1>6 DEF Return, BusInv, BusShape, NoPanic, InOrder

(* A new event is newer than everything of its publisher.                  *)
LEMMA BeginKeeps ==
  ASSUME BusInv, NEW p \in Publishers, NEW kind \in Kinds, Begin(p, kind)
  PROVE  BusInv'
  <1> DEFINE ev == [from |-> p, seq |-> count[p] + 1, kind |-> kind]
             todo == {i \in subs : Wants[i] = {} \/ kind \in Wants[i]}
             n == [pc |-> "offer", ev |-> ev, todo |-> todo, at |-> {}]
  <1>1. count[p] \in Nat /\ count[p] + 1 \in 1..MaxEvents
    BY BusAssumption DEF Begin, BusInv, BusShape
  <1>2. ev \in Event
    BY <1>1 DEF Event
  <1>3. todo \in SUBSET Subscribers /\ todo \subseteq subs
    BY DEF BusInv, BusShape
  <1>4. n \in Sending
    BY <1>2, <1>3 DEF Sending
  <1>5. pub' = [pub EXCEPT ![p] = n] /\ count' = [count EXCEPT ![p] = count[p] + 1]
    BY DEF Begin
  <1>6. n.ev.from = p /\ n.ev.seq = count[p] + 1 /\ n.todo = todo /\ n.pc = "offer"
    OBVIOUS
  <1> HIDE DEF n, ev, todo
  <1>7. /\ pub' \in [Publishers -> Sending \cup {Outside}] /\ pub'[p] = n
        /\ \A q \in Publishers : q # p => pub'[q] = pub[q]
    BY <1>4, <1>5 DEF BusInv, BusShape
  <1>8. /\ count' \in [Publishers -> 0..MaxEvents] /\ count'[p] = count[p] + 1
        /\ \A q \in Publishers : q # p => count'[q] = count[q]
    BY <1>1, <1>5, BusAssumption DEF BusInv, BusShape
  <1>9. InFlight'
    <2> SUFFICES ASSUME NEW q \in Publishers, pub'[q] # Outside
                 PROVE  /\ pub'[q].ev.from = q /\ pub'[q].ev.seq = count'[q]
                        /\ pub'[q].todo \subseteq subs'
                        /\ pub'[q].pc \in {"drop", "retry"} => pub'[q].at \subseteq pub'[q].todo
      BY DEF Begin, BusInv, InFlight
    <2>1. subs' = subs
      BY DEF Begin
    <2>2. CASE q = p
      BY <2>1, <2>2, <1>3, <1>6, <1>7, <1>8
    <2>3. CASE q # p
      BY <2>1, <2>3, <1>7, <1>8 DEF BusInv, InFlight
    <2> QED BY <2>2, <2>3
  <1>10. Behind'
    <2> SUFFICES ASSUME NEW i \in Subscribers, NEW q \in Publishers
                 PROVE  /\ seen[i][q] <= count'[q]
                        /\ Owes(q, i)' => seen[i][q] < count'[q]
                        /\ \A m \in 1..Len(ch[i]) : ch[i][m].from = q =>
                             ch[i][m].seq <= count'[q] /\ (Owes(q, i)' => ch[i][m].seq < count'[q])
      BY DEF Begin, Behind, Owes
    <2>1. seen[i][q] \in Nat /\ \A m \in 1..Len(ch[i]) : ch[i][m].seq \in Nat
      <3>1. ch[i] \in Seq(Event) /\ seen[i][q] \in Nat
        BY DEF BusInv, BusShape
      <3>2. \A m \in 1..Len(ch[i]) : ch[i][m] \in Event
        BY <3>1, ElementOfSeq
      <3> QED BY <3>1, <3>2, BusAssumption DEF Event
    <2>2. CASE q = p
      BY <1>1, <1>8, <2>1, <2>2 DEF BusInv, Behind
    <2>3. CASE q # p
      BY <1>7, <1>8, <2>3 DEF BusInv, Behind, Owes
    <2> QED BY <2>2, <2>3
  <1>11. Accounted'
    <2>1. pub[p] = Outside
      BY DEF Begin
    <2> QED BY <1>6, <1>7, <2>1, SameRetrying DEF Begin, Retrying
  <1> QED BY <1>7, <1>8, <1>9, <1>10, <1>11 DEF Begin, BusInv, BusShape, NoPanic, InOrder

(* Subscribing and cancelling: no Publish is under way.                    *)
LEMMA SubscriptionsKeep ==
  ASSUME BusInv, NEW i \in Subscribers, Subscribe(i) \/ Cancel(i)
  PROVE  BusInv'
  <1>1. /\ ch' = ch /\ dropped' = dropped /\ pub' = pub /\ count' = count /\ seen' = seen
        /\ lost' = lost /\ panicked' = panicked /\ \A p \in Publishers : pub[p] = Outside
        /\ subs' \in SUBSET Subscribers /\ closed' \in SUBSET Subscribers
        /\ subs' \cap closed' = {}
    BY DEF Subscribe, Cancel, Exclusive, BusInv, BusShape, InFlight
  <1>2. Accounted'
    BY <1>1 DEF BusInv, Accounted, Retrying
  <1>3. Behind'
    BY <1>1, StillBehind DEF Owes
  <1> QED BY <1>1, <1>2, <1>3 DEF BusInv, BusShape, InFlight, NoPanic, InOrder

(* A subscriber receives the oldest event in its channel.                  *)
LEMMA ReceiveKeeps ==
  ASSUME BusInv, NEW i \in Subscribers, Take(i)
  PROVE  BusInv'
  <1> DEFINE c == ch[i]  e == Head(ch[i])
             last == [seen[i] EXCEPT ![e.from] = e.seq]
  <1>1. c \in Seq(Event) /\ c # <<>> /\ Ordered(c, seen[i]) /\ seen[i] \in [Publishers -> Nat]
    BY InOrderIs DEF Take, BusInv, BusShape
  <1>2. /\ Tail(c) \in Seq(Event) /\ e \in Event
        /\ \A m \in 1..Len(Tail(c)) : m + 1 \in 1..Len(c) /\ Tail(c)[m] = c[m + 1]
        /\ Ordered(Tail(c), last)
    BY <1>1, TailOrdered, ReceivedOrdered
  <1>3. e = c[1] /\ 1 \in 1..Len(c) /\ DOMAIN c = 1..Len(c) /\ Len(c) \in Nat
    BY <1>1, HeadTailProperties, LenProperties, EmptySeq
  <1>4. e.from \in Publishers /\ e.seq \in Nat /\ last \in [Publishers -> Nat]
    BY <1>1, <1>2, BusAssumption DEF Event
  <1>5. /\ ch' \in [Subscribers -> Seq(Event)] /\ ch'[i] = Tail(c)
        /\ \A j \in Subscribers : j # i => ch'[j] = ch[j]
    BY <1>2 DEF Take, BusInv, BusShape
  <1>6. /\ seen' \in [Subscribers -> [Publishers -> Nat]] /\ seen'[i] = last
        /\ \A j \in Subscribers : j # i => seen'[j] = seen[j]
    BY <1>4 DEF Take, BusInv, BusShape
  <1>7. \A p \in Publishers : last[p] = IF p = e.from THEN e.seq ELSE seen[i][p]
    BY <1>1, <1>4
  <1>8. pub' = pub /\ count' = count
    BY DEF Take
  <1> HIDE DEF c, e, last
  <1>9. InOrder'
    <2>1. \A j \in Subscribers : Ordered(ch'[j], seen'[j])
      BY <1>2, <1>5, <1>6, InOrderIs DEF BusInv
    <2> QED BY <2>1 DEF InOrder, Ordered
  <1>10. Behind'
    <2> SUFFICES ASSUME NEW j \in Subscribers, NEW p \in Publishers
                 PROVE  /\ seen'[j][p] <= count[p]
                        /\ Owes(p, j) => seen'[j][p] < count[p]
                        /\ \A m \in 1..Len(ch'[j]) : ch'[j][m].from = p =>
                             ch'[j][m].seq <= count[p] /\ (Owes(p, j) => ch'[j][m].seq < count[p])
      BY <1>8 DEF Behind, Owes
    <2>1. CASE j # i
      BY <2>1, <1>5, <1>6 DEF BusInv, Behind
    <2>2. CASE j = i
      <3>1. \A m \in 1..Len(c) : c[m].from = p =>
              c[m].seq <= count[p] /\ (Owes(p, i) => c[m].seq < count[p])
        BY DEF BusInv, Behind, c
      <3>2. seen'[j][p] <= count[p] /\ (Owes(p, j) => seen'[j][p] < count[p])
        BY <2>2, <3>1, <1>3, <1>6, <1>7 DEF BusInv, Behind
      <3> QED BY <2>2, <3>1, <3>2, <1>2, <1>5
    <2> QED BY <2>1, <2>2
  <1>11. Accounted'
    BY <1>8 DEF Take, BusInv, Accounted, Retrying
  <1> QED BY <1>5, <1>6, <1>9, <1>10, <1>11 DEF Take, BusInv, BusShape, NoPanic, InFlight

-----------------------------------------------------------------------------
(* The theorems *)

(* Initially nobody is subscribed and nothing is published.                *)
LEMMA InitBusInv == BusInit => BusInv
  <1> SUFFICES ASSUME BusInit PROVE BusInv
    OBVIOUS
  <1>1. BusShape
    BY BusAssumption, EmptySeq DEF BusInit, BusShape
  <1>2. \A p \in Publishers : pub[p] = Outside
    BY DEF BusInit
  <1>3. InFlight
    BY <1>2 DEF BusInit, InFlight
  <1>4. \A i \in Subscribers : Len(ch[i]) = 0 /\ DOMAIN ch[i] = {}
    BY DEF BusInit
  <1>5. Behind
    BY <1>2, <1>4 DEF BusInit, Behind, Owes
  <1>6. InOrder
    BY <1>4, BusAssumption DEF InOrder
  <1>7. Accounted
    <2>1. \A i \in Subscribers : Retrying(i) = {}
      BY <1>2 DEF Retrying
    <2>2. \A i \in Subscribers : IsFiniteSet(Retrying(i)) /\ Cardinality(Retrying(i)) = 0
      BY <2>1, FS_EmptySet
    <2>3. \A i \in Subscribers : lost[i] = 0 /\ dropped[i] = 0
      BY DEF BusInit
    <2> QED BY <2>2, <2>3 DEF Accounted
  <1> QED BY <1>1, <1>3, <1>5, <1>6, <1>7 DEF BusInit, BusInv, NoPanic

(* Every step keeps the invariant.                                         *)
LEMMA NextBusInv == BusInv /\ [BusNext]_busVars => BusInv'
  <1> SUFFICES ASSUME BusInv, [BusNext]_busVars PROVE BusInv'
    OBVIOUS
  <1>1. CASE \E i \in Subscribers : Subscribe(i) \/ Cancel(i) \/ Take(i)
    BY <1>1, SubscriptionsKeep, ReceiveKeeps
  <1>2. CASE \E p \in Publishers, kind \in Kinds : Begin(p, kind)
    BY <1>2, BeginKeeps
  <1>3. CASE \E p \in Publishers : Publish(p)
    BY <1>3, ReturnKeeps, OfferKeeps, DropKeeps, RetryKeeps DEF Publish
  <1>4. CASE UNCHANGED busVars
    BY <1>4 DEF busVars, BusInv, BusShape, NoPanic, InFlight, Behind, Owes, InOrder, Accounted, Retrying
  <1> QED BY <1>1, <1>2, <1>3, <1>4 DEF BusNext

(* The invariant holds throughout.                                         *)
LEMMA AlwaysBusInv == BusSpec => []BusInv
  BY InitBusInv, NextBusInv, PTL DEF BusSpec

(* No interleaving of Publish with cancellations sends on a closed channel. *)
THEOREM CancelNeverPanics == BusSpec => []NoPanic
  <1>1. BusInv => NoPanic
    BY DEF BusInv
  <1> QED BY <1>1, AlwaysBusInv, PTL

(* When no Publish is under way nobody is between the two sends, so every  *)
(* loss is within twice the counter; the order is part of the invariant.   *)
THEOREM EventsInOrderLossCounted == BusSpec => []Delivery
  <1>1. BusInv => Delivery
    <2> SUFFICES ASSUME BusInv, Exclusive, NEW i \in Subscribers
                 PROVE  lost[i] <= 2 * dropped[i]
      BY DEF BusInv, Delivery, LossIsReported
    <2>1. Retrying(i) = {}
      BY DEF Exclusive, Retrying
    <2>2. Cardinality(Retrying(i)) = 0
      BY <2>1, FS_EmptySet
    <2>3. lost[i] \in Nat /\ dropped[i] \in Nat
      BY DEF BusInv, BusShape
    <2> QED BY <2>2, <2>3 DEF BusInv, Accounted
  <1> QED BY <1>1, AlwaysBusInv, PTL
=============================================================================
