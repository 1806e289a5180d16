------------------------------- MODULE EventBus -------------------------------
(***************************************************************************)
(* The in-process event bus (src/internal/events/bus.go).  Publish holds   *)
(* the read lock, so publishers run side by side and interleave at every   *)
(* channel operation; Subscribe and the cancel function hold the write     *)
(* lock.  Subscribers receive whenever they like.                          *)
(*                                                                         *)
(* An event is its publisher, the publisher's count of it and its kind;    *)
(* payloads are not modelled.                                              *)
(***************************************************************************)
EXTENDS Integers, Sequences, FiniteSets

CONSTANTS
  Publishers,     \* goroutines that call Publish
  Subscribers,    \* subscription ids, never reused
  Kinds,          \* event kinds
  Wants,          \* kinds each subscriber asked for, {} for every kind
  BufCap,         \* capacity of a subscription's channel
  MaxEvents       \* bound: events per publisher

ASSUME BusAssumption ==
  /\ BufCap \in Nat \ {0} /\ MaxEvents \in Nat
  /\ Wants \in [Subscribers -> SUBSET Kinds]

VARIABLES
  subs,        \* the ids in Bus.subs
  closed,      \* ids whose channel was closed
  ch,          \* the channel of each id
  dropped,     \* the counter of each id
  pub,         \* where each publisher is in Publish
  count,       \* events each publisher has begun to publish
  seen,        \* history: the last event of each publisher each id received
  lost,        \* history: events taken off or kept off each channel by Publish
  refused,     \* history: some Publish returned without having sent its event
  panicked     \* a send on a closed channel

busVars == <<subs, closed, ch, dropped, pub, count, seen, lost, refused, panicked>>

Event == [from : Publishers, seq : 1..MaxEvents, kind : Kinds]
Outside == [pc |-> "outside"]

BusInit ==
  /\ subs = {} /\ closed = {}
  /\ ch = [i \in Subscribers |-> <<>>] /\ dropped = [i \in Subscribers |-> 0]
  /\ pub = [p \in Publishers |-> Outside] /\ count = [p \in Publishers |-> 0]
  /\ seen = [i \in Subscribers |-> [p \in Publishers |-> 0]]
  /\ lost = [i \in Subscribers |-> 0]
  /\ refused = FALSE /\ panicked = FALSE

-----------------------------------------------------------------------------
(* The write lock is free.                                                 *)
Exclusive == \A p \in Publishers : pub[p] = Outside

Subscribe(i) ==
  /\ Exclusive /\ i \notin subs \cup closed
  /\ subs' = subs \cup {i}
  /\ UNCHANGED <<closed, ch, dropped, pub, count, seen, lost, refused, panicked>>

(* Mutant: the channel is closed without the lock.                         *)
Cancel_Unlocked(i) ==
  /\ i \in subs
  /\ subs' = subs \ {i} /\ closed' = closed \cup {i}
  /\ UNCHANGED <<ch, dropped, pub, count, seen, lost, refused, panicked>>

(* The cancel function.                                                    *)
Cancel(i) ==
  /\ Exclusive /\ i \in subs
  /\ subs' = subs \ {i} /\ closed' = closed \cup {i}
  /\ UNCHANGED <<ch, dropped, pub, count, seen, lost, refused, panicked>>

(* A closed channel still yields what it holds.                            *)
Take(i) ==
  /\ ch[i] # <<>>
  /\ ch' = [ch EXCEPT ![i] = Tail(@)]
  /\ seen' = [seen EXCEPT ![i][Head(ch[i]).from] = Head(ch[i]).seq]
  /\ UNCHANGED <<subs, closed, dropped, pub, count, lost, refused, panicked>>

-----------------------------------------------------------------------------
(* Publish: the read lock is taken, the matching subscribers are served in *)
(* the order of a Go map, that is, in any order.                           *)

Begin(p, kind) ==
  /\ pub[p] = Outside /\ count[p] < MaxEvents
  /\ count' = [count EXCEPT ![p] = @ + 1]
  /\ pub' = [pub EXCEPT ![p] =
       [pc |-> "offer", ev |-> [from |-> p, seq |-> count[p] + 1, kind |-> kind],
        todo |-> {i \in subs : Wants[i] = {} \/ kind \in Wants[i]}, at |-> {}]]
  /\ UNCHANGED <<subs, closed, ch, dropped, seen, lost, refused, panicked>>

Room(i) == Len(ch[i]) < BufCap

Send(p, i) ==
  /\ ch' = [ch EXCEPT ![i] = Append(@, pub[p].ev)]
  /\ panicked' = (panicked \/ i \in closed)

Served(p, i) == pub' = [pub EXCEPT ![p] = [pub[p] EXCEPT !.pc = "offer", !.todo = @ \ {i}, !.at = {}]]

Move(p, i, pc) == pub' = [pub EXCEPT ![p] = [@ EXCEPT !.pc = pc, !.at = {i}]]

(* The first send, or its default branch.                                  *)
TrySend(p, i) ==
  /\ pub[p].pc = "offer" /\ i \in pub[p].todo
  /\ \/ Room(i) /\ Send(p, i) /\ Served(p, i)
     \/ ~Room(i) /\ Move(p, i, "drop") /\ UNCHANGED <<ch, panicked>>
  /\ UNCHANGED <<subs, closed, dropped, count, seen, lost, refused>>

(* The receive of the oldest event, unless the channel has been drained.   *)
Drop(p, i) ==
  /\ pub[p].pc = "drop" /\ pub[p].at = {i}
  /\ Move(p, i, "retry")
  /\ IF ch[i] # <<>>
     THEN ch' = [ch EXCEPT ![i] = Tail(@)] /\ lost' = [lost EXCEPT ![i] = @ + 1]
     ELSE UNCHANGED <<ch, lost>>
  /\ UNCHANGED <<subs, closed, dropped, count, seen, refused, panicked>>

(* Mutant: the second send waits for room.                                 *)
Retry_Blocking(p, i) ==
  /\ pub[p].pc = "retry" /\ pub[p].at = {i}
  /\ Room(i) /\ Send(p, i)
  /\ dropped' = [dropped EXCEPT ![i] = @ + 1]
  /\ Served(p, i)
  /\ UNCHANGED <<subs, closed, count, seen, lost, refused>>

(* Mutant: only a failed second send is counted.                           *)
Retry_CountRefused(p, i) ==
  /\ pub[p].pc = "retry" /\ pub[p].at = {i}
  /\ Served(p, i)
  /\ \/ Room(i) /\ Send(p, i) /\ UNCHANGED <<dropped, lost, refused>>
     \/ /\ ~Room(i) /\ UNCHANGED <<ch, panicked>>
        /\ lost' = [lost EXCEPT ![i] = @ + 1] /\ refused' = TRUE
        /\ dropped' = [dropped EXCEPT ![i] = @ + 1]
  /\ UNCHANGED <<subs, closed, count, seen>>

(* The second send; both of its branches count a drop.                     *)
Retry(p, i) ==
  /\ pub[p].pc = "retry" /\ pub[p].at = {i}
  /\ dropped' = [dropped EXCEPT ![i] = @ + 1]
  /\ Served(p, i)
  /\ \/ Room(i) /\ Send(p, i) /\ UNCHANGED <<lost, refused>>
     \/ /\ ~Room(i) /\ UNCHANGED <<ch, panicked>>
        /\ lost' = [lost EXCEPT ![i] = @ + 1] /\ refused' = TRUE
  /\ UNCHANGED <<subs, closed, count, seen>>

Return(p) ==
  /\ pub[p].pc = "offer" /\ pub[p].todo = {}
  /\ pub' = [pub EXCEPT ![p] = Outside]
  /\ UNCHANGED <<subs, closed, ch, dropped, count, seen, lost, refused, panicked>>

Publish(p) == Return(p) \/ \E i \in Subscribers : TrySend(p, i) \/ Drop(p, i) \/ Retry(p, i)

BusNext ==
  \/ \E i \in Subscribers : Subscribe(i) \/ Cancel(i) \/ Take(i)
  \/ \E p \in Publishers, kind \in Kinds : Begin(p, kind)
  \/ \E p \in Publishers : Publish(p)

(* A goroutine inside Publish keeps running; subscribers may never read.   *)
BusSpec == BusInit /\ [][BusNext]_busVars /\ \A p \in Publishers : WF_busVars(Publish(p))

-----------------------------------------------------------------------------
(* Properties *)

(* Cancelling a subscription never makes a concurrent Publish panic.       *)
NoPanic == ~panicked

(* What is left in a channel of each publisher's events is in the order of *)
(* publication, without repetition, and newer than what the subscriber has *)
(* already received, however Publish calls and drops interleave, and there *)
(* is never more of it than the channel holds.                             *)
InOrder ==
  \A i \in Subscribers :
     /\ Len(ch[i]) <= BufCap
     /\ \A m \in DOMAIN ch[i] : ch[i][m].seq > seen[i][ch[i][m].from]
     /\ \A m, n \in DOMAIN ch[i] :
          m < n /\ ch[i][m].from = ch[i][n].from => ch[i][m].seq < ch[i][n].seq

(* No loss goes unreported: once no Publish is under way, a subscriber     *)
(* that missed events has a non-zero counter, and it missed at most two    *)
(* events for each count.                                                  *)
LossIsReported == Exclusive => \A i \in Subscribers : lost[i] <= 2 * dropped[i]

(* A subscriber gets a part of every publisher's events, in order, and     *)
(* knows that something is missing.                                        *)
Delivery == InOrder /\ LossIsReported

(* Publish does not block on a slow subscriber: it returns even if no      *)
(* subscriber ever receives.                                               *)
PublishReturns == \A p \in Publishers : pub[p] # Outside ~> pub[p] = Outside

(* "If a subscriber's buffer is full, the oldest event is dropped" and the *)
(* new one delivered (bus.go:135-136).                                     *)
NewEventKept == ~refused
=============================================================================
