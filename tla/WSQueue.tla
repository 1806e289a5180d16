------------------------------- MODULE WSQueue -------------------------------
(***************************************************************************)
(* The outgoing queue of one browser connection (src/internal/web/         *)
(* ws_queue.go) and the subscriptions and close of its wsClient (ws.go).   *)
(* The client's mutex makes each of them atomic, so they are functions     *)
(* from client to client.                                                  *)
(*                                                                         *)
(* A frame has a type, a sequence number and the version of the state that *)
(* its payload was made from; a patch carries the change that made that    *)
(* version.  The channels state, blocks, divergence and votes are always   *)
(* subscribed to and left together by the browser: they are "dashboard".   *)
(* A refusal by queueLocked is always followed by signalClose, and is      *)
(* modelled with it.  The refusals that depend on the clock (a frame or an *)
(* overload older than wsQueueMaxAge) are left to SlowClient of Stream.    *)
(***************************************************************************)
EXTENDS Integers, Sequences, FiniteSetsExt

CONSTANTS
  QueueLimit,    \* wsQueueMessages, or the client's queueLimit
  QueueBytes,    \* wsQueueBytes
  Size           \* the size of a frame of each type

FrameTypes == {"state.snapshot", "context.snapshot", "patch", "pong"}

ASSUME QueueAssumption ==
  /\ QueueLimit \in Nat \ {0} /\ QueueBytes \in Nat
  /\ Size \in [FrameTypes -> Nat \ {0}]

Frame(type, version) == [type |-> type, seq |-> 0, version |-> version]
SizeOf(f) == Size[f.type]
BytesOf(frames) == MapThenSumSet(LAMBDA i : SizeOf(frames[i]), DOMAIN frames)
IsSnapshot(f) == f.type \in {"state.snapshot", "context.snapshot"}

ChannelFor(type) == IF type = "context.snapshot" THEN "context" ELSE "dashboard"

NewClient ==
  [subs |-> {"dashboard"}, seq |-> 0, pending |-> <<>>, bytes |-> 0,
   wake |-> FALSE, waiting |-> FALSE, closed |-> FALSE]

SignalClose(c) == [c EXCEPT !.closed = TRUE, !.pending = <<>>, !.bytes = 0]

-----------------------------------------------------------------------------
(* An adjacent snapshot of the same type is superseded at its sequence     *)
(* number, the first baseline excepted.                                    *)
Supersedes(c, f) ==
  LET last == c.pending[Len(c.pending)] IN
  /\ c.pending # <<>> /\ IsSnapshot(f)
  /\ last.type = f.type /\ last.seq # 1
  /\ c.bytes - SizeOf(last) + SizeOf(f) <= QueueBytes

Supersede(c, f) ==
  LET n == Len(c.pending) IN
  [c EXCEPT !.pending[n] = [f EXCEPT !.seq = c.pending[n].seq],
            !.bytes = @ + SizeOf(f) - SizeOf(c.pending[n])]

(* How many of the oldest frames have to go to make room for f.            *)
Excess(c, f) ==
  Min({k \in 0..Len(c.pending) :
         /\ Len(c.pending) - k < QueueLimit
         /\ c.bytes - BytesOf(SubSeq(c.pending, 1, k)) + SizeOf(f) <= QueueBytes})

(* The baseline that opens a connection must not be dropped.               *)
HoldsBaseline(c) == c.pending[1].seq = 1 /\ c.pending[1].type = "state.snapshot"

(* Mutant: the bytes of dropped frames are still counted.                  *)
DropOldest_Leak(c, k) == [c EXCEPT !.pending = SubSeq(@, k + 1, Len(@))]

DropOldest(c, k) ==
  [c EXCEPT !.pending = SubSeq(@, k + 1, Len(@)), !.bytes = @ - BytesOf(SubSeq(c.pending, 1, k))]

Enqueue(c, f) ==
  LET k == Excess(c, f) IN
  IF k > 0 /\ HoldsBaseline(c) THEN SignalClose(c)
  ELSE [DropOldest(c, k) EXCEPT !.seq = @ + 1,
                                !.pending = Append(@, [f EXCEPT !.seq = c.seq + 1]),
                                !.bytes = @ + SizeOf(f),
                                !.wake = TRUE]

QueueLocked(c, f) ==
  IF c.closed THEN c
  ELSE IF SizeOf(f) > QueueBytes THEN SignalClose(c)
  ELSE IF Supersedes(c, f) THEN Supersede(c, f)
  ELSE Enqueue(c, f)

RemoveFirstLocked(c) ==
  [c EXCEPT !.pending = Tail(@), !.bytes = @ - SizeOf(Head(c.pending))]

(* broadcastLocked, for one client.                                        *)
BroadcastLocked(c, f) == IF ChannelFor(f.type) \in c.subs THEN QueueLocked(c, f) ELSE c

SetSubscriptions(c, command) ==
  [c EXCEPT !.subs = IF command.type = "subscribe" THEN @ \cup command.channels
                                                   ELSE @ \ command.channels]

-----------------------------------------------------------------------------
(* Properties of a client *)

(* The accounting that queueLocked trusts: it indexes the queue while the  *)
(* byte count is over the limit, so a count that does not match the frames *)
(* would run past the end.  Both limits hold.                              *)
BytesExact(c) == c.bytes = BytesOf(c.pending) /\ c.bytes <= QueueBytes /\ Len(c.pending) <= QueueLimit

(* Sequence numbers on the way to the browser increase and end with the    *)
(* latest one, so that any frame removed is visible as a gap.              *)
Sequenced(c) ==
  /\ \A i, j \in DOMAIN c.pending : i < j => c.pending[i].seq < c.pending[j].seq
  /\ c.pending # <<>> => c.pending[Len(c.pending)].seq = c.seq
=============================================================================
