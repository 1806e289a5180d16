-------------------------------- MODULE Stream --------------------------------
(***************************************************************************)
(* The web stream: the hub (src/internal/web/ws.go) with the connection of *)
(* one browser tab, whose queue is module WSQueue, and the tab's stream    *)
(* client (src/web/src/lib/ws.ts) with what its store shows.               *)
(*                                                                         *)
(* The state has versions: change k of the state makes version k and       *)
(* publishes patch k, which the hub dispatches later.  A snapshot holds    *)
(* changes 1..v of the version v it was built at.  The browser's have is   *)
(* the set of changes its display contains.                                *)
(*                                                                         *)
(* Not modelled: frames that do not parse and baselines of an unknown      *)
(* schema or server epoch, which this server does not send on one          *)
(* connection; messages that cannot be encoded, of which a lost resync is  *)
(* followed in module WSHub; the command budget; authentication failures   *)
(* and the client being disposed of; events that the bus dropped before    *)
(* the hub.  A socket that is replaced while it is open is no longer       *)
(* followed.                                                               *)
(***************************************************************************)
EXTENDS WSQueue, SequencesExt

CONSTANTS
  MaxVersion,     \* bound: changes of the state
  MaxTicks,       \* bound: periodic snapshots
  MaxUser,        \* bound: profile changes and refreshes by the user
  MaxFailures,    \* bound: failed requests, closed connections, early timeouts
  MaxInFlight     \* frames that fit between the writer and the browser

ASSUME StreamBounds ==
  /\ MaxVersion \in Nat /\ MaxTicks \in Nat /\ MaxUser \in Nat
  /\ MaxFailures \in Nat /\ MaxInFlight \in Nat \ {0}

VARIABLES
  v,             \* version of the state
  dispatched,    \* patches the hub has taken from the bus
  c,             \* the server's wsClient for the browser's socket
  resync,        \* c is in resyncPending and the timer is set
  down,          \* frames sent to the browser
  b,             \* the browser
  ticks, user, failures

vars == <<v, dispatched, c, resync, down, b, ticks, user, failures>>

Profiles == {"dashboard", "context", "hidden"}

Subscribe(channels) == [type |-> "subscribe", channels |-> channels]
Unsubscribe(channels) == [type |-> "unsubscribe", channels |-> channels]
Ping == [type |-> "ping", channels |-> {}]
Resync == [type |-> "resync", channels |-> {}]

NoClient == SignalClose(NewClient)

Fails == failures < MaxFailures /\ failures' = failures + 1

-----------------------------------------------------------------------------
(* The hub.  dispatchMu makes a dispatch, a tick and a resync atomic.      *)

Snapshot == Frame("state.snapshot", v)
ContextSnapshot == Frame("context.snapshot", 0)

StateChanges ==
  /\ v < MaxVersion /\ v' = v + 1
  /\ UNCHANGED <<dispatched, c, resync, down, b, ticks, user, failures>>

Dispatch ==
  /\ dispatched < v /\ dispatched' = dispatched + 1
  /\ c' = BroadcastLocked(c, Frame("patch", dispatched + 1))
  /\ UNCHANGED <<v, resync, down, b, ticks, user, failures>>

Tick ==
  /\ ticks < MaxTicks /\ ticks' = ticks + 1
  /\ c' = BroadcastLocked(BroadcastLocked(c, Snapshot), ContextSnapshot)
  /\ UNCHANGED <<v, dispatched, resync, down, b, user, failures>>

FlushResync ==
  /\ resync /\ resync' = FALSE
  /\ c' = QueueLocked(c, Snapshot)
  /\ UNCHANGED <<v, dispatched, down, b, ticks, user, failures>>

(* serveWS once the upgrade is done; the baseline is queued before any     *)
(* broadcast can see the client.                                           *)
Admit ==
  /\ b.ws = "dialing"
  /\ c' = QueueLocked(NewClient, Snapshot)
  /\ b' = [b EXCEPT !.ws = "open"]
  /\ UNCHANGED <<v, dispatched, resync, down, ticks, user, failures>>

(* readPump *)
ReadCommand ==
  LET command == Head(b.up) IN
  /\ b.up # <<>> /\ ~c.closed
  /\ b' = [b EXCEPT !.up = Tail(@)]
  /\ c' = CASE command.type \in {"subscribe", "unsubscribe"} -> SetSubscriptions(c, command)
            [] command.type = "ping" -> QueueLocked(c, Frame("pong", 0))
            [] command.type = "resync" -> c
  /\ resync' = (resync \/ command.type = "resync")
  /\ UNCHANGED <<v, dispatched, down, ticks, user, failures>>

(* writePump: dequeue and write, or wait for the token.                    *)
WriteFrame ==
  /\ ~c.closed /\ ~c.waiting /\ c.pending # <<>> /\ Len(down) < MaxInFlight
  /\ down' = Append(down, Head(c.pending))
  /\ c' = RemoveFirstLocked(c)
  /\ UNCHANGED <<v, dispatched, resync, b, ticks, user, failures>>

WriterWaits ==
  /\ ~c.closed /\ ~c.waiting /\ c.pending = <<>>
  /\ c' = [c EXCEPT !.waiting = TRUE]
  /\ UNCHANGED <<v, dispatched, resync, down, b, ticks, user, failures>>

WriterWakes ==
  /\ ~c.closed /\ c.waiting /\ c.wake
  /\ c' = [c EXCEPT !.waiting = FALSE, !.wake = FALSE]
  /\ UNCHANGED <<v, dispatched, resync, down, b, ticks, user, failures>>

(* The ping ticker also ends the wait.                                     *)
WriterPings ==
  /\ ~c.closed /\ c.waiting
  /\ c' = [c EXCEPT !.waiting = FALSE]
  /\ UNCHANGED <<v, dispatched, resync, down, b, ticks, user, failures>>

(* A frame or an overload older than wsQueueMaxAge, a failed read or write *)
(* or the shutdown of the server ends the connection.                      *)
SlowClient ==
  /\ ~c.closed /\ Fails
  /\ c' = SignalClose(c)
  /\ UNCHANGED <<v, dispatched, resync, down, b, ticks, user>>

-----------------------------------------------------------------------------
(* The browser: functions of ws.ts from browser to browser.  What it sends *)
(* goes to up, where the server reads it.                                  *)

RequestRepair(w) ==
  IF w.requestedRepair \/ w.ws # "open" THEN w
  ELSE [w EXCEPT !.requestedRepair = TRUE, !.resyncing = TRUE, !.up = Append(@, Resync)]

ProfileCommands ==
  [dashboard |-> <<Subscribe({"dashboard"}), Unsubscribe({"context"})>>,
   context |-> <<Subscribe({"context"}), Unsubscribe({"dashboard"}), Ping>>,
   hidden |-> <<Unsubscribe({"dashboard", "context"}), Ping>>]

ApplyProfile(w) ==
  IF w.ws # "open" \/ w.resyncing \/ w.desired = w.applied THEN w
  ELSE LET sent == [w EXCEPT !.up = @ \o ProfileCommands[w.desired],
                             !.applied = w.desired,
                             !.profileBarrier = @ \/ w.desired = "context"]
       IN IF w.desired = "dashboard" THEN RequestRepair(sent) ELSE sent

(* The reconnect timer is never set, running, or over or cancelled: its    *)
(* identifier is kept, and refresh looks at that.                          *)
Reconnect(w) == IF w.desired = "hidden" THEN w ELSE [w EXCEPT !.reconnectTimer = "running"]

Open(w) == IF w.opening # "no" \/ w.desired = "hidden" THEN w ELSE [w EXCEPT !.opening = "probing"]

OnClose(w) == Reconnect([w EXCEPT !.ws = "none", !.up = <<>>])

OnBaseline(w, f) ==
  ApplyProfile([w EXCEPT !.sequence = f.seq, !.requestedRepair = FALSE, !.profileBarrier = FALSE,
                         !.resyncing = FALSE, !.have = 1..f.version])

(* Mutant: a gap in the sequence is not looked for.                        *)
OnFrame_AnySequence(w, f) ==
  IF w.resyncing \/ f.seq <= w.sequence THEN w
  ELSE IF f.type = "pong" THEN [w EXCEPT !.sequence = f.seq, !.profileBarrier = FALSE]
  ELSE [w EXCEPT !.sequence = f.seq,
                 !.have = IF f.type = "patch" /\ w.desired # "hidden" /\ ~w.profileBarrier
                          THEN @ \cup {f.version} ELSE @]

(* A frame that is not a baseline.  A context snapshot changes the header  *)
(* of the display and none of what have stands for.                        *)
OnFrame(w, f) ==
  IF w.resyncing \/ f.seq <= w.sequence THEN w
  ELSE IF f.seq # w.sequence + 1 THEN RequestRepair(w)
  ELSE IF f.type = "pong" THEN [w EXCEPT !.sequence = f.seq, !.profileBarrier = FALSE]
  ELSE [w EXCEPT !.sequence = f.seq,
                 !.have = IF f.type = "patch" /\ w.desired # "hidden" /\ ~w.profileBarrier
                          THEN @ \cup {f.version} ELSE @]

-----------------------------------------------------------------------------
(* The browser: events *)

OnMessage ==
  LET f == Head(down) IN
  /\ b.ws = "open" /\ down # <<>>
  /\ down' = Tail(down)
  /\ b' = IF f.type = "state.snapshot" THEN OnBaseline(b, f) ELSE OnFrame(b, f)
  /\ UNCHANGED <<v, dispatched, c, resync, ticks, user, failures>>

(* What the browser no longer listens to.                                  *)
Forget == c' = NoClient /\ resync' = FALSE /\ down' = <<>>

(* onclose after the server has closed; frames still on the way are lost.  *)
ConnectionLost ==
  /\ b.ws = "open" /\ c.closed
  /\ b' = OnClose(b)
  /\ Forget
  /\ UNCHANGED <<v, dispatched, ticks, user, failures>>

(* The upgrade fails or is refused.                                        *)
Refused ==
  /\ b.ws = "dialing" /\ Fails
  /\ b' = OnClose(b)
  /\ Forget
  /\ UNCHANGED <<v, dispatched, ticks, user>>

(* A baseline is on its way to the browser, or will be.                    *)
BaselineComing ==
  \/ Resync \in Range(b.up) \/ resync
  \/ \E i \in DOMAIN (down \o c.pending) : (down \o c.pending)[i].type = "state.snapshot"

(* The 8 s timer, which runs while resyncing: it is long enough for a      *)
(* baseline that is coming, with MaxFailures exceptions.                   *)
BaselineTimeout ==
  /\ b.ws = "open" /\ b.resyncing /\ ~BaselineComing
  /\ b' = OnClose(b)
  /\ Forget
  /\ UNCHANGED <<v, dispatched, ticks, user, failures>>

EarlyTimeout ==
  /\ b.ws # "none" /\ b.resyncing /\ Fails
  /\ b' = OnClose(b)
  /\ Forget
  /\ UNCHANGED <<v, dispatched, ticks, user>>

ReconnectTimerFires ==
  /\ b.reconnectTimer = "running"
  /\ b' = Open([b EXCEPT !.reconnectTimer = "over"])
  /\ UNCHANGED <<v, dispatched, c, resync, down, ticks, user, failures>>

(* open after the session probe: a new socket replaces any other.          *)
ProbeSucceeds ==
  /\ b.opening = "probing"
  /\ b' = [b EXCEPT !.opening = "no", !.ws = "dialing", !.sequence = 0, !.resyncing = TRUE,
                    !.requestedRepair = FALSE, !.applied = "dashboard", !.profileBarrier = FALSE,
                    !.up = <<>>]
  /\ Forget
  /\ UNCHANGED <<v, dispatched, ticks, user, failures>>

ProbeFails ==
  /\ b.opening = "probing" /\ Fails
  /\ b' = Reconnect([b EXCEPT !.opening = "no"])
  /\ UNCHANGED <<v, dispatched, c, resync, down, ticks, user>>

(* Mutant: an aborted probe ends quietly, whether the tab is hidden or not. *)
AbortSettles_Quiet ==
  /\ b.opening = "aborted"
  /\ b' = [b EXCEPT !.opening = "no"]
  /\ UNCHANGED <<v, dispatched, c, resync, down, ticks, user, failures>>

(* The aborted probe rejects; the tab may be visible again by then.        *)
AbortSettles ==
  /\ b.opening = "aborted"
  /\ b' = Reconnect([b EXCEPT !.opening = "no"])
  /\ UNCHANGED <<v, dispatched, c, resync, down, ticks, user, failures>>

Hide(w) ==
  ApplyProfile([w EXCEPT !.desired = "hidden",
                         !.reconnectTimer = IF @ = "running" THEN "over" ELSE @,
                         !.opening = IF @ = "probing" THEN "aborted" ELSE @])

Show(w, profile) ==
  LET x == [w EXCEPT !.desired = profile] IN
  IF x.ws = "none" THEN Open(x)
  ELSE IF w.desired = "hidden" THEN RequestRepair(ApplyProfile(x))
  ELSE ApplyProfile(x)

SetProfile(profile) ==
  /\ user < MaxUser /\ user' = user + 1
  /\ profile # b.desired
  /\ b' = IF profile = "hidden" THEN Hide(b) ELSE Show(b, profile)
  /\ UNCHANGED <<v, dispatched, c, resync, down, ticks, failures>>

(* The 30 s timer of a hidden tab.                                         *)
HiddenTimeout ==
  /\ b.desired = "hidden" /\ b.ws # "none"
  /\ b' = [b EXCEPT !.ws = "none", !.up = <<>>]
  /\ Forget
  /\ UNCHANGED <<v, dispatched, ticks, user, failures>>

Refresh ==
  /\ user < MaxUser /\ user' = user + 1
  /\ b.desired # "hidden"
  /\ b' = IF b.ws = "open" THEN RequestRepair(b)
          ELSE IF b.reconnectTimer = "never" THEN Open(b) ELSE b
  /\ UNCHANGED <<v, dispatched, c, resync, down, ticks, failures>>

-----------------------------------------------------------------------------
(* createWS, then the profile of the page that the tab was opened on.     *)
NewBrowser ==
  [ws |-> "none", opening |-> "probing", reconnectTimer |-> "never",
   sequence |-> 0, resyncing |-> TRUE, requestedRepair |-> FALSE, profileBarrier |-> FALSE,
   desired |-> "dashboard", applied |-> "dashboard", up |-> <<>>, have |-> {}]

Init ==
  /\ v = 0 /\ dispatched = 0
  /\ c = NoClient /\ resync = FALSE /\ down = <<>>
  /\ b \in {NewBrowser, Show(NewBrowser, "context"), Hide(NewBrowser)}
  /\ ticks = 0 /\ user = 0 /\ failures = 0

Server ==
  \/ Dispatch \/ Tick \/ FlushResync \/ Admit \/ ReadCommand
  \/ WriteFrame \/ WriterWaits \/ WriterWakes \/ WriterPings \/ SlowClient

Browser ==
  \/ OnMessage \/ ConnectionLost \/ Refused \/ BaselineTimeout \/ EarlyTimeout
  \/ ReconnectTimerFires \/ ProbeSucceeds \/ ProbeFails \/ AbortSettles
  \/ \E profile \in Profiles : SetProfile(profile)
  \/ HiddenTimeout \/ Refresh

Next == StateChanges \/ Server \/ Browser

(* The hub's loop, its resync timer and the pumps run while they can; the  *)
(* network delivers, and requests are answered, but for MaxFailures times; *)
(* the browser's timers fire.  Nothing is assumed of the periodic snapshot,*)
(* the ping ticker, the state and the user.                                *)
Fairness ==
  /\ WF_vars(Dispatch) /\ WF_vars(FlushResync) /\ WF_vars(Admit) /\ WF_vars(ReadCommand)
  /\ WF_vars(WriteFrame) /\ WF_vars(WriterWakes)
  /\ WF_vars(OnMessage) /\ WF_vars(ConnectionLost) /\ WF_vars(BaselineTimeout)
  /\ WF_vars(ReconnectTimerFires) /\ WF_vars(ProbeSucceeds) /\ WF_vars(AbortSettles)

Spec == Init /\ [][Next]_vars /\ Fairness

-----------------------------------------------------------------------------
(* Properties *)

Frames == down \o c.pending

(* "The initial baseline must be the first frame" (ws_queue.go:57).        *)
BaselineFirst ==
  b.ws = "open" /\ ~c.closed /\ b.sequence = 0
    => Frames # <<>> /\ Frames[1].type = "state.snapshot" /\ Frames[1].seq = 1

(* "A wakeup is only a hint" (ws_queue.go:12), but one is there whenever   *)
(* the writer waits with frames queued: superseding a snapshot sends none. *)
NoLostWakeup == c.waiting /\ c.pending # <<>> => c.wake

(* The queue of a connection keeps its promises: its byte count is exact   *)
(* (ws_queue.go:56 relies on it), its sequence numbers make every removal  *)
(* visible, its first frame survives and its writer is woken.              *)
QueueSound == BytesExact(c) /\ Sequenced(c) /\ BaselineFirst /\ NoLostWakeup

(* A frame was removed between what the browser has and what is on the way.*)
GapComing ==
  \E i \in DOMAIN Frames : Frames[i].seq # (IF i = 1 THEN b.sequence ELSE Frames[i - 1].seq) + 1

(* No loss is silent: what a visible dashboard lacks of the changes the    *)
(* hub has dispatched is on the way as a patch, or a baseline is coming,   *)
(* or the browser is about to find a gap, whatever was dropped, superseded *)
(* or filtered while the profile changed.                                  *)
LossVisible ==
  b.ws = "open" /\ ~c.closed /\ b.desired = "dashboard" /\ ~b.resyncing =>
    \/ BaselineComing \/ GapComing
    \/ \A k \in (1..dispatched) \ b.have :
         \E i \in DOMAIN Frames : Frames[i].type = "patch" /\ Frames[i].version = k

(* A dashboard that stays visible comes to show every change, without the  *)
(* help of the periodic snapshot.                                          *)
Converges == b.desired = "dashboard" ~> (b.have = 1..v \/ b.desired # "dashboard")

(* "Use the ordered subscription-command then ping/pong barrier for profile*)
(* changes, followed by an authoritative resync/context baseline before    *)
(* applying patches" (docs/CAPACITY_IMPLEMENTATION_PLAN.md:32): a patch is *)
(* only ever applied to a display that holds every earlier change.         *)
PatchesInOrder == \A k \in b.have : 1..k \subseteq b.have
=============================================================================
