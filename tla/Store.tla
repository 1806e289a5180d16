-------------------------------- MODULE Store --------------------------------
(***************************************************************************)
(* The display of one browser tab (reduceEvent of src/web/src/lib/         *)
(* stores.ts) over the monitoring state of module Dashboard.  The event    *)
(* loop and the consensus fallback each change the state and then publish; *)
(* the hub takes what they published from its bounded channel and sends it *)
(* as patches, and sends snapshots in between.                             *)
(*                                                                         *)
(* The way from the hub to the tab is module Stream: frames arrive in      *)
(* order, and after a lost one the tab takes nothing but a baseline.  So   *)
(* the tab is shown here as it is once all that was sent has arrived, and  *)
(* feed says what it takes.  Only the fields that patches change are kept; *)
(* votes and proposer flags carry the position they were seen at, as in    *)
(* Dashboard.                                                              *)
(***************************************************************************)
EXTENDS Dashboard

CONSTANT BusCap    \* capacity of the hub's channel

ASSUME StoreAssumption == BusCap \in Nat \ {0}

VARIABLES
  pending,    \* per publisher: what it has yet to publish
  bus,        \* published and not yet dispatched
  view,       \* the Snapshot that the tab shows
  feed,       \* "none" (waits for a baseline), "dashboard" or "context"
  missed      \* history: the state has changed in a way no patch tells

storeVars == <<pending, bus, view, feed, missed>>

Publishers == {"loop", "fallback"}

ViewOf(d) ==
  [height |-> d.height, round |-> d.round, step |-> d.step, committed |-> d.lastCommittedHeight,
   rows |-> d.lastRound.rows]

-----------------------------------------------------------------------------
(* reduceEvent *)

(* Mutant: the round is not consulted.                                     *)
Outdated_Round(w, h, r) == h <= w.committed \/ h < w.height

Outdated(w, h, r) == h <= w.committed \/ h < w.height \/ (h = w.height /\ r < w.round)

ClearVotes(rows) == [a \in DOMAIN rows |-> EmptyRow]

(* Mutant: a new round of the same height is not taken for an advance.     *)
MoveTo_Height(w, h, r, step) ==
  IF h > w.height
  THEN [w EXCEPT !.height = h, !.round = r, !.step = step, !.rows = ClearVotes(@)]
  ELSE [w EXCEPT !.height = h, !.round = r, !.step = Greater(@, step)]

MoveTo(w, h, r, step) ==
  IF h > w.height \/ r > w.round
  THEN [w EXCEPT !.height = h, !.round = r, !.step = step, !.rows = ClearVotes(@)]
  ELSE [w EXCEPT !.height = h, !.round = r, !.step = Greater(@, step)]

VoteReceived(w, v) ==
  LET w1 == MoveTo(w, v.height, v.round, StepOf(v.type)) IN
  IF Outdated(w, v.height, v.round) \/ v.addr \notin DOMAIN w.rows THEN w
  ELSE IF w1.rows[v.addr].votes[v.type].kind # "absent" THEN w
  ELSE [w1 EXCEPT !.rows[v.addr].votes[v.type] = CellOf(v)]

RoundChanged(w, e) ==
  LET w1 == MoveTo(w, e.height, e.round, e.step) IN
  IF Outdated(w, e.height, e.round) THEN w
  ELSE [w1 EXCEPT !.rows =
          MarkProposer([rows |-> @], e.proposer, e.height, e.round).rows]

(* Mutant: the active round survives the commit of its own height.         *)
BlockCommitted_Keeps(w, h) ==
  IF h <= w.committed THEN w
  ELSE IF w.height < h
  THEN [w EXCEPT !.committed = h, !.height = h + 1, !.round = 0, !.step = 1, !.rows = ClearVotes(@)]
  ELSE [w EXCEPT !.committed = h]

BlockCommitted(w, h) ==
  IF h <= w.committed THEN w
  ELSE IF w.height <= h
  THEN [w EXCEPT !.committed = h, !.height = h + 1, !.round = 0, !.step = 1, !.rows = ClearVotes(@)]
  ELSE [w EXCEPT !.committed = h]

Reduce(w, e) ==
  CASE e.type = "vote.received" -> VoteReceived(w, e.vote)
    [] e.type = "round.changed" -> RoundChanged(w, e)
    [] e.type = "block.committed" -> BlockCommitted(w, e.height)

(* A context snapshot has no validators.                                   *)
TakeContext(w, snapshot) == [snapshot EXCEPT !.rows = w.rows]

-----------------------------------------------------------------------------
(* The state changes, and its publisher goes on to publish.                *)

Tells(g, e) == pending[g] = <<>> /\ pending' = [pending EXCEPT ![g] = <<e>>]
TellsNothing(g) == pending[g] = <<>> /\ UNCHANGED pending
Misses(what) == missed' = (missed \/ what)

(* No patch tells of a commit that the tab knows already; status replies   *)
(* and validator sets reach it with the next snapshot only.                *)
CommitsBlock(h) ==
  /\ NewBlock(h)
  /\ Tells("loop", [type |-> "block.committed", height |-> h])
  /\ Misses(h <= s.lastCommittedHeight)

StartsRound(h, r, step, p) ==
  /\ NewRound(h, r, step, p)
  /\ Tells("loop", [type |-> "round.changed", height |-> h, round |-> r, step |-> step, proposer |-> p])
  /\ Misses(FALSE)

(* The vote of a validator that is not on display moves the state only.    *)
TakesVote(v) ==
  /\ Vote(v)
  /\ IF AcceptsVote(s, v) THEN Tells("loop", [type |-> "vote.received", vote |-> v])
                          ELSE TellsNothing("loop")
  /\ Misses(v.addr \notin DOMAIN s.lastRound.rows /\ ViewOf(s') # ViewOf(s))

(* A fallback reply for the displayed round clears its votes silently.     *)
FallsBack(h, r, step) ==
  /\ FallbackReply(h, r, step)
  /\ IF AcceptsFallback(s, h, r)
     THEN Tells("fallback", [type |-> "round.changed", height |-> h, round |-> r, step |-> step,
                             proposer |-> NoProposer])
     ELSE TellsNothing("fallback")
  /\ Misses(<<s'.height, s'.round>> = <<s.height, s.round>> /\ s'.lastRound # s.lastRound)

PassesStatus(h) == StatusReply(h) /\ Misses(ViewOf(s') # ViewOf(s)) /\ UNCHANGED pending
Relists(V, vh) == ValidatorsReply(V, vh) /\ Misses(ViewOf(s') # ViewOf(s)) /\ UNCHANGED pending

StateChanges ==
  /\ \/ \E h \in Heights : CommitsBlock(h) \/ (\E r \in Rounds, step \in Steps : FallsBack(h, r, step))
     \/ \E h \in Heights, r \in Rounds, step \in Steps, p \in Proposers : StartsRound(h, r, step, p)
     \/ \E v \in Votes : TakesVote(v)
     \/ \E h \in Heights : PassesStatus(h)
     \/ \E V \in ValidatorSets, vh \in Heights : Relists(V, vh)
  /\ UNCHANGED <<bus, view, feed>>

-----------------------------------------------------------------------------
(* From the publishers to the tab *)

(* A full channel loses its oldest event or the new one (module EventBus). *)
Publish(g) ==
  /\ pending[g] # <<>>
  /\ pending' = [pending EXCEPT ![g] = <<>>]
  /\ IF Len(bus) < BusCap THEN bus' = bus \o pending[g] /\ UNCHANGED missed
     ELSE bus' \in {Tail(bus) \o pending[g], bus} /\ missed' = TRUE
  /\ UNCHANGED <<s, view, feed>>

(* run of the hub takes the next event; a tab that waits for a baseline    *)
(* ignores it, and one on another page is not subscribed.                  *)
Dispatch ==
  /\ bus # <<>> /\ bus' = Tail(bus)
  /\ view' = IF feed = "dashboard" THEN Reduce(view, Head(bus)) ELSE view
  /\ UNCHANGED <<s, pending, feed, missed>>

(* Patches published before a snapshot may follow it, so it makes up for   *)
(* what was missed only if there are none.                                 *)
StateSnapshot ==
  /\ feed # "context" /\ feed' = "dashboard"
  /\ view' = ViewOf(s)
  /\ missed' = (missed /\ (bus # <<>> \/ \E g \in Publishers : pending[g] # <<>>))
  /\ UNCHANGED <<s, pending, bus>>

ContextSnapshot ==
  /\ feed = "context"
  /\ view' = TakeContext(view, ViewOf(s))
  /\ UNCHANGED <<s, pending, bus, feed, missed>>

(* The user goes to another page or comes back, or the connection breaks   *)
(* or has lost a frame.                                                    *)
ChangesPage ==
  /\ feed' \in {"none", "context"} \ {feed}
  /\ UNCHANGED <<s, pending, bus, view, missed>>

TabInit ==
  /\ pending = [g \in Publishers |-> <<>>] /\ bus = <<>>
  /\ view = ViewOf(s) /\ feed = "none" /\ missed = FALSE

StoreInit == Init /\ TabInit

StoreNext ==
  \/ StateChanges \/ (\E g \in Publishers : Publish(g)) \/ Dispatch
  \/ StateSnapshot \/ ContextSnapshot \/ ChangesPage

StoreSpec == StoreInit /\ [][StoreNext]_<<s, storeVars>>

-----------------------------------------------------------------------------
(* Properties *)

PositionsIn(rows) ==
  {rows[x[1]].votes[x[2]].at : x \in
     {y \in (DOMAIN rows) \X VoteTypes : rows[y[1]].votes[y[2]].kind # "absent"}}
  \cup {rows[a].proposer.at : a \in {x \in DOMAIN rows : rows[x].proposer.set}}

(* The votes and the proposer on display are all of one round, which is    *)
(* the displayed one whenever patches are applied, though patches overtake *)
(* snapshots, are lost or come twice; and nothing displayed is active that *)
(* the tab knows as committed.                                             *)
ViewOfOneRound ==
  /\ \A x, y \in PositionsIn(view.rows) : x = y
  /\ feed = "dashboard" =>
       /\ PositionsIn(view.rows) \subseteq {At(view.height, view.round)}
       /\ view.height = 0 \/ view.height > view.committed

(* The display never runs backwards, neither by a late patch nor by a      *)
(* snapshot, except to the blank height of a chain that was passed.        *)
ViewNeverBackwards ==
  [][/\ view'.committed >= view.committed
     /\ \/ view'.height > view.height
        \/ view'.height = view.height /\ view'.round > view.round
        \/ view'.height = view.height /\ view'.round = view.round /\ view'.step >= view.step
        \/ view'.height = 0 /\ view'.committed >= view.height]_view

(* The rules of the browser and of the collector agree: once all patches   *)
(* have arrived, in the order of their publication and over any snapshot,  *)
(* the tab shows what the state is, unless the state changed in a way that *)
(* no patch tells.                                                         *)
ViewAgrees ==
  feed = "dashboard" /\ ~missed /\ bus = <<>> /\ (\A g \in Publishers : pending[g] = <<>>)
    => view = ViewOf(s)
=============================================================================
