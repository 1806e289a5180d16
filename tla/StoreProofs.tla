----------------------------- MODULE StoreProofs -----------------------------
(***************************************************************************)
(* What a browser tab shows, module Store, for every set of heights,       *)
(* rounds and validators and every capacity of the hub's channel: never    *)
(* the votes of two rounds at once, and nothing older than it has shown.   *)
(***************************************************************************)
EXTENDS Store, DashboardProofs

-----------------------------------------------------------------------------
(* The inductive invariant: IInv of the state; what is on its way has its  *)
(* types; and the rows of the tab are of one position, which is its own    *)
(* while it takes patches.                                                 *)

Messages ==
  [type : {"vote.received"}, vote : Votes]
  \cup [type : {"round.changed"}, height : Int, round : Int, step : Nat, proposer : Proposers]
  \cup [type : {"block.committed"}, height : Int]

ViewData(V) == [height : Int, round : Int, step : Nat, committed : Int, rows : [V -> Row]]

OfRound(w, V, h, r) == w \in ViewData(V) /\ \A a \in V : Current(w.rows[a], h, r)

Fixed(w) == \E V, h, r : OfRound(w, V, h, r)

Following(w) ==
  /\ \E V : OfRound(w, V, w.height, w.round)
  /\ w.height = 0 \/ w.height > w.committed

TabInv ==
  /\ IInv
  /\ pending \in [Publishers -> Seq(Messages)] /\ bus \in Seq(Messages)
  /\ Fixed(view)
  /\ feed = "dashboard" => Following(view)

-----------------------------------------------------------------------------
(* The reducer *)

(* Cleared rows are of any round.                                          *)
LEMMA ClearedRows ==
  ASSUME NEW V, NEW rows \in [V -> Row], NEW h, NEW r
  PROVE  /\ ClearVotes(rows) \in [V -> Row]
         /\ \A a \in V : Current(ClearVotes(rows)[a], h, r)
  BY EmptyRowCurrent DEF ClearVotes

(* A patch that is not outdated is of the displayed round, or begins       *)
(* another one with cleared rows.                                          *)
LEMMA MoveToOK ==
  ASSUME NEW V, NEW w \in ViewData(V), OfRound(w, V, w.height, w.round),
         NEW h \in Int, NEW r \in Int, NEW step \in Nat, ~Outdated(w, h, r)
  PROVE  LET w1 == MoveTo(w, h, r, step) IN
         /\ OfRound(w1, V, h, r)
         /\ w1.height = h /\ w1.round = r /\ w1.committed = w.committed /\ h > w.committed
  <1> DEFINE cleared == ClearVotes(w.rows)
             w2 == [w EXCEPT !.height = h, !.round = r, !.step = step, !.rows = cleared]
             w3 == [w EXCEPT !.height = h, !.round = r, !.step = Greater(w.step, step)]
  <1>0. w.height \in Int /\ w.round \in Int /\ w.step \in Nat /\ w.committed \in Int
        /\ w.rows \in [V -> Row]
    BY DEF ViewData
  <1>1. cleared \in [V -> Row] /\ \A a \in V : Current(cleared[a], h, r)
    BY <1>0, ClearedRows
  <1>2. h > w.committed
    BY <1>0 DEF Outdated
  <1> HIDE DEF cleared
  <1>3. CASE h > w.height \/ r > w.round
    <2>1. MoveTo(w, h, r, step) = w2
      BY <1>3 DEF MoveTo, cleared
    <2>2. w2 \in ViewData(V) /\ w2.rows = cleared
          /\ w2.height = h /\ w2.round = r /\ w2.committed = w.committed
      BY <1>1 DEF ViewData
    <2> HIDE DEF w2
    <2> QED BY <1>1, <1>2, <2>1, <2>2 DEF OfRound
  <1>4. CASE ~(h > w.height \/ r > w.round)
    <2>1. h = w.height /\ r = w.round
      BY <1>0, <1>4 DEF Outdated
    <2>2. MoveTo(w, h, r, step) = w3
      BY <1>4 DEF MoveTo
    <2>3. w3 \in ViewData(V) /\ w3.rows = w.rows
          /\ w3.height = h /\ w3.round = r /\ w3.committed = w.committed
      BY <1>0 DEF ViewData, Greater
    <2> HIDE DEF w3
    <2> QED BY <1>2, <2>1, <2>2, <2>3 DEF OfRound
  <1> QED BY <1>3, <1>4

(* The tab goes on with other rows of the same round.                      *)
LEMMA NewRows ==
  ASSUME NEW V, NEW w \in ViewData(V), w.height = 0 \/ w.height > w.committed,
         NEW rows \in [V -> Row], \A a \in V : Current(rows[a], w.height, w.round)
  PROVE  Following([w EXCEPT !.rows = rows])
  <1> DEFINE w1 == [w EXCEPT !.rows = rows]
  <1>1. w1 \in ViewData(V) /\ w1.rows = rows /\ w1.height = w.height /\ w1.round = w.round
        /\ w1.committed = w.committed
    BY DEF ViewData
  <1> HIDE DEF w1
  <1>2. Following(w1)
    BY <1>1 DEF Following, OfRound
  <1> QED BY <1>2 DEF w1

(* A vote joins rows of its own round.                                     *)
LEMMA VoteReceivedOK ==
  ASSUME NEW w, Following(w), NEW v \in Votes
  PROVE  Following(VoteReceived(w, v))
  <1> DEFINE step == StepOf(v.type)
             w1 == MoveTo(w, v.height, v.round, step)
             row == w1.rows[v.addr]
             row1 == [row EXCEPT !.votes[v.type] = CellOf(v)]
             rows == [w1.rows EXCEPT ![v.addr] = row1]
  <1>1. PICK V : OfRound(w, V, w.height, w.round)
    BY DEF Following
  <1>2. v.height \in Int /\ v.round \in Int /\ step \in Nat /\ v.type \in VoteTypes
    BY DashboardDomains DEF Votes, StepOf
  <1>3. CASE \/ Outdated(w, v.height, v.round) \/ v.addr \notin DOMAIN w.rows
             \/ row.votes[v.type].kind # "absent"
    BY <1>3 DEF VoteReceived
  <1>4. CASE ~(\/ Outdated(w, v.height, v.round) \/ v.addr \notin DOMAIN w.rows
               \/ row.votes[v.type].kind # "absent")
    <2>1. w \in ViewData(V) /\ DOMAIN w.rows = V
      BY <1>1 DEF OfRound, ViewData
    <2>2. OfRound(w1, V, v.height, v.round) /\ w1.height = v.height /\ w1.round = v.round
          /\ w1.committed = w.committed /\ v.height > w.committed
      BY SMTT(30), <1>1, <1>2, <1>4, <2>1, MoveToOK
    <2>3. VoteReceived(w, v) = [w1 EXCEPT !.rows[v.addr].votes[v.type] = CellOf(v)]
      BY <1>4 DEF VoteReceived
    <2> HIDE DEF w1
    <2>4. w1 \in ViewData(V) /\ w1.rows \in [V -> Row] /\ row \in Row /\ v.addr \in V
      BY <1>4, <2>1, <2>2 DEF OfRound, ViewData
    <2>5. CellOf(v) \in Cell /\ CellOf(v).at = At(v.height, v.round)
      BY <1>2 DEF CellOf, Cell, Votes, Position, At
    <2>6. row1 \in Row /\ Current(row1, v.height, v.round)
      <3>1. Current(row, v.height, v.round)
        BY <2>2, <2>4 DEF OfRound
      <3> HIDE DEF row
      <3>2. row1 \in Row /\ row1.proposer = row.proposer
            /\ \A type \in VoteTypes :
                 row1.votes[type] = IF type = v.type THEN CellOf(v) ELSE row.votes[type]
        BY <1>2, <2>4, <2>5 DEF Row
      <3> HIDE DEF row1
      <3> QED BY <2>5, <3>1, <3>2 DEF Current
    <2> HIDE DEF row1
    <2>7. rows \in [V -> Row] /\ \A a \in V : Current(rows[a], w1.height, w1.round)
      BY <2>2, <2>4, <2>6 DEF OfRound
    <2>8. VoteReceived(w, v) = [w1 EXCEPT !.rows = rows]
      BY <2>3, <2>4 DEF ViewData, rows, row1
    <2> HIDE DEF rows
    <2>9. w1.height = 0 \/ w1.height > w1.committed
      BY <2>2
    <2>10. Following([w1 EXCEPT !.rows = rows])
      BY <2>4, <2>7, <2>9, NewRows
    <2> QED BY <2>8, <2>10
  <1> QED BY <1>3, <1>4

(* The proposer is marked on rows of its own round.                        *)
LEMMA RoundChangedOK ==
  ASSUME NEW w, Following(w), NEW h \in Int, NEW r \in Int, NEW step \in Nat, NEW p, NEW e,
         e.height = h, e.round = r, e.step = step, e.proposer = p
  PROVE  Following(RoundChanged(w, e))
  <1> DEFINE w1 == MoveTo(w, h, r, step)
             flag(a) == IF a = p THEN [set |-> TRUE, at |-> At(h, r)] ELSE NotProposer
             rows == [a \in DOMAIN w1.rows |-> [w1.rows[a] EXCEPT !.proposer = flag(a)]]
  <1>1. PICK V : OfRound(w, V, w.height, w.round)
    BY DEF Following
  <1>2. CASE Outdated(w, h, r)
    BY <1>2 DEF RoundChanged
  <1>3. CASE ~Outdated(w, h, r)
    <2>1. OfRound(w1, V, h, r) /\ w1.height = h /\ w1.round = r
          /\ w1.committed = w.committed /\ h > w.committed
      BY <1>1, <1>3, MoveToOK DEF OfRound
    <2>2. RoundChanged(w, e) = [w1 EXCEPT !.rows = MarkProposer([rows |-> w1.rows], p, h, r).rows]
      BY <1>3 DEF RoundChanged
    <2> HIDE DEF w1
    <2>3. w1 \in ViewData(V) /\ w1.rows \in [V -> Row] /\ DOMAIN w1.rows = V
          /\ \A a \in V : w1.rows[a] \in Row /\ Current(w1.rows[a], h, r)
      BY <2>1 DEF OfRound, ViewData
    <2>4. CASE p = NoProposer
      <3>1. MarkProposer([rows |-> w1.rows], p, h, r).rows = w1.rows
        BY <2>4 DEF MarkProposer
      <3> QED BY <2>1, <2>2, <2>3, <3>1, NewRows
    <2>5. CASE p # NoProposer
      <3>1. MarkProposer([rows |-> w1.rows], p, h, r).rows = rows
        BY <2>5 DEF MarkProposer
      <3>2. ASSUME NEW a \in V
            PROVE  rows[a] \in Row /\ Current(rows[a], h, r)
        <4> DEFINE row == w1.rows[a]
                   f == flag(a)
                   row1 == [row EXCEPT !.proposer = f]
        <4>1. f \in Flag /\ (f.set => f.at = At(h, r))
          BY DEF Flag, NotProposer, Position, At
        <4>2. rows[a] = row1
          BY <2>3
        <4> HIDE DEF f
        <4>3. row \in Row /\ Current(row, h, r)
          BY <2>3
        <4> HIDE DEF row
        <4>4. row1 \in Row /\ row1.votes = row.votes /\ row1.proposer = f
          BY <4>1, <4>3 DEF Row
        <4> HIDE DEF row1
        <4> QED BY <4>1, <4>2, <4>3, <4>4 DEF Current
      <3>3. rows \in [V -> Row]
        BY <2>3, <3>2
      <3> HIDE DEF rows
      <3> QED BY <2>1, <2>2, <2>3, <3>1, <3>2, <3>3, NewRows
    <2> QED BY <2>4, <2>5
  <1> QED BY <1>2, <1>3

(* The shape of the display that follows a commit.                         *)
LEMMA NextView ==
  ASSUME NEW V, NEW w \in ViewData(V), NEW c \in Int, NEW h \in Int, NEW rows \in [V -> Row]
  PROVE  [w EXCEPT !.committed = c, !.height = h + 1, !.round = 0, !.step = 1, !.rows = rows]
           \in ViewData(V)
  <1>1. ASSUME NEW k \in Int, NEW r \in Int, NEW step \in Nat
        PROVE  [w EXCEPT !.committed = c, !.height = k, !.round = r, !.step = step, !.rows = rows]
                 \in ViewData(V)
    BY DEF ViewData
  <1>2. h + 1 \in Int /\ 0 \in Int /\ 1 \in Nat
    OBVIOUS
  <1> QED BY <1>1, <1>2, Zenon

(* A commit clears the rows unless the display is beyond it.               *)
LEMMA BlockCommittedOK ==
  ASSUME NEW w, Following(w), NEW h \in Int
  PROVE  Following(BlockCommitted(w, h))
  <1> DEFINE cleared == ClearVotes(w.rows)
             w1 == [w EXCEPT !.committed = h, !.height = h + 1, !.round = 0, !.step = 1,
                             !.rows = cleared]
             w2 == [w EXCEPT !.committed = h]
  <1>1. PICK V : OfRound(w, V, w.height, w.round)
    BY DEF Following
  <1>2. w \in ViewData(V) /\ w.height \in Int /\ w.rows \in [V -> Row]
    BY <1>1 DEF OfRound, ViewData
  <1>3. cleared \in [V -> Row] /\ \A a \in V : Current(cleared[a], h + 1, 0)
    BY <1>2, ClearedRows
  <1> HIDE DEF cleared
  <1>4. CASE h <= w.committed
    BY <1>4 DEF BlockCommitted
  <1>5. CASE ~(h <= w.committed) /\ w.height <= h
    <2>1. BlockCommitted(w, h) = w1
      BY <1>5 DEF BlockCommitted, cleared
    <2>2. w1 \in ViewData(V)
      BY <1>2, <1>3, NextView
    <2>3. w1.rows = cleared /\ w1.height = h + 1 /\ w1.round = 0 /\ w1.committed = h
      BY <1>2 DEF ViewData
    <2> HIDE DEF w1
    <2> QED BY <1>3, <2>1, <2>2, <2>3 DEF Following, OfRound
  <1>6. CASE ~(h <= w.committed) /\ ~(w.height <= h)
    <2>1. BlockCommitted(w, h) = w2
      BY <1>6 DEF BlockCommitted
    <2>2. w2 \in ViewData(V) /\ w2.rows = w.rows
          /\ w2.height = w.height /\ w2.round = w.round /\ w2.committed = h
      BY <1>2 DEF ViewData
    <2> HIDE DEF w2
    <2> QED BY <1>1, <1>2, <1>6, <2>1, <2>2 DEF Following, OfRound
  <1> QED BY <1>4, <1>5, <1>6

(* Whatever the patch, a tab that takes patches goes on following.         *)
LEMMA ReduceOK ==
  ASSUME NEW w, Following(w), NEW e \in Messages
  PROVE  Following(Reduce(w, e))
  <1>1. CASE e \in [type : {"vote.received"}, vote : Votes]
    BY <1>1, VoteReceivedOK DEF Reduce
  <1>2. CASE e \in [type : {"round.changed"}, height : Int, round : Int, step : Nat, proposer : Proposers]
    <2>1. e.type = "round.changed" /\ e.height \in Int /\ e.round \in Int /\ e.step \in Nat
      BY <1>2
    <2> QED BY <2>1, RoundChangedOK DEF Reduce
  <1>3. CASE e \in [type : {"block.committed"}, height : Int]
    BY <1>3, BlockCommittedOK DEF Reduce
  <1> QED BY <1>1, <1>2, <1>3 DEF Messages

(* What a following tab shows is of one round.                             *)
LEMMA FollowingFixed == ASSUME NEW w, Following(w) PROVE Fixed(w)
  BY DEF Following, Fixed

(* A snapshot of a sound state.                                            *)
LEMMA SnapshotOK ==
  ASSUME IInv
  PROVE  Following(ViewOf(s))
  <1>1. PICK V : DataOK(V, s)
    BY DEF IInv, Sound
  <1> DEFINE w == ViewOf(s)
  <1>2. /\ s.height \in Nat /\ s.round \in Nat /\ s.step \in Nat /\ s.lastCommittedHeight \in Nat
        /\ s.lastRound.rows \in [V -> Row]
        /\ \A a \in V : Current(s.lastRound.rows[a], s.height, s.round)
    BY <1>1 DEF DataOK, StateData, ViewOK, RoundView
  <1>3. /\ w \in ViewData(V) /\ w.rows = s.lastRound.rows /\ w.height = s.height
        /\ w.round = s.round /\ w.committed = s.lastCommittedHeight
    BY <1>2 DEF ViewOf, ViewData
  <1> HIDE DEF w
  <1>4. Following(w)
    BY <1>2, <1>3 DEF Following, OfRound, IInv, Sound, Active
  <1> QED BY <1>4 DEF w

-----------------------------------------------------------------------------
(* Steps *)

(* The state changes as Dashboard allows, and messages have their types.   *)
LEMMA StateChangesKeep ==
  ASSUME TabInv, StateChanges
  PROVE  TabInv'
  <1> USE DashboardDomains
  <1> DEFINE Told == \E g \in Publishers : \/ TellsNothing(g)
                                           \/ \E e \in Messages : Tells(g, e)
  <1>1. IInv' /\ (Told \/ UNCHANGED pending)
    <2>1. ASSUME NEW h \in Heights, CommitsBlock(h) PROVE IInv' /\ (Told \/ UNCHANGED pending)
      <3>1. [type |-> "block.committed", height |-> h] \in Messages
        BY DEF Messages
      <3>2. NewBlock(h)
        BY <2>1 DEF CommitsBlock
      <3>3. IInv'
        BY <3>2, NextSound DEF TabInv, Next
      <3> QED BY <2>1, <3>1, <3>3 DEF CommitsBlock, Publishers
    <2>2. ASSUME NEW h \in Heights, NEW r \in Rounds, NEW step \in Steps, FallsBack(h, r, step)
          PROVE  IInv' /\ (Told \/ UNCHANGED pending)
      <3>1. [type |-> "round.changed", height |-> h, round |-> r, step |-> step,
             proposer |-> NoProposer] \in Messages
        BY DEF Messages, Proposers
      <3>2. FallbackReply(h, r, step)
        BY <2>2 DEF FallsBack
      <3>3. IInv'
        BY <3>2, NextSound DEF TabInv, Next
      <3> QED BY <2>2, <3>1, <3>3 DEF FallsBack, Publishers
    <2>3. ASSUME NEW h \in Heights, NEW r \in Rounds, NEW step \in Steps, NEW p \in Proposers,
                 StartsRound(h, r, step, p)
          PROVE  IInv' /\ (Told \/ UNCHANGED pending)
      <3>1. [type |-> "round.changed", height |-> h, round |-> r, step |-> step,
             proposer |-> p] \in Messages
        BY DEF Messages
      <3>2. NewRound(h, r, step, p)
        BY <2>3 DEF StartsRound
      <3>3. IInv'
        BY <3>2, NextSound DEF TabInv, Next
      <3> QED BY <2>3, <3>1, <3>3 DEF StartsRound, Publishers
    <2>4. ASSUME NEW v \in Votes, TakesVote(v) PROVE IInv' /\ (Told \/ UNCHANGED pending)
      <3>1. [type |-> "vote.received", vote |-> v] \in Messages
        BY DEF Messages
      <3>2. Vote(v)
        BY <2>4 DEF TakesVote
      <3>3. IInv'
        BY <3>2, NextSound DEF TabInv, Next
      <3> QED BY <2>4, <3>1, <3>3 DEF TakesVote, Publishers
    <2>5. ASSUME NEW h \in Heights, PassesStatus(h) PROVE IInv' /\ UNCHANGED pending
      <3>1. StatusReply(h)
        BY <2>5 DEF PassesStatus
      <3> QED BY <2>5, <3>1, NextSound DEF TabInv, Next, PassesStatus
    <2>6. ASSUME NEW V \in ValidatorSets, NEW vh \in Heights, Relists(V, vh)
          PROVE  IInv' /\ UNCHANGED pending
      <3>1. ValidatorsReply(V, vh)
        BY <2>6 DEF Relists
      <3> QED BY <2>6, <3>1, NextSound DEF TabInv, Next, Relists
    <2> QED BY <2>1, <2>2, <2>3, <2>4, <2>5, <2>6 DEF StateChanges
  <1>2. pending' \in [Publishers -> Seq(Messages)]
    <2>1. ASSUME NEW g \in Publishers, NEW e \in Messages, Tells(g, e)
          PROVE  pending' \in [Publishers -> Seq(Messages)]
      <3>1. <<e>> \in Seq(Messages)
        OBVIOUS
      <3> HIDE DEF Messages
      <3> QED BY <2>1, <3>1 DEF TabInv, Tells
    <2> QED BY <1>1, <2>1 DEF TabInv, TellsNothing
  <1>3. UNCHANGED <<bus, view, feed>>
    BY DEF StateChanges
  <1> QED BY <1>1, <1>2, <1>3 DEF TabInv

(* A full channel loses events and mixes none up.                          *)
LEMMA PublishKeeps ==
  ASSUME TabInv, NEW g \in Publishers, Publish(g)
  PROVE  TabInv'
  <1>1. pending[g] \in Seq(Messages) /\ bus \in Seq(Messages) /\ <<>> \in Seq(Messages)
    BY DEF TabInv
  <1>2. pending' \in [Publishers -> Seq(Messages)]
    BY <1>1 DEF TabInv, Publish
  <1>3. bus' \in Seq(Messages)
    <2>1. bus' \in {bus \o pending[g], Tail(bus) \o pending[g], bus}
      BY DEF Publish
    <2>2. CASE bus = <<>>
      <3>1. ~(Len(bus) >= BusCap)
        BY <2>2, StoreAssumption
      <3> QED BY <1>1, <3>1, StoreAssumption, <2>2 DEF Publish
    <2>3. CASE bus # <<>>
      <3>1. Tail(bus) \in Seq(Messages)
        BY <1>1, <2>3
      <3>2. /\ bus \o pending[g] \in Seq(Messages)
            /\ Tail(bus) \o pending[g] \in Seq(Messages)
        BY <1>1, <3>1
      <3> QED BY <1>1, <2>1, <3>2
    <2> QED BY <2>2, <2>3
  <1>4. UNCHANGED <<s, view, feed>>
    BY DEF Publish
  <1> QED BY <1>2, <1>3, <1>4 DEF TabInv, IInv

(* Only a tab that takes patches changes with one.                         *)
LEMMA DispatchKeeps ==
  ASSUME TabInv, Dispatch
  PROVE  TabInv'
  <1>1. Head(bus) \in Messages /\ bus' \in Seq(Messages)
    BY DEF TabInv, Dispatch
  <1>2. UNCHANGED <<s, pending, feed>>
    BY DEF Dispatch
  <1>3. CASE feed = "dashboard"
    <2>1. Following(view')
      BY <1>1, <1>3, ReduceOK DEF TabInv, Dispatch
    <2> QED BY <1>1, <1>2, <2>1, FollowingFixed DEF TabInv, IInv
  <1>4. CASE feed # "dashboard"
    BY <1>1, <1>2, <1>4 DEF TabInv, IInv, Dispatch
  <1> QED BY <1>3, <1>4

(* A context snapshot moves the position and keeps the rows, of whatever   *)
(* position they are; patches are not taken until a baseline arrives.      *)
LEMMA ContextSnapshotKeeps ==
  ASSUME TabInv, ContextSnapshot
  PROVE  TabInv'
  <1>1. PICK V, h, r : OfRound(view, V, h, r)
    BY DEF TabInv, Fixed
  <1>2. PICK W : ViewOf(s) \in ViewData(W)
    BY SnapshotOK DEF TabInv, Following, OfRound
  <1> DEFINE snapshot == ViewOf(s)
             w == [snapshot EXCEPT !.rows = view.rows]
  <1> HIDE DEF snapshot
  <1>3. w \in ViewData(V) /\ w.rows = view.rows
    BY <1>1, <1>2 DEF OfRound, ViewData, snapshot
  <1>4. view' = w
    BY DEF ContextSnapshot, TakeContext, snapshot
  <1> HIDE DEF w
  <1>5. Fixed(view')
    BY <1>1, <1>3, <1>4 DEF OfRound, Fixed
  <1>6. feed' # "dashboard" /\ UNCHANGED <<s, pending, bus>>
    BY DEF ContextSnapshot
  <1> QED BY <1>5, <1>6 DEF TabInv, IInv

(* The tab begins without patches.                                         *)
LEMMA InitialTab == StoreInit => TabInv
  <1> SUFFICES ASSUME StoreInit PROVE TabInv
    OBVIOUS
  <1>1. IInv
    BY InitSound DEF StoreInit
  <1>2. Fixed(view) /\ feed # "dashboard"
    BY <1>1, SnapshotOK, FollowingFixed DEF StoreInit, TabInit
  <1>3. <<>> \in Seq(Messages)
    OBVIOUS
  <1> QED BY <1>1, <1>2, <1>3 DEF TabInv, StoreInit, TabInit

(* Every step of publishers, hub, tab and user keeps the invariant.        *)
LEMMA TabInvInductive == TabInv /\ [StoreNext]_<<s, storeVars>> => TabInv'
  <1> SUFFICES ASSUME TabInv, [StoreNext]_<<s, storeVars>> PROVE TabInv'
    OBVIOUS
  <1>1. CASE StateChanges
    BY <1>1, StateChangesKeep
  <1>2. ASSUME NEW g \in Publishers, Publish(g) PROVE TabInv'
    BY <1>2, PublishKeeps
  <1>3. CASE Dispatch
    BY <1>3, DispatchKeeps
  <1>4. CASE StateSnapshot
    <2>1. view' = ViewOf(s) /\ UNCHANGED <<s, pending, bus>>
      BY <1>4 DEF StateSnapshot
    <2>2. Following(view') /\ Fixed(view')
      BY <2>1, SnapshotOK, FollowingFixed DEF TabInv
    <2> QED BY <2>1, <2>2 DEF TabInv, IInv
  <1>5. CASE ContextSnapshot
    BY <1>5, ContextSnapshotKeeps
  <1>6. CASE ChangesPage
    BY <1>6 DEF ChangesPage, TabInv, IInv
  <1>7. CASE UNCHANGED <<s, storeVars>>
    BY <1>7 DEF storeVars, TabInv, IInv
  <1> QED BY <1>1, <1>2, <1>3, <1>4, <1>5, <1>6, <1>7 DEF StoreNext

-----------------------------------------------------------------------------
(* Rows that are current at one position have no other.                    *)
LEMMA OnePosition ==
  ASSUME NEW w, NEW V, NEW h, NEW r, OfRound(w, V, h, r)
  PROVE  PositionsIn(w.rows) \subseteq {At(h, r)}
  <1>1. DOMAIN w.rows = V
    BY DEF OfRound, ViewData
  <1>2. ASSUME NEW a \in V, NEW type \in VoteTypes, w.rows[a].votes[type].kind # "absent"
        PROVE  w.rows[a].votes[type].at = At(h, r)
    BY <1>2 DEF OfRound, Current
  <1>3. ASSUME NEW a \in V, w.rows[a].proposer.set
        PROVE  w.rows[a].proposer.at = At(h, r)
    BY <1>3 DEF OfRound, Current
  <1> QED BY <1>1, <1>2, <1>3 DEF PositionsIn

(* reduceEvent never joins votes of two rounds, nor a proposer of another  *)
(* one, in whatever order snapshots and the patches of two goroutines      *)
(* reach the tab and whichever of them are lost; while it takes patches    *)
(* the votes are of the round it names, and that has not committed.        *)
THEOREM StoreViewOfOneRound == StoreSpec => []ViewOfOneRound
  <1>1. TabInv => ViewOfOneRound
    <2> SUFFICES ASSUME TabInv PROVE ViewOfOneRound
      OBVIOUS
    <2>1. PICK V, h, r : OfRound(view, V, h, r)
      BY DEF TabInv, Fixed
    <2>2. PositionsIn(view.rows) \subseteq {At(h, r)}
      BY <2>1, OnePosition
    <2>3. ASSUME feed = "dashboard"
          PROVE  /\ PositionsIn(view.rows) \subseteq {At(view.height, view.round)}
                 /\ view.height = 0 \/ view.height > view.committed
      BY <2>3, OnePosition DEF TabInv, Following
    <2> QED BY <2>2, <2>3 DEF ViewOfOneRound
  <1> QED BY <1>1, InitialTab, TabInvInductive, PTL DEF StoreSpec

-----------------------------------------------------------------------------
(* The display never runs backwards *)

Place(h, r, step) == [height |-> h, round |-> r, step |-> step]
Places == [height : Int, round : Int, step : Nat]

(* Where the display is after a message, if it was not beyond.             *)
Target(e) ==
  CASE e.type = "vote.received" -> Place(e.vote.height, e.vote.round, StepOf(e.vote.type))
    [] e.type = "round.changed" -> Place(e.height, e.round, e.step)
    [] e.type = "block.committed" -> Place(e.height + 1, 0, 1)

(* State d is as far as the message says.                                  *)
Past(e, d) ==
  /\ Position2(Target(e), d)
  /\ e.type = "block.committed" => e.height <= d.lastCommittedHeight

BehindInv ==
  /\ TabInv
  /\ Position2(view, s) /\ view.committed <= s.lastCommittedHeight
  /\ \A i \in DOMAIN bus : Past(bus[i], s)
  /\ \A g \in Publishers : \A i \in DOMAIN pending[g] : Past(pending[g][i], s)

(* A message is about some place.                                          *)
LEMMA TargetPlace ==
  ASSUME NEW e \in Messages
  PROVE  Target(e) \in Places
  <1>1. CASE e \in [type : {"vote.received"}, vote : Votes]
    <2>1. e.vote.height \in Int /\ e.vote.round \in Int /\ StepOf(e.vote.type) \in Nat
      BY <1>1, DashboardDomains DEF Votes, StepOf
    <2> QED BY <1>1, <2>1 DEF Target, Place, Places
  <1>2. CASE e \in [type : {"round.changed"}, height : Int, round : Int, step : Nat, proposer : Proposers]
    <2>1. e.type = "round.changed" /\ e.height \in Int /\ e.round \in Int /\ e.step \in Nat
      BY <1>2
    <2> QED BY <2>1 DEF Target, Place, Places
  <1>3. CASE e \in [type : {"block.committed"}, height : Int]
    <2>1. e.type = "block.committed" /\ e.height + 1 \in Int
      BY <1>3
    <2> QED BY <2>1 DEF Target, Place, Places
  <1> QED BY <1>1, <1>2, <1>3 DEF Messages

(* What the state has reached it does not leave but by passing it.         *)
LEMMA ReachedStays ==
  ASSUME NEW p, p.height \in Int, p.round \in Int, p.step \in Int,
         NEW d, NEW e, Sound(d), Sound(e), Forward(d, e), Position2(p, d)
  PROVE  Position2(p, e)
  <1>1. /\ d.height \in Nat /\ d.round \in Nat /\ d.step \in Nat /\ d.lastCommittedHeight \in Nat
        /\ e.height \in Nat /\ e.round \in Nat /\ e.step \in Nat /\ e.lastCommittedHeight \in Nat
    BY DEF Sound, DataOK, StateData
  <1>2. (d.height = 0 \/ d.height > d.lastCommittedHeight) /\ (e.height = 0 \/ e.height > e.lastCommittedHeight)
    BY DEF Sound, Active
  <1> QED BY <1>1, <1>2 DEF Forward, Position2

(* So does a message that is on its way.                                   *)
LEMMA PastStays ==
  ASSUME NEW m \in Messages, NEW d, NEW e, Sound(d), Sound(e), Forward(d, e), Past(m, d)
  PROVE  Past(m, e)
  <1>1. Position2(Target(m), e)
    <2>1. Target(m).height \in Int /\ Target(m).round \in Int /\ Target(m).step \in Int
      BY TargetPlace DEF Places
    <2> QED BY <2>1, ReachedStays DEF Past
  <1>2. ASSUME m.type = "block.committed" PROVE m.height <= e.lastCommittedHeight
    <2>1. d.lastCommittedHeight \in Nat /\ e.lastCommittedHeight \in Nat
      BY DEF Sound, DataOK, StateData
    <2>2. m.height \in Int
      BY <1>2 DEF Messages
    <2> QED BY <1>2, <2>1, <2>2 DEF Past, Forward
  <1> QED BY <1>1, <1>2 DEF Past

(* advanceRound leads at least where it is sent, unless it refuses.        *)
LEMMA AdvanceRoundReaches ==
  ASSUME NEW V, NEW d, DataOK(V, d), NEW h \in Int, NEW r \in Int, NEW step \in Nat, Advances(d, h, r)
  PROVE  LET e == AdvanceRound(d, h, r, step)
         IN e.height = h /\ e.round = r /\ e.step \in Nat /\ e.step >= step
  <1>1. CASE h # d.height \/ r # d.round
    <2>1. AdvanceRound(d, h, r, step)
            = [d EXCEPT !.height = h, !.round = r, !.step = step, !.lastRound = RestartView(@, r)]
      BY <1>1 DEF AdvanceRound
    <2> QED BY <2>1 DEF DataOK, StateData
  <1>2. CASE h = d.height /\ r = d.round
    <2>1. AdvanceRound(d, h, r, step) = [d EXCEPT !.step = Greater(step, d.step)]
      BY <1>2 DEF AdvanceRound
    <2>2. d.step \in Nat /\ Greater(step, d.step) \in Nat /\ Greater(step, d.step) >= step
      BY DEF DataOK, StateData, Greater
    <2> QED BY <1>2, <2>1, <2>2 DEF DataOK, StateData
  <1> QED BY <1>1, <1>2

-----------------------------------------------------------------------------
(* What is told has happened *)

(* A commit is published once the state is beyond the block.               *)
LEMMA CommitTold ==
  ASSUME IInv, NEW h \in Heights, NewBlock(h)
  PROVE  Past([type |-> "block.committed", height |-> h], s')
  <1>1. PICK V : DataOK(V, s)
    BY DEF IInv, Sound
  <1>2. h \in Int /\ AcceptsBlock(s, h) /\ s' = CommitBlock(s, h)
    BY DashboardDomains DEF NewBlock
  <1> DEFINE d1 == [s EXCEPT !.lastCommittedHeight = Greater(h, @), !.blocks = AppendBlock(@, h)]
             e == AdvanceRound(d1, h + 1, 0, 1)
  <1>3. s.lastCommittedHeight \in Nat /\ s.blocks \in Seq(Nat) /\ h \in Nat
        /\ Greater(h, s.lastCommittedHeight) = h
    BY <1>1, <1>2 DEF DataOK, StateData, AcceptsBlock, Greater
  <1>4. AppendBlock(s.blocks, h) \in Seq(Nat)
    <2>1. Ordered(s.blocks, h)
      BY <1>2, <1>3, OrderedUp DEF IInv, Sound, AcceptsBlock
    <2> QED BY <1>3, <2>1, AppendBlockOrdered
  <1>5. DataOK(V, d1) /\ d1.lastCommittedHeight = h /\ d1.height \in Nat /\ d1.round \in Nat /\ d1.step \in Nat
    <2>1. /\ d1 \in StateData(V) /\ d1.lastRound = s.lastRound /\ d1.height = s.height
          /\ d1.round = s.round /\ d1.step = s.step /\ d1.lastCommittedHeight = h
      BY <1>1, <1>3, <1>4 DEF DataOK, StateData
    <2> HIDE DEF d1
    <2> QED BY <1>1, <2>1 DEF DataOK, StateData
  <1>6. s' = e
    BY <1>2 DEF CommitBlock
  <1> HIDE DEF d1
  <1>7. e.lastCommittedHeight = h /\ (~Advances(d1, h + 1, 0) => e = d1)
    BY <1>3, <1>5, AdvanceRoundOK
  <1>8. Position2(Place(h + 1, 0, 1), e)
    <2>1. CASE Advances(d1, h + 1, 0)
      <3>1. e.height = h + 1 /\ e.round = 0 /\ e.step \in Nat /\ e.step >= 1
        BY <1>3, <1>5, <2>1, AdvanceRoundReaches
      <3> HIDE DEF e
      <3> QED BY <3>1 DEF Position2, Place
    <2>2. CASE ~Advances(d1, h + 1, 0)
      <3>1. h + 1 < d1.height \/ (h + 1 = d1.height /\ 0 < d1.round)
        BY <1>3, <1>5, <2>2, DashboardDomains DEF Advances
      <3>2. e = d1
        BY <1>7, <2>2
      <3> QED BY <3>1, <3>2, <1>5, <1>3 DEF Position2, Place
    <2> QED BY <2>1, <2>2
  <1> HIDE DEF e
  <1> QED BY <1>3, <1>6, <1>7, <1>8 DEF Past, Target

(* A round is published once the state is in it.                           *)
LEMMA RoundTold ==
  ASSUME NEW d, Sound(d), NEW h \in Int, NEW r \in Int, NEW step \in Nat, Advances(d, h, r),
         NEW view2, NEW p
  PROVE  Past([type |-> "round.changed", height |-> h, round |-> r, step |-> step, proposer |-> p],
              [AdvanceRound(d, h, r, step) EXCEPT !.lastRound = view2])
  <1>1. PICK V : DataOK(V, d)
    BY DEF Sound
  <1> DEFINE e == AdvanceRound(d, h, r, step)
             f == [e EXCEPT !.lastRound = view2]
  <1>2. DataOK(V, e) /\ e.height = h /\ e.round = r /\ e.step \in Nat /\ e.step >= step
    BY <1>1, AdvanceRoundOK, AdvanceRoundReaches
  <1> HIDE DEF e
  <1>3. f.height = h /\ f.round = r /\ f.step = e.step
    BY <1>2 DEF DataOK, StateData
  <1> HIDE DEF f
  <1>4. Past([type |-> "round.changed", height |-> h, round |-> r, step |-> step, proposer |-> p], f)
    BY <1>2, <1>3 DEF Past, Target, Position2, Place
  <1> QED BY <1>4 DEF e, f

(* A vote is published once the state is in its round.                     *)
LEMMA VoteTold ==
  ASSUME IInv, NEW v \in Votes, AcceptsVote(s, v), Vote(v)
  PROVE  Past([type |-> "vote.received", vote |-> v], s')
  <1>1. PICK V : DataOK(V, s)
    BY DEF IInv, Sound
  <1>2. v.height \in Int /\ v.round \in Int /\ StepOf(v.type) \in Nat
    BY DashboardDomains DEF Votes, StepOf
  <1> DEFINE e == AdvanceRound(s, v.height, v.round, StepOf(v.type))
  <1>3. DataOK(V, e) /\ e.height = v.height /\ e.round = v.round /\ e.step \in Nat /\ e.step >= StepOf(v.type)
    BY <1>1, <1>2, AdvanceRoundOK, AdvanceRoundReaches DEF AcceptsVote
  <1>4. s' = e \/ \E view2 : s' = [e EXCEPT !.lastRound = view2]
    BY DEF Vote, RecordVote
  <1> HIDE DEF e
  <1>5. s'.height = v.height /\ s'.round = v.round /\ s'.step = e.step
    <2>1. CASE s' = e
      BY <1>3, <2>1
    <2>2. ASSUME NEW view2, s' = [e EXCEPT !.lastRound = view2]
          PROVE  s'.height = v.height /\ s'.round = v.round /\ s'.step = e.step
      BY <1>3, <2>2 DEF DataOK, StateData
    <2> QED BY <1>4, <2>1, <2>2
  <1> QED BY <1>2, <1>3, <1>5 DEF Past, Target, Position2, Place

-----------------------------------------------------------------------------
(* The tab follows the state *)

(* The display x comes after the display w.                                *)
Onward(w, x) ==
  /\ x.committed >= w.committed
  /\ \/ x.height > w.height
     \/ x.height = w.height /\ x.round > w.round
     \/ x.height = w.height /\ x.round = w.round /\ x.step >= w.step
     \/ x.height = 0 /\ x.committed >= w.height

Behind(w, d) == Position2(w, d) /\ w.committed <= d.lastCommittedHeight

(* The display goes on to another one that is at the same place.           *)
LEMMA SamePlaceOnward ==
  ASSUME NEW V, NEW w \in ViewData(V), NEW x, x.height = w.height, x.round = w.round, x.step = w.step,
         x.committed = w.committed
  PROVE  Onward(w, x) /\ \A d : Behind(w, d) => Behind(x, d)
  <1>1. w.height \in Int /\ w.round \in Int /\ w.step \in Nat /\ w.committed \in Int
    BY DEF ViewData
  <1> QED BY <1>1 DEF Onward, Behind, Position2

(* A patch that is not outdated moves the display on, and not beyond.      *)
LEMMA MoveToOnward ==
  ASSUME NEW V, NEW w \in ViewData(V), NEW h \in Int, NEW r \in Int, NEW step \in Nat, ~Outdated(w, h, r)
  PROVE  LET w1 == MoveTo(w, h, r, step) IN
         /\ Onward(w, w1)
         /\ \A d : Behind(w, d) /\ Position2(Place(h, r, step), d) => Behind(w1, d)
  <1>0. w.height \in Int /\ w.round \in Int /\ w.step \in Nat /\ w.committed \in Int
    BY DEF ViewData
  <1>1. PICK x : x = MoveTo(w, h, r, step)
    OBVIOUS
  <1>2. CASE h > w.height \/ r > w.round
    <2>1. x = [w EXCEPT !.height = h, !.round = r, !.step = step, !.rows = ClearVotes(w.rows)]
      BY <1>1, <1>2 DEF MoveTo
    <2>2. x.height = h /\ x.round = r /\ x.step = step /\ x.committed = w.committed
      BY <2>1 DEF ViewData
    <2>3. h > w.height \/ (h = w.height /\ r > w.round)
      BY <1>0, <1>2 DEF Outdated
    <2> QED BY <1>0, <1>1, <2>2, <2>3 DEF Onward, Behind, Position2, Place
  <1>3. CASE ~(h > w.height \/ r > w.round)
    <2>1. h = w.height /\ r = w.round
      BY <1>0, <1>3 DEF Outdated
    <2>2. x = [w EXCEPT !.height = h, !.round = r, !.step = Greater(w.step, step)]
      BY <1>1, <1>3 DEF MoveTo
    <2>3. x.height = h /\ x.round = r /\ x.committed = w.committed /\ x.step \in {w.step, step}
          /\ x.step >= w.step
      BY <1>0, <2>2 DEF ViewData, Greater
    <2> QED BY <1>0, <1>1, <2>1, <2>3 DEF Onward, Behind, Position2, Place
  <1> QED BY <1>2, <1>3

(* Other rows do not move the display.                                     *)
LEMMA RowsOnward ==
  ASSUME NEW V, NEW w, NEW w1 \in ViewData(V), NEW rows, NEW d, Onward(w, w1), Behind(w1, d)
  PROVE  Onward(w, [w1 EXCEPT !.rows = rows]) /\ Behind([w1 EXCEPT !.rows = rows], d)
  <1>1. PICK x : x = [w1 EXCEPT !.rows = rows]
    OBVIOUS
  <1>2. x.height = w1.height /\ x.round = w1.round /\ x.step = w1.step /\ x.committed = w1.committed
    BY <1>1 DEF ViewData
  <1> QED BY <1>1, <1>2 DEF Onward, Behind, Position2

(* Whatever the patch, if the state has been there.                        *)
LEMMA ReduceOnward ==
  ASSUME NEW w, Following(w), NEW e \in Messages, NEW d, Past(e, d), Behind(w, d)
  PROVE  Onward(w, Reduce(w, e)) /\ Behind(Reduce(w, e), d)
  <1>1. PICK V : OfRound(w, V, w.height, w.round)
    BY DEF Following
  <1>2. w \in ViewData(V) /\ w.height \in Int /\ w.round \in Int /\ w.step \in Nat /\ w.committed \in Int
    BY <1>1 DEF OfRound, ViewData
  <1>3. Onward(w, w)
    BY <1>2, SamePlaceOnward
  <1>4. CASE e \in [type : {"vote.received"}, vote : Votes]
    <2>1. PICK v \in Votes : v = e.vote
      BY <1>4
    <2>2. v.height \in Int /\ v.round \in Int /\ StepOf(v.type) \in Nat
      BY DashboardDomains DEF Votes, StepOf
    <2>3. PICK w1 : w1 = MoveTo(w, v.height, v.round, StepOf(v.type))
      OBVIOUS
    <2>4. e.type = "vote.received" /\ Reduce(w, e) = VoteReceived(w, v)
      BY <1>4, <2>1 DEF Reduce
    <2>5. CASE VoteReceived(w, v) = w
      BY <1>3, <2>4, <2>5
    <2>6. CASE VoteReceived(w, v) # w
      <3>1. ~Outdated(w, v.height, v.round)
            /\ VoteReceived(w, v) = [w1 EXCEPT !.rows[v.addr].votes[v.type] = CellOf(v)]
        BY <2>3, <2>6 DEF VoteReceived
      <3>2. \E rows : VoteReceived(w, v) = [w1 EXCEPT !.rows = rows]
        BY <3>1
      <3>3. w1 \in ViewData(V)
        BY <1>1, <1>2, <2>2, <2>3, <3>1, MoveToOK DEF OfRound
      <3>4. Position2(Place(v.height, v.round, StepOf(v.type)), d)
        BY <2>1, <2>4 DEF Past, Target
      <3>5. Onward(w, w1) /\ Behind(w1, d)
        BY <1>2, <2>2, <2>3, <3>1, <3>4, MoveToOnward
      <3> QED BY <2>4, <3>2, <3>3, <3>5, RowsOnward
    <2> QED BY <2>5, <2>6
  <1>5. CASE e \in [type : {"round.changed"}, height : Int, round : Int, step : Nat, proposer : Proposers]
    <2>1. e.type = "round.changed" /\ e.height \in Int /\ e.round \in Int /\ e.step \in Nat
          /\ Reduce(w, e) = RoundChanged(w, e)
      BY <1>5 DEF Reduce
    <2>2. PICK w1 : w1 = MoveTo(w, e.height, e.round, e.step)
      OBVIOUS
    <2>3. CASE Outdated(w, e.height, e.round)
      BY <1>3, <2>1, <2>3 DEF RoundChanged
    <2>4. CASE ~Outdated(w, e.height, e.round)
      <3>1. \E rows : RoundChanged(w, e) = [w1 EXCEPT !.rows = rows]
        BY <2>2, <2>4 DEF RoundChanged
      <3>2. w1 \in ViewData(V)
        BY <1>1, <1>2, <2>1, <2>2, <2>4, MoveToOK DEF OfRound
      <3>3. Position2(Place(e.height, e.round, e.step), d)
        BY <2>1 DEF Past, Target
      <3>4. Onward(w, w1) /\ Behind(w1, d)
        BY <1>2, <2>1, <2>2, <2>4, <3>3, MoveToOnward
      <3> QED BY <2>1, <3>1, <3>2, <3>4, RowsOnward
    <2> QED BY <2>3, <2>4
  <1>6. CASE e \in [type : {"block.committed"}, height : Int]
    <2>1. PICK h \in Int : h = e.height
      BY <1>6
    <2>2. e.type = "block.committed" /\ Reduce(w, e) = BlockCommitted(w, h)
      BY <1>6, <2>1 DEF Reduce
    <2>3. h <= d.lastCommittedHeight /\ Position2(Place(h + 1, 0, 1), d)
      BY <2>1, <2>2 DEF Past, Target
    <2>4. PICK x : x = BlockCommitted(w, h)
      OBVIOUS
    <2>5. CASE h <= w.committed
      BY <1>3, <2>2, <2>5 DEF BlockCommitted
    <2>6. CASE ~(h <= w.committed) /\ w.height <= h
      <3>1. x = [w EXCEPT !.committed = h, !.height = h + 1, !.round = 0, !.step = 1,
                          !.rows = ClearVotes(w.rows)]
        BY <2>4, <2>6 DEF BlockCommitted
      <3>2. x.committed = h /\ x.height = h + 1 /\ x.round = 0 /\ x.step = 1
        BY <3>1 DEF ViewData
      <3>3. h + 1 > w.height /\ h >= w.committed
        BY <1>2, <2>6
      <3> QED BY <2>2, <2>3, <2>4, <3>2, <3>3 DEF Onward, Behind, Position2, Place
    <2>7. CASE ~(h <= w.committed) /\ ~(w.height <= h)
      <3>1. x = [w EXCEPT !.committed = h]
        BY <2>4, <2>7 DEF BlockCommitted
      <3>2. x.committed = h /\ x.height = w.height /\ x.round = w.round /\ x.step = w.step
        BY <3>1 DEF ViewData
      <3> QED BY <1>2, <2>2, <2>3, <2>4, <2>7, <3>2 DEF Onward, Behind, Position2
    <2> QED BY <2>5, <2>6, <2>7
  <1> QED BY <1>4, <1>5, <1>6 DEF Messages

(* A snapshot shows where the state is.                                    *)
LEMMA SnapshotOnward ==
  ASSUME NEW w, NEW x, NEW d, Sound(d), Behind(w, d),
         x.height = d.height, x.round = d.round, x.step = d.step, x.committed = d.lastCommittedHeight,
         w.committed \in Int
  PROVE  Onward(w, x) /\ Behind(x, d)
  <1>1. d.height \in Nat /\ d.round \in Nat /\ d.step \in Nat /\ d.lastCommittedHeight \in Nat
    BY DEF Sound, DataOK, StateData
  <1> QED BY <1>1 DEF Onward, Behind, Position2

-----------------------------------------------------------------------------
(* Steps *)

OnItsWay(d) ==
  /\ \A i \in DOMAIN bus : Past(bus[i], d)
  /\ \A g \in Publishers : \A i \in DOMAIN pending[g] : Past(pending[g][i], d)

(* A change of the state moves it on, and what it tells has happened.      *)
LEMMA StateChangesOnward ==
  ASSUME BehindInv, TabInv', StateChanges
  PROVE  Forward(s, s') /\ OnItsWay(s)'
  <1> USE DashboardDomains
  <1>1. /\ Forward(s, s')
        /\ \/ UNCHANGED pending
           \/ \E g \in Publishers : TellsNothing(g) \/ \E e : Tells(g, e) /\ Past(e, s')
    <2> DEFINE Told == \E g \in Publishers : TellsNothing(g) \/ \E e : Tells(g, e) /\ Past(e, s')
    <2>0. IInv
      BY DEF BehindInv, TabInv
    <2>1. ASSUME NEW h \in Heights, CommitsBlock(h) PROVE Forward(s, s') /\ Told
      <3>1. NewBlock(h) /\ Tells("loop", [type |-> "block.committed", height |-> h])
        BY <2>1 DEF CommitsBlock
      <3>2. Forward(s, s')
        BY <2>0, <3>1, NextForward DEF Next
      <3> QED BY <2>0, <3>1, <3>2, CommitTold DEF Publishers
    <2>2. ASSUME NEW h \in Heights, NEW r \in Rounds, NEW step \in Steps, FallsBack(h, r, step)
          PROVE  Forward(s, s') /\ Told
      <3>1. FallbackReply(h, r, step)
        BY <2>2 DEF FallsBack
      <3>2. Forward(s, s')
        BY <2>0, <3>1, NextForward DEF Next
      <3>3. CASE AcceptsFallback(s, h, r)
        <4>1. PICK e : e = [type |-> "round.changed", height |-> h, round |-> r, step |-> step,
                            proposer |-> NoProposer]
          OBVIOUS
        <4>2. Tells("fallback", e)
          BY <2>2, <3>3, <4>1 DEF FallsBack
        <4>3. PICK d : d = RecordHTTPSuccess(s)
          OBVIOUS
        <4>4. d.height = s.height /\ d.round = s.round /\ d.lastCommittedHeight = s.lastCommittedHeight
          BY <2>0, <4>3, HTTPSuccessSamePlace DEF IInv, Sound, SamePlace
        <4>5. Advances(d, h, r) /\ Sound(d)
          BY <2>0, <3>3, <4>3, <4>4, HTTPSuccessSound DEF AcceptsFallback, Advances, IInv
        <4>6. s' = [AdvanceRound(d, h, r, step) EXCEPT !.lastRound = ClearRoundVotes(@)]
          BY <3>1, <3>3, <4>3 DEF FallbackReply, ApplyFallback, AcceptsFallback
        <4>7. Past(e, s')
          BY <4>1, <4>5, <4>6, RoundTold
        <4> QED BY <3>2, <4>2, <4>7 DEF Publishers
      <3>4. CASE ~AcceptsFallback(s, h, r)
        BY <2>2, <3>2, <3>4 DEF FallsBack, Publishers
      <3> QED BY <3>3, <3>4
    <2>3. ASSUME NEW h \in Heights, NEW r \in Rounds, NEW step \in Steps, NEW p \in Proposers,
                 StartsRound(h, r, step, p)
          PROVE  Forward(s, s') /\ Told
      <3>1. PICK e : e = [type |-> "round.changed", height |-> h, round |-> r, step |-> step, proposer |-> p]
        OBVIOUS
      <3>2. NewRound(h, r, step, p) /\ Tells("loop", e)
        BY <2>3, <3>1 DEF StartsRound
      <3>3. Forward(s, s')
        BY <2>0, <3>2, NextForward DEF Next
      <3>4. /\ Advances(s, h, r) /\ h \in Int /\ r \in Int /\ step \in Nat
            /\ s' = [AdvanceRound(s, h, r, step) EXCEPT !.lastRound = MarkProposer(@, p, h, r)]
        BY <3>2 DEF NewRound, StartRound
      <3>5. Past(e, s')
        BY <2>0, <3>1, <3>4, RoundTold DEF IInv
      <3> QED BY <3>2, <3>3, <3>5 DEF Publishers
    <2>4. ASSUME NEW v \in Votes, TakesVote(v) PROVE Forward(s, s') /\ Told
      <3>1. Vote(v)
        BY <2>4 DEF TakesVote
      <3>2. Forward(s, s')
        BY <2>0, <3>1, NextForward DEF Next
      <3>3. CASE AcceptsVote(s, v)
        <4>1. Tells("loop", [type |-> "vote.received", vote |-> v])
          BY <2>4, <3>3 DEF TakesVote
        <4> QED BY <2>0, <3>1, <3>2, <3>3, <4>1, VoteTold DEF Publishers
      <3>4. CASE ~AcceptsVote(s, v)
        BY <2>4, <3>2, <3>4 DEF TakesVote, Publishers
      <3> QED BY <3>3, <3>4
    <2>5. ASSUME NEW h \in Heights, PassesStatus(h) PROVE Forward(s, s') /\ UNCHANGED pending
      <3>1. StatusReply(h)
        BY <2>5 DEF PassesStatus
      <3> QED BY <2>0, <2>5, <3>1, NextForward DEF Next, PassesStatus
    <2>6. ASSUME NEW V \in ValidatorSets, NEW vh \in Heights, Relists(V, vh)
          PROVE  Forward(s, s') /\ UNCHANGED pending
      <3>1. ValidatorsReply(V, vh)
        BY <2>6 DEF Relists
      <3> QED BY <2>0, <2>6, <3>1, NextForward DEF Next, Relists
    <2> QED BY <2>1, <2>2, <2>3, <2>4, <2>5, <2>6 DEF StateChanges
  <1>2. /\ Sound(s) /\ Sound(s') /\ bus' = bus /\ bus \in Seq(Messages)
        /\ pending \in [Publishers -> Seq(Messages)]
    BY DEF BehindInv, TabInv, IInv, StateChanges
  <1>3. \A m \in Messages : Past(m, s) => Past(m, s')
    BY <1>1, <1>2, PastStays
  <1>4. \A i \in DOMAIN bus' : Past(bus'[i], s')
    BY <1>2, <1>3 DEF BehindInv
  <1>5. \A g \in Publishers : \A i \in DOMAIN pending[g] : Past(pending[g][i], s')
    BY <1>2, <1>3 DEF BehindInv
  <1>6. \A g \in Publishers : \A i \in DOMAIN pending'[g] : Past(pending'[g][i], s')
    <2>1. CASE pending' = pending
      BY <1>5, <2>1
    <2>2. ASSUME NEW g \in Publishers, NEW e, Tells(g, e), Past(e, s')
          PROVE  \A k \in Publishers : \A i \in DOMAIN pending'[k] : Past(pending'[k][i], s')
      <3> SUFFICES ASSUME NEW k \in Publishers, NEW i \in DOMAIN pending'[k] PROVE Past(pending'[k][i], s')
        OBVIOUS
      <3>1. CASE k = g
        <4>1. pending'[k] = <<e>>
          BY <1>2, <2>2, <3>1 DEF Tells
        <4>2. i = 1 /\ pending'[k][i] = e
          BY <4>1
        <4> QED BY <2>2, <4>2
      <3>2. CASE k # g
        <4>1. pending'[k] = pending[k]
          BY <1>2, <2>2, <3>2 DEF Tells
        <4> QED BY <1>5, <4>1
      <3> QED BY <3>1, <3>2
    <2> QED BY <1>1, <2>1, <2>2 DEF TellsNothing
  <1> QED BY <1>1, <1>4, <1>6 DEF OnItsWay

(* A message on the bus was pending.                                       *)
LEMMA PublishOnward ==
  ASSUME BehindInv, NEW g \in Publishers, Publish(g)
  PROVE  OnItsWay(s)'
  <1>1. /\ pending \in [Publishers -> Seq(Messages)] /\ bus \in Seq(Messages) /\ s' = s
        /\ pending[g] \in Seq(Messages)
    BY DEF BehindInv, TabInv, Publish
  <1>2. \A k \in Publishers : pending'[k] = IF k = g THEN <<>> ELSE pending[k]
    BY <1>1 DEF Publish
  <1>3. \A k \in Publishers : \A i \in DOMAIN pending'[k] : Past(pending'[k][i], s)
    BY <1>2 DEF BehindInv
  <1>4. PICK p \in Seq(Messages) : p = pending[g]
    BY <1>1
  <1>5. ASSUME NEW q \in Seq(Messages), \A i \in DOMAIN q : Past(q[i], s)
        PROVE  \A i \in DOMAIN (q \o p) : Past((q \o p)[i], s)
    <2>1. \A i \in DOMAIN p : Past(p[i], s)
      BY <1>4 DEF BehindInv
    <2> SUFFICES ASSUME NEW i \in DOMAIN (q \o p) PROVE Past((q \o p)[i], s)
      OBVIOUS
    <2>2. \/ i \in DOMAIN q /\ (q \o p)[i] = q[i]
          \/ i - Len(q) \in DOMAIN p /\ (q \o p)[i] = p[i - Len(q)]
      OBVIOUS
    <2> QED BY <1>5, <2>1, <2>2
  <1>6. bus = <<>> \/ (Tail(bus) \in Seq(Messages) /\ \A i \in DOMAIN Tail(bus) : Past(Tail(bus)[i], s))
    <2> SUFFICES ASSUME bus # <<>>
                 PROVE  Tail(bus) \in Seq(Messages) /\ \A i \in DOMAIN Tail(bus) : Past(Tail(bus)[i], s)
      OBVIOUS
    <2>1. \A i \in DOMAIN Tail(bus) : i + 1 \in DOMAIN bus /\ Tail(bus)[i] = bus[i + 1]
      BY <1>1
    <2> QED BY <1>1, <2>1 DEF BehindInv
  <1>7. bus' = bus \o p \/ (bus # <<>> /\ bus' = Tail(bus) \o p) \/ bus' = bus
    BY <1>1, <1>4, StoreAssumption DEF Publish
  <1>8. \A i \in DOMAIN bus' : Past(bus'[i], s)
    <2>1. CASE bus' = bus \o p
      BY <1>1, <1>5, <2>1 DEF BehindInv
    <2>2. CASE bus # <<>> /\ bus' = Tail(bus) \o p
      BY <1>5, <1>6, <2>2
    <2>3. CASE bus' = bus
      BY <2>3 DEF BehindInv
    <2> QED BY <1>7, <2>1, <2>2, <2>3
  <1> QED BY <1>1, <1>3, <1>8 DEF OnItsWay

(* Every step keeps the tab behind the state, and moves it on.             *)
LEMMA BehindInvInductive ==
  ASSUME BehindInv, [StoreNext]_<<s, storeVars>>
  PROVE  BehindInv' /\ (view' # view => Onward(view, view'))
  <1>1. TabInv'
    BY TabInvInductive DEF BehindInv
  <1>2. SUFFICES OnItsWay(s)' /\ Behind(view, s)' /\ (view' # view => Onward(view, view'))
    BY <1>1 DEF BehindInv, OnItsWay, Behind
  <1>3. Sound(s) /\ Sound(s') /\ Behind(view, s) /\ OnItsWay(s)
    BY <1>1 DEF BehindInv, TabInv, IInv, OnItsWay, Behind
  <1>4. PICK V : view \in ViewData(V)
    BY DEF BehindInv, TabInv, Fixed, OfRound
  <1>5. view.height \in Int /\ view.round \in Int /\ view.step \in Int /\ view.committed \in Int
    BY <1>4 DEF ViewData
  <1>6. CASE StateChanges
    <2>1. view' = view /\ Forward(s, s') /\ OnItsWay(s)'
      BY <1>1, <1>6, StateChangesOnward DEF StateChanges
    <2>2. Position2(view, s')
      BY <1>3, <1>5, <2>1, ReachedStays DEF Behind
    <2>3. view.committed <= s'.lastCommittedHeight
      <3>1. s.lastCommittedHeight \in Nat /\ s'.lastCommittedHeight \in Nat
        BY <1>3 DEF Sound, DataOK, StateData
      <3> QED BY <1>3, <1>5, <2>1, <3>1 DEF Behind, Forward
    <2> QED BY <2>1, <2>2, <2>3 DEF Behind
  <1>7. ASSUME NEW g \in Publishers, Publish(g)
        PROVE  OnItsWay(s)' /\ Behind(view, s)' /\ (view' # view => Onward(view, view'))
    <2>1. view' = view /\ s' = s
      BY <1>7 DEF Publish
    <2> QED BY <1>3, <1>7, <2>1, PublishOnward DEF Behind
  <1>8. CASE Dispatch
    <2>1. /\ bus # <<>> /\ bus \in Seq(Messages) /\ bus' = Tail(bus) /\ s' = s /\ pending' = pending
          /\ view' = IF feed = "dashboard" THEN Reduce(view, Head(bus)) ELSE view
      BY <1>8 DEF Dispatch, BehindInv, TabInv
    <2>2. OnItsWay(s)'
      <3>1. \A i \in DOMAIN Tail(bus) : i + 1 \in DOMAIN bus /\ Tail(bus)[i] = bus[i + 1]
        BY <2>1
      <3> QED BY <1>3, <2>1, <3>1 DEF OnItsWay
    <2>3. PICK e \in Messages : e = Head(bus) /\ Past(e, s)
      <3>1. Head(bus) = bus[1] /\ 1 \in DOMAIN bus /\ bus[1] \in Messages
        BY <2>1
      <3> QED BY <1>3, <3>1 DEF OnItsWay
    <2>4. CASE feed = "dashboard"
      <3>1. Following(view)
        BY <2>4 DEF BehindInv, TabInv
      <3> QED BY <1>3, <2>1, <2>2, <2>3, <2>4, <3>1, ReduceOnward DEF Behind
    <2>5. CASE feed # "dashboard"
      BY <1>3, <2>1, <2>2, <2>5 DEF Behind
    <2> QED BY <2>4, <2>5
  <1>9. CASE StateSnapshot \/ ContextSnapshot
    <2>1. s' = s /\ bus' = bus /\ pending' = pending
      BY <1>9 DEF StateSnapshot, ContextSnapshot
    <2>2. /\ view'.height = s.height /\ view'.round = s.round /\ view'.step = s.step
          /\ view'.committed = s.lastCommittedHeight
      BY <1>9 DEF StateSnapshot, ContextSnapshot, TakeContext, ViewOf
    <2>3. Onward(view, view') /\ Behind(view', s)
      BY <1>3, <1>5, <2>2, SnapshotOnward
    <2> QED BY <1>3, <2>1, <2>3 DEF Behind, OnItsWay
  <1>10. CASE ChangesPage \/ UNCHANGED <<s, storeVars>>
    BY <1>3, <1>10 DEF ChangesPage, storeVars, Behind, OnItsWay
  <1> QED BY <1>6, <1>7, <1>8, <1>9, <1>10 DEF StoreNext

(* The display never runs backwards: neither a snapshot that overtakes a   *)
(* patch nor a patch that follows a snapshot brings back a height, a round *)
(* or a step, or takes back a commit.                                      *)
THEOREM StoreNeverBackwards == StoreSpec => ViewNeverBackwards
  <1>1. StoreInit => BehindInv
    <2> SUFFICES ASSUME StoreInit PROVE BehindInv
      OBVIOUS
    <2>1. TabInv
      BY InitialTab
    <2>2. /\ view.height = s.height /\ view.round = s.round /\ view.step = s.step
          /\ view.committed = s.lastCommittedHeight
      BY DEF StoreInit, TabInit, ViewOf
    <2>3. s.step \in Nat /\ s.lastCommittedHeight \in Nat
      BY <2>1 DEF TabInv, IInv, Sound, DataOK, StateData
    <2>4. bus = <<>> /\ \A g \in Publishers : pending[g] = <<>>
      BY DEF StoreInit, TabInit
    <2> QED BY <2>1, <2>2, <2>3, <2>4 DEF BehindInv, Position2
  <1>2. BehindInv /\ [StoreNext]_<<s, storeVars>> => BehindInv'
    BY BehindInvInductive
  <1>3. BehindInv /\ [StoreNext]_<<s, storeVars>>
          => [/\ view'.committed >= view.committed
              /\ \/ view'.height > view.height
                 \/ view'.height = view.height /\ view'.round > view.round
                 \/ view'.height = view.height /\ view'.round = view.round /\ view'.step >= view.step
                 \/ view'.height = 0 /\ view'.committed >= view.height]_view
    BY BehindInvInductive DEF Onward
  <1> QED BY <1>1, <1>2, <1>3, PTL DEF StoreSpec, ViewNeverBackwards

-----------------------------------------------------------------------------
(* Collector and browser agree *)

(* w is at the place of t or before it.                                    *)
Upto(w, t) ==
  \/ w.height < t.height
  \/ w.height = t.height /\ w.round < t.round
  \/ w.height = t.height /\ w.round = t.round /\ w.step <= t.step

There(w, t) == w.height = t.height /\ w.round = t.round

(* A display has a step once it has a height, and shows no vote of a later *)
(* step.                                                                   *)
Neat(V, x) ==
  /\ x \in ViewData(V) /\ x.height >= 0 /\ x.round >= 0 /\ (x.height > 0 => x.step >= 1)
  /\ x.committed >= 0 /\ (x.height = 0 \/ x.height > x.committed)
  /\ \A a \in V, type \in VoteTypes :
       LET c == x.rows[a].votes[type]
       IN IF c.kind = "absent" THEN c = AbsentVote ELSE x.step >= StepOf(type)

IsVote(m, t) == m.type = "vote.received" /\ There(Target(m), t)
Marks(m, t) == m.type = "round.changed" /\ m.proposer # NoProposer /\ There(Target(m), t)
Leads(V, m, t) ==
  Target(m) = Place(t.height, t.round, t.step) /\ (m.type = "vote.received" => m.vote.addr \in V)

Flagged(V, t, p) ==
  \A a \in V : t.rows[a].proposer = IF a = p THEN [set |-> TRUE, at |-> At(t.height, t.round)] ELSE NotProposer

(* What is on its way tells of t or of what t has been.                    *)
SentOK(V, t, m) ==
  /\ m \in Messages /\ Target(m).height > 0 /\ Target(m).round >= 0 /\ Target(m).step >= 1
  /\ Upto(Target(m), t) /\ (m.type = "block.committed" => m.height <= t.committed)
  /\ IsVote(m, t) /\ m.vote.addr \in V => t.rows[m.vote.addr].votes[m.vote.type] = CellOf(m.vote)

(* The rows of w as far as they are of the place of t.                     *)
Carried(w, t) == IF There(w, t) THEN w.rows ELSE ClearVotes(w.rows)

(* What w lacks of t is in F.                                              *)
Aligned(V, w, t, F) ==
  /\ Neat(V, w) /\ Upto(w, t) /\ w.committed <= t.committed
  /\ w.height = 0 => \A m \in F : m.type = "block.committed" => m.height > w.committed
  /\ (\A m \in F : ~Leads(V, m, t)) => There(w, t) /\ w.step = t.step
  /\ (\A m \in F : m.type = "block.committed" => m.height # t.committed) => w.committed = t.committed
  /\ \A a \in V, type \in VoteTypes :
       \/ Carried(w, t)[a].votes[type] = t.rows[a].votes[type]
       \/ /\ Carried(w, t)[a].votes[type] = AbsentVote
          /\ \E m \in F : IsVote(m, t) /\ m.vote.addr = a /\ m.vote.type = type
  /\ (\A m \in F : ~Marks(m, t)) => \A a \in V : Carried(w, t)[a].proposer = t.rows[a].proposer

OnBus == {bus[i] : i \in DOMAIN bus}
Waiting(g) == {pending[g][i] : i \in DOMAIN pending[g]}
InFlight == OnBus \cup Waiting("loop") \cup Waiting("fallback")

(* The last proposer that is on its way is the one that t shows.           *)
LastMark(V, t) ==
  /\ \A m \in Waiting("loop") : Marks(m, t) => Flagged(V, t, m.proposer)
  /\ \A i \in DOMAIN bus :
       /\ Marks(bus[i], t) /\ (\A j \in DOMAIN bus : j > i => ~Marks(bus[j], t))
       /\ \A m \in Waiting("loop") : ~Marks(m, t)
       => Flagged(V, t, bus[i].proposer)

Rows == DOMAIN s.lastRound.rows

(* What is on its way, seen from the display t of the state.               *)
OnTheWay(V, t) ==
  /\ InFlight # {} => t.height > 0
  /\ \A m \in InFlight : SentOK(V, t, m)
  /\ LastMark(V, t)
  /\ feed = "dashboard" => Aligned(V, view, t, InFlight)

AgreeInv ==
  /\ TabInv
  /\ \A g \in Publishers : Len(pending[g]) <= 1
  /\ \A m \in Waiting("fallback") : m.type = "round.changed" /\ m.proposer = NoProposer
  /\ Neat(Rows, ViewOf(s))
  /\ ~missed => OnTheWay(Rows, ViewOf(s))

-----------------------------------------------------------------------------
(* What a patch does *)

(* x is at place q, with what it had if w was there.                       *)
Seated(V, w, q, x) ==
  /\ x \in ViewData(V) /\ x.height = q.height /\ x.round = q.round /\ x.committed = w.committed
  /\ x.step = IF There(w, q) THEN Greater(w.step, q.step) ELSE q.step

(* The parts of a display.                                                 *)
LEMMA ViewParts ==
  ASSUME NEW V, NEW w \in ViewData(V)
  PROVE  /\ w.height \in Int /\ w.round \in Int /\ w.step \in Nat /\ w.committed \in Int
         /\ w.rows \in [V -> Row] /\ DOMAIN w.rows = V
         /\ ClearVotes(w.rows) = [a \in V |-> EmptyRow] /\ [a \in V |-> EmptyRow] \in [V -> Row]
  <1>1. EmptyRow \in Row
    BY EmptyRowCurrent
  <1> QED BY <1>1 DEF ViewData, ClearVotes

(* Rows that show nothing.                                                 *)
LEMMA EmptyRows ==
  ASSUME NEW V, NEW w \in ViewData(V)
  PROVE  \E rows \in [V -> Row] : rows = [a \in V |-> EmptyRow] /\ ClearVotes(w.rows) = rows
  <1>1. EmptyRow \in Row
    BY EmptyRowCurrent
  <1>2. DOMAIN w.rows = V
    BY DEF ViewData
  <1> QED BY <1>1, <1>2 DEF ClearVotes

(* Carried rows are the rows or empty ones.                                *)
LEMMA CarriedRows ==
  ASSUME NEW V, NEW w \in ViewData(V), NEW t
  PROVE  /\ Carried(w, t) \in [V -> Row]
         /\ There(w, t) => Carried(w, t) = w.rows
         /\ ~There(w, t) => Carried(w, t) = [a \in V |-> EmptyRow]
  BY ViewParts DEF Carried

(* Where a patch that is not outdated leads.                               *)
LEMMA MoveToIs ==
  ASSUME NEW V, NEW w \in ViewData(V), NEW h \in Int, NEW r \in Int, NEW step \in Nat, ~Outdated(w, h, r)
  PROVE  LET w1 == MoveTo(w, h, r, step)  q == Place(h, r, step)
         IN Seated(V, w, q, w1) /\ w1.rows = Carried(w, q)
  <1>0. /\ w.height \in Int /\ w.round \in Int /\ w.step \in Nat /\ w.committed \in Int
        /\ w.rows \in [V -> Row]
    BY ViewParts
  <1>1. PICK q : q = Place(h, r, step)
    OBVIOUS
  <1>2. q.height = h /\ q.round = r /\ q.step = step
    BY <1>1 DEF Place
  <1>3. PICK x : x = MoveTo(w, h, r, step)
    OBVIOUS
  <1>4. CASE h > w.height \/ r > w.round
    <2>1. PICK rows \in [V -> Row] : rows = ClearVotes(w.rows)
      BY EmptyRows
    <2>2. x = [w EXCEPT !.height = h, !.round = r, !.step = step, !.rows = rows]
      BY <1>3, <1>4, <2>1 DEF MoveTo
    <2>3. /\ x \in ViewData(V) /\ x.height = h /\ x.round = r /\ x.step = step /\ x.committed = w.committed
          /\ x.rows = rows
      BY <2>2 DEF ViewData
    <2>4. ~There(w, q)
      BY <1>0, <1>2, <1>4 DEF There
    <2> QED BY <1>1, <1>2, <1>3, <2>1, <2>3, <2>4 DEF Seated, Carried
  <1>5. CASE ~(h > w.height \/ r > w.round)
    <2>1. h = w.height /\ r = w.round
      BY <1>0, <1>5 DEF Outdated
    <2>2. PICK st : st = Greater(w.step, step)
      OBVIOUS
    <2>3. x = [w EXCEPT !.height = h, !.round = r, !.step = st]
      BY <1>3, <1>5, <2>2 DEF MoveTo
    <2>4. st \in Nat
      BY <1>0, <2>2 DEF Greater
    <2>5. /\ x \in ViewData(V) /\ x.height = h /\ x.round = r /\ x.step = st /\ x.committed = w.committed
          /\ x.rows = w.rows
      BY <2>3, <2>4 DEF ViewData
    <2>6. There(w, q)
      BY <1>2, <2>1 DEF There
    <2> QED BY <1>1, <1>2, <1>3, <2>2, <2>5, <2>6 DEF Seated, Carried
  <1> QED BY <1>4, <1>5

(* New rows leave the display where it is.                                 *)
LEMMA NewRowsSeated ==
  ASSUME NEW V, NEW w, NEW q, NEW w1, Seated(V, w, q, w1), NEW rows \in [V -> Row]
  PROVE  LET x == [w1 EXCEPT !.rows = rows] IN Seated(V, w, q, x) /\ x.rows = rows
  <1>1. PICK x : x = [w1 EXCEPT !.rows = rows]
    OBVIOUS
  <1>2. /\ x \in ViewData(V) /\ x.height = w1.height /\ x.round = w1.round /\ x.step = w1.step
        /\ x.committed = w1.committed /\ x.rows = rows
    BY <1>1 DEF Seated, ViewData
  <1> QED BY <1>1, <1>2 DEF Seated

(* A vote is taken if there is a place for it.                             *)
Fits(V, w, q, v) == v.addr \in V /\ Carried(w, q)[v.addr].votes[v.type].kind = "absent"

(* It fills that place and no other.                                       *)
Fills(V, rows, carried, v) ==
  \A a \in V :
    /\ rows[a].proposer = carried[a].proposer
    /\ \A type \in VoteTypes :
         rows[a].votes[type] = IF a = v.addr /\ type = v.type THEN CellOf(v) ELSE carried[a].votes[type]

(* What a vote does.                                                       *)
LEMMA VoteIs ==
  ASSUME NEW V, NEW w \in ViewData(V), NEW v \in Votes,
         NEW q, q = Place(v.height, v.round, StepOf(v.type)), NEW x, x = VoteReceived(w, v)
  PROVE  /\ Outdated(w, v.height, v.round) \/ ~Fits(V, w, q, v) => x = w
         /\ ~Outdated(w, v.height, v.round) /\ Fits(V, w, q, v) =>
              Seated(V, w, q, x) /\ Fills(V, x.rows, Carried(w, q), v)
  <1>1. v.height \in Int /\ v.round \in Int /\ StepOf(v.type) \in Nat /\ v.type \in VoteTypes
    BY DashboardDomains DEF Votes, StepOf
  <1>2. DOMAIN w.rows = V
    BY ViewParts
  <1>3. CASE Outdated(w, v.height, v.round) \/ v.addr \notin V
    BY <1>2, <1>3 DEF VoteReceived, Fits
  <1>4. CASE ~Outdated(w, v.height, v.round) /\ v.addr \in V
    <2>1. PICK w1 : w1 = MoveTo(w, v.height, v.round, StepOf(v.type))
      OBVIOUS
    <2>2. Seated(V, w, q, w1) /\ w1.rows = Carried(w, q)
      BY <1>1, <1>4, <2>1, MoveToIs
    <2>3. x = IF ~Fits(V, w, q, v) THEN w ELSE [w1 EXCEPT !.rows[v.addr].votes[v.type] = CellOf(v)]
      BY <1>2, <1>4, <2>1, <2>2 DEF VoteReceived, Fits
    <2>4. CASE ~Fits(V, w, q, v)
      BY <2>3, <2>4
    <2>5. CASE Fits(V, w, q, v)
      <3>1. PICK c \in Cell : c = CellOf(v)
        <4>1. CellOf(v) \in Cell
          BY <1>1 DEF CellOf, Cell, Votes, Position, At
        <4> QED BY <4>1
      <3>2. PICK carried \in [V -> Row] : carried = w1.rows
        BY <2>2, CarriedRows
      <3>3. PICK row \in Row : row = carried[v.addr]
        BY <1>4, <3>2
      <3>4. PICK row1 : row1 = [row EXCEPT !.votes[v.type] = c]
        OBVIOUS
      <3>5. /\ row1 \in Row /\ row1.proposer = row.proposer
            /\ \A type \in VoteTypes : row1.votes[type] = IF type = v.type THEN c ELSE row.votes[type]
        BY <1>1, <3>4 DEF Row
      <3>6. PICK rows : rows = [carried EXCEPT ![v.addr] = row1]
        OBVIOUS
      <3>7. rows \in [V -> Row] /\ \A a \in V : rows[a] = IF a = v.addr THEN row1 ELSE carried[a]
        BY <1>4, <3>5, <3>6
      <3>8. x = [w1 EXCEPT !.rows = rows]
        BY <1>4, <2>3, <2>5, <3>1, <3>2, <3>3, <3>4, <3>6 DEF Seated, ViewData
      <3>9. Seated(V, w, q, x) /\ x.rows = rows
        BY <2>2, <3>7, <3>8, NewRowsSeated
      <3>10. Fills(V, rows, carried, v)
        BY <3>1, <3>3, <3>5, <3>7 DEF Fills
      <3> QED BY <1>4, <2>2, <2>5, <3>2, <3>9, <3>10
    <2> QED BY <2>4, <2>5
  <1> QED BY <1>3, <1>4

(* The votes stay, the proposer is the new one if there is one.            *)
Marked(V, rows, carried, p, q) ==
  \A a \in V :
    /\ rows[a].votes = carried[a].votes
    /\ rows[a].proposer = IF p = NoProposer THEN carried[a].proposer
                          ELSE IF a = p THEN [set |-> TRUE, at |-> At(q.height, q.round)] ELSE NotProposer

(* What marking a proposer does.                                           *)
LEMMA MarkIs ==
  ASSUME NEW V, NEW rows \in [V -> Row], NEW p, NEW q, q.height \in Int, q.round \in Int
  PROVE  LET r1 == MarkProposer([rows |-> rows], p, q.height, q.round).rows
         IN r1 \in [V -> Row] /\ Marked(V, r1, rows, p, q)
  <1>1. CASE p = NoProposer
    BY <1>1 DEF MarkProposer, Marked
  <1>2. CASE p # NoProposer
    <2> DEFINE flag(a) == IF a = p THEN [set |-> TRUE, at |-> At(q.height, q.round)] ELSE NotProposer
    <2>1. PICK r1 : r1 = [a \in V |-> [rows[a] EXCEPT !.proposer = flag(a)]]
      OBVIOUS
    <2>2. MarkProposer([rows |-> rows], p, q.height, q.round).rows = r1
      BY <1>2, <2>1 DEF MarkProposer
    <2>3. ASSUME NEW a \in V
          PROVE  r1[a] \in Row /\ r1[a].votes = rows[a].votes /\ r1[a].proposer = flag(a)
      <3>1. PICK f \in Flag : f = flag(a)
        <4>1. flag(a) \in Flag
          BY DEF Flag, NotProposer, Position, At
        <4> QED BY <4>1
      <3>2. PICK row \in Row : row = rows[a]
        OBVIOUS
      <3>3. r1[a] = [row EXCEPT !.proposer = f]
        BY <2>1, <3>1, <3>2
      <3>4. r1[a] \in Row /\ r1[a].votes = row.votes /\ r1[a].proposer = f
        BY <3>3 DEF Row
      <3> HIDE DEF flag
      <3> QED BY <3>1, <3>2, <3>4
    <2>4. r1 \in [V -> Row]
      BY <2>1, <2>3
    <2> QED BY <1>2, <2>2, <2>3, <2>4 DEF Marked
  <1> QED BY <1>1, <1>2

(* What a change of the round does.                                        *)
LEMMA RoundIs ==
  ASSUME NEW V, NEW w \in ViewData(V), NEW e, e.height \in Int, e.round \in Int, e.step \in Nat,
         NEW q, q = Place(e.height, e.round, e.step), NEW x, x = RoundChanged(w, e)
  PROVE  /\ Outdated(w, e.height, e.round) => x = w
         /\ ~Outdated(w, e.height, e.round) =>
              Seated(V, w, q, x) /\ Marked(V, x.rows, Carried(w, q), e.proposer, q)
  <1>1. CASE Outdated(w, e.height, e.round)
    BY <1>1 DEF RoundChanged
  <1>2. CASE ~Outdated(w, e.height, e.round)
    <2>1. PICK w1 : w1 = MoveTo(w, e.height, e.round, e.step)
      OBVIOUS
    <2>2. Seated(V, w, q, w1) /\ w1.rows = Carried(w, q)
      BY <1>2, <2>1, MoveToIs
    <2>3. PICK rows : rows = MarkProposer([rows |-> w1.rows], e.proposer, e.height, e.round).rows
      OBVIOUS
    <2>4. q.height = e.height /\ q.round = e.round
      BY DEF Place
    <2>5. rows \in [V -> Row] /\ Marked(V, rows, w1.rows, e.proposer, q)
      <3>1. PICK carried \in [V -> Row] : carried = w1.rows
        BY <2>2, CarriedRows
      <3>2. rows = MarkProposer([rows |-> carried], e.proposer, q.height, q.round).rows
        BY <2>3, <2>4, <3>1
      <3>3. q.height \in Int /\ q.round \in Int
        BY <2>4
      <3>4. rows \in [V -> Row] /\ Marked(V, rows, carried, e.proposer, q)
        BY <3>2, <3>3, MarkIs
      <3> QED BY <3>1, <3>4
    <2>6. x = [w1 EXCEPT !.rows = rows]
      BY <1>2, <2>1, <2>3 DEF RoundChanged
    <2>7. Seated(V, w, q, x) /\ x.rows = rows
      BY <2>2, <2>5, <2>6, NewRowsSeated
    <2> QED BY <1>2, <2>2, <2>5, <2>7
  <1> QED BY <1>1, <1>2

(* What a commit does.                                                     *)
LEMMA CommitIs ==
  ASSUME NEW V, NEW w \in ViewData(V), NEW h \in Int, NEW x, x = BlockCommitted(w, h)
  PROVE  /\ h <= w.committed => x = w
         /\ h > w.committed /\ w.height <= h =>
              /\ x \in ViewData(V) /\ x.height = h + 1 /\ x.round = 0 /\ x.step = 1 /\ x.committed = h
              /\ x.rows = [a \in V |-> EmptyRow]
         /\ h > w.committed /\ w.height > h =>
              /\ x \in ViewData(V) /\ x.height = w.height /\ x.round = w.round /\ x.step = w.step
              /\ x.committed = h /\ x.rows = w.rows
  <1>0. w.height \in Int /\ w.committed \in Int
    BY ViewParts
  <1>1. CASE h <= w.committed
    BY <1>0, <1>1 DEF BlockCommitted
  <1>2. CASE h > w.committed /\ w.height <= h
    <2>1. PICK rows \in [V -> Row] : rows = [a \in V |-> EmptyRow] /\ ClearVotes(w.rows) = rows
      BY EmptyRows
    <2>2. x = [w EXCEPT !.committed = h, !.height = h + 1, !.round = 0, !.step = 1, !.rows = rows]
      BY <1>0, <1>2, <2>1 DEF BlockCommitted
    <2>3. x \in ViewData(V)
      <3>1. [w EXCEPT !.committed = h, !.height = h + 1, !.round = 0, !.step = 1, !.rows = rows]
              \in ViewData(V)
        BY NextView
      <3> QED BY <2>2, <3>1
    <2>4. x.height = h + 1 /\ x.round = 0 /\ x.step = 1 /\ x.committed = h /\ x.rows = rows
      BY <2>2 DEF ViewData
    <2> QED BY <1>2, <2>1, <2>3, <2>4, <1>0
  <1>3. CASE h > w.committed /\ w.height > h
    <2>1. x = [w EXCEPT !.committed = h]
      BY <1>0, <1>3 DEF BlockCommitted
    <2>2. /\ x \in ViewData(V) /\ x.height = w.height /\ x.round = w.round /\ x.step = w.step
          /\ x.committed = h /\ x.rows = w.rows
      BY <2>1 DEF ViewData
    <2> QED BY <1>0, <1>3, <2>2
  <1> QED BY <1>0, <1>1, <1>2, <1>3

-----------------------------------------------------------------------------
(* Taking a patch *)

(* A cell of a carried row is empty, or of the place that w is at.         *)
LEMMA CarriedNeat ==
  ASSUME NEW V, NEW w, Neat(V, w), NEW t, NEW a \in V, NEW type \in VoteTypes
  PROVE  LET c == Carried(w, t)[a].votes[type]
         IN IF c.kind = "absent" THEN c = AbsentVote ELSE There(w, t) /\ w.step >= StepOf(type)
  <1>1. w \in ViewData(V)
    BY DEF Neat
  <1>2. CASE There(w, t)
    BY <1>1, <1>2, CarriedRows DEF Neat
  <1>3. CASE ~There(w, t)
    <2>1. Carried(w, t)[a] = EmptyRow
      BY <1>1, <1>3, CarriedRows
    <2> QED BY <2>1 DEF EmptyRow, AbsentVote
  <1> QED BY <1>2, <1>3

(* The parts of a neat display.                                            *)
LEMMA NeatParts ==
  ASSUME NEW V, NEW w, Neat(V, w)
  PROVE  /\ w \in ViewData(V) /\ w.height \in Nat /\ w.round \in Nat /\ w.step \in Nat /\ w.committed \in Nat
         /\ w.height > 0 => w.step >= 1 /\ w.height > w.committed
  <1>1. w \in ViewData(V)
    BY DEF Neat
  <1>2. w.height \in Int /\ w.round \in Int /\ w.step \in Nat /\ w.committed \in Int
    BY <1>1, ViewParts
  <1> QED BY <1>1, <1>2 DEF Neat

(* Where a display gets by a patch that t knows of.                        *)
LEMMA SeatedFrame ==
  ASSUME NEW V, NEW w, NEW t, Neat(V, w), Neat(V, t), Upto(w, t), w.committed <= t.committed,
         NEW q \in Places, q.height > 0, q.round >= 0, q.step >= 1, Upto(q, t),
         ~Outdated(w, q.height, q.round), NEW x, Seated(V, w, q, x)
  PROVE  /\ x \in ViewData(V) /\ x.height > 0 /\ x.round >= 0 /\ x.step >= 1 /\ x.committed >= 0
         /\ x.step >= q.step /\ (There(w, q) => x.step >= w.step)
         /\ x.height > x.committed /\ Upto(x, t) /\ x.committed <= t.committed
         /\ There(x, t) <=> There(q, t)
         /\ There(q, t) => Carried(w, q) = Carried(w, t)
         /\ ~There(q, t) => ~There(w, t)
  <1>1. /\ w.height \in Nat /\ w.round \in Nat /\ w.step \in Nat /\ w.committed \in Nat
        /\ t.height \in Nat /\ t.round \in Nat /\ t.step \in Nat /\ t.committed \in Nat
        /\ q.height \in Int /\ q.round \in Int /\ q.step \in Nat
    BY NeatParts DEF Places
  <1>2. /\ q.height > w.committed
        /\ q.height > w.height \/ (q.height = w.height /\ q.round >= w.round)
    BY <1>1 DEF Outdated
  <1>3. x.step \in Nat /\ x.step >= q.step /\ x.step \in {w.step, q.step} /\ (There(w, q) => x.step >= w.step)
        /\ (~There(w, q) => x.step = q.step)
    BY <1>1 DEF Seated, Greater
  <1>4. /\ x \in ViewData(V) /\ x.height = q.height /\ x.round = q.round /\ x.committed = w.committed
    BY DEF Seated
  <1>5. There(x, t) <=> There(q, t)
    BY <1>4 DEF There
  <1>6. There(q, t) => Carried(w, q) = Carried(w, t)
    BY DEF There, Carried
  <1>7. ~There(q, t) => ~There(w, t)
    BY <1>1, <1>2 DEF There, Upto
  <1>8. Upto(x, t)
    <2>1. CASE There(w, q)
      BY <1>1, <1>3, <1>4, <2>1 DEF Upto, There
    <2>2. CASE ~There(w, q)
      BY <1>3, <1>4, <2>2 DEF Upto
    <2> QED BY <2>1, <2>2
  <1> QED BY <1>1, <1>2, <1>3, <1>4, <1>5, <1>6, <1>7, <1>8

(* A patch that a display ignores has nothing that it lacks.               *)
LEMMA Ignored ==
  ASSUME NEW V, NEW w, NEW t, NEW G, NEW e, Aligned(V, w, t, G \cup {e}),
         Leads(V, e, t) => There(w, t) /\ w.step = t.step,
         e.type = "block.committed" /\ e.height = t.committed => w.committed = t.committed,
         \A a \in V, type \in VoteTypes :
           IsVote(e, t) /\ e.vote.addr = a /\ e.vote.type = type
             => Carried(w, t)[a].votes[type] = t.rows[a].votes[type],
         ~Marks(e, t)
  PROVE  Aligned(V, w, t, G)
  <1>1. (\A m \in G : ~Leads(V, m, t)) => There(w, t) /\ w.step = t.step
    BY DEF Aligned
  <1>2. (\A m \in G : m.type = "block.committed" => m.height # t.committed) => w.committed = t.committed
    BY DEF Aligned
  <1>3. \A a \in V, type \in VoteTypes :
          \/ Carried(w, t)[a].votes[type] = t.rows[a].votes[type]
          \/ /\ Carried(w, t)[a].votes[type] = AbsentVote
             /\ \E m \in G : IsVote(m, t) /\ m.vote.addr = a /\ m.vote.type = type
    BY DEF Aligned
  <1>4. (\A m \in G : ~Marks(m, t)) => \A a \in V : Carried(w, t)[a].proposer = t.rows[a].proposer
    BY DEF Aligned
  <1>5. /\ Neat(V, w) /\ Upto(w, t) /\ w.committed <= t.committed
        /\ w.height = 0 => \A m \in G : m.type = "block.committed" => m.height > w.committed
    BY DEF Aligned
  <1> QED BY <1>1, <1>2, <1>3, <1>4, <1>5 DEF Aligned

(* A display that has moved, but not yet to the place of t, lacks what it  *)
(* lacked.                                                                 *)
LEMMA Elsewhere ==
  ASSUME NEW V, NEW w, NEW t, NEW G, NEW e, Aligned(V, w, t, G \cup {e}), Neat(V, t),
         ~There(w, t), ~There(Target(e), t), e.type # "block.committed",
         NEW x, Neat(V, x), Upto(x, t), x.committed = w.committed, x.height > 0, ~There(x, t)
  PROVE  Aligned(V, x, t, G)
  <1>1. w \in ViewData(V) /\ x \in ViewData(V)
    BY NeatParts DEF Aligned
  <1>2. Carried(x, t) = Carried(w, t)
    BY <1>1, CarriedRows
  <1>3. ~Leads(V, e, t) /\ ~IsVote(e, t) /\ ~Marks(e, t)
    BY DEF Leads, IsVote, Marks, There, Place
  <1>4. \E m \in G : Leads(V, m, t)
    BY <1>3 DEF Aligned
  <1>5. (\A m \in G : m.type = "block.committed" => m.height # t.committed) => x.committed = t.committed
    BY DEF Aligned
  <1>6. \A a \in V, type \in VoteTypes :
          \/ Carried(x, t)[a].votes[type] = t.rows[a].votes[type]
          \/ /\ Carried(x, t)[a].votes[type] = AbsentVote
             /\ \E m \in G : IsVote(m, t) /\ m.vote.addr = a /\ m.vote.type = type
    BY <1>2, <1>3 DEF Aligned
  <1>7. (\A m \in G : ~Marks(m, t)) => \A a \in V : Carried(x, t)[a].proposer = t.rows[a].proposer
    BY <1>2, <1>3 DEF Aligned
  <1>8. x.committed <= t.committed
    BY DEF Aligned
  <1> QED BY <1>4, <1>5, <1>6, <1>7, <1>8 DEF Aligned

(* The step of a display that has arrived.                                 *)
LEMMA ArrivedStep ==
  ASSUME NEW V, NEW w, NEW t, Neat(V, t), NEW q, NEW x, x.step \in Nat, x.step >= q.step,
         There(w, t) => x.step >= w.step, Upto(x, t), There(x, t),
         q.step = t.step \/ (There(w, t) /\ w.step = t.step)
  PROVE  x.step = t.step
  <1>1. t.height \in Nat /\ t.round \in Nat /\ t.step \in Nat
    BY NeatParts
  <1>2. x.step <= t.step
    BY <1>1 DEF Upto, There
  <1> QED BY <1>1, <1>2

(* A vote or a round that t knows of is not outdated at the place of t.    *)
LEMMA NotOutdatedThere ==
  ASSUME NEW V, NEW w, NEW t, Neat(V, w), Neat(V, t), Upto(w, t), w.committed <= t.committed, t.height > 0,
         NEW q \in Places, There(q, t)
  PROVE  ~Outdated(w, q.height, q.round)
  <1>1. /\ w.height \in Nat /\ w.round \in Nat /\ w.committed \in Nat
        /\ t.height \in Nat /\ t.round \in Nat /\ t.committed \in Nat /\ t.height > t.committed
    BY NeatParts
  <1> QED BY <1>1 DEF Outdated, Upto, There

(* A display whose rows are carried, but for a vote or a proposer, is neat. *)
LEMMA RowsNeat ==
  ASSUME NEW V, NEW w, Neat(V, w), NEW q, NEW x, x \in ViewData(V), x.height > 0, x.round >= 0, x.step >= 1,
         x.committed >= 0, x.height > x.committed, There(w, q) => x.step >= w.step,
         \A a \in V, type \in VoteTypes :
           \/ x.rows[a].votes[type] = Carried(w, q)[a].votes[type]
           \/ x.rows[a].votes[type].kind # "absent" /\ x.step >= StepOf(type)
  PROVE  Neat(V, x)
  <1>1. x.height \in Int /\ x.round \in Int /\ x.step \in Nat /\ x.committed \in Int /\ w.step \in Nat
    BY ViewParts, NeatParts
  <1>2. ASSUME NEW a \in V, NEW type \in VoteTypes
        PROVE  LET c == x.rows[a].votes[type]
               IN IF c.kind = "absent" THEN c = AbsentVote ELSE x.step >= StepOf(type)
    <2>1. CASE x.rows[a].votes[type] = Carried(w, q)[a].votes[type]
      <3>1. StepOf(type) \in Nat
        BY DEF StepOf
      <3> QED BY <1>1, <2>1, <3>1, CarriedNeat
    <2>2. CASE x.rows[a].votes[type].kind # "absent" /\ x.step >= StepOf(type)
      BY <2>2
    <2> QED BY <1>2, <2>1, <2>2
  <1> QED BY <1>1, <1>2 DEF Neat

(* Taking a vote.                                                          *)
LEMMA VoteDispatched ==
  ASSUME NEW V, NEW w, NEW t, NEW G, NEW e, Aligned(V, w, t, G \cup {e}), Neat(V, t), t.height > 0,
         SentOK(V, t, e), e.type = "vote.received", e.vote \in Votes
  PROVE  Aligned(V, Reduce(w, e), t, G)
  <1>1. PICK v \in Votes : v = e.vote
    OBVIOUS
  <1>2. PICK q : q = Place(v.height, v.round, StepOf(v.type))
    OBVIOUS
  <1>3. PICK x : x = VoteReceived(w, v)
    OBVIOUS
  <1>4. /\ q = Target(e) /\ q \in Places /\ q.height > 0 /\ q.round >= 0 /\ q.step >= 1 /\ Upto(q, t)
        /\ q.height = v.height /\ q.round = v.round /\ q.step = StepOf(v.type) /\ v.type \in VoteTypes
        /\ q.height \in Int /\ q.round \in Int /\ q.step \in Nat
    <2>1. q = Target(e) /\ q.height = v.height /\ q.round = v.round /\ q.step = StepOf(v.type)
      BY <1>1, <1>2 DEF Target, Place
    <2>2. q \in Places /\ q.height > 0 /\ q.round >= 0 /\ q.step >= 1 /\ Upto(q, t)
      BY <2>1, TargetPlace DEF SentOK
    <2> QED BY <2>1, <2>2 DEF Places, Votes
  <1>5. Neat(V, w) /\ Upto(w, t) /\ w.committed <= t.committed /\ w \in ViewData(V)
    BY NeatParts DEF Aligned
  <1>6. Reduce(w, e) = x
    BY <1>1, <1>3 DEF Reduce
  <1>7. /\ Outdated(w, q.height, q.round) \/ ~Fits(V, w, q, v) => x = w
        /\ ~Outdated(w, q.height, q.round) /\ Fits(V, w, q, v) =>
             Seated(V, w, q, x) /\ Fills(V, x.rows, Carried(w, q), v)
    <2>1. /\ Outdated(w, v.height, v.round) \/ ~Fits(V, w, q, v) => x = w
          /\ ~Outdated(w, v.height, v.round) /\ Fits(V, w, q, v) =>
               Seated(V, w, q, x) /\ Fills(V, x.rows, Carried(w, q), v)
      BY <1>2, <1>3, <1>5, VoteIs
    <2>2. v.height = q.height /\ v.round = q.round
      BY <1>4
    <2> QED BY <2>1, <2>2
  <1>8. IsVote(e, t) <=> There(q, t)
    BY <1>4 DEF IsVote
  <1>9. ~Marks(e, t)
    BY DEF Marks
  <1>10. There(q, t) => ~Outdated(w, q.height, q.round) /\ Carried(w, q) = Carried(w, t)
    BY <1>4, <1>5, NotOutdatedThere DEF There, Carried
  <1>11. Leads(V, e, t) => There(q, t) /\ q.step = t.step /\ v.addr \in V
    BY <1>1, <1>4 DEF Leads, There, Place
  <1>12. CASE Outdated(w, q.height, q.round) \/ ~Fits(V, w, q, v)
    <2>1. x = w
      BY <1>7, <1>12
    <2>2. ASSUME There(q, t), v.addr \in V
          PROVE  /\ There(w, t) /\ w.step >= q.step
                 /\ Carried(w, t)[v.addr].votes[v.type] = t.rows[v.addr].votes[v.type]
      <3>1. Carried(w, t)[v.addr].votes[v.type].kind # "absent"
        BY <1>10, <1>12, <2>2 DEF Fits
      <3>2. There(w, t) /\ w.step >= q.step
        BY <1>4, <1>5, <2>2, <3>1, CarriedNeat
      <3>3. Carried(w, t)[v.addr].votes[v.type] # AbsentVote
        BY <3>1 DEF AbsentVote
      <3> QED BY <1>4, <2>2, <3>2, <3>3 DEF Aligned
    <2>3. Leads(V, e, t) => There(w, t) /\ w.step = t.step
      <3> SUFFICES ASSUME Leads(V, e, t) PROVE There(w, t) /\ w.step = t.step
        OBVIOUS
      <3>1. There(w, t) /\ w.step >= t.step
        BY <1>11, <2>2
      <3>2. w.height \in Nat /\ w.round \in Nat /\ w.step \in Nat /\ t.step \in Nat /\ t.height \in Nat /\ t.round \in Nat
        BY <1>5, NeatParts
      <3> QED BY <1>5, <3>1, <3>2 DEF Upto, There
    <2>4. \A a \in V, type \in VoteTypes :
            IsVote(e, t) /\ e.vote.addr = a /\ e.vote.type = type
              => Carried(w, t)[a].votes[type] = t.rows[a].votes[type]
      BY <1>1, <1>8, <2>2
    <2> QED BY <1>6, <1>9, <2>1, <2>3, <2>4, Ignored
  <1>13. CASE ~Outdated(w, q.height, q.round) /\ Fits(V, w, q, v)
    <2>1. Seated(V, w, q, x) /\ Fills(V, x.rows, Carried(w, q), v)
      BY <1>7, <1>13
    <2>2. /\ x \in ViewData(V) /\ x.height > 0 /\ x.round >= 0 /\ x.step >= 1 /\ x.committed >= 0
          /\ x.step >= q.step /\ (There(w, q) => x.step >= w.step)
          /\ x.height > x.committed /\ Upto(x, t) /\ x.committed <= t.committed
          /\ There(x, t) <=> There(q, t)
          /\ There(q, t) => Carried(w, q) = Carried(w, t)
          /\ ~There(q, t) => ~There(w, t)
      BY <1>4, <1>5, <1>13, <2>1, SeatedFrame
    <2>3. CellOf(v).kind # "absent"
      BY DEF CellOf
    <2>4. Neat(V, x)
      <3>1. \A a \in V, type \in VoteTypes :
              \/ x.rows[a].votes[type] = Carried(w, q)[a].votes[type]
              \/ x.rows[a].votes[type].kind # "absent" /\ x.step >= StepOf(type)
        BY <1>4, <2>1, <2>2, <2>3 DEF Fills
      <3> QED BY <1>5, <2>2, <3>1, RowsNeat
    <2>5. x.committed = w.committed
      BY <2>1 DEF Seated
    <2>6. CASE ~There(q, t)
      BY <1>4, <1>6, <2>2, <2>4, <2>5, <2>6, Elsewhere
    <2>7. CASE There(q, t)
      <3>1. Carried(x, t) = x.rows /\ Carried(w, q) = Carried(w, t) /\ There(x, t)
        BY <2>2, <2>7 DEF Carried
      <3>2. t.rows[v.addr].votes[v.type] = CellOf(v) /\ v.addr \in V
        BY <1>1, <1>8, <1>13, <2>7 DEF SentOK, Fits
      <3>3. ASSUME \A m \in G : ~Leads(V, m, t) PROVE There(x, t) /\ x.step = t.step
        <4>1. x.step \in Nat
          BY <2>4, NeatParts
        <4>2. There(w, t) => x.step >= w.step
          BY <2>2, <2>7 DEF There
        <4>3. x.step >= q.step /\ Upto(x, t) /\ There(x, t)
          BY <2>2, <3>1
        <4>4. q.step = t.step \/ (There(w, t) /\ w.step = t.step)
          <5>1. Leads(V, e, t) => q.step = t.step
            BY <1>4 DEF Leads, Place
          <5> QED BY <3>3, <5>1 DEF Aligned
        <4>5. x.step = t.step
          BY <4>1, <4>2, <4>3, <4>4, ArrivedStep
        <4> QED BY <4>3, <4>5
      <3>4. (\A m \in G : m.type = "block.committed" => m.height # t.committed) => x.committed = t.committed
        BY <2>5 DEF Aligned
      <3>5. ASSUME NEW a \in V, NEW type \in VoteTypes
            PROVE  \/ Carried(x, t)[a].votes[type] = t.rows[a].votes[type]
                   \/ /\ Carried(x, t)[a].votes[type] = AbsentVote
                      /\ \E m \in G : IsVote(m, t) /\ m.vote.addr = a /\ m.vote.type = type
        <4>1. CASE a = v.addr /\ type = v.type
          BY <2>1, <3>1, <3>2, <4>1 DEF Fills
        <4>2. CASE ~(a = v.addr /\ type = v.type)
          <5>1. Carried(x, t)[a].votes[type] = Carried(w, t)[a].votes[type]
            BY <2>1, <3>1, <4>2 DEF Fills
          <5> QED BY <1>1, <4>2, <5>1 DEF Aligned
        <4> QED BY <4>1, <4>2
      <3>6. (\A m \in G : ~Marks(m, t)) => \A a \in V : Carried(x, t)[a].proposer = t.rows[a].proposer
        <4>1. \A a \in V : Carried(x, t)[a].proposer = Carried(w, t)[a].proposer
          BY <2>1, <3>1 DEF Fills
        <4> QED BY <1>9, <4>1 DEF Aligned
      <3>7. x.height # 0
        BY <2>2
      <3> QED BY <1>6, <2>2, <2>4, <3>3, <3>4, <3>5, <3>6, <3>7 DEF Aligned
    <2> QED BY <2>6, <2>7
  <1> QED BY <1>12, <1>13

(* Taking a change of the round; the last proposer on its way is the one   *)
(* that t shows.                                                           *)
LEMMA RoundDispatched ==
  ASSUME NEW V, NEW w, NEW t, NEW G, NEW e, Aligned(V, w, t, G \cup {e}), Neat(V, t), t.height > 0,
         SentOK(V, t, e), e.type = "round.changed",
         e.height \in Int, e.round \in Int, e.step \in Nat,
         Marks(e, t) /\ (\A m \in G : ~Marks(m, t)) => Flagged(V, t, e.proposer)
  PROVE  Aligned(V, Reduce(w, e), t, G)
  <1>1. PICK q : q = Place(e.height, e.round, e.step)
    OBVIOUS
  <1>2. PICK x : x = RoundChanged(w, e)
    OBVIOUS
  <1>3. /\ q = Target(e) /\ q \in Places /\ q.height > 0 /\ q.round >= 0 /\ q.step >= 1 /\ Upto(q, t)
        /\ q.height = e.height /\ q.round = e.round /\ q.step = e.step
    <2>1. q = Target(e) /\ q.height = e.height /\ q.round = e.round /\ q.step = e.step
      BY <1>1 DEF Target, Place
    <2>2. q \in Places /\ q.height > 0 /\ q.round >= 0 /\ q.step >= 1 /\ Upto(q, t)
      BY <2>1, TargetPlace DEF SentOK
    <2> QED BY <2>1, <2>2
  <1>4. Neat(V, w) /\ Upto(w, t) /\ w.committed <= t.committed /\ w \in ViewData(V)
    BY NeatParts DEF Aligned
  <1>5. Reduce(w, e) = x
    BY <1>2 DEF Reduce
  <1>6. /\ Outdated(w, q.height, q.round) => x = w
        /\ ~Outdated(w, q.height, q.round) =>
             Seated(V, w, q, x) /\ Marked(V, x.rows, Carried(w, q), e.proposer, q)
    <2>1. /\ Outdated(w, e.height, e.round) => x = w
          /\ ~Outdated(w, e.height, e.round) =>
               Seated(V, w, q, x) /\ Marked(V, x.rows, Carried(w, q), e.proposer, q)
      BY <1>1, <1>2, <1>4, RoundIs
    <2>2. e.height = q.height /\ e.round = q.round
      BY <1>3
    <2> QED BY <2>1, <2>2
  <1>7. ~IsVote(e, t)
    BY DEF IsVote
  <1>8. (Leads(V, e, t) => There(q, t)) /\ (Marks(e, t) <=> There(q, t) /\ e.proposer # NoProposer)
    BY <1>3 DEF Leads, Marks, There, Place
  <1>9. There(q, t) => ~Outdated(w, q.height, q.round)
    BY <1>3, <1>4, NotOutdatedThere
  <1>10. CASE Outdated(w, q.height, q.round)
    <2>1. x = w /\ ~There(q, t)
      BY <1>6, <1>9, <1>10
    <2> QED BY <1>5, <1>7, <1>8, <2>1, Ignored
  <1>11. CASE ~Outdated(w, q.height, q.round)
    <2>1. Seated(V, w, q, x) /\ Marked(V, x.rows, Carried(w, q), e.proposer, q)
      BY <1>6, <1>11
    <2>2. /\ x \in ViewData(V) /\ x.height > 0 /\ x.round >= 0 /\ x.step >= 1 /\ x.committed >= 0
          /\ x.step >= q.step /\ (There(w, q) => x.step >= w.step)
          /\ x.height > x.committed /\ Upto(x, t) /\ x.committed <= t.committed
          /\ There(x, t) <=> There(q, t)
          /\ There(q, t) => Carried(w, q) = Carried(w, t)
          /\ ~There(q, t) => ~There(w, t)
      BY <1>3, <1>4, <1>11, <2>1, SeatedFrame
    <2>3. Neat(V, x)
      <3>1. \A a \in V, type \in VoteTypes :
              \/ x.rows[a].votes[type] = Carried(w, q)[a].votes[type]
              \/ x.rows[a].votes[type].kind # "absent" /\ x.step >= StepOf(type)
        BY <2>1 DEF Marked
      <3> QED BY <1>4, <2>2, <3>1, RowsNeat
    <2>4. x.committed = w.committed
      BY <2>1 DEF Seated
    <2>5. CASE ~There(q, t)
      BY <1>3, <1>5, <2>2, <2>3, <2>4, <2>5, Elsewhere
    <2>6. CASE There(q, t)
      <3>1. Carried(x, t) = x.rows /\ Carried(w, q) = Carried(w, t) /\ There(x, t)
        BY <2>2, <2>6 DEF Carried
      <3>2. ASSUME \A m \in G : ~Leads(V, m, t) PROVE There(x, t) /\ x.step = t.step
        <4>1. x.step \in Nat
          BY <2>3, NeatParts
        <4>2. There(w, t) => x.step >= w.step
          BY <2>2, <2>6 DEF There
        <4>3. x.step >= q.step /\ Upto(x, t) /\ There(x, t)
          BY <2>2, <3>1
        <4>4. q.step = t.step \/ (There(w, t) /\ w.step = t.step)
          <5>1. Leads(V, e, t) => q.step = t.step
            BY <1>3 DEF Leads, Place
          <5> QED BY <3>2, <5>1 DEF Aligned
        <4>5. x.step = t.step
          BY <4>1, <4>2, <4>3, <4>4, ArrivedStep
        <4> QED BY <4>3, <4>5
      <3>3. (\A m \in G : m.type = "block.committed" => m.height # t.committed) => x.committed = t.committed
        BY <2>4 DEF Aligned
      <3>4. ASSUME NEW a \in V, NEW type \in VoteTypes
            PROVE  \/ Carried(x, t)[a].votes[type] = t.rows[a].votes[type]
                   \/ /\ Carried(x, t)[a].votes[type] = AbsentVote
                      /\ \E m \in G : IsVote(m, t) /\ m.vote.addr = a /\ m.vote.type = type
        <4>1. Carried(x, t)[a].votes[type] = Carried(w, t)[a].votes[type]
          BY <2>1, <3>1 DEF Marked
        <4> QED BY <1>7, <4>1 DEF Aligned
      <3>5. ASSUME \A m \in G : ~Marks(m, t), NEW a \in V
            PROVE  Carried(x, t)[a].proposer = t.rows[a].proposer
        <4>1. CASE e.proposer = NoProposer
          <5>1. Carried(x, t)[a].proposer = Carried(w, t)[a].proposer
            BY <2>1, <3>1, <4>1 DEF Marked
          <5>2. ~Marks(e, t)
            BY <1>8, <4>1
          <5> QED BY <3>5, <5>1, <5>2 DEF Aligned
        <4>2. CASE e.proposer # NoProposer
          <5>1. Flagged(V, t, e.proposer)
            BY <1>8, <2>6, <3>5, <4>2
          <5>2. q.height = t.height /\ q.round = t.round
            BY <2>6 DEF There
          <5>3. x.rows[a].proposer
                  = IF a = e.proposer THEN [set |-> TRUE, at |-> At(q.height, q.round)] ELSE NotProposer
            BY <2>1, <4>2 DEF Marked
          <5> QED BY <3>1, <5>1, <5>2, <5>3 DEF Flagged
        <4> QED BY <4>1, <4>2
      <3>6. x.height # 0
        BY <2>2
      <3> QED BY <1>5, <2>2, <2>3, <3>2, <3>3, <3>4, <3>5, <3>6 DEF Aligned
    <2> QED BY <2>5, <2>6
  <1> QED BY <1>10, <1>11

(* Taking a commit.                                                        *)
LEMMA CommitDispatched ==
  ASSUME NEW V, NEW w, NEW t, NEW G, NEW e, Aligned(V, w, t, G \cup {e}), Neat(V, t), t.height > 0,
         SentOK(V, t, e), e.type = "block.committed", e.height \in Int
  PROVE  Aligned(V, Reduce(w, e), t, G)
  <1>1. PICK h \in Int : h = e.height
    OBVIOUS
  <1>2. PICK x : x = BlockCommitted(w, h)
    OBVIOUS
  <1>3. Target(e) = Place(h + 1, 0, 1) /\ h >= 0 /\ h <= t.committed
        /\ (h + 1 < t.height \/ (h + 1 = t.height /\ 0 < t.round) \/ (h + 1 = t.height /\ 0 = t.round /\ 1 <= t.step))
    <2>1. Target(e) = Place(h + 1, 0, 1)
      BY <1>1 DEF Target
    <2>2. Target(e).height = h + 1 /\ Target(e).round = 0 /\ Target(e).step = 1
      BY <2>1 DEF Place
    <2> QED BY <1>1, <2>1, <2>2 DEF SentOK, Upto
  <1>4. Neat(V, w) /\ Upto(w, t) /\ w.committed <= t.committed /\ w \in ViewData(V)
    BY NeatParts DEF Aligned
  <1>5. Reduce(w, e) = x
    BY <1>1, <1>2 DEF Reduce
  <1>6. /\ w.height \in Nat /\ w.round \in Nat /\ w.step \in Nat /\ w.committed \in Nat
        /\ w.height > 0 => w.step >= 1 /\ w.height > w.committed
        /\ t.height \in Nat /\ t.round \in Nat /\ t.step \in Nat /\ t.committed \in Nat
    BY <1>4, NeatParts
  <1>7. /\ h <= w.committed => x = w
        /\ h > w.committed /\ w.height <= h =>
             /\ x \in ViewData(V) /\ x.height = h + 1 /\ x.round = 0 /\ x.step = 1 /\ x.committed = h
             /\ x.rows = [a \in V |-> EmptyRow]
        /\ h > w.committed /\ w.height > h =>
             /\ x \in ViewData(V) /\ x.height = w.height /\ x.round = w.round /\ x.step = w.step
             /\ x.committed = h /\ x.rows = w.rows
    BY <1>2, <1>4, CommitIs
  <1>8. ~IsVote(e, t) /\ ~Marks(e, t)
    BY DEF IsVote, Marks
  <1>9. Leads(V, e, t) => t.height = h + 1 /\ t.round = 0 /\ t.step = 1
    BY <1>3 DEF Leads, Place
  <1>10. ASSUME Leads(V, e, t), w.height > h PROVE There(w, t) /\ w.step = t.step
    BY <1>1, <1>4, <1>6, <1>9, <1>10, <1>3 DEF Upto, There
  <1>11. CASE h <= w.committed
    <2>1. Leads(V, e, t) => There(w, t) /\ w.step = t.step
      <3>1. w.height # 0
        BY <1>1, <1>11, <1>6 DEF Aligned
      <3>2. w.height > h
        BY <1>6, <1>11, <3>1
      <3> QED BY <1>10, <3>2
    <2>2. e.height = t.committed => w.committed = t.committed
      BY <1>1, <1>4, <1>6, <1>11
    <2> QED BY <1>5, <1>7, <1>8, <1>11, <2>1, <2>2, Ignored
  <1>12. CASE h > w.committed
    <2>1. ASSUME \A m \in G : m.type = "block.committed" => m.height # t.committed
          PROVE  h = t.committed
      <3>1. CASE h = t.committed
        BY <3>1
      <3>2. CASE h # t.committed
        <4>1. w.committed = t.committed
          BY <1>1, <2>1, <3>2 DEF Aligned
        <4> QED BY <1>3, <1>6, <1>12, <4>1
      <3> QED BY <3>1, <3>2
    <2>2. CASE w.height <= h
      <3>1. /\ x \in ViewData(V) /\ x.height = h + 1 /\ x.round = 0 /\ x.step = 1 /\ x.committed = h
            /\ x.rows = [a \in V |-> EmptyRow]
        BY <1>7, <1>12, <2>2
      <3>2. Carried(x, t) = [a \in V |-> EmptyRow]
        BY <3>1, CarriedRows
      <3>3. ~There(w, t) /\ Carried(w, t) = [a \in V |-> EmptyRow]
        <4>1. ~There(w, t)
          BY <1>3, <1>6, <2>2 DEF There
        <4> QED BY <1>4, <4>1, CarriedRows
      <3>4. Neat(V, x)
        <4>1. \A a \in V, type \in VoteTypes : x.rows[a].votes[type] = AbsentVote
          BY <3>1 DEF EmptyRow
        <4>2. AbsentVote.kind = "absent"
          BY DEF AbsentVote
        <4> QED BY <1>3, <3>1, <4>1, <4>2 DEF Neat
      <3>5. Upto(x, t)
        BY <1>3, <3>1 DEF Upto
      <3>6. ASSUME \A m \in G : ~Leads(V, m, t) PROVE There(x, t) /\ x.step = t.step
        <4>1. Leads(V, e, t)
          BY <3>3, <3>6 DEF Aligned
        <4> QED BY <1>9, <3>1, <4>1 DEF There
      <3>7. \A a \in V, type \in VoteTypes :
              \/ Carried(x, t)[a].votes[type] = t.rows[a].votes[type]
              \/ /\ Carried(x, t)[a].votes[type] = AbsentVote
                 /\ \E m \in G : IsVote(m, t) /\ m.vote.addr = a /\ m.vote.type = type
        BY <1>8, <3>2, <3>3 DEF Aligned
      <3>8. (\A m \in G : ~Marks(m, t)) => \A a \in V : Carried(x, t)[a].proposer = t.rows[a].proposer
        BY <1>8, <3>2, <3>3 DEF Aligned
      <3>9. x.height # 0 /\ x.committed <= t.committed
        BY <1>3, <3>1
      <3>10. (\A m \in G : m.type = "block.committed" => m.height # t.committed) => x.committed = t.committed
        BY <2>1, <3>1
      <3> QED BY <1>5, <3>4, <3>5, <3>6, <3>7, <3>8, <3>9, <3>10 DEF Aligned
    <2>3. CASE w.height > h
      <3>1. /\ x \in ViewData(V) /\ x.height = w.height /\ x.round = w.round /\ x.step = w.step
            /\ x.committed = h /\ x.rows = w.rows
        BY <1>7, <1>12, <2>3
      <3>2. Carried(x, t) = Carried(w, t) /\ There(x, t) <=> There(w, t)
        BY <3>1 DEF Carried, There
      <3>3. Neat(V, x)
        BY <1>3, <1>4, <2>3, <3>1 DEF Neat
      <3>4. Upto(x, t)
        BY <1>4, <3>1 DEF Upto
      <3>5. ASSUME \A m \in G : ~Leads(V, m, t) PROVE There(x, t) /\ x.step = t.step
        <4>1. CASE Leads(V, e, t)
          BY <1>10, <2>3, <3>1, <4>1 DEF There
        <4>2. CASE ~Leads(V, e, t)
          BY <3>1, <3>5, <4>2 DEF Aligned, There
        <4> QED BY <4>1, <4>2
      <3>6. Carried(x, t) = Carried(w, t)
        BY <3>1 DEF Carried, There
      <3>7. \A a \in V, type \in VoteTypes :
              \/ Carried(x, t)[a].votes[type] = t.rows[a].votes[type]
              \/ /\ Carried(x, t)[a].votes[type] = AbsentVote
                 /\ \E m \in G : IsVote(m, t) /\ m.vote.addr = a /\ m.vote.type = type
        BY <1>8, <3>6 DEF Aligned
      <3>8. (\A m \in G : ~Marks(m, t)) => \A a \in V : Carried(x, t)[a].proposer = t.rows[a].proposer
        BY <1>8, <3>6 DEF Aligned
      <3>9. x.height # 0 /\ x.committed <= t.committed
        BY <1>3, <2>3, <3>1
      <3>10. (\A m \in G : m.type = "block.committed" => m.height # t.committed) => x.committed = t.committed
        BY <2>1, <3>1
      <3> QED BY <1>5, <3>3, <3>4, <3>5, <3>7, <3>8, <3>9, <3>10 DEF Aligned
    <2> QED BY <1>6, <2>2, <2>3
  <1> QED BY <1>6, <1>11, <1>12

(* Taking the next message, whichever it is.                               *)
LEMMA Dispatched ==
  ASSUME NEW V, NEW w, NEW t, NEW G, NEW e, Aligned(V, w, t, G \cup {e}), Neat(V, t), t.height > 0,
         SentOK(V, t, e),
         Marks(e, t) /\ (\A m \in G : ~Marks(m, t)) => Flagged(V, t, e.proposer)
  PROVE  Aligned(V, Reduce(w, e), t, G)
  <1>1. e \in Messages
    BY DEF SentOK
  <1>2. CASE e \in [type : {"vote.received"}, vote : Votes]
    <2>1. e.type = "vote.received" /\ e.vote \in Votes
      BY <1>2
    <2> QED BY <2>1, VoteDispatched
  <1>3. CASE e \in [type : {"round.changed"}, height : Int, round : Int, step : Nat, proposer : Proposers]
    <2>1. e.type = "round.changed" /\ e.height \in Int /\ e.round \in Int /\ e.step \in Nat
      BY <1>3
    <2> QED BY <2>1, RoundDispatched
  <1>4. CASE e \in [type : {"block.committed"}, height : Int]
    <2>1. e.type = "block.committed" /\ e.height \in Int
      BY <1>4
    <2> QED BY <2>1, CommitDispatched
  <1> QED BY <1>1, <1>2, <1>3, <1>4 DEF Messages

-----------------------------------------------------------------------------
(* Telling a patch *)

(* The display u comes of t by what e tells: what was on its way tells of  *)
(* u too, and a display that lacked F lacks F and e.                       *)
Tidings(V, t, e, u) ==
  /\ Upto(t, u) /\ u.height > 0
  /\ SentOK(V, u, e) /\ \A m : SentOK(V, t, m) => SentOK(V, u, m)
  /\ \A w, F : Aligned(V, w, t, F) => Aligned(V, w, u, F \cup {e})
  /\ Marks(e, u) => Flagged(V, u, e.proposer)
  /\ There(t, u) /\ ~Marks(e, u) => \A p : Flagged(V, t, p) => Flagged(V, u, p)

(* Places are in order.                                                    *)
LEMMA UptoTransitive ==
  ASSUME NEW p, NEW q, NEW r,
         p.height \in Int, p.round \in Int, p.step \in Int, q.height \in Int, q.round \in Int, q.step \in Int,
         r.height \in Int, r.round \in Int, r.step \in Int, Upto(p, q), Upto(q, r)
  PROVE  Upto(p, r) /\ (There(p, r) => There(p, q) /\ There(q, r))
  BY DEF Upto, There

(* What is on its way stays true of a display that goes on.                *)
LEMMA SentStays ==
  ASSUME NEW V, NEW t, Neat(V, t), NEW u, Neat(V, u), Upto(t, u), t.committed <= u.committed,
         There(t, u) => \A a \in V, type \in VoteTypes :
           t.rows[a].votes[type].kind # "absent" => u.rows[a].votes[type] = t.rows[a].votes[type],
         NEW m, SentOK(V, t, m)
  PROVE  SentOK(V, u, m)
  <1>1. /\ t.height \in Nat /\ t.round \in Nat /\ t.step \in Nat /\ t.committed \in Nat
        /\ u.height \in Nat /\ u.round \in Nat /\ u.step \in Nat /\ u.committed \in Nat
    BY NeatParts
  <1>2. m \in Messages /\ Upto(Target(m), t)
    BY DEF SentOK
  <1>3. Target(m).height \in Int /\ Target(m).round \in Int /\ Target(m).step \in Int
    BY <1>2, TargetPlace DEF Places
  <1>4. Upto(Target(m), u) /\ (There(Target(m), u) => There(Target(m), t) /\ There(t, u))
    BY <1>1, <1>2, <1>3, UptoTransitive
  <1>5. m.type = "block.committed" => m.height <= u.committed
    <2>1. m.type = "block.committed" => m.height \in Int
      BY <1>2 DEF Messages
    <2> QED BY <1>1, <2>1 DEF SentOK
  <1>6. ASSUME IsVote(m, u), m.vote.addr \in V
        PROVE  u.rows[m.vote.addr].votes[m.vote.type] = CellOf(m.vote)
    <2>1. IsVote(m, t) /\ There(t, u)
      BY <1>4, <1>6 DEF IsVote
    <2>2. t.rows[m.vote.addr].votes[m.vote.type] = CellOf(m.vote)
      BY <1>6, <2>1 DEF SentOK
    <2>3. m.vote.type \in VoteTypes
      BY <1>2, <1>6 DEF IsVote, Messages, Votes
    <2>4. CellOf(m.vote).kind # "absent"
      BY DEF CellOf
    <2> QED BY <1>6, <2>1, <2>2, <2>3, <2>4
  <1> QED BY <1>4, <1>5, <1>6 DEF SentOK

(* A vote or a round, which leads to its place.                            *)
LEMMA TidingsSeated ==
  ASSUME NEW V, NEW t, Neat(V, t), NEW u, Neat(V, u), NEW e \in Messages, NEW q, q = Target(e),
         q.height > 0, q.round >= 0, q.step >= 1, ~Outdated(t, q.height, q.round), Seated(V, t, q, u),
         e.type # "block.committed", e.type = "vote.received" => e.vote.addr \in V,
         \A a \in V, type \in VoteTypes :
           \/ u.rows[a].votes[type] = Carried(t, q)[a].votes[type]
           \/ /\ IsVote(e, u) /\ e.vote.addr = a /\ e.vote.type = type
              /\ Carried(t, q)[a].votes[type] = AbsentVote,
         e.type = "vote.received" => u.rows[e.vote.addr].votes[e.vote.type] = CellOf(e.vote),
         Marks(e, u) \/ \A a \in V : u.rows[a].proposer = Carried(t, q)[a].proposer,
         Marks(e, u) => Flagged(V, u, e.proposer)
  PROVE  Tidings(V, t, e, u)
  <1>1. /\ t.height \in Nat /\ t.round \in Nat /\ t.step \in Nat /\ t.committed \in Nat
        /\ u.height \in Nat /\ u.round \in Nat /\ u.step \in Nat /\ u.committed \in Nat
        /\ t \in ViewData(V) /\ u \in ViewData(V)
    BY NeatParts
  <1>2. q.height \in Int /\ q.round \in Int /\ q.step \in Nat
    BY TargetPlace DEF Places
  <1>3. u.height = q.height /\ u.round = q.round /\ u.committed = t.committed
        /\ u.step = IF There(t, q) THEN Greater(t.step, q.step) ELSE q.step
    BY DEF Seated
  <1>4. /\ There(q, u) /\ Upto(q, u) /\ Upto(t, u) /\ (There(t, u) <=> There(t, q))
        /\ u.step = q.step \/ (There(t, u) /\ u.step = t.step)
    <2>1. q.height > t.height \/ (q.height = t.height /\ q.round >= t.round)
      BY <1>1, <1>2 DEF Outdated
    <2>2. There(q, u) /\ (There(t, u) <=> There(t, q))
      BY <1>3 DEF There
    <2>3. u.step >= q.step /\ (There(t, q) => u.step >= t.step) /\ (u.step = q.step \/ (There(t, q) /\ u.step = t.step))
      BY <1>1, <1>2, <1>3 DEF Greater
    <2>4. Upto(q, u)
      BY <1>1, <1>2, <1>3, <2>3 DEF Upto
    <2>5. Upto(t, u)
      BY <1>1, <1>2, <1>3, <2>1, <2>3 DEF Upto, There
    <2> QED BY <2>2, <2>3, <2>4, <2>5
  <1>5. There(t, u) => Carried(t, q) = t.rows
    BY <1>4 DEF Carried
  <1>6. ~There(t, u) => Carried(t, q) = [a \in V |-> EmptyRow]
    BY <1>1, <1>4, CarriedRows
  <1>7. SentOK(V, u, e)
    <2>1. IsVote(e, u) => u.rows[e.vote.addr].votes[e.vote.type] = CellOf(e.vote)
      BY DEF IsVote
    <2> QED BY <1>4, <2>1 DEF SentOK
  <1>8. ASSUME NEW m, SentOK(V, t, m) PROVE SentOK(V, u, m)
    <2>1. ASSUME There(t, u), NEW a \in V, NEW type \in VoteTypes, t.rows[a].votes[type].kind # "absent"
          PROVE  u.rows[a].votes[type] = t.rows[a].votes[type]
      <3>1. t.rows[a].votes[type] # AbsentVote
        BY <2>1 DEF AbsentVote
      <3> QED BY <1>5, <2>1, <3>1
    <2>2. t.committed <= u.committed
      BY <1>1, <1>3
    <2> QED BY <1>4, <1>8, <2>1, <2>2, SentStays
  <1>9. ASSUME NEW w, NEW F, Aligned(V, w, t, F) PROVE Aligned(V, w, u, F \cup {e})
    <2>1. Neat(V, w) /\ Upto(w, t) /\ w.committed <= t.committed /\ w \in ViewData(V)
          /\ w.height \in Nat /\ w.round \in Nat /\ w.step \in Nat /\ w.committed \in Nat
      BY <1>9, NeatParts DEF Aligned
    <2>2. Upto(w, u) /\ (There(w, u) => There(w, t) /\ There(t, u))
      BY <1>1, <1>4, <2>1, UptoTransitive
    <2>3. There(t, u) => (There(w, t) <=> There(w, u)) /\ Carried(w, u) = Carried(w, t)
      BY <2>2 DEF There, Carried
    <2>4. ~There(t, u) => Carried(w, u) = [a \in V |-> EmptyRow]
      BY <2>1, <2>2, CarriedRows
    <2>5. ASSUME \A m \in F \cup {e} : ~Leads(V, m, u) PROVE There(w, u) /\ w.step = u.step
      <3>1. u.step # q.step
        <4>1. Target(e) = Place(q.height, q.round, q.step)
          BY TargetPlace DEF Places, Place
        <4> QED BY <1>3, <2>5, <4>1 DEF Leads
      <3>2. There(t, u) /\ u.step = t.step
        BY <1>4, <3>1
      <3>3. \A m \in F : ~Leads(V, m, t)
        BY <2>5, <3>2 DEF Leads, There
      <3>4. There(w, t) /\ w.step = t.step
        BY <1>9, <3>3 DEF Aligned
      <3> QED BY <2>3, <3>2, <3>4
    <2>6. w.height = 0 => \A m \in F \cup {e} : m.type = "block.committed" => m.height > w.committed
      BY <1>9 DEF Aligned
    <2>7. (\A m \in F \cup {e} : m.type = "block.committed" => m.height # u.committed) => w.committed = u.committed
      BY <1>3, <1>9 DEF Aligned
    <2>8. ASSUME NEW a \in V, NEW type \in VoteTypes
          PROVE  \/ Carried(w, u)[a].votes[type] = u.rows[a].votes[type]
                 \/ /\ Carried(w, u)[a].votes[type] = AbsentVote
                    /\ \E m \in F \cup {e} : IsVote(m, u) /\ m.vote.addr = a /\ m.vote.type = type
      <3>1. CASE There(t, u)
        <4>1. \/ Carried(w, u)[a].votes[type] = t.rows[a].votes[type]
              \/ /\ Carried(w, u)[a].votes[type] = AbsentVote
                 /\ \E m \in F : IsVote(m, t) /\ m.vote.addr = a /\ m.vote.type = type
          BY <1>9, <2>3, <3>1 DEF Aligned
        <4>2. \A m : IsVote(m, t) => IsVote(m, u)
          BY <3>1 DEF IsVote, There
        <4>3. \/ u.rows[a].votes[type] = t.rows[a].votes[type]
              \/ /\ IsVote(e, u) /\ e.vote.addr = a /\ e.vote.type = type
                 /\ t.rows[a].votes[type] = AbsentVote
          BY <1>5, <3>1
        <4> QED BY <4>1, <4>2, <4>3
      <3>2. CASE ~There(t, u)
        <4>1. Carried(w, u)[a].votes[type] = AbsentVote /\ Carried(t, q)[a].votes[type] = AbsentVote
          BY <1>6, <2>4, <3>2 DEF EmptyRow
        <4> QED BY <4>1
      <3> QED BY <3>1, <3>2
    <2>9. ASSUME \A m \in F \cup {e} : ~Marks(m, u), NEW a \in V
          PROVE  Carried(w, u)[a].proposer = u.rows[a].proposer
      <3>1. u.rows[a].proposer = Carried(t, q)[a].proposer
        BY <2>9
      <3>2. CASE There(t, u)
        <4>1. \A m \in F : ~Marks(m, t)
          BY <2>9, <3>2 DEF Marks, There
        <4>2. Carried(w, t)[a].proposer = t.rows[a].proposer
          BY <1>9, <4>1 DEF Aligned
        <4> QED BY <1>5, <2>3, <3>1, <3>2, <4>2
      <3>3. CASE ~There(t, u)
        BY <1>6, <2>4, <3>1, <3>3
      <3> QED BY <3>2, <3>3
    <2> QED BY <1>3, <2>1, <2>2, <2>5, <2>6, <2>7, <2>8, <2>9 DEF Aligned
  <1>10. ASSUME There(t, u), ~Marks(e, u), NEW p, Flagged(V, t, p) PROVE Flagged(V, u, p)
    <2>1. \A a \in V : u.rows[a].proposer = t.rows[a].proposer
      BY <1>5, <1>10
    <2>2. u.height = t.height /\ u.round = t.round
      BY <1>10 DEF There
    <2> QED BY <1>10, <2>1, <2>2 DEF Flagged
  <1> QED BY <1>3, <1>4, <1>7, <1>8, <1>9, <1>10 DEF Tidings

(* A commit, which leads to the next height unless t is beyond it.         *)
LEMMA TidingsCommit ==
  ASSUME NEW V, NEW t, Neat(V, t), NEW e \in Messages, e.type = "block.committed", e.height \in Int,
         e.height > t.committed, NEW u, u = Reduce(t, e), Neat(V, u)
  PROVE  Tidings(V, t, e, u)
  <1>1. PICK h \in Int : h = e.height
    OBVIOUS
  <1>2. /\ t.height \in Nat /\ t.round \in Nat /\ t.step \in Nat /\ t.committed \in Nat
        /\ u.height \in Nat /\ u.round \in Nat /\ u.step \in Nat /\ u.committed \in Nat
        /\ t \in ViewData(V) /\ u \in ViewData(V) /\ (t.height > 0 => t.step >= 1)
    BY NeatParts
  <1>3. u = BlockCommitted(t, h) /\ h > t.committed
    BY <1>1 DEF Reduce
  <1>4. /\ t.height <= h =>
             /\ u.height = h + 1 /\ u.round = 0 /\ u.step = 1 /\ u.committed = h
             /\ u.rows = [a \in V |-> EmptyRow]
        /\ t.height > h =>
             /\ u.height = t.height /\ u.round = t.round /\ u.step = t.step
             /\ u.committed = h /\ u.rows = t.rows
    BY <1>2, <1>3, CommitIs
  <1>5. Target(e) = Place(h + 1, 0, 1)
    BY <1>1 DEF Target
  <1>6. /\ Upto(t, u) /\ Upto(Target(e), u) /\ u.height > 0 /\ u.committed = h
        /\ t.height <= h <=> ~There(t, u)
        /\ Target(e).height > 0 /\ Target(e).round >= 0 /\ Target(e).step >= 1
    <2>1. Target(e).height = h + 1 /\ Target(e).round = 0 /\ Target(e).step = 1
      BY <1>5 DEF Place
    <2>2. CASE t.height <= h
      BY <1>2, <1>3, <1>4, <2>1, <2>2 DEF Upto, There
    <2>3. CASE t.height > h
      BY <1>2, <1>3, <1>4, <2>1, <2>3 DEF Upto, There
    <2> QED BY <1>2, <2>2, <2>3
  <1>7. SentOK(V, u, e)
    BY <1>1, <1>2, <1>6 DEF SentOK, IsVote
  <1>8. ASSUME NEW m, SentOK(V, t, m) PROVE SentOK(V, u, m)
    <2>1. There(t, u) => u.rows = t.rows
      BY <1>2, <1>4, <1>6
    <2>2. t.committed <= u.committed
      BY <1>2, <1>3, <1>6
    <2>3. There(t, u) => \A a \in V, type \in VoteTypes :
            t.rows[a].votes[type].kind # "absent" => u.rows[a].votes[type] = t.rows[a].votes[type]
      BY <2>1
    <2> QED BY <1>6, <1>8, <2>2, <2>3, SentStays
  <1>9. ASSUME NEW w, NEW F, Aligned(V, w, t, F) PROVE Aligned(V, w, u, F \cup {e})
    <2>1. Neat(V, w) /\ Upto(w, t) /\ w.committed <= t.committed /\ w \in ViewData(V)
          /\ w.height \in Nat /\ w.round \in Nat /\ w.step \in Nat /\ w.committed \in Nat
      BY <1>9, NeatParts DEF Aligned
    <2>2. Upto(w, u) /\ (There(w, u) => There(w, t) /\ There(t, u))
      BY <1>2, <1>6, <2>1, UptoTransitive
    <2>3. w.committed <= u.committed
      BY <1>2, <1>3, <1>6, <2>1
    <2>4. w.height = 0 => \A m \in F \cup {e} : m.type = "block.committed" => m.height > w.committed
      BY <1>1, <1>2, <1>3, <1>9, <2>1 DEF Aligned
    <2>5. (\A m \in F \cup {e} : m.type = "block.committed" => m.height # u.committed) => w.committed = u.committed
      BY <1>1, <1>6
    <2>6. ~IsVote(e, u) /\ ~Marks(e, u)
      BY DEF IsVote, Marks
    <2>7. CASE There(t, u)
      <3>1. u.height = t.height /\ u.round = t.round /\ u.step = t.step /\ u.rows = t.rows
        BY <1>2, <1>4, <1>6, <2>7
      <3>2. /\ Carried(w, u) = Carried(w, t) /\ (There(w, u) <=> There(w, t))
            /\ \A m : (Leads(V, m, u) <=> Leads(V, m, t)) /\ (IsVote(m, u) <=> IsVote(m, t)) /\ (Marks(m, u) <=> Marks(m, t))
        BY <3>1 DEF Carried, There, Leads, IsVote, Marks
      <3>3. (\A m \in F \cup {e} : ~Leads(V, m, u)) => There(w, u) /\ w.step = u.step
        BY <1>9, <3>1, <3>2 DEF Aligned
      <3>4. \A a \in V, type \in VoteTypes :
              \/ Carried(w, u)[a].votes[type] = u.rows[a].votes[type]
              \/ /\ Carried(w, u)[a].votes[type] = AbsentVote
                 /\ \E m \in F \cup {e} : IsVote(m, u) /\ m.vote.addr = a /\ m.vote.type = type
        BY <1>9, <3>1, <3>2 DEF Aligned
      <3>5. (\A m \in F \cup {e} : ~Marks(m, u)) => \A a \in V : Carried(w, u)[a].proposer = u.rows[a].proposer
        BY <1>9, <3>1, <3>2 DEF Aligned
      <3> QED BY <2>1, <2>2, <2>3, <2>4, <2>5, <3>3, <3>4, <3>5 DEF Aligned
    <2>8. CASE ~There(t, u)
      <3>1. u.height = h + 1 /\ u.round = 0 /\ u.step = 1 /\ u.rows = [a \in V |-> EmptyRow]
        BY <1>4, <1>6, <2>8
      <3>2. Carried(w, u) = [a \in V |-> EmptyRow]
        BY <2>1, <2>2, <2>8, CarriedRows
      <3>3. Leads(V, e, u)
        BY <1>5, <3>1 DEF Leads
      <3>4. \A a \in V : Carried(w, u)[a] = u.rows[a]
        BY <3>1, <3>2
      <3> QED BY <2>1, <2>2, <2>3, <2>4, <2>5, <3>3, <3>4 DEF Aligned
    <2> QED BY <2>7, <2>8
  <1>10. ASSUME There(t, u), NEW p, Flagged(V, t, p) PROVE Flagged(V, u, p)
    <2>1. u.height = t.height /\ u.round = t.round /\ u.rows = t.rows
      BY <1>2, <1>4, <1>6, <1>10
    <2> QED BY <1>10, <2>1 DEF Flagged
  <1>11. ~Marks(e, u)
    BY DEF Marks
  <1> QED BY <1>6, <1>7, <1>8, <1>9, <1>10, <1>11 DEF Tidings

(* The vote of a validator that is not on display.                         *)
LEMMA TidingsUnlisted ==
  ASSUME NEW V, NEW t, Neat(V, t), t.height > 0, NEW e \in Messages, e.type = "vote.received",
         e.vote.addr \notin V, Target(e).height > 0, Target(e).round >= 0, Target(e).step >= 1,
         Upto(Target(e), t)
  PROVE  Tidings(V, t, e, t)
  <1>1. t.height \in Nat /\ t.round \in Nat /\ t.step \in Nat
    BY NeatParts
  <1>2. Upto(t, t)
    BY <1>1 DEF Upto
  <1>3. SentOK(V, t, e)
    BY DEF SentOK
  <1>4. ~Leads(V, e, t) /\ ~Marks(e, t)
    BY DEF Leads, Marks
  <1>5. ASSUME NEW w, NEW F, Aligned(V, w, t, F) PROVE Aligned(V, w, t, F \cup {e})
    <2>1. /\ Neat(V, w) /\ Upto(w, t) /\ w.committed <= t.committed
          /\ w.height = 0 => \A m \in F \cup {e} : m.type = "block.committed" => m.height > w.committed
      BY <1>5 DEF Aligned
    <2>2. (\A m \in F \cup {e} : ~Leads(V, m, t)) => There(w, t) /\ w.step = t.step
      BY <1>5 DEF Aligned
    <2>3. (\A m \in F \cup {e} : m.type = "block.committed" => m.height # t.committed) => w.committed = t.committed
      BY <1>5 DEF Aligned
    <2>4. \A a \in V, type \in VoteTypes :
            \/ Carried(w, t)[a].votes[type] = t.rows[a].votes[type]
            \/ /\ Carried(w, t)[a].votes[type] = AbsentVote
               /\ \E m \in F \cup {e} : IsVote(m, t) /\ m.vote.addr = a /\ m.vote.type = type
      BY <1>5 DEF Aligned
    <2>5. (\A m \in F \cup {e} : ~Marks(m, t)) => \A a \in V : Carried(w, t)[a].proposer = t.rows[a].proposer
      BY <1>5 DEF Aligned
    <2> QED BY <2>1, <2>2, <2>3, <2>4, <2>5 DEF Aligned
  <1> QED BY <1>2, <1>3, <1>4, <1>5 DEF Tidings

(* What a publisher tells is news to a display that is up to date.         *)
News(V, t, e) ==
  /\ e \in Messages /\ Target(e).height > 0 /\ Target(e).round >= 0 /\ Target(e).step >= 1
  /\ IF e.type = "block.committed" THEN e.height > t.committed
     ELSE /\ ~Outdated(t, Target(e).height, Target(e).round)
          /\ e.type = "vote.received" =>
               IF e.vote.addr \in V THEN Fits(V, t, Target(e), e.vote) ELSE t.height > 0 /\ Upto(Target(e), t)

(* The display that takes the news.                                        *)
LEMMA NewsTidings ==
  ASSUME NEW V, NEW t, Neat(V, t), NEW e, News(V, t, e), NEW u, u = Reduce(t, e), Neat(V, u)
  PROVE  Tidings(V, t, e, u)
  <1>1. e \in Messages /\ t \in ViewData(V)
    BY NeatParts DEF News
  <1>2. PICK q : q = Target(e)
    OBVIOUS
  <1>3. q.height > 0 /\ q.round >= 0 /\ q.step >= 1 /\ q.height \in Int /\ q.round \in Int /\ q.step \in Nat
    BY <1>1, <1>2, TargetPlace DEF News, Places
  <1>4. CASE e \in [type : {"vote.received"}, vote : Votes]
    <2>1. PICK v \in Votes : v = e.vote
      BY <1>4
    <2>2. e.type = "vote.received" /\ q = Place(v.height, v.round, StepOf(v.type)) /\ u = VoteReceived(t, v)
      BY <1>2, <1>4, <2>1 DEF Target, Reduce
    <2>3. q.height = v.height /\ q.round = v.round /\ v.type \in VoteTypes
      BY <2>2 DEF Place, Votes
    <2>4. ~Outdated(t, v.height, v.round) /\ ~Outdated(t, q.height, q.round)
      BY <1>2, <2>2, <2>3 DEF News
    <2>5. /\ Outdated(t, v.height, v.round) \/ ~Fits(V, t, q, v) => u = t
          /\ ~Outdated(t, v.height, v.round) /\ Fits(V, t, q, v) =>
               Seated(V, t, q, u) /\ Fills(V, u.rows, Carried(t, q), v)
      BY <1>1, <2>2, VoteIs
    <2>6. CASE v.addr \in V
      <3>1. Fits(V, t, q, v)
        BY <1>2, <2>1, <2>2, <2>6 DEF News
      <3>2. Seated(V, t, q, u) /\ Fills(V, u.rows, Carried(t, q), v)
        BY <2>4, <2>5, <3>1
      <3>3. There(q, u)
        BY <3>2 DEF Seated, There
      <3>4. IsVote(e, u) /\ ~Marks(e, u)
        BY <1>2, <2>2, <3>3 DEF IsVote, Marks
      <3>5. Carried(t, q)[v.addr].votes[v.type] = AbsentVote
        BY <2>3, <2>6, <3>1, CarriedNeat DEF Fits
      <3>6. \A a \in V, type \in VoteTypes :
              \/ u.rows[a].votes[type] = Carried(t, q)[a].votes[type]
              \/ /\ IsVote(e, u) /\ e.vote.addr = a /\ e.vote.type = type
                 /\ Carried(t, q)[a].votes[type] = AbsentVote
        BY <2>1, <3>2, <3>4, <3>5 DEF Fills
      <3>7. u.rows[e.vote.addr].votes[e.vote.type] = CellOf(e.vote)
        BY <2>1, <2>3, <2>6, <3>2 DEF Fills
      <3>8. \A a \in V : u.rows[a].proposer = Carried(t, q)[a].proposer
        BY <3>2 DEF Fills
      <3>9. e.type # "block.committed" /\ e.vote.addr \in V
        BY <2>1, <2>2, <2>6
      <3> QED BY SMTT(30), <1>1, <1>2, <1>3, <2>4, <3>2, <3>4, <3>6, <3>7, <3>8, <3>9, TidingsSeated
    <2>7. CASE v.addr \notin V
      <3>1. u = t
        BY <2>5, <2>7 DEF Fits
      <3>2. t.height > 0 /\ Upto(Target(e), t)
        BY <2>1, <2>2, <2>7 DEF News
      <3> QED BY <1>1, <1>2, <1>3, <2>1, <2>2, <2>7, <3>1, <3>2, TidingsUnlisted
    <2> QED BY <2>6, <2>7
  <1>5. CASE e \in [type : {"round.changed"}, height : Int, round : Int, step : Nat, proposer : Proposers]
    <2>1. /\ e.type = "round.changed" /\ e.height \in Int /\ e.round \in Int /\ e.step \in Nat
          /\ q = Place(e.height, e.round, e.step) /\ u = RoundChanged(t, e)
      BY <1>2, <1>5 DEF Target, Reduce
    <2>2. q.height = e.height /\ q.round = e.round
      BY <2>1 DEF Place
    <2>3. ~Outdated(t, e.height, e.round) /\ ~Outdated(t, q.height, q.round)
      BY <1>2, <2>1, <2>2 DEF News
    <2>4. Seated(V, t, q, u) /\ Marked(V, u.rows, Carried(t, q), e.proposer, q)
      BY <1>1, <2>1, <2>3, RoundIs
    <2>5. There(q, u)
      BY <2>4 DEF Seated, There
    <2>6. Marks(e, u) <=> e.proposer # NoProposer
      BY <1>2, <2>1, <2>5 DEF Marks
    <2>7. Marks(e, u) \/ \A a \in V : u.rows[a].proposer = Carried(t, q)[a].proposer
      BY <2>4, <2>6 DEF Marked
    <2>8. Marks(e, u) => Flagged(V, u, e.proposer)
      BY <2>4, <2>5, <2>6 DEF Marked, Flagged, There
    <2>9. \A a \in V, type \in VoteTypes : u.rows[a].votes[type] = Carried(t, q)[a].votes[type]
      BY <2>4 DEF Marked
    <2>10. e.type # "block.committed" /\ e.type # "vote.received"
      BY <2>1
    <2> QED BY <1>1, <1>2, <1>3, <2>3, <2>4, <2>7, <2>8, <2>9, <2>10, TidingsSeated
  <1>6. CASE e \in [type : {"block.committed"}, height : Int]
    <2>1. e.type = "block.committed" /\ e.height \in Int /\ e.height > t.committed
      BY <1>6 DEF News
    <2> QED BY <1>1, <2>1, TidingsCommit
  <1> QED BY <1>1, <1>4, <1>5, <1>6 DEF Messages

-----------------------------------------------------------------------------
(* What the collector does, seen from the browser *)

(* A snapshot of a state.                                                  *)
LEMMA SnapshotIs ==
  ASSUME NEW V, NEW d, DataOK(V, d)
  PROVE  LET w == ViewOf(d) IN
         /\ w \in ViewData(V) /\ w.height = d.height /\ w.round = d.round /\ w.step = d.step
         /\ w.committed = d.lastCommittedHeight /\ w.rows = d.lastRound.rows /\ DOMAIN d.lastRound.rows = V
         /\ d.height \in Nat /\ d.round \in Nat /\ d.step \in Nat /\ d.lastCommittedHeight \in Nat
         /\ d.lastRound \in RoundView(V) /\ d.lastRound.rows \in [V -> Row]
  <1>1. /\ d.height \in Nat /\ d.round \in Nat /\ d.step \in Nat /\ d.lastCommittedHeight \in Nat
        /\ d.lastRound \in RoundView(V)
    BY DEF DataOK, StateData
  <1>2. d.lastRound.rows \in [V -> Row] /\ DOMAIN d.lastRound.rows = V
    BY <1>1 DEF RoundView
  <1> QED BY <1>1, <1>2 DEF ViewOf, ViewData

(* RestartView clears the rows; a nil LastRound has none.                  *)
LEMMA RestartClears ==
  ASSUME NEW V, NEW d, DataOK(V, d), NEW r
  PROVE  RestartView(d.lastRound, r).rows = ClearVotes(d.lastRound.rows)
  <1>1. d.lastRound \in RoundView(V) /\ d.lastRound.rows \in [V -> Row] /\ DOMAIN d.lastRound.rows = V
    BY SnapshotIs
  <1>2. CASE d.lastRound.loaded
    <2>1. PICK c : c = ClearRoundVotes(d.lastRound)
      OBVIOUS
    <2>2. c = [d.lastRound EXCEPT !.rows = ClearVotes(d.lastRound.rows)]
      BY <1>1, <2>1 DEF ClearRoundVotes, ClearVotes, RoundView
    <2>3. c = [loaded |-> d.lastRound.loaded, round |-> d.lastRound.round, rows |-> ClearVotes(d.lastRound.rows)]
      BY <1>1, <2>2 DEF RoundView
    <2>4. RestartView(d.lastRound, r) = [c EXCEPT !.round = r]
      BY <1>2, <2>1 DEF RestartView
    <2> QED BY <2>3, <2>4
  <1>3. CASE ~d.lastRound.loaded
    <2>1. V = {}
      BY <1>3 DEF DataOK, ViewOK
    <2>2. RestartView(d.lastRound, r) = d.lastRound
      BY <1>3 DEF RestartView
    <2>3. d.lastRound.rows = [a \in V |-> EmptyRow]
      BY <1>1, <2>1
    <2> QED BY <1>1, <2>2, <2>3 DEF ClearVotes
  <1> QED BY <1>1, <1>2, <1>3 DEF RoundView

(* advanceRound and the browser's move are the same.                       *)
LEMMA AdvanceIsMove ==
  ASSUME NEW V, NEW d, DataOK(V, d), NEW h \in Int, NEW r \in Int, NEW step \in Nat, Advances(d, h, r)
  PROVE  /\ ViewOf(AdvanceRound(d, h, r, step)) = MoveTo(ViewOf(d), h, r, step)
         /\ ~Outdated(ViewOf(d), h, r)
  <1>1. PICK w : w = ViewOf(d)
    OBVIOUS
  <1>2. /\ w \in ViewData(V) /\ w.height = d.height /\ w.round = d.round /\ w.step = d.step
        /\ w.committed = d.lastCommittedHeight /\ w.rows = d.lastRound.rows
        /\ d.height \in Nat /\ d.round \in Nat /\ d.step \in Nat /\ d.lastCommittedHeight \in Nat
    BY <1>1, SnapshotIs
  <1>3. ~Outdated(w, h, r)
    BY <1>2 DEF Outdated, Advances
  <1>4. PICK e : e = AdvanceRound(d, h, r, step)
    OBVIOUS
  <1>5. CASE h # d.height \/ r # d.round
    <2>1. h > w.height \/ r > w.round
      BY <1>2, <1>5 DEF Advances
    <2>2. PICK lr : lr = RestartView(d.lastRound, r)
      OBVIOUS
    <2>3. e = [d EXCEPT !.height = h, !.round = r, !.step = step, !.lastRound = lr]
      BY <1>4, <1>5, <2>2 DEF AdvanceRound
    <2>4. /\ e.height = h /\ e.round = r /\ e.step = step /\ e.lastRound = lr
          /\ e.lastCommittedHeight = d.lastCommittedHeight
      BY <2>3 DEF DataOK, StateData
    <2>5. PICK rows : rows = ClearVotes(w.rows)
      OBVIOUS
    <2>6. lr.rows = rows
      BY <1>2, <2>2, <2>5, RestartClears
    <2>7. MoveTo(w, h, r, step) = [w EXCEPT !.height = h, !.round = r, !.step = step, !.rows = rows]
      BY <2>1, <2>5 DEF MoveTo
    <2>8. MoveTo(w, h, r, step)
            = [height |-> h, round |-> r, step |-> step, committed |-> w.committed, rows |-> rows]
      BY <1>2, <2>7 DEF ViewData
    <2>9. ViewOf(e) = [height |-> h, round |-> r, step |-> step, committed |-> w.committed, rows |-> rows]
      BY <1>2, <2>4, <2>6 DEF ViewOf
    <2> QED BY <1>1, <1>3, <1>4, <2>8, <2>9
  <1>6. CASE h = d.height /\ r = d.round
    <2>1. ~(h > w.height \/ r > w.round)
      BY <1>2, <1>6
    <2>2. PICK st : st = Greater(step, d.step)
      OBVIOUS
    <2>3. Greater(w.step, step) = st
      BY <1>2, <2>2 DEF Greater
    <2>4. e = [d EXCEPT !.step = st]
      BY <1>4, <1>6, <2>2 DEF AdvanceRound
    <2>5. /\ e.height = h /\ e.round = r /\ e.step = st /\ e.lastRound = d.lastRound
          /\ e.lastCommittedHeight = d.lastCommittedHeight
      BY <1>6, <2>4 DEF DataOK, StateData
    <2>6. MoveTo(w, h, r, step) = [w EXCEPT !.height = h, !.round = r, !.step = st]
      BY <2>1, <2>3 DEF MoveTo
    <2>7. MoveTo(w, h, r, step)
            = [height |-> h, round |-> r, step |-> st, committed |-> w.committed, rows |-> w.rows]
      BY <1>2, <2>6 DEF ViewData
    <2>8. ViewOf(e) = [height |-> h, round |-> r, step |-> st, committed |-> w.committed, rows |-> w.rows]
      BY <1>2, <2>5 DEF ViewOf
    <2> QED BY <1>1, <1>3, <1>4, <2>7, <2>8
  <1> QED BY <1>5, <1>6

(* A display that has moved, by a vote, a round or no patch at all.        *)
LEMMA SeatedNeat ==
  ASSUME NEW V, NEW w, Neat(V, w), NEW q, q.height \in Int, q.round \in Int, q.step \in Nat,
         q.round >= 0, q.step >= 1, ~Outdated(w, q.height, q.round), NEW x, Seated(V, w, q, x),
         \A a \in V, type \in VoteTypes :
           \/ x.rows[a].votes[type] = Carried(w, q)[a].votes[type]
           \/ x.rows[a].votes[type].kind # "absent" /\ q.step >= StepOf(type)
  PROVE  Neat(V, x)
  <1>1. w.height \in Nat /\ w.round \in Nat /\ w.step \in Nat /\ w.committed \in Nat
    BY NeatParts
  <1>2. /\ x \in ViewData(V) /\ x.height > 0 /\ x.round >= 0 /\ x.step >= 1 /\ x.committed >= 0
        /\ x.height > x.committed /\ (There(w, q) => x.step >= w.step) /\ x.step >= q.step /\ x.step \in Nat
    BY <1>1 DEF Seated, Outdated, Greater
  <1>3. \A type : StepOf(type) \in Nat
    BY DEF StepOf
  <1>4. \A a \in V, type \in VoteTypes :
          \/ x.rows[a].votes[type] = Carried(w, q)[a].votes[type]
          \/ x.rows[a].votes[type].kind # "absent" /\ x.step >= StepOf(type)
    BY <1>2, <1>3
  <1> QED BY <1>2, <1>4, RowsNeat

(* advanceRound keeps the display neat.                                    *)
LEMMA AdvanceNeat ==
  ASSUME NEW V, NEW d, DataOK(V, d), Neat(V, ViewOf(d)), NEW h \in Int, NEW r \in Int, NEW step \in Nat, step >= 1
  PROVE  Neat(V, ViewOf(AdvanceRound(d, h, r, step)))
  <1>1. CASE ~Advances(d, h, r)
    BY <1>1 DEF AdvanceRound
  <1>2. CASE Advances(d, h, r)
    <2>1. PICK w : w = ViewOf(d)
      OBVIOUS
    <2>2. PICK q : q = Place(h, r, step)
      OBVIOUS
    <2>3. q.height = h /\ q.round = r /\ q.step = step /\ r >= 0
      BY <1>2, <2>2 DEF Place, Advances
    <2>4. PICK x : x = MoveTo(w, h, r, step)
      OBVIOUS
    <2>5. w \in ViewData(V) /\ Neat(V, w)
      BY <2>1, NeatParts
    <2>6. ~Outdated(w, h, r) /\ ViewOf(AdvanceRound(d, h, r, step)) = x
      BY <1>2, <2>1, <2>4, AdvanceIsMove
    <2>7. Seated(V, w, q, x) /\ x.rows = Carried(w, q)
      BY <2>2, <2>4, <2>5, <2>6, MoveToIs
    <2>8. \A a \in V, type \in VoteTypes :
            \/ x.rows[a].votes[type] = Carried(w, q)[a].votes[type]
            \/ x.rows[a].votes[type].kind # "absent" /\ q.step >= StepOf(type)
      BY <2>7
    <2>9. Neat(V, x)
      BY <2>3, <2>5, <2>6, <2>7, <2>8, SeatedNeat
    <2> QED BY <2>6, <2>9
  <1> QED BY <1>1, <1>2

(* Rows that show nothing are neat.                                        *)
LEMMA BlankNeat ==
  ASSUME NEW V, NEW x \in ViewData(V), x.rows = [a \in V |-> EmptyRow], x.height >= 0, x.round >= 0,
         x.committed >= 0, x.height > 0 => x.step >= 1 /\ x.height > x.committed
  PROVE  Neat(V, x)
  <1>1. \A a \in V, type \in VoteTypes : x.rows[a].votes[type] = AbsentVote
    BY DEF EmptyRow
  <1>2. AbsentVote.kind = "absent"
    BY DEF AbsentVote
  <1>3. x.height \in Int
    BY ViewParts
  <1> QED BY <1>1, <1>2, <1>3 DEF Neat

(* News keeps the display neat.                                            *)
LEMMA NewsNeat ==
  ASSUME NEW V, NEW t, Neat(V, t), NEW e, News(V, t, e)
  PROVE  Neat(V, Reduce(t, e))
  <1>0. PICK u : u = Reduce(t, e)
    OBVIOUS
  <1>1. e \in Messages /\ t \in ViewData(V)
    BY NeatParts DEF News
  <1>2. PICK q : q = Target(e)
    OBVIOUS
  <1>3. q.height > 0 /\ q.round >= 0 /\ q.step >= 1 /\ q.height \in Int /\ q.round \in Int /\ q.step \in Nat
    BY <1>1, <1>2, TargetPlace DEF News, Places
  <1>4. CASE e \in [type : {"vote.received"}, vote : Votes]
    <2>1. PICK v \in Votes : v = e.vote
      BY <1>4
    <2>2. e.type = "vote.received" /\ q = Place(v.height, v.round, StepOf(v.type)) /\ u = VoteReceived(t, v)
      BY <1>0, <1>2, <1>4, <2>1 DEF Target, Reduce
    <2>3. q.height = v.height /\ q.round = v.round /\ q.step = StepOf(v.type)
      BY <2>2 DEF Place
    <2>4. ~Outdated(t, v.height, v.round) /\ ~Outdated(t, q.height, q.round)
      BY <1>2, <2>2, <2>3 DEF News
    <2>5. /\ Outdated(t, v.height, v.round) \/ ~Fits(V, t, q, v) => u = t
          /\ ~Outdated(t, v.height, v.round) /\ Fits(V, t, q, v) =>
               Seated(V, t, q, u) /\ Fills(V, u.rows, Carried(t, q), v)
      BY <1>1, <2>2, VoteIs
    <2>6. CASE ~Fits(V, t, q, v)
      BY <1>0, <2>5, <2>6
    <2>7. CASE Fits(V, t, q, v)
      <3>1. Seated(V, t, q, u) /\ Fills(V, u.rows, Carried(t, q), v)
        BY <2>4, <2>5, <2>7
      <3>2. CellOf(v).kind # "absent"
        BY DEF CellOf
      <3>3. q.step >= StepOf(v.type)
        BY <1>3, <2>3
      <3>4. \A a \in V, type \in VoteTypes :
              \/ u.rows[a].votes[type] = Carried(t, q)[a].votes[type]
              \/ u.rows[a].votes[type].kind # "absent" /\ q.step >= StepOf(type)
        BY <3>1, <3>2, <3>3 DEF Fills
      <3> QED BY <1>0, <1>3, <2>4, <3>1, <3>4, SeatedNeat
    <2> QED BY <2>6, <2>7
  <1>5. CASE e \in [type : {"round.changed"}, height : Int, round : Int, step : Nat, proposer : Proposers]
    <2>1. /\ e.type = "round.changed" /\ e.height \in Int /\ e.round \in Int /\ e.step \in Nat
          /\ q = Place(e.height, e.round, e.step) /\ u = RoundChanged(t, e)
      BY <1>0, <1>2, <1>5 DEF Target, Reduce
    <2>2. q.height = e.height /\ q.round = e.round
      BY <2>1 DEF Place
    <2>3. ~Outdated(t, e.height, e.round) /\ ~Outdated(t, q.height, q.round)
      BY <1>2, <2>1, <2>2 DEF News
    <2>4. Seated(V, t, q, u) /\ Marked(V, u.rows, Carried(t, q), e.proposer, q)
      BY <1>1, <2>1, <2>3, RoundIs
    <2>5. \A a \in V, type \in VoteTypes :
            \/ u.rows[a].votes[type] = Carried(t, q)[a].votes[type]
            \/ u.rows[a].votes[type].kind # "absent" /\ q.step >= StepOf(type)
      BY <2>4 DEF Marked
    <2> QED BY <1>0, <1>3, <2>3, <2>4, <2>5, SeatedNeat
  <1>6. CASE e \in [type : {"block.committed"}, height : Int]
    <2>1. PICK h \in Int : h = e.height
      BY <1>6
    <2>2. e.type = "block.committed" /\ h > t.committed /\ u = BlockCommitted(t, h)
      BY <1>0, <1>6, <2>1 DEF News, Reduce
    <2>3. t.height \in Nat /\ t.round \in Nat /\ t.step \in Nat /\ t.committed \in Nat /\ (t.height > 0 => t.step >= 1)
      BY NeatParts
    <2>4. /\ t.height <= h =>
               /\ u \in ViewData(V) /\ u.height = h + 1 /\ u.round = 0 /\ u.step = 1 /\ u.committed = h
               /\ u.rows = [a \in V |-> EmptyRow]
          /\ t.height > h =>
               /\ u \in ViewData(V) /\ u.height = t.height /\ u.round = t.round /\ u.step = t.step
               /\ u.committed = h /\ u.rows = t.rows
      BY <1>1, <2>2, CommitIs
    <2>5. CASE t.height <= h
      <3>1. /\ u \in ViewData(V) /\ u.height >= 0 /\ u.round >= 0 /\ u.step >= 1 /\ u.committed >= 0
            /\ u.height > u.committed /\ u.rows = [a \in V |-> EmptyRow]
        BY <2>2, <2>3, <2>4, <2>5
      <3> QED BY <1>0, <3>1, BlankNeat
    <2>6. CASE t.height > h
      <3>1. Neat(V, u)
        BY <2>2, <2>3, <2>4, <2>6 DEF Neat
      <3> QED BY <1>0, <3>1
    <2> QED BY <2>3, <2>5, <2>6
  <1> QED BY <1>1, <1>4, <1>5, <1>6 DEF Messages

(* Another round view shows other rows.                                    *)
LEMMA ReplacedRows ==
  ASSUME NEW V, NEW d, DataOK(V, d), NEW lr, NEW rows, lr.rows = rows
  PROVE  ViewOf([d EXCEPT !.lastRound = lr]) = [ViewOf(d) EXCEPT !.rows = rows]
  <1>1. PICK e : e = [d EXCEPT !.lastRound = lr]
    OBVIOUS
  <1>2. /\ e.height = d.height /\ e.round = d.round /\ e.step = d.step
        /\ e.lastCommittedHeight = d.lastCommittedHeight /\ e.lastRound = lr
    BY <1>1 DEF DataOK, StateData
  <1>3. ViewOf(e) = [height |-> d.height, round |-> d.round, step |-> d.step,
                     committed |-> d.lastCommittedHeight, rows |-> rows]
    BY <1>2 DEF ViewOf
  <1>4. [ViewOf(d) EXCEPT !.rows = rows]
          = [height |-> d.height, round |-> d.round, step |-> d.step,
             committed |-> d.lastCommittedHeight, rows |-> rows]
    BY DEF ViewOf
  <1> QED BY <1>1, <1>3, <1>4

(* A state that differs elsewhere looks the same.                          *)
LEMMA SameView ==
  ASSUME NEW d, NEW e, e.height = d.height, e.round = d.round, e.step = d.step,
         e.lastCommittedHeight = d.lastCommittedHeight, e.lastRound = d.lastRound
  PROVE  ViewOf(e) = ViewOf(d)
  BY DEF ViewOf

(* The first Mutate of a reply changes the health only.                    *)
LEMMA HTTPSuccessView ==
  ASSUME NEW d, Sound(d), NEW V, DataOK(V, d)
  PROVE  LET e == RecordHTTPSuccess(d) IN
         DataOK(V, e) /\ ViewOf(e) = ViewOf(d) /\ \A h, r : Advances(e, h, r) <=> Advances(d, h, r)
  <1>1. PICK health : health = [d.health EXCEPT !.http = "fresh"]
    OBVIOUS
  <1>2. PICK e : e = RecordHTTPSuccess(d)
    OBVIOUS
  <1>3. e = [d EXCEPT !.health = health]
    BY <1>1, <1>2 DEF RecordHTTPSuccess
  <1>4. health \in Health
    BY <1>1 DEF DataOK, StateData, Health, Freshness
  <1>5. /\ e \in StateData(V) /\ e.height = d.height /\ e.round = d.round /\ e.step = d.step
        /\ e.lastCommittedHeight = d.lastCommittedHeight /\ e.lastRound = d.lastRound
    BY <1>3, <1>4 DEF DataOK, StateData
  <1>6. ViewOf(e) = ViewOf(d)
    BY <1>5, SameView
  <1>7. DataOK(V, e)
    BY <1>5 DEF DataOK
  <1> QED BY <1>2, <1>5, <1>6, <1>7 DEF Advances

(* The callback of a block that was committed.                             *)
LEMMA CommitSeen ==
  ASSUME NEW V, NEW d, Sound(d), DataOK(V, d), Neat(V, ViewOf(d)), NEW h \in Int, AcceptsBlock(d, h),
         NEW m, m = [type |-> "block.committed", height |-> h]
  PROVE  LET e == CommitBlock(d, h) IN
         /\ Neat(V, ViewOf(e))
         /\ h > d.lastCommittedHeight => News(V, ViewOf(d), m) /\ ViewOf(e) = Reduce(ViewOf(d), m)
  <1>1. PICK w : w = ViewOf(d)
    OBVIOUS
  <1>2. /\ w \in ViewData(V) /\ w.height = d.height /\ w.round = d.round /\ w.step = d.step
        /\ w.committed = d.lastCommittedHeight /\ w.rows = d.lastRound.rows
        /\ d.height \in Nat /\ d.round \in Nat /\ d.step \in Nat /\ d.lastCommittedHeight \in Nat
    BY <1>1, SnapshotIs
  <1>3. /\ Greater(h, d.lastCommittedHeight) = h /\ h \in Nat /\ h > 0 /\ h >= d.lastCommittedHeight
        /\ (w.height > 0 => w.step >= 1)
    BY <1>1, <1>2, NeatParts DEF AcceptsBlock, Greater
  <1>4. PICK blocks \in Seq(Nat) : blocks = AppendBlock(d.blocks, h)
    <2>1. Ordered(d.blocks, h)
      BY <1>2, <1>3, OrderedUp DEF Sound, DataOK, StateData
    <2>2. d.blocks \in Seq(Nat)
      BY DEF DataOK, StateData
    <2>3. AppendBlock(d.blocks, h) \in Seq(Nat)
      BY <1>3, <2>1, <2>2, AppendBlockOrdered
    <2> QED BY <2>3
  <1>5. PICK d1 : d1 = [d EXCEPT !.lastCommittedHeight = h, !.blocks = blocks]
    OBVIOUS
  <1>6. /\ d1 \in StateData(V) /\ d1.height = d.height /\ d1.round = d.round /\ d1.step = d.step
        /\ d1.lastCommittedHeight = h /\ d1.lastRound = d.lastRound
    BY <1>3, <1>5 DEF DataOK, StateData
  <1>7. DataOK(V, d1)
    BY <1>6 DEF DataOK
  <1>8. PICK e : e = AdvanceRound(d1, h + 1, 0, 1)
    OBVIOUS
  <1>9. CommitBlock(d, h) = e
    BY <1>3, <1>4, <1>5, <1>8 DEF CommitBlock
  <1>10. CASE h = d.lastCommittedHeight
    <2>1. ViewOf(d1) = w
      BY <1>1, <1>6, <1>10, SameView
    <2>2. h + 1 \in Int /\ 0 \in Int /\ 1 \in Nat /\ 1 >= 1
      OBVIOUS
    <2>3. Neat(V, ViewOf(e))
      BY <1>1, <1>7, <1>8, <2>1, <2>2, AdvanceNeat
    <2> QED BY <1>2, <1>9, <1>10, <2>3
  <1>11. CASE h > d.lastCommittedHeight
    <2>1. m \in Messages /\ m.type = "block.committed" /\ m.height = h
      BY DEF Messages
    <2>2. News(V, w, m)
      <3>1. Target(m) = Place(h + 1, 0, 1)
        BY <2>1 DEF Target
      <3>2. Target(m).height = h + 1 /\ Target(m).round = 0 /\ Target(m).step = 1
        BY <3>1 DEF Place
      <3> QED BY <1>2, <1>3, <1>11, <2>1, <3>2 DEF News
    <2>3. PICK w1 : w1 = [w EXCEPT !.committed = h]
      OBVIOUS
    <2>4. ViewOf(d1) = w1
      <3>1. w1 = [height |-> d.height, round |-> d.round, step |-> d.step, committed |-> h,
                  rows |-> d.lastRound.rows]
        BY <1>1, <2>3 DEF ViewOf
      <3> QED BY <1>6, <3>1 DEF ViewOf
    <2>5. w1 \in ViewData(V) /\ w1.height = w.height /\ w1.round = w.round /\ w1.step = w.step
          /\ w1.committed = h /\ w1.rows = w.rows
      BY <1>2, <1>3, <2>3 DEF ViewData
    <2>6. Reduce(w, m) = BlockCommitted(w, h)
      BY <2>1 DEF Reduce
    <2>7. h + 1 \in Int /\ 0 \in Int /\ 1 \in Nat
      OBVIOUS
    <2>8. ViewOf(e) = BlockCommitted(w, h)
      <3>1. CASE w.height <= h
        <4>1. Advances(d1, h + 1, 0)
          BY <1>2, <1>3, <1>6, <3>1, DashboardDomains DEF Advances
        <4>2. ViewOf(e) = MoveTo(w1, h + 1, 0, 1)
          BY <1>7, <1>8, <2>4, <2>7, <4>1, AdvanceIsMove
        <4>3. PICK rows : rows = ClearVotes(w.rows)
          OBVIOUS
        <4>4. MoveTo(w1, h + 1, 0, 1)
                = [w1 EXCEPT !.height = h + 1, !.round = 0, !.step = 1, !.rows = rows]
          BY <1>2, <1>3, <2>5, <3>1, <4>3 DEF MoveTo
        <4>5. BlockCommitted(w, h)
                = [w EXCEPT !.committed = h, !.height = h + 1, !.round = 0, !.step = 1, !.rows = rows]
          BY <1>2, <1>11, <3>1, <4>3 DEF BlockCommitted
        <4>6. [w1 EXCEPT !.height = h + 1, !.round = 0, !.step = 1, !.rows = rows]
                = [w EXCEPT !.committed = h, !.height = h + 1, !.round = 0, !.step = 1, !.rows = rows]
          BY <1>2, <2>3 DEF ViewData
        <4> QED BY <4>2, <4>4, <4>5, <4>6
      <3>2. CASE w.height > h
        <4>1. BlockCommitted(w, h) = w1
          BY <1>2, <1>3, <1>11, <2>3, <3>2 DEF BlockCommitted
        <4>2. CASE ~Advances(d1, h + 1, 0)
          BY <1>8, <2>4, <4>1, <4>2 DEF AdvanceRound
        <4>3. CASE Advances(d1, h + 1, 0)
          <5>1. ViewOf(e) = MoveTo(w1, h + 1, 0, 1)
            BY <1>7, <1>8, <2>4, <2>7, <4>3, AdvanceIsMove
          <5>2. w.height = h + 1 /\ w.round = 0
            BY <1>2, <1>3, <1>6, <3>2, <4>3 DEF Advances
          <5>3. Greater(w1.step, 1) = w1.step
            BY <1>2, <1>3, <2>5, <5>2 DEF Greater
          <5>4. MoveTo(w1, h + 1, 0, 1)
                  = [w1 EXCEPT !.height = w1.height, !.round = w1.round, !.step = w1.step]
            <6>1. h + 1 = w1.height /\ 0 = w1.round
              BY <2>5, <5>2
            <6>2. ~(w1.height > w1.height \/ w1.round > w1.round)
              BY <1>2, <2>5
            <6>3. MoveTo(w1, w1.height, w1.round, 1)
                    = [w1 EXCEPT !.height = w1.height, !.round = w1.round, !.step = w1.step]
              BY <5>3, <6>2 DEF MoveTo
            <6> QED BY <6>1, <6>3
          <5>5. [w1 EXCEPT !.height = w1.height, !.round = w1.round, !.step = w1.step] = w1
            BY <2>5 DEF ViewData
          <5> QED BY <4>1, <5>1, <5>4, <5>5
        <4> QED BY <4>2, <4>3
      <3> QED BY <1>2, <1>3, <3>1, <3>2
    <2>9. Neat(V, ViewOf(e))
      BY <1>1, <2>2, <2>6, <2>8, NewsNeat
    <2> QED BY <1>1, <1>9, <2>2, <2>6, <2>8, <2>9
  <1> QED BY <1>2, <1>3, <1>10, <1>11

(* The callback of a new round.                                            *)
LEMMA RoundSeen ==
  ASSUME NEW V, NEW d, DataOK(V, d), Neat(V, ViewOf(d)), NEW h \in Int, NEW r \in Int,
         NEW step \in Nat, step >= 1, NEW p \in Proposers, Advances(d, h, r),
         NEW m, m = [type |-> "round.changed", height |-> h, round |-> r, step |-> step, proposer |-> p]
  PROVE  News(V, ViewOf(d), m) /\ ViewOf(StartRound(d, h, r, step, p)) = Reduce(ViewOf(d), m)
  <1>1. PICK w : w = ViewOf(d)
    OBVIOUS
  <1>2. PICK e : e = AdvanceRound(d, h, r, step)
    OBVIOUS
  <1>3. PICK w1 : w1 = MoveTo(w, h, r, step)
    OBVIOUS
  <1>4. DataOK(V, e)
    BY <1>2, AdvanceRoundOK
  <1>5. ViewOf(e) = w1 /\ ~Outdated(w, h, r)
    BY <1>1, <1>2, <1>3, AdvanceIsMove
  <1>6. m \in Messages /\ m.type = "round.changed" /\ m.height = h /\ m.round = r /\ m.step = step
        /\ m.proposer = p
    BY DEF Messages
  <1>7. News(V, w, m)
    <2>1. Target(m) = Place(h, r, step)
      BY <1>6 DEF Target
    <2>2. Target(m).height = h /\ Target(m).round = r /\ Target(m).step = step
      BY <2>1 DEF Place
    <2>3. h > 0 /\ r >= 0
      BY DEF Advances, DataOK, StateData
    <2> QED BY <1>5, <1>6, <2>2, <2>3 DEF News
  <1>8. PICK rows : rows = MarkProposer([rows |-> w1.rows], p, h, r).rows
    OBVIOUS
  <1>9. Reduce(w, m) = [w1 EXCEPT !.rows = rows]
    BY <1>3, <1>5, <1>6, <1>8 DEF Reduce, RoundChanged
  <1>10. w1.rows = e.lastRound.rows /\ e.lastRound \in RoundView(V)
    BY <1>4, <1>5, SnapshotIs
  <1>11. MarkProposer(e.lastRound, p, h, r).rows = rows
    <2>1. CASE p = NoProposer
      BY <1>8, <1>10, <2>1 DEF MarkProposer
    <2>2. CASE p # NoProposer
      BY <1>8, <1>10, <2>2 DEF MarkProposer, RoundView
    <2> QED BY <2>1, <2>2
  <1>12. PICK lr : lr = MarkProposer(e.lastRound, p, h, r)
    OBVIOUS
  <1>13. StartRound(d, h, r, step, p) = [e EXCEPT !.lastRound = lr]
    BY <1>2, <1>12 DEF StartRound
  <1>14. ViewOf([e EXCEPT !.lastRound = lr]) = [w1 EXCEPT !.rows = rows]
    BY <1>4, <1>5, <1>11, <1>12, ReplacedRows
  <1> QED BY <1>1, <1>7, <1>9, <1>13, <1>14

(* The callback of a vote.                                                 *)
LEMMA VoteSeen ==
  ASSUME NEW V, NEW d, DataOK(V, d), Neat(V, ViewOf(d)), NEW v \in Votes,
         NEW m, m = [type |-> "vote.received", vote |-> v]
  PROVE  LET w == ViewOf(d)  e == RecordVote(d, v) IN
         /\ Neat(V, ViewOf(e))
         /\ ~AcceptsVote(d, v) => ViewOf(e) = w
         /\ AcceptsVote(d, v) /\ (v.addr \notin V => ViewOf(e) = w) => News(V, w, m) /\ ViewOf(e) = Reduce(w, m)
  <1>1. PICK w : w = ViewOf(d)
    OBVIOUS
  <1>2. PICK step \in Nat : step = StepOf(v.type)
    BY DEF StepOf
  <1>3. v.height \in Int /\ v.round \in Int /\ v.type \in VoteTypes /\ step >= 1
    <2>1. v.height \in Int /\ v.round \in Int /\ v.type \in VoteTypes
      BY DashboardDomains DEF Votes
    <2>2. step >= 1
      BY <1>2 DEF StepOf
    <2> QED BY <2>1, <2>2
  <1>4. PICK d1 : d1 = AdvanceRound(d, v.height, v.round, step)
    OBVIOUS
  <1>5. DataOK(V, d1) /\ Neat(V, ViewOf(d1))
    BY <1>3, <1>4, AdvanceRoundOK, AdvanceNeat
  <1>6. PICK w1 : w1 = MoveTo(w, v.height, v.round, step)
    OBVIOUS
  <1>7. PICK q : q = Place(v.height, v.round, step)
    OBVIOUS
  <1>8. q.height = v.height /\ q.round = v.round /\ q.step = step
    BY <1>7 DEF Place
  <1>9. PICK e : e = RecordVote(d, v)
    OBVIOUS
  <1>10. m \in Messages /\ m.type = "vote.received" /\ m.vote = v /\ Target(m) = q
    BY <1>2, <1>7 DEF Messages, Target
  <1>11. /\ DOMAIN d1.lastRound.rows = V /\ ViewOf(d1).rows = d1.lastRound.rows
         /\ d1.lastRound.rows \in [V -> Row] /\ d1.lastRound \in RoundView(V)
         /\ w \in ViewData(V) /\ DOMAIN w.rows = V
    BY <1>1, <1>5, SnapshotIs
  <1>12. CASE ~Advances(d, v.height, v.round)
    <2>1. e = d /\ ~AcceptsVote(d, v)
      BY <1>9, <1>12 DEF RecordVote, AcceptsVote, AdvanceRound
    <2> QED BY <1>9, <2>1
  <1>13. CASE Advances(d, v.height, v.round)
    <2>1. ViewOf(d1) = w1 /\ ~Outdated(w, v.height, v.round)
      BY <1>1, <1>3, <1>4, <1>6, <1>13, AdvanceIsMove
    <2>2. Seated(V, w, q, w1) /\ w1.rows = Carried(w, q)
      BY <1>3, <1>6, <1>7, <1>11, <2>1, MoveToIs
    <2>3. AcceptsVote(d, v) <=> (v.addr \in V => Fits(V, w, q, v))
      BY <1>2, <1>4, <1>11, <1>13, <2>1, <2>2 DEF AcceptsVote, Shown, Fits
    <2>4. v.height > 0 /\ v.round >= 0
      <3>1. d.lastCommittedHeight \in Nat
        BY SnapshotIs
      <3> QED BY <1>3, <1>13, <3>1 DEF Advances
    <2>5. CASE ~AcceptsVote(d, v)
      <3>1. e = d1
        BY <1>2, <1>4, <1>9, <2>5 DEF RecordVote
      <3>2. v.addr \in V /\ ~Fits(V, w, q, v)
        BY <2>3, <2>5
      <3>3. There(w, q) /\ w.step >= step
        BY <1>1, <1>2, <1>3, <3>2, CarriedNeat DEF Fits
      <3>4. w.step \in Nat /\ w.height \in Nat /\ w.round \in Nat
        BY <1>1, NeatParts
      <3>5. w1.height = w.height /\ w1.round = w.round /\ w1.step = w.step /\ w1.committed = w.committed
            /\ w1.rows = w.rows /\ w1 \in ViewData(V)
        <4>1. Greater(w.step, step) = w.step
          BY <3>3, <3>4 DEF Greater
        <4> QED BY <1>8, <2>2, <3>3, <4>1 DEF Seated, There, Carried
      <3>6. w1 = w
        BY <1>11, <3>5 DEF ViewData
      <3>7. ViewOf(e) = w
        BY <2>1, <3>1, <3>6
      <3> QED BY <1>1, <1>9, <2>5, <3>7
    <2>6. CASE AcceptsVote(d, v) /\ v.addr \in V
      <3>1. Fits(V, w, q, v)
        BY <2>3, <2>6
      <3>2. News(V, w, m)
        BY <1>3, <1>8, <1>10, <2>1, <2>4, <2>6, <3>1 DEF News
      <3>3. PICK rows : rows = [w1.rows EXCEPT ![v.addr].votes[v.type] = CellOf(v)]
        OBVIOUS
      <3>4. Reduce(w, m) = [w1 EXCEPT !.rows = rows]
        <4>1. w1.rows[v.addr].votes[v.type].kind = "absent"
          BY <2>2, <3>1 DEF Fits
        <4>2. VoteReceived(w, v) = [w1 EXCEPT !.rows[v.addr].votes[v.type] = CellOf(v)]
          BY <1>2, <1>6, <1>11, <2>1, <2>6, <4>1 DEF VoteReceived
        <4>3. Reduce(w, m) = VoteReceived(w, v)
          BY <1>10 DEF Reduce
        <4> QED BY <3>3, <4>2, <4>3
      <3>5. PICK lr : lr = [d1.lastRound EXCEPT !.rows = rows]
        OBVIOUS
      <3>6. lr.rows = rows
        BY <1>11, <3>5 DEF RoundView
      <3>7. e = [d1 EXCEPT !.lastRound = lr]
        <4>1. e = [d1 EXCEPT !.lastRound.rows[v.addr].votes[v.type] = CellOf(v)]
          BY <1>2, <1>4, <1>9, <1>11, <2>6 DEF RecordVote
        <4>2. w1.rows = d1.lastRound.rows
          BY <1>11, <2>1
        <4> QED BY <3>3, <3>5, <4>1, <4>2
      <3>8. ViewOf(e) = [w1 EXCEPT !.rows = rows]
        BY <1>5, <2>1, <3>6, <3>7, ReplacedRows
      <3>9. Neat(V, ViewOf(e))
        BY <1>1, <3>2, <3>4, <3>8, NewsNeat
      <3> QED BY <1>1, <1>9, <2>6, <3>2, <3>4, <3>8, <3>9
    <2>7. CASE AcceptsVote(d, v) /\ v.addr \notin V
      <3>1. e = d1
        BY <1>2, <1>4, <1>9, <1>11, <2>7 DEF RecordVote
      <3>2. ASSUME ViewOf(e) = w PROVE News(V, w, m) /\ Reduce(w, m) = w
        <4>1. w1 = w
          BY <2>1, <3>1, <3>2
        <4>2. w.height \in Nat /\ w.round \in Nat /\ w.step \in Nat
          BY <1>1, NeatParts
        <4>3. There(q, w) /\ q.step <= w.step /\ w.height > 0
          BY <1>8, <2>2, <2>4, <4>1, <4>2 DEF Seated, There, Greater
        <4>4. Upto(q, w)
          BY <4>2, <4>3, <1>8 DEF Upto, There
        <4>5. News(V, w, m)
          BY <1>3, <1>8, <1>10, <2>1, <2>4, <2>7, <4>3, <4>4 DEF News
        <4>6. VoteReceived(w, v) = w
          BY <1>11, <2>7 DEF VoteReceived
        <4> QED BY <1>10, <4>5, <4>6 DEF Reduce
      <3> QED BY <1>1, <1>5, <1>9, <2>7, <3>1, <3>2
    <2> QED BY <2>5, <2>6, <2>7
  <1> QED BY <1>12, <1>13

(* The callback of a fallback reply.                                       *)
LEMMA FallbackSeen ==
  ASSUME NEW V, NEW d, Sound(d), DataOK(V, d), Neat(V, ViewOf(d)), NEW h \in Int, NEW r \in Int,
         NEW step \in Nat, step >= 1,
         NEW m, m = [type |-> "round.changed", height |-> h, round |-> r, step |-> step, proposer |-> NoProposer]
  PROVE  LET w == ViewOf(d)  e == ApplyFallback(d, h, r, step) IN
         /\ Neat(V, ViewOf(e))
         /\ ~AcceptsFallback(d, h, r) => ViewOf(e) = w
         /\ AcceptsFallback(d, h, r) =>
              \/ <<e.height, e.round>> = <<d.height, d.round>> /\ e.lastRound # d.lastRound
              \/ News(V, w, m) /\ ViewOf(e) = Reduce(w, m)
  <1>1. PICK w : w = ViewOf(d)
    OBVIOUS
  <1>2. PICK d0 : d0 = RecordHTTPSuccess(d)
    OBVIOUS
  <1>3. DataOK(V, d0) /\ ViewOf(d0) = w /\ (Advances(d0, h, r) <=> Advances(d, h, r))
    BY <1>1, <1>2, HTTPSuccessView
  <1>4. PICK d1 : d1 = AdvanceRound(d0, h, r, step)
    OBVIOUS
  <1>5. DataOK(V, d1) /\ Neat(V, ViewOf(d1))
    BY <1>1, <1>3, <1>4, AdvanceRoundOK, AdvanceNeat
  <1>6. PICK e : e = ApplyFallback(d, h, r, step)
    OBVIOUS
  <1>7. CASE ~AcceptsFallback(d, h, r)
    <2>1. e = d \/ e = d0
      BY <1>2, <1>3, <1>6, <1>7 DEF ApplyFallback, AcceptsFallback, AdvanceRound
    <2> QED BY <1>1, <1>3, <1>6, <1>7, <2>1
  <1>8. CASE AcceptsFallback(d, h, r)
    <2>1. Advances(d, h, r) /\ Advances(d0, h, r)
      BY <1>3, <1>8 DEF AcceptsFallback
    <2>2. PICK lr : lr = ClearRoundVotes(d1.lastRound)
      OBVIOUS
    <2>3. e = [d1 EXCEPT !.lastRound = lr]
      BY <1>2, <1>4, <1>6, <1>8, <2>2 DEF ApplyFallback, AcceptsFallback
    <2>4. /\ d1.lastRound \in RoundView(V) /\ d1.lastRound.rows \in [V -> Row]
          /\ DOMAIN d1.lastRound.rows = V /\ ViewOf(d1).rows = d1.lastRound.rows
          /\ ViewOf(d1) \in ViewData(V) /\ w \in ViewData(V) /\ d.lastRound \in RoundView(V)
          /\ w.rows = d.lastRound.rows /\ w.height = d.height /\ w.round = d.round
      BY <1>1, <1>5, SnapshotIs
    <2>5. PICK rows \in [V -> Row] : rows = [a \in V |-> EmptyRow]
      BY <2>4, EmptyRows
    <2>6. lr.rows = rows
      BY <2>2, <2>4, <2>5 DEF ClearRoundVotes, RoundView
    <2>7. PICK w1 : w1 = MoveTo(w, h, r, step)
      OBVIOUS
    <2>8. ViewOf(d1) = w1 /\ ~Outdated(w, h, r)
      BY <1>3, <1>4, <2>1, <2>7, AdvanceIsMove
    <2>9. ViewOf(e) = [w1 EXCEPT !.rows = rows]
      BY <1>5, <2>3, <2>6, <2>8, ReplacedRows
    <2>10. PICK q : q = Place(h, r, step)
      OBVIOUS
    <2>11. Seated(V, w, q, w1) /\ w1.rows = Carried(w, q) /\ q.height = h /\ q.round = r
      BY <2>4, <2>7, <2>8, <2>10, MoveToIs DEF Place
    <2>12. Neat(V, ViewOf(e))
      <3>1. PICK x : x = ViewOf(e)
        OBVIOUS
      <3>2. x \in ViewData(V) /\ x.height = w1.height /\ x.round = w1.round /\ x.step = w1.step
            /\ x.committed = w1.committed /\ x.rows = rows
        BY <2>4, <2>8, <2>9, <3>1 DEF ViewData
      <3>3. w1.height \in Nat /\ w1.round \in Nat /\ w1.step \in Nat /\ w1.committed \in Nat
            /\ (w1.height > 0 => w1.step >= 1 /\ w1.height > w1.committed)
        BY <1>5, <2>8, NeatParts
      <3> QED BY <2>5, <3>1, <3>2, <3>3, BlankNeat
    <2>13. m \in Messages /\ m.type = "round.changed" /\ m.height = h /\ m.round = r /\ m.step = step
           /\ m.proposer = NoProposer
      BY DEF Messages, Proposers
    <2>14. News(V, w, m)
      <3>1. Target(m) = Place(h, r, step)
        BY <2>13 DEF Target
      <3>2. Target(m).height = h /\ Target(m).round = r /\ Target(m).step = step
        BY <3>1 DEF Place
      <3>3. h > 0 /\ r >= 0
        BY <2>1 DEF Advances, DataOK, StateData
      <3> QED BY <2>8, <2>13, <3>2, <3>3 DEF News
    <2>15. Reduce(w, m) = w1
      <3>1. MarkProposer([rows |-> w1.rows], NoProposer, h, r).rows = w1.rows
        BY DEF MarkProposer
      <3>2. Reduce(w, m) = [w1 EXCEPT !.rows = w1.rows]
        BY <2>7, <2>8, <2>13, <3>1 DEF Reduce, RoundChanged
      <3>3. [w1 EXCEPT !.rows = w1.rows] = w1
        BY <2>4, <2>8 DEF ViewData
      <3> QED BY <3>2, <3>3
    <2>16. e.height = w1.height /\ e.round = w1.round /\ e.lastRound = lr
      BY <1>5, <2>3, <2>8 DEF DataOK, StateData, ViewOf
    <2>17. CASE There(w, q)
      <3>1. <<e.height, e.round>> = <<d.height, d.round>>
        BY <2>4, <2>11, <2>16, <2>17 DEF Seated, There
      <3>2. CASE e.lastRound # d.lastRound
        BY <1>6, <1>8, <2>12, <3>1, <3>2
      <3>3. CASE e.lastRound = d.lastRound
        <4>1. rows = w1.rows
          BY <2>4, <2>6, <2>11, <2>16, <2>17, <3>3 DEF Carried
        <4>2. [w1 EXCEPT !.rows = rows] = w1
          BY <2>4, <2>8, <4>1 DEF ViewData
        <4> QED BY <1>1, <1>6, <1>8, <2>9, <2>12, <2>14, <2>15, <4>2
      <3> QED BY <3>2, <3>3
    <2>18. CASE ~There(w, q)
      <3>1. w1.rows = rows
        BY <2>4, <2>5, <2>11, <2>18, CarriedRows
      <3>2. [w1 EXCEPT !.rows = rows] = w1
        BY <2>4, <2>8, <3>1 DEF ViewData
      <3> QED BY <1>1, <1>6, <1>8, <2>9, <2>12, <2>14, <2>15, <3>2
    <2> QED BY <2>17, <2>18
  <1> QED BY <1>7, <1>8

(* The callback of a status reply leaves nothing or what was there.        *)
LEMMA StatusSeen ==
  ASSUME NEW V, NEW d, Sound(d), DataOK(V, d), Neat(V, ViewOf(d)), NEW latest \in Int
  PROVE  Neat(V, ViewOf(ApplyStatus(d, latest)))
  <1>1. PICK w : w = ViewOf(d)
    OBVIOUS
  <1>2. PICK d1 : d1 = RecordHTTPSuccess(d)
    OBVIOUS
  <1>3. DataOK(V, d1) /\ ViewOf(d1) = w
    BY <1>1, <1>2, HTTPSuccessView
  <1>4. /\ w \in ViewData(V) /\ w.height = d.height /\ w.round = d.round /\ w.step = d.step
        /\ w.committed = d.lastCommittedHeight /\ w.rows = d.lastRound.rows /\ w.rows \in [V -> Row]
        /\ d.height \in Nat /\ d.round \in Nat /\ d.step \in Nat /\ d.lastCommittedHeight \in Nat
    BY <1>1, SnapshotIs
  <1>5. d1.lastRound.rows = w.rows
    BY <1>3, SnapshotIs
  <1>6. PICK e : e = ApplyStatus(d, latest)
    OBVIOUS
  <1>7. CASE latest <= d.lastCommittedHeight
    BY <1>1, <1>2, <1>3, <1>7 DEF ApplyStatus
  <1>8. CASE latest > d.lastCommittedHeight /\ d.height > 0 /\ d.height <= latest
    <2>1. PICK lr : lr = RestartView(d1.lastRound, 0)
      OBVIOUS
    <2>2. PICK rows \in [V -> Row] : rows = [a \in V |-> EmptyRow] /\ ClearVotes(w.rows) = rows
      BY <1>4, EmptyRows
    <2>3. lr.rows = rows
      BY <1>3, <1>5, <2>1, <2>2, RestartClears
    <2>4. e = [d1 EXCEPT !.lastCommittedHeight = latest, !.height = 0, !.round = 0, !.step = 0, !.lastRound = lr]
      BY <1>2, <1>4, <1>6, <1>8, <2>1 DEF ApplyStatus
    <2>5. e.height = 0 /\ e.round = 0 /\ e.step = 0 /\ e.lastCommittedHeight = latest /\ e.lastRound = lr
      BY <1>3, <2>4 DEF DataOK, StateData
    <2>6. PICK x : x = ViewOf(e)
      OBVIOUS
    <2>7. x = [height |-> 0, round |-> 0, step |-> 0, committed |-> latest, rows |-> rows]
      BY <2>3, <2>5, <2>6 DEF ViewOf
    <2>8. x \in ViewData(V) /\ x.height = 0 /\ x.round = 0 /\ x.committed = latest /\ x.rows = rows
      BY <2>7 DEF ViewData
    <2>9. latest >= 0
      BY <1>4, <1>8
    <2> QED BY <1>6, <2>2, <2>6, <2>8, <2>9, BlankNeat
  <1>9. CASE latest > d.lastCommittedHeight /\ ~(d.height > 0 /\ d.height <= latest)
    <2>1. e = [d1 EXCEPT !.lastCommittedHeight = latest]
      BY <1>2, <1>4, <1>6, <1>9 DEF ApplyStatus
    <2>2. /\ e.height = d1.height /\ e.round = d1.round /\ e.step = d1.step /\ e.lastCommittedHeight = latest
          /\ e.lastRound = d1.lastRound
      BY <1>3, <2>1 DEF DataOK, StateData
    <2>3. PICK x : x = ViewOf(e)
      OBVIOUS
    <2>4. w.height = d1.height /\ w.round = d1.round /\ w.step = d1.step
      BY <1>3 DEF ViewOf
    <2>5. x = [height |-> w.height, round |-> w.round, step |-> w.step, committed |-> latest, rows |-> w.rows]
      BY <1>5, <2>2, <2>3, <2>4 DEF ViewOf
    <2>6. /\ x \in ViewData(V) /\ x.height = w.height /\ x.round = w.round /\ x.step = w.step
          /\ x.committed = latest /\ x.rows = w.rows
      BY <1>4, <2>5 DEF ViewData
    <2>7. latest >= 0 /\ (x.height = 0 \/ x.height > latest)
      BY <1>4, <1>9, <2>6
    <2>8. Neat(V, x)
      BY <1>1, <2>6, <2>7 DEF Neat
    <2> QED BY <1>6, <2>3, <2>8
  <1> QED BY <1>4, <1>7, <1>8, <1>9

(* The callback of a validator set keeps votes or begins with empty rows.  *)
LEMMA ValidatorsSeen ==
  ASSUME NEW W, NEW d, DataOK(W, d), Neat(W, ViewOf(d)), NEW V, NEW vh
  PROVE  \E U : Neat(U, ViewOf(MergeValidatorRound(d, V, vh)))
  <1>1. PICK w : w = ViewOf(d)
    OBVIOUS
  <1>2. /\ w \in ViewData(W) /\ w.height = d.height /\ w.round = d.round /\ w.step = d.step
        /\ w.committed = d.lastCommittedHeight /\ w.rows = d.lastRound.rows /\ w.rows \in [W -> Row]
        /\ d.height \in Nat /\ d.round \in Nat /\ d.step \in Nat /\ d.lastCommittedHeight \in Nat
        /\ DOMAIN d.lastRound.rows = W
    BY <1>1, SnapshotIs
  <1>3. PICK e : e = MergeValidatorRound(d, V, vh)
    OBVIOUS
  <1>4. CASE vh < d.validatorHeight
    BY <1>4 DEF MergeValidatorRound
  <1>5. CASE ~(vh < d.validatorHeight)
    <2>1. PICK kept : kept = IF d.lastRound.loaded /\ d.lastRound.round = d.round THEN DOMAIN d.lastRound.rows ELSE {}
      OBVIOUS
    <2>2. PICK rows : rows = [a \in V |-> IF a \in kept THEN w.rows[a] ELSE EmptyRow]
      OBVIOUS
    <2>3. PICK lr : lr = [loaded |-> TRUE, round |-> d.round, rows |-> rows]
      OBVIOUS
    <2>4. e = [d EXCEPT !.lastRound = lr, !.validatorHeight = vh]
      BY <1>2, <1>3, <1>5, <2>1, <2>2, <2>3 DEF MergeValidatorRound
    <2>5. /\ e.height = d.height /\ e.round = d.round /\ e.step = d.step
          /\ e.lastCommittedHeight = d.lastCommittedHeight /\ e.lastRound = lr
      BY <2>4 DEF DataOK, StateData
    <2>6. PICK x : x = ViewOf(e)
      OBVIOUS
    <2>7. x = [height |-> w.height, round |-> w.round, step |-> w.step, committed |-> w.committed, rows |-> rows]
      BY <1>2, <2>3, <2>5, <2>6 DEF ViewOf
    <2>8. \A a \in V : rows[a] = (IF a \in kept THEN w.rows[a] ELSE EmptyRow) /\ (a \in kept => a \in W)
      BY <1>2, <2>1, <2>2
    <2>9. rows \in [V -> Row]
      BY <1>2, <2>2, <2>8, EmptyRowCurrent
    <2>10. /\ x \in ViewData(V) /\ x.height = w.height /\ x.round = w.round /\ x.step = w.step
           /\ x.committed = w.committed /\ x.rows = rows
      BY <1>2, <2>7, <2>9 DEF ViewData
    <2>11. ASSUME NEW a \in V, NEW type \in VoteTypes
           PROVE  LET c == rows[a].votes[type]
                  IN IF c.kind = "absent" THEN c = AbsentVote ELSE w.step >= StepOf(type)
      <3>1. CASE a \in kept
        BY <1>1, <2>8, <3>1 DEF Neat
      <3>2. CASE a \notin kept
        <4>1. rows[a].votes[type] = AbsentVote /\ AbsentVote.kind = "absent"
          BY <2>8, <3>2 DEF EmptyRow, AbsentVote
        <4> QED BY <4>1
      <3> QED BY <3>1, <3>2
    <2>12. Neat(V, x)
      BY <1>1, <2>10, <2>11 DEF Neat
    <2> QED BY <1>3, <2>6, <2>12
  <1> QED BY <1>4, <1>5

-----------------------------------------------------------------------------
(* Steps *)

(* What a change of the state does to the view and to what is on its way.  *)
Changed ==
  /\ \E V : Neat(V, ViewOf(s'))
  /\ missed => missed'
  /\ \/ UNCHANGED pending /\ (missed' \/ ViewOf(s') = ViewOf(s))
     \/ \E g \in Publishers, e \in Messages :
          /\ Tells(g, e)
          /\ g = "fallback" => e.type = "round.changed" /\ e.proposer = NoProposer
          /\ missed' \/ (News(Rows, ViewOf(s), e) /\ ViewOf(s') = Reduce(ViewOf(s), e))

(* The rows of a display are the validators on it.                         *)
LEMMA NeatRows ==
  ASSUME NEW V, NEW d, Neat(V, ViewOf(d))
  PROVE  DOMAIN d.lastRound.rows = V
  <1>1. ViewOf(d) \in ViewData(V) /\ ViewOf(d).rows = d.lastRound.rows
    BY NeatParts DEF ViewOf
  <1> QED BY <1>1, ViewParts

(* Whatever changes the state.                                             *)
LEMMA StateChangesSeen ==
  ASSUME IInv, Neat(Rows, ViewOf(s)), StateChanges, 0 \notin Steps
  PROVE  Changed
  <1> USE DashboardDomains
  <1>0. PICK V : DataOK(V, s)
    BY DEF IInv, Sound
  <1>1. Rows = V /\ Neat(V, ViewOf(s)) /\ Sound(s) /\ s.lastCommittedHeight \in Nat
    BY <1>0, SnapshotIs DEF Rows, IInv
  <1>2. ASSUME NEW h \in Heights, CommitsBlock(h) PROVE Changed
    <2>1. PICK e : e = [type |-> "block.committed", height |-> h]
      OBVIOUS
    <2>2. /\ AcceptsBlock(s, h) /\ s' = CommitBlock(s, h) /\ Tells("loop", e)
          /\ missed' = (missed \/ h <= s.lastCommittedHeight)
      BY <1>2, <2>1 DEF CommitsBlock, NewBlock, Misses
    <2>3. h \in Int /\ e \in Messages
      BY <2>1 DEF Messages
    <2>4. /\ Neat(V, ViewOf(s'))
          /\ h > s.lastCommittedHeight => News(V, ViewOf(s), e) /\ ViewOf(s') = Reduce(ViewOf(s), e)
      BY <1>0, <1>1, <2>1, <2>2, <2>3, CommitSeen
    <2>5. missed' \/ h > s.lastCommittedHeight
      <3>1. h <= s.lastCommittedHeight \/ h > s.lastCommittedHeight
        BY <1>1, <2>3
      <3>2. h <= s.lastCommittedHeight => missed'
        BY <2>2
      <3> QED BY <3>1, <3>2
    <2> QED BY <1>1, <2>2, <2>3, <2>4, <2>5 DEF Changed, Publishers
  <1>3. ASSUME NEW h \in Heights, NEW r \in Rounds, NEW step \in Steps, FallsBack(h, r, step) PROVE Changed
    <2>1. PICK e : e = [type |-> "round.changed", height |-> h, round |-> r, step |-> step,
                        proposer |-> NoProposer]
      OBVIOUS
    <2>2. /\ s' = ApplyFallback(s, h, r, step)
          /\ AcceptsFallback(s, h, r) => Tells("fallback", e)
          /\ ~AcceptsFallback(s, h, r) => UNCHANGED pending
          /\ missed' = (missed \/ (<<s'.height, s'.round>> = <<s.height, s.round>> /\ s'.lastRound # s.lastRound))
      BY <1>3, <2>1 DEF FallsBack, FallbackReply, Misses, TellsNothing
    <2>3. h \in Int /\ r \in Int /\ step \in Nat /\ step >= 1
      OBVIOUS
    <2>4. e \in Messages /\ e.type = "round.changed" /\ e.proposer = NoProposer
      BY <2>1, <2>3 DEF Messages, Proposers
    <2>5. /\ Neat(V, ViewOf(s'))
          /\ ~AcceptsFallback(s, h, r) => ViewOf(s') = ViewOf(s)
          /\ AcceptsFallback(s, h, r) =>
               \/ <<s'.height, s'.round>> = <<s.height, s.round>> /\ s'.lastRound # s.lastRound
               \/ News(V, ViewOf(s), e) /\ ViewOf(s') = Reduce(ViewOf(s), e)
      BY <1>0, <1>1, <2>1, <2>2, <2>3, FallbackSeen
    <2>6. missed => missed'
      BY <2>2
    <2>7. CASE AcceptsFallback(s, h, r)
      <3>1. missed' \/ (News(V, ViewOf(s), e) /\ ViewOf(s') = Reduce(ViewOf(s), e))
        BY <2>2, <2>5, <2>7
      <3> QED BY <1>1, <2>2, <2>4, <2>5, <2>6, <2>7, <3>1 DEF Changed, Publishers
    <2>8. CASE ~AcceptsFallback(s, h, r)
      BY <2>2, <2>5, <2>6, <2>8 DEF Changed
    <2> QED BY <2>7, <2>8
  <1>4. ASSUME NEW h \in Heights, NEW r \in Rounds, NEW step \in Steps, NEW p \in Proposers,
               StartsRound(h, r, step, p)
        PROVE  Changed
    <2>1. PICK e : e = [type |-> "round.changed", height |-> h, round |-> r, step |-> step, proposer |-> p]
      OBVIOUS
    <2>2. /\ Advances(s, h, r) /\ s' = StartRound(s, h, r, step, p) /\ Tells("loop", e) /\ missed' = (missed \/ FALSE)
      BY <1>4, <2>1 DEF StartsRound, NewRound, Misses
    <2>3. h \in Int /\ r \in Int /\ step \in Nat /\ step >= 1
      OBVIOUS
    <2>4. e \in Messages
      BY <2>1, <2>3 DEF Messages
    <2>5. News(V, ViewOf(s), e) /\ ViewOf(s') = Reduce(ViewOf(s), e)
      BY <1>0, <1>1, <2>1, <2>2, <2>3, RoundSeen
    <2>6. Neat(V, ViewOf(s'))
      BY <1>1, <2>5, NewsNeat
    <2> QED BY <1>1, <2>2, <2>4, <2>5, <2>6 DEF Changed, Publishers
  <1>5. ASSUME NEW v \in Votes, TakesVote(v) PROVE Changed
    <2>1. PICK e : e = [type |-> "vote.received", vote |-> v]
      OBVIOUS
    <2>2. /\ s' = RecordVote(s, v)
          /\ AcceptsVote(s, v) => Tells("loop", e)
          /\ ~AcceptsVote(s, v) => UNCHANGED pending
          /\ missed' = (missed \/ (v.addr \notin DOMAIN s.lastRound.rows /\ ViewOf(s') # ViewOf(s)))
      BY <1>5, <2>1 DEF TakesVote, Vote, Misses, TellsNothing
    <2>3. e \in Messages
      BY <2>1 DEF Messages
    <2>4. /\ Neat(V, ViewOf(s'))
          /\ ~AcceptsVote(s, v) => ViewOf(s') = ViewOf(s)
          /\ AcceptsVote(s, v) /\ (v.addr \notin V => ViewOf(s') = ViewOf(s))
               => News(V, ViewOf(s), e) /\ ViewOf(s') = Reduce(ViewOf(s), e)
      BY <1>0, <1>1, <2>1, <2>2, VoteSeen
    <2>5. missed => missed'
      BY <2>2
    <2>6. CASE AcceptsVote(s, v)
      <3>1. missed' \/ (News(V, ViewOf(s), e) /\ ViewOf(s') = Reduce(ViewOf(s), e))
        BY <1>1, <2>2, <2>4, <2>6 DEF Rows
      <3> QED BY <1>1, <2>2, <2>3, <2>4, <2>5, <2>6, <3>1 DEF Changed, Publishers
    <2>7. CASE ~AcceptsVote(s, v)
      BY <2>2, <2>4, <2>5, <2>7 DEF Changed
    <2> QED BY <2>6, <2>7
  <1>6. ASSUME NEW h \in Heights, PassesStatus(h) PROVE Changed
    <2>1. s' = ApplyStatus(s, h) /\ missed' = (missed \/ ViewOf(s') # ViewOf(s)) /\ UNCHANGED pending
      BY <1>6 DEF PassesStatus, StatusReply, Misses
    <2>2. Neat(V, ViewOf(s'))
      BY <1>0, <1>1, <2>1, StatusSeen
    <2> QED BY <2>1, <2>2 DEF Changed
  <1>7. ASSUME NEW U \in ValidatorSets, NEW vh \in Heights, Relists(U, vh) PROVE Changed
    <2>1. s' = MergeValidatorRound(s, U, vh) /\ missed' = (missed \/ ViewOf(s') # ViewOf(s)) /\ UNCHANGED pending
      BY <1>7 DEF Relists, ValidatorsReply, Misses
    <2>2. \E W : Neat(W, ViewOf(s'))
      BY <1>0, <1>1, <2>1, ValidatorsSeen
    <2> QED BY <2>1, <2>2 DEF Changed
  <1> QED BY <1>2, <1>3, <1>4, <1>5, <1>6, <1>7 DEF StateChanges

(* A mark that is on its way and is of the display u was one of t.         *)
LEMMA OldMark ==
  ASSUME NEW V, NEW t, Neat(V, t), NEW u, Neat(V, u), Upto(t, u), NEW m, SentOK(V, t, m), Marks(m, u)
  PROVE  There(t, u) /\ Marks(m, t)
  <1>1. /\ t.height \in Nat /\ t.round \in Nat /\ t.step \in Nat
        /\ u.height \in Nat /\ u.round \in Nat /\ u.step \in Nat
    BY NeatParts
  <1>2. m \in Messages /\ Upto(Target(m), t) /\ There(Target(m), u)
    BY DEF SentOK, Marks
  <1>3. Target(m).height \in Int /\ Target(m).round \in Int /\ Target(m).step \in Int
    BY <1>2, TargetPlace DEF Places
  <1>4. There(Target(m), t) /\ There(t, u)
    BY <1>1, <1>2, <1>3, UptoTransitive
  <1> QED BY <1>4 DEF Marks

(* A publisher tells the news.                                             *)
LEMMA ToldOnTheWay ==
  ASSUME TabInv, OnTheWay(Rows, ViewOf(s)), Neat(Rows, ViewOf(s)),
         NEW g \in Publishers, NEW e \in Messages, Tells(g, e),
         g = "fallback" => e.type = "round.changed" /\ e.proposer = NoProposer,
         News(Rows, ViewOf(s), e), ViewOf(s') = Reduce(ViewOf(s), e),
         bus' = bus, view' = view, feed' = feed
  PROVE  OnTheWay(Rows, ViewOf(s))'
  <1>1. PICK V, t, u : V = Rows /\ t = ViewOf(s) /\ u = ViewOf(s')
    OBVIOUS
  <1>2. Neat(V, t) /\ Neat(V, u) /\ Tidings(V, t, e, u)
    BY <1>1, NewsNeat, NewsTidings
  <1>3. Rows' = V
    BY <1>1, <1>2, NeatRows DEF Rows
  <1>4. pending[g] = <<>> /\ \A k \in Publishers : pending'[k] = IF k = g THEN <<e>> ELSE pending[k]
    BY DEF Tells, TabInv
  <1>5. /\ Waiting(g) = {} /\ Waiting(g)' = {e} /\ OnBus' = OnBus
        /\ \A k \in Publishers : k # g => Waiting(k)' = Waiting(k)
    BY <1>4 DEF Waiting, OnBus
  <1>6. "loop" \in Publishers /\ "fallback" \in Publishers /\ (g = "loop" \/ g = "fallback")
    BY DEF Publishers
  <1>7. InFlight' = InFlight \cup {e}
    BY <1>5, <1>6 DEF InFlight
  <1>8. u.height > 0 /\ \A m \in InFlight' : SentOK(V, u, m)
    BY <1>1, <1>2, <1>7 DEF OnTheWay, Tidings
  <1>9. feed' = "dashboard" => Aligned(V, view', u, InFlight')
    BY <1>1, <1>2, <1>7 DEF OnTheWay, Tidings
  <1>10. ASSUME NEW m \in InFlight, Marks(m, u)
         PROVE  There(t, u) /\ Marks(m, t) /\ \A x : Marks(x, t) <=> Marks(x, u)
    <2>1. SentOK(V, t, m) /\ Upto(t, u)
      BY <1>1, <1>2 DEF OnTheWay, Tidings
    <2>2. There(t, u) /\ Marks(m, t)
      BY <1>2, <1>10, <2>1, OldMark
    <2> QED BY <2>2 DEF There, Marks
  <1>11. ASSUME NEW p, Flagged(V, t, p), There(t, u), ~Marks(e, u) PROVE Flagged(V, u, p)
    BY <1>2, <1>11 DEF Tidings
  <1>12. g = "fallback" => ~Marks(e, u)
    BY DEF Marks
  <1>13. ASSUME NEW m \in Waiting("loop")', Marks(m, u) PROVE Flagged(V, u, m.proposer)
    <2>1. CASE g = "loop"
      BY <1>2, <1>5, <1>13, <2>1 DEF Tidings
    <2>2. CASE g = "fallback"
      <3>1. m \in Waiting("loop") /\ m \in InFlight
        BY <1>5, <1>6, <1>13, <2>2 DEF InFlight
      <3>2. Flagged(V, t, m.proposer)
        BY <1>1, <1>10, <1>13, <3>1 DEF OnTheWay, LastMark
      <3> QED BY <1>10, <1>11, <1>12, <1>13, <2>2, <3>1, <3>2
    <2> QED BY <1>6, <2>1, <2>2
  <1>14. ASSUME NEW i \in DOMAIN bus, Marks(bus[i], u), \A j \in DOMAIN bus : j > i => ~Marks(bus[j], u),
                \A m \in Waiting("loop")' : ~Marks(m, u)
         PROVE  Flagged(V, u, bus[i].proposer)
    <2>1. bus[i] \in InFlight
      BY DEF InFlight, OnBus
    <2>2. There(t, u) /\ Marks(bus[i], t) /\ \A x : Marks(x, t) <=> Marks(x, u)
      BY <1>10, <1>14, <2>1
    <2>3. \A m \in Waiting("loop") : ~Marks(m, t)
      BY <1>5, <1>6, <1>14, <2>2
    <2>4. Flagged(V, t, bus[i].proposer)
      BY <1>1, <1>14, <2>2, <2>3 DEF OnTheWay, LastMark
    <2>5. ~Marks(e, u)
      BY <1>5, <1>6, <1>12, <1>14
    <2> QED BY <1>11, <2>2, <2>4, <2>5
  <1>15. LastMark(V, u)'
    BY <1>13, <1>14 DEF LastMark
  <1>16. (InFlight' # {} => u.height > 0) /\ (\A m \in InFlight' : SentOK(V, u, m)) /\ LastMark(V, u)'
         /\ (feed' = "dashboard" => Aligned(V, view', u, InFlight'))
    BY <1>8, <1>9, <1>15
  <1> QED BY <1>1, <1>3, <1>16 DEF OnTheWay, LastMark

(* A change of the state keeps the invariant.                              *)
LEMMA StateChangesAgree ==
  ASSUME AgreeInv, TabInv', StateChanges, 0 \notin Steps
  PROVE  AgreeInv'
  <1>1. Changed /\ bus' = bus /\ view' = view /\ feed' = feed
    BY StateChangesSeen DEF AgreeInv, TabInv, StateChanges
  <1>2. Neat(Rows, ViewOf(s))'
    <2>1. PICK V : Neat(V, ViewOf(s'))
      BY <1>1 DEF Changed
    <2>2. Rows' = V
      BY <2>1, NeatRows DEF Rows
    <2> QED BY <2>1, <2>2
  <1>3. CASE UNCHANGED pending /\ (missed' \/ ViewOf(s') = ViewOf(s))
    <2>1. /\ \A g \in Publishers : Len(pending'[g]) <= 1
          /\ \A m \in Waiting("fallback")' : m.type = "round.changed" /\ m.proposer = NoProposer
      BY <1>3 DEF AgreeInv, Waiting
    <2>2. ASSUME ~missed' PROVE OnTheWay(Rows, ViewOf(s))'
      <3>1. ViewOf(s') = ViewOf(s) /\ OnTheWay(Rows, ViewOf(s))
        BY <1>1, <1>3, <2>2 DEF AgreeInv, Changed
      <3>2. Rows' = Rows
        BY <3>1 DEF ViewOf, Rows
      <3>3. InFlight' = InFlight /\ Waiting("loop")' = Waiting("loop")
        BY <1>1, <1>3 DEF InFlight, OnBus, Waiting
      <3> QED BY <1>1, <3>1, <3>2, <3>3 DEF OnTheWay, LastMark
    <2> QED BY <1>2, <2>1, <2>2 DEF AgreeInv
  <1>4. ASSUME NEW g \in Publishers, NEW e \in Messages, Tells(g, e),
               g = "fallback" => e.type = "round.changed" /\ e.proposer = NoProposer,
               missed' \/ (News(Rows, ViewOf(s), e) /\ ViewOf(s') = Reduce(ViewOf(s), e))
        PROVE  AgreeInv'
    <2>1. \A k \in Publishers : pending'[k] = IF k = g THEN <<e>> ELSE pending[k]
      BY <1>4 DEF Tells, AgreeInv, TabInv
    <2>2. \A k \in Publishers : Len(pending'[k]) <= 1
      <3>1. \A k \in Publishers : Len(pending[k]) <= 1
        BY DEF AgreeInv
      <3>2. TAKE k \in Publishers
      <3>3. CASE k = g
        <4>1. pending'[k] = <<e>>
          BY <2>1, <3>3
        <4>2. Len(<<e>>) = 1
          OBVIOUS
        <4> QED BY <4>1, <4>2
      <3>4. CASE k # g
        <4>1. pending'[k] = pending[k]
          BY <2>1, <3>4
        <4> QED BY <3>1, <4>1
      <3> QED BY <3>3, <3>4
    <2>3. \A m \in Waiting("fallback")' : m.type = "round.changed" /\ m.proposer = NoProposer
      <3>1. "fallback" \in Publishers
        BY DEF Publishers
      <3>2. CASE g = "fallback"
        <4>1. Waiting("fallback")' = {e}
          BY <2>1, <3>1, <3>2 DEF Waiting
        <4> QED BY <1>4, <3>2, <4>1
      <3>3. CASE g # "fallback"
        <4>1. Waiting("fallback")' = Waiting("fallback")
          BY <2>1, <3>1, <3>3 DEF Waiting
        <4> QED BY <4>1 DEF AgreeInv
      <3> QED BY <3>2, <3>3
    <2>4. ASSUME ~missed' PROVE OnTheWay(Rows, ViewOf(s))'
      <3>1. ~missed /\ News(Rows, ViewOf(s), e) /\ ViewOf(s') = Reduce(ViewOf(s), e)
        BY <1>1, <1>4, <2>4 DEF Changed
      <3> QED BY <1>1, <1>4, <3>1, ToldOnTheWay DEF AgreeInv
    <2> QED BY <1>2, <2>2, <2>3, <2>4 DEF AgreeInv
  <1> QED BY <1>1, <1>3, <1>4 DEF Changed

(* Publishing moves what was waiting to the bus, or loses an event.        *)
LEMMA PublishAgrees ==
  ASSUME AgreeInv, TabInv', NEW g \in Publishers, Publish(g)
  PROVE  AgreeInv'
  <1>1. /\ pending \in [Publishers -> Seq(Messages)] /\ bus \in Seq(Messages)
        /\ s' = s /\ view' = view /\ feed' = feed
        /\ pending[g] # <<>> /\ pending[g] \in Seq(Messages) /\ Len(pending[g]) <= 1
    BY DEF AgreeInv, TabInv, Publish
  <1>2. \A k \in Publishers : pending'[k] = IF k = g THEN <<>> ELSE pending[k]
    BY <1>1 DEF Publish
  <1>3. PICK m \in Messages : pending[g] = <<m>>
    <2>1. PICK p \in Seq(Messages) : p = pending[g]
      BY <1>1
    <2>2. p # <<>> /\ Len(p) <= 1
      BY <1>1, <2>1
    <2>3. Len(p) = 1
      <3>1. PICK n \in Nat \ {0} : n = Len(p)
        BY <2>2, EmptySeq
      <3>2. n = 1
        BY <2>2, <3>1
      <3> QED BY <3>1, <3>2
    <2>4. p[1] \in Messages /\ p = <<p[1]>>
      BY <2>3
    <2> QED BY <2>1, <2>4
  <1>4. /\ Waiting(g)' = {} /\ Waiting(g) = {m}
        /\ \A k \in Publishers : k # g => Waiting(k)' = Waiting(k)
    <2>1. Waiting(g)' = {}
      BY <1>2 DEF Waiting
    <2>2. Waiting(g) = {m}
      BY <1>3 DEF Waiting
    <2>3. \A k \in Publishers : k # g => Waiting(k)' = Waiting(k)
      BY <1>2 DEF Waiting
    <2> QED BY <2>1, <2>2, <2>3
  <1>5. "loop" \in Publishers /\ "fallback" \in Publishers /\ (g = "loop" \/ g = "fallback")
    BY DEF Publishers
  <1>6. \A k \in Publishers : Len(pending'[k]) <= 1
    BY <1>2 DEF AgreeInv
  <1>7. \A x \in Waiting("fallback")' : x.type = "round.changed" /\ x.proposer = NoProposer
    BY <1>4, <1>5 DEF AgreeInv
  <1>8. Neat(Rows, ViewOf(s))' /\ Rows' = Rows /\ ViewOf(s)' = ViewOf(s)
    BY <1>1 DEF AgreeInv, Rows, ViewOf
  <1>9. ASSUME ~missed' PROVE OnTheWay(Rows, ViewOf(s))'
    <2>1. bus' = bus \o <<m>> /\ ~missed
      BY <1>3, <1>9 DEF Publish
    <2>2. PICK V, t : V = Rows /\ t = ViewOf(s)
      OBVIOUS
    <2>3. OnTheWay(V, t)
      BY <2>1, <2>2 DEF AgreeInv
    <2>4. PICK n \in Nat : n = Len(bus)
      BY <1>1
    <2>5. /\ DOMAIN bus = 1 .. n /\ DOMAIN bus' = 1 .. n + 1 /\ bus'[n + 1] = m
          /\ \A i \in 1 .. n : bus'[i] = bus[i]
      BY <1>1, <2>1, <2>4
    <2>6. OnBus' = OnBus \cup {m}
      <3>1. ASSUME NEW x \in OnBus' PROVE x \in OnBus \cup {m}
        <4>1. PICK i \in 1 .. n + 1 : x = bus'[i]
          BY <2>5, <3>1 DEF OnBus
        <4>2. CASE i = n + 1
          BY <2>5, <4>1, <4>2
        <4>3. CASE i # n + 1
          <5>1. i \in 1 .. n
            BY <4>3
          <5> QED BY <2>5, <4>1, <5>1 DEF OnBus
        <4> QED BY <4>2, <4>3
      <3>2. ASSUME NEW x \in OnBus PROVE x \in OnBus'
        <4>1. PICK i \in 1 .. n : x = bus[i]
          BY <2>5, <3>2 DEF OnBus
        <4>2. i \in 1 .. n + 1 /\ x = bus'[i]
          BY <2>5, <4>1
        <4> QED BY <2>5, <4>2 DEF OnBus
      <3>3. m \in OnBus'
        <4>1. n + 1 \in DOMAIN bus'
          BY <2>5
        <4> QED BY <2>5, <4>1 DEF OnBus
      <3> QED BY <3>1, <3>2, <3>3
    <2>7. InFlight' = InFlight
      BY <1>4, <1>5, <2>6 DEF InFlight
    <2>8. \A x \in Waiting("loop")' : Marks(x, t) => Flagged(V, t, x.proposer)
      BY <1>4, <1>5, <2>3 DEF OnTheWay, LastMark
    <2>9. ASSUME NEW i \in DOMAIN bus', Marks(bus'[i], t),
                 \A j \in DOMAIN bus' : j > i => ~Marks(bus'[j], t),
                 \A x \in Waiting("loop")' : ~Marks(x, t)
          PROVE  Flagged(V, t, bus'[i].proposer)
      <3>1. CASE i = n + 1
        <4>1. bus'[i] = m
          BY <2>5, <3>1
        <4>2. m \notin Waiting("fallback")
          BY <2>9, <4>1 DEF Marks, AgreeInv
        <4>3. m \in Waiting("loop")
          BY <1>4, <1>5, <4>2
        <4> QED BY <2>3, <2>9, <4>1, <4>3 DEF OnTheWay, LastMark
      <3>2. CASE i # n + 1
        <4>1. i \in DOMAIN bus /\ bus'[i] = bus[i]
          BY <2>5, <3>2
        <4>2. \A j \in DOMAIN bus : j > i => ~Marks(bus[j], t)
          <5> SUFFICES ASSUME NEW j \in DOMAIN bus, j > i PROVE ~Marks(bus[j], t)
            OBVIOUS
          <5>1. j \in DOMAIN bus' /\ bus'[j] = bus[j]
            BY <2>5
          <5> QED BY <2>9, <5>1
        <4>3. ~Marks(m, t)
          <5>1. n + 1 \in DOMAIN bus' /\ n + 1 > i
            BY <2>5, <3>2
          <5> QED BY <2>5, <2>9, <5>1
        <4>4. \A x \in Waiting("loop") : ~Marks(x, t)
          BY <1>4, <1>5, <2>9, <4>3
        <4> QED BY <2>3, <2>9, <4>1, <4>2, <4>4 DEF OnTheWay, LastMark
      <3> QED BY <3>1, <3>2
    <2>10. LastMark(V, t)'
      BY <2>8, <2>9 DEF LastMark
    <2>11. /\ InFlight' # {} => t.height > 0
           /\ \A x \in InFlight' : SentOK(V, t, x)
           /\ feed' = "dashboard" => Aligned(V, view', t, InFlight')
      BY <1>1, <2>3, <2>7 DEF OnTheWay
    <2> QED BY <1>8, <2>2, <2>10, <2>11 DEF OnTheWay, LastMark
  <1> QED BY <1>6, <1>7, <1>8, <1>9 DEF AgreeInv

(* The tab takes the next patch.                                           *)
LEMMA DispatchAgrees ==
  ASSUME AgreeInv, TabInv', Dispatch
  PROVE  AgreeInv'
  <1>1. /\ bus \in Seq(Messages) /\ bus # <<>> /\ bus' = Tail(bus)
        /\ s' = s /\ pending' = pending /\ feed' = feed /\ missed' = missed
        /\ view' = IF feed = "dashboard" THEN Reduce(view, Head(bus)) ELSE view
    BY DEF AgreeInv, TabInv, Dispatch
  <1>2. /\ Neat(Rows, ViewOf(s))' /\ Rows' = Rows /\ ViewOf(s)' = ViewOf(s)
        /\ \A k : Waiting(k)' = Waiting(k)
    BY <1>1 DEF AgreeInv, Rows, ViewOf, Waiting
  <1>3. \A k \in Publishers : Len(pending'[k]) <= 1
    BY <1>1 DEF AgreeInv
  <1>4. \A x \in Waiting("fallback")' : x.type = "round.changed" /\ x.proposer = NoProposer
    BY <1>2 DEF AgreeInv
  <1>5. ASSUME ~missed' PROVE OnTheWay(Rows, ViewOf(s))'
    <2>1. PICK V, t : V = Rows /\ t = ViewOf(s)
      OBVIOUS
    <2>2. OnTheWay(V, t) /\ Neat(V, t)
      BY <1>1, <1>5, <2>1 DEF AgreeInv
    <2>3. PICK e : e = Head(bus)
      OBVIOUS
    <2>4. e = bus[1] /\ 1 \in DOMAIN bus /\ e \in OnBus /\ e \in InFlight
      <3>1. e = bus[1] /\ 1 \in DOMAIN bus
        BY <1>1, <2>3
      <3> QED BY <3>1 DEF OnBus, InFlight
    <2>5. \A i \in DOMAIN bus' : i + 1 \in DOMAIN bus /\ bus'[i] = bus[i + 1]
      BY <1>1
    <2>6. \A j \in DOMAIN bus : j \in Nat /\ (j # 1 => j - 1 \in DOMAIN bus' /\ bus'[j - 1] = bus[j])
      BY <1>1
    <2>7. OnBus = OnBus' \cup {e}
      <3>1. ASSUME NEW x \in OnBus PROVE x \in OnBus' \cup {e}
        <4>1. PICK j \in DOMAIN bus : x = bus[j]
          BY <3>1 DEF OnBus
        <4> QED BY <2>4, <2>6, <4>1 DEF OnBus
      <3>2. ASSUME NEW x \in OnBus' PROVE x \in OnBus
        <4>1. PICK i \in DOMAIN bus' : x = bus'[i]
          BY <3>2 DEF OnBus
        <4> QED BY <2>5, <4>1 DEF OnBus
      <3> QED BY <2>4, <3>1, <3>2
    <2>8. InFlight = InFlight' \cup {e}
      BY <1>2, <2>7 DEF InFlight
    <2>9. t.height > 0 /\ SentOK(V, t, e)
      BY <2>2, <2>4 DEF OnTheWay
    <2>10. ASSUME NEW i \in DOMAIN bus', Marks(bus'[i], t),
                  \A j \in DOMAIN bus' : j > i => ~Marks(bus'[j], t),
                  \A x \in Waiting("loop") : ~Marks(x, t)
           PROVE  Flagged(V, t, bus'[i].proposer)
      <3>1. i + 1 \in DOMAIN bus /\ bus'[i] = bus[i + 1] /\ i \in Nat
        BY <1>1, <2>5
      <3>2. ASSUME NEW j \in DOMAIN bus, j > i + 1 PROVE ~Marks(bus[j], t)
        <4>1. j \in Nat /\ j # 1 /\ j - 1 > i
          BY <2>6, <3>1, <3>2, <1>1
        <4> QED BY <2>6, <2>10, <4>1
      <3> QED BY <2>2, <2>10, <3>1, <3>2 DEF OnTheWay, LastMark
    <2>11. LastMark(V, t)'
      BY <1>2, <2>2, <2>10 DEF LastMark, OnTheWay
    <2>12. ASSUME Marks(e, t), \A m \in InFlight' : ~Marks(m, t) PROVE Flagged(V, t, e.proposer)
      <3>1. ASSUME NEW j \in DOMAIN bus, j > 1 PROVE ~Marks(bus[j], t)
        <4>1. j - 1 \in DOMAIN bus' /\ bus'[j - 1] = bus[j]
          BY <2>6, <3>1
        <4>2. bus[j] \in InFlight'
          BY <4>1 DEF InFlight, OnBus
        <4> QED BY <2>12, <4>2
      <3>2. \A x \in Waiting("loop") : ~Marks(x, t)
        BY <1>2, <2>12 DEF InFlight
      <3> QED BY <2>2, <2>4, <2>12, <3>1, <3>2 DEF OnTheWay, LastMark
    <2>13. feed = "dashboard" => Aligned(V, view', t, InFlight')
      <3> SUFFICES ASSUME feed = "dashboard" PROVE Aligned(V, view', t, InFlight')
        OBVIOUS
      <3>1. Aligned(V, view, t, InFlight' \cup {e})
        BY <2>2, <2>8 DEF OnTheWay
      <3>2. Aligned(V, Reduce(view, e), t, InFlight')
        BY <2>2, <2>9, <2>12, <3>1, Dispatched
      <3> QED BY <1>1, <2>3, <3>2
    <2>14. \A x \in InFlight' : SentOK(V, t, x)
      BY <2>2, <2>8 DEF OnTheWay
    <2> QED BY <1>1, <1>2, <2>1, <2>9, <2>11, <2>13, <2>14 DEF OnTheWay, LastMark
  <1> QED BY <1>2, <1>3, <1>4, <1>5 DEF AgreeInv

(* A display lacks nothing of itself.                                      *)
LEMMA AlignedSelf ==
  ASSUME NEW V, NEW t, Neat(V, t), NEW F, F # {} => t.height > 0
  PROVE  Aligned(V, t, t, F)
  <1>1. /\ t \in ViewData(V) /\ t.height \in Nat /\ t.round \in Nat /\ t.step \in Nat /\ t.committed \in Nat
    BY NeatParts
  <1>2. Upto(t, t) /\ There(t, t) /\ t.committed <= t.committed
    BY <1>1 DEF Upto, There
  <1>3. Carried(t, t) = t.rows
    BY <1>2 DEF Carried
  <1>4. t.height = 0 => \A m \in F : m.type = "block.committed" => m.height > t.committed
    BY <1>1
  <1> QED BY <1>2, <1>3, <1>4 DEF Aligned

(* A baseline shows the state.                                             *)
LEMMA SnapshotAgrees ==
  ASSUME AgreeInv, TabInv', StateSnapshot
  PROVE  AgreeInv'
  <1>1. /\ s' = s /\ pending' = pending /\ bus' = bus /\ view' = ViewOf(s)
        /\ missed' = (missed /\ (bus # <<>> \/ \E g \in Publishers : pending[g] # <<>>))
    BY DEF StateSnapshot
  <1>2. /\ Neat(Rows, ViewOf(s))' /\ Rows' = Rows /\ ViewOf(s)' = ViewOf(s)
        /\ (\A k : Waiting(k)' = Waiting(k)) /\ InFlight' = InFlight
    BY <1>1 DEF AgreeInv, Rows, ViewOf, Waiting, InFlight, OnBus
  <1>3. \A k \in Publishers : Len(pending'[k]) <= 1
    BY <1>1 DEF AgreeInv
  <1>4. \A x \in Waiting("fallback")' : x.type = "round.changed" /\ x.proposer = NoProposer
    BY <1>2 DEF AgreeInv
  <1>5. ASSUME ~missed' PROVE OnTheWay(Rows, ViewOf(s))'
    <2>1. PICK V, t : V = Rows /\ t = ViewOf(s)
      OBVIOUS
    <2>2. /\ InFlight # {} => t.height > 0
          /\ \A m \in InFlight : SentOK(V, t, m)
          /\ LastMark(V, t)
      <3>1. CASE ~missed
        BY <2>1, <3>1 DEF AgreeInv, OnTheWay
      <3>2. CASE missed
        <4>1. bus = <<>> /\ pending["loop"] = <<>> /\ pending["fallback"] = <<>>
          BY <1>1, <1>5, <3>2 DEF Publishers
        <4>2. DOMAIN bus = {} /\ OnBus = {} /\ Waiting("loop") = {} /\ Waiting("fallback") = {}
          BY <4>1 DEF OnBus, Waiting
        <4>3. InFlight = {}
          BY <4>2 DEF InFlight
        <4> QED BY <4>2, <4>3 DEF LastMark
      <3> QED BY <3>1, <3>2
    <2>3. Aligned(V, t, t, InFlight)
      BY <2>1, <2>2, AlignedSelf DEF AgreeInv
    <2>4. LastMark(V, t)'
      BY <1>1, <1>2, <2>2 DEF LastMark
    <2> QED BY <1>1, <1>2, <2>1, <2>2, <2>3, <2>4 DEF OnTheWay, LastMark
  <1> QED BY <1>2, <1>3, <1>4, <1>5 DEF AgreeInv

(* Every step keeps the invariant.                                         *)
LEMMA AgreeInvInductive ==
  ASSUME AgreeInv, [StoreNext]_<<s, storeVars>>, 0 \notin Steps
  PROVE  AgreeInv'
  <1>1. TabInv'
    BY TabInvInductive DEF AgreeInv
  <1>2. CASE StateChanges
    BY <1>1, <1>2, StateChangesAgree
  <1>3. ASSUME NEW g \in Publishers, Publish(g) PROVE AgreeInv'
    BY <1>1, <1>3, PublishAgrees
  <1>4. CASE Dispatch
    BY <1>1, <1>4, DispatchAgrees
  <1>5. CASE StateSnapshot
    BY <1>1, <1>5, SnapshotAgrees
  <1>6. CASE ContextSnapshot \/ ChangesPage \/ UNCHANGED <<s, storeVars>>
    <2>1. /\ s' = s /\ pending' = pending /\ bus' = bus /\ missed' = missed
          /\ feed' = "dashboard" => view' = view /\ feed = "dashboard"
      BY <1>6 DEF ContextSnapshot, ChangesPage, storeVars
    <2>2. /\ Rows' = Rows /\ ViewOf(s)' = ViewOf(s)
          /\ (\A k : Waiting(k)' = Waiting(k)) /\ InFlight' = InFlight
      BY <2>1 DEF Rows, ViewOf, Waiting, InFlight, OnBus
    <2>3. ~missed' => OnTheWay(Rows, ViewOf(s))'
      BY <2>1, <2>2 DEF AgreeInv, OnTheWay, LastMark
    <2>4. Neat(Rows, ViewOf(s))'
      BY <2>2 DEF AgreeInv
    <2> QED BY <1>1, <2>1, <2>2, <2>3, <2>4 DEF AgreeInv
  <1> QED BY <1>2, <1>3, <1>4, <1>5, <1>6 DEF StoreNext

(* The tab begins with the state and nothing on its way.                   *)
LEMMA InitialAgreement == StoreInit => AgreeInv
  <1> SUFFICES ASSUME StoreInit PROVE AgreeInv
    OBVIOUS
  <1>1. TabInv
    BY InitialTab
  <1>2. /\ s.height = 0 /\ s.round = 0 /\ s.lastCommittedHeight = 0
        /\ feed = "none" /\ bus = <<>> /\ pending = [g \in Publishers |-> <<>>]
    BY DEF StoreInit, Init, TabInit
  <1>3. Neat(Rows, ViewOf(s))
    <2>1. PICK V : DataOK(V, s)
      BY <1>1 DEF TabInv, IInv, Sound
    <2>2. Rows = V /\ ViewOf(s) \in ViewData(V) /\ ViewOf(s).height = 0 /\ ViewOf(s).round = 0
          /\ ViewOf(s).committed = 0 /\ ViewOf(s).rows = s.lastRound.rows
      BY <1>2, <2>1, SnapshotIs DEF Rows
    <2>3. s.lastRound.rows = [a \in {} |-> EmptyRow]
      BY DEF StoreInit, Init
    <2>4. V = {} /\ ViewOf(s).rows = [a \in V |-> EmptyRow]
      BY <2>2, <2>3 DEF Rows
    <2>5. PICK x : x = ViewOf(s)
      OBVIOUS
    <2>6. /\ x \in ViewData(V) /\ x.rows = [a \in V |-> EmptyRow]
          /\ x.height = 0 /\ x.round = 0 /\ x.committed = 0
      BY <2>2, <2>4, <2>5
    <2>7. Neat(V, x)
      <3>1. x.height >= 0 /\ x.round >= 0 /\ x.committed >= 0 /\ ~(x.height > 0)
        BY <2>6
      <3> QED BY <2>6, <3>1, BlankNeat
    <2> QED BY <2>2, <2>5, <2>7
  <1>4. /\ \A g \in Publishers : Len(pending[g]) <= 1
        /\ Waiting("loop") = {} /\ Waiting("fallback") = {} /\ OnBus = {} /\ DOMAIN bus = {}
    BY <1>2 DEF Waiting, OnBus, Publishers
  <1>5. OnTheWay(Rows, ViewOf(s))
    BY <1>2, <1>4 DEF OnTheWay, InFlight, LastMark
  <1> QED BY <1>1, <1>3, <1>4, <1>5 DEF AgreeInv

(* A display that lacks nothing is the same.                               *)
LEMMA NothingLacks ==
  ASSUME NEW V, NEW w, NEW t, Neat(V, t), Aligned(V, w, t, {})
  PROVE  w = t
  <1>1. Neat(V, w) /\ w \in ViewData(V) /\ t \in ViewData(V)
    BY NeatParts DEF Aligned
  <1>2. There(w, t) /\ w.step = t.step /\ w.committed = t.committed
    BY DEF Aligned
  <1>3. Carried(w, t) = w.rows /\ w.height = t.height /\ w.round = t.round
    BY <1>2 DEF Carried, There
  <1>4. w.rows \in [V -> Row] /\ t.rows \in [V -> Row]
    BY <1>1, ViewParts
  <1>5. ASSUME NEW a \in V PROVE w.rows[a] = t.rows[a]
    <2>1. \A type \in VoteTypes : w.rows[a].votes[type] = t.rows[a].votes[type]
      BY <1>3 DEF Aligned
    <2>2. w.rows[a].proposer = t.rows[a].proposer
      BY <1>3 DEF Aligned
    <2>3. w.rows[a] \in Row /\ t.rows[a] \in Row
      BY <1>4
    <2> QED BY <2>1, <2>2, <2>3 DEF Row
  <1>6. w.rows = t.rows
    BY <1>4, <1>5
  <1> QED BY <1>1, <1>2, <1>3, <1>6 DEF ViewData

(* The browser's reducer and the collector's transitions are two programs  *)
(* for one rule: whatever the interleaving of the event loop, the          *)
(* consensus fallback, the hub and the snapshots, once what was published  *)
(* has arrived the tab shows the collector's state, provided that no event *)
(* was lost and no change went untold.  A node reports the steps 1 to 8; a *)
(* name that stepFromString does not know becomes 0, and with a step 0 the *)
(* two differ after a commit.                                              *)
THEOREM StoreViewAgrees ==
  ASSUME 0 \notin Steps
  PROVE  StoreSpec => []ViewAgrees
  <1>1. AgreeInv => ViewAgrees
    <2> SUFFICES ASSUME AgreeInv, feed = "dashboard", ~missed, bus = <<>>, \A g \in Publishers : pending[g] = <<>>
                 PROVE  view = ViewOf(s)
      BY DEF ViewAgrees
    <2>1. OnTheWay(Rows, ViewOf(s)) /\ Neat(Rows, ViewOf(s))
      BY DEF AgreeInv
    <2>2. OnBus = {} /\ Waiting("loop") = {} /\ Waiting("fallback") = {}
      BY DEF OnBus, Waiting, Publishers
    <2>3. Aligned(Rows, view, ViewOf(s), {})
      BY <2>1, <2>2 DEF OnTheWay, InFlight
    <2> QED BY <2>1, <2>3, NothingLacks
  <1>2. AgreeInv /\ [StoreNext]_<<s, storeVars>> => AgreeInv'
    BY AgreeInvInductive
  <1> QED BY <1>1, <1>2, InitialAgreement, PTL DEF StoreSpec

=============================================================================
