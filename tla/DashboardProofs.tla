--------------------------- MODULE DashboardProofs ---------------------------
(***************************************************************************)
(* Proofs of the safety properties of Dashboard, for every set of heights, *)
(* rounds and validators and every history limit.                          *)
(***************************************************************************)
EXTENDS Dashboard, SequenceTheorems, TLAPS

(* What the round view must satisfy to be displayed at height h, round r.  *)
Current(row, h, r) ==
  /\ \A type \in VoteTypes : row.votes[type].kind # "absent" => row.votes[type].at = At(h, r)
  /\ row.proposer.set => row.proposer.at = At(h, r)

ViewOK(V, view, h, r) ==
  /\ view \in RoundView(V)
  /\ view.loaded => view.round = r
  /\ ~view.loaded => V = {}
  /\ \A a \in V : Current(view.rows[a], h, r)

DataOK(V, d) ==
  /\ V \in SUBSET Addresses /\ d \in StateData(V) /\ ViewOK(V, d.lastRound, d.height, d.round)

Active(d) == d.height = 0 \/ d.height > d.lastCommittedHeight

Ordered(blocks, top) ==
  /\ Len(blocks) <= BlockHistoryLimit
  /\ \A i \in DOMAIN blocks : blocks[i] <= top
  /\ \A i, j \in DOMAIN blocks : i < j => blocks[i] < blocks[j]

Sound(d) == (\E V : DataOK(V, d)) /\ Active(d) /\ Ordered(d.blocks, d.lastCommittedHeight)

(* The inductive invariant.                                                *)
IInv == Sound(s)

-----------------------------------------------------------------------------
(* An empty row shows nothing, so it is current at every position.         *)
LEMMA EmptyRowCurrent == EmptyRow \in Row /\ \A h, r : Current(EmptyRow, h, r)
BY DEF EmptyRow, Row, Cell, Flag, AbsentVote, NotProposer, BlockHashes, Position, At, Current

(* A cleared view is current at every position.                            *)
LEMMA ClearedView ==
  ASSUME NEW V, NEW view \in RoundView(V), NEW h, NEW r
  PROVE  /\ ClearRoundVotes(view) \in RoundView(V)
         /\ ClearRoundVotes(view).loaded = view.loaded
         /\ ClearRoundVotes(view).round = view.round
         /\ \A a \in V : Current(ClearRoundVotes(view).rows[a], h, r)
<1>1. ClearRoundVotes(view)
        = [loaded |-> view.loaded, round |-> view.round, rows |-> [a \in V |-> EmptyRow]]
  BY DEF ClearRoundVotes, RoundView
<1>2. [a \in V |-> EmptyRow] \in [V -> Row]
  BY EmptyRowCurrent
<1> QED BY <1>1, <1>2, EmptyRowCurrent DEF RoundView

(* Restarting a view for round r makes it displayable at any height.       *)
LEMMA RestartedView ==
  ASSUME NEW V, NEW view \in RoundView(V), ~view.loaded => V = {}, NEW h, NEW r \in Nat
  PROVE  ViewOK(V, RestartView(view, r), h, r)
<1>1. CASE view.loaded
  <2> DEFINE c == ClearRoundVotes(view)
  <2>1. c \in RoundView(V) /\ c.loaded = TRUE /\ \A a \in V : Current(c.rows[a], h, r)
    BY <1>1, ClearedView DEF RoundView
  <2>2. RestartView(view, r) = [c EXCEPT !.round = r]
    BY <1>1 DEF RestartView
  <2> HIDE DEF c
  <2>3. [c EXCEPT !.round = r] \in RoundView(V)
    BY <2>1 DEF RoundView
  <2>4. [c EXCEPT !.round = r].loaded = TRUE /\ [c EXCEPT !.round = r].round = r
        /\ [c EXCEPT !.round = r].rows = c.rows
    BY <2>1 DEF RoundView
  <2> QED BY <2>1, <2>2, <2>3, <2>4 DEF ViewOK
<1>2. CASE ~view.loaded
  BY <1>2 DEF RestartView, ViewOK
<1> QED BY <1>1, <1>2 DEF RoundView

(* advanceRound keeps the display current; accepted, it moves to (h, r);   *)
(* rejected, it changes nothing; it never touches commits or blocks.       *)
LEMMA AdvanceRoundOK ==
  ASSUME NEW V, NEW d, DataOK(V, d), NEW h \in Int, NEW r \in Int, NEW step \in Nat
  PROVE  LET e == AdvanceRound(d, h, r, step) IN
         /\ DataOK(V, e)
         /\ Advances(d, h, r) => e.height = h /\ e.round = r
         /\ ~Advances(d, h, r) => e = d
         /\ e.lastCommittedHeight = d.lastCommittedHeight /\ e.blocks = d.blocks
         /\ e.validatorHeight = d.validatorHeight /\ e.health = d.health
<1> DEFINE e == AdvanceRound(d, h, r, step)
<1>1. CASE ~Advances(d, h, r)
  BY <1>1 DEF AdvanceRound
<1>2. CASE Advances(d, h, r) /\ (h # d.height \/ r # d.round)
  <2>1. h \in Nat /\ r \in Nat /\ r \in 0..MaxRound
    BY <1>2, DashboardDomains DEF Advances, DataOK, StateData
  <2>2. e = [d EXCEPT !.height = h, !.round = r, !.step = step, !.lastRound = RestartView(@, r)]
    BY <1>2 DEF AdvanceRound
  <2>3. ViewOK(V, RestartView(d.lastRound, r), h, r)
    BY <2>1, RestartedView DEF DataOK, StateData, ViewOK
  <2>4. RestartView(d.lastRound, r) \in RoundView(V)
    BY <2>3 DEF ViewOK
  <2>5. e \in StateData(V) /\ e.lastRound = RestartView(d.lastRound, r) /\ e.height = h /\ e.round = r
    BY <2>1, <2>2, <2>4 DEF DataOK, StateData
  <2>6. /\ e.lastCommittedHeight = d.lastCommittedHeight /\ e.blocks = d.blocks
        /\ e.validatorHeight = d.validatorHeight /\ e.health = d.health
    BY <2>2 DEF DataOK, StateData
  <2> QED BY <1>2, <2>3, <2>5, <2>6 DEF DataOK
<1>3. CASE Advances(d, h, r) /\ h = d.height /\ r = d.round
  <2>1. e = [d EXCEPT !.step = Greater(step, @)]
    BY <1>3 DEF AdvanceRound
  <2>2. Greater(step, d.step) \in Nat
    BY DEF Greater, DataOK, StateData
  <2> QED BY <1>3, <2>1, <2>2 DEF DataOK, StateData
<1> QED BY <1>1, <1>2, <1>3

(* appendBlock keeps the history bounded and increasing when the sample is *)
(* at most the committed height top.                                       *)
LEMMA AppendBlockOrdered ==
  ASSUME NEW blocks \in Seq(Nat), NEW top \in Nat, Ordered(blocks, top),
         NEW h \in Nat, h <= top
  PROVE  AppendBlock(blocks, h) \in Seq(Nat) /\ Ordered(AppendBlock(blocks, h), top)
<1> DEFINE all == Append(blocks, h)
<1>1. CASE blocks # <<>> /\ h <= blocks[Len(blocks)]
  BY <1>1 DEF AppendBlock
<1>2. CASE ~(blocks # <<>> /\ h <= blocks[Len(blocks)])
  <2>1. all \in Seq(Nat) /\ Len(all) = Len(blocks) + 1 /\ Len(all) \in Nat
    OBVIOUS
  <2>2. \A i \in 1..Len(all) : all[i] <= top /\ all[i] \in Nat
    BY <2>1 DEF Ordered
  <2>3. \A i \in 1..Len(blocks) : all[i] = blocks[i] /\ blocks[i] < h
    <3>1. \A i \in 1..Len(blocks) : all[i] = blocks[i]
      OBVIOUS
    <3>2. \A i \in 1..Len(blocks) : blocks[i] <= blocks[Len(blocks)] /\ blocks[i] \in Nat
      BY DEF Ordered
    <3>3. Len(blocks) > 0 => blocks[Len(blocks)] < h
      BY <1>2, <3>2
    <3> QED BY <3>1, <3>2, <3>3
  <2>4. \A i, j \in 1..Len(all) : i < j => all[i] < all[j]
    <3> SUFFICES ASSUME NEW i \in 1..Len(all), NEW j \in 1..Len(all), i < j
                 PROVE  all[i] < all[j]
      OBVIOUS
    <3>1. i \in 1..Len(blocks)
      BY <2>1
    <3>2. CASE j \in 1..Len(blocks)
      BY <3>1, <3>2, <2>3 DEF Ordered
    <3>3. CASE j = Len(all)
      BY <3>1, <3>3, <2>1, <2>3
    <3> QED BY <3>2, <3>3, <2>1
  <2>5. CASE Len(all) > BlockHistoryLimit
    <3>1. AppendBlock(blocks, h) = Tail(all)
      BY <1>2, <2>5 DEF AppendBlock
    <3> HIDE DEF all
    <3>2. all # <<>>
      BY <2>5, <2>1, DashboardDomains
    <3>3. /\ Tail(all) \in Seq(Nat) /\ Len(Tail(all)) = Len(all) - 1
          /\ \A i \in 1..Len(Tail(all)) : Tail(all)[i] = all[i + 1]
      BY <2>1, <3>2
    <3>4. \A i \in 1..Len(Tail(all)) : i + 1 \in 1..Len(all)
      BY <3>3, <2>1
    <3>5. Len(Tail(all)) <= BlockHistoryLimit
      BY <3>3, <2>1, DashboardDomains DEF Ordered
    <3>6. \A i \in 1..Len(Tail(all)) : Tail(all)[i] <= top
      BY <3>3, <3>4, <2>2
    <3>7. \A i, j \in 1..Len(Tail(all)) : i < j => Tail(all)[i] < Tail(all)[j]
      BY <3>3, <3>4, <2>4
    <3>8. DOMAIN Tail(all) = 1..Len(Tail(all))
      BY <3>3
    <3> QED BY <3>1, <3>3, <3>5, <3>6, <3>7, <3>8 DEF Ordered
  <2>6. CASE ~(Len(all) > BlockHistoryLimit)
    <3>1. AppendBlock(blocks, h) = all
      BY <1>2, <2>6 DEF AppendBlock
    <3> HIDE DEF all
    <3>2. DOMAIN all = 1..Len(all)
      BY <2>1
    <3> QED BY <3>1, <3>2, <2>1, <2>2, <2>4, <2>6, DashboardDomains DEF Ordered
  <2> QED BY <2>5, <2>6
<1> QED BY <1>1, <1>2

(* A larger committed height keeps the history ordered.                    *)
LEMMA OrderedUp ==
  ASSUME NEW blocks \in Seq(Nat), NEW top \in Nat, Ordered(blocks, top), NEW up \in Nat, top <= up
  PROVE  Ordered(blocks, up)
BY DEF Ordered

-----------------------------------------------------------------------------
(* handleNewBlock's callback.                                              *)
LEMMA CommitBlockSound ==
  ASSUME NEW d, Sound(d), NEW h \in Int, AcceptsBlock(d, h)
  PROVE  Sound(CommitBlock(d, h))
<1>1. PICK V : DataOK(V, d)
  BY DEF Sound
<1> DEFINE top == Greater(h, d.lastCommittedHeight)
           d1 == [d EXCEPT !.lastCommittedHeight = Greater(h, @), !.blocks = AppendBlock(@, h)]
           e == AdvanceRound(d1, h + 1, 0, 1)
<1>2. h \in Nat /\ top \in Nat /\ top = h /\ d.lastCommittedHeight <= top
  BY <1>1 DEF AcceptsBlock, Greater, DataOK, StateData
<1>3. AppendBlock(d.blocks, h) \in Seq(Nat) /\ Ordered(AppendBlock(d.blocks, h), top)
  <2>1. d.blocks \in Seq(Nat) /\ d.lastCommittedHeight \in Nat
    BY <1>1 DEF DataOK, StateData
  <2>2. Ordered(d.blocks, top)
    BY <2>1, <1>2, OrderedUp DEF Sound
  <2> QED BY <2>1, <2>2, <1>2, AppendBlockOrdered
<1>4. /\ d1 \in StateData(V) /\ d1.lastRound = d.lastRound
      /\ d1.height = d.height /\ d1.round = d.round
      /\ d1.lastCommittedHeight = top /\ d1.blocks = AppendBlock(d.blocks, h)
  BY <1>1, <1>2, <1>3 DEF DataOK, StateData
<1>5. DataOK(V, d1)
  BY <1>1, <1>4 DEF DataOK
<1> HIDE DEF d1
<1>6. /\ DataOK(V, e) /\ e.lastCommittedHeight = top /\ e.blocks = AppendBlock(d.blocks, h)
      /\ Advances(d1, h + 1, 0) => e.height = h + 1
      /\ ~Advances(d1, h + 1, 0) => e = d1
  BY <1>2, <1>4, <1>5, AdvanceRoundOK
<1>7. Active(e)
  <2>1. CASE Advances(d1, h + 1, 0)
    BY <2>1, <1>2, <1>6 DEF Active
  <2>2. CASE ~Advances(d1, h + 1, 0)
    <3>1. h + 1 <= d.height
      BY <2>2, <1>1, <1>2, <1>4, DashboardDomains DEF Advances, DataOK, StateData
    <3> QED BY <2>2, <3>1, <1>1, <1>2, <1>4, <1>6 DEF Active, DataOK, StateData
  <2> QED BY <2>1, <2>2
<1> QED BY <1>3, <1>6, <1>7 DEF Sound, CommitBlock, d1

(* advanceRound alone.                                                     *)
LEMMA AdvanceRoundSound ==
  ASSUME NEW d, Sound(d), NEW h \in Int, NEW r \in Int, NEW step \in Nat
  PROVE  Sound(AdvanceRound(d, h, r, step))
<1>1. PICK V : DataOK(V, d)
  BY DEF Sound
<1> DEFINE e == AdvanceRound(d, h, r, step)
<1>2. /\ DataOK(V, e) /\ e.lastCommittedHeight = d.lastCommittedHeight /\ e.blocks = d.blocks
      /\ Advances(d, h, r) => e.height = h
      /\ ~Advances(d, h, r) => e = d
  BY <1>1, AdvanceRoundOK
<1>3. Active(e)
  BY <1>2 DEF Active, Advances, Sound
<1> HIDE DEF e
<1> QED BY <1>2, <1>3 DEF Sound, e

(* Replacing the round view by one that may be displayed.                  *)
LEMMA NewView ==
  ASSUME NEW d, Sound(d), NEW V \in SUBSET Addresses, NEW view, ViewOK(V, view, d.height, d.round)
  PROVE  Sound([d EXCEPT !.lastRound = view])
<1>1. PICK W : DataOK(W, d)
  BY DEF Sound
<1> DEFINE e == [d EXCEPT !.lastRound = view]
<1>2. /\ e \in StateData(V) /\ e.lastRound = view /\ e.height = d.height /\ e.round = d.round
      /\ e.lastCommittedHeight = d.lastCommittedHeight /\ e.blocks = d.blocks
  BY <1>1 DEF DataOK, StateData, ViewOK
<1> HIDE DEF e
<1>3. DataOK(V, e)
  BY <1>2 DEF DataOK
<1> QED BY <1>2, <1>3 DEF Sound, Active, e

(* handleNewRound's callback.                                              *)
LEMMA StartRoundSound ==
  ASSUME NEW d, Sound(d), NEW h \in Int, NEW r \in Int, NEW step \in Nat, NEW p,
         Advances(d, h, r)
  PROVE  Sound(StartRound(d, h, r, step, p))
<1> DEFINE e == AdvanceRound(d, h, r, step)
<1>1. PICK V : DataOK(V, d)
  BY DEF Sound
<1>2. DataOK(V, e) /\ e.height = h /\ e.round = r /\ Sound(e)
  BY <1>1, AdvanceRoundOK, AdvanceRoundSound
<1> HIDE DEF e
<1> DEFINE view == e.lastRound
           marked == MarkProposer(view, p, h, r)
<1>3. ViewOK(V, marked, h, r)
  <2>1. CASE p = NoProposer
    BY <2>1, <1>2 DEF MarkProposer, DataOK
  <2>2. CASE p # NoProposer
    <3> DEFINE flag(a) == IF a = p THEN [set |-> TRUE, at |-> At(h, r)] ELSE NotProposer
               rows == [a \in V |-> [view.rows[a] EXCEPT !.proposer = flag(a)]]
    <3>1. view \in RoundView(V) /\ view.rows \in [V -> Row]
      BY <1>2 DEF DataOK, ViewOK, RoundView
    <3>2. marked = [view EXCEPT !.rows = rows]
      BY <2>2, <3>1 DEF MarkProposer
    <3>3. ASSUME NEW a \in V
          PROVE  /\ rows[a] \in Row /\ rows[a].votes = view.rows[a].votes
                 /\ rows[a].proposer.set => rows[a].proposer.at = At(h, r)
      <4>1. flag(a) \in Flag /\ (flag(a).set => flag(a).at = At(h, r))
        BY DEF Flag, NotProposer, Position, At
      <4> HIDE DEF flag
      <4>2. view.rows[a] \in Row
        BY <3>1
      <4> QED BY <4>1, <4>2 DEF Row
    <3>4. \A a \in V : Current(rows[a], h, r)
      BY <3>3, <1>2 DEF Current, DataOK, ViewOK
    <3>5. rows \in [V -> Row]
      BY <3>3
    <3> HIDE DEF rows
    <3>6. /\ marked \in RoundView(V) /\ marked.rows = rows
          /\ marked.loaded = view.loaded /\ marked.round = view.round
      BY <3>1, <3>2, <3>5 DEF RoundView
    <3> QED BY <3>4, <3>6, <1>2 DEF DataOK, ViewOK
  <2> QED BY <2>1, <2>2
<1>4. Sound([e EXCEPT !.lastRound = marked])
  <2>1. V \in SUBSET Addresses
    BY <1>1 DEF DataOK
  <2> HIDE DEF marked
  <2> QED BY <1>2, <1>3, <2>1, NewView
<1> QED BY <1>4 DEF StartRound, e

(* handleVote's callback.                                                  *)
LEMMA RecordVoteSound ==
  ASSUME NEW d, Sound(d), NEW v \in Votes
  PROVE  Sound(RecordVote(d, v))
<1> DEFINE e == AdvanceRound(d, v.height, v.round, StepOf(v.type))
<1>0. v.height \in Int /\ v.round \in Int /\ v.type \in VoteTypes /\ v.hash \in BlockHashes
      /\ StepOf(v.type) \in Nat
  BY DashboardDomains DEF Votes, StepOf
<1>1. PICK V : DataOK(V, d)
  BY DEF Sound
<1>2. /\ DataOK(V, e) /\ Sound(e)
      /\ Advances(d, v.height, v.round) => e.height = v.height /\ e.round = v.round
  BY <1>0, <1>1, AdvanceRoundOK, AdvanceRoundSound
<1>3. CASE ~AcceptsVote(d, v) \/ v.addr \notin DOMAIN e.lastRound.rows
  BY <1>2, <1>3 DEF RecordVote
<1>4. CASE AcceptsVote(d, v) /\ v.addr \in DOMAIN e.lastRound.rows
  <2>1. RecordVote(d, v) = [e EXCEPT !.lastRound.rows[v.addr].votes[v.type] = CellOf(v)]
    BY <1>4 DEF RecordVote
  <2>2. e.height = v.height /\ e.round = v.round
    BY <1>2, <1>4 DEF AcceptsVote
  <2> HIDE DEF e
  <2> DEFINE view == e.lastRound
             row == [view.rows[v.addr] EXCEPT !.votes[v.type] = CellOf(v)]
             shown == [view EXCEPT !.rows[v.addr] = row]
  <2>3. view \in RoundView(V) /\ view.rows \in [V -> Row] /\ v.addr \in V
    BY <1>2, <1>4 DEF DataOK, ViewOK, RoundView
  <2>4. CellOf(v) \in Cell /\ CellOf(v).at = At(e.height, e.round)
    BY <1>0, <2>2 DEF CellOf, Cell, Position, At
  <2>5. view.rows[v.addr] \in Row /\ Current(view.rows[v.addr], e.height, e.round)
    BY <2>3, <1>2 DEF DataOK, ViewOK
  <2>6. /\ row \in Row /\ row.proposer = view.rows[v.addr].proposer
        /\ row.votes[v.type] = CellOf(v)
        /\ \A type \in VoteTypes : type # v.type => row.votes[type] = view.rows[v.addr].votes[type]
    <3> HIDE DEF view
    <3> QED BY <2>4, <2>5, <1>0 DEF Row
  <2>7. Current(row, e.height, e.round)
    <3> HIDE DEF row
    <3> QED BY <2>4, <2>5, <2>6 DEF Current
  <2> HIDE DEF row
  <2>8. /\ shown \in RoundView(V) /\ shown.loaded = view.loaded /\ shown.round = view.round
        /\ \A a \in V : shown.rows[a] = IF a = v.addr THEN row ELSE view.rows[a]
    BY <2>3, <2>6 DEF RoundView
  <2>9. ViewOK(V, shown, e.height, e.round)
    BY <2>7, <2>8, <1>2 DEF DataOK, ViewOK
  <2>10. [e EXCEPT !.lastRound.rows[v.addr].votes[v.type] = CellOf(v)]
           = [e EXCEPT !.lastRound = shown]
    BY DEF row
  <2>11. V \in SUBSET Addresses
    BY <1>1 DEF DataOK
  <2> HIDE DEF shown
  <2>12. Sound([e EXCEPT !.lastRound = shown])
    BY <2>9, <2>11, <1>2, NewView
  <2> QED BY <2>1, <2>10, <2>12
<1> QED BY <1>3, <1>4

(* A change of Health alone.                                               *)
LEMMA HealthSound ==
  ASSUME NEW d, Sound(d), NEW health \in Health
  PROVE  Sound([d EXCEPT !.health = health])
<1>1. PICK V : DataOK(V, d)
  BY DEF Sound
<1> DEFINE e == [d EXCEPT !.health = health]
<1>2. /\ e \in StateData(V) /\ e.lastRound = d.lastRound /\ e.height = d.height
      /\ e.round = d.round /\ e.lastCommittedHeight = d.lastCommittedHeight /\ e.blocks = d.blocks
  BY <1>1 DEF DataOK, StateData
<1> HIDE DEF e
<1> QED BY <1>1, <1>2 DEF Sound, DataOK, Active, e

(* A successful request changes the health only.                           *)
LEMMA HTTPSuccessSound ==
  ASSUME NEW d, Sound(d)
  PROVE  /\ Sound(RecordHTTPSuccess(d))
         /\ \A V : DataOK(V, d) =>
              /\ RecordHTTPSuccess(d).lastRound = d.lastRound
              /\ RecordHTTPSuccess(d).height = d.height
              /\ RecordHTTPSuccess(d).round = d.round
              /\ RecordHTTPSuccess(d).step = d.step
              /\ RecordHTTPSuccess(d).lastCommittedHeight = d.lastCommittedHeight
              /\ RecordHTTPSuccess(d).validatorHeight = d.validatorHeight
              /\ RecordHTTPSuccess(d).blocks = d.blocks
<1>1. PICK V : DataOK(V, d)
  BY DEF Sound
<1>2. d.health \in Health
  BY <1>1 DEF DataOK, StateData
<1>3. [d.health EXCEPT !.http = "fresh"] \in Health
  BY <1>2 DEF Health, Freshness
<1>4. RecordHTTPSuccess(d) = [d EXCEPT !.health = [d.health EXCEPT !.http = "fresh"]]
  BY DEF RecordHTTPSuccess
<1> QED BY <1>1, <1>3, <1>4, HealthSound DEF DataOK, StateData

(* refreshStatus's callback.                                               *)
LEMMA ApplyStatusSound ==
  ASSUME NEW d, Sound(d), NEW latest \in Int
  PROVE  Sound(ApplyStatus(d, latest))
<1> DEFINE d1 == RecordHTTPSuccess(d)
<1>1. PICK V : DataOK(V, d)
  BY DEF Sound
<1>2. /\ Sound(d1) /\ d1.lastRound = d.lastRound /\ d1.height = d.height /\ d1.round = d.round
      /\ d1.lastCommittedHeight = d.lastCommittedHeight /\ d1.blocks = d.blocks
  BY <1>1, HTTPSuccessSound
<1>3. PICK W : DataOK(W, d1)
  BY <1>2 DEF Sound
<1>4. CASE latest <= d.lastCommittedHeight
  BY <1>2, <1>4 DEF ApplyStatus
<1>5. CASE latest > d.lastCommittedHeight
  <2>1. d.lastCommittedHeight \in Nat /\ latest \in Nat /\ d1.blocks \in Seq(Nat)
        /\ d.height \in Nat
    BY <1>1, <1>3, <1>5 DEF DataOK, StateData
  <2>2. Ordered(d1.blocks, latest)
    BY <2>1, <1>2, <1>5, OrderedUp DEF Sound
  <2>3. CASE d.height > 0 /\ d.height <= latest
    <3> DEFINE view == RestartView(d1.lastRound, 0)
               e == [d1 EXCEPT !.lastCommittedHeight = latest, !.height = 0, !.round = 0,
                               !.step = 0, !.lastRound = view]
    <3>1. ViewOK(W, view, 0, 0)
      BY <1>3, RestartedView DEF DataOK, StateData, ViewOK
    <3> HIDE DEF d1
    <3>2. ApplyStatus(d, latest) = e
      BY <1>5, <2>1, <2>3 DEF ApplyStatus, d1
    <3> HIDE DEF view
    <3> 0 \in 0..MaxRound
      BY DashboardDomains
    <3>3. /\ e \in StateData(W) /\ e.lastRound = view /\ e.height = 0 /\ e.round = 0
          /\ e.lastCommittedHeight = latest /\ e.blocks = d1.blocks
      BY <1>3, <2>1, <3>1 DEF DataOK, StateData, ViewOK
    <3> HIDE DEF e
    <3> QED BY <1>3, <2>2, <3>1, <3>2, <3>3 DEF Sound, DataOK, Active
  <2>4. CASE ~(d.height > 0 /\ d.height <= latest)
    <3> DEFINE e == [d1 EXCEPT !.lastCommittedHeight = latest]
    <3> HIDE DEF d1
    <3>1. ApplyStatus(d, latest) = e
      BY <1>5, <2>1, <2>4 DEF ApplyStatus, d1
    <3>2. /\ e \in StateData(W) /\ e.lastRound = d1.lastRound /\ e.height = d1.height
          /\ e.round = d1.round /\ e.lastCommittedHeight = latest /\ e.blocks = d1.blocks
      BY <1>3, <2>1 DEF DataOK, StateData
    <3>3. Active(e)
      BY <3>2, <2>1, <2>4, <1>2 DEF Active
    <3> HIDE DEF e
    <3> QED BY <1>3, <2>2, <3>1, <3>2, <3>3 DEF Sound, DataOK
  <2> QED BY <2>3, <2>4
<1> QED
  <2>1. d.lastCommittedHeight \in Nat
    BY <1>1 DEF DataOK, StateData
  <2> QED BY <1>4, <1>5, <2>1

(* refreshValidators' callback.                                            *)
LEMMA MergeValidatorRoundSound ==
  ASSUME NEW d, Sound(d), NEW V \in SUBSET Addresses, NEW vh \in Int
  PROVE  Sound(MergeValidatorRound(d, V, vh))
<1>1. PICK W : DataOK(W, d)
  BY DEF Sound
<1>2. CASE vh < d.validatorHeight
  BY <1>2 DEF MergeValidatorRound
<1>3. CASE ~(vh < d.validatorHeight)
  <2> DEFINE old == d.lastRound
             kept == IF old.loaded /\ old.round = d.round THEN DOMAIN old.rows ELSE {}
             rows == [a \in V |-> IF a \in kept THEN old.rows[a] ELSE EmptyRow]
             view == [loaded |-> TRUE, round |-> d.round, rows |-> rows]
             e == [d EXCEPT !.lastRound = view]
  <2>1. kept \subseteq W /\ old.rows \in [W -> Row]
        /\ \A a \in W : Current(old.rows[a], d.height, d.round)
    BY <1>1 DEF DataOK, ViewOK, RoundView
  <2>2. \A a \in V : rows[a] \in Row /\ Current(rows[a], d.height, d.round)
    BY <2>1, EmptyRowCurrent
  <2>3. rows \in [V -> Row]
    BY <2>2
  <2>4. d.round \in Nat
    BY <1>1 DEF DataOK, StateData
  <2>5. MergeValidatorRound(d, V, vh) = [d EXCEPT !.lastRound = view, !.validatorHeight = vh]
    BY <1>3 DEF MergeValidatorRound
  <2> HIDE DEF rows
  <2>6. ViewOK(V, view, d.height, d.round)
    BY <2>2, <2>3, <2>4 DEF ViewOK, RoundView
  <2> HIDE DEF view
  <2>7. Sound(e)
    BY <2>6, NewView
  <2>8. PICK X : DataOK(X, e)
    BY <2>7 DEF Sound
  <2> DEFINE f == [e EXCEPT !.validatorHeight = vh]
  <2>9. MergeValidatorRound(d, V, vh) = f
    BY <2>5
  <2> HIDE DEF e
  <2>10. /\ f \in StateData(X) /\ f.lastRound = e.lastRound /\ f.height = e.height
         /\ f.round = e.round /\ f.lastCommittedHeight = e.lastCommittedHeight
         /\ f.blocks = e.blocks
    BY <2>8 DEF DataOK, StateData
  <2> HIDE DEF f
  <2> QED BY <2>7, <2>8, <2>9, <2>10 DEF Sound, DataOK, Active
<1> QED BY <1>2, <1>3

(* refreshConsensusViaHTTP's callback.                                     *)
LEMMA ApplyFallbackSound ==
  ASSUME NEW d, Sound(d), NEW h \in Int, NEW r \in Int, NEW step \in Nat
  PROVE  Sound(ApplyFallback(d, h, r, step))
<1> DEFINE d0 == RecordHTTPSuccess(d)
           d1 == AdvanceRound(d0, h, r, step)
<1>1. Sound(d0)
  BY HTTPSuccessSound
<1> HIDE DEF d0
<1>2. Sound(d1)
  BY <1>1, AdvanceRoundSound
<1> HIDE DEF d1
<1>3. PICK V : DataOK(V, d1)
  BY <1>2 DEF Sound
<1> DEFINE view == ClearRoundVotes(d1.lastRound)
<1>4. ViewOK(V, view, d1.height, d1.round)
  BY <1>3, ClearedView DEF DataOK, ViewOK
<1> HIDE DEF view
<1>5. Sound([d1 EXCEPT !.lastRound = view])
  BY <1>2, <1>3, <1>4, NewView DEF DataOK
<1> QED BY <1>2, <1>5 DEF ApplyFallback, d0, d1, view

(* refreshLatestBlock's callback.                                          *)
LEMMA BlockReplySound ==
  ASSUME NEW d, Sound(d), NEW h \in Int, h > 0, h <= d.lastCommittedHeight
  PROVE  Sound(RecordHTTPSuccess([d EXCEPT !.blocks = AppendBlock(@, h)]))
<1>1. PICK V : DataOK(V, d)
  BY DEF Sound
<1> DEFINE e == [d EXCEPT !.blocks = AppendBlock(@, h)]
<1>2. AppendBlock(d.blocks, h) \in Seq(Nat)
      /\ Ordered(AppendBlock(d.blocks, h), d.lastCommittedHeight)
  BY <1>1, AppendBlockOrdered DEF Sound, DataOK, StateData
<1>3. /\ e \in StateData(V) /\ e.lastRound = d.lastRound /\ e.height = d.height
      /\ e.round = d.round /\ e.lastCommittedHeight = d.lastCommittedHeight
      /\ e.blocks = AppendBlock(d.blocks, h)
  BY <1>1, <1>2 DEF DataOK, StateData
<1> HIDE DEF e
<1>4. Sound(e)
  BY <1>1, <1>2, <1>3 DEF Sound, DataOK, Active
<1> QED BY <1>4, HTTPSuccessSound DEF e

-----------------------------------------------------------------------------
(* The initial state satisfies the invariant.                              *)
LEMMA InitSound == Init => IInv
<1> SUFFICES ASSUME Init PROVE IInv
  OBVIOUS
<1> DEFINE rows == [a \in {} |-> EmptyRow]
<1>1. rows \in [{} -> Row]
  OBVIOUS
<1> HIDE DEF rows
<1>2. s = [height |-> 0, round |-> 0, step |-> 0, lastCommittedHeight |-> 0, validatorHeight |-> 0,
           lastRound |-> [loaded |-> FALSE, round |-> 0, rows |-> rows], blocks |-> <<>>,
           health |-> [wsConnected |-> FALSE, event |-> "never", http |-> "never"]]
  BY DEF Init, rows
<1>3. s \in StateData({}) /\ s.lastRound = [loaded |-> FALSE, round |-> 0, rows |-> rows]
      /\ s.height = 0 /\ s.round = 0 /\ s.blocks = <<>>
  BY <1>1, <1>2, DashboardDomains DEF StateData, RoundView, Health, Freshness
<1>4. DataOK({}, s)
  BY <1>1, <1>3 DEF DataOK, ViewOK, RoundView
<1>5. Ordered(<<>>, s.lastCommittedHeight)
  BY DashboardDomains DEF Ordered
<1> QED BY <1>3, <1>4, <1>5 DEF IInv, Sound, Active

(* Every callback preserves the invariant.                                 *)
LEMMA NextSound == IInv /\ [Next]_s => IInv'
<1> SUFFICES ASSUME IInv, [Next]_s PROVE IInv'
  OBVIOUS
<1> USE DashboardDomains
<1>0. Sound(s) /\ s.health \in Health
  BY DEF IInv, Sound, DataOK, StateData
<1>1. CASE StreamEvent
  <2>1. [s.health EXCEPT !.event = "fresh"] \in Health
    BY <1>0 DEF Health, Freshness
  <2> QED BY <1>0, <1>1, <2>1, HealthSound DEF StreamEvent, IInv
<1>2. ASSUME NEW h \in Heights, NewBlock(h) PROVE IInv'
  BY <1>0, <1>2, CommitBlockSound DEF NewBlock, IInv
<1>3. ASSUME NEW h \in Heights, NEW r \in Rounds, NEW step \in Steps, NEW p \in Proposers,
             NewRound(h, r, step, p) PROVE IInv'
  BY <1>0, <1>3, StartRoundSound DEF NewRound, IInv
<1>4. ASSUME NEW v \in Votes, Vote(v) PROVE IInv'
  BY <1>0, <1>4, RecordVoteSound DEF Vote, IInv
<1>5. ASSUME NEW h \in Heights, StatusReply(h) PROVE IInv'
  BY <1>0, <1>5, ApplyStatusSound DEF StatusReply, IInv
<1>6. ASSUME NEW h \in Heights, BlockReply(h) PROVE IInv'
  BY <1>0, <1>6, BlockReplySound DEF BlockReply, IInv
<1>7. ASSUME NEW V \in ValidatorSets, NEW vh \in Heights, ValidatorsReply(V, vh) PROVE IInv'
  BY <1>0, <1>7, MergeValidatorRoundSound DEF ValidatorsReply, IInv
<1>8. ASSUME NEW h \in Heights, NEW r \in Rounds, NEW step \in Steps, FallbackReply(h, r, step)
      PROVE IInv'
  BY <1>0, <1>8, ApplyFallbackSound DEF FallbackReply, IInv
<1>9. ASSUME NEW live \in BOOLEAN, Lifecycle(live) PROVE IInv'
  <2>1. [s.health EXCEPT !.wsConnected = live] \in Health
    BY <1>0 DEF Health
  <2> QED BY <1>0, <1>9, <2>1, HealthSound DEF Lifecycle, IInv
<1>10. CASE EventAges
  <2>1. [s.health EXCEPT !.event = "old"] \in Health
    BY <1>0 DEF Health, Freshness
  <2> QED BY <1>0, <1>10, <2>1, HealthSound DEF EventAges, IInv
<1>11. CASE HTTPAges
  <2>1. [s.health EXCEPT !.http = "old"] \in Health
    BY <1>0 DEF Health, Freshness
  <2> QED BY <1>0, <1>11, <2>1, HealthSound DEF HTTPAges, IInv
<1>12. CASE UNCHANGED s
  BY <1>12 DEF IInv
<1> QED
  BY <1>1, <1>2, <1>3, <1>4, <1>5, <1>6, <1>7, <1>8, <1>9, <1>10, <1>11, <1>12 DEF Next

(* The invariant holds in every reachable state.                           *)
THEOREM DashboardInvariant == Spec => []IInv
BY InitSound, NextSound, PTL DEF Spec

(* StateData keeps its shape.                                              *)
THEOREM DashboardTypeOK == Spec => []TypeOK
<1>1. IInv => TypeOK
  BY DEF IInv, Sound, DataOK, TypeOK
<1> QED BY <1>1, DashboardInvariant, PTL

(* The displayed height has not committed, whichever goroutine reported    *)
(* the commit.                                                             *)
THEOREM DashboardActiveAboveCommitted == Spec => []ActiveAboveCommitted
<1>1. IInv => ActiveAboveCommitted
  BY DEF IInv, Sound, Active, ActiveAboveCommitted
<1> QED BY <1>1, DashboardInvariant, PTL

(* The round view is of the displayed round.                               *)
THEOREM DashboardRoundViewCurrent == Spec => []RoundViewCurrent
<1>1. IInv => RoundViewCurrent
  BY DEF IInv, Sound, DataOK, ViewOK, RoundViewCurrent
<1> QED BY <1>1, DashboardInvariant, PTL

(* Every vote and proposer flag on display is of the displayed height and  *)
(* round.                                                                  *)
THEOREM DashboardDisplayIsCurrent == Spec => []DisplayIsCurrent
<1>1. IInv => DisplayIsCurrent
  BY DEF IInv, Sound, DataOK, ViewOK, RoundView, Current, DisplayIsCurrent
<1> QED BY <1>1, DashboardInvariant, PTL

(* The block history is bounded, increasing and committed.                 *)
THEOREM DashboardBlocksOrdered == Spec => []BlocksOrdered
<1>1. IInv => BlocksOrdered
  BY DEF IInv, Sound, Ordered, BlocksOrdered
<1> QED BY <1>1, DashboardInvariant, PTL

-----------------------------------------------------------------------------
(* NeverBackwards, of two StateData records.                               *)
Position2(d, e) ==
  \/ e.height > d.height
  \/ e.height = d.height /\ e.round > d.round
  \/ e.height = d.height /\ e.round = d.round /\ e.step >= d.step
  \/ e.height = 0 /\ e.lastCommittedHeight >= d.height

Forward(d, e) ==
  /\ e.lastCommittedHeight >= d.lastCommittedHeight
  /\ e.validatorHeight >= d.validatorHeight
  /\ Position2(d, e)

(* d and e differ at most in the round view, the history and health.       *)
SamePlace(d, e) ==
  /\ e.height = d.height /\ e.round = d.round /\ e.step = d.step
  /\ e.lastCommittedHeight = d.lastCommittedHeight /\ e.validatorHeight = d.validatorHeight

(* advanceRound never moves backwards.                                     *)
LEMMA AdvanceRoundForward ==
  ASSUME NEW V, NEW d, DataOK(V, d), NEW h \in Int, NEW r \in Int, NEW step \in Nat
  PROVE  Forward(d, AdvanceRound(d, h, r, step))
<1> DEFINE e == AdvanceRound(d, h, r, step)
<1>0. d.height \in Nat /\ d.round \in Nat /\ d.step \in Nat /\ d.lastCommittedHeight \in Nat
      /\ d.validatorHeight \in Int
  BY DEF DataOK, StateData
<1>1. /\ e.lastCommittedHeight = d.lastCommittedHeight /\ e.validatorHeight = d.validatorHeight
      /\ Advances(d, h, r) => e.height = h /\ e.round = r
      /\ ~Advances(d, h, r) => e = d
  BY AdvanceRoundOK
<1>2. CASE ~Advances(d, h, r)
  BY <1>0, <1>1, <1>2 DEF Forward, Position2
<1>3. CASE Advances(d, h, r) /\ (h # d.height \/ r # d.round)
  <2>1. h > d.height \/ (h = d.height /\ r > d.round)
    BY <1>0, <1>3 DEF Advances
  <2> HIDE DEF e
  <2>2. Forward(d, e)
    BY <1>0, <1>1, <1>3, <2>1 DEF Forward, Position2
  <2> QED BY <2>2 DEF e
<1>4. CASE Advances(d, h, r) /\ h = d.height /\ r = d.round
  <2>1. e = [d EXCEPT !.step = Greater(step, @)]
    BY <1>4 DEF AdvanceRound
  <2>2. e.step = Greater(step, d.step)
    BY <2>1 DEF DataOK, StateData
  <2>3. e.step >= d.step
    BY <2>2, <1>0 DEF Greater
  <2> HIDE DEF e
  <2>4. Forward(d, e)
    BY <1>0, <1>1, <1>4, <2>3 DEF Forward, Position2
  <2> QED BY <2>4 DEF e
<1> QED BY <1>2, <1>3, <1>4

(* Staying in place is not a move backwards.                               *)
LEMMA SamePlaceForward ==
  ASSUME NEW V, NEW d, DataOK(V, d), NEW e, SamePlace(d, e)
  PROVE  Forward(d, e)
BY DEF Forward, Position2, SamePlace, DataOK, StateData

(* Moving within a place before or after a forward step stays forward.     *)
LEMMA ForwardThenSame ==
  ASSUME NEW d, NEW e, NEW f, Forward(d, e), SamePlace(e, f)
  PROVE  Forward(d, f)
BY DEF Forward, Position2, SamePlace

(* The same, the other way round.                                          *)
LEMMA SameThenForward ==
  ASSUME NEW d, NEW e, NEW f, SamePlace(d, e), Forward(e, f)
  PROVE  Forward(d, f)
BY DEF Forward, Position2, SamePlace

(* A new round view does not move the display.                             *)
LEMMA ViewSamePlace ==
  ASSUME NEW V, NEW d, DataOK(V, d), NEW view
  PROVE  SamePlace(d, [d EXCEPT !.lastRound = view])
BY DEF SamePlace, DataOK, StateData

(* A new health record does not move the display.                          *)
LEMMA HealthSamePlace ==
  ASSUME NEW V, NEW d, DataOK(V, d), NEW health
  PROVE  SamePlace(d, [d EXCEPT !.health = health])
BY DEF SamePlace, DataOK, StateData

(* recordHTTPSuccess does not move the display.                            *)
LEMMA HTTPSuccessSamePlace ==
  ASSUME NEW V, NEW d, DataOK(V, d)
  PROVE  SamePlace(d, RecordHTTPSuccess(d))
BY DEF SamePlace, DataOK, StateData, RecordHTTPSuccess

(* handleNewBlock's callback never moves backwards.                        *)
LEMMA CommitBlockForward ==
  ASSUME NEW V, NEW d, DataOK(V, d), NEW h \in Int, AcceptsBlock(d, h), Sound(d)
  PROVE  Forward(d, CommitBlock(d, h))
<1> DEFINE d1 == [d EXCEPT !.lastCommittedHeight = Greater(h, @), !.blocks = AppendBlock(@, h)]
           e == AdvanceRound(d1, h + 1, 0, 1)
<1>0. d.lastCommittedHeight \in Nat /\ d.blocks \in Seq(Nat) /\ h \in Nat
  BY DEF DataOK, StateData, AcceptsBlock
<1>1. Greater(h, d.lastCommittedHeight) \in Nat /\ Greater(h, d.lastCommittedHeight) >= d.lastCommittedHeight
  BY <1>0 DEF Greater
<1>2. AppendBlock(d.blocks, h) \in Seq(Nat)
  <2>1. Ordered(d.blocks, Greater(h, d.lastCommittedHeight))
    BY <1>0, <1>1, OrderedUp DEF Sound
  <2>2. h <= Greater(h, d.lastCommittedHeight)
    BY <1>0 DEF Greater
  <2> QED BY <1>0, <1>1, <2>1, <2>2, AppendBlockOrdered
<1>3. /\ d1 \in StateData(V) /\ d1.lastRound = d.lastRound /\ d1.height = d.height
      /\ d1.round = d.round /\ d1.step = d.step /\ d1.validatorHeight = d.validatorHeight
      /\ d1.lastCommittedHeight = Greater(h, d.lastCommittedHeight)
  BY <1>1, <1>2 DEF DataOK, StateData
<1>4. DataOK(V, d1)
  BY <1>3 DEF DataOK
<1> HIDE DEF d1
<1>5. Forward(d1, e)
  BY <1>0, <1>4, AdvanceRoundForward
<1>6. e.lastCommittedHeight = d1.lastCommittedHeight
  BY <1>0, <1>4, AdvanceRoundOK
<1> HIDE DEF e
<1>7. Forward(d, e)
  BY <1>1, <1>3, <1>5, <1>6 DEF Forward, Position2
<1> QED BY <1>7 DEF CommitBlock, d1, e

(* refreshStatus's callback never moves backwards, but for clearing a height. *)
LEMMA ApplyStatusForward ==
  ASSUME NEW V, NEW d, DataOK(V, d), NEW latest \in Int
  PROVE  Forward(d, ApplyStatus(d, latest))
<1> DEFINE d1 == RecordHTTPSuccess(d)
<1>1. d1 = [d EXCEPT !.health = [d.health EXCEPT !.http = "fresh"]]
  BY DEF RecordHTTPSuccess
<1>2. SamePlace(d, d1)
  BY HTTPSuccessSamePlace
<1>3. d.lastCommittedHeight \in Nat /\ d.height \in Nat /\ d.validatorHeight \in Int
      /\ d.round \in Nat /\ d.step \in Nat
  BY DEF DataOK, StateData
<1>4. CASE latest <= d.lastCommittedHeight
  BY <1>2, <1>4, SamePlaceForward DEF ApplyStatus
<1>5. CASE ~(latest <= d.lastCommittedHeight) /\ d.height > 0 /\ d.height <= latest
  <2> DEFINE e == ApplyStatus(d, latest)
  <2>1. e = [d1 EXCEPT !.lastCommittedHeight = latest, !.height = 0, !.round = 0, !.step = 0,
                       !.lastRound = RestartView(@, 0)]
    BY <1>5 DEF ApplyStatus
  <2>2. e.lastCommittedHeight = latest /\ e.height = 0 /\ e.validatorHeight = d.validatorHeight
    BY <2>1, <1>1 DEF DataOK, StateData
  <2> HIDE DEF e
  <2> QED BY <2>2, <1>3, <1>5 DEF Forward, Position2, e
<1>6. CASE ~(latest <= d.lastCommittedHeight) /\ ~(d.height > 0 /\ d.height <= latest)
  <2> DEFINE e == ApplyStatus(d, latest)
  <2>1. e = [d1 EXCEPT !.lastCommittedHeight = latest]
    BY <1>6 DEF ApplyStatus
  <2>2. /\ e.lastCommittedHeight = latest /\ e.height = d.height /\ e.round = d.round
        /\ e.step = d.step /\ e.validatorHeight = d.validatorHeight
    BY <2>1, <1>1 DEF DataOK, StateData
  <2> HIDE DEF e
  <2> QED BY <2>2, <1>3, <1>6 DEF Forward, Position2, e
<1> QED BY <1>4, <1>5, <1>6

(* mergeValidatorRound never goes back to an older validator set.          *)
LEMMA MergeValidatorRoundForward ==
  ASSUME NEW W, NEW d, DataOK(W, d), NEW V, NEW vh \in Int
  PROVE  Forward(d, MergeValidatorRound(d, V, vh))
<1>0. d.lastCommittedHeight \in Nat /\ d.height \in Nat /\ d.validatorHeight \in Int
      /\ d.round \in Nat /\ d.step \in Nat
  BY DEF DataOK, StateData
<1>1. CASE vh < d.validatorHeight
  BY <1>0, <1>1 DEF MergeValidatorRound, Forward, Position2
<1>2. CASE ~(vh < d.validatorHeight)
  <2> DEFINE e == MergeValidatorRound(d, V, vh)
  <2>1. PICK view : e = [d EXCEPT !.lastRound = view, !.validatorHeight = vh]
    BY <1>2 DEF MergeValidatorRound
  <2>2. /\ e.lastCommittedHeight = d.lastCommittedHeight /\ e.height = d.height
        /\ e.round = d.round /\ e.step = d.step /\ e.validatorHeight = vh
    BY <2>1 DEF DataOK, StateData
  <2> HIDE DEF e
  <2> QED BY <2>2, <1>0, <1>2 DEF Forward, Position2, e
<1> QED BY <1>1, <1>2

(* handleNewRound's callback never moves backwards.                        *)
LEMMA StartRoundForward ==
  ASSUME NEW V, NEW d, DataOK(V, d), NEW h \in Int, NEW r \in Int, NEW step \in Nat, NEW p
  PROVE  Forward(d, StartRound(d, h, r, step, p))
<1> DEFINE d1 == AdvanceRound(d, h, r, step)
           view == MarkProposer(d1.lastRound, p, h, r)
<1>1. DataOK(V, d1) /\ Forward(d, d1)
  BY AdvanceRoundOK, AdvanceRoundForward
<1>2. StartRound(d, h, r, step, p) = [d1 EXCEPT !.lastRound = view]
  BY DEF StartRound
<1> HIDE DEF d1, view
<1>3. SamePlace(d1, [d1 EXCEPT !.lastRound = view])
  BY <1>1, ViewSamePlace
<1> QED BY <1>1, <1>2, <1>3, ForwardThenSame

(* handleVote's callback never moves backwards.                            *)
LEMMA RecordVoteForward ==
  ASSUME NEW V, NEW d, DataOK(V, d), NEW v \in Votes
  PROVE  Forward(d, RecordVote(d, v))
<1>0. v.height \in Int /\ v.round \in Int /\ StepOf(v.type) \in Nat
  BY DashboardDomains DEF Votes, StepOf
<1> DEFINE d1 == AdvanceRound(d, v.height, v.round, StepOf(v.type))
           view == [d1.lastRound EXCEPT !.rows[v.addr].votes[v.type] = CellOf(v)]
           e == RecordVote(d, v)
<1>1. DataOK(V, d1) /\ Forward(d, d1)
  BY <1>0, AdvanceRoundOK, AdvanceRoundForward
<1>2. e = d1 \/ e = [d1 EXCEPT !.lastRound = view]
  BY DEF RecordVote
<1> HIDE DEF d1, view, e
<1>3. SamePlace(d1, [d1 EXCEPT !.lastRound = view])
  BY <1>1, ViewSamePlace
<1>4. Forward(d, e)
  BY <1>1, <1>2, <1>3, ForwardThenSame
<1> QED BY <1>4 DEF e

(* refreshConsensusViaHTTP's callback never moves backwards.               *)
LEMMA ApplyFallbackForward ==
  ASSUME NEW d, Sound(d), NEW h \in Int, NEW r \in Int, NEW step \in Nat
  PROVE  Forward(d, ApplyFallback(d, h, r, step))
<1> DEFINE d0 == RecordHTTPSuccess(d)
           d1 == AdvanceRound(d0, h, r, step)
           view == ClearRoundVotes(d1.lastRound)
           e == ApplyFallback(d, h, r, step)
<1>0. PICK W : DataOK(W, d)
  BY DEF Sound
<1>1. PICK V : DataOK(V, d0)
  BY HTTPSuccessSound DEF Sound
<1>2. SamePlace(d, d0) /\ Forward(d, d)
  BY <1>0, HTTPSuccessSamePlace, SamePlaceForward DEF SamePlace
<1>3. e = d \/ e = d1 \/ e = [d1 EXCEPT !.lastRound = view]
  BY DEF ApplyFallback
<1> HIDE DEF d0, e
<1>4. DataOK(V, d1) /\ Forward(d0, d1)
  BY <1>1, AdvanceRoundOK, AdvanceRoundForward
<1> HIDE DEF d1, view
<1>5. Forward(d, d1) /\ SamePlace(d1, [d1 EXCEPT !.lastRound = view])
  BY <1>2, <1>4, SameThenForward, ViewSamePlace
<1>6. Forward(d, e)
  BY <1>2, <1>3, <1>5, ForwardThenSame
<1> QED BY <1>6 DEF e

(* refreshLatestBlock's callback does not move the display.                *)
LEMMA BlockReplySamePlace ==
  ASSUME NEW V, NEW d, DataOK(V, d), NEW h
  PROVE  SamePlace(d, RecordHTTPSuccess([d EXCEPT !.blocks = AppendBlock(@, h)]))
<1> DEFINE blocks == AppendBlock(d.blocks, h)
           e == [d EXCEPT !.blocks = blocks]
           health == [e.health EXCEPT !.http = "fresh"]
<1> HIDE DEF blocks
<1>1. RecordHTTPSuccess(e) = [e EXCEPT !.health = health]
  BY DEF RecordHTTPSuccess
<1> HIDE DEF health
<1>2. SamePlace(d, [e EXCEPT !.health = health])
  BY DEF SamePlace, DataOK, StateData
<1> QED BY <1>1, <1>2 DEF blocks

(* Every callback moves forward.                                           *)
LEMMA NextForward == IInv /\ [Next]_s => Forward(s, s')
<1> SUFFICES ASSUME IInv, [Next]_s PROVE Forward(s, s')
  OBVIOUS
<1> USE DashboardDomains
<1>0. PICK V : DataOK(V, s)
  BY DEF IInv, Sound
<1>1. CASE StreamEvent \/ EventAges \/ HTTPAges \/ \E live \in BOOLEAN : Lifecycle(live)
  <2>1. PICK health : s' = [s EXCEPT !.health = health]
    BY <1>1 DEF StreamEvent, EventAges, HTTPAges, Lifecycle
  <2> QED BY <1>0, <2>1, HealthSamePlace, SamePlaceForward
<1>2. ASSUME NEW h \in Heights, NewBlock(h) PROVE Forward(s, s')
  BY <1>0, <1>2, CommitBlockForward DEF NewBlock, IInv
<1>3. ASSUME NEW h \in Heights, NEW r \in Rounds, NEW step \in Steps, NEW p \in Proposers,
             NewRound(h, r, step, p) PROVE Forward(s, s')
  BY <1>0, <1>3, StartRoundForward DEF NewRound
<1>4. ASSUME NEW v \in Votes, Vote(v) PROVE Forward(s, s')
  BY <1>0, <1>4, RecordVoteForward DEF Vote
<1>5. ASSUME NEW h \in Heights, StatusReply(h) PROVE Forward(s, s')
  BY <1>0, <1>5, ApplyStatusForward DEF StatusReply
<1>6. ASSUME NEW h \in Heights, BlockReply(h) PROVE Forward(s, s')
  BY <1>0, <1>6, BlockReplySamePlace, SamePlaceForward DEF BlockReply
<1>7. ASSUME NEW W \in ValidatorSets, NEW vh \in Heights, ValidatorsReply(W, vh)
      PROVE Forward(s, s')
  BY <1>0, <1>7, MergeValidatorRoundForward DEF ValidatorsReply
<1>8. ASSUME NEW h \in Heights, NEW r \in Rounds, NEW step \in Steps, FallbackReply(h, r, step)
      PROVE Forward(s, s')
  BY <1>8, ApplyFallbackForward DEF FallbackReply, IInv
<1>9. CASE UNCHANGED s
  BY <1>0, <1>9, SamePlaceForward DEF SamePlace
<1> QED BY <1>1, <1>2, <1>3, <1>4, <1>5, <1>6, <1>7, <1>8, <1>9 DEF Next

(* Consensus never runs backwards on the dashboard, whichever goroutine    *)
(* calls Mutate next.                                                      *)
THEOREM DashboardNeverBackwards == Spec => NeverBackwards
<1>1. IInv /\ [Next]_s
        => [/\ s'.lastCommittedHeight >= s.lastCommittedHeight
            /\ s'.validatorHeight >= s.validatorHeight
            /\ \/ s'.height > s.height
               \/ s'.height = s.height /\ s'.round > s.round
               \/ s'.height = s.height /\ s'.round = s.round /\ s'.step >= s.step
               \/ s'.height = 0 /\ s'.lastCommittedHeight >= s.height]_s
  BY NextForward DEF Forward, Position2
<1> QED BY <1>1, DashboardInvariant, PTL DEF Spec, NeverBackwards

-----------------------------------------------------------------------------
(* Where the votes on display come from *)

(* The vote that e shows for a and type was on display in d.               *)
KeptCell(d, e, a, type) ==
  /\ e.height = d.height /\ e.round = d.round /\ a \in DOMAIN d.lastRound.rows
  /\ e.lastRound.rows[a].votes[type] = d.lastRound.rows[a].votes[type]

(* Every vote that e shows was on display in d.                            *)
NoNewVote(d, e) ==
  \A a \in DOMAIN e.lastRound.rows, type \in VoteTypes :
    e.lastRound.rows[a].votes[type].kind # "absent" => KeptCell(d, e, a, type)

(* A cleared view shows no vote.                                           *)
LEMMA ClearedShowsNothing ==
  ASSUME NEW V, NEW view \in RoundView(V), NEW type \in VoteTypes,
         NEW a \in DOMAIN ClearRoundVotes(view).rows
  PROVE  ClearRoundVotes(view).rows[a].votes[type].kind = "absent"
<1>1. ClearRoundVotes(view)
        = [loaded |-> view.loaded, round |-> view.round, rows |-> [x \in V |-> EmptyRow]]
  BY DEF ClearRoundVotes, RoundView
<1>2. EmptyRow.votes[type].kind = "absent"
  BY DEF EmptyRow, AbsentVote
<1> QED BY <1>1, <1>2

(* A restarted view shows no vote either.                                  *)
LEMMA RestartedShowsNothing ==
  ASSUME NEW V, NEW view \in RoundView(V), ~view.loaded => V = {}, NEW r,
         NEW a \in DOMAIN RestartView(view, r).rows, NEW type \in VoteTypes
  PROVE  RestartView(view, r).rows[a].votes[type].kind = "absent"
<1> DEFINE c == ClearRoundVotes(view)
<1>1. c = [loaded |-> view.loaded, round |-> view.round, rows |-> c.rows]
  BY DEF ClearRoundVotes, RoundView
<1>2. CASE ~view.loaded
  BY <1>2 DEF RestartView, RoundView
<1>3. CASE view.loaded
  <2> HIDE DEF c
  <2>1. [c EXCEPT !.round = r].rows = c.rows
    BY <1>1
  <2>2. RestartView(view, r).rows = c.rows
    BY <1>3, <2>1 DEF RestartView, c
  <2> QED BY <2>2, ClearedShowsNothing DEF c
<1> QED BY <1>2, <1>3

(* advanceRound shows no vote that was not on display.                     *)
LEMMA AdvanceShowsNoVote ==
  ASSUME NEW V, NEW d, DataOK(V, d), NEW h, NEW r, NEW step, NEW e, e = AdvanceRound(d, h, r, step)
  PROVE  NoNewVote(d, e)
<1>0. d \in StateData(V) /\ d.lastRound \in RoundView(V) /\ (~d.lastRound.loaded => V = {})
  BY DEF DataOK, StateData, ViewOK
<1>1. CASE ~Advances(d, h, r)
  BY <1>1 DEF AdvanceRound, NoNewVote, KeptCell
<1>2. CASE Advances(d, h, r) /\ (h # d.height \/ r # d.round)
  <2> DEFINE view == RestartView(d.lastRound, r)
  <2>1. e = [d EXCEPT !.height = h, !.round = r, !.step = step, !.lastRound = RestartView(@, r)]
    BY <1>2 DEF AdvanceRound
  <2>2. e.lastRound = view
    BY <1>0, <2>1 DEF StateData
  <2>3. \A a \in DOMAIN view.rows, type \in VoteTypes : view.rows[a].votes[type].kind = "absent"
    BY <1>0, RestartedShowsNothing
  <2> HIDE DEF view
  <2> QED BY <2>2, <2>3 DEF NoNewVote
<1>3. CASE Advances(d, h, r) /\ ~(h # d.height \/ r # d.round)
  <2>1. e.lastRound = d.lastRound /\ e.height = d.height /\ e.round = d.round
    BY <1>0, <1>3 DEF AdvanceRound, StateData
  <2> QED BY <2>1 DEF NoNewVote, KeptCell
<1> QED BY <1>1, <1>2, <1>3

(* MarkProposer touches no vote.                                           *)
LEMMA MarkShowsNoVote ==
  ASSUME NEW V, NEW view \in RoundView(V), NEW p, NEW h, NEW r
  PROVE  /\ DOMAIN MarkProposer(view, p, h, r).rows = V
         /\ \A a \in V : MarkProposer(view, p, h, r).rows[a].votes = view.rows[a].votes
<1>1. DOMAIN view.rows = V /\ view.rows \in [V -> Row]
  BY DEF RoundView
<1>2. CASE p = NoProposer
  BY <1>1, <1>2 DEF MarkProposer
<1>3. CASE p # NoProposer
  <2> DEFINE rows == [a \in V |->
               [view.rows[a] EXCEPT !.proposer = IF a = p THEN [set |-> TRUE, at |-> At(h, r)]
                                                  ELSE NotProposer]]
  <2>1. MarkProposer(view, p, h, r) = [view EXCEPT !.rows = rows]
    BY <1>1, <1>3 DEF MarkProposer
  <2>2. [view EXCEPT !.rows = rows].rows = rows
    BY DEF RoundView
  <2>3. \A a \in V : rows[a].votes = view.rows[a].votes
    BY <1>1 DEF Row
  <2> HIDE DEF rows
  <2>4. DOMAIN rows = V
    BY DEF rows
  <2> QED BY <2>1, <2>2, <2>3, <2>4
<1> QED BY <1>2, <1>3

(* handleNewRound's callback.                                              *)
LEMMA StartShowsNoVote ==
  ASSUME NEW d, Sound(d), NEW h \in Int, NEW r \in Int, NEW step \in Nat, NEW p
  PROVE  NoNewVote(d, StartRound(d, h, r, step, p))
<1>1. PICK V : DataOK(V, d)
  BY DEF Sound
<1> DEFINE e == AdvanceRound(d, h, r, step)
           f == [e EXCEPT !.lastRound = MarkProposer(@, p, h, r)]
<1>2. NoNewVote(d, e) /\ DataOK(V, e)
  BY <1>1, AdvanceShowsNoVote, AdvanceRoundOK
<1> HIDE DEF e
<1>3. e.lastRound \in RoundView(V) /\ e \in StateData(V)
  BY <1>2 DEF DataOK, ViewOK
<1>4. /\ f.height = e.height /\ f.round = e.round
      /\ f.lastRound = MarkProposer(e.lastRound, p, h, r)
  BY <1>3 DEF StateData
<1> HIDE DEF f
<1>5. /\ DOMAIN f.lastRound.rows = V /\ DOMAIN e.lastRound.rows = V
      /\ \A a \in V : f.lastRound.rows[a].votes = e.lastRound.rows[a].votes
  BY <1>3, <1>4, MarkShowsNoVote DEF RoundView
<1>6. NoNewVote(d, f)
  BY <1>2, <1>4, <1>5 DEF NoNewVote, KeptCell
<1> QED BY <1>6 DEF f, e, StartRound

(* handleNewBlock's callback.                                              *)
LEMMA CommitShowsNoVote ==
  ASSUME NEW d, Sound(d), NEW h \in Int, AcceptsBlock(d, h)
  PROVE  NoNewVote(d, CommitBlock(d, h))
<1>1. PICK V : DataOK(V, d)
  BY DEF Sound
<1> DEFINE top == Greater(h, d.lastCommittedHeight)
           d1 == [d EXCEPT !.lastCommittedHeight = Greater(h, @), !.blocks = AppendBlock(@, h)]
           e == AdvanceRound(d1, h + 1, 0, 1)
<1>2. h \in Nat /\ top \in Nat /\ top = h /\ d.lastCommittedHeight <= top
  BY <1>1 DEF AcceptsBlock, Greater, DataOK, StateData
<1>3. AppendBlock(d.blocks, h) \in Seq(Nat)
  <2>1. d.blocks \in Seq(Nat) /\ d.lastCommittedHeight \in Nat
    BY <1>1 DEF DataOK, StateData
  <2>2. Ordered(d.blocks, top)
    BY <2>1, <1>2, OrderedUp DEF Sound
  <2> QED BY <2>1, <2>2, <1>2, AppendBlockOrdered
<1>4. /\ d1 \in StateData(V) /\ d1.lastRound = d.lastRound
      /\ d1.height = d.height /\ d1.round = d.round
  BY <1>1, <1>2, <1>3 DEF DataOK, StateData
<1>5. DataOK(V, d1)
  BY <1>1, <1>4 DEF DataOK
<1> HIDE DEF d1
<1>6. NoNewVote(d1, e)
  BY <1>5, AdvanceShowsNoVote
<1> HIDE DEF e
<1>7. NoNewVote(d, e)
  BY <1>4, <1>6 DEF NoNewVote, KeptCell
<1> QED BY <1>7 DEF CommitBlock, d1, e

(* refreshStatus's callback.                                               *)
LEMMA StatusShowsNoVote ==
  ASSUME NEW d, Sound(d), NEW latest
  PROVE  NoNewVote(d, ApplyStatus(d, latest))
<1>1. PICK V : DataOK(V, d)
  BY DEF Sound
<1>2. d \in StateData(V) /\ d.lastRound \in RoundView(V) /\ (~d.lastRound.loaded => V = {})
  BY <1>1 DEF DataOK, ViewOK
<1> DEFINE d1 == RecordHTTPSuccess(d)
           e == ApplyStatus(d, latest)
<1>3. PICK health : d1 = [d EXCEPT !.health = health]
  BY DEF RecordHTTPSuccess
<1>4. d1.height = d.height /\ d1.round = d.round /\ d1.lastRound = d.lastRound
      /\ DOMAIN d1 = DOMAIN d
  BY <1>2, <1>3 DEF StateData
<1> HIDE DEF d1
<1>5. CASE latest <= d.lastCommittedHeight
  BY <1>4, <1>5 DEF ApplyStatus, NoNewVote, KeptCell, d1
<1>6. CASE ~(latest <= d.lastCommittedHeight) /\ d.height > 0 /\ d.height <= latest
  <2> DEFINE view == RestartView(d.lastRound, 0)
  <2>1. e = [d1 EXCEPT !.lastCommittedHeight = latest, !.height = 0, !.round = 0, !.step = 0,
                       !.lastRound = RestartView(@, 0)]
    BY <1>6 DEF ApplyStatus, d1
  <2>2. e.lastRound = view
    BY <1>2, <1>4, <2>1 DEF StateData
  <2>3. \A a \in DOMAIN view.rows, type \in VoteTypes : view.rows[a].votes[type].kind = "absent"
    BY <1>2, RestartedShowsNothing
  <2> HIDE DEF view, e
  <2>4. NoNewVote(d, e)
    BY <2>2, <2>3 DEF NoNewVote
  <2> QED BY <2>4 DEF e
<1>7. CASE ~(latest <= d.lastCommittedHeight) /\ ~(d.height > 0 /\ d.height <= latest)
  <2>1. e = [d1 EXCEPT !.lastCommittedHeight = latest]
    BY <1>7 DEF ApplyStatus, d1
  <2>2. e.height = d.height /\ e.round = d.round /\ e.lastRound = d.lastRound
    BY <1>2, <1>4, <2>1 DEF StateData
  <2> HIDE DEF e
  <2>3. NoNewVote(d, e)
    BY <2>2 DEF NoNewVote, KeptCell
  <2> QED BY <2>3 DEF e
<1> QED BY <1>5, <1>6, <1>7

(* refreshValidators' callback keeps the votes of those it knew, and shows *)
(* none for the others.                                                    *)
LEMMA MergeShowsNoVote ==
  ASSUME NEW d, Sound(d), NEW V, NEW vh
  PROVE  NoNewVote(d, MergeValidatorRound(d, V, vh))
<1>1. PICK W : DataOK(W, d)
  BY DEF Sound
<1>2. d \in StateData(W) /\ d.lastRound \in RoundView(W) /\ DOMAIN d.lastRound.rows = W
  BY <1>1 DEF DataOK, ViewOK, RoundView
<1> DEFINE kept == IF d.lastRound.loaded /\ d.lastRound.round = d.round
                   THEN DOMAIN d.lastRound.rows ELSE {}
           rows == [a \in V |-> IF a \in kept THEN d.lastRound.rows[a] ELSE EmptyRow]
           e == MergeValidatorRound(d, V, vh)
<1>3. CASE vh < d.validatorHeight
  BY <1>3 DEF MergeValidatorRound, NoNewVote, KeptCell
<1>4. CASE ~(vh < d.validatorHeight)
  <2>1. e.lastRound.rows = rows /\ e.height = d.height /\ e.round = d.round
    BY <1>2, <1>4 DEF MergeValidatorRound, StateData
  <2>2. \A a \in DOMAIN rows : IF a \in kept THEN rows[a] = d.lastRound.rows[a] ELSE rows[a] = EmptyRow
    OBVIOUS
  <2>3. \A type \in VoteTypes : EmptyRow.votes[type].kind = "absent"
    BY DEF EmptyRow, AbsentVote
  <2>4. kept \subseteq DOMAIN d.lastRound.rows
    OBVIOUS
  <2> HIDE DEF rows, kept, e
  <2>5. NoNewVote(d, e)
    BY <2>1, <2>2, <2>3, <2>4 DEF NoNewVote, KeptCell
  <2> QED BY <2>5 DEF e
<1> QED BY <1>3, <1>4

(* refreshConsensusViaHTTP's callback shows no votes at all when it moves. *)
LEMMA FallbackShowsNoVote ==
  ASSUME NEW d, Sound(d), NEW h \in Int, NEW r \in Int, NEW step \in Nat
  PROVE  NoNewVote(d, ApplyFallback(d, h, r, step))
<1> DEFINE d0 == RecordHTTPSuccess(d)
           d1 == AdvanceRound(d0, h, r, step)
<1>1. PICK V : DataOK(V, d)
  BY DEF Sound
<1>2. /\ Sound(d0) /\ d0.lastRound = d.lastRound /\ d0.height = d.height /\ d0.round = d.round
      /\ d0.lastCommittedHeight = d.lastCommittedHeight
  BY <1>1, HTTPSuccessSound
<1>3. PICK W : DataOK(W, d0)
  BY <1>2 DEF Sound
<1> HIDE DEF d0
<1>4. NoNewVote(d0, d1) /\ DataOK(W, d1)
  BY <1>3, AdvanceShowsNoVote, AdvanceRoundOK
<1> HIDE DEF d1
<1>5. NoNewVote(d, d1)
  BY <1>2, <1>4 DEF NoNewVote, KeptCell
<1>6. NoNewVote(d, d)
  BY DEF NoNewVote, KeptCell
<1>7. NoNewVote(d, [d1 EXCEPT !.lastRound = ClearRoundVotes(@)])
  <2> DEFINE f == [d1 EXCEPT !.lastRound = ClearRoundVotes(@)]
             view == ClearRoundVotes(d1.lastRound)
  <2>1. d1.lastRound \in RoundView(W) /\ d1 \in StateData(W)
    BY <1>4 DEF DataOK, ViewOK
  <2>2. f.lastRound = view
    BY <2>1 DEF StateData
  <2>3. \A a \in DOMAIN view.rows, type \in VoteTypes : view.rows[a].votes[type].kind = "absent"
    BY <2>1, ClearedShowsNothing
  <2> HIDE DEF f, view
  <2>4. NoNewVote(d, f)
    BY <2>2, <2>3 DEF NoNewVote
  <2> QED BY <2>4 DEF f
<1> QED BY <1>5, <1>6, <1>7 DEF ApplyFallback, d0, d1

(* refreshLatestBlock's callback, and changes of Health.                   *)
LEMMA HealthShowsNoVote ==
  ASSUME NEW d, Sound(d)
  PROVE  /\ \A h : NoNewVote(d, RecordHTTPSuccess([d EXCEPT !.blocks = AppendBlock(@, h)]))
         /\ \A health : NoNewVote(d, [d EXCEPT !.health = health])
<1>1. PICK V : DataOK(V, d)
  BY DEF Sound
<1>2. d \in StateData(V)
  BY <1>1 DEF DataOK
<1>3. ASSUME NEW blocks, NEW health, NEW e, e = [d EXCEPT !.blocks = blocks, !.health = health]
      PROVE  NoNewVote(d, e)
  <2>1. e.height = d.height /\ e.round = d.round /\ e.lastRound = d.lastRound
    BY <1>2, <1>3 DEF StateData
  <2> QED BY <2>1 DEF NoNewVote, KeptCell
<1>4. ASSUME NEW health, NEW e, e = [d EXCEPT !.health = health]
      PROVE  NoNewVote(d, e)
  <2>1. e.height = d.height /\ e.round = d.round /\ e.lastRound = d.lastRound
    BY <1>2, <1>4 DEF StateData
  <2> QED BY <2>1 DEF NoNewVote, KeptCell
<1>5. ASSUME NEW h, NEW e, e = RecordHTTPSuccess([d EXCEPT !.blocks = AppendBlock(@, h)])
      PROVE  NoNewVote(d, e)
  <2>1. \E blocks, health : e = [d EXCEPT !.blocks = blocks, !.health = health]
    BY <1>5 DEF RecordHTTPSuccess
  <2> QED BY <1>3, <2>1
<1> QED BY <1>4, <1>5

(* handleVote's callback shows at most the vote it was called for.         *)
LEMMA RecordVoteShows ==
  ASSUME NEW d, Sound(d), NEW v \in Votes, NEW e, e = RecordVote(d, v),
         NEW a \in DOMAIN e.lastRound.rows, NEW type \in VoteTypes,
         e.lastRound.rows[a].votes[type].kind # "absent"
  PROVE  \/ KeptCell(d, e, a, type)
         \/ /\ AcceptsVote(d, v) /\ a = v.addr /\ type = v.type
            /\ e.lastRound.rows[a].votes[type].hash = v.hash
<1> DEFINE d1 == AdvanceRound(d, v.height, v.round, StepOf(v.type))
<1>0. v.height \in Int /\ v.round \in Int /\ v.type \in VoteTypes /\ StepOf(v.type) \in Nat
  BY DashboardDomains DEF Votes, StepOf
<1>1. PICK V : DataOK(V, d)
  BY DEF Sound
<1>2. NoNewVote(d, d1) /\ DataOK(V, d1)
  BY <1>0, <1>1, AdvanceShowsNoVote, AdvanceRoundOK
<1>3. CASE ~AcceptsVote(d, v) \/ v.addr \notin DOMAIN d1.lastRound.rows
  <2>1. e = d1
    BY <1>3 DEF RecordVote
  <2> HIDE DEF d1
  <2> QED BY <1>2, <2>1 DEF NoNewVote
<1>4. CASE AcceptsVote(d, v) /\ v.addr \in DOMAIN d1.lastRound.rows
  <2>1. e = [d1 EXCEPT !.lastRound.rows[v.addr].votes[v.type] = CellOf(v)]
    BY <1>4 DEF RecordVote
  <2> HIDE DEF d1
  <2>2. /\ d1 \in StateData(V) /\ d1.lastRound \in RoundView(V) /\ d1.lastRound.rows \in [V -> Row]
    BY SMTT(30), <1>2 DEF DataOK, ViewOK, RoundView
  <2> DEFINE view == d1.lastRound
             row == [view.rows[v.addr] EXCEPT !.votes[v.type] = CellOf(v)]
             shown == [view EXCEPT !.rows[v.addr] = row]
  <2>3. e = [d1 EXCEPT !.lastRound = shown]
    BY <2>1
  <2>4. v.addr \in V /\ view.rows[v.addr] \in Row
    BY <1>4, <2>2
  <2>5. /\ row.votes[v.type] = CellOf(v)
        /\ \A y \in VoteTypes : y # v.type => row.votes[y] = view.rows[v.addr].votes[y]
    BY <1>0, <2>4 DEF Row
  <2> HIDE DEF row
  <2>6. /\ DOMAIN shown.rows = V /\ shown.rows[v.addr] = row
        /\ \A x \in V : x # v.addr => shown.rows[x] = view.rows[x]
    BY <2>2, <2>4 DEF RoundView
  <2> HIDE DEF shown
  <2>7. e.lastRound = shown /\ e.height = d1.height /\ e.round = d1.round
    BY <2>2, <2>3 DEF StateData
  <2>8. CASE a # v.addr \/ type # v.type
    <3>1. e.lastRound.rows[a].votes[type] = view.rows[a].votes[type] /\ a \in DOMAIN view.rows
      BY <2>2, <2>5, <2>6, <2>7, <2>8
    <3> QED BY <1>2, <2>7, <3>1 DEF NoNewVote, KeptCell
  <2>9. CASE ~(a # v.addr \/ type # v.type)
    BY <1>4, <2>5, <2>6, <2>7, <2>9 DEF CellOf
  <2> QED BY SMTT(30), <2>8, <2>9
<1> QED BY <1>3, <1>4

(* Where handleVote's callback leaves the display.                         *)
LEMMA RecordVotePlace ==
  ASSUME NEW d, Sound(d), NEW v \in Votes, NEW e, e = RecordVote(d, v)
  PROVE  /\ Advances(d, v.height, v.round) => e.height = v.height /\ e.round = v.round
         /\ ~Advances(d, v.height, v.round) => e = d
         /\ e.lastCommittedHeight = d.lastCommittedHeight
<1> DEFINE d1 == AdvanceRound(d, v.height, v.round, StepOf(v.type))
<1>0. v.height \in Int /\ v.round \in Int /\ StepOf(v.type) \in Nat
  BY DashboardDomains DEF Votes, StepOf
<1>1. PICK V : DataOK(V, d)
  BY DEF Sound
<1>2. /\ DataOK(V, d1) /\ d1.lastCommittedHeight = d.lastCommittedHeight
      /\ Advances(d, v.height, v.round) => d1.height = v.height /\ d1.round = v.round
      /\ ~Advances(d, v.height, v.round) => d1 = d
  BY <1>0, <1>1, AdvanceRoundOK
<1>3. e = d1 \/ (AcceptsVote(d, v) /\ \E view : e = [d1 EXCEPT !.lastRound = view])
  <2>1. e = d1 \/ (AcceptsVote(d, v) /\ e = [d1 EXCEPT !.lastRound.rows[v.addr].votes[v.type] = CellOf(v)])
    BY DEF RecordVote
  <2> HIDE DEF d1
  <2> QED BY SMTT(30), <2>1
<1> HIDE DEF d1
<1>4. \A view : [d1 EXCEPT !.lastRound = view].height = d1.height
              /\ [d1 EXCEPT !.lastRound = view].round = d1.round
              /\ [d1 EXCEPT !.lastRound = view].lastCommittedHeight = d1.lastCommittedHeight
  BY <1>2 DEF DataOK, StateData
<1> QED BY <1>2, <1>3, <1>4 DEF AcceptsVote

(* Every callback but that of handleVote shows no vote that was not on     *)
(* display.                                                                *)
LEMMA CallsShowNoVote ==
  ASSUME IInv
  PROVE  /\ StreamEvent => NoNewVote(s, s')
         /\ \A h \in Heights : NewBlock(h) => NoNewVote(s, s')
         /\ \A h \in Heights, r \in Rounds, step \in Steps : \A p :
              NewRound(h, r, step, p) => NoNewVote(s, s')
         /\ \A latest : StatusReply(latest) => NoNewVote(s, s')
         /\ \A h : BlockReply(h) => NoNewVote(s, s')
         /\ \A V, vh : ValidatorsReply(V, vh) => NoNewVote(s, s')
         /\ \A h \in Heights, r \in Rounds, step \in Steps :
              FallbackReply(h, r, step) => NoNewVote(s, s')
         /\ \A live : Lifecycle(live) => NoNewVote(s, s')
         /\ EventAges => NoNewVote(s, s')
         /\ s' = s => NoNewVote(s, s')
<1> USE DEF IInv
<1>0. /\ \A h \in Heights : h \in Int
      /\ \A r \in Rounds : r \in Int
      /\ \A step \in Steps : step \in Nat
  BY DashboardDomains
<1>1. \A health, e : e = [s EXCEPT !.health = health] => NoNewVote(s, e)
  BY HealthShowsNoVote
<1>2. ASSUME NEW e, (\E x : e = [s EXCEPT !.health.event = x]) \/ (\E x : e = [s EXCEPT !.health.wsConnected = x])
      PROVE  NoNewVote(s, e)
  <2>1. \E health : e = [s EXCEPT !.health = health]
    BY <1>2
  <2> QED BY <1>1, <2>1
<1>3. /\ StreamEvent => NoNewVote(s, s')
      /\ EventAges => NoNewVote(s, s')
      /\ \A live : Lifecycle(live) => NoNewVote(s, s')
  BY <1>2 DEF StreamEvent, EventAges, Lifecycle
<1>4. \A h \in Heights : NewBlock(h) => NoNewVote(s, s')
  BY <1>0, CommitShowsNoVote DEF NewBlock
<1>5. \A h \in Heights, r \in Rounds, step \in Steps : \A p :
        NewRound(h, r, step, p) => NoNewVote(s, s')
  BY <1>0, StartShowsNoVote DEF NewRound
<1>6. \A latest : StatusReply(latest) => NoNewVote(s, s')
  BY StatusShowsNoVote DEF StatusReply
<1>7. \A h : BlockReply(h) => NoNewVote(s, s')
  BY HealthShowsNoVote DEF BlockReply
<1>8. \A V, vh : ValidatorsReply(V, vh) => NoNewVote(s, s')
  BY MergeShowsNoVote DEF ValidatorsReply
<1>9. \A h \in Heights, r \in Rounds, step \in Steps :
        FallbackReply(h, r, step) => NoNewVote(s, s')
  BY <1>0, FallbackShowsNoVote DEF FallbackReply
<1>10. s' = s => NoNewVote(s, s')
  BY DEF NoNewVote, KeptCell
<1> QED BY <1>3, <1>4, <1>5, <1>6, <1>7, <1>8, <1>9, <1>10

(* Where the callbacks that accept a round leave the display.              *)
LEMMA AcceptedPlace ==
  ASSUME NEW d, Sound(d), NEW h \in Int, NEW r \in Int, NEW step \in Nat
  PROVE  /\ Advances(d, h, r) => \A p :
              StartRound(d, h, r, step, p).height = h /\ StartRound(d, h, r, step, p).round = r
         /\ AcceptsFallback(d, h, r) =>
              ApplyFallback(d, h, r, step).height = h /\ ApplyFallback(d, h, r, step).round = r
<1>1. ASSUME Advances(d, h, r), NEW p
      PROVE  StartRound(d, h, r, step, p).height = h /\ StartRound(d, h, r, step, p).round = r
  <2> DEFINE e == AdvanceRound(d, h, r, step)
  <2>1. PICK V : DataOK(V, d)
    BY DEF Sound
  <2>2. DataOK(V, e) /\ e.height = h /\ e.round = r
    BY <1>1, <2>1, AdvanceRoundOK
  <2> HIDE DEF e
  <2>3. \A view : [e EXCEPT !.lastRound = view].height = h /\ [e EXCEPT !.lastRound = view].round = r
    BY <2>2 DEF DataOK, StateData
  <2>4. \E view : StartRound(d, h, r, step, p) = [e EXCEPT !.lastRound = view]
    BY DEF StartRound, e
  <2> QED BY <2>3, <2>4
<1>2. ASSUME AcceptsFallback(d, h, r)
      PROVE  ApplyFallback(d, h, r, step).height = h /\ ApplyFallback(d, h, r, step).round = r
  <2> DEFINE d0 == RecordHTTPSuccess(d)
             e == AdvanceRound(d0, h, r, step)
  <2>1. PICK V : DataOK(V, d)
    BY DEF Sound
  <2>2. /\ Sound(d0) /\ d0.height = d.height /\ d0.round = d.round
        /\ d0.lastCommittedHeight = d.lastCommittedHeight
    BY <2>1, HTTPSuccessSound
  <2>3. PICK W : DataOK(W, d0)
    BY <2>2 DEF Sound
  <2> HIDE DEF d0
  <2>4. Advances(d0, h, r)
    BY <1>2, <2>2 DEF AcceptsFallback, Advances
  <2>5. DataOK(W, e) /\ e.height = h /\ e.round = r
    BY <2>3, <2>4, AdvanceRoundOK
  <2> HIDE DEF e
  <2>6. \A view : [e EXCEPT !.lastRound = view].height = h /\ [e EXCEPT !.lastRound = view].round = r
    BY <2>5 DEF DataOK, StateData
  <2>7. \E view : ApplyFallback(d, h, r, step) = [e EXCEPT !.lastRound = view]
    BY <1>2 DEF ApplyFallback, AcceptsFallback, e, d0
  <2> QED BY <2>6, <2>7
<1> QED BY <1>1, <1>2

=============================================================================
