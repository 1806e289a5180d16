------------------------------ MODULE EdgeProofs ------------------------------
(***************************************************************************)
(* The edges of the program, for every value of their constants: the nodes *)
(* that it reads (modules Upstream and Comparison) and the browsers that   *)
(* it serves (modules WSHub and Investigation).                            *)
(***************************************************************************)
EXTENDS Upstream, WSHub, Comparison, Investigation, FiniteSetTheorems, SequenceTheorems, TLAPS

-----------------------------------------------------------------------------
(* The inductive invariant: a call has turned to the endpoints from where  *)
(* it started up to, and once it is sent including, the current one.       *)

TriedBefore(c, off) == \A k \in 0..(off - 1) : (c.start + k) % N \in c.tried

CallState(P) ==
  [pc : {"idle", "start", "attempt", "sent"}, result : {"none", "ok", "failed", "inconsistent"},
   start : Nodes, off : Nodes, counts : BOOLEAN, tried : SUBSET Nodes, pages : P]

CallShape(c) == c \in CallState({c.pages})

CallOK(c) ==
  /\ CallShape(c)
  /\ c.pc = "attempt" => TriedBefore(c, c.off)
  /\ c.pc = "sent" => TriedBefore(c, c.off + 1)
  /\ c.pc # "idle" => c.result = "none"
  /\ c.result = "failed" => c.tried = Nodes

PoolInv ==
  /\ active \in Nodes /\ attempt \in Nodes
  /\ call = [w \in Callers |-> call[w]]
  /\ \A w \in Callers : CallOK(call[w])

-----------------------------------------------------------------------------
(* Arithmetic of the rotation *)

(* A remainder modulo N is an endpoint.                                    *)
LEMMA NodesMod == \A a \in Int : a % N \in Nodes
  BY EndpointsAssumption DEF Nodes

(* An endpoint is its own remainder.                                       *)
LEMMA ModSmall == \A a \in Nodes : a % N = a /\ (a + N) % N = a
  BY EndpointsAssumption DEF Nodes

(* N steps from any endpoint reach every endpoint.                         *)
LEMMA RotationCovers ==
  ASSUME NEW start \in Nodes, NEW e \in Nodes
  PROVE  \E k \in 0..(N - 1) : (start + k) % N = e
  <1>1. CASE start <= e
    <2>1. e - start \in 0..(N - 1) /\ start + (e - start) = e
      BY <1>1, EndpointsAssumption DEF Nodes
    <2> QED BY <2>1, ModSmall
  <1>2. CASE e < start
    <2>1. (e - start) + N \in 0..(N - 1) /\ start + ((e - start) + N) = e + N
      BY <1>2, EndpointsAssumption DEF Nodes
    <2> QED BY <2>1, ModSmall
  <1> QED BY <1>1, <1>2, EndpointsAssumption DEF Nodes

-----------------------------------------------------------------------------
(* What the functions on calls make of a call that satisfies the invariant.*)

(* An idle call with any result but "failed", and any pages.               *)
LEMMA IdleOK ==
  ASSUME NEW r \in {"none", "ok", "inconsistent"}, NEW pages
  PROVE  CallOK([IdleCall EXCEPT !.result = r]) /\ CallOK([IdleCall EXCEPT !.result = r, !.pages = pages])
  <1> DEFINE P == {NoPages, pages}
             c1 == [IdleCall EXCEPT !.result = r]
             c2 == [IdleCall EXCEPT !.result = r, !.pages = pages]
  <1>1. IdleCall \in CallState(P) /\ IdleCall.pc = "idle"
    BY EndpointsAssumption DEF IdleCall, CallState, Nodes
  <1>2. c1 \in CallState(P) /\ c1.pc = "idle" /\ c1.result = r
    BY <1>1 DEF CallState
  <1>3. c2 \in CallState(P) /\ c2.pc = "idle" /\ c2.result = r
    BY <1>1 DEF CallState
  <1>4. ASSUME NEW c \in CallState(P), c.pc = "idle", c.result = r PROVE CallOK(c)
    BY <1>4 DEF CallOK, CallShape, CallState
  <1> HIDE DEF c1, c2
  <1>5. CallOK(c1) /\ CallOK(c2)
    BY <1>2, <1>3, <1>4
  <1> QED BY <1>5 DEF c1, c2

(* A call turns to an endpoint of the list.                                *)
LEMMA TargetType == ASSUME NEW c, CallShape(c) PROVE Target(c) \in Nodes
  BY NodesMod, EndpointsAssumption DEF CallShape, CallState, Target, Nodes

(* A call begins again at the active endpoint.                             *)
LEMMA StartingOK ==
  ASSUME NEW P, NEW c \in CallState(P), c.result = "none", active \in Nodes
  PROVE  CallOK(Starting(c))
  <1> DEFINE c1 == [c EXCEPT !.pc = "attempt", !.start = active, !.off = 0, !.tried = {}]
  <1>1. 0 \in Nodes /\ {} \in SUBSET Nodes
    BY EndpointsAssumption DEF Nodes
  <1>2. /\ c1 \in CallState(P)
        /\ c1.pc = "attempt" /\ c1.result = "none" /\ c1.off = 0
    BY <1>1 DEF CallState
  <1>3. Starting(c) = c1
    BY DEF Starting
  <1> HIDE DEF c1
  <1>4. TriedBefore(c1, c1.off)
    BY <1>2 DEF TriedBefore
  <1> QED BY <1>2, <1>3, <1>4 DEF CallOK, CallShape, CallState

(* The target has been turned to: the next one's turn, or all had theirs.  *)
LEMMA NextAttemptOK ==
  ASSUME NEW c, CallShape(c), TriedBefore(c, c.off), c.result = "none"
  PROVE  CallOK(NextAttempt(c, Target(c)))
  <1> DEFINE tried == c.tried \cup {Target(c)}
             c1 == [c EXCEPT !.pc = "attempt", !.off = @ + 1, !.tried = tried]
             done == [IdleCall EXCEPT !.result = "failed", !.tried = tried]
  <1>1. tried \in SUBSET Nodes
    BY TargetType DEF CallShape, CallState
  <1>2. \A k \in 0..c.off : (c.start + k) % N \in tried
    BY EndpointsAssumption DEF TriedBefore, CallShape, CallState, Target, Nodes
  <1> HIDE DEF tried
  <1>3. CASE c.off + 1 = N
    <2>1. ASSUME NEW e \in Nodes PROVE e \in tried
      <3>1. PICK k \in 0..(N - 1) : (c.start + k) % N = e
        BY RotationCovers DEF CallShape, CallState
      <3>2. k \in 0..c.off
        BY <1>3, EndpointsAssumption DEF CallShape, CallState, Nodes
      <3> QED BY <3>1, <3>2, <1>2
    <2>2. tried = Nodes
      BY <2>1, <1>1
    <2>3. IdleCall \in CallState({NoPages}) /\ IdleCall.pc = "idle"
      BY EndpointsAssumption DEF IdleCall, CallState, Nodes
    <2>4. /\ done \in CallState({NoPages}) /\ done.pc = "idle" /\ done.tried = tried
      BY <2>3, <1>1 DEF CallState
    <2>5. NextAttempt(c, Target(c)) = done
      BY <1>3 DEF NextAttempt, tried
    <2> HIDE DEF done
    <2> QED BY <2>2, <2>4, <2>5 DEF CallOK, CallShape, CallState
  <1>4. CASE c.off + 1 # N
    <2>1. c.off + 1 \in Nodes
      BY <1>4, EndpointsAssumption DEF CallShape, CallState, Nodes
    <2>2. /\ c1 \in CallState({c.pages})
          /\ c1.pc = "attempt" /\ c1.result = "none" /\ c1.start = c.start
          /\ c1.off = c.off + 1 /\ c1.tried = tried
      BY <2>1, <1>1 DEF CallShape, CallState
    <2>3. NextAttempt(c, Target(c)) = c1
      BY <1>4 DEF NextAttempt, tried
    <2> HIDE DEF c1
    <2>4. TriedBefore(c1, c1.off)
      BY <2>2, <1>2, EndpointsAssumption DEF TriedBefore, CallShape, CallState, Nodes
    <2> QED BY <2>2, <2>3, <2>4 DEF CallOK, CallShape, CallState
  <1> QED BY <1>3, <1>4

(* A request on its way has turned to its target.                          *)
LEMMA SentOK ==
  ASSUME NEW c, CallShape(c), TriedBefore(c, c.off), c.result = "none"
  PROVE  CallOK([c EXCEPT !.pc = "sent", !.counts = TRUE, !.tried = c.tried \cup {Target(c)}])
  <1> DEFINE tried == c.tried \cup {Target(c)}
             c1 == [c EXCEPT !.pc = "sent", !.counts = TRUE, !.tried = tried]
  <1>1. tried \in SUBSET Nodes
    BY TargetType DEF CallShape, CallState
  <1>2. \A k \in 0..c.off : (c.start + k) % N \in tried
    BY EndpointsAssumption DEF TriedBefore, CallShape, CallState, Target, Nodes
  <1> HIDE DEF tried
  <1>3. /\ c1 \in CallState({c.pages})
        /\ c1.pc = "sent" /\ c1.result = "none" /\ c1.start = c.start
        /\ c1.off = c.off /\ c1.tried = tried
    BY <1>1 DEF CallShape, CallState
  <1> HIDE DEF c1
  <1>4. TriedBefore(c1, c1.off + 1)
    BY <1>2, <1>3, EndpointsAssumption DEF TriedBefore, CallShape, CallState, Nodes
  <1>5. CallOK(c1)
    BY <1>3, <1>4 DEF CallOK, CallShape, CallState
  <1> QED BY <1>5 DEF c1, tried

(* A breaker that forgets a request changes nothing else of the call.      *)
LEMMA UncountedOK ==
  ASSUME NEW c, CallOK(c)
  PROVE  CallOK([c EXCEPT !.counts = FALSE])
  <1> DEFINE c1 == [c EXCEPT !.counts = FALSE]
  <1>1. /\ c1 \in CallState({c.pages}) /\ c1.pc = c.pc /\ c1.result = c.result
        /\ c1.start = c.start /\ c1.off = c.off /\ c1.tried = c.tried /\ c1.pages = c.pages
    BY DEF CallOK, CallShape, CallState
  <1> HIDE DEF c1
  <1>2. CallOK(c1)
    BY <1>1 DEF CallOK, CallShape, TriedBefore
  <1> QED BY <1>2 DEF c1

(* A page ends the call, or the next one is to be asked for.               *)
LEMMA WithPageOK ==
  ASSUME NEW c, CallShape(c), c.result = "none", NEW i
  PROVE  CallOK(WithPage(c, i))
  <1>1. ASSUME NEW pages PROVE CallOK([[c EXCEPT !.pages = pages] EXCEPT !.pc = "start"])
    <2> DEFINE c1 == [c EXCEPT !.pages = pages]
               c2 == [c1 EXCEPT !.pc = "start"]
    <2>1. c \in CallState({c.pages, pages})
      BY DEF CallShape, CallState
    <2>2. c1 \in CallState({c.pages, pages}) /\ c1.result = "none"
      BY <2>1 DEF CallState
    <2> HIDE DEF c1
    <2>3. c2 \in CallState({c.pages, pages}) /\ c2.result = "none" /\ c2.pc = "start"
      BY <2>2 DEF CallState
    <2> HIDE DEF c2
    <2>4. CallOK(c2)
      BY <2>3 DEF CallOK, CallShape, CallState
    <2> QED BY <2>4 DEF c1, c2
  <1> QED BY <1>1, IdleOK DEF WithPage

-----------------------------------------------------------------------------
(* Steps *)

(* One call changes, the others stay.                                      *)
LEMMA OneCall ==
  ASSUME NEW f, f = [v \in Callers |-> f[v]], \A v \in Callers : CallOK(f[v]),
         NEW w \in Callers, NEW c, CallOK(c)
  PROVE  LET g == [f EXCEPT ![w] = c] IN
         g = [v \in Callers |-> g[v]] /\ \A v \in Callers : CallOK(g[v])
  <1> DEFINE T == {f[v] : v \in Callers} \cup {c}
             g == [f EXCEPT ![w] = c]
  <1>1. f \in [Callers -> T]
    OBVIOUS
  <1>2. g \in [Callers -> T] /\ \A v \in Callers : g[v] = IF v = w THEN c ELSE f[v]
    BY <1>1
  <1> HIDE DEF g, T
  <1>3. g = [v \in Callers |-> g[v]] /\ \A v \in Callers : CallOK(g[v])
    BY <1>2
  <1> QED BY <1>3 DEF g

(* A breaker that changes its state disturbs no walk.                      *)
LEMMA UncountedCalls ==
  ASSUME NEW f, \A v \in Callers : CallOK(f[v]), NEW i
  PROVE  LET g == Uncounted(f, i) IN
         g = [v \in Callers |-> g[v]] /\ \A v \in Callers : CallOK(g[v])
  BY UncountedOK DEF Uncounted

(* The pool begins with no call.                                           *)
LEMMA InitialPool == Init => PoolInv
  <1> SUFFICES ASSUME Init PROVE PoolInv
    OBVIOUS
  <1>1. 0 \in Nodes
    BY EndpointsAssumption DEF Nodes
  <1>2. CallOK(IdleCall)
    <2>1. IdleCall \in CallState({NoPages}) /\ IdleCall.pc = "idle" /\ IdleCall.result = "none"
      BY <1>1 DEF IdleCall, CallState
    <2>2. IdleCall.pages = NoPages
      BY DEF IdleCall
    <2> QED BY <2>1, <2>2 DEF CallOK, CallShape
  <1> QED BY <1>1, <1>2 DEF Init, WSInit, PoolInit, PoolInv

(* The steps of the WebSocket client: its counter stays below the number   *)
(* of endpoints, and it makes only such an index the active one.           *)
LEMMA WSStepsKeep ==
  ASSUME PoolInv, WSNext
  PROVE  PoolInv'
  <1>1. attempt' \in Nodes
    <2>1. 0 \in Nodes /\ attempt \in Nodes
      BY EndpointsAssumption DEF Nodes, PoolInv
    <2>2. CASE Connect \/ Dialled \/ FirstEvent \/ StopWS
      BY <2>1, <2>2 DEF Connect, Dialled, FirstEvent, StopWS
    <2>3. CASE Disconnected
      BY <2>1, <2>3 DEF Disconnected
    <2>4. CASE Retry
      <3>1. attempt + 1 \in Int
        BY <2>1, EndpointsAssumption DEF Nodes
      <3> QED BY <2>4, <3>1, NodesMod DEF Retry
    <2> QED BY <2>2, <2>3, <2>4 DEF WSNext, WSSteps
  <1>2. active' \in Nodes /\ call' = call
    BY DEF WSNext, Lifecycle, SetActive, poolVars, PoolInv
  <1> QED BY <1>1, <1>2 DEF PoolInv

(* One step of a caller.                                                   *)
LEMMA StartCallKeeps ==
  ASSUME PoolInv, NEW w \in Callers, StartCall(w), attempt' = attempt
  PROVE  PoolInv'
  <1>1. IdleCall \in CallState({NoPages}) /\ IdleCall.result = "none"
    BY EndpointsAssumption DEF IdleCall, CallState, Nodes
  <1>2. CallOK(Starting(IdleCall))
    BY <1>1, StartingOK DEF PoolInv
  <1> QED BY <1>2, OneCall DEF StartCall, PoolInv

(* The next page of a call begins at the active endpoint.                  *)
LEMMA StartPageKeeps ==
  ASSUME PoolInv, NEW w \in Callers, StartPage(w), attempt' = attempt
  PROVE  PoolInv'
  <1>1. call[w] \in CallState({call[w].pages}) /\ call[w].result = "none"
    BY DEF PoolInv, CallOK, CallShape, StartPage
  <1>2. CallOK(Starting(call[w]))
    BY <1>1, StartingOK DEF PoolInv
  <1> QED BY <1>2, OneCall DEF StartPage, PoolInv

(* An attempt is the next step of the walk.                                *)
LEMMA AttemptKeeps ==
  ASSUME PoolInv, NEW w \in Callers, Attempt(w), attempt' = attempt
  PROVE  PoolInv'
  <1> DEFINE c == call[w]
  <1>1. CallShape(c) /\ TriedBefore(c, c.off) /\ c.result = "none"
    BY DEF PoolInv, CallOK, Attempt
  <1>2. CASE Admits(breaker[Target(c)])
    <2> DEFINE after == [c EXCEPT !.pc = "sent", !.counts = TRUE, !.tried = c.tried \cup {Target(c)}]
    <2>1. CallOK(after)
      BY <1>1, SentOK
    <2>2. call' = [call EXCEPT ![w] = after] /\ active' = active
      BY <1>2 DEF Attempt
    <2> HIDE DEF after
    <2> QED BY <2>1, <2>2, OneCall DEF PoolInv
  <1>3. CASE ~Admits(breaker[Target(c)])
    <2>1. CallOK(NextAttempt(c, Target(c)))
      BY <1>1, NextAttemptOK
    <2>2. call' = [call EXCEPT ![w] = NextAttempt(c, Target(c))] /\ active' = active
      BY <1>3 DEF Attempt
    <2> QED BY <2>1, <2>2, OneCall DEF PoolInv
  <1> QED BY <1>2, <1>3

(* The target of a request on its way has had its turn, so a failure goes  *)
(* on from there as NextAttempt does from an attempt.                      *)
LEMMA ReceiveKeeps ==
  ASSUME PoolInv, NEW w \in Callers, Receive(w), attempt' = attempt
  PROVE  PoolInv'
  <1> DEFINE c == call[w]
             i == Target(c)
             ok == Succeeds(w, i)
             after == IF ~ok THEN NextAttempt(c, i)
                      ELSE IF w \in RosterCallers THEN WithPage(c, i)
                      ELSE [IdleCall EXCEPT !.result = "ok"]
             calls == [call EXCEPT ![w] = after]
  <1>1. CallShape(c) /\ TriedBefore(c, c.off + 1) /\ c.result = "none"
    BY DEF PoolInv, CallOK, Receive
  <1>2. TriedBefore(c, c.off)
    BY <1>1, EndpointsAssumption DEF TriedBefore, CallShape, CallState, Nodes
  <1>3. CallOK(after)
    BY <1>1, <1>2, NextAttemptOK, WithPageOK, IdleOK
  <1>4. call' \in {calls, Uncounted(calls, i)} /\ active' \in {i, active}
    BY DEF Receive
  <1>5. active' \in Nodes
    BY <1>1, <1>4, TargetType DEF PoolInv
  <1> HIDE DEF after
  <1>6. calls = [v \in Callers |-> calls[v]] /\ \A v \in Callers : CallOK(calls[v])
    BY <1>3, OneCall DEF PoolInv
  <1> HIDE DEF calls, i
  <1>7. call' = [v \in Callers |-> call'[v]] /\ \A v \in Callers : CallOK(call'[v])
    BY <1>4, <1>6, UncountedCalls
  <1> QED BY <1>5, <1>7 DEF PoolInv

(* The breaker of an endpoint lets a probe through.                        *)
LEMMA HalfOpenKeeps ==
  ASSUME PoolInv, NEW i \in Nodes, HalfOpen(i), attempt' = attempt
  PROVE  PoolInv'
  <1>1. call' = Uncounted(call, i) /\ active' = active
    BY DEF HalfOpen
  <1>2. call' = [v \in Callers |-> call'[v]] /\ \A v \in Callers : CallOK(call'[v])
    BY <1>1, UncountedCalls DEF PoolInv
  <1> QED BY <1>1, <1>2 DEF PoolInv

(* Every step of the callers and of the WebSocket client keeps it.         *)
LEMMA PoolInvInductive == PoolInv /\ [Next]_upstreamVars => PoolInv'
  <1> SUFFICES ASSUME PoolInv, [Next]_upstreamVars PROVE PoolInv'
    OBVIOUS
  <1>1. CASE WSNext
    BY <1>1, WSStepsKeep
  <1>2. CASE PoolNext
    <2>1. attempt' = attempt
      BY <1>2 DEF PoolNext, wsVars
    <2>2. ASSUME NEW w \in Callers, StartCall(w) \/ Progress(w) PROVE PoolInv'
      BY <2>1, <2>2, StartCallKeeps, StartPageKeeps, AttemptKeeps, ReceiveKeeps DEF Progress
    <2>3. ASSUME NEW i \in Nodes, HalfOpen(i) PROVE PoolInv'
      BY <2>1, <2>3, HalfOpenKeeps
    <2> QED BY <1>2, <2>2, <2>3 DEF PoolNext
  <1>3. CASE NodesNext /\ UNCHANGED <<wsVars, poolVars>>
    BY <1>3 DEF wsVars, poolVars, PoolInv
  <1>4. CASE UNCHANGED upstreamVars
    BY <1>4 DEF upstreamVars, wsVars, poolVars, PoolInv
  <1> QED BY <1>1, <1>2, <1>3, <1>4 DEF Next

-----------------------------------------------------------------------------
(* A call of do that fails has turned to every endpoint of the list,       *)
(* however many there are, wherever it started, and whatever the other     *)
(* callers and the WebSocket client made the active one meanwhile.         *)
THEOREM EveryEndpointIsTried == Spec => []EveryEndpointTried
  <1>1. PoolInv => EveryEndpointTried
    BY DEF PoolInv, CallOK, EveryEndpointTried
  <1> QED BY <1>1, InitialPool, PoolInvInductive, PTL DEF Spec

-----------------------------------------------------------------------------
(* The pages of AllValidators.  The inductive invariant: whatever endpoint *)
(* answers, the pages read so far are whole pages from the beginning of    *)
(* the set at the height that the first of them pinned.                    *)

SetOK(set) == set # <<>> /\ set \in Seq(Range(set)) /\ IsInjective(set)

(* all is the beginning of set.                                            *)
Begins(all, set) ==
  /\ all \in Seq(Range(set)) /\ Len(all) <= Len(set) /\ \A i \in 1..Len(all) : all[i] = set[i]

(* A number of validators that fills pages.                                *)
WholePages(n) == \E j \in Nat : n = j * PerPage

(* part carries all on to a page's end or to the end of set.               *)
Carries(all, set, part) ==
  \E m \in Nat : /\ Len(all) < m /\ m <= Len(set) /\ part = SubSeq(set, Len(all) + 1, m)
                 /\ m = Len(set) \/ WholePages(m)

PagesOK(pages) ==
  \/ pages.pinned = 0 /\ pages.all = <<>>
  \/ /\ pages.pinned \in 1..MaxHead /\ Begins(pages.all, SetAt(pages.pinned))
     /\ Len(pages.all) < Len(SetAt(pages.pinned))
     /\ WholePages(Len(pages.all))

RosterOK(c) ==
  /\ c.result # "inconsistent"
  /\ c.result = "ok" => c.pages.all = SetAt(c.pages.pinned)
  /\ c.pc # "idle" => PagesOK(c.pages)

RosterInv == head \in [Nodes -> 1..MaxHead] /\ \A w \in RosterCallers : RosterOK(call[w])

(* The beginning of a set lists each validator once.                       *)
LEMMA BeginsInjective ==
  ASSUME NEW set, SetOK(set), NEW all, Begins(all, set)
  PROVE  IsInjective(all)
  <1>1. DOMAIN all = 1..Len(all) /\ \A i \in DOMAIN all : i \in DOMAIN set /\ all[i] = set[i]
    BY DEF SetOK, Begins
  <1>2. \A i, j \in DOMAIN set : set[i] = set[j] => i = j
    BY DEF IsInjective, SetOK
  <1>3. \A i, j \in DOMAIN all : all[i] = all[j] => i = j
    BY <1>1, <1>2
  <1> QED BY <1>3 DEF IsInjective

(* What a part of a sequence holds.                                        *)
LEMMA PartProperties ==
  ASSUME NEW S, NEW s, NEW from \in Int, NEW m \in Int, \A i \in from..m : s[i] \in S
  PROVE  /\ SubSeq(s, from, m) \in Seq(S)
         /\ Len(SubSeq(s, from, m)) = IF from <= m THEN m - from + 1 ELSE 0
         /\ \A i \in 1..(m - from + 1) : SubSeq(s, from, m)[i] = s[from + i - 1]
  <1> DEFINE sub == SubSeq(s, from, m)
  <1>1. sub = SubSeq(s, from, m)
    OBVIOUS
  <1> HIDE DEF sub
  <1>2. sub \in Seq(S)
    BY <1>1, SubSeqProperties
  <1>3. Len(sub) = IF from <= m THEN m - from + 1 ELSE 0
    BY <1>1, SubSeqProperties
  <1>4. \A i \in 1..(m - from + 1) : sub[i] = s[from + i - 1]
    BY <1>1, SubSeqProperties
  <1> QED BY <1>2, <1>3, <1>4 DEF sub

(* The next part of the set makes the beginning longer.                    *)
LEMMA PartsJoin ==
  ASSUME NEW set, SetOK(set), NEW all, Begins(all, set), NEW m \in Nat, Len(all) < m, m <= Len(set),
         NEW part, part = SubSeq(set, Len(all) + 1, m), NEW more, more = all \o part
  PROVE  part # <<>> /\ Begins(more, set) /\ Len(more) = m
  <1> DEFINE n == Len(all)
             from == n + 1
  <1>1. set \in Seq(Range(set)) /\ Len(set) \in Nat /\ n \in Nat /\ n < m
    BY DEF SetOK, Begins
  <1>2. \A i \in 1..Len(set) : set[i] \in Range(set)
    BY <1>1
  <1>3. from \in Int /\ m \in Int /\ from <= m /\ (m - from) + 1 = m - n /\ part = SubSeq(set, from, m)
    BY <1>1
  <1>4. \A i \in from..m : set[i] \in Range(set)
    BY <1>1, <1>2
  <1>5. /\ part \in Seq(Range(set)) /\ Len(part) = m - n
        /\ \A i \in 1..(m - n) : part[i] = set[from + i - 1]
    <2> HIDE DEF from, n
    <2> DEFINE sub == SubSeq(set, from, m)
    <2>1. from \in Int /\ m \in Int
      BY <1>3
    <2>2. /\ sub \in Seq(Range(set)) /\ Len(sub) = IF from <= m THEN m - from + 1 ELSE 0
          /\ \A i \in 1..(m - from + 1) : sub[i] = set[from + i - 1]
      BY <1>4, <2>1, PartProperties DEF sub
    <2>3. part = sub
      BY <1>3
    <2> HIDE DEF sub
    <2> QED BY <1>3, <2>2, <2>3
  <1>6. all \in Seq(Range(set)) /\ \A i \in 1..n : all[i] = set[i]
    BY DEF Begins
  <1>7. /\ more \in Seq(Range(set)) /\ Len(more) = m
        /\ \A i \in 1..m : more[i] = IF i <= n THEN all[i] ELSE part[i - n]
    <2>1. /\ more \in Seq(Range(set)) /\ Len(more) = Len(all) + Len(part)
          /\ \A i \in 1..(Len(all) + Len(part)) :
               more[i] = IF i <= Len(all) THEN all[i] ELSE part[i - Len(all)]
      BY <1>5, <1>6, ConcatProperties
    <2>2. Len(all) + Len(part) = m
      BY <1>1, <1>5
    <2> QED BY <2>1, <2>2
  <1>8. \A i \in 1..m : more[i] = set[i]
    <2> SUFFICES ASSUME NEW i \in 1..m PROVE more[i] = set[i]
      OBVIOUS
    <2>1. CASE i <= n
      BY <1>1, <1>6, <1>7, <2>1
    <2>2. CASE ~(i <= n)
      <3>1. i - n \in 1..(m - n) /\ from + (i - n) - 1 = i
        BY <1>1, <2>2
      <3> QED BY <1>5, <1>7, <2>2, <3>1
    <2> QED BY <2>1, <2>2
  <1>9. Begins(more, set)
    BY <1>7, <1>8 DEF Begins
  <1>10. part # <<>>
    <2>1. m - n > 0
      BY <1>1
    <2> HIDE DEF n
    <2> QED BY <1>5, <2>1
  <1> QED BY <1>7, <1>9, <1>10

(* The page after j whole pages continues the set where they end; it is    *)
(* another whole page, or the set is complete.                             *)
LEMMA PageAt ==
  ASSUME NEW set, NEW k, NEW from, from = (k - 1) * PerPage + 1,
         NEW m, m = IF k * PerPage < Len(set) THEN k * PerPage ELSE Len(set)
  PROVE  Page(set, k) = SubSeq(set, from, m)
  BY DEF Page

(* A page of the set, asked for after whole pages, carries the beginning   *)
(* on.                                                                     *)
LEMMA PageCarries ==
  ASSUME NEW set, SetOK(set), NEW all, Begins(all, set), Len(all) < Len(set), WholePages(Len(all)),
         NEW part, part = Page(set, Len(all) \div PerPage + 1)
  PROVE  Carries(all, set, part)
  <1>1. PICK j \in Nat : Len(all) = j * PerPage
    BY DEF WholePages
  <1> DEFINE from == ((j + 1) - 1) * PerPage + 1
             next == (j + 1) * PerPage
             m == IF next < Len(set) THEN next ELSE Len(set)
  <1>2. PerPage \in Nat \ {0} /\ Len(set) \in Nat
    BY PoolAssumption DEF SetOK
  <1>3. (j * PerPage) \div PerPage = j /\ next = j * PerPage + PerPage /\ j * PerPage \in Nat
    BY <1>2
  <1>4. Len(all) \div PerPage + 1 = j + 1 /\ from = Len(all) + 1
    BY <1>1, <1>3
  <1>5. part = SubSeq(set, from, m)
    <2>1. part = Page(set, j + 1)
      BY <1>4
    <2>2. from = ((j + 1) - 1) * PerPage + 1
      OBVIOUS
    <2>3. m = IF (j + 1) * PerPage < Len(set) THEN (j + 1) * PerPage ELSE Len(set)
      OBVIOUS
    <2> HIDE DEF from, m, next
    <2>4. Page(set, j + 1) = SubSeq(set, from, m)
      BY <2>2, <2>3, PageAt, Zenon
    <2> QED BY <2>1, <2>4
  <1>6. m \in Nat /\ Len(all) < m /\ m <= Len(set)
    BY <1>1, <1>2, <1>3
  <1>7. m = Len(set) \/ WholePages(m)
    <2>1. j + 1 \in Nat /\ next = (j + 1) * PerPage
      OBVIOUS
    <2> QED BY <2>1 DEF WholePages
  <1> HIDE DEF m, from, next
  <1>8. part = SubSeq(set, Len(all) + 1, m)
    BY <1>4, <1>5
  <1> QED BY <1>6, <1>7, <1>8 DEF Carries

(* With such a page the call has a longer beginning of the set, of whole   *)
(* pages or complete.                                                      *)
LEMMA CarriesJoin ==
  ASSUME NEW set, SetOK(set), NEW all, Begins(all, set), NEW part, Carries(all, set, part),
         NEW more, more = all \o part
  PROVE  /\ part # <<>> /\ Begins(more, set) /\ Len(more) <= Len(set)
         /\ Len(more) = Len(set) \/ WholePages(Len(more))
  <1>1. PICK m \in Nat : /\ Len(all) < m /\ m <= Len(set) /\ part = SubSeq(set, Len(all) + 1, m)
                         /\ m = Len(set) \/ WholePages(m)
    BY DEF Carries
  <1>2. part # <<>>
    BY ZenonT(60), <1>1, PartsJoin
  <1>3. Begins(more, set)
    BY <1>1, PartsJoin
  <1>4. Len(more) = m
    BY <1>1, PartsJoin
  <1> QED BY <1>1, <1>2, <1>3, <1>4

(* What has begun the set and is as long as it is the set.                 *)
LEMMA WholeSet ==
  ASSUME NEW set, SetOK(set), NEW all, Begins(all, set), Len(all) = Len(set)
  PROVE  all = set
  BY DEF SetOK, Begins

(* A call that has its result, and one that asks for the next page.        *)
Completed(pages) == [IdleCall EXCEPT !.result = "ok", !.pages = pages]
Onward(c, pages) == [[c EXCEPT !.pages = pages] EXCEPT !.pc = "start"]

(* The page a call asks for of the set at height h, and what it has then.  *)
PageAsked(c, h) == Page(SetAt(h), Len(c.pages.all) \div PerPage + 1)
AllWith(c, h) == c.pages.all \o PageAsked(c, h)
PagesWith(c, h) == [pinned |-> h, all |-> AllWith(c, h)]

(* What a page that fits makes of the call, at the height h it is of.      *)
LEMMA WithPageValue ==
  ASSUME NEW c, NEW i, NEW h, h # 0, c.pages.pinned = h \/ (c.pages.pinned = 0 /\ head[i] = h),
         PageAsked(c, h) # <<>>, Len(AllWith(c, h)) <= Len(SetAt(h)), IsInjective(AllWith(c, h))
  PROVE  WithPage(c, i) =
           IF Len(AllWith(c, h)) >= Len(SetAt(h))
           THEN Completed(PagesWith(c, h)) ELSE Onward(c, PagesWith(c, h))
  <1> DEFINE all == c.pages.all
             part == PageAsked(c, h)
             more == AllWith(c, h)
             pages == PagesWith(c, h)
  <1>1. /\ c.pages.all = all /\ part = Page(SetAt(h), Len(all) \div PerPage + 1)
        /\ more = all \o part /\ pages = [pinned |-> h, all |-> more]
    BY DEF PagesWith, AllWith, PageAsked
  <1>2. part # <<>> /\ Len(more) <= Len(SetAt(h)) /\ IsInjective(more)
    OBVIOUS
  <1> HIDE DEF all, part, more, pages
  <1>3. WithPage(c, i) = IF Len(more) >= Len(SetAt(h)) THEN Completed(pages) ELSE Onward(c, pages)
    <2>1. CASE c.pages.pinned = h
      BY <1>1, <1>2, <2>1, SMT DEF WithPage, RequestHeight, Completed, Onward
    <2>2. CASE c.pages.pinned = 0 /\ head[i] = h
      BY <1>1, <1>2, <2>2, SMT DEF WithPage, RequestHeight, Completed, Onward
    <2> QED BY <2>1, <2>2
  <1> QED BY <1>3 DEF more, pages

(* An idle call of this result and these pages.                            *)
LEMMA IdleFields ==
  ASSUME NEW r, NEW pages
  PROVE  LET c == [IdleCall EXCEPT !.result = r, !.pages = pages] IN
         c.pc = "idle" /\ c.result = r /\ c.pages = pages
  BY DEF IdleCall

(* A page of any endpoint carries the call on or ends it with the set.     *)
LEMMA WithPageRoster ==
  ASSUME NEW c, CallShape(c), c.result = "none", PagesOK(c.pages), NEW i, head[i] \in 1..MaxHead
  PROVE  RosterOK(WithPage(c, i))
  <1>1. PICK h \in 1..MaxHead : /\ c.pages.pinned = h \/ (c.pages.pinned = 0 /\ head[i] = h)
                                /\ Begins(c.pages.all, SetAt(h))
                                /\ Len(c.pages.all) < Len(SetAt(h)) /\ WholePages(Len(c.pages.all))
    <2>1. CASE c.pages.pinned = 0 /\ c.pages.all = <<>>
      <3>1. SetAt(head[i]) # <<>> /\ SetAt(head[i]) \in Seq(Range(SetAt(head[i])))
        BY PoolAssumption
      <3>2. Begins(<<>>, SetAt(head[i])) /\ Len(<<>>) < Len(SetAt(head[i]))
        BY <3>1 DEF Begins
      <3>3. 0 \in Nat /\ 0 = 0 * PerPage /\ Len(<<>>) = 0
        BY PoolAssumption
      <3>4. WholePages(Len(<<>>))
        BY <3>3 DEF WholePages
      <3> QED BY <2>1, <3>2, <3>4
    <2>2. CASE /\ c.pages.pinned \in 1..MaxHead /\ Begins(c.pages.all, SetAt(c.pages.pinned))
               /\ Len(c.pages.all) < Len(SetAt(c.pages.pinned)) /\ WholePages(Len(c.pages.all))
      BY <2>2
    <2> QED BY <2>1, <2>2 DEF PagesOK
  <1> DEFINE set == SetAt(h)
             all == c.pages.all
             part == PageAsked(c, h)
             more == AllWith(c, h)
             pages == PagesWith(c, h)
             done == Completed(pages)
             next == Onward(c, pages)
  <1>2. SetOK(set)
    BY PoolAssumption DEF SetOK
  <1>3. Begins(all, set) /\ Len(all) < Len(set) /\ WholePages(Len(all))
    BY <1>1
  <1>4. part = Page(set, Len(all) \div PerPage + 1) /\ more = all \o part
    BY DEF PageAsked, AllWith
  <1>5. pages.pinned = h /\ pages.all = more
    BY DEF PagesWith
  <1>6. done.pc = "idle" /\ done.result = "ok" /\ done.pages = pages
    <2> HIDE DEF pages
    <2> QED BY IdleFields DEF Completed
  <1>7. next.pc = "start" /\ next.result = "none" /\ next.pages = pages
    <2> DEFINE after == [c EXCEPT !.pages = pages]
    <2> HIDE DEF pages
    <2>1. c \in CallState({c.pages, pages})
      BY DEF CallShape, CallState
    <2>2. after \in CallState({c.pages, pages}) /\ after.result = "none" /\ after.pages = pages
      BY <2>1 DEF CallState
    <2>3. next = [after EXCEPT !.pc = "start"]
      BY DEF Onward
    <2> HIDE DEF after
    <2> QED BY <2>2, <2>3 DEF CallState
  <1>8. head[i] # 0 /\ h # 0 /\ h \in 1..MaxHead
    BY EndpointsAssumption
  <1> HIDE DEF part
  <1>9. Carries(all, set, part)
    BY <1>2, <1>3, <1>4, PageCarries
  <1> HIDE DEF more
  <1>10. part # <<>>
    BY <1>2, <1>3, <1>4, <1>9, CarriesJoin
  <1>11. Begins(more, set)
    BY <1>2, <1>3, <1>4, <1>9, CarriesJoin
  <1>12. Len(more) <= Len(set) /\ (Len(more) = Len(set) \/ WholePages(Len(more)))
    BY <1>2, <1>3, <1>4, <1>9, CarriesJoin
  <1>13. IsInjective(more)
    BY <1>2, <1>11, BeginsInjective
  <1>14. WithPage(c, i) = IF Len(more) >= Len(set) THEN done ELSE next
    BY <1>1, <1>8, <1>10, <1>12, <1>13, WithPageValue DEF part, more
  <1>15. Len(more) \in Nat /\ Len(set) \in Nat
    BY <1>2, <1>11 DEF SetOK, Begins
  <1> HIDE DEF done, next, pages
  <1>16. CASE Len(more) >= Len(set)
    <2>1. Len(more) = Len(set)
      BY <1>12, <1>15, <1>16
    <2>2. more = set
      BY <1>2, <1>11, <2>1, WholeSet
    <2> QED BY <1>5, <1>6, <1>14, <1>16, <2>2 DEF RosterOK
  <1>17. CASE ~(Len(more) >= Len(set))
    <2>1. Len(more) < Len(set) /\ WholePages(Len(more))
      BY <1>12, <1>15, <1>17
    <2>2. PagesOK(pages)
      BY <1>5, <1>8, <1>11, <2>1 DEF PagesOK
    <2> QED BY <1>7, <1>14, <1>17, <2>2 DEF RosterOK
  <1> QED BY <1>16, <1>17

(* A call begins a page, asks the next endpoint, sends its request, or is  *)
(* forgotten by a breaker, with the pages it has.                          *)
LEMMA StartingRoster ==
  ASSUME NEW P, NEW c \in CallState(P), c.result = "none", PagesOK(c.pages)
  PROVE  RosterOK(Starting(c))
  <1>1. Starting(c).result = "none" /\ Starting(c).pages = c.pages
    BY DEF Starting, CallState
  <1> QED BY <1>1 DEF RosterOK

(* The same of the turn to the next endpoint; a call that fails keeps none.*)
LEMMA NextAttemptRoster ==
  ASSUME NEW c, CallShape(c), c.result = "none", PagesOK(c.pages), NEW i
  PROVE  RosterOK(NextAttempt(c, i))
  <1> DEFINE tried == c.tried \cup {i}
             c1 == [c EXCEPT !.pc = "attempt", !.off = @ + 1, !.tried = tried]
             done == [IdleCall EXCEPT !.result = "failed", !.tried = tried]
  <1>1. done.pc = "idle" /\ done.result = "failed"
    BY DEF IdleCall
  <1>2. c1.result = "none" /\ c1.pages = c.pages
    BY DEF CallShape, CallState
  <1>3. NextAttempt(c, i) = done \/ NextAttempt(c, i) = c1
    BY DEF NextAttempt
  <1> HIDE DEF done, c1
  <1> QED BY <1>1, <1>2, <1>3 DEF RosterOK

(* The same of a request.                                                  *)
LEMMA SentRoster ==
  ASSUME NEW c, CallShape(c), c.result = "none", PagesOK(c.pages), NEW tried
  PROVE  RosterOK([c EXCEPT !.pc = "sent", !.counts = TRUE, !.tried = tried])
  <1> DEFINE c1 == [c EXCEPT !.pc = "sent", !.counts = TRUE, !.tried = tried]
  <1>1. c1.result = "none" /\ c1.pages = c.pages
    BY DEF CallShape, CallState
  <1> HIDE DEF c1
  <1>2. RosterOK(c1)
    BY <1>1 DEF RosterOK
  <1> QED BY <1>2 DEF c1

(* The same of a request that a breaker forgets.                           *)
LEMMA UncountedRoster ==
  ASSUME NEW c, CallShape(c), RosterOK(c)
  PROVE  RosterOK([c EXCEPT !.counts = FALSE])
  <1> DEFINE c1 == [c EXCEPT !.counts = FALSE]
  <1>1. c1.result = c.result /\ c1.pages = c.pages /\ c1.pc = c.pc
    BY DEF CallShape, CallState
  <1> HIDE DEF c1
  <1>2. RosterOK(c1)
    BY <1>1 DEF RosterOK
  <1> QED BY <1>2 DEF c1

(* Of the calls of AllValidators, one changes and the others stay, but     *)
(* that a breaker may forget them.                                         *)
LEMMA OneRoster ==
  ASSUME PoolInv, \A v \in RosterCallers : RosterOK(call[v]), NEW w \in Callers, NEW c, CallOK(c),
         w \in RosterCallers => RosterOK(c), NEW i,
         NEW g, g = [call EXCEPT ![w] = c]
  PROVE  /\ \A v \in RosterCallers : RosterOK(g[v])
         /\ \A v \in RosterCallers : RosterOK(Uncounted(g, i)[v])
  <1>1. g = [v \in Callers |-> g[v]] /\ \A v \in Callers : CallOK(g[v])
    BY OneCall DEF PoolInv
  <1>2. RosterCallers \subseteq Callers
    BY PoolAssumption
  <1>3. \A v \in Callers : g[v] = IF v = w THEN c ELSE call[v]
    BY DEF PoolInv
  <1>4. \A v \in RosterCallers : RosterOK(g[v])
    BY <1>2, <1>3
  <1>5. \A v \in RosterCallers : CallShape(g[v]) /\ RosterOK([g[v] EXCEPT !.counts = FALSE])
    BY <1>1, <1>2, <1>4, UncountedRoster DEF CallOK
  <1>6. \A v \in Callers : Uncounted(g, i)[v] \in {g[v], [g[v] EXCEPT !.counts = FALSE]}
    BY DEF Uncounted
  <1> QED BY <1>2, <1>4, <1>5, <1>6

(* A caller's step.                                                        *)
LEMMA ProgressRoster ==
  ASSUME PoolInv, RosterInv, NEW w \in Callers, StartCall(w) \/ Progress(w)
  PROVE  \A v \in RosterCallers : RosterOK(call'[v])
  <1> DEFINE c == call[w]
             i == Target(c)
  <1>1. CallShape(c) /\ (c.pc # "idle" => c.result = "none")
    BY DEF PoolInv, CallOK
  <1>2. w \in RosterCallers /\ c.pc # "idle" => PagesOK(c.pages)
    BY DEF RosterInv, RosterOK
  <1>3. active \in Nodes /\ i \in Nodes
    BY <1>1, TargetType DEF PoolInv
  <1>4. CASE StartCall(w)
    <2>1. IdleCall \in CallState({NoPages}) /\ IdleCall.result = "none" /\ IdleCall.pages = NoPages
      BY EndpointsAssumption DEF IdleCall, CallState, Nodes
    <2>2. PagesOK(NoPages)
      BY DEF PagesOK, NoPages
    <2>3. CallOK(Starting(IdleCall)) /\ RosterOK(Starting(IdleCall))
      BY <1>3, <2>1, <2>2, StartingOK, StartingRoster
    <2>4. call' = [call EXCEPT ![w] = Starting(IdleCall)]
      BY <1>4 DEF StartCall
    <2> HIDE DEF c, i
    <2> QED BY <2>3, <2>4, OneRoster DEF RosterInv
  <1>5. CASE StartPage(w)
    <2>1. c.pc = "start" /\ c \in CallState({c.pages})
      BY <1>1, <1>5 DEF StartPage, CallShape
    <2>2. CallOK(Starting(c))
      BY <1>1, <1>3, <2>1, StartingOK
    <2>3. w \in RosterCallers => RosterOK(Starting(c))
      BY <1>1, <1>2, <2>1, StartingRoster
    <2>4. call' = [call EXCEPT ![w] = Starting(c)]
      BY <1>5 DEF StartPage
    <2> HIDE DEF c, i
    <2> QED BY <2>2, <2>3, <2>4, OneRoster DEF RosterInv
  <1>6. CASE Attempt(w)
    <2>1. c.pc = "attempt" /\ c.result = "none" /\ TriedBefore(c, c.off)
      BY <1>1, <1>6 DEF Attempt, PoolInv, CallOK
    <2> DEFINE sent == [c EXCEPT !.pc = "sent", !.counts = TRUE, !.tried = c.tried \cup {i}]
               after == IF Admits(breaker[i]) THEN sent ELSE NextAttempt(c, i)
    <2>2. call' = [call EXCEPT ![w] = after]
      BY <1>6 DEF Attempt
    <2>3. CallOK(sent) /\ CallOK(NextAttempt(c, i))
      BY <1>1, <2>1, SentOK, NextAttemptOK
    <2>4. w \in RosterCallers => RosterOK(sent) /\ RosterOK(NextAttempt(c, i))
      BY <1>1, <1>2, <2>1, SentRoster, NextAttemptRoster
    <2>5. CallOK(after) /\ (w \in RosterCallers => RosterOK(after))
      <3> HIDE DEF sent, c, i
      <3> QED BY <2>3, <2>4
    <2> HIDE DEF after, c, i
    <2> QED BY <2>2, <2>5, OneRoster DEF RosterInv
  <1>7. CASE Receive(w)
    <2> DEFINE ok == Succeeds(w, i)
               answered == [IdleCall EXCEPT !.result = "ok"]
               after == IF ~ok THEN NextAttempt(c, i)
                        ELSE IF w \in RosterCallers THEN WithPage(c, i) ELSE answered
               calls == [call EXCEPT ![w] = after]
    <2>1. c.pc = "sent" /\ c.result = "none" /\ TriedBefore(c, c.off + 1)
      BY <1>1, <1>7 DEF Receive, PoolInv, CallOK
    <2>2. TriedBefore(c, c.off)
      BY <1>1, <2>1, EndpointsAssumption DEF TriedBefore, CallShape, CallState, Nodes
    <2>3. CallOK(after)
      BY <1>1, <2>1, <2>2, NextAttemptOK, WithPageOK, IdleOK
    <2>4. head[i] \in 1..MaxHead
      BY <1>3 DEF RosterInv
    <2>5. w \in RosterCallers => RosterOK(NextAttempt(c, i)) /\ RosterOK(WithPage(c, i))
      BY <1>1, <1>2, <2>1, <2>4, NextAttemptRoster, WithPageRoster
    <2>6. w \in RosterCallers => RosterOK(after)
      <3> HIDE DEF answered, ok, c, i
      <3> QED BY <2>5
    <2>7. call' \in {calls, Uncounted(calls, i)}
      BY <1>7 DEF Receive
    <2> HIDE DEF after, c, i
    <2>8. calls = [call EXCEPT ![w] = after]
      OBVIOUS
    <2> HIDE DEF calls
    <2> QED BY <2>3, <2>6, <2>7, <2>8, OneRoster DEF RosterInv
  <1> QED BY <1>4, <1>5, <1>6, <1>7 DEF Progress

(* No call has read a page at the start.                                   *)
LEMMA InitialRoster == Init => RosterInv
  <1> SUFFICES ASSUME Init PROVE RosterInv
    OBVIOUS
  <1>1. head \in [Nodes -> 1..MaxHead]
    BY EndpointsAssumption DEF Init, NodesInit
  <1>2. \A w \in Callers : call[w] = IdleCall
    BY DEF Init, PoolInit
  <1>3. IdleCall.pc = "idle" /\ IdleCall.result = "none"
    BY DEF IdleCall
  <1>4. RosterOK(IdleCall)
    BY <1>3 DEF RosterOK
  <1> QED BY <1>1, <1>2, <1>4, PoolAssumption DEF RosterInv

(* No step breaks it, a chain that grows under the pages included.         *)
LEMMA RosterInvInductive == PoolInv /\ RosterInv /\ [Next]_upstreamVars => RosterInv'
  <1> SUFFICES ASSUME PoolInv, RosterInv, [Next]_upstreamVars PROVE RosterInv'
    OBVIOUS
  <1>1. head' \in [Nodes -> 1..MaxHead]
    <2>1. CASE NodesNext
      <3>1. PICK e \in Nodes : Changes(e) \/ Grows(e)
        BY <2>1 DEF NodesNext
      <3>2. CASE Changes(e)
        BY <3>2 DEF Changes, RosterInv
      <3>3. CASE Grows(e)
        BY <3>3, EndpointsAssumption DEF Grows, RosterInv
      <3> QED BY <3>1, <3>2, <3>3
    <2>2. CASE head' = head
      BY <2>2 DEF RosterInv
    <2> QED BY <2>1, <2>2 DEF Next, WSNext, PoolNext, upstreamVars, nodeVars
  <1>2. \A v \in RosterCallers : RosterOK(call'[v])
    <2>1. CASE call' = call
      BY <2>1 DEF RosterInv
    <2>2. CASE PoolNext
      <3>1. ASSUME NEW w \in Callers, StartCall(w) \/ Progress(w)
            PROVE  \A v \in RosterCallers : RosterOK(call'[v])
        BY <3>1, ProgressRoster
      <3>2. ASSUME NEW i \in Nodes, HalfOpen(i)
            PROVE  \A v \in RosterCallers : RosterOK(call'[v])
        <4>1. call' = Uncounted(call, i)
          BY <3>2 DEF HalfOpen
        <4>2. \A v \in Callers : call'[v] \in {call[v], [call[v] EXCEPT !.counts = FALSE]}
          BY <4>1 DEF Uncounted
        <4>3. RosterCallers \subseteq Callers
          BY PoolAssumption
        <4>4. \A v \in RosterCallers : RosterOK(call[v]) /\ RosterOK([call[v] EXCEPT !.counts = FALSE])
          BY <4>3, UncountedRoster DEF PoolInv, CallOK, RosterInv
        <4> QED BY <4>2, <4>3, <4>4
      <3> QED BY <2>2, <3>1, <3>2 DEF PoolNext
    <2> QED BY <2>1, <2>2 DEF Next, WSNext, Lifecycle, SetActive, poolVars, upstreamVars
  <1> QED BY <1>1, <1>2 DEF RosterInv

(* What AllValidators returns is the validator set of one height, the one  *)
(* its first page pinned, and its checks never find the pages              *)
(* inconsistent: for any sets and any page size, whichever endpoints       *)
(* answer its pages and however their chains grow meanwhile.               *)
THEOREM RosterIsOneSet == Spec => []RosterSound
  <1>1. RosterInv => RosterSound
    BY DEF RosterInv, RosterOK, RosterSound
  <1> QED BY <1>1, InitialPool, PoolInvInductive, InitialRoster, RosterInvInductive, PTL DEF Spec

-----------------------------------------------------------------------------
(* The comparison: the inductive invariant *)

Settlings == {"error", "lagging", "chain_mismatch"}
Rows ==
  [status : Settlings \cup {"unasked", "pending", "compared", "reference", "match", "mismatch"},
   latest : 0..MaxHead, hash : SUBSET AppHashes]
ComparisonReports ==
  [status : {"not_configured", "incomplete", "matching", "mismatch"}, height : 0..MaxHead,
   rows : [Nodes -> Rows]]

ComparisonShape ==
  /\ head \in [Nodes -> 1..MaxHead]
  /\ appHash \in [Nodes -> [1..MaxHead -> AppHashes]]
  /\ comparison \in [pc : {"idle", "status", "blocks", "publish"}, todo : SUBSET Nodes,
                     report : ComparisonReports]
  /\ published \in ComparisonReports

(* What ComparisonSound says of a report, whether it is published or not.  *)
Sound(report) ==
  LET h == report.height  rows == report.rows IN
  /\ \A e \in Nodes :
       /\ rows[e].status \in Settlings \cup {"reference", "match", "mismatch"}
       /\ rows[e].status = "match" => SameBlock(e, h)
       /\ rows[e].status = "mismatch" => chain[e] = chain[0] /\ ~SameBlock(e, h)
       /\ rows[e].status \in {"match", "mismatch"} => rows[0].status = "reference"
  /\ report.status = "matching" => \A e \in Nodes : SameBlock(e, h)
  /\ report.status = "mismatch" => \E e \in Nodes : chain[e] = chain[0] /\ ~SameBlock(e, h)

(* Who has been asked has answered or failed.                              *)
Asking(c) ==
  /\ c.report.status = "incomplete"
  /\ \A e \in Nodes \ c.todo :
       LET row == c.report.rows[e] IN row.status = "error" \/ (row.status = "pending" /\ row.latest > 0)

(* Who is asked for the block is of the chain; who has answered gave the   *)
(* hash it has at the one height.                                          *)
Comparing(c) ==
  /\ c.report.height > 0
  /\ \A e \in Nodes :
       LET row == c.report.rows[e] IN
       IF e \in c.todo THEN row.status = "pending" /\ chain[e] = chain[0]
       ELSE \/ row.status \in Settlings
            \/ row.status = "compared" /\ chain[e] = chain[0] /\ row.hash = {appHash[e][c.report.height]}

ComparisonInv ==
  /\ ComparisonShape
  /\ comparison.pc = "status" => Asking(comparison)
  /\ comparison.pc = "blocks" => Comparing(comparison)
  /\ comparison.pc = "publish" => Sound(comparison.report)
  /\ published = NoReport \/ Sound(published)

-----------------------------------------------------------------------------
(* One lemma per kind of step of refreshRPCComparison *)

(* The first endpoint is a node.                                           *)
LEMMA ReferenceIsNode == 0 \in Nodes
  BY EndpointsAssumption DEF Nodes

(* The report of nobody asked.                                             *)
LEMMA NoReportTyped == NoReport \in ComparisonReports
  BY EndpointsAssumption DEF NoReport, ComparisonReports, Rows, Unasked

(* A row that a goroutine fills in.                                        *)
LEMMA SetRowFacts ==
  ASSUME ComparisonShape, NEW e \in Nodes, NEW row \in Rows, SetRow(e, row)
  PROVE  /\ comparison'.pc = comparison.pc /\ comparison'.todo = comparison.todo \ {e}
         /\ comparison'.report.status = comparison.report.status
         /\ comparison'.report.height = comparison.report.height
         /\ comparison'.report.rows = [comparison.report.rows EXCEPT ![e] = row]
         /\ comparison' \in [pc : {"idle", "status", "blocks", "publish"}, todo : SUBSET Nodes,
                             report : ComparisonReports]
  <1>1. PICK old \in ComparisonReports : old = comparison.report
    BY DEF ComparisonShape
  <1>2. PICK rows \in [Nodes -> Rows] : rows = [old.rows EXCEPT ![e] = row]
    BY DEF ComparisonReports
  <1>3. PICK report : report = [old EXCEPT !.rows = rows]
    OBVIOUS
  <1>4. report \in ComparisonReports /\ report.rows = rows /\ report.status = old.status
        /\ report.height = old.height
    BY <1>3 DEF ComparisonReports
  <1>5. comparison' = [comparison EXCEPT !.todo = @ \ {e}, !.report = report]
    BY <1>1, <1>2, <1>3 DEF SetRow, ComparisonShape, ComparisonReports
  <1> QED BY <1>1, <1>2, <1>4, <1>5 DEF ComparisonShape

(* A row that failed.                                                      *)
LEMMA FailedTyped == Failed \in Rows /\ Failed.status = "error"
  BY EndpointsAssumption DEF Failed, Unasked, Rows, Settlings

(* The first answers.                                                      *)
LEMMA StatusKeeps ==
  ASSUME ComparisonInv, NEW e \in Nodes, StatusOf(e), UNCHANGED nodeVars
  PROVE  ComparisonInv'
  <1>1. PICK row \in Rows : /\ row.status = "error" \/ (row.status = "pending" /\ row.latest > 0)
                            /\ SetRow(e, row)
    <2>1. PICK row : row = [status |-> "pending", latest |-> head[e], hash |-> {}]
      OBVIOUS
    <2>2. row \in Rows /\ row.status = "pending" /\ row.latest > 0
      BY <2>1, EndpointsAssumption DEF ComparisonInv, ComparisonShape, Rows
    <2> QED BY <2>1, <2>2, FailedTyped DEF StatusOf
  <1>2. comparison.pc = "status" /\ UNCHANGED <<chain, appHash, published, head>>
    BY DEF StatusOf, chainVars, nodeVars
  <1>3. /\ comparison'.pc = comparison.pc /\ comparison'.todo = comparison.todo \ {e}
        /\ comparison'.report.status = comparison.report.status
        /\ comparison'.report.rows = [comparison.report.rows EXCEPT ![e] = row]
        /\ comparison' \in [pc : {"idle", "status", "blocks", "publish"}, todo : SUBSET Nodes,
                            report : ComparisonReports]
    BY <1>1, SetRowFacts DEF ComparisonInv
  <1>4. comparison.report.rows \in [Nodes -> Rows]
    BY DEF ComparisonInv, ComparisonShape, ComparisonReports
  <1>5. Asking(comparison)'
    BY <1>1, <1>2, <1>3, <1>4 DEF ComparisonInv, Asking
  <1> QED BY <1>2, <1>3, <1>5 DEF ComparisonInv, ComparisonShape, Sound, SameBlock

(* The answers about the block.                                            *)
LEMMA BlockKeeps ==
  ASSUME ComparisonInv, NEW e \in Nodes, BlockOf(e), UNCHANGED nodeVars
  PROVE  ComparisonInv'
  <1>1. /\ comparison.pc = "blocks" /\ e \in comparison.todo
        /\ UNCHANGED <<chain, appHash, published, head>>
    BY DEF BlockOf, chainVars, nodeVars
  <1>2. PICK h \in 1..MaxHead : h = comparison.report.height
    BY <1>1, EndpointsAssumption DEF ComparisonInv, ComparisonShape, ComparisonReports, Comparing
  <1>3. PICK old \in Rows : old = comparison.report.rows[e]
    BY DEF ComparisonInv, ComparisonShape, ComparisonReports
  <1>4. PICK row \in Rows : /\ SetRow(e, row)
                            /\ \/ row.status = "error"
                               \/ row.status = "compared" /\ row.hash = {appHash[e][h]}
    <2>1. PICK failed : failed = [old EXCEPT !.status = "error"]
      OBVIOUS
    <2>2. failed \in Rows /\ failed.status = "error"
      BY <2>1 DEF Rows, Settlings
    <2>3. PICK got : got = [old EXCEPT !.status = "compared", !.hash = {appHash[e][h]}]
      OBVIOUS
    <2>4. appHash[e][h] \in AppHashes
      BY DEF ComparisonInv, ComparisonShape
    <2>5. got \in Rows /\ got.status = "compared" /\ got.hash = {appHash[e][h]}
      BY <2>3, <2>4 DEF Rows
    <2>6. SetRow(e, failed) \/ SetRow(e, got)
      BY <1>2, <1>3, <2>1, <2>3 DEF BlockOf, BlockHeight
    <2> QED BY <2>2, <2>5, <2>6
  <1>5. /\ comparison'.pc = comparison.pc /\ comparison'.todo = comparison.todo \ {e}
        /\ comparison'.report.height = comparison.report.height
        /\ comparison'.report.rows = [comparison.report.rows EXCEPT ![e] = row]
        /\ comparison' \in [pc : {"idle", "status", "blocks", "publish"}, todo : SUBSET Nodes,
                            report : ComparisonReports]
    BY <1>4, SetRowFacts DEF ComparisonInv
  <1>6. comparison.report.rows \in [Nodes -> Rows]
    BY DEF ComparisonInv, ComparisonShape, ComparisonReports
  <1>7. Comparing(comparison) /\ chain[e] = chain[0]
    BY <1>1 DEF ComparisonInv, Comparing
  <1>8. Comparing(comparison)'
    BY <1>1, <1>2, <1>4, <1>5, <1>6, <1>7 DEF Comparing, Settlings
  <1> QED BY <1>1, <1>5, <1>8 DEF ComparisonInv, ComparisonShape, Sound, SameBlock

(* The poller begins, and nobody has been asked.                           *)
LEMMA StartKeeps ==
  ASSUME ComparisonInv, StartComparison, UNCHANGED nodeVars
  PROVE  ComparisonInv'
  <1>1. PICK report : report = [NoReport EXCEPT !.status = "incomplete"]
    OBVIOUS
  <1>2. report \in ComparisonReports /\ report.status = "incomplete"
    BY <1>1, NoReportTyped DEF ComparisonReports
  <1>3. comparison' = [pc |-> "status", todo |-> Nodes, report |-> report]
    BY <1>1 DEF StartComparison
  <1>4. UNCHANGED <<chain, appHash, published, head>>
    BY DEF StartComparison, chainVars, nodeVars
  <1>5. ComparisonShape'
    BY <1>2, <1>3, <1>4 DEF ComparisonInv, ComparisonShape
  <1>6. published' = NoReport \/ Sound(published)'
    BY <1>4 DEF ComparisonInv, Sound, SameBlock
  <1>7. Asking(comparison)'
    BY <1>2, <1>3 DEF Asking
  <1> QED BY <1>3, <1>5, <1>6, <1>7 DEF ComparisonInv

(* Nothing is compared without the reference.                              *)
LEMMA ReferenceKeeps ==
  ASSUME ComparisonInv, TakeReference, UNCHANGED nodeVars
  PROVE  ComparisonInv'
  <1>1. PICK old \in ComparisonReports : old = comparison.report
    BY DEF ComparisonInv, ComparisonShape
  <1>2. PICK height \in 0..MaxHead : height = old.rows[0].latest
    BY ReferenceIsNode DEF ComparisonReports, Rows
  <1>3. PICK rows : rows = [e \in Nodes |-> Sorted(old.rows[e], e, height)]
    OBVIOUS
  <1>4. comparison.pc = "status" /\ comparison.todo = {} /\ UNCHANGED <<chain, appHash, published, head>>
    BY DEF TakeReference, chainVars, nodeVars
  <1>5. /\ old.status = "incomplete"
        /\ \A e \in Nodes : \/ old.rows[e].status = "error"
                            \/ old.rows[e].status = "pending" /\ old.rows[e].latest > 0
    BY <1>1, <1>4 DEF ComparisonInv, Asking
  <1>6. CASE old.rows[0].status = "pending"
    <2>1. \A e \in Nodes :
            /\ rows[e] \in Rows
            /\ rows[e].status = "pending" => chain[e] = chain[0]
            /\ rows[e].status # "pending" => rows[e].status \in Settlings
      <3> SUFFICES ASSUME NEW e \in Nodes
                   PROVE  /\ rows[e] \in Rows
                          /\ rows[e].status = "pending" => chain[e] = chain[0]
                          /\ rows[e].status # "pending" => rows[e].status \in Settlings
        OBVIOUS
      <3>1. PICK row \in Rows : row = old.rows[e]
        BY DEF ComparisonReports
      <3>2. row.status = "error" \/ row.status = "pending"
        BY <1>5, <3>1
      <3>3. rows[e] = Sorted(row, e, height)
        BY <1>3, <3>1
      <3> QED BY <1>2, <3>2, <3>3 DEF Sorted, Rows, Settlings
    <2>2. PICK todo \in SUBSET Nodes : todo = {e \in Nodes : rows[e].status = "pending"}
      OBVIOUS
    <2>3. rows \in [Nodes -> Rows]
      BY <1>3, <2>1
    <2>4. PICK report : report = [old EXCEPT !.height = height, !.rows = rows]
      OBVIOUS
    <2>5. report \in ComparisonReports /\ report.height = height /\ report.rows = rows
      BY <1>2, <2>3, <2>4 DEF ComparisonReports
    <2>6. comparison' = [pc |-> "blocks", todo |-> todo, report |-> report]
      BY <1>1, <1>2, <1>3, <1>6, <2>2, <2>4 DEF TakeReference
    <2>7. height > 0
      BY <1>2, <1>5, <1>6, ReferenceIsNode
    <2>8. Comparing(comparison)'
      BY <1>4, <2>1, <2>2, <2>5, <2>6, <2>7 DEF Comparing
    <2>9. ComparisonShape'
      BY <1>4, <2>5, <2>6 DEF ComparisonInv, ComparisonShape
    <2>10. published' = NoReport \/ Sound(published)'
      BY <1>4 DEF ComparisonInv, Sound, SameBlock
    <2> QED BY <2>6, <2>8, <2>9, <2>10 DEF ComparisonInv, Comparing
  <1>7. CASE old.rows[0].status # "pending"
    <2>1. PICK failed : failed = [e \in Nodes |-> [old.rows[e] EXCEPT !.status = "error"]]
      OBVIOUS
    <2>2. \A e \in Nodes : failed[e] \in Rows /\ failed[e].status = "error"
      <3> SUFFICES ASSUME NEW e \in Nodes PROVE failed[e] \in Rows /\ failed[e].status = "error"
        OBVIOUS
      <3>1. PICK row \in Rows : row = old.rows[e]
        BY DEF ComparisonReports
      <3>2. failed[e] = [row EXCEPT !.status = "error"]
        BY <2>1, <3>1
      <3> QED BY <3>2 DEF Rows, Settlings
    <2>3. failed \in [Nodes -> Rows]
      BY <2>1, <2>2
    <2>4. PICK report : report = [old EXCEPT !.rows = failed]
      OBVIOUS
    <2>5. /\ report \in ComparisonReports /\ report.status = old.status /\ report.rows = failed
      BY <2>3, <2>4 DEF ComparisonReports
    <2>6. comparison' = [pc |-> "publish", todo |-> {}, report |-> report]
      BY <1>1, <1>7, <2>1, <2>4 DEF TakeReference, ComparisonReports
    <2>7. Sound(report)'
      BY <1>5, <2>2, <2>5 DEF Sound, Settlings
    <2> QED BY <1>4, <2>5, <2>6, <2>7 DEF ComparisonInv, ComparisonShape, Sound, SameBlock
  <1> QED BY <1>6, <1>7

(* The verdict is about the one height.                                    *)
LEMMA CompareKeeps ==
  ASSUME ComparisonInv, Compare, UNCHANGED nodeVars
  PROVE  ComparisonInv'
  <1>1. PICK old \in ComparisonReports : old = comparison.report
    BY DEF ComparisonInv, ComparisonShape
  <1>2. PICK rows : rows = Verdict(old.rows)
    OBVIOUS
  <1>3. /\ comparison.pc = "blocks" /\ comparison.todo = {}
        /\ UNCHANGED <<chain, appHash, published, head>>
    BY DEF Compare, chainVars, nodeVars
  <1>4. \A e \in Nodes :
          \/ old.rows[e].status \in Settlings
          \/ /\ old.rows[e].status = "compared" /\ chain[e] = chain[0]
             /\ old.rows[e].hash = {appHash[e][old.height]}
    BY <1>1, <1>3 DEF ComparisonInv, Comparing
  <1> DEFINE Of(e) ==
        /\ rows[e] \in Rows
        /\ rows[e].status \in Settlings \cup {"reference", "match", "mismatch"}
        /\ rows[e].status = "match" => SameBlock(e, old.height)
        /\ rows[e].status = "mismatch" => chain[e] = chain[0] /\ ~SameBlock(e, old.height)
        /\ rows[e].status \in {"match", "mismatch"} => rows[0].status = "reference"
  <1>5. ASSUME NEW e \in Nodes
        PROVE  Of(e)
    <2>1. PICK row \in Rows : row = old.rows[e]
      BY DEF ComparisonReports
    <2>2. PICK first \in Rows : first = old.rows[0]
      BY ReferenceIsNode DEF ComparisonReports
    <2>3. rows[e] = IF row.status # "compared" THEN row
                    ELSE IF first.status # "compared" THEN [row EXCEPT !.status = "error"]
                    ELSE IF e = 0 THEN [row EXCEPT !.status = "reference"]
                    ELSE IF row.hash = first.hash THEN [row EXCEPT !.status = "match"]
                    ELSE [row EXCEPT !.status = "mismatch"]
      BY <1>2, <2>1, <2>2, ReferenceIsNode DEF Verdict
    <2>4. first.status = "compared" => rows[0].status = "reference"
      BY <1>2, <2>2, ReferenceIsNode DEF Verdict, ComparisonReports, Rows
    <2>5. CASE row.status # "compared"
      BY <1>4, <2>1, <2>3, <2>5 DEF Settlings
    <2>6. CASE row.status = "compared" /\ first.status # "compared"
      BY <2>3, <2>6 DEF Settlings, Rows
    <2>7. CASE row.status = "compared" /\ first.status = "compared" /\ e = 0
      BY <2>3, <2>7 DEF Rows
    <2>8. CASE row.status = "compared" /\ first.status = "compared" /\ e # 0
      <3>1. /\ chain[e] = chain[0] /\ row.hash = {appHash[e][old.height]}
            /\ first.hash = {appHash[0][old.height]}
        BY <1>4, <2>1, <2>2, <2>8, ReferenceIsNode DEF Settlings
      <3>2. CASE row.hash = first.hash
        <4>1. SameBlock(e, old.height)
          BY <3>1, <3>2 DEF SameBlock
        <4> QED BY <2>3, <2>4, <2>8, <3>2, <4>1 DEF Rows
      <3>3. CASE row.hash # first.hash
        <4>1. ~SameBlock(e, old.height)
          BY <3>1, <3>3 DEF SameBlock
        <4> QED BY <2>3, <2>4, <2>8, <3>1, <3>3, <4>1 DEF Rows
      <3> QED BY <3>2, <3>3
    <2> QED BY <2>5, <2>6, <2>7, <2>8
  <1>6. PICK others : others = {rows[e].status : e \in Nodes \ {0}}
    OBVIOUS
  <1>7. PICK status : status = IF "mismatch" \in others THEN "mismatch"
                               ELSE IF others = {"match"} THEN "matching" ELSE "incomplete"
    OBVIOUS
  <1>8. comparison' = [comparison EXCEPT !.pc = "publish", !.report.rows = rows, !.report.status = status]
    BY <1>1, <1>2, <1>6, <1>7 DEF Compare
  <1>9. rows \in [Nodes -> Rows]
    BY <1>2, <1>5 DEF Verdict
  <1>10. PICK report : report = [old EXCEPT !.rows = rows, !.status = status]
    OBVIOUS
  <1>11. /\ report \in ComparisonReports /\ report.status = status /\ report.rows = rows
         /\ report.height = old.height
    BY <1>7, <1>9, <1>10 DEF ComparisonReports
  <1>12. comparison' = [comparison EXCEPT !.pc = "publish", !.report = report]
    BY <1>1, <1>8, <1>10 DEF ComparisonInv, ComparisonShape, ComparisonReports
  <1>13. comparison'.pc = "publish" /\ comparison'.todo = comparison.todo /\ comparison'.report = report
    BY <1>12 DEF ComparisonInv, ComparisonShape
  <1>14. status = "matching" => \A e \in Nodes : SameBlock(e, old.height)
    <2> SUFFICES ASSUME status = "matching", NEW e \in Nodes PROVE SameBlock(e, old.height)
      OBVIOUS
    <2>1. e # 0 => rows[e].status = "match"
      BY <1>6, <1>7
    <2> QED BY <1>5, <2>1 DEF SameBlock
  <1>15. status = "mismatch" => \E e \in Nodes : chain[e] = chain[0] /\ ~SameBlock(e, old.height)
    BY <1>5, <1>6, <1>7
  <1>16. Sound(report)
    BY <1>5, <1>11, <1>14, <1>15 DEF Sound
  <1>17. ComparisonShape'
    BY <1>3, <1>11, <1>12 DEF ComparisonInv, ComparisonShape
  <1>18. Sound(comparison.report)'
    BY <1>3, <1>13, <1>16 DEF Sound, SameBlock
  <1>19. published' = NoReport \/ Sound(published)'
    BY <1>3 DEF ComparisonInv, Sound, SameBlock
  <1> QED BY <1>13, <1>17, <1>18, <1>19 DEF ComparisonInv

(* What is published has been settled.                                     *)
LEMMA PublishKeeps ==
  ASSUME ComparisonInv, PublishComparison, UNCHANGED nodeVars
  PROVE  ComparisonInv'
  <1>1. UNCHANGED <<chain, appHash, head>> /\ published' = comparison.report
    BY DEF PublishComparison, chainVars, nodeVars
  <1>2. comparison' = NotRunning /\ comparison'.pc = "idle"
    BY DEF PublishComparison, NotRunning
  <1>3. Sound(published)'
    BY <1>1 DEF ComparisonInv, Sound, SameBlock, PublishComparison
  <1>4. ComparisonShape'
    BY SMTT(30), <1>1, <1>2, NoReportTyped DEF ComparisonInv, ComparisonShape, NotRunning
  <1> QED BY <1>2, <1>3, <1>4 DEF ComparisonInv

(* Nodes that change leave a comparison alone.                             *)
LEMMA NodesKeep ==
  ASSUME ComparisonInv, NodesNext \/ UNCHANGED nodeVars, UNCHANGED comparisonVars
  PROVE  ComparisonInv'
  <1>1. head' \in [Nodes -> 1..MaxHead]
    BY EndpointsAssumption DEF ComparisonInv, ComparisonShape, NodesNext, Changes, Grows, nodeVars
  <1>2. UNCHANGED <<chain, appHash, comparison, published>>
    BY DEF comparisonVars
  <1> QED BY <1>1, <1>2 DEF ComparisonInv, ComparisonShape, Asking, Comparing, Sound, SameBlock

-----------------------------------------------------------------------------
(* The poller begins with nothing published.                               *)
LEMMA InitialComparison == NodesInit /\ ComparisonInit => ComparisonInv
  <1> SUFFICES ASSUME NodesInit, ComparisonInit PROVE ComparisonInv
    OBVIOUS
  <1>1. head \in [Nodes -> 1..MaxHead]
    BY EndpointsAssumption DEF NodesInit
  <1>2. comparison.pc = "idle" /\ published = NoReport
    BY DEF ComparisonInit, NotRunning
  <1>3. ComparisonShape
    BY <1>1, NoReportTyped DEF ComparisonInit, ComparisonShape, NotRunning
  <1> QED BY <1>2, <1>3 DEF ComparisonInv

(* The steps of the poller while the nodes grow and fail.                  *)
WhileNodesChange ==
  \/ ComparisonNext /\ UNCHANGED nodeVars
  \/ NodesNext /\ UNCHANGED comparisonVars

(* Every step keeps the invariant.                                         *)
LEMMA ComparisonInvInductive ==
  ComparisonInv /\ [WhileNodesChange]_<<nodeVars, comparisonVars>> => ComparisonInv'
  <1> SUFFICES ASSUME ComparisonInv, [WhileNodesChange]_<<nodeVars, comparisonVars>>
               PROVE  ComparisonInv'
    OBVIOUS
  <1>1. CASE ComparisonNext /\ UNCHANGED nodeVars
    BY <1>1, StartKeeps, StatusKeeps, ReferenceKeeps, BlockKeeps, CompareKeeps, PublishKeeps
       DEF ComparisonNext
  <1>2. CASE (NodesNext \/ UNCHANGED nodeVars) /\ UNCHANGED comparisonVars
    BY <1>2, NodesKeep
  <1> QED BY <1>1, <1>2 DEF WhileNodesChange

(* refreshRPCComparison: a published verdict is about one height of one    *)
(* chain, whichever nodes grow, fail and come back, for every number of    *)
(* nodes, while they are asked: "matching" means that all have the same    *)
(* block there, "mismatch" that one of the chain has another.              *)
THEOREM PublishedComparisonSound ==
  NodesInit /\ ComparisonInit /\ [][WhileNodesChange]_<<nodeVars, comparisonVars>> => []ComparisonSound
  <1>1. ComparisonInv => ComparisonSound
    BY DEF ComparisonInv, Sound, Settlings, ComparisonSound
  <1> QED BY <1>1, InitialComparison, ComparisonInvInductive, PTL

-----------------------------------------------------------------------------
(* The inductive invariant *)

Waiting(ph) == {c \in Conns : ph[c] \in {"reserved", "upgraded"}}
Served == {"registered", "open", "ended"}
Listed(ph, cl) == {c \in Conns : ph[c] \in Served /\ cl[c] \in {"no", "signalled"}}

HubShape ==
  /\ maxClients \in Nat /\ pending \in Nat
  /\ phase \in [Conns -> Phases] /\ closed \in [Conns -> Closes]
  /\ clients \in SUBSET Conns /\ closing \in BOOLEAN
  /\ closer \in [pc : {"running", "stopping", "closing", "done"},
                 left : SUBSET Conns, at : Conns \cup {Nil}]

(* The counters of serveWS are exact.                                      *)
Counted ==
  /\ Cardinality(clients) + pending <= maxClients
  /\ pending = Cardinality(Waiting(phase))
  /\ clients = Listed(phase, closed)

(* Nobody is closed before registration, and what closeClients has yet to  *)
(* close, a superset of the clients once it has begun, is registered.      *)
Ordered ==
  /\ \A c \in Conns : phase[c] \notin Served => closed[c] = "no"
  /\ \A c \in closer.left : phase[c] \in Served
  /\ closing <=> closer.pc \in {"closing", "done"}
  /\ closing => clients \subseteq closer.left
  /\ closer.pc = "done" => closer.left = {}

Disarmed == resyncClosing => resyncPending = Nil

HubInv == HubShape /\ Counted /\ Ordered /\ Disarmed

-----------------------------------------------------------------------------
(* Counting *)

(* Finitely many connections wait.                                         *)
LEMMA WaitingFinite == \A ph : IsFiniteSet(Waiting(ph)) /\ Cardinality(Waiting(ph)) \in Nat
  <1>1. \A ph : Waiting(ph) \subseteq Conns
    BY DEF Waiting
  <1> QED BY <1>1, HubAssumption, FS_Subset, FS_CardinalityType

(* There are finitely many clients.                                        *)
LEMMA ClientsFinite ==
  ASSUME HubShape
  PROVE  IsFiniteSet(clients) /\ Cardinality(clients) \in Nat
  BY HubAssumption, FS_Subset, FS_CardinalityType DEF HubShape

(* A connection that begins to wait raises the count by one.               *)
LEMMA WaitsMore ==
  ASSUME NEW c, c \notin Waiting(phase), Waiting(phase') = Waiting(phase) \cup {c}
  PROVE  Cardinality(Waiting(phase')) = Cardinality(Waiting(phase)) + 1
  BY WaitingFinite, FS_AddElement

(* One that ceases to wait lowers it by one.                               *)
LEMMA WaitsLess ==
  ASSUME NEW c \in Waiting(phase), Waiting(phase') = Waiting(phase) \ {c}
  PROVE  Cardinality(Waiting(phase')) = Cardinality(Waiting(phase)) - 1
  BY WaitingFinite, FS_RemoveElement

-----------------------------------------------------------------------------
(* One lemma per action that changes the registry *)

(* A reservation is made below the limit only.                             *)
LEMMA ReserveKeeps ==
  ASSUME HubInv, NEW c \in Conns, Reserve(c)
  PROVE  HubInv'
  <1>1. HubShape'
    BY DEF HubInv, HubShape, Reserve, Phases
  <1>2. Waiting(phase') = Waiting(phase) \cup {c} /\ c \notin Waiting(phase)
    BY DEF HubInv, HubShape, Reserve, Waiting
  <1>3. pending' = Cardinality(Waiting(phase'))
    BY <1>2, WaitsMore DEF HubInv, Counted, Reserve
  <1>4. Listed(phase', closed') = Listed(phase, closed)
    BY DEF HubInv, HubShape, Reserve, Listed, Served
  <1>5. Cardinality(clients') + pending' <= maxClients'
    BY ClientsFinite DEF HubInv, HubShape, Reserve
  <1>6. Counted'
    BY <1>3, <1>4, <1>5 DEF HubInv, Counted, Reserve, Waiting, Listed
  <1>7. Ordered'
    BY DEF HubInv, HubShape, Ordered, Reserve, Served
  <1> QED BY <1>1, <1>6, <1>7 DEF HubInv, Disarmed, Reserve, resyncs

(* A failed upgrade gives its reservation back.                            *)
LEMMA UpgradeFailsKeeps ==
  ASSUME HubInv, NEW c \in Conns, UpgradeFails(c)
  PROVE  HubInv'
  <1>1. Waiting(phase') = Waiting(phase) \ {c} /\ c \in Waiting(phase)
    BY DEF HubInv, HubShape, UpgradeFails, Waiting
  <1>2. pending' = Cardinality(Waiting(phase'))
    BY <1>1, WaitsLess DEF HubInv, Counted, UpgradeFails
  <1>3. HubShape'
    BY <1>2, WaitingFinite DEF HubInv, HubShape, UpgradeFails, Phases
  <1>4. Listed(phase', closed') = Listed(phase, closed)
    BY DEF HubInv, HubShape, UpgradeFails, Listed, Served
  <1>5. Cardinality(clients') + pending' <= maxClients'
    BY ClientsFinite DEF HubInv, HubShape, Counted, UpgradeFails
  <1>6. Counted'
    BY <1>2, <1>4, <1>5 DEF HubInv, Counted, UpgradeFails, Waiting, Listed
  <1>7. Ordered'
    BY DEF HubInv, HubShape, Ordered, UpgradeFails, Served
  <1> QED BY <1>3, <1>6, <1>7 DEF HubInv, Disarmed, UpgradeFails, resyncs

(* The capacity of a reservation passes to the client.                     *)
LEMMA RegisterKeeps ==
  ASSUME HubInv, NEW c \in Conns, Register(c)
  PROVE  HubInv'
  <1>1. Waiting(phase') = Waiting(phase) \ {c} /\ c \in Waiting(phase)
    BY DEF HubInv, HubShape, Register, Waiting
  <1>2. pending' = Cardinality(Waiting(phase'))
    BY <1>1, WaitsLess DEF HubInv, Counted, Register
  <1>3. HubShape'
    BY <1>2, WaitingFinite DEF HubInv, HubShape, Register, Phases
  <1>4. Disarmed'
    BY DEF HubInv, Disarmed, Register, resyncs
  <1>5. CASE closing
    <2>1. Listed(phase', closed') = Listed(phase, closed)
      BY <1>5 DEF HubInv, HubShape, Register, Listed, Served
    <2>2. Cardinality(clients') + pending' <= maxClients'
      BY <1>5, ClientsFinite DEF HubInv, HubShape, Counted, Register
    <2>3. Counted'
      BY <1>2, <1>5, <2>1, <2>2 DEF HubInv, Counted, Register, Waiting, Listed
    <2>4. Ordered'
      BY <1>5 DEF HubInv, HubShape, Ordered, Register, Served
    <2> QED BY <1>3, <1>4, <2>3, <2>4 DEF HubInv
  <1>6. CASE ~closing
    <2>1. closed[c] = "no" /\ c \notin clients
      BY DEF HubInv, HubShape, Counted, Ordered, Register, Listed, Served
    <2>2. Listed(phase', closed') = Listed(phase, closed) \cup {c}
      BY <1>6, <2>1 DEF HubInv, HubShape, Register, Listed, Served
    <2>3. Cardinality(clients') = Cardinality(clients) + 1
      BY <1>6, <2>1, ClientsFinite, FS_AddElement DEF HubInv, Register
    <2>4. Cardinality(clients') + pending' <= maxClients'
      BY <2>3, ClientsFinite DEF HubInv, HubShape, Counted, Register
    <2>5. Counted'
      BY <1>2, <1>6, <2>2, <2>4 DEF HubInv, Counted, Register, Waiting, Listed
    <2>6. Ordered'
      BY <1>6 DEF HubInv, HubShape, Ordered, Register, Served
    <2> QED BY <1>3, <1>4, <2>5, <2>6 DEF HubInv
  <1> QED BY <1>5, <1>6

(* The first section of close gives the capacity of a client back.         *)
LEMMA UnlistKeeps ==
  ASSUME HubInv, NEW c \in Conns, Unlist(c)
  PROVE  HubInv'
  <1>1. HubShape'
    BY DEF HubInv, HubShape, Unlist, Closes, registry
  <1>2. Listed(phase', closed') = Listed(phase, closed) \ {c}
    BY DEF HubInv, HubShape, Unlist, Listed, Served
  <1>3. Cardinality(clients') <= Cardinality(clients) /\ Cardinality(clients') \in Nat
    BY ClientsFinite, FS_Subset, FS_CardinalityType DEF HubInv, Unlist
  <1>4. Cardinality(clients') + pending' <= maxClients'
    BY <1>3, ClientsFinite DEF HubInv, HubShape, Counted, Unlist
  <1>5. Counted'
    BY <1>2, <1>4 DEF HubInv, Counted, Unlist, Waiting, Listed
  <1>6. Ordered'
    BY DEF HubInv, HubShape, Counted, Ordered, Unlist
  <1> QED BY <1>1, <1>5, <1>6 DEF HubInv, Disarmed, Unlist, resyncs

-----------------------------------------------------------------------------
(* The others move a connection among phases that count the same.          *)

(* Steps that move nobody in or out of the sets keep the counts.           *)
LEMMA SameCounts ==
  ASSUME HubInv, HubShape', Waiting(phase') = Waiting(phase),
         Listed(phase', closed') = Listed(phase, closed),
         clients' = clients, pending' = pending, maxClients' = maxClients
  PROVE  Counted'
  BY DEF HubInv, Counted, Waiting, Listed

(* The other steps of a handler and its pumps move nobody.                 *)
LEMMA PhaseStepsKeep ==
  ASSUME HubInv, NEW c \in Conns, Upgraded(c) \/ Baseline(c) \/ PumpsEnd(c) \/ Gone(c)
  PROVE  HubInv'
  <1>1. CASE Upgraded(c)
    <2>1. HubShape'
      BY <1>1 DEF HubInv, HubShape, Upgraded, Phases, registry
    <2>2. Waiting(phase') = Waiting(phase) /\ Listed(phase', closed') = Listed(phase, closed)
      BY <1>1 DEF HubInv, HubShape, Upgraded, Waiting, Listed, Served
    <2>3. Ordered'
      BY <1>1 DEF HubInv, HubShape, Ordered, Upgraded, Served, registry
    <2> QED BY <1>1, <2>1, <2>2, <2>3, SameCounts DEF HubInv, HubShape, Disarmed, Upgraded, registry, resyncs
  <1>2. CASE Baseline(c)
    <2>1. HubShape'
      BY <1>2 DEF HubInv, HubShape, Baseline, Phases, Closes, registry
    <2>2. Waiting(phase') = Waiting(phase) /\ Listed(phase', closed') = Listed(phase, closed)
      BY <1>2 DEF HubInv, HubShape, Baseline, Waiting, Listed, Served
    <2>3. Ordered'
      BY <1>2 DEF HubInv, HubShape, Ordered, Baseline, Served, registry
    <2> QED BY <1>2, <2>1, <2>2, <2>3, SameCounts DEF HubInv, HubShape, Disarmed, Baseline, registry, resyncs
  <1>3. CASE PumpsEnd(c)
    <2>1. HubShape'
      BY <1>3 DEF HubInv, HubShape, PumpsEnd, Phases, registry
    <2>2. Waiting(phase') = Waiting(phase) /\ Listed(phase', closed') = Listed(phase, closed)
      BY <1>3 DEF HubInv, HubShape, PumpsEnd, Waiting, Listed, Served
    <2>3. Ordered'
      BY <1>3 DEF HubInv, HubShape, Ordered, PumpsEnd, Served, registry
    <2> QED BY <1>3, <2>1, <2>2, <2>3, SameCounts DEF HubInv, HubShape, Disarmed, PumpsEnd, registry, resyncs
  <1>4. CASE Gone(c)
    <2>1. HubShape'
      BY <1>4 DEF HubInv, HubShape, Gone, Phases, Closes, registry
    <2>2. Waiting(phase') = Waiting(phase) /\ Listed(phase', closed') = Listed(phase, closed)
      BY <1>4 DEF HubInv, HubShape, Gone, Waiting, Listed, Served
    <2>3. Ordered'
      BY <1>4 DEF HubInv, HubShape, Ordered, Gone, Served, registry
    <2> QED BY <1>4, <2>1, <2>2, <2>3, SameCounts DEF HubInv, HubShape, Disarmed, Gone, registry, resyncs
  <1> QED BY <1>1, <1>2, <1>3, <1>4

(* Closing begins: a pump stops, or closeClients comes to the client.      *)
LEMMA SignalKeeps ==
  ASSUME HubInv, NEW c \in Conns, Leave(c) \/ Forget(c) \/ CloseClient(c)
  PROVE  HubInv'
  <1>1. CASE Leave(c)
    <2>1. HubShape'
      BY <1>1 DEF HubInv, HubShape, Leave, Closes, registry
    <2>2. Waiting(phase') = Waiting(phase) /\ Listed(phase', closed') = Listed(phase, closed)
      BY <1>1 DEF HubInv, HubShape, Leave, Waiting, Listed, Served
    <2>3. Ordered'
      BY <1>1 DEF HubInv, HubShape, Ordered, Leave, Served, registry
    <2> QED BY <1>1, <2>1, <2>2, <2>3, SameCounts DEF HubInv, HubShape, Disarmed, Leave, registry
  <1>2. CASE Forget(c)
    <2>1. HubShape'
      BY <1>2 DEF HubInv, HubShape, Forget, Closes, registry
    <2>2. Waiting(phase') = Waiting(phase) /\ Listed(phase', closed') = Listed(phase, closed)
      BY <1>2 DEF HubInv, HubShape, Forget, Waiting, Listed, Served
    <2>3. Ordered'
      <3>1. phase[c] \in Served
        BY <1>2 DEF HubInv, Ordered, Forget
      <3> QED BY <1>2, <3>1 DEF HubInv, HubShape, Ordered, Forget, registry
    <2>4. Disarmed'
      BY <1>2 DEF HubInv, Disarmed, Forget
    <2> QED BY <1>2, <2>1, <2>2, <2>3, <2>4, SameCounts DEF HubInv, HubShape, Forget, registry
  <1>3. CASE CloseClient(c)
    <2>1. HubShape'
      BY <1>3 DEF HubInv, HubShape, CloseClient, Closes, registry
    <2>2. phase[c] \in Served
      BY <1>3 DEF HubInv, Ordered, CloseClient
    <2>3. Waiting(phase') = Waiting(phase) /\ Listed(phase', closed') = Listed(phase, closed)
      BY <1>3 DEF HubInv, HubShape, CloseClient, Waiting, Listed
    <2>4. closer'.pc = closer.pc /\ closer'.left = closer.left
      BY <1>3 DEF HubInv, HubShape, CloseClient
    <2>5. Ordered'
      BY <1>3, <2>2, <2>4 DEF HubInv, HubShape, Ordered, CloseClient, registry
    <2> QED BY <1>3, <2>1, <2>3, <2>5, SameCounts DEF HubInv, HubShape, Disarmed, CloseClient, registry, resyncs
  <1> QED BY <1>1, <1>2, <1>3

(* The steps of closeClients.                                              *)
LEMMA CloserKeeps ==
  ASSUME HubInv, StopResync \/ StartClosing \/ ClientClosed \/ AllClosed
  PROVE  HubInv'
  <1>1. CASE StopResync
    <2>1. closer'.pc = "stopping" /\ closer'.left = closer.left /\ closer'.at = closer.at
      BY <1>1 DEF HubInv, HubShape, StopResync
    <2>2. HubShape'
      BY <1>1 DEF HubInv, HubShape, StopResync, registry
    <2>3. ~closing
      BY <1>1 DEF HubInv, HubShape, Ordered, StopResync, Running
    <2>4. Ordered'
      BY <1>1, <2>1, <2>3 DEF HubInv, HubShape, Ordered, StopResync, registry
    <2>5. Counted' /\ Disarmed'
      BY <1>1 DEF HubInv, Counted, Waiting, Listed, Disarmed, StopResync, registry
    <2> QED BY <2>2, <2>4, <2>5 DEF HubInv
  <1>2. CASE StartClosing
    <2>1. closer'.pc = "closing" /\ closer'.left = clients /\ closer'.at = closer.at
      BY <1>2 DEF HubInv, HubShape, StartClosing
    <2>2. HubShape'
      BY <1>2 DEF HubInv, HubShape, StartClosing
    <2>3. \A c \in clients : phase[c] \in Served
      BY DEF HubInv, Counted, Listed
    <2>4. Ordered'
      BY <1>2, <2>1, <2>3 DEF HubInv, Ordered, StartClosing
    <2>5. Counted' /\ Disarmed'
      BY <1>2 DEF HubInv, Counted, Waiting, Listed, Disarmed, StartClosing, resyncs
    <2> QED BY <2>2, <2>4, <2>5 DEF HubInv
  <1>3. CASE ClientClosed
    <2>1. closer'.pc = closer.pc /\ closer'.left = closer.left \ {closer.at} /\ closer'.at = Nil
      BY <1>3 DEF HubInv, HubShape, ClientClosed
    <2>2. HubShape'
      BY <1>3 DEF HubInv, HubShape, ClientClosed, registry
    <2>3. closer.at \notin clients
      BY <1>3 DEF HubInv, Counted, Listed, ClientClosed
    <2>4. Ordered'
      BY <1>3, <2>1, <2>3 DEF HubInv, Ordered, ClientClosed, registry
    <2>5. Counted' /\ Disarmed'
      BY <1>3 DEF HubInv, Counted, Waiting, Listed, Disarmed, ClientClosed, registry, resyncs
    <2> QED BY <2>2, <2>4, <2>5 DEF HubInv
  <1>4. CASE AllClosed
    <2>1. closer'.pc = "done" /\ closer'.left = closer.left /\ closer'.at = closer.at
      BY <1>4 DEF HubInv, HubShape, AllClosed
    <2>2. HubShape'
      BY <1>4 DEF HubInv, HubShape, AllClosed, registry
    <2>3. Ordered'
      BY <1>4, <2>1 DEF HubInv, Ordered, AllClosed, registry
    <2>4. Counted' /\ Disarmed'
      BY <1>4 DEF HubInv, Counted, Waiting, Listed, Disarmed, AllClosed, registry, resyncs
    <2> QED BY <2>2, <2>3, <2>4 DEF HubInv
  <1> QED BY <1>1, <1>2, <1>3, <1>4

(* A resync touches neither the registry nor the shutdown.                 *)
LEMMA ResyncKeeps ==
  ASSUME HubInv,
         \/ \E c \in Conns : RequestResync(c)
         \/ TakeResync
         \/ \E set \in SUBSET Conns : FlushResync(set)
  PROVE  HubInv'
  <1>1. UNCHANGED <<maxClients, phase, closed, registry, closer>>
    BY DEF RequestResync, TakeResync, FlushResync, registry
  <1>2. Disarmed'
    BY DEF HubInv, Disarmed, RequestResync, TakeResync, FlushResync
  <1> QED BY <1>1, <1>2 DEF HubInv, HubShape, Counted, Ordered, Waiting, Listed, registry

-----------------------------------------------------------------------------
(* The hub begins empty.                                                   *)
LEMMA InitialHub == HubInit => HubInv
  <1> SUFFICES ASSUME HubInit PROVE HubInv
    OBVIOUS
  <1>1. HubShape
    BY HubAssumption DEF HubInit, HubShape, Running, Phases, Closes
  <1>2. Waiting(phase) = {} /\ Listed(phase, closed) = {}
    BY DEF HubInit, Waiting, Listed, Served
  <1>3. Counted
    BY <1>1, <1>2, FS_EmptySet DEF HubInit, HubShape, Counted
  <1>4. Ordered /\ Disarmed
    BY DEF HubInit, Ordered, Disarmed, Running, Served
  <1> QED BY <1>1, <1>3, <1>4 DEF HubInv

(* Every step of handlers, pumps, timer and shutdown keeps it.             *)
LEMMA HubInvInductive == HubInv /\ [HubNext]_hubVars => HubInv'
  <1> SUFFICES ASSUME HubInv, [HubNext]_hubVars PROVE HubInv'
    OBVIOUS
  <1>1. ASSUME NEW c \in Conns, Reserve(c) \/ Leave(c) \/ Gone(c) \/ RequestResync(c) \/ Proceed(c)
        PROVE  HubInv'
    BY <1>1, ReserveKeeps, SignalKeeps, PhaseStepsKeep, ResyncKeeps, UpgradeFailsKeeps,
       RegisterKeeps, UnlistKeeps DEF Proceed
  <1>2. CASE Resync
    BY <1>2, ResyncKeeps DEF Resync
  <1>3. CASE StopResync \/ Close
    BY <1>3, CloserKeeps, SignalKeeps DEF Close
  <1>4. CASE UNCHANGED hubVars
    BY <1>4 DEF hubVars, HubInv, HubShape, Counted, Ordered, Disarmed, Waiting, Listed
  <1> QED BY <1>1, <1>2, <1>3, <1>4 DEF HubNext

(* The invariant holds in every behaviour.                                 *)
LEMMA AlwaysHubInv == HubSpec => []HubInv
  BY InitialHub, HubInvInductive, PTL DEF HubSpec

-----------------------------------------------------------------------------
(* serveWS and close keep the count of reservations and clients exact, in  *)
(* every interleaving with failed upgrades, refused baselines, pumps that  *)
(* stop and the shutdown: capacity is neither exceeded nor lost.           *)
THEOREM HubAdmissionExact == HubSpec => []AdmissionExact
  <1>1. HubInv => AdmissionExact
    BY DEF HubInv, Counted, AdmissionExact, Waiting, Listed, Served
  <1> QED BY <1>1, AlwaysHubInv, PTL

(* Once closeClients has returned nobody is listed, and whoever was still  *)
(* being admitted when it began has been closed; and no write goes to the  *)
(* resync map that it has set to nil.                                      *)
THEOREM HubShutdownComplete == HubSpec => []ShutdownComplete
  <1>1. HubInv => ShutdownComplete
    <2> SUFFICES ASSUME HubInv PROVE ShutdownComplete
      OBVIOUS
    <2>1. closer.pc = "done" => clients = {}
      BY DEF HubInv, Ordered
    <2>2. ASSUME clients = {}, NEW c \in Conns, phase[c] \in {"registered", "open"}
          PROVE  closed[c] # "no"
      BY <2>2 DEF HubInv, Counted, Listed, Served
    <2> QED BY <2>1, <2>2 DEF HubInv, Disarmed, ShutdownComplete
  <1> QED BY <1>1, AlwaysHubInv, PTL

-----------------------------------------------------------------------------
(* The investigation page: the inductive invariant *)

Reports == [selection : Selections \cup {Complete}, epoch : Nat, version : Nat]
Requests ==
  [selection : Selections, epoch : Nat, reply : Reports \cup {None}, tag : Reports \cup {None},
   current : BOOLEAN, aborted : BOOLEAN, force : BOOLEAN]
Pollers ==
  [paused : BOOLEAN, hidden : BOOLEAN, disposed : BOOLEAN, timer : BOOLEAN, again : BOOLEAN,
   active : RequestIds \cup {NoRequest}, requests : UNION {[D -> Requests] : D \in SUBSET RequestIds}]
Pages ==
  [mounted : BOOLEAN, selection : Selections, session : Nat, report : Reports \cup {None},
   cached : Reports \cup {None}, hidden : BOOLEAN, pausedAt : BOOLEAN, pausing : BOOLEAN,
   captureAborted : BOOLEAN, resuming : BOOLEAN]

PageShape == p \in Pollers /\ page \in Pages /\ server \in [epoch : Nat, version : Nat]

(* The request in flight, if there is one, is the active one.              *)
Alone(w) == DOMAIN w.requests = IF w.active = NoRequest THEN {} ELSE {w.active}

Busy(w) == Runs(w) => w.timer \/ w.active # NoRequest

(* Before the page is mounted the poller rests; afterwards it follows the  *)
(* page and is neither disposed of nor idle.                               *)
Attends(w, q) ==
  /\ ~(q.pausedAt /\ q.pausing)
  /\ q.mounted => ~w.disposed /\ w.paused = (q.pausedAt \/ q.pausing) /\ w.hidden = q.hidden /\ Busy(w)
  /\ ~q.mounted /\ ~w.disposed =>
       ~w.paused /\ ~w.hidden /\ ~q.hidden /\ ~q.pausedAt /\ ~q.pausing /\ ~w.timer /\ w.active = NoRequest

(* What is offered by its ETag is still what is cached; an answer that     *)
(* will count is for the selection of the page, unless it resumes it.      *)
Offered(q, r) ==
  /\ r.reply # None => r.reply.selection = r.selection
  /\ r.tag # None => r.tag = q.cached /\ r.tag.selection = r.selection /\ r.tag.epoch = r.epoch

Expected(w, q, r) == ~w.hidden /\ (q.pausedAt \/ (~q.pausing /\ r.selection = q.selection))

Consistent(w, q) ==
  \A i \in DOMAIN w.requests :
    Offered(q, w.requests[i]) /\ (Wanted(w, i) => Expected(w, q, w.requests[i]))

PageInv == PageShape /\ Alone(p) /\ Attends(p, page) /\ Consistent(p, page)

-----------------------------------------------------------------------------
(* What the functions of the poller do *)

(* The requests of a poller.                                               *)
LEMMA RequestsTyped ==
  ASSUME NEW w \in Pollers
  PROVE  /\ DOMAIN w.requests \subseteq RequestIds
         /\ \A i \in DOMAIN w.requests : w.requests[i] \in Requests
  BY DEF Pollers

(* A function from some identifiers to requests is what a poller holds.    *)
LEMMA HoldsRequests ==
  ASSUME NEW D \in SUBSET RequestIds, NEW f \in [D -> Requests]
  PROVE  f \in UNION {[E -> Requests] : E \in SUBSET RequestIds}
  OBVIOUS

(* schedule sets the timer and nothing else.                               *)
LEMMA ScheduleFacts ==
  ASSUME NEW w \in Pollers
  PROVE  LET r == Schedule(w) IN
         /\ r \in Pollers /\ r.active = w.active /\ r.requests = w.requests
         /\ r.paused = w.paused /\ r.hidden = w.hidden /\ r.disposed = w.disposed
         /\ Busy(r)
  BY DEF Pollers, Schedule, Runs, Busy

(* cancel leaves the requests in flight; none of them counts any more.     *)
LEMMA CancelFacts ==
  ASSUME NEW w \in Pollers
  PROVE  LET r == Cancel(w) IN
         /\ r \in Pollers /\ r.active = w.active /\ DOMAIN r.requests = DOMAIN w.requests
         /\ r.paused = w.paused /\ r.hidden = w.hidden /\ r.disposed = w.disposed
         /\ \A i \in DOMAIN w.requests :
              /\ ~r.requests[i].current
              /\ \A q : Offered(q, w.requests[i]) => Offered(q, r.requests[i])
  <1> DEFINE f == [i \in DOMAIN w.requests |->
                     [w.requests[i] EXCEPT !.current = FALSE, !.aborted = @ \/ i = w.active]]
             r == Cancel(w)
  <1>1. \A i \in DOMAIN w.requests :
          /\ f[i] \in Requests /\ ~f[i].current
          /\ f[i].selection = w.requests[i].selection /\ f[i].epoch = w.requests[i].epoch
          /\ f[i].reply = w.requests[i].reply /\ f[i].tag = w.requests[i].tag
    <2> SUFFICES ASSUME NEW i \in DOMAIN w.requests
                 PROVE  /\ f[i] \in Requests /\ ~f[i].current
                        /\ f[i].selection = w.requests[i].selection /\ f[i].epoch = w.requests[i].epoch
                        /\ f[i].reply = w.requests[i].reply /\ f[i].tag = w.requests[i].tag
      OBVIOUS
    <2>1. w.requests[i] \in Requests
      BY RequestsTyped
    <2>2. PICK a \in BOOLEAN : a = (w.requests[i].aborted \/ i = w.active)
      OBVIOUS
    <2>3. PICK g \in Requests : g = w.requests[i]
      BY <2>1
    <2>4. f[i] = [g EXCEPT !.current = FALSE, !.aborted = a]
      BY <2>2, <2>3, Zenon
    <2> HIDE DEF f
    <2>5. /\ f[i] \in Requests /\ ~f[i].current
          /\ f[i].selection = g.selection /\ f[i].epoch = g.epoch
          /\ f[i].reply = g.reply /\ f[i].tag = g.tag
      BY ONLY <2>4 DEF Requests
    <2> QED BY <2>3, <2>5
  <1>2. f \in UNION {[E -> Requests] : E \in SUBSET RequestIds}
    BY <1>1, RequestsTyped, HoldsRequests
  <1>3. r = [w EXCEPT !.timer = FALSE, !.requests = f]
    BY DEF Cancel
  <1>4. DOMAIN f = DOMAIN w.requests
    OBVIOUS
  <1> HIDE DEF f, r
  <1>5. r \in Pollers /\ r.active = w.active /\ r.requests = f
    BY <1>2, <1>3 DEF Pollers
  <1>6. r.paused = w.paused /\ r.hidden = w.hidden /\ r.disposed = w.disposed
    BY <1>3 DEF Pollers
  <1>7. ASSUME NEW i \in DOMAIN w.requests, NEW q, Offered(q, w.requests[i])
        PROVE  Offered(q, f[i])
    BY <1>1, <1>7 DEF Offered
  <1>8. \A i \in DOMAIN w.requests :
          ~r.requests[i].current /\ \A q : Offered(q, w.requests[i]) => Offered(q, r.requests[i])
    BY <1>1, <1>5, <1>7
  <1>9. DOMAIN r.requests = DOMAIN w.requests
    BY <1>4, <1>5
  <1> QED BY ONLY <1>5, <1>6, <1>8, <1>9 DEF r

(* A request as read makes it offers what is cached for its selection.     *)
LEMMA AskedFacts ==
  ASSUME NEW q \in Pages, NEW force \in BOOLEAN
  PROVE  Asked(q, force) \in Requests /\ Offered(q, Asked(q, force))
         /\ Asked(q, force).selection = q.selection
  BY DEF Asked, Requests, Pages, Offered

(* refresh makes one request, if it may.                                   *)
LEMMA RefreshFacts ==
  ASSUME NEW w \in Pollers, NEW q \in Pages, NEW force \in BOOLEAN, Alone(w), MayRefresh(w, force)
  PROVE  LET r == Refresh(w, q, force) IN
         /\ r \in Pollers /\ r.active # NoRequest /\ DOMAIN r.requests = {r.active}
         /\ r.requests[r.active] = Asked(q, force)
         /\ r.paused = w.paused /\ r.hidden = w.hidden /\ r.disposed = w.disposed
  <1> DEFINE r == Refresh(w, q, force)
             f == [j \in {FreeRequest(w)} |-> Asked(q, force)]
  <1>1. w.active = NoRequest /\ DOMAIN w.requests = {}
    BY DEF MayRefresh, Alone
  <1>2. 1 \in RequestIds /\ NoRequest \notin RequestIds
    BY PageAssumption DEF RequestIds, NoRequest
  <1>3. FreeRequest(w) \in RequestIds
    BY <1>1, <1>2 DEF FreeRequest
  <1>4. Asked(q, force) \in Requests
    BY AskedFacts
  <1>5. f \in UNION {[E -> Requests] : E \in SUBSET RequestIds}
    BY <1>3, <1>4, HoldsRequests
  <1>6. r = [w EXCEPT !.again = FALSE, !.timer = FALSE, !.active = FreeRequest(w), !.requests = f]
    <2>1. DOMAIN Obsolete(w) = {}
      BY <1>1 DEF Obsolete
    <2>2. [j \in DOMAIN Obsolete(w) \cup {FreeRequest(w)} |->
             IF j = FreeRequest(w) THEN Asked(q, force) ELSE Obsolete(w)[j]] = f
      BY <2>1
    <2> QED BY <2>2 DEF Refresh
  <1>7. DOMAIN f = {FreeRequest(w)} /\ f[FreeRequest(w)] = Asked(q, force)
    OBVIOUS
  <1> HIDE DEF f, r
  <1>8. r \in Pollers /\ r.active = FreeRequest(w) /\ r.requests = f
    BY <1>3, <1>5, <1>6 DEF Pollers
  <1>9. r.paused = w.paused /\ r.hidden = w.hidden /\ r.disposed = w.disposed
    BY <1>6 DEF Pollers
  <1> QED BY <1>2, <1>3, <1>7, <1>8, <1>9 DEF r

-----------------------------------------------------------------------------
(* What the functions of the poller keep *)

Offers(w, q) == \A i \in DOMAIN w.requests : Offered(q, w.requests[i])

(* A poller after a step that changes neither of its switches.             *)
SameSwitches(r, w) == r.paused = w.paused /\ r.hidden = w.hidden /\ r.disposed = w.disposed

(* Whoever cancels expects no answer.                                      *)
LEMMA CancelKeeps ==
  ASSUME NEW w \in Pollers, Alone(w), NEW q, Offers(w, q)
  PROVE  LET r == Cancel(w) IN
         r \in Pollers /\ Alone(r) /\ Consistent(r, q) /\ SameSwitches(r, w) /\ r.active = w.active
  <1>1. PICK r : r = Cancel(w)
    OBVIOUS
  <1>2. /\ r \in Pollers /\ r.active = w.active /\ DOMAIN r.requests = DOMAIN w.requests
        /\ r.paused = w.paused /\ r.hidden = w.hidden /\ r.disposed = w.disposed
        /\ \A i \in DOMAIN w.requests :
              ~r.requests[i].current /\ (Offered(q, w.requests[i]) => Offered(q, r.requests[i]))
    BY <1>1, CancelFacts
  <1>3. Alone(r) /\ SameSwitches(r, w)
    BY <1>2 DEF Alone, SameSwitches
  <1>4. Consistent(r, q)
    BY <1>2 DEF Offers, Consistent, Wanted
  <1> QED BY <1>1, <1>2, <1>3, <1>4

(* A refresh asks for what the page shows, if the poller may.              *)
LEMMA RefreshKeeps ==
  ASSUME NEW w \in Pollers, NEW q \in Pages, NEW force \in BOOLEAN, Alone(w), Consistent(w, q),
         force => q.pausedAt, ~w.paused => ~q.pausing
  PROVE  LET r == Refresh(w, q, force) IN
         /\ r \in Pollers /\ Alone(r) /\ Consistent(r, q) /\ SameSwitches(r, w)
         /\ Runs(w) => r.active # NoRequest
  <1>1. PICK r : r = Refresh(w, q, force)
    OBVIOUS
  <1>2. CASE ~MayRefresh(w, force)
    <2>1. r = w
      BY <1>1, <1>2 DEF Refresh
    <2>2. Runs(w) => w.active # NoRequest
      BY <1>2 DEF MayRefresh, Runs
    <2> QED BY <1>1, <2>1, <2>2 DEF SameSwitches
  <1>3. CASE MayRefresh(w, force)
    <2>1. /\ r \in Pollers /\ r.active # NoRequest /\ DOMAIN r.requests = {r.active}
          /\ r.requests[r.active] = Asked(q, force)
          /\ r.paused = w.paused /\ r.hidden = w.hidden /\ r.disposed = w.disposed
      BY <1>1, <1>3, RefreshFacts
    <2>2. Offered(q, Asked(q, force)) /\ Asked(q, force).selection = q.selection
      BY AskedFacts
    <2>3. ~w.hidden /\ (q.pausedAt \/ ~q.pausing)
      BY <1>3 DEF MayRefresh
    <2>4. Consistent(r, q)
      BY <2>1, <2>2, <2>3 DEF Consistent, Expected
    <2> QED BY <1>1, <2>1, <2>4 DEF Alone, SameSwitches
  <1> QED BY <1>2, <1>3

(* A poller that runs makes a request or will make one when the cancelled  *)
(* one has settled.                                                        *)
LEMMA InvalidateKeeps ==
  ASSUME NEW w \in Pollers, NEW q \in Pages, Alone(w), Offers(w, q),
         IF Runs(w) THEN ~q.pausing ELSE Consistent(w, q)
  PROVE  LET r == Invalidate(w, q) IN
         /\ r \in Pollers /\ Alone(r) /\ Consistent(r, q) /\ SameSwitches(r, w)
         /\ Runs(w) => r.active # NoRequest
  <1>1. PICK r : r = Invalidate(w, q)
    OBVIOUS
  <1>2. CASE ~Runs(w)
    BY <1>1, <1>2 DEF Invalidate, SameSwitches
  <1>3. CASE Runs(w) /\ w.active # NoRequest
    <2>1. PICK x : x = [w EXCEPT !.again = TRUE]
      OBVIOUS
    <2>2. x \in Pollers /\ x.requests = w.requests /\ x.active = w.active /\ SameSwitches(x, w)
      BY <2>1 DEF Pollers, SameSwitches
    <2>3. r = Cancel(x)
      BY <1>1, <1>3, <2>1 DEF Invalidate
    <2>4. Alone(x) /\ Offers(x, q)
      BY <2>2 DEF Alone, Offers
    <2>5. r \in Pollers /\ Alone(r) /\ Consistent(r, q) /\ SameSwitches(r, x) /\ r.active = x.active
      BY <2>2, <2>3, <2>4, CancelKeeps
    <2> QED BY <1>1, <1>3, <2>2, <2>5 DEF SameSwitches
  <1>4. CASE Runs(w) /\ w.active = NoRequest
    <2>1. Consistent(w, q)
      BY <1>4 DEF Alone, Consistent
    <2>2. r = Refresh(w, q, FALSE)
      BY <1>1, <1>4 DEF Invalidate
    <2> QED BY <1>1, <1>4, <2>1, <2>2, RefreshKeeps
  <1> QED BY <1>2, <1>3, <1>4

(* Pausing cancels, and resuming sets the timer of a poller that runs.     *)
LEMMA PausedKeeps ==
  ASSUME NEW w \in Pollers, NEW value \in BOOLEAN, Alone(w)
  PROVE  LET r == SetPaused(w, value) IN
         /\ r \in Pollers /\ Alone(r) /\ r.hidden = w.hidden /\ r.disposed = w.disposed
         /\ r.active = w.active
         /\ ~w.disposed => r.paused = value
         /\ Busy(w) => Busy(r)
         /\ \A q : Consistent(w, q) => Consistent(r, q)
         /\ \A q : Offers(w, q) /\ value /\ ~w.paused /\ ~w.disposed => Consistent(r, q)
  <1>1. PICK r : r = SetPaused(w, value)
    OBVIOUS
  <1>2. CASE w.paused = value \/ w.disposed
    BY <1>1, <1>2 DEF SetPaused
  <1>3. CASE ~(w.paused = value \/ w.disposed)
    <2>1. PICK x : x = [w EXCEPT !.paused = value]
      OBVIOUS
    <2>2. /\ x \in Pollers /\ x.requests = w.requests /\ x.active = w.active /\ x.paused = value
          /\ x.hidden = w.hidden /\ x.disposed = w.disposed /\ x.timer = w.timer
      BY <2>1 DEF Pollers
    <2>3. Alone(x) /\ \A q : Offers(w, q) => Offers(x, q)
      BY <2>2 DEF Alone, Offers
    <2>4. \A q : Consistent(w, q) => Consistent(x, q) /\ Offers(w, q)
      BY <2>2 DEF Consistent, Offers, Wanted, Expected
    <2>5. CASE value
      <3>1. r = Cancel(x)
        BY <1>1, <1>3, <2>1, <2>5 DEF SetPaused
      <3>2. /\ r \in Pollers /\ r.active = x.active /\ DOMAIN r.requests = DOMAIN x.requests
            /\ r.paused = x.paused /\ r.hidden = x.hidden /\ r.disposed = x.disposed
        BY <2>2, <3>1, CancelFacts
      <3>3. \A q : Offers(w, q) => Consistent(r, q)
        BY <2>2, <2>3, <3>1, CancelKeeps
      <3>4. Alone(r) /\ ~Runs(r)
        BY <2>2, <2>3, <2>5, <3>2 DEF Alone, Runs
      <3> QED BY <1>1, <1>3, <2>2, <2>4, <2>5, <3>2, <3>3, <3>4 DEF Busy
    <2>6. CASE ~value /\ x.hidden
      <3>1. r = x
        BY <1>1, <1>3, <2>1, <2>6 DEF SetPaused
      <3> QED BY <1>1, <1>3, <2>2, <2>3, <2>4, <2>6, <3>1 DEF Busy, Runs
    <2>7. CASE ~value /\ ~x.hidden
      <3>1. r = Schedule(x)
        BY <1>1, <1>3, <2>1, <2>7 DEF SetPaused
      <3>2. /\ r \in Pollers /\ r.active = x.active /\ r.requests = x.requests
            /\ r.paused = x.paused /\ r.hidden = x.hidden /\ r.disposed = x.disposed /\ Busy(r)
        BY <2>2, <3>1, ScheduleFacts
      <3>3. Alone(r) /\ \A q : Consistent(x, q) => Consistent(r, q)
        BY <2>3, <3>2 DEF Alone, Consistent, Wanted, Expected
      <3> QED BY <1>1, <1>3, <2>2, <2>4, <2>7, <3>2, <3>3
    <2> QED BY <2>5, <2>6, <2>7
  <1> QED BY <1>2, <1>3

(* Hiding cancels, and showing invalidates.                                *)
LEMMA HiddenKeeps ==
  ASSUME NEW w \in Pollers, NEW value \in BOOLEAN, NEW q \in Pages, Alone(w), Consistent(w, q),
         ~w.disposed, w.hidden # value, ~w.paused => ~q.pausing
  PROVE  LET r == SetHidden(w, value, q) IN
         /\ r \in Pollers /\ Alone(r) /\ Consistent(r, q) /\ Busy(r)
         /\ r.hidden = value /\ r.paused = w.paused /\ ~r.disposed
  <1>1. PICK r : r = SetHidden(w, value, q)
    OBVIOUS
  <1>2. PICK x : x = [w EXCEPT !.hidden = value]
    OBVIOUS
  <1>3. /\ x \in Pollers /\ x.requests = w.requests /\ x.active = w.active /\ x.hidden = value
        /\ x.paused = w.paused /\ x.disposed = w.disposed
    BY <1>2 DEF Pollers
  <1>4. Alone(x) /\ Offers(x, q)
    BY <1>3 DEF Alone, Offers, Consistent
  <1>5. CASE value
    <2>1. r = Cancel(x)
      BY <1>1, <1>2, <1>5 DEF SetHidden
    <2>2. r \in Pollers /\ Alone(r) /\ Consistent(r, q) /\ SameSwitches(r, x)
      BY <1>3, <1>4, <2>1, CancelKeeps
    <2> QED BY <1>1, <1>3, <1>5, <2>2 DEF SameSwitches, Busy, Runs
  <1>6. CASE ~value
    <2>1. \A i \in DOMAIN w.requests : ~Wanted(w, i)
      BY <1>6, w.hidden \in BOOLEAN DEF Consistent, Expected, Pollers
    <2>2. Consistent(x, q)
      BY <1>3, <1>4, <2>1 DEF Consistent, Offers, Wanted
    <2>3. CASE x.paused
      <3>1. r = x
        BY <1>1, <1>2, <1>6, <2>3 DEF SetHidden
      <3> QED BY <1>1, <1>3, <1>4, <2>2, <2>3, <3>1 DEF Busy, Runs
    <2>4. CASE ~x.paused
      <3>1. r = Invalidate(x, q)
        BY <1>1, <1>2, <1>6, <2>4 DEF SetHidden
      <3>2. Runs(x) /\ ~q.pausing
        BY <1>3, <1>6, <2>4 DEF Runs
      <3>3. /\ r \in Pollers /\ Alone(r) /\ Consistent(r, q) /\ SameSwitches(r, x)
            /\ r.active # NoRequest
        BY <1>3, <1>4, <3>1, <3>2, InvalidateKeeps
      <3> QED BY <1>1, <1>3, <3>3 DEF SameSwitches, Busy
    <2> QED BY <2>3, <2>4
  <1> QED BY <1>5, <1>6

(* When the request has settled there is another one, or the timer is set. *)
LEMMA SettledKeeps ==
  ASSUME NEW w \in Pollers, NEW i \in DOMAIN w.requests, NEW q \in Pages, Alone(w),
         Runs(w) => ~q.pausing
  PROVE  LET r == Settled(w, i, q) IN
         r \in Pollers /\ Alone(r) /\ Consistent(r, q) /\ Busy(r) /\ SameSwitches(r, w)
  <1>1. PICK r : r = Settled(w, i, q)
    OBVIOUS
  <1> DEFINE f == [j \in DOMAIN w.requests \ {i} |-> w.requests[j]]
  <1>2. w.active = i /\ DOMAIN w.requests = {i}
    BY DEF Alone
  <1>3. DOMAIN f = {} /\ f \in UNION {[E -> Requests] : E \in SUBSET RequestIds}
    <2>1. DOMAIN f = {}
      BY <1>2
    <2>2. f \in [{} -> Requests]
      BY <1>2
    <2> QED BY <2>1, <2>2, HoldsRequests
  <1>4. PICK x : x = [w EXCEPT !.active = IF @ = i THEN NoRequest ELSE @, !.requests = f]
    OBVIOUS
  <1>5. Settled(w, i, q) = IF x.again /\ Runs(x) THEN Refresh([x EXCEPT !.again = FALSE], q, FALSE)
                           ELSE Schedule(x)
    BY <1>4 DEF Settled
  <1> HIDE DEF f
  <1>6. /\ x \in Pollers /\ x.active = NoRequest /\ x.requests = f
        /\ x.paused = w.paused /\ x.hidden = w.hidden /\ x.disposed = w.disposed
    BY <1>2, <1>3, <1>4 DEF Pollers
  <1>7. CASE x.again /\ Runs(x)
    <2>1. PICK y : y = [x EXCEPT !.again = FALSE]
      OBVIOUS
    <2>2. /\ y \in Pollers /\ y.active = NoRequest /\ y.requests = f
          /\ y.paused = w.paused /\ y.hidden = w.hidden /\ y.disposed = w.disposed
      BY <1>6, <2>1 DEF Pollers
    <2>3. Alone(y) /\ Consistent(y, q)
      BY <1>3, <2>2 DEF Alone, Consistent
    <2>4. r = Refresh(y, q, FALSE) /\ ~q.pausing
      BY <1>1, <1>5, <1>6, <1>7, <2>1 DEF Runs
    <2>5. /\ r \in Pollers /\ Alone(r) /\ Consistent(r, q) /\ SameSwitches(r, y)
          /\ Runs(y) => r.active # NoRequest
      BY <2>2, <2>3, <2>4, RefreshKeeps
    <2> QED BY <1>1, <2>2, <2>5 DEF SameSwitches, Busy, Runs
  <1>8. CASE ~(x.again /\ Runs(x))
    <2>1. r = Schedule(x)
      BY <1>1, <1>5, <1>8
    <2>2. /\ r \in Pollers /\ r.active = x.active /\ r.requests = x.requests
          /\ r.paused = x.paused /\ r.hidden = x.hidden /\ r.disposed = x.disposed /\ Busy(r)
      BY <1>6, <2>1, ScheduleFacts
    <2>3. Alone(r) /\ Consistent(r, q)
      BY <1>3, <1>6, <2>2 DEF Alone, Consistent
    <2> QED BY <1>1, <1>6, <2>2, <2>3 DEF SameSwitches
  <1> QED BY <1>7, <1>8

-----------------------------------------------------------------------------
(* One lemma per kind of step of the page *)

(* What the requests are compared with is all that matters of the page.    *)
LEMMA SamePage ==
  ASSUME NEW w, NEW q, NEW r, Consistent(w, q), r.cached = q.cached,
         r.pausedAt = q.pausedAt, r.pausing = q.pausing, r.selection = q.selection
  PROVE  Consistent(w, r)
  BY DEF Consistent, Offered, Expected

(* A consistent poller offers what is cached.                              *)
LEMMA ConsistentOffers == \A w, q : Consistent(w, q) => Offers(w, q)
  BY DEF Consistent, Offers

(* A page that is shown follows: its poller is paused as it is.            *)
LEMMA PausedWithPage ==
  ASSUME PageInv
  PROVE  ~p.paused => (page.mounted => ~page.pausing /\ ~page.pausedAt)
  BY DEF PageInv, Attends

(* Mounting asks for the first report, unless the page is paused or hidden.*)
LEMMA MountKeeps ==
  ASSUME PageInv, NEW paused \in BOOLEAN, NEW hidden \in BOOLEAN, Mount(paused, hidden)
  PROVE  PageInv'
  <1>1. /\ page' \in Pages /\ page'.mounted /\ page'.cached = page.cached
        /\ page'.selection = page.selection /\ page'.pausedAt = paused
        /\ page'.pausing = page.pausing /\ page'.hidden = hidden
    BY DEF PageInv, PageShape, Pages, Mount
  <1>2. ~p.disposed /\ ~page.pausing /\ p.active = NoRequest
    BY DEF PageInv, Attends, Mount
  <1>3. PICK w : w = [p EXCEPT !.paused = paused, !.hidden = hidden]
    OBVIOUS
  <1>4. /\ w \in Pollers /\ w.requests = p.requests /\ w.active = NoRequest
        /\ w.paused = paused /\ w.hidden = hidden /\ ~w.disposed
    BY <1>2, <1>3 DEF PageInv, PageShape, Pollers
  <1>5. DOMAIN w.requests = {}
    BY <1>2, <1>4 DEF PageInv, Alone
  <1>6. Alone(w) /\ Consistent(w, page')
    BY <1>4, <1>5 DEF PageInv, Alone, Consistent
  <1>7. p' = Refresh(w, page', FALSE)
    BY <1>3 DEF Mount
  <1>8. /\ p' \in Pollers /\ Alone(p') /\ Consistent(p', page') /\ SameSwitches(p', w)
        /\ Runs(w) => p'.active # NoRequest
    BY <1>1, <1>2, <1>4, <1>6, <1>7, RefreshKeeps
  <1>9. Busy(p')
    BY <1>8 DEF Runs, Busy, SameSwitches
  <1>10. Attends(p', page')
    BY <1>1, <1>2, <1>4, <1>8, <1>9 DEF Attends, SameSwitches
  <1> QED BY <1>1, <1>8, <1>10 DEF PageInv, PageShape, Mount

(* Another selection, or another session: a poller that runs begins anew.  *)
LEMMA InvalidatesKeeps ==
  ASSUME PageInv, page.mounted, page' \in Pages, page'.mounted, page'.cached = page.cached,
         page'.pausedAt = page.pausedAt, page'.pausing = page.pausing, page'.hidden = page.hidden,
         p' = IF page.pausedAt \/ page.pausing THEN p ELSE Invalidate(p, page'),
         UNCHANGED server
  PROVE  PageInv'
  <1>1. Offers(p, page')
    BY DEF PageInv, Consistent, Offers, Offered
  <1>2. CASE page.pausedAt \/ page.pausing
    <2>1. Consistent(p, page')
      BY <1>1, <1>2 DEF PageInv, Consistent, Offers, Expected, Attends
    <2> QED BY <1>2, <2>1 DEF PageInv, PageShape, Attends
  <1>3. CASE ~(page.pausedAt \/ page.pausing)
    <2>1. ~page'.pausing /\ ~p.paused /\ ~p.disposed
      BY <1>3 DEF PageInv, Attends
    <2>2. ~Runs(p) => p.hidden
      BY <2>1 DEF Runs
    <2>3. ~Runs(p) => Consistent(p, page')
      BY <1>1, <2>2 DEF PageInv, Consistent, Offers, Expected
    <2>4. p' = Invalidate(p, page')
      BY <1>3
    <2>5. /\ p' \in Pollers /\ Alone(p') /\ Consistent(p', page') /\ SameSwitches(p', p)
          /\ Runs(p) => p'.active # NoRequest
      BY <1>1, <2>1, <2>3, <2>4, InvalidateKeeps DEF PageInv, PageShape
    <2>6. Attends(p', page')
      BY <1>3, <2>1, <2>5 DEF PageInv, Attends, SameSwitches, Busy, Runs
    <2> QED BY <2>5, <2>6 DEF PageInv, PageShape
  <1> QED BY <1>2, <1>3

(* chooseRound.                                                            *)
LEMMA SelectKeeps ==
  ASSUME PageInv, NEW selection \in Selections, Select(selection)
  PROVE  PageInv'
  <1>1. page' \in Pages /\ page'.mounted /\ page'.cached = page.cached /\ page'.hidden = page.hidden
        /\ page'.pausedAt = page.pausedAt /\ page'.pausing = page.pausing
    BY DEF PageInv, PageShape, Pages, Select
  <1> QED BY <1>1, InvalidatesKeeps DEF Select

(* A new session.                                                          *)
LEMMA NewSessionKeeps ==
  ASSUME PageInv, NewSession
  PROVE  PageInv'
  <1>1. page' \in Pages /\ page'.mounted /\ page'.cached = page.cached /\ page'.hidden = page.hidden
        /\ page'.pausedAt = page.pausedAt /\ page'.pausing = page.pausing
    BY DEF PageInv, PageShape, Pages, NewSession
  <1> QED BY <1>1, InvalidatesKeeps DEF NewSession

(* Hiding and showing the tab.                                             *)
LEMMA VisibilityKeeps ==
  ASSUME PageInv, Visibility
  PROVE  PageInv'
  <1>1. page' \in Pages /\ page'.mounted /\ page'.cached = page.cached /\ page'.hidden = ~page.hidden
        /\ page'.pausedAt = page.pausedAt /\ page'.pausing = page.pausing /\ page'.selection = page.selection
    BY DEF PageInv, PageShape, Pages, Visibility
  <1>2. page.mounted /\ page.hidden \in BOOLEAN
    BY DEF PageInv, PageShape, Pages, Visibility
  <1>a. PICK shown \in BOOLEAN : shown = ~page.hidden
    BY <1>2
  <1>b. ~p.disposed /\ p.hidden # shown /\ (~p.paused => ~page.pausing)
    BY <1>2, <1>a DEF PageInv, Attends
  <1>c. p' = SetHidden(p, shown, page)
    BY <1>a DEF Visibility
  <1>3. /\ p' \in Pollers /\ Alone(p') /\ Consistent(p', page) /\ Busy(p')
        /\ p'.hidden = ~page.hidden /\ p'.paused = p.paused /\ ~p'.disposed
    BY <1>a, <1>b, <1>c, HiddenKeeps DEF PageInv, PageShape
  <1>4. Consistent(p', page')
    BY <1>1, <1>3, SamePage
  <1>5. Attends(p', page')
    BY <1>1, <1>3 DEF PageInv, Attends, Visibility
  <1> QED BY <1>1, <1>3, <1>4, <1>5 DEF PageInv, PageShape, Visibility

(* The timer is for a page that is shown.                                  *)
LEMMA TimerKeeps ==
  ASSUME PageInv, TimerFires
  PROVE  PageInv'
  <1>1. PICK x : x = [p EXCEPT !.timer = FALSE]
    OBVIOUS
  <1>2. x \in Pollers /\ x.active = p.active /\ x.requests = p.requests /\ SameSwitches(x, p)
    BY <1>1 DEF PageInv, PageShape, Pollers, SameSwitches
  <1>3. Alone(x) /\ Consistent(x, page)
    BY <1>2 DEF PageInv, Alone, Consistent, Wanted, Expected, SameSwitches
  <1>4. p' = Refresh(x, page, FALSE)
    BY <1>1 DEF TimerFires
  <1>5. CASE page.mounted
    <2>1. ~x.paused => ~page.pausing
      BY <1>2, <1>5 DEF PageInv, Attends, SameSwitches
    <2>2. /\ p' \in Pollers /\ Alone(p') /\ Consistent(p', page) /\ SameSwitches(p', x)
          /\ Runs(x) => p'.active # NoRequest
      BY <1>2, <1>3, <1>4, <2>1, RefreshKeeps DEF PageInv, PageShape
    <2>3. Attends(p', page)
      BY <1>2, <1>5, <2>2 DEF PageInv, Attends, SameSwitches, Busy, Runs
    <2> QED BY <2>2, <2>3 DEF PageInv, PageShape, TimerFires
  <1>6. CASE ~page.mounted
    <2>1. p.disposed
      BY <1>6 DEF PageInv, Attends, TimerFires
    <2>2. p' = x
      BY <1>2, <1>4, <2>1 DEF Refresh, MayRefresh, SameSwitches
    <2>3. Attends(p', page)
      BY <1>2, <1>6, <2>1, <2>2 DEF PageInv, Attends, SameSwitches
    <2> QED BY <1>2, <1>3, <2>2, <2>3 DEF PageInv, PageShape, TimerFires
  <1> QED BY <1>5, <1>6


(* A request that changes without coming to count keeps the invariant.     *)
LEMMA RequestChanges ==
  ASSUME PageInv, NEW i \in DOMAIN p.requests, NEW r \in Requests,
         p' = [p EXCEPT !.requests = [p.requests EXCEPT ![i] = r]],
         Offered(page, p.requests[i]) => Offered(page, r), r.selection = p.requests[i].selection,
         r.current /\ ~r.aborted => p.requests[i].current /\ ~p.requests[i].aborted,
         UNCHANGED <<page, server>>
  PROVE  PageInv'
  <1>1. PICK f : f = [p.requests EXCEPT ![i] = r]
    OBVIOUS
  <1>2. f \in [DOMAIN p.requests -> Requests]
    <2>1. p.requests \in [DOMAIN p.requests -> Requests]
      BY DEF PageInv, PageShape, Pollers
    <2> QED BY <1>1, <2>1
  <1>3. f \in UNION {[E -> Requests] : E \in SUBSET RequestIds}
    BY <1>2, RequestsTyped, HoldsRequests DEF PageInv, PageShape
  <1>4. /\ p' \in Pollers /\ p'.requests = f /\ p'.active = p.active /\ p'.timer = p.timer
        /\ p'.paused = p.paused /\ p'.hidden = p.hidden /\ p'.disposed = p.disposed
    BY <1>1, <1>3 DEF PageInv, PageShape, Pollers
  <1>5. DOMAIN f = DOMAIN p.requests /\ f[i] = r
        /\ \A j \in DOMAIN p.requests \ {i} : f[j] = p.requests[j]
    BY <1>1
  <1>6. Alone(p') /\ Attends(p', page')
    BY <1>4, <1>5 DEF PageInv, Alone, Attends, Busy, Runs
  <1>7. ASSUME NEW j \in DOMAIN p'.requests
        PROVE  Offered(page', p'.requests[j]) /\ (Wanted(p', j) => Expected(p', page', p'.requests[j]))
    <2>1. Offered(page, p.requests[j]) /\ (Wanted(p, j) => Expected(p, page, p.requests[j]))
      BY <1>4, <1>5 DEF PageInv, Consistent
    <2>2. CASE j = i
      BY <1>4, <1>5, <2>1, <2>2 DEF Wanted, Expected
    <2>3. CASE j # i
      BY <1>4, <1>5, <2>1, <2>3 DEF Wanted, Expected
    <2> QED BY <2>2, <2>3
  <1> QED BY <1>4, <1>6, <1>7 DEF PageInv, PageShape, Consistent

(* A timeout takes a request from those that count.                        *)
LEMMA TimeOutKeeps ==
  ASSUME PageInv, TimeOut
  PROVE  PageInv'
  <1>1. CASE page.pausing /\ page' = [page EXCEPT !.captureAborted = TRUE] /\ UNCHANGED p
    <2>1. page' \in Pages /\ page'.mounted = page.mounted /\ page'.cached = page.cached
          /\ page'.selection = page.selection /\ page'.hidden = page.hidden
          /\ page'.pausedAt = page.pausedAt /\ page'.pausing = page.pausing
      BY <1>1 DEF PageInv, PageShape, Pages
    <2>2. Consistent(p, page')
      BY <2>1, SamePage DEF PageInv
    <2> QED BY <1>1, <2>1, <2>2 DEF PageInv, PageShape, Attends, TimeOut
  <1>2. ASSUME NEW i \in DOMAIN p.requests, p' = [p EXCEPT !.requests[i].aborted = TRUE],
               UNCHANGED page
        PROVE  PageInv'
    <2>1. PICK old \in Requests : old = p.requests[i]
      BY RequestsTyped DEF PageInv, PageShape
    <2>2. PICK r : r = [old EXCEPT !.aborted = TRUE]
      OBVIOUS
    <2>3. r \in Requests /\ r.aborted /\ r.selection = old.selection /\ r.epoch = old.epoch
          /\ r.reply = old.reply /\ r.tag = old.tag
      BY <2>2 DEF Requests
    <2>4. p' = [p EXCEPT !.requests = [p.requests EXCEPT ![i] = r]]
      BY <1>2, <2>1, <2>2 DEF PageInv, PageShape, Pollers
    <2>5. Offered(page, p.requests[i]) => Offered(page, r)
      BY <2>1, <2>3 DEF Offered
    <2> QED BY <1>2, <2>1, <2>3, <2>4, <2>5, RequestChanges DEF TimeOut
  <1> QED BY <1>1, <1>2 DEF TimeOut

(* The server answers what it was asked.                                   *)
LEMMA ReplyKeeps ==
  ASSUME PageInv, NEW i, Reply(i)
  PROVE  PageInv'
  <1>1. i \in DOMAIN p.requests
    BY DEF Reply
  <1>2. PICK old \in Requests : old = p.requests[i]
    BY <1>1, RequestsTyped DEF PageInv, PageShape
  <1>3. PICK answer \in Reports : answer = Written(old.selection) /\ answer.selection = old.selection
    <2>1. old.selection \in Selections /\ server.epoch \in Nat /\ server.version \in Nat
      BY DEF PageInv, PageShape, Requests
    <2>2. Written(old.selection) \in Reports /\ Written(old.selection).selection = old.selection
      BY <2>1 DEF Written, Reports
    <2> QED BY <2>2
  <1>4. PICK r : r = [old EXCEPT !.reply = answer]
    OBVIOUS
  <1>5. r \in Requests /\ r.aborted = old.aborted /\ r.current = old.current /\ r.epoch = old.epoch
        /\ r.selection = old.selection /\ r.reply = answer /\ r.tag = old.tag
    BY <1>4 DEF Requests
  <1>6. p' = [p EXCEPT !.requests = [p.requests EXCEPT ![i] = r]]
    BY <1>2, <1>3, <1>4 DEF PageInv, PageShape, Pollers, Reply
  <1>7. Offered(page, p.requests[i]) => Offered(page, r)
    BY <1>2, <1>3, <1>5 DEF Offered
  <1> QED BY <1>1, <1>2, <1>5, <1>6, <1>7, RequestChanges DEF Reply

(* Pausing begins: nobody waits for the request in flight any more.        *)
LEMMA PauseKeeps ==
  ASSUME PageInv, Pause
  PROVE  PageInv'
  <1>1. page' \in Pages /\ page'.mounted /\ page'.cached = page.cached /\ page'.hidden = page.hidden
        /\ ~page'.pausedAt /\ page'.pausing /\ page.mounted /\ ~page.pausedAt /\ ~page.pausing
    BY DEF PageInv, PageShape, Pages, Pause
  <1>2. ~p.paused /\ ~p.disposed /\ p.hidden = page.hidden
    BY <1>1 DEF PageInv, Attends
  <1>3. Offers(p, page')
    BY <1>1 DEF PageInv, Consistent, Offers, Offered
  <1>4. PICK yes \in BOOLEAN : yes = TRUE
    OBVIOUS
  <1>5. /\ p' \in Pollers /\ Alone(p') /\ p'.hidden = p.hidden /\ p'.disposed = p.disposed
        /\ p'.paused = yes /\ Consistent(p', page')
    BY <1>2, <1>3, <1>4, PausedKeeps DEF PageInv, PageShape, Pause
  <1>6. Attends(p', page')
    BY <1>1, <1>2, <1>4, <1>5 DEF Attends, Busy, Runs
  <1> QED BY <1>1, <1>5, <1>6 DEF PageInv, PageShape, Pause

(* The capture ends it, one way or the other.                              *)
LEMMA CaptureKeeps ==
  ASSUME PageInv, NEW ok \in BOOLEAN, CaptureEnds(ok)
  PROVE  PageInv'
  <1>1. PICK got : got = IF ok THEN Written(Complete) ELSE page.report
    OBVIOUS
  <1>2. got \in Reports \cup {None}
    BY <1>1 DEF PageInv, PageShape, Pages, Written, Reports
  <1>3. page' \in Pages /\ page'.mounted = page.mounted /\ page'.cached = page.cached
        /\ page'.hidden = page.hidden /\ page'.pausedAt = ok /\ ~page'.pausing /\ page.pausing
    BY <1>1, <1>2 DEF PageInv, PageShape, Pages, CaptureEnds
  <1>4. /\ p' \in Pollers /\ Alone(p') /\ p'.hidden = p.hidden /\ p'.disposed = p.disposed
        /\ p'.active = p.active
        /\ ~p.disposed => p'.paused = ok
        /\ Busy(p) => Busy(p')
        /\ Consistent(p', page)
    BY PausedKeeps DEF PageInv, PageShape, CaptureEnds
  <1>5. ~page.pausedAt
    BY <1>3 DEF PageInv, Attends
  <1>6. \A i \in DOMAIN p'.requests : ~Wanted(p', i)
    BY <1>3, <1>4, <1>5 DEF Consistent, Expected
  <1>7. Consistent(p', page')
    BY <1>3, <1>4, <1>6 DEF Consistent, Offered
  <1>8. Attends(p', page')
    <2>1. ~page.mounted => p.disposed
      BY <1>3 DEF PageInv, Attends
    <2>2. page.mounted => ~p.disposed /\ p.hidden = page.hidden /\ Busy(p)
      BY DEF PageInv, Attends
    <2> QED BY <1>3, <1>4, <2>1, <2>2 DEF Attends
  <1> QED BY <1>3, <1>4, <1>7, <1>8 DEF PageInv, PageShape, CaptureEnds

(* A paused page asks once more.                                           *)
LEMMA ResumeKeeps ==
  ASSUME PageInv, Resume
  PROVE  PageInv'
  <1>1. page' \in Pages /\ page'.mounted /\ page'.cached = page.cached /\ page'.hidden = page.hidden
        /\ page'.pausedAt = page.pausedAt /\ page'.pausing = page.pausing
        /\ page'.selection = page.selection /\ page.mounted /\ page.pausedAt /\ ~page.pausing
    <2>1. MayRefresh(p, TRUE) \in BOOLEAN
      BY DEF MayRefresh
    <2> QED BY <2>1 DEF PageInv, PageShape, Pages, Resume
  <1>2. p.paused /\ ~p.disposed /\ p.hidden = page.hidden /\ p.paused \in BOOLEAN
    BY <1>1 DEF PageInv, PageShape, Pollers, Attends
  <1>3. /\ p' \in Pollers /\ Alone(p') /\ Consistent(p', page) /\ SameSwitches(p', p)
    BY <1>1, RefreshKeeps DEF PageInv, PageShape, Resume
  <1>4. Consistent(p', page')
    BY <1>1, <1>3, SamePage
  <1>5. Attends(p', page')
    BY <1>1, <1>2, <1>3 DEF PageInv, Attends, SameSwitches, Busy, Runs
  <1> QED BY <1>1, <1>3, <1>4, <1>5 DEF PageInv, PageShape, Resume

(* dispose cancels for good.                                               *)
LEMMA DisposeKeeps ==
  ASSUME NEW w \in Pollers, Alone(w), NEW q, Offers(w, q)
  PROVE  LET r == Dispose(w) IN
         /\ r \in Pollers /\ Alone(r) /\ Consistent(r, q) /\ r.disposed /\ r.active = w.active
         /\ r.paused = w.paused
  <1>1. PICK x : x = [w EXCEPT !.disposed = TRUE]
    OBVIOUS
  <1>2. /\ x \in Pollers /\ x.requests = w.requests /\ x.active = w.active /\ x.disposed
        /\ x.paused = w.paused
    BY <1>1 DEF Pollers
  <1>3. Alone(x) /\ Offers(x, q)
    BY <1>2 DEF Alone, Offers
  <1>4. Dispose(w) = Cancel(x)
    BY <1>1 DEF Dispose
  <1> QED BY <1>2, <1>3, <1>4, CancelKeeps DEF SameSwitches

(* Leaving the page disposes of its poller.                                *)
LEMMA DestroyKeeps ==
  ASSUME PageInv, Destroy
  PROVE  PageInv'
  <1>1. page' \in Pages /\ ~page'.mounted /\ page'.cached = page.cached
        /\ page'.pausedAt = page.pausedAt /\ page'.pausing = page.pausing
        /\ page'.selection = page.selection
    BY DEF PageInv, PageShape, Pages, Destroy, Left
  <1>2. p' \in Pollers /\ Alone(p') /\ Consistent(p', page) /\ p'.disposed
    BY ConsistentOffers, DisposeKeeps DEF PageInv, PageShape, Destroy
  <1>3. Consistent(p', page')
    BY <1>1, <1>2, SamePage
  <1>4. Attends(p', page')
    BY <1>1, <1>2 DEF PageInv, Attends
  <1> QED BY <1>1, <1>2, <1>3, <1>4 DEF PageInv, PageShape, Destroy


(* What read returns has been sent, now or before.                         *)
LEMMA ResultFacts ==
  ASSUME PageInv, NEW i \in DOMAIN p.requests, Result(i) # None
  PROVE  /\ Result(i) \in Reports /\ Result(i).epoch = page.session
         /\ Result(i).selection = p.requests[i].selection
  <1>1. PICK r \in Requests : r = p.requests[i]
    BY RequestsTyped DEF PageInv, PageShape
  <1>2. r.reply # None /\ page.session = r.epoch
    BY <1>1 DEF Result
  <1>3. Offered(page, r)
    BY <1>1 DEF PageInv, Consistent
  <1>4. CASE r.reply = r.tag
    <2>1. Result(i) = page.cached
      BY <1>1, <1>2, <1>4 DEF Result
    <2>2. page.cached = r.tag /\ r.tag.selection = r.selection /\ r.tag.epoch = r.epoch
      BY <1>2, <1>3, <1>4 DEF Offered
    <2>3. page.cached \in Reports
      BY <2>1 DEF PageInv, PageShape, Pages
    <2> QED BY <1>1, <1>2, <2>1, <2>2, <2>3
  <1>5. CASE r.reply # r.tag
    <2>1. Result(i) = r.reply /\ r.reply.epoch = r.epoch
      BY <1>1, <1>2, <1>5 DEF Result
    <2>2. r.reply \in Reports
      BY <1>2 DEF Requests
    <2> QED BY <1>1, <1>2, <1>3, <2>1, <2>2 DEF Offered
  <1> QED BY <1>4, <1>5

(* The page with the report that has come.                                 *)
SeenWith(report, wanted) ==
  LET read == [page EXCEPT !.cached = report] IN IF wanted THEN OnData(read, report) ELSE read

(* Such a page.                                                            *)
LEMMA SeenFacts ==
  ASSUME PageInv, NEW report \in Reports, NEW wanted \in BOOLEAN
  PROVE  LET q == SeenWith(report, wanted) IN
         /\ q \in Pages /\ q.mounted = page.mounted /\ q.hidden = page.hidden
         /\ q.selection = page.selection /\ q.pausing = page.pausing /\ q.cached = report
         /\ q.session = page.session
         /\ q.report = IF wanted THEN report ELSE page.report
         /\ q.pausedAt = IF wanted THEN FALSE ELSE page.pausedAt
  <1>1. CASE wanted
    <2>1. SeenWith(report, wanted) = [page EXCEPT !.cached = report, !.report = report, !.pausedAt = FALSE]
      BY <1>1 DEF SeenWith, OnData, PageInv, PageShape, Pages
    <2> QED BY <1>1, <2>1 DEF PageInv, PageShape, Pages
  <1>2. CASE ~wanted
    <2>1. SeenWith(report, wanted) = [page EXCEPT !.cached = report]
      BY <1>2 DEF SeenWith
    <2> QED BY <1>2, <2>1 DEF PageInv, PageShape, Pages
  <1> QED BY <1>1, <1>2

(* A page that no longer resumes is otherwise the same.                    *)
LEMMA NotResumingFacts ==
  ASSUME PageInv, NEW i \in DOMAIN p.requests, NEW q \in Pages
  PROVE  LET r == NotResuming(q, i) IN
         /\ r \in Pages /\ r.mounted = q.mounted /\ r.hidden = q.hidden /\ r.selection = q.selection
         /\ r.pausing = q.pausing /\ r.cached = q.cached /\ r.pausedAt = q.pausedAt
         /\ r.report = q.report /\ r.session = q.session
  <1>1. PICK resuming \in BOOLEAN : resuming = (q.resuming /\ ~p.requests[i].force)
    OBVIOUS
  <1>2. NotResuming(q, i) = [q EXCEPT !.resuming = resuming]
    BY <1>1 DEF NotResuming
  <1> QED BY <1>2 DEF Pages

(* A request is in flight only while the page is mounted, or for nobody.   *)
LEMMA InFlightFor ==
  ASSUME PageInv, NEW i \in DOMAIN p.requests
  PROVE  /\ p.active = i /\ i # NoRequest
         /\ ~p.disposed => page.mounted
         /\ Runs(p) => ~page.pausing
  BY DEF PageInv, Alone, Attends, Runs

(* An answer is cached, shown if it is wanted, and ends a pause then.      *)
LEMMA AnsweredKeeps ==
  ASSUME PageInv, NEW i, Answered(i)
  PROVE  PageInv'
  <1>1. i \in DOMAIN p.requests /\ Result(i) # None
    BY DEF Answered
  <1>2. PICK report \in Reports : report = Result(i)
    BY <1>1, ResultFacts
  <1>3. PICK wanted \in BOOLEAN : wanted = Wanted(p, i)
    BY DEF Wanted
  <1>4. PICK seen \in Pages : seen = SeenWith(report, wanted)
    BY SeenFacts
  <1>5. PICK after : after = Settled(p, i, seen)
    OBVIOUS
  <1>6. PICK stay \in BOOLEAN : stay = (seen.pausedAt \/ seen.pausing)
    BY DEF Pages
  <1>7. page' = NotResuming(seen, i) /\ p' = SetPaused(after, stay)
    BY <1>2, <1>3, <1>4, <1>5, <1>6 DEF Answered, SeenWith
  <1>8. /\ seen.mounted = page.mounted /\ seen.hidden = page.hidden /\ seen.pausing = page.pausing
        /\ seen.pausedAt => page.pausedAt
    BY <1>4, SeenFacts
  <1>9. /\ p.active = i /\ i # NoRequest
        /\ ~p.disposed => page.mounted
        /\ Runs(p) => ~seen.pausing
    BY <1>1, <1>8, InFlightFor
  <1>10. after \in Pollers /\ Alone(after) /\ Consistent(after, seen) /\ Busy(after) /\ SameSwitches(after, p)
    BY <1>1, <1>5, <1>9, SettledKeeps DEF PageInv, PageShape
  <1>11. /\ p' \in Pollers /\ Alone(p') /\ p'.hidden = after.hidden /\ p'.disposed = after.disposed
         /\ ~after.disposed => p'.paused = stay
         /\ Busy(p') /\ Consistent(p', seen)
    BY <1>7, <1>10, PausedKeeps
  <1>12. page' \in Pages /\ page'.mounted = seen.mounted /\ page'.hidden = seen.hidden
         /\ page'.selection = seen.selection /\ page'.pausing = seen.pausing
         /\ page'.cached = seen.cached /\ page'.pausedAt = seen.pausedAt
    BY <1>1, <1>7, NotResumingFacts
  <1>13. Consistent(p', page')
    BY <1>11, <1>12, SamePage
  <1>14. Attends(p', page')
    <2>1. p'.disposed = p.disposed /\ p'.hidden = p.hidden
      BY <1>10, <1>11 DEF SameSwitches
    <2>2. ~(page'.pausedAt /\ page'.pausing)
      BY <1>8, <1>12 DEF PageInv, Attends
    <2>3. page'.mounted => ~p'.disposed /\ p'.hidden = page'.hidden
      BY <1>8, <1>12, <2>1 DEF PageInv, Attends
    <2>4. ~p'.disposed => page'.mounted /\ p'.paused = (page'.pausedAt \/ page'.pausing)
      BY <1>6, <1>8, <1>9, <1>11, <1>12, <2>1
    <2> QED BY <1>11, <2>2, <2>3, <2>4 DEF Attends
  <1> QED BY <1>11, <1>12, <1>13, <1>14 DEF PageInv, PageShape, Answered

(* A failed request leaves the page as it is, or takes it away.            *)
LEMMA RejectedKeeps ==
  ASSUME PageInv, NEW i, Rejected(i)
  PROVE  PageInv'
  <1>1. i \in DOMAIN p.requests
    BY DEF Rejected
  <1>2. PICK seen : seen = NotResuming(page, i)
    OBVIOUS
  <1>3. /\ seen \in Pages /\ seen.mounted = page.mounted /\ seen.hidden = page.hidden
        /\ seen.selection = page.selection /\ seen.pausing = page.pausing
        /\ seen.cached = page.cached /\ seen.pausedAt = page.pausedAt
    BY <1>1, <1>2, NotResumingFacts DEF PageInv, PageShape
  <1>4. /\ p.active = i /\ i # NoRequest
        /\ ~p.disposed => page.mounted
        /\ Runs(p) => ~seen.pausing
    BY <1>1, <1>3, InFlightFor
  <1>5. CASE p' = Settled(p, i, seen) /\ page' = seen
    <2>1. p' \in Pollers /\ Alone(p') /\ Consistent(p', seen) /\ Busy(p') /\ SameSwitches(p', p)
      BY <1>1, <1>4, <1>3, <1>5, SettledKeeps DEF PageInv, PageShape
    <2>2. Attends(p', page')
      BY <1>3, <1>4, <1>5, <2>1 DEF PageInv, Attends, SameSwitches
    <2> QED BY <1>3, <1>5, <2>1, <2>2 DEF PageInv, PageShape, Rejected
  <1>6. CASE p' = Settled(Dispose(p), i, seen) /\ page' = Left(seen)
    <2>1. PICK w : w = Dispose(p)
      OBVIOUS
    <2>2. w \in Pollers /\ Alone(w) /\ w.disposed /\ w.active = p.active
      BY <2>1, ConsistentOffers, DisposeKeeps DEF PageInv, PageShape
    <2>3. i \in DOMAIN w.requests /\ ~Runs(w)
      BY <1>4, <2>2 DEF Alone, Runs
    <2>4. p' \in Pollers /\ Alone(p') /\ Consistent(p', seen) /\ Busy(p') /\ SameSwitches(p', w)
      BY <1>3, <1>6, <2>1, <2>2, <2>3, SettledKeeps
    <2>5. page' \in Pages /\ ~page'.mounted /\ page'.cached = seen.cached
          /\ page'.selection = seen.selection /\ page'.pausing = seen.pausing
          /\ page'.pausedAt = seen.pausedAt
      BY <1>3, <1>6 DEF Pages, Left
    <2>6. Consistent(p', page')
      BY <2>4, <2>5, SamePage
    <2>7. Attends(p', page')
      BY <1>3, <2>2, <2>4, <2>5 DEF PageInv, Attends, SameSwitches
    <2> QED BY <2>4, <2>5, <2>6, <2>7 DEF PageInv, PageShape, Rejected
  <1> QED BY <1>2, <1>5, <1>6 DEF Rejected

-----------------------------------------------------------------------------
(* The page begins with nothing asked.                                     *)
LEMMA InitialPage == PageInit => PageInv
  <1> SUFFICES ASSUME PageInit PROVE PageInv
    OBVIOUS
  <1>1. PICK f : f = [i \in {} |-> None]
    OBVIOUS
  <1>2. f \in [{} -> Requests] /\ DOMAIN f = {}
    BY <1>1
  <1>3. f \in UNION {[E -> Requests] : E \in SUBSET RequestIds}
    BY <1>2, HoldsRequests
  <1>4. p \in Pollers /\ p.requests = f /\ p.active = NoRequest /\ ~p.paused /\ ~p.hidden /\ ~p.timer
    BY <1>1, <1>3 DEF PageInit, Pollers
  <1>5. page \in Pages /\ ~page.mounted /\ ~page.hidden /\ ~page.pausedAt /\ ~page.pausing
    BY DEF PageInit, Pages
  <1>6. server \in [epoch : Nat, version : Nat]
    BY DEF PageInit
  <1> QED BY <1>2, <1>4, <1>5, <1>6 DEF PageInv, PageShape, Alone, Attends, Consistent

(* Every step of user, timers, promises and server keeps it.               *)
LEMMA PageInvInductive == PageInv /\ [PageNext]_pageVars => PageInv'
  <1> SUFFICES ASSUME PageInv, [PageNext]_pageVars PROVE PageInv'
    OBVIOUS
  <1>1. CASE ServerChanges
    <2>1. server' \in [epoch : Nat, version : Nat]
      BY <1>1 DEF PageInv, PageShape, ServerChanges
    <2> QED BY <1>1, <2>1 DEF PageInv, PageShape, ServerChanges
  <1>2. CASE UNCHANGED pageVars
    BY <1>2 DEF pageVars, PageInv, PageShape
  <1> QED BY <1>1, <1>2, MountKeeps, VisibilityKeeps, TimerKeeps, TimeOutKeeps, PauseKeeps, ResumeKeeps,
             DestroyKeeps, NewSessionKeeps, SelectKeeps, ReplyKeeps, AnsweredKeeps, RejectedKeeps,
             CaptureKeeps DEF PageNext, Settles

(* The invariant holds in every behaviour.                                 *)
LEMMA AlwaysPageInv == PageSpec => []PageInv
  BY InitialPage, PageInvInductive, PTL DEF PageSpec

-----------------------------------------------------------------------------
(* createPoller and its page: however hiding, pausing, cancelling and      *)
(* late answers follow each other, one request at most is in flight,       *)
(* the poller is paused and hidden as the page is, and while it should run *)
(* a request or a timer is pending.                                        *)
THEOREM PagePollingContinues == PageSpec => []PollingContinues
  <1>1. PageInv => PollingContinues
    <2> SUFFICES ASSUME PageInv PROVE PollingContinues
      OBVIOUS
    <2>1. DOMAIN p.requests \in {{}, {p.active}}
      BY DEF PageInv, Alone
    <2>2. Cardinality({}) = 0 /\ Cardinality({p.active}) = 1
      BY FS_EmptySet, FS_Singleton
    <2>3. Cardinality(DOMAIN p.requests) <= 1
      <3>1. CASE DOMAIN p.requests = {}
        BY <2>2, <3>1
      <3>2. CASE DOMAIN p.requests = {p.active}
        BY <2>2, <3>2
      <3> QED BY <2>1, <3>1, <3>2
    <2> QED BY <2>3 DEF PageInv, Attends, Busy, PollingContinues
  <1> QED BY <1>1, AlwaysPageInv, PTL

(* onData, captureForPause and refreshForResume: a report that reaches the *)
(* page is of the epoch the page knows and answers its selection, is a     *)
(* capture, or ends a pause; and a page that stays paused keeps its own.   *)
THEOREM PageReportIsSelected == PageSpec => ReportIsSelected
  <1> DEFINE Fitting == /\ ~(page.pausedAt /\ page'.pausedAt)
                        /\ page'.report.epoch = page'.session
                        /\ \/ page'.report.selection \in {page'.selection, Complete}
                           \/ page.pausedAt /\ ~page'.pausedAt
  <1>1. ASSUME PageInv, PageNext, page'.report # page.report
        PROVE  Fitting
    <2>1. CASE \E i : Answered(i)
      <3>1. PICK i : Answered(i)
        BY <2>1
      <3>2. i \in DOMAIN p.requests /\ Result(i) # None
        BY <3>1 DEF Answered
      <3>3. PICK report \in Reports : /\ report = Result(i) /\ report.epoch = page.session
                                      /\ report.selection = p.requests[i].selection
        BY <1>1, <3>2, ResultFacts
      <3>4. PICK wanted \in BOOLEAN : wanted = Wanted(p, i)
        BY DEF Wanted
      <3>5. PICK seen : seen = SeenWith(report, wanted)
        OBVIOUS
      <3>6. page' = NotResuming(seen, i)
        BY <3>1, <3>3, <3>4, <3>5 DEF Answered, SeenWith
      <3>7. /\ seen \in Pages /\ seen.selection = page.selection /\ seen.session = page.session
            /\ seen.report = IF wanted THEN report ELSE page.report
            /\ seen.pausedAt = IF wanted THEN FALSE ELSE page.pausedAt
        BY <1>1, <3>5, SeenFacts
      <3>8. page'.selection = page.selection /\ page'.session = page.session
            /\ page'.report = seen.report /\ page'.pausedAt = seen.pausedAt
        BY <1>1, <3>2, <3>6, <3>7, NotResumingFacts
      <3>9. wanted
        BY <1>1, <3>7, <3>8
      <3>10. page.pausedAt \/ p.requests[i].selection = page.selection
        BY <1>1, <3>2, <3>4, <3>9 DEF PageInv, Consistent, Expected
      <3> QED BY <3>3, <3>7, <3>8, <3>9, <3>10
    <2>2. CASE \E ok \in BOOLEAN : CaptureEnds(ok)
      <3>1. PICK ok \in BOOLEAN : CaptureEnds(ok)
        BY <2>2
      <3>2. ok /\ page.pausing /\ page.session = server.epoch
        BY <1>1, <3>1 DEF CaptureEnds, PageInv, PageShape, Pages
      <3>3. page'.report = Written(Complete) /\ page'.session = page.session
        BY <1>1, <3>1, <3>2 DEF CaptureEnds, PageInv, PageShape, Pages
      <3> QED BY <1>1, <3>2, <3>3 DEF PageInv, Attends, Written
    <2>3. CASE ~(\E i : Answered(i)) /\ ~(\E ok \in BOOLEAN : CaptureEnds(ok))
      <3>1. CASE \E i : Rejected(i)
        <4>1. PICK i : Rejected(i)
          BY <3>1
        <4>2. PICK seen : seen = NotResuming(page, i)
          OBVIOUS
        <4>3. seen \in Pages /\ seen.report = page.report
          BY <1>1, <4>1, <4>2, NotResumingFacts DEF Rejected, PageInv, PageShape
        <4>4. page' = seen \/ page' = Left(seen)
          BY <4>1, <4>2 DEF Rejected
        <4> QED BY <1>1, <4>3, <4>4 DEF Left, Pages
      <3>2. CASE Visibility \/ TimerFires \/ TimeOut
        BY <1>1, <3>2 DEF Visibility, TimerFires, TimeOut, PageInv, PageShape, Pages
      <3>3. CASE Pause \/ Resume \/ Destroy \/ NewSession \/ ServerChanges
        BY <1>1, <3>3 DEF Pause, Resume, Destroy, Left, NewSession, ServerChanges, PageInv, PageShape, Pages
      <3>4. CASE \E selection \in Selections : Select(selection)
        BY <1>1, <3>4 DEF Select, PageInv, PageShape, Pages
      <3>5. CASE \E i : Reply(i)
        BY <1>1, <3>5 DEF Reply
      <3>6. CASE \E paused, hidden \in BOOLEAN : Mount(paused, hidden)
        BY <1>1, <3>6 DEF Mount, PageInv, PageShape, Pages
      <3> QED BY <1>1, <2>3, <3>1, <3>2, <3>3, <3>4, <3>5, <3>6 DEF PageNext, Settles
    <2> QED BY <2>1, <2>2, <2>3
  <1>2. PageInv /\ [PageNext]_pageVars => [page'.report # page.report => Fitting]_pageVars
    BY <1>1
  <1> QED BY <1>2, AlwaysPageInv, PTL DEF PageSpec, ReportIsSelected
=============================================================================
