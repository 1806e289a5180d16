------------------------------- MODULE RPCPool -------------------------------
(***************************************************************************)
(* The HTTP client with failover (src/internal/chain/cometrpc/client.go):  *)
(* do tries the endpoints in turn, from the active one on, each behind a   *)
(* circuit breaker; AllValidators reads the validator set page by page,    *)
(* each page with a do of its own.  Several goroutines call at once.       *)
(*                                                                         *)
(* The breaker is the external package gobreaker with the settings of      *)
(* newPool.  A validator set is a sequence that changes with the height,   *)
(* so that pages of two heights do not fit together.                       *)
(***************************************************************************)
EXTENDS Endpoints, SequencesExt

CONSTANTS
  Callers, RosterCallers,   \* goroutines; those that call AllValidators
  Trip,                     \* consecutive failures that open a breaker
  PerPage,
  SetAt(_)                  \* the validators at a height, each listed once

ASSUME PoolAssumption ==
  /\ RosterCallers \subseteq Callers
  /\ Trip \in Nat \ {0} /\ PerPage \in Nat \ {0}
  /\ \A h \in 1..MaxHead :
       SetAt(h) # <<>> /\ SetAt(h) \in Seq(Range(SetAt(h))) /\ IsInjective(SetAt(h))

VARIABLES
  active,    \* the endpoint tried first
  breaker,   \* per endpoint
  call       \* per caller its locals

poolVars == <<active, breaker, call>>

-----------------------------------------------------------------------------
(* gobreaker *)

ClosedBreaker == [state |-> "closed", failures |-> 0, probing |-> FALSE]
OpenBreaker == [ClosedBreaker EXCEPT !.state = "open"]

Admits(b) == b.state = "closed" \/ (b.state = "half_open" /\ ~b.probing)
OnRequest(b) == [b EXCEPT !.probing = b.state = "half_open"]

AfterRequest(b, ok) ==
  IF ok THEN ClosedBreaker
  ELSE IF b.state = "half_open" \/ b.failures + 1 >= Trip THEN OpenBreaker
  ELSE [b EXCEPT !.failures = @ + 1]

-----------------------------------------------------------------------------
(* do *)

NoPages == [pinned |-> 0, all |-> <<>>]
IdleCall == [pc |-> "idle", result |-> "none", start |-> 0, off |-> 0, counts |-> FALSE,
             tried |-> {}, pages |-> NoPages]

(* Mutant: the active endpoint is read anew for every attempt.             *)
Target_Rereads(c) == (active + c.off) % N

(* The endpoint of the current attempt.                                    *)
Target(c) == (c.start + c.off) % N

Starting(c) == [c EXCEPT !.pc = "attempt", !.start = active, !.off = 0, !.tried = {}]

(* A caller's ticker.                                                      *)
StartCall(w) ==
  /\ call[w].pc = "idle"
  /\ call' = [call EXCEPT ![w] = Starting(IdleCall)]
  /\ UNCHANGED <<active, breaker>>

(* AllValidators goes on to its next page.                                 *)
StartPage(w) ==
  /\ call[w].pc = "start"
  /\ call' = [call EXCEPT ![w] = Starting(call[w])]
  /\ UNCHANGED <<active, breaker>>

(* Mutant: an endpoint that fails ends the call.                           *)
NextAttempt_Gives_Up(c, i) == [IdleCall EXCEPT !.result = "failed", !.tried = c.tried \cup {i}]

(* Endpoint i did not do: on to the next one, or all have failed.          *)
NextAttempt(c, i) ==
  LET tried == c.tried \cup {i} IN
  IF c.off + 1 = N THEN [IdleCall EXCEPT !.result = "failed", !.tried = tried]
  ELSE [c EXCEPT !.pc = "attempt", !.off = @ + 1, !.tried = tried]

Attempt(w) ==
  LET c == call[w]  i == Target(c) IN
  /\ c.pc = "attempt"
  /\ IF Admits(breaker[i])
     THEN /\ breaker' = [breaker EXCEPT ![i] = OnRequest(@)]
          /\ call' = [call EXCEPT ![w] = [c EXCEPT !.pc = "sent", !.counts = TRUE,
                                                   !.tried = c.tried \cup {i}]]
     ELSE /\ call' = [call EXCEPT ![w] = NextAttempt(c, i)]
          /\ UNCHANGED breaker
  /\ UNCHANGED active

-----------------------------------------------------------------------------
(* AllValidators *)

(* Mutant: every page is asked of the latest block.                        *)
RequestHeight_Latest(pages) == 0

(* 0 asks for the latest block.                                            *)
RequestHeight(pages) == pages.pinned

Succeeds(w, i) ==
  Answers(i) /\ (w \in RosterCallers => RequestHeight(call[w].pages) <= head[i])

Page(set, k) == SubSeq(set, (k - 1) * PerPage + 1, IF k * PerPage < Len(set) THEN k * PerPage ELSE Len(set))

(* What one page of the answering endpoint makes of the call: the checks   *)
(* on height, total and duplicates, then the result or the next page.      *)
WithPage(c, i) ==
  LET asked == RequestHeight(c.pages)
      height == IF asked = 0 THEN head[i] ELSE asked
      pinned == IF c.pages.pinned = 0 THEN height ELSE c.pages.pinned
      total == Len(SetAt(pinned))
      page == Page(SetAt(height), Len(c.pages.all) \div PerPage + 1)
      all == c.pages.all \o page
      fits == /\ height = pinned /\ Len(SetAt(height)) = total
              /\ Len(all) <= total /\ page # <<>> /\ IsInjective(all)
      after == [c EXCEPT !.pages = [pinned |-> pinned, all |-> all]]
  IN IF ~fits THEN [IdleCall EXCEPT !.result = "inconsistent"]
     ELSE IF Len(all) >= total THEN [IdleCall EXCEPT !.result = "ok", !.pages = after.pages]
     ELSE [after EXCEPT !.pc = "start"]

-----------------------------------------------------------------------------
(* The breaker counts a result only if it has not changed state since the  *)
(* request was made.                                                       *)
Uncounted(calls, i) ==
  [w \in Callers |-> IF calls[w].pc = "sent" /\ Target(calls[w]) = i
                     THEN [calls[w] EXCEPT !.counts = FALSE] ELSE calls[w]]

(* The endpoint has answered, failed or exceeded the deadline of one       *)
(* attempt.                                                                *)
Receive(w) ==
  LET c == call[w]
      i == Target(c)
      ok == Succeeds(w, i)
      after == IF ~ok THEN NextAttempt(c, i)
               ELSE IF w \in RosterCallers THEN WithPage(c, i)
               ELSE [IdleCall EXCEPT !.result = "ok"]
      b == IF c.counts THEN AfterRequest(breaker[i], ok) ELSE breaker[i]
      calls == [call EXCEPT ![w] = after]
  IN /\ c.pc = "sent"
     /\ active' = IF ok THEN i ELSE active
     /\ breaker' = [breaker EXCEPT ![i] = b]
     /\ call' = IF b.state # breaker[i].state THEN Uncounted(calls, i) ELSE calls

(* The timeout of an open breaker.                                         *)
HalfOpen(i) ==
  /\ breaker[i].state = "open"
  /\ breaker' = [breaker EXCEPT ![i] = [ClosedBreaker EXCEPT !.state = "half_open"]]
  /\ call' = Uncounted(call, i)
  /\ UNCHANGED active

PoolInit ==
  /\ active = 0
  /\ breaker = [i \in Nodes |-> ClosedBreaker]
  /\ call = [w \in Callers |-> IdleCall]

Progress(w) == StartPage(w) \/ Attempt(w) \/ Receive(w)
=============================================================================
