---------------------------- MODULE Investigation ----------------------------
(***************************************************************************)
(* The browser's investigation page of one height: createPoller            *)
(* (src/web/src/lib/poll.ts), createInvestigationClient                    *)
(* (src/web/src/lib/investigation.ts), the page that drives them           *)
(* (src/web/src/components/BlockRounds.svelte) and the pause button of     *)
(* src/web/src/App.svelte, against a server that may restart.              *)
(*                                                                         *)
(* JavaScript runs to completion, so a step is what happens between two    *)
(* returns to the event loop: a user's click, a timer, a promise that      *)
(* settles, each with the reactive statements it sets off.  A report has   *)
(* the selection it was asked for (Complete for a capture, which holds     *)
(* every round), the epoch of the server that wrote it and the version of  *)
(* the evidence; its ETag is all three.  Delays (interval, jitter,         *)
(* backoff, Retry-After) are arbitrary.  generation is the flag current of *)
(* a request: it is TRUE while the request's run is the newest.            *)
(*                                                                         *)
(* Not modelled: exporting, which changes no state but the error text;     *)
(* servers without the compact view.                                       *)
(***************************************************************************)
EXTENDS Naturals, FiniteSets

CONSTANTS
  Selections,          \* what the user may select
  MaxRequests,         \* bound: requests in flight, were there no limit of one
  MaxChanges,          \* bound: changes of the evidence and restarts of the server
  None, Complete

ASSUME PageAssumption == {MaxRequests, MaxChanges} \subseteq Nat \ {0}

VARIABLES
  p,         \* the poller
  page,      \* the page, its client's cache and what App knows of pausing
  server     \* the epoch of the server and the version of its evidence

pageVars == <<p, page, server>>

RequestIds == 1..MaxRequests
NoRequest == 0

-----------------------------------------------------------------------------
(* The poller: functions of poll.ts from poller to poller.                 *)

Runs(w) == ~w.disposed /\ ~w.paused /\ ~w.hidden

Schedule(w) == [w EXCEPT !.timer = Runs(w) /\ w.active = NoRequest]

Obsolete(w) == [i \in DOMAIN w.requests |-> [w.requests[i] EXCEPT !.current = FALSE]]

FreeRequest(w) == CHOOSE i \in RequestIds : i \notin DOMAIN w.requests

(* The guard of refresh.                                                   *)
MayRefresh(w, force) == ~w.disposed /\ ~w.hidden /\ (force \/ ~w.paused) /\ w.active = NoRequest

(* read up to its await: the ETag of what is cached goes along if it is of *)
(* the same epoch and selection.                                           *)
Asked(q, force) ==
  [selection |-> q.selection, epoch |-> q.session, reply |-> None,
   tag |-> IF q.cached # None /\ q.cached.selection = q.selection /\ q.cached.epoch = q.session
           THEN q.cached ELSE None,
   current |-> TRUE, aborted |-> FALSE, force |-> force]

(* refresh up to its await, for page q.                                    *)
Refresh(w, q, force) ==
  IF ~MayRefresh(w, force) THEN w
  ELSE LET i == FreeRequest(w)
           made == Asked(q, force)
           others == Obsolete(w)
       IN [w EXCEPT !.again = FALSE, !.timer = FALSE, !.active = i,
                    !.requests = [j \in DOMAIN others \cup {i} |-> IF j = i THEN made ELSE others[j]]]

Cancel(w) ==
  [w EXCEPT !.timer = FALSE,
            !.requests = [i \in DOMAIN w.requests |->
                            [w.requests[i] EXCEPT !.current = FALSE, !.aborted = @ \/ i = w.active]]]

Invalidate(w, q) ==
  IF ~Runs(w) THEN w
  ELSE IF w.active # NoRequest THEN Cancel([w EXCEPT !.again = TRUE])
  ELSE Refresh(w, q, FALSE)

(* Mutant: resuming without a refresh does not set the timer.              *)
SetPaused_NoTimer(w, value) ==
  IF w.paused = value \/ w.disposed THEN w
  ELSE IF value THEN Cancel([w EXCEPT !.paused = TRUE]) ELSE [w EXCEPT !.paused = FALSE]

(* setPaused(value, false), which is how the page resumes.                 *)
SetPaused(w, value) ==
  IF w.paused = value \/ w.disposed THEN w
  ELSE LET set == [w EXCEPT !.paused = value] IN
       IF value THEN Cancel(set) ELSE IF set.hidden THEN set ELSE Schedule(set)

SetHidden(w, value, q) ==
  IF w.hidden = value \/ w.disposed THEN w
  ELSE LET set == [w EXCEPT !.hidden = value] IN
       IF value THEN Cancel(set) ELSE IF set.paused THEN set ELSE Invalidate(set, q)

Dispose(w) == Cancel([w EXCEPT !.disposed = TRUE])

(* Mutant: an answer is used whether or not it is still wanted.            *)
Wanted_Always(w, i) == ~w.disposed

(* Whether the answer of request i counts.                                 *)
Wanted(w, i) == ~w.disposed /\ w.requests[i].current /\ ~w.requests[i].aborted

(* The finally block.                                                      *)
Settled(w, i, q) ==
  LET done == [w EXCEPT !.active = IF @ = i THEN NoRequest ELSE @,
                        !.requests = [j \in DOMAIN w.requests \ {i} |-> w.requests[j]]]
  IN IF done.again /\ Runs(done) THEN Refresh([done EXCEPT !.again = FALSE], q, FALSE)
     ELSE Schedule(done)

-----------------------------------------------------------------------------
(* The page *)

(* onMount.  The dashboard may have been paused, or the tab hidden, before *)
(* the page was opened.                                                    *)
Mount(paused, hidden) ==
  /\ ~page.mounted /\ ~p.disposed
  /\ page' = [page EXCEPT !.mounted = TRUE, !.pausedAt = paused, !.hidden = hidden]
  /\ p' = Refresh([p EXCEPT !.paused = paused, !.hidden = hidden], page', FALSE)
  /\ UNCHANGED server

(* chooseRound and the reactive statement on selectionKey.                 *)
Select(selection) ==
  /\ page.mounted /\ selection # page.selection
  /\ page' = [page EXCEPT !.selection = selection]
  /\ p' = IF page.pausedAt \/ page.pausing THEN p ELSE Invalidate(p, page')
  /\ UNCHANGED server

(* The tab is hidden or shown; hiding it aborts a capture.                 *)
Visibility ==
  /\ page.mounted
  /\ p' = SetHidden(p, ~page.hidden, page)
  /\ page' = [page EXCEPT !.hidden = ~@, !.captureAborted = @ \/ (page.pausing /\ ~page.hidden)]
  /\ UNCHANGED server

TimerFires ==
  /\ p.timer
  /\ p' = Refresh([p EXCEPT !.timer = FALSE], page, FALSE)
  /\ UNCHANGED <<page, server>>

(* The timeout of refresh, or of the capture.                              *)
TimeOut ==
  /\ \/ /\ \E i \in DOMAIN p.requests :
             ~p.requests[i].aborted /\ p' = [p EXCEPT !.requests[i].aborted = TRUE]
        /\ UNCHANGED page
     \/ /\ page.pausing /\ ~page.captureAborted
        /\ page' = [page EXCEPT !.captureAborted = TRUE] /\ UNCHANGED p
  /\ UNCHANGED server

(* The stream's baseline tells of a new server; sessionKey changes.        *)
NewSession ==
  /\ page.mounted /\ page.session # server.epoch
  /\ page' = [page EXCEPT !.session = server.epoch]
  /\ p' = IF page.pausedAt \/ page.pausing THEN p ELSE Invalidate(p, page')
  /\ UNCHANGED server

(* onData.  Only the request of refreshForResume can be answered while the *)
(* page is paused: its report is staged, and with the promise that carries *)
(* it back to togglePause it is committed and the page resumes.            *)
OnData(q, report) == [q EXCEPT !.report = report, !.pausedAt = FALSE]

NotResuming(q, i) == [q EXCEPT !.resuming = @ /\ ~p.requests[i].force]

(* Mutant: what is cached is taken for the answer whenever it was offered. *)
Result_Cached(i) ==
  LET r == p.requests[i] IN
  IF r.reply = None \/ page.session # r.epoch THEN None
  ELSE IF r.tag # None THEN page.cached
  ELSE IF r.reply.epoch = r.epoch THEN r.reply ELSE None

(* The end of read: what its caller gets, None for an error.               *)
Result(i) ==
  LET r == p.requests[i] IN
  IF r.reply = None \/ page.session # r.epoch THEN None
  ELSE IF r.reply = r.tag THEN page.cached
  ELSE IF r.reply.epoch = r.epoch THEN r.reply ELSE None

(* The promise of request i resolves with a report, which is cached even   *)
(* if nobody waits for it any more.                                        *)
Answered(i) ==
  LET report == Result(i)
      wanted == Wanted(p, i)
      read == [page EXCEPT !.cached = report]
      seen == IF wanted THEN OnData(read, report) ELSE read
      after == Settled(p, i, seen)
  IN /\ i \in DOMAIN p.requests /\ report # None
     /\ page' = NotResuming(seen, i)
     /\ p' = SetPaused(after, seen.pausedAt \/ seen.pausing)
     /\ UNCHANGED server

(* onDestroy: the page is left, or App asks for a token instead.           *)
Left(q) == [q EXCEPT !.mounted = FALSE, !.captureAborted = @ \/ q.pausing]

(* It rejects: an error, an abort, or a 401, which ends polling and takes  *)
(* the page away.                                                          *)
Rejected(i) ==
  LET counts == ~p.disposed /\ p.requests[i].current
      seen == NotResuming(page, i)
  IN /\ i \in DOMAIN p.requests
     /\ \E unauthorized \in {FALSE, counts /\ ~p.requests[i].aborted} :
          /\ p' = Settled(IF unauthorized THEN Dispose(p) ELSE p, i, seen)
          /\ page' = IF unauthorized THEN Left(seen) ELSE seen
     /\ UNCHANGED server

-----------------------------------------------------------------------------
(* The server *)

Written(selection) == [selection |-> selection, epoch |-> server.epoch, version |-> server.version]

(* The answer to request i, which is on its way from now on; one that      *)
(* equals the tag of the request is sent as 304.                           *)
Reply(i) ==
  /\ i \in DOMAIN p.requests /\ p.requests[i].reply = None
  /\ p' = [p EXCEPT !.requests[i].reply = Written(p.requests[i].selection)]
  /\ UNCHANGED <<page, server>>

ServerChanges ==
  /\ server.epoch + server.version < MaxChanges + 2
  /\ \/ server' = [server EXCEPT !.version = @ + 1]
     \/ server' = [server EXCEPT !.epoch = @ + 1]
  /\ UNCHANGED <<p, page>>

-----------------------------------------------------------------------------
(* togglePause *)

(* captureForPause: polling stops before the evidence is captured.         *)
Pause ==
  /\ page.mounted /\ ~page.pausing /\ ~page.resuming /\ ~page.pausedAt /\ ~page.hidden
  /\ page' = [page EXCEPT !.pausing = TRUE, !.captureAborted = FALSE]
  /\ p' = SetPaused(p, TRUE)
  /\ UNCHANGED server

(* The capture is applied and the view paused, or polling goes on.  A      *)
(* capture is refused if the server has restarted since.                   *)
CaptureEnds(ok) ==
  /\ page.pausing /\ (ok => ~page.captureAborted /\ page.session = server.epoch)
  /\ page' = [page EXCEPT !.pausing = FALSE, !.pausedAt = ok, !.captureAborted = FALSE,
                          !.report = IF ok THEN Written(Complete) ELSE @]
  /\ p' = SetPaused(p, ok)
  /\ UNCHANGED server

(* The stream has been refreshed; refreshForResume asks for the report.    *)
Resume ==
  /\ page.mounted /\ page.pausedAt /\ ~page.resuming /\ ~page.pausing
  /\ page' = [page EXCEPT !.resuming = MayRefresh(p, TRUE)]
  /\ p' = Refresh(p, page, TRUE)
  /\ UNCHANGED server

Destroy ==
  /\ page.mounted
  /\ p' = Dispose(p) /\ page' = Left(page)
  /\ UNCHANGED server

-----------------------------------------------------------------------------
PageInit ==
  /\ p = [paused |-> FALSE, hidden |-> FALSE, disposed |-> FALSE, timer |-> FALSE, again |-> FALSE,
          active |-> NoRequest, requests |-> [i \in {} |-> None]]
  /\ \E selection \in Selections :
       page = [mounted |-> FALSE, selection |-> selection, session |-> 1, report |-> None,
               cached |-> None, hidden |-> FALSE, pausedAt |-> FALSE, pausing |-> FALSE,
               captureAborted |-> FALSE, resuming |-> FALSE]
  /\ server = [epoch |-> 1, version |-> 1]

Settles(i) == Answered(i) \/ Rejected(i)

PageNext ==
  \/ \E paused, hidden \in BOOLEAN : Mount(paused, hidden)
  \/ Visibility \/ TimerFires \/ TimeOut \/ Pause \/ Resume \/ Destroy
  \/ NewSession \/ ServerChanges
  \/ \E selection \in Selections : Select(selection)
  \/ \E i \in RequestIds : Reply(i) \/ Settles(i)
  \/ \E ok \in BOOLEAN : CaptureEnds(ok)

(* A timer fires, a request settles because it times out, and a server     *)
(* that is asked again and again answers in time now and then.             *)
PageFairness ==
  /\ WF_pageVars(TimerFires) /\ WF_pageVars(\E i \in RequestIds : Settles(i))
  /\ SF_pageVars(\E i \in RequestIds : Reply(i) /\ Wanted(p, i))
  /\ SF_pageVars(\E i \in RequestIds : Answered(i) /\ Wanted(p, i))

PageSpec == PageInit /\ [][PageNext]_pageVars /\ PageFairness

-----------------------------------------------------------------------------
(* Properties *)

(* The poller follows the page, and while it should run a request or a     *)
(* timer is pending: no order of hiding, pausing, cancelling and late      *)
(* answers stops it for good.  There is never more than one request in     *)
(* flight, not even one that was cancelled and has yet to settle.          *)
PollingContinues ==
  /\ Cardinality(DOMAIN p.requests) <= 1
  /\ page.mounted =>
    /\ p.paused = (page.pausedAt \/ page.pausing) /\ p.hidden = page.hidden
    /\ Runs(p) => p.timer \/ p.active # NoRequest

(* A report that reaches the page is of the server epoch the page knows,   *)
(* and was asked for by its present selection, is a capture, or is the one *)
(* that resumes a paused page, which does not change until then.           *)
ReportIsSelected ==
  [][page'.report # page.report =>
       /\ ~(page.pausedAt /\ page'.pausedAt)
       /\ page'.report.epoch = page'.session
       /\ \/ page'.report.selection \in {page'.selection, Complete}
          \/ page.pausedAt /\ ~page'.pausedAt]_pageVars

(* A page that is watched and left alone comes to show the selected report *)
(* as the server has it, whatever was cancelled, cached or lost before.    *)
SelectionIsShown ==
  \A selection \in Selections :
     <>[](page.mounted /\ Runs(p) /\ page.selection = selection /\ page.session = server.epoch)
       => <>[](page.report = Written(selection))
=============================================================================
