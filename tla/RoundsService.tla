---------------------------- MODULE RoundsService ----------------------------
(***************************************************************************)
(* What GET /api/blocks/{height}/rounds promises.  A reader asks for one   *)
(* height in one of three views and is answered, once, from the archive:   *)
(*                                                                         *)
(*   full, capture  evidence that is at least as new as the request        *)
(*   compact        evidence that may be a moment older, but of the same   *)
(*                  commit and eviction state as some moment since the     *)
(*                  request, and never older than what this reader was     *)
(*                  shown before in a full or compact answer               *)
(*                                                                         *)
(* Module RoundsCache implements this specification.                       *)
(***************************************************************************)
EXTENDS Archive

CONSTANTS Readers, Nothing

VARIABLES
  pending,   \* per reader its unanswered request, with the versions at its start
  answer,    \* the answer the last step gave, Nothing if it gave none
  shown      \* per reader and height the newest evidence in such an answer

serviceVars == <<pending, answer, shown>>

Views == {"full", "compact", "capture"}

Floors == [found : BOOLEAN, evidence : Nat, seal : 0..2, lost : Nat, catalogue : Nat]
Asked == [height : Heights, view : Views, floor : Floors]
Answers ==
  [reader : Readers, height : Heights, view : Views, found : BOOLEAN, evidence : Nat,
   seal : 0..2, lost : Nat, catalogue : Nat, status : Statuses, retained : SUBSET Heights]

(* What is known when a request for this view starts.                      *)
Floor(h, view) ==
  LET v == Version(h) IN
  [found |-> v.found, evidence |-> IF view = "compact" THEN 0 ELSE v.evidence,
   seal |-> v.seal, lost |-> v.lost, catalogue |-> v.catalogue]

Ask(r, h, view) ==
  /\ pending[r] = Nothing
  /\ pending' = [pending EXCEPT ![r] = [height |-> h, view |-> view, floor |-> Floor(h, view)]]
  /\ answer' = Nothing /\ UNCHANGED shown

(* No answer: the client has gone.                                         *)
Abandon(r) ==
  /\ pending[r] # Nothing
  /\ pending' = [pending EXCEPT ![r] = Nothing]
  /\ answer' = Nothing /\ UNCHANGED shown

(* The evidence and the status of an answer fit the request.               *)
Current(r, request, a) ==
  LET floor == request.floor
      now == Version(request.height)
  IN /\ a.catalogue \in floor.catalogue..now.catalogue
     /\ a.found => a.evidence >= floor.evidence /\ a.seal >= floor.seal /\ a.lost >= floor.lost
     /\ a.found /\ request.view # "capture" => a.evidence >= shown[r][request.height]
     /\ now.found => a.evidence <= now.evidence
     /\ ~a.found => ~floor.found \/ now.status = "evicted"
     /\ a.found => (a.status = "committed" <=> a.seal > 0)

Answer(r) ==
  LET request == pending[r]
      a == answer'
  IN /\ request # Nothing
     /\ pending' = [pending EXCEPT ![r] = Nothing]
     /\ a # Nothing /\ a.reader = r
     /\ a.height = request.height /\ a.view = request.view
     /\ Current(r, request, a)
     /\ shown' = IF request.view = "capture" THEN shown
                 ELSE [shown EXCEPT ![r][request.height] = Larger(@, a.evidence)]

ServiceInit ==
  /\ ArchiveInit
  /\ pending = [r \in Readers |-> Nothing]
  /\ answer = Nothing
  /\ shown = [r \in Readers |-> [h \in Heights |-> 0]]

ServiceStep ==
  \E r \in Readers :
     (\E h \in Heights, view \in Views : Ask(r, h, view)) \/ Abandon(r) \/ Answer(r)

Unasked == answer' = Nothing /\ UNCHANGED <<pending, shown>>

ServiceNext ==
  \/ ArchiveNext /\ Unasked
  \/ ServiceStep /\ UNCHANGED archiveVars

ServiceSpec == ServiceInit /\ [][ServiceNext]_<<archiveVars, serviceVars>>
=============================================================================
