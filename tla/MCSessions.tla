----------------------------- MODULE MCSessions -----------------------------
(* The registry of the web hub and the investigation page of a browser.    *)
(* They meet only in what modules Stream and RoundsCache follow, so a      *)
(* behaviour of this model has the steps of one of them; which one is the  *)
(* constant value of part.                                                 *)
EXTENDS WSHub, Investigation

CONSTANTS s1, s2
VARIABLE part

(* By symmetry, s1 is selected first.                                      *)
MCInit ==
  /\ HubInit /\ PageInit /\ page.selection = s1
  /\ part \in {"hub", "page"} /\ (part = "page" => maxClients = 1)

MCNext ==
  \/ part = "hub" /\ HubNext /\ UNCHANGED <<pageVars, part>>
  \/ part = "page" /\ PageNext /\ UNCHANGED <<hubVars, part>>

(* Nothing is owed to a hub nobody connects to or to a page that is not    *)
(* mounted, so the fairness of the other part says nothing.                *)
MCSpec == MCInit /\ [][MCNext]_<<hubVars, pageVars, part>> /\ HubFairness /\ PageFairness
=============================================================================
