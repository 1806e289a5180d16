------------------------------ MODULE MCRounds ------------------------------
(* Two clients of the rounds endpoint.  The first keeps asking for one     *)
(* height.  The second shares that height with it, or asks for another one *)
(* that competes for the builder and the space of the cache, also with     *)
(* captures; which of the two is the constant value of second.             *)
EXTENDS RoundsCache

CONSTANTS r1, r2
VARIABLE second

MCRequests ==
  {<<r1, 1, view>> : view \in Views} \cup {<<r2, 1, "compact">>, <<r2, 2, "full">>}

MCLaneLimit == [view \in Views |-> IF view = "compact" THEN 2 ELSE 1]

MCInit == Init /\ second \in {1, 2}

MCNext ==
  /\ Next /\ UNCHANGED second
  /\ reader'[r2] = Idle \/ reader'[r2].height = second
  /\ reader'[r1] = Idle \/ reader'[r1].view # "capture" \/ second = 2

MCSpec == MCInit /\ [][MCNext]_<<vars, second>>
=============================================================================
