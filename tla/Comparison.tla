------------------------------ MODULE Comparison ------------------------------
(***************************************************************************)
(* The comparison of application hashes (src/internal/core/comparison.go): *)
(* one poller asks every node for its status, takes the newest height of   *)
(* the first one, asks for the block of that height everywhere, and        *)
(* publishes what it found.  The nodes are asked at once, each by a        *)
(* goroutine of its own, and change meanwhile.                             *)
(*                                                                         *)
(* The endpoints of this list are one pool each, so a request goes to one  *)
(* node.  That a node has a head of 0, or answers with another block than  *)
(* was asked for or with one of another chain, is not modelled.            *)
(***************************************************************************)
EXTENDS Endpoints

CONSTANTS Chains, AppHashes

VARIABLES
  chain, appHash,    \* per node: its chain, and the hash it has at a height
  comparison,        \* the locals of refreshRPCComparison
  published          \* RPCComparison of the state

chainVars == <<chain, appHash>>
comparisonVars == <<chain, appHash, comparison, published>>

Unasked == [status |-> "unasked", latest |-> 0, hash |-> {}]
Failed == [Unasked EXCEPT !.status = "error"]
NoReport == [status |-> "not_configured", height |-> 0, rows |-> [e \in Nodes |-> Unasked]]
NotRunning == [pc |-> "idle", todo |-> {}, report |-> NoReport]

ComparisonInit ==
  /\ chain \in [Nodes -> Chains] /\ appHash \in [Nodes -> [1..MaxHead -> AppHashes]]
  /\ comparison = NotRunning /\ published = NoReport

(* The poller's ticker.                                                    *)
StartComparison ==
  /\ comparison.pc = "idle"
  /\ comparison' = [pc |-> "status", todo |-> Nodes, report |-> [NoReport EXCEPT !.status = "incomplete"]]
  /\ UNCHANGED <<chainVars, published>>

SetRow(e, row) ==
  comparison' = [comparison EXCEPT !.todo = @ \ {e}, !.report.rows[e] = row]

(* A goroutine has its answer, or its request failed or timed out.         *)
StatusOf(e) ==
  /\ comparison.pc = "status" /\ e \in comparison.todo
  /\ \/ Answers(e) /\ SetRow(e, [status |-> "pending", latest |-> head[e], hash |-> {}])
     \/ SetRow(e, Failed)
  /\ UNCHANGED <<chainVars, published>>

(* The reference height is there; who can be asked for its block?          *)
Sorted(row, e, height) ==
  CASE row.status = "error" -> row
    [] row.status # "error" /\ chain[e] # chain[0] -> [row EXCEPT !.status = "chain_mismatch"]
    [] OTHER -> IF row.latest < height THEN [row EXCEPT !.status = "lagging"] ELSE row

(* After the first wg.Wait.  Without the reference nothing is compared.    *)
TakeReference ==
  LET old == comparison.report
      height == old.rows[0].latest
      rows == [e \in Nodes |-> Sorted(old.rows[e], e, height)]
  IN /\ comparison.pc = "status" /\ comparison.todo = {}
     /\ comparison' =
          IF old.rows[0].status = "pending"
          THEN [pc |-> "blocks", todo |-> {e \in Nodes : rows[e].status = "pending"},
                report |-> [old EXCEPT !.height = height, !.rows = rows]]
          ELSE [pc |-> "publish", todo |-> {},
                report |-> [old EXCEPT !.rows = [e \in Nodes |-> [@[e] EXCEPT !.status = "error"]]]]
     /\ UNCHANGED <<chainVars, published>>

(* Mutant: the newest block is asked for.                                  *)
BlockHeight_Latest(e) == head[e]

BlockHeight(e) == comparison.report.height

BlockOf(e) ==
  LET row == comparison.report.rows[e]  h == BlockHeight(e) IN
  /\ comparison.pc = "blocks" /\ e \in comparison.todo
  /\ \/ /\ Answers(e) /\ h <= head[e]
        /\ SetRow(e, [row EXCEPT !.status = "compared", !.hash = {appHash[e][h]}])
     \/ SetRow(e, [row EXCEPT !.status = "error"])
  /\ UNCHANGED <<chainVars, published>>

Verdict(rows) ==
  LET compared == {e \in Nodes : rows[e].status = "compared"} IN
  [e \in Nodes |->
     IF e \notin compared THEN rows[e]
     ELSE IF 0 \notin compared THEN [rows[e] EXCEPT !.status = "error"]
     ELSE IF e = 0 THEN [rows[e] EXCEPT !.status = "reference"]
     ELSE IF rows[e].hash = rows[0].hash THEN [rows[e] EXCEPT !.status = "match"]
     ELSE [rows[e] EXCEPT !.status = "mismatch"]]

(* After the second wg.Wait.                                               *)
Compare ==
  LET rows == Verdict(comparison.report.rows)
      others == {rows[e].status : e \in Nodes \ {0}}
      status == IF "mismatch" \in others THEN "mismatch"
                ELSE IF others = {"match"} THEN "matching" ELSE "incomplete"
  IN /\ comparison.pc = "blocks" /\ comparison.todo = {}
     /\ comparison' = [comparison EXCEPT !.pc = "publish", !.report.rows = rows, !.report.status = status]
     /\ UNCHANGED <<chainVars, published>>

PublishComparison ==
  /\ comparison.pc = "publish"
  /\ published' = comparison.report
  /\ comparison' = NotRunning
  /\ UNCHANGED chainVars

ComparisonNext ==
  \/ StartComparison \/ TakeReference \/ Compare \/ PublishComparison
  \/ \E e \in Nodes : StatusOf(e) \/ BlockOf(e)

-----------------------------------------------------------------------------
(* Properties *)

SameBlock(e, h) == chain[e] = chain[0] /\ appHash[e][h] = appHash[0][h]

(* A published verdict is about one height of one chain, however the nodes *)
(* grew and failed while they were asked: "matching" means that all agree, *)
(* "mismatch" that two really differ, and every row has been settled.      *)
ComparisonSound ==
  LET h == published.height  rows == published.rows IN
  published # NoReport =>
    /\ \A e \in Nodes :
         rows[e].status \in {"error", "lagging", "chain_mismatch", "reference", "match", "mismatch"}
    /\ \A e \in Nodes :
         /\ rows[e].status = "match" => SameBlock(e, h)
         /\ rows[e].status = "mismatch" => chain[e] = chain[0] /\ ~SameBlock(e, h)
         /\ rows[e].status \in {"match", "mismatch"} => rows[0].status = "reference"
    /\ published.status = "matching" => \A e \in Nodes : SameBlock(e, h)
    /\ published.status = "mismatch" => \E e \in Nodes : chain[e] = chain[0] /\ ~SameBlock(e, h)
=============================================================================
