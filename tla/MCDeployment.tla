------------------------------ MODULE MCDeployment ------------------------------
(* Small instances of Deployment: the tickets of MCWorkflowService served   *)
(* by a process that starts, stops and dies.                                *)
EXTENDS Deployment, TLC

CONSTANTS high, low, empty, none, t1, t2, w1

MCIds    == {"VIP-01"}
MCCrmKey == [id \in MCIds |-> id]
MCCrmUsers == {"VIP-01"}

MCExtractAmount ==
  [text \in Texts \cup {NoText} |-> CASE text = high -> 600 [] text = low -> 50
                           [] OTHER -> none]
MCExtractUserId ==
  [text \in Texts \cup {NoText} |-> CASE text \in {high, low} -> "VIP-01" [] OTHER -> none]

================================================================================
