--------------------------- MODULE MCWorkflowService ---------------------------
(* Small instances of WorkflowService: a high-value ticket, one of exactly  *)
(* the limit, one that names no amount and no account, and one of zero.     *)
(* Accounts the CRM does not know come from the router.                     *)
EXTENDS ServiceProperties, TLC

CONSTANTS high, low, vague, zero, empty, none, t1, t2, w1, w2

(* The extractor upper-cases what it finds; the router may answer in lower  *)
(* case.                                                                    *)
MCIds    == {"VIP-01", "GHOST-9", "ghost-9"}
MCCrmKey == [id \in MCIds |-> IF id = "VIP-01" THEN "VIP-01" ELSE "GHOST-9"]
MCCrmUsers == {"VIP-01"}

MCExtractAmount ==
  [text \in Texts \cup {NoText} |-> CASE text = high -> 600 [] text = low -> 50
                           [] text = zero -> 0 [] OTHER -> none]
MCExtractUserId ==
  [text \in Texts \cup {NoText} |-> IF text \in {high, low, zero} THEN "VIP-01" ELSE none]

WorkerSymmetry == Permutations(Workers)
================================================================================
