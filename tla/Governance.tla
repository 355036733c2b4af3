------------------------------ MODULE Governance ------------------------------
(***************************************************************************)
(* The deterministic governance rules: the auto-approve limit             *)
(* (src/policy.py), the CRM directory (src/mcp_server/mock_crm.py) and     *)
(* what the refund tool answers (src/mcp_server/tools_impl.py).  Nothing   *)
(* here has state; amounts are in cents.                                   *)
(***************************************************************************)
EXTENDS Integers

CONSTANTS
  Ids,        (* every spelling of an account id a ticket or the LLM yields *)
  CrmKey,     (* the stripped, upper-cased form of each of them             *)
  CrmUsers,   (* the keys that have a CRM record                            *)
  Limit       (* REFUND_AUTO_APPROVE_LIMIT                                  *)

ASSUME GovernanceAssumption ==
  /\ DOMAIN CrmKey = Ids
  /\ Limit \in Nat

(* A strict comparison: a refund of exactly the limit is automatic.         *)
RefundRequiresApproval(amount) == amount > Limit

(* get_user looks the normalised id up; it never returns a default record.  *)
KnownUser(user) == CrmKey[user] \in CrmUsers

(* Mutants: the limit is not consulted; the account is not looked up.       *)
ExecuteRefundUnlimited(user, amount) ==
  IF amount <= 0 THEN "invalid_amount"
  ELSE IF ~KnownUser(user) THEN "user_not_found" ELSE "success"

ExecuteRefundUnknown(user, amount) ==
  IF amount <= 0 THEN "invalid_amount"
  ELSE IF RefundRequiresApproval(amount) THEN "requires_human_auditor" ELSE "success"

(* The tool's answer, its four returns in the order of the code.            *)
ExecuteRefund(user, amount) ==
  CASE amount <= 0                                    -> "invalid_amount"
    [] amount > 0 /\ ~KnownUser(user)                 -> "user_not_found"
    [] /\ amount > 0 /\ KnownUser(user)
       /\ RefundRequiresApproval(amount)              -> "requires_human_auditor"
    [] OTHER                                          -> "success"
================================================================================
