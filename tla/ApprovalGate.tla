----------------------------- MODULE ApprovalGate -----------------------------
(***************************************************************************)
(* What the workflow promises about money, without requests, checkpoints   *)
(* or nodes: a refund within the limit is paid at once; one over the limit *)
(* opens the thread's gate, and a decision closes it again, paying exactly *)
(* the action that was open (approved) or nothing (denied).  What was done *)
(* to the gate lasts once it is saved; until then a failure may undo it,   *)
(* and undoes no payment.                                                  *)
(***************************************************************************)
EXTENDS Governance, Sequences

CONSTANTS
  Threads,    (* the workflows                                              *)
  Requested,  (* the amounts tickets ask for                                *)
  None

VARIABLES
  open,       (* per thread, the action awaiting a decision                 *)
  saved,      (* the same as a failure would leave it                       *)
  paid        (* the refunds executed, in order                             *)

Actions == [user : Ids, amount : Requested]

Init ==
  /\ open = [t \in Threads |-> None]
  /\ saved = open
  /\ paid = << >>

Pay(t, action) == paid' = Append(paid, [thread |-> t, action |-> action])

Close(t) == open[t] # None /\ open' = [open EXCEPT ![t] = None]

AutoRefund(t, action) ==
  /\ ExecuteRefund(action.user, action.amount) = "success"
  /\ Pay(t, action)
  /\ UNCHANGED <<open, saved>>

(* A later escalation replaces the one still open.                          *)
Escalate(t, action) ==
  /\ ExecuteRefund(action.user, action.amount) = "requires_human_auditor"
  /\ open' = [open EXCEPT ![t] = action]
  /\ UNCHANGED <<saved, paid>>

Approve(t) == Close(t) /\ Pay(t, open[t]) /\ UNCHANGED saved

Deny(t) == Close(t) /\ UNCHANGED <<saved, paid>>

Settle(t) == saved' = [saved EXCEPT ![t] = open[t]] /\ UNCHANGED <<open, paid>>

(* A failure ends the runs of some threads.                                 *)
Lapse ==
  /\ \E failed \in SUBSET Threads :
       open' = [t \in Threads |-> IF t \in failed THEN saved[t] ELSE open[t]]
  /\ UNCHANGED <<saved, paid>>

Next == Lapse \/ \E t \in Threads :
  \/ Approve(t) \/ Deny(t) \/ Settle(t)
  \/ \E action \in Actions : AutoRefund(t, action) \/ Escalate(t, action)

Spec == Init /\ [][Next]_<<open, saved, paid>>
================================================================================
