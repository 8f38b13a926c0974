----------------------------- MODULE VerdictLog -----------------------------
(***************************************************************************)
(* What the supersession chain of one intent's decision envelopes promises *)
(* (docs/bank-v0.1-domain-model.md, "Approvals never mutate the original   *)
(* envelope. They always produce a successor."): the verdicts on an intent *)
(* form one log that only grows, a pending approval is settled at most     *)
(* once, by whoever comes first, and nobody settles what is not pending.   *)
(*                                                                         *)
(* Decisions implements this module.                                       *)
(***************************************************************************)
EXTENDS Sequences

VARIABLE log   \* the verdicts, oldest first

Outcomes == {"auto_exec", "approval_required", "hold", "block"}

Verdict == [outcome : Outcomes, by : {"engine", "operator", "deadline"}]

LogTypeOK == log \in Seq(Verdict)

LogInit == log = <<>>

Pending == log # <<>> /\ log[Len(log)].outcome = "approval_required"

(* The decision engine may judge at any time. *)
Judge(outcome) == log' = Append(log, [outcome |-> outcome, by |-> "engine"])

(* An operator approves or rejects what is pending. *)
Settle(outcome) ==
  /\ Pending
  /\ outcome \in {"auto_exec", "block"}
  /\ log' = Append(log, [outcome |-> outcome, by |-> "operator"])

(* The deadline blocks what is still pending. *)
Lapse ==
  /\ Pending
  /\ log' = Append(log, [outcome |-> "block", by |-> "deadline"])

LogNext == \/ \E outcome \in Outcomes : Judge(outcome) \/ Settle(outcome)
           \/ Lapse

LogSpec == LogInit /\ [][LogNext]_log
=============================================================================
