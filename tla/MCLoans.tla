------------------------------ MODULE MCLoans ------------------------------
(***************************************************************************)
(* Loans.cfg: one application, watched by the clock and the champion.      *)
(* LoanAccounts.cfg: one tenant with two applications, which it can have   *)
(* at once when two apply calls overlap, and another tenant with one; the  *)
(* clock takes each to approved in one go, and they race to be disbursed.  *)
(* doc_review lasts two ticks, every other stage one, so that a clock that *)
(* runs at 2 finds a stage half over.                                      *)
(***************************************************************************)
EXTENDS Loans

CONSTANTS t1, t2, a1, a2, b1

MCTenantOf == [a \in Applications |-> IF a = b1 THEN t2 ELSE t1]
MCWait == [s \in ReviewStages |-> IF s = "doc_review" THEN 2 ELSE 1]
MCSymmetry == Permutations(Workers) \cup Permutations({a1, a2})
=============================================================================
