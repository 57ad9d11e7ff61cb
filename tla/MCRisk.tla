------------------------------- MODULE MCRisk -------------------------------
(* Accounts, positions, the calculator, admission and funding for TLC.  They *)
(* share no state, so each behaviour is one of subject's, and the others     *)
(* rest.                                                                     *)
EXTENDS ClearingAccount, Positions, DeterministicCalculator, Admission, MCFundingRates

VARIABLE subject

vars == <<subject, ledgerVars, positionVars, inputs, admissionVars, fundingVars>>

Init ==
  /\ subject \in {"account", "position", "calculator", "admission", "funding"}
  /\ LedgerInit /\ PositionInit /\ InputInit /\ AdmissionInit /\ FundingInit
  /\ subject # "admission" => version = "V1"

Next ==
  \/ /\ subject = "account" /\ LedgerNext
     /\ UNCHANGED <<subject, positionVars, inputs, admissionVars, fundingVars>>
  \/ /\ subject = "position" /\ PositionNext
     /\ UNCHANGED <<subject, ledgerVars, inputs, admissionVars, fundingVars>>
  \/ /\ subject = "calculator" /\ InputNext
     /\ UNCHANGED <<subject, ledgerVars, positionVars, admissionVars, fundingVars>>
  \/ /\ subject = "admission" /\ AdmissionNext
     /\ UNCHANGED <<subject, ledgerVars, positionVars, inputs, fundingVars>>
  \/ /\ subject = "funding" /\ FundingNext
     /\ UNCHANGED <<subject, ledgerVars, positionVars, inputs, admissionVars>>

Spec == Init /\ [][Next]_vars

\* What callers pass: nothing, too much, and the wrong sign.
SomeAmounts == {-1, 0, 1, 2}
=============================================================================
