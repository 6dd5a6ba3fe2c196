----------------------------- MODULE MCAgreementSaga -----------------------------
(* An agreement of each kind and a second remote one, and two acknowledgements: *)
(* the first completes the saga and the second finds none.                      *)
EXTENDS AgreementSaga

CONSTANTS o1, r1, r2

MCAgreements == {o1, r1, r2}
MCOnlineAgreements == {o1}
=============================================================================
