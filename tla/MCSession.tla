------------------------------ MODULE MCSession ------------------------------
(* Instances of Session for TLC. *)
EXTENDS Session, TLC

CONSTANTS c1, c2

OneConn  == {c1}
TwoConns == {c1, c2}
TwoCodes == {0, 1}

=============================================================================
