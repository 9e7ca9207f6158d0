----------------------------- MODULE MCAccounts -----------------------------
(* Instances of Accounts for TLC.                                          *)
EXTENDS Accounts

Alphabet == {"A", "B", "C"}
ABB == <<"A", "B", "B">>
ABC == <<"A", "B", "C">>
OneStock == {ABC}
LowOrHigh == [s \in OneStock |-> {1, 2}]
TwoStocks == {ABB, ABC}
Quotes == [s \in TwoStocks |-> IF s = ABB THEN {-1, 2} ELSE {}]
=============================================================================
