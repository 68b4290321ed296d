---------------------------- MODULE MCOsxBinding ----------------------------
(* OsxBinding for TLC: one caller uses a connection, another searches once. *)
EXTENDS OsxBinding, TLC

CONSTANTS c1, c2, d1

OneConnection == [c \in Callers |-> IF c = c1 THEN Ops \ {"sdp"} ELSE {"sdp"}]

OneAddress == [c \in Callers |-> d1]

TwoAndOne == [c \in Callers |-> IF c = c1 THEN 2 ELSE 1]
=============================================================================
