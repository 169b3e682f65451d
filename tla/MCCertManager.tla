---------------------------- MODULE MCCertManager ---------------------------
(* Callers and domains for checking CertManager with TLC: a host, a wildcard *)
(* that covers it, and both together.                                        *)
EXTENDS CertManager

CONSTANTS p1, p2

TwoCallers == {p1, p2}
MCWild     == [d \in {"host", "star"} |-> IF d = "star" THEN {"host", "star"} ELSE {"host"}]
MCRequests == {{"host"}, {"star"}, {"host", "star"}}
=============================================================================
