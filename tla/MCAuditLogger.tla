--------------------------- MODULE MCAuditLogger ---------------------------
(* AuditLogger with two handlers that emit two events each into a buffer   *)
(* of two, and two callers of Close.                                       *)
EXTENDS AuditLogger

CONSTANTS e1, e2, k1, k2
=============================================================================
