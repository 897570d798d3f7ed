--------------------------- MODULE MCOutboxTailer ---------------------------
(* Small instances of OutboxTailer. *)
EXTENDS OutboxTailer, TLC

CONSTANTS f1, f2, f3

(* Once the cursor has lagged the mod writes two lines less. *)
LagsBriefly == lagged => written + 1 < MaxLines

(* The outbox is renamed only while no relay runs, and no relay starts     *)
(* again after that.                                                       *)
RenamedWhileDown == phase # "off" => rotating = "no" /\ rotations = 0
=============================================================================
