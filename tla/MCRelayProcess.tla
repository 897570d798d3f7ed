--------------------------- MODULE MCRelayProcess --------------------------
(* A small instance of RelayProcess: the machines where the two programs   *)
(* may disagree about their directory.                                     *)
EXTENDS RelayProcess

Clean == [r \in Roots |-> None]

Plain ==
    [relay |-> None, game |-> None, appdata |-> TRUE, unix |-> TRUE, marker |-> Clean]

(* One file anywhere that names a directory, is damaged or empty, with or   *)
(* without APPDATA; variables that overrule the file of the mod, alike or  *)
(* not; and a relay that syncs no directory.                               *)
Machines ==
    {[Plain EXCEPT !.appdata = a, !.marker[r] = v] :
        a \in BOOLEAN, r \in Roots, v \in {None, "other", Invalid, Empty}}
    \cup
    {[Plain EXCEPT !.relay = v, !.game = "other", !.marker["mod"] = "ipc"] :
        v \in {"other", None, Invalid}}
    \cup
    {[Plain EXCEPT !.unix = FALSE]}
============================================================================
