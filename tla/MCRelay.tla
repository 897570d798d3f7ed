------------------------------ MODULE MCRelay ------------------------------
(* Small instances of Relay. One run takes several kinds of mod in turn:   *)
(* Writes is all they write, and MCNext keeps the outbox to what one of    *)
(* them wrote.                                                             *)
EXTENDS Relay, TLC

CONSTANTS g1, g2, i1, i2

(* Launches and answers to sessions. *)
Launches == {<<Startup(g1)>>} \cup {<<Tag(g1, s), Startup(g1)>> : s \in 1 .. MaxSessions}

Tags == {Tag(g1, s) : s \in 1 .. MaxSessions}
LaunchRecords == {Startup(g1)} \cup Tags
Results == {Result(g1, i) : i \in ActionIds}
Changes == {Catalogue(k, g1, i) : k \in {"register", "unregister"}, i \in ActionIds}
Forces == {Plain("force", g1), Plain("context", g1)}

Alone(S) == {<<r>> : r \in S}
Wrote(S) == \A n \in DOMAIN outbox : outbox[n] \in S

Torn ==
    {Startup(g) : g \in Games} \cup {Catalogue("register", g, i1) : g \in Games}
        \cup Tags \cup {Junk} \cup {Plain("context", g) : g \in Games}

AnyWrites == Launches \cup Alone(Results \cup Changes \cup Forces \cup Torn)
ForceWrites == Launches \cup Alone(Forces)

LaunchesFirst ==
    /\ outbox # <<>> => outbox[1] \in LaunchRecords
    /\ \A n \in DOMAIN outbox :
          outbox[n] \in Tags => n < Len(outbox) /\ outbox[n + 1] = Startup(g1)

(* What one mod writes: launches and answers to sessions, and then results;*)
(* changes of its catalogue; or forces and contexts; or, two games, tags   *)
(* torn from their startups and lines that are no record. Actions arrive   *)
(* at the first two.                                                       *)
Acting ==
    /\ LaunchesFirst
    /\ \/ Wrote(LaunchRecords \cup Results)
       \/ Wrote(LaunchRecords \cup Changes) /\ Len(outbox) < MaxOutbox
OneMod ==
    \/ Acting
    \/ /\ \A n \in DOMAIN inbox : inbox[n].kind # "action"
       /\ \/ LaunchesFirst /\ Wrote(LaunchRecords \cup Forces)
          \/ Wrote(Torn) /\ Len(outbox) < MaxOutbox

MCNext ==
    \/ RelayNext /\ (rx'.id # NoId => Acting)
    \/ \E rs \in Writes : ModWrites(rs) /\ OneMod' /\ (rx.id # NoId => Acting')

MCSpec == Init /\ [][MCNext]_vars
============================================================================
