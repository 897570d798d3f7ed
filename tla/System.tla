------------------------------- MODULE System -------------------------------
(***************************************************************************)
(* The mod and the relay over their two files: Mod composed with Relay.    *)
(* The server may send any action at any time, an id of its own to each.   *)
(* Every failure of the network, of the cursor file and of the two         *)
(* processes spends one unit of MaxFaults.                                 *)
(***************************************************************************)
EXTENDS Relay, Mod

CONSTANT MaxFaults    \* bound: failures of a behaviour

VARIABLE faults    \* how many have happened

systemVars == <<outbox, inbox, relayVars, modVars, faults>>

SystemInit == Init /\ ModInit /\ faults = 0

RelayFault ==
    \/ OpenFails \/ LoseSession \/ Stop \/ Crash \/ SendStartupFails \/ ReceiverDies
    \/ \E p \in 1 .. MaxOutbox : ForwardFails(p)
ModFault == Quit \/ KillGame

(* session_idle: a session whose receive task has ended ends at the next   *)
(* idle second.                                                            *)
IdleEnds == rx.state = "dead" /\ LoseSession

RelayWorks ==
    \/ OpenSession \/ RetryCursor
    \/ Hoist \/ Connect \/ SendStartup
    \/ \E p \in 1 .. MaxOutbox :
          \/ Skip(p) \/ ReadTag(p) \/ Drop(p) \/ ReconnectForRelaunch(p)
          \/ Forward(p) \/ Observe(p)
    \/ DeliverToInbox
    \/ IdleEnds
ModWorks ==
    \/ Flush \/ Reconnect \/ RetryCatalogue \/ TakeAction
    \/ \E o \in owed : Answer(o)

(* The server does not use an id again on a later connection. *)
UsedIds == pending.earlier \cup {inbox[n].id : n \in DOMAIN inbox}
ServerSends == \E i \in ActionIds \ UsedIds : ReceiveAction(i)

(* A cursor write that was due and did not reach the disk. *)
WriteFails ==
    \/ ~ retry /\ retry'
    \/ proc = "running" /\ proc' # "running" /\ FinishDue /\ cursor' # st.tail

RelayStep == UNCHANGED <<modVars, faults>> /\ RelayWorks /\ ~ WriteFails
ModStep == UNCHANGED <<relayVars, faults>> /\ ModWorks
ServerStep == ServerSends /\ UNCHANGED <<modVars, faults>>
StartStep ==
    /\ UNCHANGED faults
    /\ \/ StartProcess /\ UNCHANGED modVars
       \/ Launch /\ UNCHANGED relayVars
FaultStep ==
    /\ faults < MaxFaults /\ faults' = faults + 1
    /\ \/ (RelayFault \/ (RelayWorks /\ WriteFails)) /\ UNCHANGED modVars
       \/ ModFault /\ UNCHANGED relayVars

SystemNext == StartStep \/ RelayStep \/ ServerStep \/ ModStep \/ FaultStep

SystemSpec == SystemInit /\ [][SystemNext]_systemVars

(* Both programs keep working: as long as a step of one stays possible it   *)
(* takes one. Nobody owes a failure, an action of the server or a launch.   *)
Fairness ==
    /\ WF_systemVars(RelayStep)
    /\ WF_systemVars(ModStep)

FairSystemSpec == SystemSpec /\ Fairness

----------------------------------------------------------------------------
(* A result on a connection answers an action that the same connection     *)
(* brought: a result of an earlier connection never does (obligations.rs,   *)
(* is_stale; dispatcher.lua, reset_transport_state).                        *)
ResultAnswersItsConnection ==
    \A k \in OnWire : Kind(k) = "result" => outbox[wire[k].pos].session = wire[k].session

(* The mod answers an action of a connection once, across quits and        *)
(* launches.                                                               *)
AnsweredOnce ==
    /\ ModTypeOK
    /\ \A p, q \in DOMAIN outbox :
          /\ p # q /\ outbox[p].kind = "result" /\ outbox[q].kind = "result"
          => outbox[p].id # outbox[q].id \/ outbox[p].session # outbox[q].session

(* An action the relay has taken from a connection does not stay without   *)
(* its result on that connection, unless the connection or the game ends:  *)
(* no answer is superseded, stale, suppressed or left in a file.           *)
Waits(i) ==
    /\ proc = "running" /\ up
    /\ i \in pending.delivered \ pending.answered
ActionsAnswered == \A i \in ActionIds : []<>~Waits(i)

(* The connection is of use: startup and catalogue are on it. *)
Connected ==
    /\ proc = "running" /\ st.onWire
    /\ \E k \in OnWire : wire[k].session = session /\ Kind(k) = "register"

(* When the game and the relay both stay up, they end connected, whatever   *)
(* failed before.                                                           *)
Settles == <>[](up /\ proc # "down") => <>[]Connected
============================================================================
