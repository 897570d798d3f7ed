---------------------------- MODULE SystemProofs ----------------------------
(***************************************************************************)
(* Proofs about Relay, and about System, which is Relay with the mod for   *)
(* its outbox, for every number of games, ids, records, sessions and       *)
(* failures. In three parts: the types of the relay and that a connection  *)
(* carries one result for an action; what is on the wire of a connection,  *)
(* in which order it got there, what the cursor has passed and what the    *)
(* relay knows of earlier connections; and that the mod answers an action  *)
(* once, and that the relay behaves in the system as Relay says.           *)
(***************************************************************************)
EXTENDS System, NumberFacts, SequenceTheorems

----------------------------------------------------------------------------
(* The relay: its types, and one result for an action                      *)

(* Where the frames given to the socket came from. *)
WireOK ==
    \A k \in DOMAIN wire :
        wire[k].session <= session /\ wire[k].pos \in 0 .. Len(outbox)

(* The startup lane holds a startup of the outbox, and the socket is opened *)
(* for it, before anything of the session is on the wire.                   *)
LaneOK ==
    /\ lane # 0 => lane <= Len(outbox) /\ outbox[lane].kind = "startup"
    /\ ws = "open" => lane # 0
    /\ proc = "running" /\ st.onWire => ws = "open"
    /\ proc = "running" => session > 0
    /\ proc # "running" => ws = "none" /\ pc = "loop" /\ rx.state = "off"
    /\ rx.state = "delivering" => rx.id # NoId
    /\ ws = "none" => rx.state = "off"

(* Where the consumer is. *)
ConsumerOK ==
    /\ proc = "running" => st.tail <= Len(outbox) /\ st.next <= Len(outbox) + 1
    /\ cursor <= Len(outbox)
    /\ pc = "sent" =>
         /\ st.onWire /\ st.next <= Len(outbox)
         /\ outbox[st.next].kind \notin {"tag", "junk"}
         /\ outbox[st.next].kind = "result" => outbox[st.next].id # NoId

(* A result on the wire of the running session is one the tracker has      *)
(* observed, or the one it is about to observe; before the startup there   *)
(* is none. This is what survives the forgetting of BindGame.              *)
Observed ==
    proc = "running" =>
        \A k \in OnWire :
            wire[k].session = session =>
                /\ st.onWire
                /\ Kind(k) = "result" =>
                      Id(k) \in pending.answered \/ (pc = "sent" /\ wire[k].pos = st.next)

IInv == TypeOK /\ WireOK /\ LaneOK /\ ConsumerOK /\ Observed /\ OneResultPerConnection

----------------------------------------------------------------------------
(* Type correctness *)

(* The checkpoints write a position that is the tail of the consumer.      *)
LEMMA CheckpointType ==
    ASSUME NEW p \in Positions, NEW urgent,
           cursor \in Positions \cup {NoCursor}, retry \in BOOLEAN,
           Checkpoint(p, urgent)
    PROVE  cursor' \in Positions \cup {NoCursor} /\ retry' \in BOOLEAN
BY DEF Checkpoint

(* What the tracker becomes is a tracker. *)
LEMMA TrackerType ==
    ASSUME NEW t \in Tracker
    PROVE  /\ NewTracker \in Tracker
           /\ BeginSession(t) \in Tracker
           /\ \A g \in Games : BindGame(t, g) \in Tracker
           /\ \A k \in Kinds, p \in Positions : FirstSendAt(t, k, p) \in Tracker
<1>1. NewTracker \in Tracker
  BY DEF NewTracker, Tracker
<1>2. BeginSession(t) \in Tracker
  BY DEF BeginSession, Tracker
<1>3. \A g \in Games : BindGame(t, g) \in Tracker
  BY <1>1 DEF BindGame, Tracker
<1>4. ASSUME NEW k \in Kinds, NEW p \in Positions
      PROVE  FirstSendAt(t, k, p) \in Tracker
  <2>1. Remember(t.forces, p) \subseteq Positions /\ Remember(t.contexts, p) \subseteq Positions
    BY DEF Remember, Tracker
  <2>. QED
    BY <2>1 DEF FirstSendAt, Tracker
<1>. QED
  BY <1>1, <1>2, <1>3, <1>4

(* A consumer starts inside the outbox and passes records of the outbox.   *)
LEMMA ConsumerType ==
    ASSUME st \in Consumer, NEW p \in Positions
    PROVE  /\ NewConsumer(p) \in Consumer
           /\ p # 0 => Passed(p) \in Consumer
           /\ \A ids \in SUBSET ActionIds :
                 /\ [st EXCEPT !.onWire = TRUE, !.hoisted = p, !.registered = ids] \in Consumer
                 /\ [st EXCEPT !.registered = ids] \in Consumer
           /\ \A g \in Games \cup {NoGame} : [st EXCEPT !.game = g] \in Consumer
<1>1. p + 1 \in 1 .. MaxOutbox + 1 /\ 0 \in Positions
  BY BoundsAssumption DEF Positions
<1>2. NewConsumer(p) \in Consumer
  BY <1>1 DEF NewConsumer, Consumer
<1>3. HoistedAfter(p) \in Positions
  BY <1>1 DEF HoistedAfter, Consumer
<1>. QED
  BY <1>1, <1>2, <1>3 DEF Passed, Consumer

(* The end of a consumer leaves every variable it writes in its type.      *)
LEMMA EndConsumerType ==
    ASSUME TypeOK, LaneOK, EndConsumer
    PROVE  /\ st' \in Consumer /\ retry' \in BOOLEAN
           /\ inbox' \in Seq(InboxRecord)
           /\ rx' \in Receiver
           /\ ws' \in {"none", "open"} /\ pc' \in {"loop", "sent"} /\ lane' \in Positions
<1>1. 0 \in Positions
  BY BoundsAssumption DEF Positions
<1>2. rx' \in Receiver
  BY DEF EndConsumer, StopReceiver, Receiver
<1>3. rx.state = "delivering" => ActionLine(rx.id, session) \in InboxRecord
  BY DEF TypeOK, LaneOK, Receiver, ActionLine, InboxRecord
<1>4. inbox' \in Seq(InboxRecord)
  <2>1. \/ inbox' = inbox
        \/ rx.state = "delivering" /\ inbox' = Append(inbox, ActionLine(rx.id, session))
    BY DEF EndConsumer, StopReceiver
  <2>2. inbox \in Seq(InboxRecord)
    BY DEF TypeOK
  <2>. QED
    BY <1>3, <2>1, <2>2
<1>5. st' \in Consumer
  BY <1>1, ConsumerType DEF EndConsumer, TypeOK
<1>. QED
  BY <1>1, <1>2, <1>4, <1>5 DEF EndConsumer

(* So does the end of a session.                                           *)
LEMMA EndSessionType ==
    ASSUME TypeOK, LaneOK, NEW to \in {"down", "idle"}, EndSession(to)
    PROVE  /\ proc' \in {"down", "idle", "running"}
           /\ cursor' \in Positions \cup {NoCursor}
           /\ st' \in Consumer /\ retry' \in BOOLEAN
           /\ inbox' \in Seq(InboxRecord)
           /\ rx' \in Receiver
           /\ ws' \in {"none", "open"} /\ pc' \in {"loop", "sent"} /\ lane' \in Positions
           /\ UNCHANGED <<outbox, session, since, base, unsaved>>
<1>1. st.tail \in Positions
  BY DEF TypeOK, Consumer
<1>2. cursor' \in Positions \cup {NoCursor}
  BY <1>1 DEF TypeOK, EndSession, Finish
<1>. QED
  BY <1>2, EndConsumerType DEF EndSession

(* The actions noted are actions. *)
LEMMA NotedType ==
    ASSUME TypeOK, NEW p \in 1 .. Len(outbox)
    PROVE  Noted(p) \in SUBSET ActionIds
<1>1. outbox[p].id \in ActionIds \cup {NoId}
  <2>1. outbox \in Seq(Record)
    BY DEF TypeOK
  <2>2. \A r \in Record : r.id \in ActionIds \cup {NoId}
    BY DEF Record
  <2>. QED
    BY <2>1, <2>2
<1>2. st.registered \in SUBSET ActionIds
  BY DEF TypeOK, Consumer
<1>. QED
  BY <1>1, <1>2 DEF Noted

(* Giving a frame to the socket. *)
LEMMA SendFrameType ==
    ASSUME TypeOK, NEW p \in Positions, NEW ok \in BOOLEAN, SendFrame(p, ok)
    PROVE  wire' \in Seq(Frame)
<1>1. [session |-> session, pos |-> p, ok |-> ok] \in Frame
  BY DEF TypeOK, Frame
<1>. QED
  BY <1>1 DEF TypeOK, SendFrame

(* The frame that may be left unsaved is one of the wire. *)
LEMMA UnsavedType ==
    ASSUME TypeOK, NEW p
    PROVE  LeftUnsaved(p) \subseteq Nat
<1>1. Len(wire) \in Nat
  BY DEF TypeOK
<1>. QED
  BY <1>1 DEF LeftUnsaved, TypeOK

LEMMA SessionTypes ==
    ASSUME IInv, SessionNext \/ RetryCursor
    PROVE  TypeOK'
<1>. USE BoundsAssumption DEF IInv
<1>0. 0 \in Positions
  BY DEF Positions
<1>1. CASE StartProcess
  <2>1. pending' \in Tracker
    BY <1>1, TrackerType DEF StartProcess, TypeOK
  <2>2. since' \in Sessions
    BY <1>1 DEF StartProcess, TypeOK
  <2>. QED
    BY <1>1, <2>1, <2>2 DEF StartProcess, TypeOK
<1>2. CASE OpenSession
  <2>1. session' \in Sessions
    BY <1>2 DEF OpenSession, TypeOK, Sessions
  <2>2. inbox' \in Seq(InboxRecord)
    <3>1. Reregister(session') \in InboxRecord
      BY <2>1 DEF Reregister, InboxRecord
    <3>. QED
      BY <1>2, <3>1 DEF OpenSession, TypeOK
  <2>3. PICK tail \in 0 .. Len(outbox) : ResumeAt(tail) /\ st' = NewConsumer(tail)
    BY <1>2 DEF OpenSession
  <2>4. tail \in Positions
    BY DEF TypeOK, Positions
  <2>5. st' \in Consumer
    BY <2>3, <2>4, ConsumerType DEF TypeOK
  <2>6. pending' \in Tracker
    BY <1>2, TrackerType DEF OpenSession, TypeOK
  <2>7. cursor' \in Positions \cup {NoCursor} /\ base' \in Positions
    BY <2>3, <2>4 DEF ResumeAt, TypeOK
  <2>8. retry' \in BOOLEAN
    BY <1>2 DEF OpenSession
  <2>. QED
    BY <1>0, <1>2, <2>1, <2>2, <2>5, <2>6, <2>7, <2>8 DEF OpenSession, TypeOK
<1>3. CASE OpenFails
  <2>1. PICK tail \in 0 .. Len(outbox) : ResumeAt(tail)
    BY <1>3 DEF OpenFails
  <2>2. tail \in Positions
    BY DEF TypeOK, Positions
  <2>3. cursor' \in Positions \cup {NoCursor} /\ base' \in Positions
    BY <2>1, <2>2 DEF ResumeAt, TypeOK
  <2>4. pending' \in Tracker
    BY <1>3, TrackerType DEF OpenFails, TypeOK
  <2>. QED
    BY <1>3, <2>3, <2>4 DEF OpenFails, TypeOK
<1>4. CASE LoseSession
  BY <1>4, EndSessionType DEF LoseSession, TypeOK
<1>5. CASE Stop
  <2>4. NewTracker \in Tracker
    BY TrackerType DEF TypeOK
  <2>1. CASE EndSession("down") /\ pending' = NewTracker /\ UNCHANGED wire
    BY <2>1, <2>4, EndSessionType DEF TypeOK
  <2>3. ASSUME EndSession("down"), pending' = NewTracker, NEW ok \in BOOLEAN,
               SendFrame(0, ok)
        PROVE  TypeOK'
    <3>1. wire' \in Seq(Frame)
      BY <1>0, <2>3, SendFrameType
    <3>. QED
      BY <2>3, <2>4, <3>1, EndSessionType DEF TypeOK
  <2>2. CASE /\ proc' = "down" /\ pending' = NewTracker
             /\ UNCHANGED <<outbox, inbox, session, cursor, retry, st, lane, ws,
                            pc, rx, wire, since, base, unsaved>>
    BY <2>2, <2>4 DEF TypeOK
  <2>. QED
    BY <1>5, <2>1, <2>2, <2>3 DEF Stop
<1>6. CASE Crash
  <2>1. pending' \in Tracker
    BY <1>6, TrackerType DEF Crash, TypeOK
  <2>2. unsaved' \subseteq Nat
    BY <1>6, UnsavedType DEF Crash, TypeOK
  <2>. QED
    BY <1>6, <2>1, <2>2, EndConsumerType DEF Crash, TypeOK
<1>7. CASE RetryCursor
  BY <1>7 DEF RetryCursor, TypeOK, Consumer
<1>. QED
  BY <1>1, <1>2, <1>3, <1>4, <1>5, <1>6, <1>7 DEF SessionNext

LEMMA StartupTypes ==
    ASSUME IInv, StartupNext
    PROVE  TypeOK'
<1>. USE BoundsAssumption DEF IInv
<1>0. lane # 0 => outbox[lane] \in Record /\ lane \in DOMAIN outbox
  BY DEF TypeOK, LaneOK, Positions
<1>1. CASE Hoist
  <2>1. lane' \in Positions
    BY SMTT(30), <1>1 DEF Hoist, LiveStartups, TypeOK, Positions, Consumer
  <2>. QED
    BY <1>1, <2>1 DEF Hoist, TypeOK
<1>2. CASE Connect
  <2>1. outbox[lane].game \in Games \cup {NoGame}
    BY <1>0, <1>2 DEF Connect, Record
  <2>2. BindGame(pending, outbox[lane].game) \in Tracker
    BY <2>1, TrackerType DEF TypeOK, BindGame, Tracker
  <2>3. st' \in Consumer
    BY <1>2, <2>1, ConsumerType DEF Connect, TypeOK
  <2>4. rx' \in Receiver
    BY <1>2 DEF Connect, Receiver
  <2>5. since' \in Sessions
    BY <1>2 DEF Connect, AtLoop, LaneOK, TypeOK, Sessions
  <2>. QED
    BY <1>2, <2>2, <2>3, <2>4, <2>5 DEF Connect, TypeOK
<1>3. CASE SendStartup
  <2>1. st' \in Consumer
    <3>1. lane \in 1 .. Len(outbox)
      BY <1>0, <1>3 DEF SendStartup, LaneOK, TypeOK
    <3>2. Noted(lane) \in SUBSET ActionIds
      BY <3>1, NotedType
    <3>. QED
      BY <1>3, <3>2, ConsumerType DEF SendStartup, TypeOK
  <2>2. wire' \in Seq(Frame)
    BY <1>3, SendFrameType DEF SendStartup, TypeOK
  <2>. QED
    BY <1>3, <2>1, <2>2 DEF SendStartup, TypeOK
<1>4. CASE SendStartupFails
  <2>1. wire' \in Seq(Frame)
    BY <1>4, SendFrameType DEF SendStartupFails, TypeOK
  <2>. QED
    BY <1>4, <2>1, EndSessionType DEF SendStartupFails, TypeOK
<1>. QED
  BY <1>1, <1>2, <1>3, <1>4 DEF StartupNext

LEMMA OutboxTypes ==
    ASSUME IInv, OutboxNext
    PROVE  TypeOK'
<1>. USE BoundsAssumption DEF IInv
<1>. PICK p \in 1 .. MaxOutbox :
        \/ Skip(p) \/ ReadTag(p) \/ Drop(p) \/ ReconnectForRelaunch(p)
        \/ Forward(p) \/ Observe(p) \/ ForwardFails(p)
  BY DEF OutboxNext
<1>1. p \in Positions /\ p # 0
  BY DEF Positions
<1>2. Passed(p) \in Consumer
  BY <1>1, ConsumerType DEF TypeOK
<1>3. p \in 1 .. Len(outbox) => outbox[p] \in Record /\ outbox[p].kind \in Kinds
  <2>1. outbox \in Seq(Record)
    BY DEF TypeOK
  <2>2. \A r \in Record : r.kind \in Kinds
    BY DEF Record
  <2>. QED
    BY <2>1, <2>2
<1>4. CASE Skip(p)
  BY <1>1, <1>2, <1>4, CheckpointType DEF Skip, TypeOK
<1>5. CASE ReadTag(p)
  <2>1. HoistedAfter(p) \in Positions
    BY DEF HoistedAfter, TypeOK, Consumer, Positions
  <2>2. p + 1 \in 1 .. MaxOutbox + 1
    OBVIOUS
  <2>3. st' \in Consumer
    BY <1>1, <1>5, <2>1, <2>2 DEF ReadTag, TypeOK, Consumer
  <2>. QED
    BY <1>5, <2>3 DEF ReadTag, TypeOK
<1>6. CASE Drop(p)
  BY <1>1, <1>2, <1>6, CheckpointType DEF Drop, TypeOK
<1>7. CASE ReconnectForRelaunch(p)
  BY <1>7, EndSessionType DEF ReconnectForRelaunch, TypeOK
<1>8. CASE Forward(p)
  <2>. p \in 1 .. Len(outbox) /\ pending \in Tracker
    BY <1>8 DEF Forward, Sendable, Reading, TypeOK
  <2>1. FirstSendAt(pending, outbox[p].kind, p) \in Tracker
    BY <1>1, <1>3, TrackerType
  <2>2. wire' \in Seq(Frame)
    BY <1>1, <1>8, SendFrameType DEF Forward
  <2>3. st' \in Consumer
    <3>1. Noted(p) \in SUBSET ActionIds
      BY NotedType
    <3>. QED
      BY <1>1, <1>8, <3>1, ConsumerType DEF Forward, TypeOK
  <2>. QED
    BY <1>8, <2>1, <2>2, <2>3 DEF Forward, TypeOK
<1>9. CASE Observe(p)
  <2>1. outbox[p].kind = "result" => outbox[p].id \in ActionIds
    BY <1>3, <1>9 DEF Observe, ConsumerOK, TypeOK, Record
  <2>2. pending' \in Tracker
    BY <1>9, <2>1 DEF Observe, TypeOK, Tracker
  <2>3. cursor' \in Positions \cup {NoCursor} /\ retry' \in BOOLEAN
    BY <1>1, <1>9, CheckpointType DEF Observe, TypeOK
  <2>4. unsaved' \subseteq Nat
    BY <1>9, UnsavedType DEF Observe, TypeOK
  <2>. QED
    BY <1>2, <1>9, <2>2, <2>3, <2>4 DEF Observe, TypeOK
<1>11. CASE ForwardFails(p)
  <2>. p \in 1 .. Len(outbox) /\ pending \in Tracker
    BY <1>11 DEF ForwardFails, Sendable, Reading, TypeOK
  <2>1. FirstSendAt(pending, outbox[p].kind, p) \in Tracker
    BY <1>1, <1>3, TrackerType
  <2>2. wire' \in Seq(Frame)
    BY <1>1, <1>11, SendFrameType DEF ForwardFails
  <2>. QED
    BY <1>11, <2>1, <2>2, EndSessionType DEF ForwardFails, TypeOK
<1>. QED
  BY <1>4, <1>5, <1>6, <1>7, <1>8, <1>9, <1>11

LEMMA ReceiveTypes ==
    ASSUME IInv, ReceiveNext
    PROVE  TypeOK'
<1>. USE DEF IInv
<1>1. ASSUME NEW i \in ActionIds, ReceiveAction(i)
      PROVE  TypeOK'
  <2>1. pending' \in Tracker
    BY <1>1 DEF ReceiveAction, TypeOK, Tracker
  <2>2. rx' \in Receiver
    BY <1>1 DEF ReceiveAction, Receiver
  <2>. QED
    BY <1>1, <2>1, <2>2 DEF ReceiveAction, TypeOK
<1>2. CASE DeliverToInbox
  <2>1. ActionLine(rx.id, session) \in InboxRecord
    BY <1>2 DEF DeliverToInbox, TypeOK, LaneOK, Receiver, ActionLine, InboxRecord
  <2>2. inbox' \in Seq(InboxRecord)
    BY <1>2, <2>1 DEF DeliverToInbox, TypeOK
  <2>3. rx' \in Receiver
    BY <1>2 DEF DeliverToInbox, Receiver
  <2>. QED
    BY <1>2, <2>2, <2>3 DEF DeliverToInbox, TypeOK
<1>3. CASE ReceiverDies
  <2>1. rx' \in Receiver
    BY <1>3 DEF ReceiverDies, Receiver
  <2>. QED
    BY <1>3, <2>1 DEF ReceiverDies, TypeOK
<1>. QED
  BY <1>1, <1>2, <1>3 DEF ReceiveNext

LEMMA TypeStep ==
    ASSUME IInv, [Next]_vars
    PROVE  TypeOK'
<1>1. ASSUME NEW rs \in Writes, ModWrites(rs)
      PROVE  TypeOK'
  <2>1. rs \in Seq(Record)
    BY WritesAssumption
  <2>2. outbox' \in Seq(Record) /\ Len(outbox') <= MaxOutbox
    BY <1>1, <2>1 DEF ModWrites, IInv, TypeOK
  <2>. QED
    BY <1>1, <2>2 DEF ModWrites, relayVars, IInv, TypeOK
<1>2. CASE UNCHANGED vars
  BY <1>2 DEF vars, relayVars, IInv, TypeOK
<1>. QED
  BY <1>1, <1>2, SessionTypes, StartupTypes, OutboxTypes, ReceiveTypes DEF Next, RelayNext

----------------------------------------------------------------------------
(* The parts of the invariant *)

(* The types, as numbers. *)
LEMMA Basics ==
    ASSUME TypeOK
    PROVE  /\ Len(outbox) \in Nat /\ lane \in Nat /\ session \in Nat /\ cursor \in Int
           /\ st.tail \in Nat /\ st.next \in Nat
           /\ \A k \in DOMAIN wire : wire[k].session \in Nat /\ wire[k].ok \in BOOLEAN
<1>1. Len(outbox) \in Nat
  BY DEF TypeOK
<1>2. lane \in Nat /\ session \in Nat /\ cursor \in Int
  BY BoundsAssumption DEF TypeOK, Positions, Sessions, NoCursor
<1>3. st.tail \in Nat /\ st.next \in Nat
  BY BoundsAssumption DEF TypeOK, Positions, Consumer
<1>4. ASSUME NEW k \in DOMAIN wire
      PROVE  wire[k].session \in Nat /\ wire[k].ok \in BOOLEAN
  <2>1. wire \in Seq(Frame)
    BY DEF TypeOK
  <2>2. wire[k] \in Frame
    BY <2>1
  <2>. QED
    BY <2>2, BoundsAssumption DEF Frame, Sessions
<1>. QED
  BY <1>1, <1>2, <1>3, <1>4

(* Every step leaves the outbox and the wire alone, or appends to one.     *)
Sends(p, ok) == SendFrame(p, ok) /\ UNCHANGED <<outbox, session>>

LEMMA StepShape ==
    ASSUME IInv, [Next]_vars
    PROVE  \/ UNCHANGED <<outbox, wire>> /\ session' \in {session, session + 1}
           \/ \E rs \in Writes : ModWrites(rs)
           \/ \E p \in 0 .. Len(outbox), ok \in BOOLEAN : Sends(p, ok)
<1>0. TypeOK /\ LaneOK
  BY DEF IInv
<1>b. Len(outbox) \in Nat /\ lane \in Nat
  BY <1>0, Basics
<1>1. CASE SessionNext \/ RetryCursor
  <2>1. CASE Stop
    BY <1>b, <2>1 DEF Stop, EndSession, Sends
  <2>. QED
    BY <1>1, <2>1 DEF SessionNext, StartProcess, OpenSession, OpenFails, LoseSession, Crash,
                      RetryCursor, EndSession
<1>2. CASE StartupNext
  <2>1. CASE Hoist \/ Connect
    BY <2>1 DEF Hoist, Connect
  <2>2. CASE SendStartup \/ SendStartupFails
    <3>. ws = "open"
      BY <2>2 DEF SendStartup, SendStartupFails
    <3>1. lane \in 0 .. Len(outbox)
      BY <1>0, <1>b DEF LaneOK
    <3>. QED
      BY <2>2, <3>1 DEF SendStartup, SendStartupFails, EndSession, Sends
  <2>. QED
    BY <1>2, <2>1, <2>2 DEF StartupNext
<1>3. CASE OutboxNext
  <2>. PICK p \in 1 .. MaxOutbox :
        \/ Skip(p) \/ ReadTag(p) \/ Drop(p) \/ ReconnectForRelaunch(p)
        \/ Forward(p) \/ Observe(p) \/ ForwardFails(p)
    BY <1>3 DEF OutboxNext
  <2>1. CASE Skip(p) \/ ReadTag(p) \/ Drop(p) \/ ReconnectForRelaunch(p) \/ Observe(p)
    BY <2>1 DEF Skip, ReadTag, Drop, ReconnectForRelaunch, Observe, EndSession
  <2>2. CASE Forward(p) \/ ForwardFails(p)
    <3>. Reading(p)
      BY <2>2 DEF Forward, ForwardFails, Sendable
    <3>1. p \in 0 .. Len(outbox)
      BY <1>b DEF Reading
    <3>. QED
      BY <2>2, <3>1 DEF Forward, ForwardFails, EndSession, Sends
  <2>. QED
    BY <2>1, <2>2
<1>4. CASE ReceiveNext
  BY <1>4 DEF ReceiveNext, ReceiveAction, DeliverToInbox, ReceiverDies
<1>5. CASE UNCHANGED vars
  BY <1>5 DEF vars, relayVars
<1>. QED
  BY <1>1, <1>2, <1>3, <1>4, <1>5 DEF Next, RelayNext

(* What a frame given to the socket leaves alone. *)
LEMMA Appended ==
    ASSUME TypeOK, NEW p, NEW ok, SendFrame(p, ok)
    PROVE  /\ DOMAIN wire' = DOMAIN wire \cup {Len(wire) + 1}
           /\ DOMAIN wire = 1 .. Len(wire) /\ Len(wire) \in Nat
           /\ \A k \in DOMAIN wire : wire'[k] = wire[k]
           /\ wire'[Len(wire) + 1] = [session |-> session, pos |-> p, ok |-> ok]
<1>1. wire \in Seq(Frame)
  BY DEF TypeOK
<1>. QED
  BY <1>1 DEF SendFrame

(* What the mod writes leaves alone. *)
LEMMA Written ==
    ASSUME TypeOK, NEW rs \in Writes, ModWrites(rs)
    PROVE  /\ Len(outbox') >= Len(outbox) /\ Len(outbox') \in Nat /\ Len(outbox) \in Nat
           /\ \A q \in 1 .. Len(outbox) : outbox'[q] = outbox[q]
<1>1. rs \in Seq(Record) /\ outbox \in Seq(Record)
  BY WritesAssumption DEF TypeOK
<1>. QED
  BY <1>1 DEF ModWrites

LEMMA WireStep ==
    ASSUME IInv, [Next]_vars
    PROVE  WireOK'
<1>. USE DEF IInv
<1>1. CASE UNCHANGED <<outbox, wire>> /\ session' \in {session, session + 1}
  BY <1>1, Basics DEF WireOK
<1>2. ASSUME NEW rs \in Writes, ModWrites(rs)
      PROVE  WireOK'
  <2>1. UNCHANGED <<wire, session>>
    BY <1>2 DEF ModWrites, relayVars
  <2>. QED
    BY <1>2, <2>1, Written DEF WireOK
<1>3. ASSUME NEW p \in 0 .. Len(outbox), NEW ok \in BOOLEAN, Sends(p, ok)
      PROVE  WireOK'
  <2>1. /\ DOMAIN wire' = DOMAIN wire \cup {Len(wire) + 1}
        /\ \A k \in DOMAIN wire : wire'[k] = wire[k]
        /\ wire'[Len(wire) + 1] = [session |-> session, pos |-> p, ok |-> ok]
    BY <1>3, Appended DEF Sends
  <2>. QED
    BY <1>3, <2>1, Basics DEF Sends, WireOK
<1>. QED
  BY <1>1, <1>2, <1>3, StepShape

LEMMA LaneStep ==
    ASSUME IInv, [Next]_vars
    PROVE  LaneOK'
<1>. USE DEF IInv
<1>0. session \in Nat
  BY Basics
<1>1. CASE SessionNext
  BY <1>0, <1>1 DEF SessionNext, StartProcess, OpenSession, OpenFails, LoseSession, Stop, Crash,
              EndSession, EndConsumer, StopReceiver, LaneOK, NewConsumer
<1>2. CASE RetryCursor
  BY <1>2 DEF RetryCursor, LaneOK
<1>3. CASE Hoist
  BY <1>3 DEF Hoist, LiveStartups, LaneOK
<1>4. CASE Connect
  BY <1>4 DEF Connect, LaneOK, AtLoop, TypeOK, Consumer
<1>5. CASE SendStartup
  BY <1>5 DEF SendStartup, LaneOK, AtLoop
<1>6. CASE SendStartupFails
  BY <1>6 DEF SendStartupFails, EndSession, EndConsumer, EndConsumer, StopReceiver, LaneOK
<1>7. CASE OutboxNext
  <2>. PICK p \in 1 .. MaxOutbox :
        \/ Skip(p) \/ ReadTag(p) \/ Drop(p) \/ ReconnectForRelaunch(p)
        \/ Forward(p) \/ Observe(p) \/ ForwardFails(p)
    BY <1>7 DEF OutboxNext
  <2>1. CASE ReconnectForRelaunch(p) \/ ForwardFails(p)
    <3>1. EndSession("idle")
      BY <2>1 DEF ReconnectForRelaunch, ForwardFails
    <3>. QED
      BY <3>1 DEF EndSession, EndConsumer, StopReceiver, LaneOK
  <2>2. CASE Skip(p) \/ ReadTag(p) \/ Drop(p) \/ Forward(p) \/ Observe(p)
    <3>1. /\ UNCHANGED <<outbox, lane, ws, rx, proc, session>> /\ proc = "running"
          /\ st'.onWire = st.onWire
      BY <2>2 DEF Skip, ReadTag, Drop, Forward, Observe, Sendable,
                  Reading, AtLoop, Passed, TypeOK, Consumer
    <3>. QED
      BY <3>1 DEF LaneOK
  <2>. QED
    BY <2>1, <2>2
<1>8. CASE ReceiveNext
  BY <1>8, NoIdAssumption DEF ReceiveNext, ReceiveAction, DeliverToInbox, ReceiverDies, LaneOK
<1>9. ASSUME NEW rs \in Writes, ModWrites(rs)
      PROVE  LaneOK'
  <2>1. UNCHANGED relayVars
    BY <1>9 DEF ModWrites
  <2>2. lane # 0 => lane \in 1 .. Len(outbox)
    BY BoundsAssumption DEF LaneOK, TypeOK, Positions
  <2>. QED
    BY <1>9, <2>1, <2>2, Written DEF relayVars, LaneOK
<1>10. CASE UNCHANGED vars
  BY <1>10 DEF vars, relayVars, LaneOK
<1>. QED
  BY <1>1, <1>2, <1>3, <1>4, <1>5, <1>6, <1>7, <1>8, <1>9, <1>10
  DEF Next, RelayNext, StartupNext

LEMMA ConsumerStep ==
    ASSUME IInv, [Next]_vars
    PROVE  ConsumerOK'
<1>. TypeOK /\ LaneOK /\ ConsumerOK
  BY DEF IInv
<1>b. /\ Len(outbox) \in Nat /\ cursor \in Int /\ st.tail \in Nat /\ st.next \in Nat
      /\ st \in Consumer
  BY Basics DEF TypeOK
<1>1. CASE StartProcess \/ Crash
  BY <1>1 DEF StartProcess, Crash, EndConsumer, ConsumerOK, LaneOK
<1>2. CASE OpenSession \/ OpenFails
  <2>1. ASSUME NEW tail \in 0 .. Len(outbox), ResumeAt(tail)
        PROVE  cursor' <= Len(outbox)
    BY <1>b, <2>1 DEF ResumeAt, ConsumerOK
  <2>2. CASE OpenSession
    <3>1. PICK tail \in 0 .. Len(outbox) : ResumeAt(tail) /\ st' = NewConsumer(tail)
      BY <2>2 DEF OpenSession
    <3>. QED
      BY <1>b, <2>1, <2>2, <3>1 DEF OpenSession, NewConsumer, ConsumerOK
  <2>3. CASE OpenFails
    BY <1>b, <2>1, <2>3 DEF OpenFails, ConsumerOK, LaneOK
  <2>. QED
    BY <1>2, <2>2, <2>3
<1>3. ASSUME EndSession("idle") \/ EndSession("down"), proc = "running"
      PROVE  ConsumerOK'
  BY <1>3, <1>b DEF EndSession, EndConsumer, Finish, ConsumerOK
<1>4. CASE Stop \/ LoseSession
  BY <1>3, <1>4 DEF Stop, LoseSession, AtLoop, ConsumerOK
<1>5. CASE RetryCursor
  BY <1>5 DEF RetryCursor, AtLoop, ConsumerOK
<1>6. CASE Hoist \/ Connect \/ ReceiveNext
  BY <1>b, <1>6 DEF Hoist, Connect, ReceiveNext, ReceiveAction, DeliverToInbox, ReceiverDies,
                    AtLoop, ConsumerOK, Consumer
<1>7. CASE SendStartup
  BY <1>b, <1>7 DEF SendStartup, AtLoop, ConsumerOK, Consumer
<1>8. CASE SendStartupFails
  BY <1>3, <1>8 DEF SendStartupFails, AtLoop
<1>9. CASE OutboxNext
  <2>. PICK p \in 1 .. MaxOutbox :
        \/ Skip(p) \/ ReadTag(p) \/ Drop(p) \/ ReconnectForRelaunch(p)
        \/ Forward(p) \/ Observe(p) \/ ForwardFails(p)
    BY <1>9 DEF OutboxNext
  <2>1. CASE ReconnectForRelaunch(p) \/ ForwardFails(p)
    BY <1>3, <2>1 DEF ReconnectForRelaunch, ForwardFails, Sendable, Reading, AtLoop
  <2>2. CASE Skip(p) \/ Drop(p) \/ Observe(p)
    <3>1. p <= Len(outbox)
      BY <2>2 DEF Skip, Drop, Observe, Reading, ConsumerOK
    <3>2. st' = Passed(p) /\ pc' = "loop" /\ UNCHANGED <<outbox, proc>>
      BY <2>2 DEF Skip, Drop, Observe, Reading, AtLoop
    <3>3. st'.tail = p /\ st'.next = p + 1
      BY <1>b, <3>2 DEF Passed, Consumer
    <3>4. cursor' \in {p, cursor}
      BY <2>2 DEF Skip, Drop, Observe, Checkpoint
    <3>. QED
      BY <1>b, <3>1, <3>2, <3>3, <3>4 DEF ConsumerOK
  <2>3. CASE ReadTag(p)
    BY <1>b, <2>3 DEF ReadTag, Reading, AtLoop, ConsumerOK, Consumer
  <2>4. CASE Forward(p)
    BY <1>b, <2>4 DEF Forward, Sendable, Reading, Forwardable, AtLoop, ConsumerOK, Consumer
  <2>. QED
    BY <2>1, <2>2, <2>3, <2>4
<1>10. ASSUME NEW rs \in Writes, ModWrites(rs)
      PROVE  ConsumerOK'
  <2>1. UNCHANGED relayVars
    BY <1>10 DEF ModWrites
  <2>2. /\ Len(outbox') >= Len(outbox) /\ Len(outbox') \in Nat
        /\ \A q \in 1 .. Len(outbox) : outbox'[q] = outbox[q]
    BY <1>10, Written
  <2>3. pc = "sent" => st.next \in 1 .. Len(outbox)
    BY <1>b DEF ConsumerOK, Consumer
  <2>. QED
    BY <1>b, <2>1, <2>2, <2>3 DEF relayVars, ConsumerOK
<1>11. CASE UNCHANGED vars
  BY <1>11 DEF vars, relayVars, ConsumerOK
<1>. QED
  BY <1>1, <1>2, <1>4, <1>5, <1>6, <1>7, <1>8, <1>9, <1>10, <1>11
  DEF Next, RelayNext, SessionNext, StartupNext

(* Frames keep their kind and id. *)
LEMMA FramesKept ==
    ASSUME IInv, [Next]_vars, NEW k \in DOMAIN wire
    PROVE  /\ k \in DOMAIN wire' /\ wire'[k] = wire[k]
           /\ Kind(k)' = Kind(k) /\ Id(k)' = Id(k)
<1>. TypeOK /\ WireOK
  BY DEF IInv
<1>0. wire[k].pos \in 0 .. Len(outbox)
  BY DEF WireOK
<1>1. CASE UNCHANGED <<outbox, wire>>
  BY <1>1 DEF Kind, Id
<1>2. ASSUME NEW rs \in Writes, ModWrites(rs)
      PROVE  wire' = wire /\ (wire[k].pos # 0 => outbox'[wire[k].pos] = outbox[wire[k].pos])
  <2>1. UNCHANGED wire
    BY <1>2 DEF ModWrites, relayVars
  <2>. QED
    BY <1>0, <1>2, <2>1, Written
<1>3. ASSUME NEW p \in 0 .. Len(outbox), NEW ok \in BOOLEAN, Sends(p, ok)
      PROVE  /\ k \in DOMAIN wire' /\ wire'[k] = wire[k] /\ outbox' = outbox
  BY <1>3, Appended DEF Sends
<1>4. k \in DOMAIN wire' /\ wire'[k] = wire[k]
  BY <1>1, <1>2, <1>3, StepShape
<1>5. wire[k].pos # 0 => outbox'[wire[k].pos] = outbox[wire[k].pos]
  BY <1>1, <1>2, <1>3, StepShape
<1>6. Kind(k)' = Kind(k)
  BY <1>4, <1>5 DEF Kind
<1>7. Id(k)' = Id(k)
  BY <1>4, <1>5 DEF Id
<1>. QED
  BY <1>4, <1>6, <1>7

(* A frame that was not there before was sent for this session.            *)
LEMMA NewFrame ==
    ASSUME IInv, NEW p, NEW ok, SendFrame(p, ok), UNCHANGED outbox, NEW k \in OnWire'
    PROVE  \/ k \in OnWire
           \/ /\ ok /\ wire'[k].session = session /\ wire'[k].pos = p
              /\ p # 0 => Kind(k)' = outbox[p].kind /\ Id(k)' = outbox[p].id
              /\ p = 0 => Kind(k)' = "farewell"
<1>1. /\ DOMAIN wire' = DOMAIN wire \cup {Len(wire) + 1}
      /\ \A j \in DOMAIN wire : wire'[j] = wire[j]
      /\ wire'[Len(wire) + 1] = [session |-> session, pos |-> p, ok |-> ok]
  BY Appended DEF IInv
<1>2. k \in DOMAIN wire' /\ wire'[k].ok
  BY DEF OnWire
<1>3. CASE k \in DOMAIN wire
  BY <1>1, <1>2, <1>3 DEF OnWire
<1>4. CASE k = Len(wire) + 1
  BY <1>1, <1>2, <1>4 DEF Kind, Id
<1>. QED
  BY <1>1, <1>2, <1>3, <1>4

LEMMA ObservedStep ==
    ASSUME IInv, [Next]_vars
    PROVE  Observed'
<1>. TypeOK /\ WireOK /\ LaneOK /\ ConsumerOK /\ Observed
  BY DEF IInv
<1>b. /\ st \in Consumer /\ pending \in Tracker /\ session \in Nat
      /\ \A k \in DOMAIN wire : wire[k].session \in Nat
  BY Basics DEF TypeOK
<1>k. ASSUME UNCHANGED wire
      PROVE  OnWire' = OnWire /\ \A k \in OnWire : Kind(k)' = Kind(k) /\ Id(k)' = Id(k)
  <2>1. OnWire' = OnWire /\ OnWire \subseteq DOMAIN wire
    BY <1>k DEF OnWire
  <2>. QED
    BY <2>1, FramesKept
<1>1. ASSUME proc' # "running"
      PROVE  Observed'
  BY <1>1 DEF Observed
<1>2. CASE OpenSession
  BY <1>2, <1>b, <1>k DEF OpenSession, Observed, WireOK, OnWire
<1>3. CASE StartProcess \/ Crash \/ OpenFails \/ LoseSession \/ Stop
  BY <1>1, <1>3 DEF StartProcess, Crash, OpenFails, LoseSession, Stop, EndSession
<1>4. ASSUME UNCHANGED <<proc, wire, session, pc>>, proc = "running",
             st'.onWire = st.onWire, st'.next = st.next \/ pc # "sent",
             pending'.answered = pending.answered \/ ~ st.onWire
      PROVE  Observed'
  BY <1>4, <1>k DEF Observed
<1>5. CASE RetryCursor \/ Hoist
  BY <1>4, <1>5 DEF RetryCursor, Hoist, AtLoop
<1>6. CASE Connect
  BY <1>4, <1>6, <1>b DEF Connect, AtLoop, LaneOK, Consumer
<1>7. CASE SendStartup
  <2>1. lane \in 1 .. Len(outbox) /\ outbox[lane].kind = "startup"
    BY <1>7, Basics DEF SendStartup, LaneOK
  <2>2. ASSUME NEW k \in OnWire'
        PROVE  k \in OnWire \/ Kind(k)' = "startup"
    <3>1. SendFrame(lane, TRUE) /\ UNCHANGED outbox
      BY <1>7 DEF SendStartup
    <3>2. lane # 0
      BY <2>1
    <3>. QED
      BY <2>1, <3>1, <3>2, NewFrame
  <2>3. ASSUME NEW k \in OnWire
        PROVE  wire'[k] = wire[k] /\ wire[k].session # session
    BY <1>7, FramesKept DEF SendStartup, AtLoop, Observed, OnWire
  <2>4. st'.onWire
    BY <1>7, <1>b DEF SendStartup, Consumer
  <2>. QED
    BY <1>7, <2>2, <2>3, <2>4 DEF SendStartup, Observed
<1>8. CASE SendStartupFails
  BY <1>1, <1>8 DEF SendStartupFails, EndSession
<1>9. CASE OutboxNext
  <2>. PICK p \in 1 .. MaxOutbox :
        \/ Skip(p) \/ ReadTag(p) \/ Drop(p) \/ ReconnectForRelaunch(p)
        \/ Forward(p) \/ Observe(p) \/ ForwardFails(p)
    BY <1>9 DEF OutboxNext
  <2>0. Passed(p).onWire = st.onWire
    BY <1>b DEF Passed, Consumer
  <2>1. CASE ReconnectForRelaunch(p) \/ ForwardFails(p)
    BY <1>1, <2>1 DEF ReconnectForRelaunch, ForwardFails, EndSession
  <2>2. CASE Skip(p) \/ Drop(p)
    BY <1>4, <2>0, <2>2 DEF Skip, Drop, Reading, AtLoop
  <2>3. CASE ReadTag(p)
    <3>1. st'.onWire = st.onWire
      BY <1>b, <2>3 DEF ReadTag, Consumer
    <3>. QED
      BY <1>4, <2>3, <3>1 DEF ReadTag, Reading, AtLoop
  <2>4. CASE Forward(p)
    <3>1. p \in 1 .. Len(outbox) /\ p = st.next /\ st.onWire /\ pc = "loop" /\ proc = "running"
      BY <2>4, Basics DEF Forward, Sendable, Reading, AtLoop
    <3>2. pending'.answered = pending.answered
      BY <1>b, <2>4 DEF Forward, FirstSendAt, Tracker
    <3>3. ASSUME NEW k \in OnWire'
          PROVE  k \in OnWire \/ wire'[k].pos = p
      BY <2>4, <3>1, NewFrame DEF Forward
    <3>4. ASSUME NEW k \in OnWire
          PROVE  wire'[k] = wire[k] /\ Kind(k)' = Kind(k) /\ Id(k)' = Id(k)
      BY FramesKept DEF OnWire
    <3>5. st'.onWire = st.onWire /\ st'.next = st.next
      BY <1>b, <2>4 DEF Forward, Consumer
    <3>. QED
      BY <2>4, <3>1, <3>2, <3>3, <3>4, <3>5 DEF Forward, Observed
  <2>5. CASE Observe(p)
    <3>1. /\ pending.answered \subseteq pending'.answered
          /\ outbox[p].kind = "result" => outbox[p].id \in pending'.answered
      BY <1>b, <2>5 DEF Observe, Tracker
    <3>2. ASSUME NEW k \in OnWire, wire[k].pos = p
          PROVE  Kind(k) = outbox[p].kind /\ Id(k) = outbox[p].id
      BY <3>2 DEF Kind, Id
    <3>3. st.onWire /\ p = st.next /\ proc = "running" /\ st'.onWire
      BY <2>0, <2>5 DEF Observe, ConsumerOK
    <3>4. UNCHANGED <<wire, outbox, session>> /\ OnWire' = OnWire
      BY <2>5 DEF Observe, OnWire
    <3>5. ASSUME NEW k \in OnWire, wire[k].session = session, Kind(k) = "result"
          PROVE  Id(k) \in pending'.answered
      BY <3>1, <3>2, <3>3, <3>5 DEF Observed
    <3>. QED
      BY <3>3, <3>4, <3>5 DEF Observed, Kind, Id
  <2>. QED
    BY <2>1, <2>2, <2>3, <2>4, <2>5
<1>10. CASE ReceiveNext
  <2>1. pending'.answered = pending.answered
    BY <1>10, <1>b DEF ReceiveNext, ReceiveAction, DeliverToInbox, ReceiverDies, Tracker
  <2>2. proc = "running"
    BY <1>10 DEF ReceiveNext, ReceiveAction, DeliverToInbox, ReceiverDies, LaneOK
  <2>. QED
    BY <1>4, <1>10, <2>1, <2>2
    DEF ReceiveNext, ReceiveAction, DeliverToInbox, ReceiverDies
<1>11. CASE (\E rs \in Writes : ModWrites(rs)) \/ UNCHANGED vars
  <2>1. UNCHANGED relayVars
    BY <1>11 DEF ModWrites, vars
  <2>. QED
    BY <1>1, <1>4, <2>1 DEF relayVars
<1>. QED
  BY <1>2, <1>3, <1>5, <1>6, <1>7, <1>8, <1>9, <1>10, <1>11
  DEF Next, RelayNext, SessionNext, StartupNext

LEMMA OneResultStep ==
    ASSUME IInv, [Next]_vars
    PROVE  OneResultPerConnection'
<1>. TypeOK /\ WireOK /\ LaneOK /\ ConsumerOK /\ Observed /\ OneResultPerConnection
  BY DEF IInv
<1>1. ASSUME \A k \in OnWire' : k \in OnWire \/ Kind(k)' # "result"
      PROVE  OneResultPerConnection'
  BY <1>1, FramesKept DEF OneResultPerConnection, OnWire
<1>2. CASE UNCHANGED wire
  BY <1>1, <1>2 DEF OnWire
<1>3. ASSUME NEW p, SendFrame(p, FALSE), UNCHANGED outbox
      PROVE  OneResultPerConnection'
  BY <1>1, <1>3, NewFrame
<1>4. ASSUME NEW p \in 1 .. Len(outbox), SendFrame(p, TRUE), UNCHANGED outbox,
             outbox[p].kind # "result"
      PROVE  OneResultPerConnection'
  BY <1>1, <1>4, NewFrame
<1>5. ASSUME NEW p \in 1 .. Len(outbox), Forward(p), outbox[p].kind = "result"
      PROVE  OneResultPerConnection'
  <2>1. /\ proc = "running" /\ pc = "loop" /\ outbox[p].id \notin pending.answered
        /\ SendFrame(p, TRUE) /\ UNCHANGED outbox
    BY <1>5 DEF Forward, Sendable, Reading, AtLoop, Forwardable, Suppressed
  <2>2. ASSUME NEW j \in OnWire, wire[j].session = session, Kind(j) = "result"
        PROVE  Id(j) # outbox[p].id
    BY <2>1, <2>2 DEF Observed
  <2>3. ASSUME NEW k \in OnWire'
        PROVE  \/ k \in OnWire
               \/ wire'[k].session = session /\ Id(k)' = outbox[p].id /\ k = Len(wire) + 1
    <3>1. DOMAIN wire' = DOMAIN wire \cup {Len(wire) + 1}
      BY <2>1, Appended
    <3>2. k \in OnWire \/ (wire'[k].session = session /\ Id(k)' = outbox[p].id)
      <4>1. p # 0
        OBVIOUS
      <4>. QED
        BY <2>1, <4>1, NewFrame
    <3>3. k \in DOMAIN wire => k \in OnWire
      BY FramesKept DEF OnWire
    <3>. QED
      BY <3>1, <3>2, <3>3 DEF OnWire
  <2>4. ASSUME NEW k \in OnWire
        PROVE  wire'[k] = wire[k] /\ Kind(k)' = Kind(k) /\ Id(k)' = Id(k)
    BY FramesKept DEF OnWire
  <2>. QED
    BY <2>2, <2>3, <2>4 DEF OneResultPerConnection
<1>6. CASE OutboxNext
  <2>. PICK p \in 1 .. MaxOutbox :
        \/ Skip(p) \/ ReadTag(p) \/ Drop(p) \/ ReconnectForRelaunch(p)
        \/ Forward(p) \/ Observe(p) \/ ForwardFails(p)
    BY <1>6 DEF OutboxNext
  <2>1. CASE Skip(p) \/ ReadTag(p) \/ Drop(p) \/ ReconnectForRelaunch(p) \/ Observe(p)
    BY <1>2, <2>1 DEF Skip, ReadTag, Drop, ReconnectForRelaunch, Observe
  <2>2. CASE Forward(p) \/ ForwardFails(p)
    <3>. Reading(p)
      BY <2>2 DEF Forward, ForwardFails, Sendable
    <3>1. p \in 1 .. Len(outbox)
      BY Basics DEF Reading
    <3>2. CASE Forward(p) /\ outbox[p].kind # "result"
      BY <1>4, <3>1, <3>2 DEF Forward
    <3>3. CASE ForwardFails(p)
      BY <1>3, <3>1, <3>3 DEF ForwardFails, EndSession
    <3>. QED
      BY <1>5, <2>2, <3>1, <3>2, <3>3
  <2>. QED
    BY <2>1, <2>2
<1>7. CASE StartupNext
  <2>1. CASE Hoist \/ Connect
    BY <1>2, <2>1 DEF Hoist, Connect
  <2>2. CASE SendStartup \/ SendStartupFails
    <3>. ws = "open"
      BY <2>2 DEF SendStartup, SendStartupFails
    <3>1. lane \in 1 .. Len(outbox) /\ outbox[lane].kind = "startup"
      BY Basics DEF LaneOK
    <3>. QED
      BY <1>3, <1>4, <2>2, <3>1 DEF SendStartup, SendStartupFails, EndSession
  <2>. QED
    BY <1>7, <2>1, <2>2 DEF StartupNext
<1>0. ASSUME SendFrame(0, TRUE), UNCHANGED outbox
      PROVE  OneResultPerConnection'
  <2>1. 0 \in 0 .. Len(outbox)
    BY Basics
  <2>. QED
    BY <1>1, <1>0, <2>1, NewFrame
<1>f. CASE Stop
  <2>1. 0 \in 0 .. Len(outbox)
    BY Basics
  <2>. QED
    BY <1>0, <1>2, <1>3, <1>f, <2>1 DEF Stop, EndSession
<1>8. CASE SessionNext \/ RetryCursor \/ ReceiveNext
  BY <1>2, <1>8, <1>f DEF SessionNext, StartProcess, OpenSession, OpenFails, LoseSession, Crash,
     RetryCursor, ReceiveNext, ReceiveAction, DeliverToInbox, ReceiverDies
<1>9. CASE (\E rs \in Writes : ModWrites(rs)) \/ UNCHANGED vars
  BY <1>2, <1>9 DEF ModWrites, relayVars, vars
<1>. QED
  BY <1>6, <1>7, <1>8, <1>9 DEF Next, RelayNext

----------------------------------------------------------------------------
(* The invariant is inductive *)

LEMMA InitInvariant == Init => IInv
<1>. SUFFICES ASSUME Init PROVE IInv
  OBVIOUS
<1>1. TypeOK
  <2>1. 0 \in Positions /\ 0 \in Sessions /\ 1 \in 1 .. MaxOutbox + 1
    BY BoundsAssumption DEF Positions, Sessions
  <2>2. st \in Consumer
    BY <2>1 DEF Init, NewConsumer, Consumer
  <2>3. pending \in Tracker
    BY DEF Init, NewTracker, Tracker
  <2>4. rx \in Receiver
    BY DEF Init, Receiver
  <2>5. outbox \in Seq(Record) /\ Len(outbox) <= MaxOutbox /\ inbox \in Seq(InboxRecord)
    BY BoundsAssumption DEF Init
  <2>6. wire \in Seq(Frame) /\ since \in Sessions
    BY <2>1 DEF Init
  <2>. QED
    BY <2>1, <2>2, <2>3, <2>4, <2>5, <2>6 DEF Init, TypeOK
<1>2. DOMAIN wire = {} /\ OnWire = {}
  BY DEF Init, OnWire
<1>3. ConsumerOK
  BY <1>1, BoundsAssumption DEF Init, ConsumerOK, NoCursor
<1>. QED
  BY <1>1, <1>2, <1>3 DEF Init, IInv, WireOK, LaneOK, Observed, OneResultPerConnection

LEMMA Invariant == Spec => []IInv
<1>1. IInv /\ [Next]_vars => IInv'
  BY TypeStep, WireStep, LaneStep, ConsumerStep, ObservedStep, OneResultStep DEF IInv
<1>. QED
  BY <1>1, InitInvariant, PTL DEF Spec

(* Every variable of the relay stays in its type: in particular the        *)
(* consumer never reads outside the outbox, and only a startup is hoisted. *)
THEOREM TypeCorrect == Spec => []TypeOK
<1>1. IInv => TypeOK
  BY DEF IInv
<1>. QED
  BY <1>1, Invariant, PTL

(* A connection carries at most one result for an action id, whatever the  *)
(* mod writes, however often sessions end and the outbox is read again,    *)
(* and wherever the process is killed (obligations.rs, session.rs).        *)
THEOREM OneResult == Spec => []OneResultPerConnection
<1>1. IInv => OneResultPerConnection
  BY DEF IInv
<1>. QED
  BY <1>1, Invariant, PTL

----------------------------------------------------------------------------
(* The relay: what is on the wire                                          *)

(* The game and the startup of the running connection: its first frame is  *)
(* the startup of the lane, and every frame is of its game.                *)
Started ==
    /\ lane # 0 => outbox[lane].game # NoGame
    /\ ws = "open" => st.game = outbox[lane].game
    /\ proc = "running" =>
         /\ ~ st.onWire => \A k \in DOMAIN wire : wire[k].session # session
         /\ st.onWire =>
              \E j \in OnWire :
                 /\ wire[j].session = session /\ wire[j].pos = lane
                 /\ \A k \in DOMAIN wire : wire[k].session = session =>
                       /\ j <= k /\ wire[k].pos # 0
                       /\ outbox[wire[k].pos].game = st.game

(* Where the consumer reads. Between its tail and the next record there    *)
(* are tags only; while it supersedes, it has not reached the startup.     *)
Reader ==
    proc = "running" =>
        /\ st.tail < st.next
        /\ \A q \in st.tail + 1 .. st.next - 1 : outbox[q].kind = "tag"
        /\ ~ st.onWire => /\ st.next = st.tail + 1 /\ st.hoisted = 0
                          /\ lane # 0 => st.next <= lane
        /\ st.onWire => \/ st.hoisted = 0 /\ lane < st.next
                        \/ st.hoisted = lane /\ st.next <= lane
        /\ st.tag # 0 => st.tag < st.next /\ outbox[st.tag].kind = "tag"
        /\ pc = "sent" => st.hoisted = 0 \/ outbox[st.next].kind \notin ClearedKinds

(* The frame just sent, of the record the consumer has not yet passed.      *)
LastSent ==
    pc = "sent" => /\ Len(wire) \in OnWire /\ wire[Len(wire)].session = session
                   /\ wire[Len(wire)].pos = st.next

(* The last startup of its game that the consumer has passed is on the     *)
(* wire, once it supersedes no more.                                       *)
Caught(q, p, g) ==
    /\ q < p /\ outbox[q].kind = "startup" /\ outbox[q].game = g
    /\ \A r \in q + 1 .. p - 1 : ~ (outbox[r].kind = "startup" /\ outbox[r].game = g)
CaughtUp ==
    proc = "running" /\ st.onWire /\ st.hoisted = 0 =>
        \E j \in OnWire : wire[j].session = session /\ Caught(wire[j].pos, st.next, st.game)

(* A position a session may begin at.                                      *)
Rests(c) ==
    c > 0 /\ outbox[c].kind = "tag" => c < Len(outbox) /\ outbox[c + 1].kind # "startup"
Resting == Rests(cursor) /\ (proc = "running" => Rests(st.tail))

(* The durable cursor does not run ahead of the consumer.                   *)
Behind == proc = "running" => cursor <= st.tail

(* A context of the only game there is was given to a socket.               *)
Given(p) ==
    outbox[p].kind = "context" /\ OnlyGame(outbox[p].game)
    => \E k \in DOMAIN wire : wire[k].pos = p
GivenUp ==
    /\ \A p \in base + 1 .. cursor : Given(p)
    /\ proc = "running" => \A p \in base + 1 .. st.tail : Given(p)

(* While it is not full, the memory of what was sent is exact.              *)
Remembers(memory, kind) ==
    /\ memory \subseteq Attempted(kind)
    /\ Cardinality(Attempted(kind)) < MaxTracked => Attempted(kind) \subseteq memory
Memory ==
    proc # "down" =>
        Remembers(pending.forces, "force") /\ Remembers(pending.contexts, "context")

(* The actions in the inbox are those the tracker knows: as delivered, or  *)
(* as of an earlier connection.                                            *)
Knows ==
    /\ \A n \in DOMAIN inbox : inbox[n].session <= session
    /\ proc # "down" => since <= session
    /\ proc = "running" => since < session
    /\ rx.state = "delivering" => rx.id \in pending.delivered
    /\ \A n \in DOMAIN inbox : inbox[n].id # NoId /\ since < inbox[n].session =>
         /\ proc = "running" /\ inbox[n].session = session =>
              ws = "open" /\ inbox[n].id \in pending.delivered
                /\ (rx.state = "delivering" => inbox[n].id # rx.id)
         /\ proc = "running" /\ inbox[n].session < session => inbox[n].id \in pending.earlier
         /\ proc = "idle" => inbox[n].id \in pending.earlier \cup pending.delivered

(* What the connection holds registered, at every step.                     *)
Registered == proc = "running" => st.registered = RegisteredOn(session)

WireInv ==
    /\ IInv /\ Started /\ Reader /\ LastSent /\ CaughtUp /\ Resting /\ Behind /\ GivenUp /\ Memory
    /\ Knows /\ Registered
    /\ CatalogueFresh /\ OneLaunchPerConnection /\ CursorNotOnTag /\ ForceCheckpointed
    /\ NoContextPassed /\ NoReplay /\ InboxInSessions /\ NoStaleResult

----------------------------------------------------------------------------
(* The steps, as far as the wire and the consumer see them *)

LEMMA Facts ==
    ASSUME IInv
    PROVE  /\ st \in Consumer /\ pending \in Tracker /\ outbox \in Seq(Record)
           /\ Len(outbox) \in Nat /\ session \in Nat /\ lane \in Nat
           /\ st.tail \in Nat /\ st.next \in Nat /\ st.next # 0 /\ st.hoisted \in Nat /\ st.tag \in Nat
           /\ cursor \in Int /\ base \in Nat
           /\ lane # 0 => lane \in 1 .. Len(outbox) /\ outbox[lane].kind = "startup"
           /\ \A q \in 1 .. Len(outbox) : outbox[q] \in Record
           /\ Len(wire) \in Nat /\ DOMAIN wire = 1 .. Len(wire) /\ OnWire \subseteq DOMAIN wire
           /\ \A k \in DOMAIN wire :
                 /\ wire[k].pos \in 0 .. Len(outbox) /\ wire[k].pos \in Nat
                 /\ wire[k].session \in Nat /\ wire[k].session <= session
<1>. TypeOK /\ WireOK /\ LaneOK
  BY DEF IInv
<1>1. /\ st \in Consumer /\ pending \in Tracker /\ outbox \in Seq(Record) /\ wire \in Seq(Frame)
      /\ cursor \in Positions \cup {NoCursor} /\ base \in Positions
  BY DEF TypeOK
<1>2. /\ st.tail \in Nat /\ st.next \in Nat /\ st.next # 0 /\ st.hoisted \in Nat /\ st.tag \in Nat
      /\ cursor \in Int /\ base \in Nat
  BY <1>1, BoundsAssumption DEF Consumer, Positions, NoCursor
<1>3. Len(outbox) \in Nat /\ session \in Nat /\ lane \in Nat
  BY Basics
<1>4. lane # 0 => lane \in 1 .. Len(outbox) /\ outbox[lane].kind = "startup"
  BY <1>3 DEF LaneOK
<1>5. Len(wire) \in Nat /\ DOMAIN wire = 1 .. Len(wire) /\ OnWire \subseteq DOMAIN wire
  BY <1>1 DEF OnWire
<1>6. ASSUME NEW k \in DOMAIN wire
      PROVE  /\ wire[k].pos \in 0 .. Len(outbox) /\ wire[k].pos \in Nat
             /\ wire[k].session \in Nat /\ wire[k].session <= session
  BY <1>3, <1>6, Basics DEF WireOK
<1>. QED
  BY <1>1, <1>2, <1>3, <1>4, <1>5, <1>6

Passes(p) == Skip(p) \/ Drop(p) \/ Observe(p)

(* The consumer does something with the record p.                           *)
Moves(p) ==
    /\ proc = "running" /\ st.onWire /\ p = st.next /\ p \in 1 .. Len(outbox)
    /\ UNCHANGED <<outbox, proc, session, lane, ws, since, base>>
    /\ Passes(p) \/ ReadTag(p) \/ Forward(p)

(* No session runs after the step.                                          *)
Ends ==
    /\ proc' # "running" /\ UNCHANGED outbox /\ session' \in {session, session + 1}
    /\ \/ lane' = 0 /\ ws' = "none"
       \/ UNCHANGED <<lane, ws, st>>
    /\ \/ UNCHANGED wire
       \/ /\ proc = "running" /\ session' = session
          /\ \/ SendFrame(lane, FALSE) /\ lane # 0 /\ ~ st.onWire
             \/ SendFrame(st.next, FALSE) /\ st.next \in 1 .. Len(outbox)
             \/ st.onWire /\ \E ok \in BOOLEAN : SendFrame(0, ok)

Still == UNCHANGED <<outbox, wire, proc, session, lane, ws, st, pc, since, base>>

LEMMA Shapes ==
    ASSUME IInv, [Next]_vars
    PROVE  \/ Still \/ Ends \/ OpenSession \/ Hoist \/ Connect \/ SendStartup
           \/ (\E p \in 1 .. Len(outbox) : Moves(p))
           \/ \E rs \in Writes : ModWrites(rs)
<1>. TypeOK /\ LaneOK /\ ConsumerOK
  BY DEF IInv
<1>1. CASE SessionNext
  <2>1. CASE Stop
    BY <2>1 DEF Stop, AtLoop, EndSession, EndConsumer, Ends
  <2>2. CASE StartProcess \/ OpenFails \/ LoseSession \/ Crash
    <3>1. CASE OpenFails
      BY <3>1, Facts DEF OpenFails, Ends
    <3>. QED
      BY <2>2, <3>1 DEF StartProcess, LoseSession, Crash, EndSession, EndConsumer, Ends
  <2>. QED
    BY <1>1, <2>1, <2>2 DEF SessionNext
<1>2. CASE RetryCursor \/ ReceiveNext \/ UNCHANGED vars
  BY <1>2 DEF RetryCursor, ReceiveNext, ReceiveAction, DeliverToInbox, ReceiverDies, Still,
              vars, relayVars
<1>3. CASE StartupNext
  <2>1. CASE SendStartupFails
    BY <2>1, Facts DEF SendStartupFails, AtLoop, LaneOK, EndSession, EndConsumer, Ends
  <2>. QED
    BY <1>3, <2>1 DEF StartupNext
<1>4. CASE OutboxNext
  <2>. PICK p \in 1 .. MaxOutbox :
        \/ Skip(p) \/ ReadTag(p) \/ Drop(p) \/ ReconnectForRelaunch(p)
        \/ Forward(p) \/ Observe(p) \/ ForwardFails(p)
    BY <1>4 DEF OutboxNext
  <2>0. p \in Nat /\ p # 0
    BY BoundsAssumption
  <2>1. CASE ReconnectForRelaunch(p)
    BY <2>1 DEF ReconnectForRelaunch, EndSession, EndConsumer, Ends
  <2>2. CASE ForwardFails(p)
    <3>1. p \in 1 .. Len(outbox) /\ p = st.next /\ proc = "running"
      BY <2>0, <2>2, Facts DEF ForwardFails, Sendable, Reading, AtLoop
    <3>. QED
      BY <2>2, <3>1 DEF ForwardFails, EndSession, EndConsumer, Ends
  <2>3. CASE Observe(p)
    <3>1. p \in 1 .. Len(outbox) /\ p = st.next /\ proc = "running" /\ st.onWire
      BY <2>0, <2>3, Facts DEF Observe, ConsumerOK
    <3>. QED
      BY <2>3, <3>1 DEF Observe, Moves, Passes
  <2>4. CASE Skip(p) \/ ReadTag(p) \/ Drop(p) \/ Forward(p)
    <3>1. p \in 1 .. Len(outbox) /\ p = st.next /\ proc = "running" /\ st.onWire
      <4>1. Reading(p)
        BY <2>4 DEF Skip, ReadTag, Drop, Forward, Sendable
      <4>. QED
        BY <2>0, <4>1, Facts DEF Reading, AtLoop
    <3>. QED
      BY <2>4, <3>1 DEF Skip, ReadTag, Drop, Forward, Moves, Passes
  <2>. QED
    BY <2>1, <2>2, <2>3, <2>4
<1>. QED
  BY <1>1, <1>2, <1>3, <1>4 DEF Next, RelayNext

(* What passing, sending or remembering a record makes of the consumer.     *)
LEMMA MoveFact ==
    ASSUME IInv, NEW p \in 1 .. Len(outbox), Moves(p)
    PROVE  /\ st'.game = st.game /\ st'.onWire
           /\ Passes(p) =>
                 /\ st'.tail = p /\ st'.next = p + 1 /\ st'.hoisted = HoistedAfter(p)
                 /\ st'.tag = st.tag /\ st'.registered = st.registered
                 /\ pc' = "loop" /\ UNCHANGED wire
           /\ ReadTag(p) =>
                 /\ st'.tail = st.tail /\ st'.next = p + 1 /\ st'.hoisted = HoistedAfter(p)
                 /\ st'.tag = p /\ st'.registered = st.registered /\ UNCHANGED <<wire, pc>>
           /\ Forward(p) =>
                 /\ st'.tail = st.tail /\ st'.next = st.next /\ st'.hoisted = st.hoisted
                 /\ st'.tag = st.tag /\ st'.registered = Noted(p)
                 /\ pc = "loop" /\ pc' = "sent" /\ SendFrame(p, TRUE)
<1>. st \in Consumer /\ st.onWire
  BY Facts DEF Moves
<1>1. ASSUME Passes(p)
      PROVE  st' = Passed(p) /\ UNCHANGED wire /\ pc' = "loop"
  BY <1>1 DEF Passes, Skip, Drop, Observe, Reading, AtLoop
<1>2. ASSUME Forward(p)
      PROVE  /\ st' = [st EXCEPT !.registered = Noted(p)]
             /\ SendFrame(p, TRUE) /\ pc = "loop" /\ pc' = "sent"
  BY <1>2 DEF Forward, Sendable, Reading, AtLoop
<1>3. ASSUME ReadTag(p)
      PROVE  /\ st' = [st EXCEPT !.next = p + 1, !.hoisted = HoistedAfter(p), !.tag = p]
             /\ UNCHANGED <<wire, pc>>
  BY <1>3 DEF ReadTag
<1>4. Passes(p) \/ ReadTag(p) \/ Forward(p)
  BY DEF Moves
<1>5. st' \in [tail : {p, st.tail}, next : {p + 1, st.next}, game : {st.game}, onWire : {st.onWire},
               hoisted : {HoistedAfter(p), st.hoisted}, tag : {st.tag, p},
               registered : {st.registered, Noted(p)}]
  BY <1>1, <1>2, <1>3, <1>4 DEF Passed, Consumer
<1>6. st'.game = st.game /\ st'.onWire
  BY <1>5
<1>7. Passes(p) =>
        /\ st'.tail = p /\ st'.next = p + 1 /\ st'.hoisted = HoistedAfter(p)
        /\ st'.tag = st.tag /\ st'.registered = st.registered
        /\ pc' = "loop" /\ UNCHANGED wire
  BY <1>1 DEF Passed, Consumer
<1>8. ReadTag(p) =>
        /\ st'.tail = st.tail /\ st'.next = p + 1 /\ st'.hoisted = HoistedAfter(p)
        /\ st'.tag = p /\ st'.registered = st.registered /\ UNCHANGED <<wire, pc>>
  BY <1>3 DEF Consumer
<1>9. Forward(p) =>
        /\ st'.tail = st.tail /\ st'.next = st.next /\ st'.hoisted = st.hoisted
        /\ st'.tag = st.tag /\ st'.registered = Noted(p)
        /\ pc = "loop" /\ pc' = "sent" /\ SendFrame(p, TRUE)
  BY <1>2 DEF Consumer
<1>. QED
  BY <1>6, <1>7, <1>8, <1>9

(* The outbox only grows.                                                   *)
LEMMA OutboxKept ==
    ASSUME IInv, [Next]_vars
    PROVE  /\ Len(outbox') >= Len(outbox) /\ Len(outbox') \in Nat
           /\ \A q \in 1 .. Len(outbox) : outbox'[q] = outbox[q]
           /\ outbox' = outbox \/ UNCHANGED relayVars
<1>1. CASE UNCHANGED outbox
  BY <1>1, Facts
<1>2. ASSUME NEW rs \in Writes, ModWrites(rs)
      PROVE  /\ Len(outbox') >= Len(outbox) /\ Len(outbox') \in Nat
             /\ \A q \in 1 .. Len(outbox) : outbox'[q] = outbox[q]
             /\ UNCHANGED relayVars
  BY <1>2, Written DEF ModWrites, IInv
<1>. QED
  BY <1>1, <1>2, StepShape DEF Sends

(* The frames on the wire stay, and only a connection that runs has more.   *)
LEMMA WireKept ==
    ASSUME IInv, [Next]_vars
    PROVE  /\ DOMAIN wire \subseteq DOMAIN wire' /\ OnWire \subseteq OnWire'
           /\ \A k \in DOMAIN wire :
                 /\ wire'[k] = wire[k]
                 /\ k \in OnWire' => k \in OnWire
                 /\ Kind(k)' = Kind(k) /\ Id(k)' = Id(k)
                 /\ wire[k].pos # 0 => outbox'[wire[k].pos] = outbox[wire[k].pos]
<1>1. \A k \in DOMAIN wire :
         /\ k \in DOMAIN wire' /\ wire'[k] = wire[k] /\ Kind(k)' = Kind(k) /\ Id(k)' = Id(k)
  BY FramesKept
<1>2. ASSUME NEW k \in DOMAIN wire, wire[k].pos # 0
      PROVE  outbox'[wire[k].pos] = outbox[wire[k].pos]
  <2>1. wire[k].pos \in 1 .. Len(outbox)
    BY <1>2, Facts
  <2>. QED
    BY <2>1, OutboxKept
<1>. QED
  BY <1>1, <1>2 DEF OnWire

(* The frame a step adds.                                                   *)
LEMMA FrameFact ==
    ASSUME IInv, NEW p, NEW ok \in BOOLEAN, SendFrame(p, ok), UNCHANGED outbox
    PROVE  \E n \in DOMAIN wire' :
             /\ n = Len(wire) + 1 /\ n \notin DOMAIN wire /\ DOMAIN wire' = DOMAIN wire \cup {n}
             /\ wire'[n].session = session /\ wire'[n].pos = p /\ wire'[n].ok = ok
             /\ OnWire' = IF ok THEN OnWire \cup {n} ELSE OnWire
             /\ p # 0 => Kind(n)' = outbox[p].kind /\ Id(n)' = outbox[p].id
             /\ p = 0 => Kind(n)' = "farewell" /\ Id(n)' = NoId
             /\ \A k \in DOMAIN wire : k <= n /\ k # n
<1>0. PICK n : n = Len(wire) + 1
  OBVIOUS
<1>1. /\ DOMAIN wire' = DOMAIN wire \cup {n} /\ DOMAIN wire = 1 .. Len(wire) /\ Len(wire) \in Nat
      /\ \A k \in DOMAIN wire : wire'[k] = wire[k]
      /\ wire'[n] = [session |-> session, pos |-> p, ok |-> ok]
  BY <1>0, Appended DEF IInv
<1>2. wire'[n].session = session /\ wire'[n].pos = p /\ wire'[n].ok = ok
  BY <1>1
<1>3. OnWire' = IF ok THEN OnWire \cup {n} ELSE OnWire
  BY <1>1, <1>2 DEF OnWire
<1>4. /\ p # 0 => Kind(n)' = outbox[p].kind /\ Id(n)' = outbox[p].id
      /\ p = 0 => Kind(n)' = "farewell" /\ Id(n)' = NoId
  BY <1>2 DEF Kind, Id
<1>5. n \notin DOMAIN wire /\ \A k \in DOMAIN wire : k <= n /\ k # n
  BY <1>0, <1>1
<1>. QED
  BY <1>0, <1>1, <1>2, <1>3, <1>4, <1>5

LEMMA NewLength ==
    ASSUME IInv, NEW p, NEW ok, SendFrame(p, ok)
    PROVE  Len(wire') = Len(wire) + 1
<1>1. wire \in Seq(Frame)
  BY DEF IInv, TypeOK
<1>. QED
  BY <1>1 DEF SendFrame

(* A frame the socket took, and one it did not.                             *)
LEMMA SentFact ==
    ASSUME IInv, NEW p, SendFrame(p, TRUE), UNCHANGED outbox
    PROVE  \E n \in Nat :
             /\ n = Len(wire) + 1 /\ n \notin DOMAIN wire /\ DOMAIN wire' = DOMAIN wire \cup {n}
             /\ wire'[n].session = session /\ wire'[n].pos = p
             /\ OnWire' = OnWire \cup {n}
             /\ p # 0 => Kind(n)' = outbox[p].kind /\ Id(n)' = outbox[p].id
             /\ \A k \in DOMAIN wire : k <= n /\ k # n
<1>1. TRUE \in BOOLEAN
  OBVIOUS
<1>2. PICK yes \in BOOLEAN : yes /\ SendFrame(p, yes)
  BY <1>1, Zenon
<1>3. Len(wire) \in Nat
  BY Facts
<1>4. PICK n \in DOMAIN wire' :
         /\ n = Len(wire) + 1 /\ n \notin DOMAIN wire /\ DOMAIN wire' = DOMAIN wire \cup {n}
         /\ wire'[n].session = session /\ wire'[n].pos = p
         /\ OnWire' = IF yes THEN OnWire \cup {n} ELSE OnWire
         /\ p # 0 => Kind(n)' = outbox[p].kind /\ Id(n)' = outbox[p].id
         /\ \A k \in DOMAIN wire : k <= n /\ k # n
  BY <1>2, FrameFact
<1>. QED
  BY <1>2, <1>3, <1>4

LEMMA FailedFact ==
    ASSUME IInv, NEW p, SendFrame(p, FALSE), UNCHANGED outbox
    PROVE  /\ OnWire' = OnWire
           /\ \E n \in Nat :
                /\ n \notin DOMAIN wire /\ DOMAIN wire' = DOMAIN wire \cup {n}
                /\ wire'[n].session = session /\ wire'[n].pos = p
                /\ p # 0 => Kind(n)' = outbox[p].kind
                /\ p = 0 => Kind(n)' = "farewell"
<1>1. FALSE \in BOOLEAN
  OBVIOUS
<1>2. PICK no \in BOOLEAN : ~ no /\ SendFrame(p, no)
  BY <1>1, Zenon
<1>3. PICK n \in DOMAIN wire' :
         /\ n = Len(wire) + 1 /\ n \notin DOMAIN wire /\ DOMAIN wire' = DOMAIN wire \cup {n}
         /\ wire'[n].session = session /\ wire'[n].pos = p
         /\ OnWire' = IF no THEN OnWire \cup {n} ELSE OnWire
         /\ p # 0 => Kind(n)' = outbox[p].kind
         /\ p = 0 => Kind(n)' = "farewell"
  BY <1>2, FrameFact
<1>4. n \in Nat
  BY <1>3, Facts
<1>. QED
  BY <1>2, <1>3, <1>4

----------------------------------------------------------------------------
(* The connection *)

LEMMA StartedStep ==
    ASSUME IInv, Started, Reader, [Next]_vars
    PROVE  Started'
<1>. TypeOK /\ LaneOK /\ st \in Consumer
  BY Facts DEF IInv
<1>1. CASE Still
  <2>1. OnWire' = OnWire
    BY <1>1 DEF Still, OnWire
  <2>. QED
    BY <1>1, <2>1 DEF Still, Started
<1>2. CASE Ends
  BY <1>2 DEF Ends, Started
<1>3. CASE OpenSession
  <2>1. session' = session + 1 /\ wire' = wire /\ lane' = 0 /\ ws' = "none" /\ ~ st'.onWire
    BY <1>3 DEF OpenSession, NewConsumer
  <2>2. \A k \in DOMAIN wire' : wire'[k].session # session'
    BY <2>1, Facts
  <2>. QED
    BY <2>1, <2>2 DEF Started
<1>4. CASE Hoist
  <2>1. OnWire' = OnWire /\ UNCHANGED <<outbox, wire, proc, session, st, ws>> /\ lane = 0
    BY <1>4 DEF Hoist, OnWire
  <2>2. outbox[lane'].game # NoGame
    BY <1>4 DEF Hoist, LiveStartups
  <2>. QED
    BY <1>4, <2>1, <2>2 DEF Hoist, LaneOK, Started
<1>5. CASE Connect
  <2>1. OnWire' = OnWire /\ UNCHANGED <<outbox, wire, proc, session, lane>> /\ ws = "none"
    BY <1>5 DEF Connect, OnWire
  <2>2. st'.game = outbox[lane].game /\ st'.onWire = st.onWire
    BY <1>5 DEF Connect, Consumer
  <2>3. proc = "running" /\ ~ st.onWire
    BY <1>5 DEF Connect, AtLoop, LaneOK
  <2>. QED
    BY <2>1, <2>2, <2>3 DEF Started
<1>6. CASE SendStartup
  <2>1. /\ SendFrame(lane, TRUE) /\ UNCHANGED <<outbox, session, lane, ws, proc>>
        /\ proc = "running" /\ ~ st.onWire /\ ws = "open" /\ lane # 0
    BY <1>6 DEF SendStartup, AtLoop, LaneOK
  <2>2. st'.onWire /\ st'.game = st.game
    BY <1>6 DEF SendStartup, Consumer
  <2>3. PICK n \in DOMAIN wire' :
          /\ DOMAIN wire' = DOMAIN wire \cup {n} /\ n \in OnWire'
          /\ wire'[n].session = session /\ wire'[n].pos = lane /\ n \in Nat
    BY <2>1, SentFact
  <2>4. \A k \in DOMAIN wire : wire'[k].session # session
    BY <2>1, WireKept DEF Started
  <2>5. outbox[lane].game = st.game
    BY <2>1 DEF Started
  <2>. QED
    BY <2>1, <2>2, <2>3, <2>4, <2>5 DEF Started
<1>7. ASSUME NEW p \in 1 .. Len(outbox), Moves(p)
      PROVE  Started'
  <2>0. st'.game = st.game /\ st'.onWire
    BY <1>7, MoveFact
  <2>1. /\ UNCHANGED <<outbox, session, lane, ws, proc>> /\ st'.game = st.game /\ st'.onWire
        /\ proc = "running" /\ st.onWire /\ p # 0
    BY <1>7, <2>0 DEF Moves
  <2>2. PICK j \in OnWire :
          /\ wire[j].session = session /\ wire[j].pos = lane
          /\ \A k \in DOMAIN wire : wire[k].session = session =>
                j <= k /\ wire[k].pos # 0 /\ outbox[wire[k].pos].game = st.game
    BY <2>1 DEF Started
  <2>3. j \in OnWire' /\ j \in DOMAIN wire /\ wire'[j] = wire[j]
    BY WireKept, Facts
  <2>4. ASSUME NEW k \in DOMAIN wire', wire'[k].session = session
        PROVE  j <= k /\ wire'[k].pos # 0 /\ outbox[wire'[k].pos].game = st.game
    <3>1. CASE k \in DOMAIN wire
      BY <2>2, <2>4, <3>1, WireKept
    <3>2. CASE k \notin DOMAIN wire
      <4>1. ~ UNCHANGED wire
        BY <3>2
      <4>2. Forward(p)
        BY <1>7, <4>1, MoveFact DEF Moves
      <4>3. Forwardable(p)
        BY <4>2 DEF Forward, Sendable
      <4>4. SendFrame(p, TRUE)
        BY <1>7, <4>2, MoveFact
      <4>5. PICK n :
              /\ DOMAIN wire' = DOMAIN wire \cup {n} /\ wire'[n].pos = p
              /\ \A m \in DOMAIN wire : m <= n
        BY <2>1, <4>4, SentFact
      <4>. QED
        BY <2>1, <2>3, <3>2, <4>3, <4>5 DEF Forwardable
    <3>. QED
      BY <3>1, <3>2
  <2>. QED
    BY <2>1, <2>2, <2>3, <2>4 DEF Started
<1>8. ASSUME NEW rs \in Writes, ModWrites(rs)
      PROVE  Started'
  <2>1. UNCHANGED relayVars
    BY <1>8 DEF ModWrites
  <2>2. OnWire' = OnWire /\ UNCHANGED <<lane, ws, st, proc, session, wire>>
    BY <2>1 DEF OnWire, relayVars
  <2>3. lane # 0 => outbox'[lane] = outbox[lane]
    BY OutboxKept, Facts
  <2>4. \A k \in DOMAIN wire : wire[k].pos # 0 => outbox'[wire[k].pos] = outbox[wire[k].pos]
    BY WireKept
  <2>5. ws = "open" => lane # 0
    BY DEF LaneOK
  <2>. QED
    BY <2>2, <2>3, <2>4, <2>5 DEF Started
<1>. QED
  BY <1>1, <1>2, <1>3, <1>4, <1>5, <1>6, <1>7, <1>8, Shapes

LEMMA ReaderStep ==
    ASSUME IInv, Reader, [Next]_vars
    PROVE  Reader'
<1>. TypeOK /\ LaneOK /\ ConsumerOK /\ st \in Consumer /\ st.next \in Nat /\ st.tail \in Nat
     /\ lane \in Nat /\ st.hoisted \in Nat /\ st.tag \in Nat
  BY Facts DEF IInv
<1>1. CASE Still
  BY <1>1 DEF Still, Reader
<1>2. CASE Ends
  BY <1>2 DEF Ends, Reader
<1>3. CASE OpenSession
  <2>1. PICK tail \in 0 .. Len(outbox) : st' = NewConsumer(tail)
    BY <1>3 DEF OpenSession
  <2>2. tail \in Nat
    BY <2>1, Facts
  <2>3. st'.tail = tail /\ st'.next = tail + 1 /\ ~ st'.onWire /\ st'.hoisted = 0 /\ st'.tag = 0
    BY <2>1 DEF NewConsumer
  <2>. QED
    BY <1>3, <2>2, <2>3 DEF OpenSession, Reader
<1>4. CASE Hoist
  <2>1. UNCHANGED <<outbox, proc, st, pc>> /\ lane' \in st.tail + 1 .. Len(outbox) /\ ~ st.onWire
    BY <1>4 DEF Hoist, LiveStartups
  <2>. QED
    BY <2>1, Facts DEF Reader
<1>5. CASE Connect
  <2>1. /\ UNCHANGED <<outbox, proc, lane, pc>> /\ st'.tail = st.tail /\ st'.next = st.next
        /\ st'.onWire = st.onWire /\ st'.hoisted = st.hoisted /\ st'.tag = st.tag
    BY <1>5 DEF Connect, Consumer
  <2>. QED
    BY <2>1 DEF Reader
<1>6. CASE SendStartup
  <2>1. UNCHANGED <<outbox, proc, lane, pc>> /\ ~ st.onWire /\ pc = "loop" /\ lane # 0
    BY <1>6 DEF SendStartup, AtLoop, LaneOK
  <2>2. /\ st'.tail = st.tail /\ st'.next = st.next /\ st'.onWire /\ st'.hoisted = lane
        /\ st'.tag = st.tag
    BY <1>6 DEF SendStartup, Consumer
  <2>. QED
    BY <2>1, <2>2 DEF Reader
<1>7. ASSUME NEW p \in 1 .. Len(outbox), Moves(p)
      PROVE  Reader'
  <2>1. UNCHANGED <<outbox, lane, proc>> /\ proc = "running" /\ st.onWire /\ p = st.next
    BY <1>7 DEF Moves
  <2>2. HoistedAfter(p) = IF p >= st.hoisted THEN 0 ELSE st.hoisted
    BY DEF HoistedAfter
  <2>3. CASE Passes(p)
    <3>1. /\ st'.tail = p /\ st'.next = p + 1 /\ st'.hoisted = HoistedAfter(p)
          /\ st'.tag = st.tag /\ st'.onWire /\ pc' = "loop"
      BY <1>7, <2>3, MoveFact
    <3>. QED
      BY <2>1, <2>2, <3>1 DEF Reader
  <2>4. CASE ReadTag(p)
    <3>1. /\ st'.tail = st.tail /\ st'.next = p + 1 /\ st'.hoisted = HoistedAfter(p)
          /\ st'.tag = p /\ st'.onWire /\ UNCHANGED pc
      BY <1>7, <2>4, MoveFact
    <3>2. outbox[p].kind = "tag" /\ pc = "loop"
      BY <2>4 DEF ReadTag, Reading, AtLoop
    <3>. QED
      BY SMTT(30), <2>1, <2>2, <3>1, <3>2 DEF Reader
  <2>5. CASE Forward(p)
    <3>1. /\ st'.tail = st.tail /\ st'.next = st.next /\ st'.hoisted = st.hoisted
          /\ st'.tag = st.tag /\ st'.onWire /\ pc' = "sent"
      BY <1>7, <2>5, MoveFact
    <3>2. ~ Superseded(p)
      BY <2>5 DEF Forward, Sendable
    <3>3. st.hoisted = 0 \/ outbox[p].kind \notin ClearedKinds
      BY <2>1, <3>2 DEF Superseded, Reader
    <3>. QED
      BY <2>1, <3>1, <3>3 DEF Reader
  <2>. QED
    BY <1>7, <2>3, <2>4, <2>5 DEF Moves
<1>8. ASSUME NEW rs \in Writes, ModWrites(rs)
      PROVE  Reader'
  <2>1. UNCHANGED relayVars
    BY <1>8 DEF ModWrites
  <2>2. \A q \in 1 .. Len(outbox) : outbox'[q] = outbox[q]
    BY OutboxKept
  <2>3. proc = "running" => \A q \in st.tail + 1 .. st.next - 1 : q \in 1 .. Len(outbox)
    BY SMTT(30), Facts DEF ConsumerOK
  <2>4. proc = "running" /\ st.tag # 0 /\ st.tag < st.next => st.tag \in 1 .. Len(outbox)
    BY Facts DEF ConsumerOK
  <2>5. pc = "sent" => st.next \in 1 .. Len(outbox)
    BY Facts DEF ConsumerOK
  <2>. QED
    BY <2>1, <2>2, <2>3, <2>4, <2>5 DEF Reader, relayVars
<1>. QED
  BY <1>1, <1>2, <1>3, <1>4, <1>5, <1>6, <1>7, <1>8, Shapes

(* Between a send and what follows it, the consumer does nothing else.      *)
LEMMA BetweenFact ==
    ASSUME IInv, [Next]_vars, pc = "sent"
    PROVE  \/ UNCHANGED <<pc, wire, session>> /\ st'.next = st.next
           \/ Observe(st.next)
           \/ Crash
<1>. pc # "loop" /\ proc = "running" /\ st.onWire /\ ws = "open"
  BY DEF IInv, LaneOK, ConsumerOK
<1>1. CASE SessionNext \/ RetryCursor
  BY <1>1 DEF SessionNext, StartProcess, OpenSession, OpenFails, LoseSession, Stop, RetryCursor,
              AtLoop
<1>2. CASE StartupNext
  BY <1>2 DEF StartupNext, Hoist, Connect, SendStartup, SendStartupFails, AtLoop
<1>3. CASE OutboxNext
  BY <1>3 DEF OutboxNext, Skip, ReadTag, Drop, ReconnectForRelaunch, Forward, ForwardFails,
              Sendable, Reading, AtLoop, Observe
<1>4. CASE ReceiveNext \/ UNCHANGED vars \/ \E rs \in Writes : ModWrites(rs)
  BY <1>4 DEF ReceiveNext, ReceiveAction, DeliverToInbox, ReceiverDies, ModWrites, relayVars, vars
<1>. QED
  BY <1>1, <1>2, <1>3, <1>4 DEF Next, RelayNext

(* Only a send leads there.                                                 *)
LEMMA BeforeFact ==
    ASSUME IInv, [Next]_vars, pc # "sent", pc' = "sent"
    PROVE  \E p \in 1 .. Len(outbox) : Moves(p) /\ Forward(p)
<1>1. ASSUME NEW p \in 1 .. Len(outbox), Moves(p)
      PROVE  Forward(p)
  BY <1>1, MoveFact DEF Moves
<1>2. CASE Still \/ Hoist \/ Connect \/ SendStartup \/ OpenSession
  BY <1>2 DEF Still, Hoist, Connect, SendStartup, OpenSession
<1>3. CASE Ends
  BY <1>3, LaneStep DEF Ends, LaneOK
<1>4. CASE \E rs \in Writes : ModWrites(rs)
  BY <1>4 DEF ModWrites, relayVars
<1>. QED
  BY <1>1, <1>2, <1>3, <1>4, Shapes

LEMMA LastSentStep ==
    ASSUME IInv, LastSent, [Next]_vars
    PROVE  LastSent'
<1>. SUFFICES ASSUME pc' = "sent"
              PROVE  /\ Len(wire') \in OnWire' /\ wire'[Len(wire')].session = session'
                     /\ wire'[Len(wire')].pos = st'.next
  BY DEF LastSent
<1>1. CASE pc = "sent"
  <2>1. UNCHANGED <<pc, wire, session>> /\ st'.next = st.next
    BY <1>1, BetweenFact DEF Observe, Crash, EndConsumer
  <2>. QED
    BY <1>1, <2>1 DEF LastSent, OnWire
<1>2. CASE pc # "sent"
  <2>1. PICK p \in 1 .. Len(outbox) : Moves(p) /\ Forward(p)
    BY <1>2, BeforeFact
  <2>2. /\ SendFrame(p, TRUE) /\ UNCHANGED <<outbox, session>> /\ p = st.next /\ st'.next = st.next
    BY <2>1, MoveFact DEF Moves
  <2>3. PICK n \in Nat :
          /\ n = Len(wire) + 1 /\ wire'[n].session = session /\ wire'[n].pos = p
          /\ OnWire' = OnWire \cup {n}
    BY <2>2, SentFact
  <2>4. Len(wire') = n
    BY <2>2, <2>3, NewLength
  <2>. QED
    BY <2>2, <2>3, <2>4
<1>. QED
  BY <1>1, <1>2

(* The consumer drops no startup of its game that the wire does not have.   *)
LEMMA CaughtUpStep ==
    ASSUME IInv, Started, Reader, LastSent, CaughtUp, [Next]_vars
    PROVE  CaughtUp'
<1>. TypeOK /\ LaneOK /\ ConsumerOK /\ st \in Consumer /\ st.next \in Nat
     /\ lane \in Nat /\ st.hoisted \in Nat
  BY Facts DEF IInv
<1>1. ASSUME UNCHANGED <<wire, st, session, proc>>
      PROVE  CaughtUp'
  <2>. SUFFICES ASSUME proc = "running", st.onWire, st.hoisted = 0
                PROVE  \E j \in OnWire' : wire'[j].session = session
                          /\ Caught(wire[j].pos, st.next, st.game)'
    BY <1>1 DEF CaughtUp
  <2>1. PICK j \in OnWire : wire[j].session = session /\ Caught(wire[j].pos, st.next, st.game)
    BY DEF CaughtUp
  <2>2. j \in OnWire' /\ j \in DOMAIN wire /\ wire'[j] = wire[j]
    BY WireKept, Facts
  <2>3. \A q \in 1 .. Len(outbox) : outbox'[q] = outbox[q]
    BY OutboxKept
  <2>4. wire[j].pos \in Nat /\ wire[j].pos < st.next /\ st.next <= Len(outbox) + 1
    BY <2>1, <2>2, Facts DEF Caught, ConsumerOK
  <2>5. CASE wire[j].pos # 0
    <3>1. \A q \in wire[j].pos .. st.next - 1 : q \in 1 .. Len(outbox)
      BY SMTT(30), <2>4, <2>5, Facts
    <3>2. \A q \in wire[j].pos .. st.next - 1 : outbox'[q] = outbox[q]
      BY <2>3, <3>1
    <3>. QED
      BY <1>1, <2>1, <2>2, <2>4, <3>2 DEF Caught
  <2>6. CASE wire[j].pos = 0
    BY <2>1, <2>2, <2>6 DEF Started
  <2>. QED
    BY <2>5, <2>6
<1>2. CASE Still \/ Hoist \/ \E rs \in Writes : ModWrites(rs)
  BY <1>1, <1>2 DEF Still, Hoist, ModWrites, relayVars
<1>3. CASE Ends
  BY <1>3 DEF Ends, CaughtUp
<1>4. CASE OpenSession
  BY <1>4 DEF OpenSession, NewConsumer, CaughtUp
<1>5. CASE Connect
  BY <1>5 DEF Connect, AtLoop, LaneOK, Consumer, CaughtUp
<1>6. CASE SendStartup
  BY <1>6 DEF SendStartup, AtLoop, LaneOK, Consumer, CaughtUp
<1>7. ASSUME NEW p \in 1 .. Len(outbox), Moves(p), st'.hoisted = 0
      PROVE  \E j \in OnWire' : wire'[j].session = session
                /\ Caught(wire[j].pos, st.next, st.game)'
  <2>1. UNCHANGED <<outbox, lane, proc, session>> /\ proc = "running" /\ st.onWire /\ p = st.next
        /\ lane # 0
    BY <1>7 DEF Moves, LaneOK
  <2>2. st'.game = st.game /\ st'.onWire
    BY <1>7, MoveFact
  <2>3. ASSUME NEW j \in OnWire, wire[j].session = session, Caught(wire[j].pos, st'.next, st.game)
        PROVE  \E i \in OnWire' : wire'[i].session = session
                  /\ Caught(wire[i].pos, st.next, st.game)'
    <3>1. j \in OnWire' /\ wire'[j] = wire[j]
      BY WireKept, Facts
    <3>. QED
      BY <2>1, <2>2, <2>3, <3>1 DEF Caught
  <2>4. CASE Forward(p)
    BY <1>7, <2>1, <2>3, <2>4, MoveFact DEF CaughtUp
  <2>5. CASE st'.next = p + 1 /\ p = lane
    <3>1. PICK j \in OnWire : wire[j].session = session /\ wire[j].pos = lane
      BY <2>1 DEF Started
    <3>2. outbox[lane].kind = "startup" /\ outbox[lane].game = st.game
      BY <2>1 DEF LaneOK, Started
    <3>3. Caught(lane, p + 1, st.game)
      BY <2>5, <3>2 DEF Caught
    <3>. QED
      BY <2>3, <2>5, <3>1, <3>3
  <2>6. CASE /\ st'.next = p + 1 /\ st.hoisted = 0
             /\ ~ (outbox[p].kind = "startup" /\ outbox[p].game = st.game)
    <3>1. PICK j \in OnWire : wire[j].session = session /\ Caught(wire[j].pos, st.next, st.game)
      BY <2>1, <2>6 DEF CaughtUp
    <3>2. wire[j].pos \in Nat
      BY Facts
    <3>3. Caught(wire[j].pos, p + 1, st.game)
      BY <2>1, <2>6, <3>1, <3>2 DEF Caught
    <3>. QED
      BY <2>3, <2>6, <3>1, <3>3
  <2>7. CASE Observe(p) /\ outbox[p].kind = "startup"
    <3>1. st'.next = p + 1
      BY <1>7, <2>7, MoveFact DEF Passes
    <3>2. PICK n \in OnWire : wire[n].session = session /\ wire[n].pos = p
      BY <2>1, <2>7 DEF Observe, LastSent
    <3>3. outbox[p].game = st.game
      BY <2>1, <3>2, Facts DEF Started
    <3>4. Caught(p, p + 1, st.game)
      BY <2>7, <3>3 DEF Caught
    <3>. QED
      BY <2>3, <3>1, <3>2, <3>4
  <2>8. CASE Passes(p) \/ ReadTag(p)
    <3>1. st'.next = p + 1 /\ st'.hoisted = HoistedAfter(p)
      BY <1>7, <2>8, MoveFact
    <3>2. st.hoisted = 0 \/ (st.hoisted = lane /\ p <= lane)
      BY <2>1 DEF Reader
    <3>3. CASE st.hoisted # 0
      BY <1>7, <2>1, <2>5, <3>1, <3>2, <3>3 DEF HoistedAfter
    <3>4. CASE st.hoisted = 0
      <4>1. CASE outbox[p].kind = "startup" /\ outbox[p].game = st.game
        <5>1. ~ Superseded(p)
          BY <3>4 DEF Superseded
        <5>2. outbox[p].game # NoGame
          BY <2>1, <4>1 DEF Started, LaneOK
        <5>3. Forwardable(p) /\ ~ Replayed(pending, outbox[p].kind, p)
          BY <4>1, <5>2 DEF Forwardable, Replayed
        <5>4. ~ Skip(p) /\ ~ Drop(p) /\ ~ ReadTag(p)
          BY <4>1, <5>1, <5>3 DEF Skip, Drop, ReadTag
        <5>. QED
          BY <2>7, <2>8, <4>1, <5>4 DEF Passes
      <4>. QED
        BY <2>6, <3>1, <3>4, <4>1
    <3>. QED
      BY <3>3, <3>4
  <2>. QED
    BY <1>7, <2>4, <2>8 DEF Moves
<1>8. ASSUME NEW p \in 1 .. Len(outbox), Moves(p)
      PROVE  CaughtUp'
  BY <1>7, <1>8 DEF Moves, CaughtUp
<1>. QED
  BY <1>2, <1>3, <1>4, <1>5, <1>6, <1>8, Shapes

(* The frames a step may put on the wire.                                   *)
Ahead(n) == SendStartup /\ lane # 0 /\ wire'[n].pos = lane /\ Kind(n)' = "startup"
InOrder(n, p) ==
    /\ proc = "running" /\ st.onWire /\ p = st.next
    /\ Forward(p)
    /\ wire'[n].pos = p /\ Kind(n)' = outbox[p].kind /\ Id(n)' = outbox[p].id
Farewell(n) ==
    proc = "running" /\ st.onWire /\ proc' # "running" /\ wire'[n].pos = 0 /\ Kind(n)' = "farewell"

LEMMA NewOnWire ==
    ASSUME IInv, [Next]_vars, NEW n \in OnWire', n \notin OnWire
    PROVE  /\ UNCHANGED <<outbox, session>> /\ wire'[n].session = session
           /\ n \in Nat /\ OnWire' = OnWire \cup {n} /\ DOMAIN wire' = DOMAIN wire \cup {n}
           /\ \A k \in DOMAIN wire : k <= n /\ k # n
           /\ Ahead(n) \/ Farewell(n) \/ \E p \in 1 .. Len(outbox) : InOrder(n, p)
<1>1. ASSUME NEW p, SendFrame(p, TRUE), UNCHANGED outbox
      PROVE  /\ wire'[n].session = session /\ wire'[n].pos = p
             /\ n \in Nat /\ OnWire' = OnWire \cup {n} /\ DOMAIN wire' = DOMAIN wire \cup {n}
             /\ \A k \in DOMAIN wire : k <= n /\ k # n
             /\ p # 0 => Kind(n)' = outbox[p].kind /\ Id(n)' = outbox[p].id
             /\ p = 0 => Kind(n)' = "farewell"
  <2>1. PICK m \in Nat :
           /\ wire'[m].session = session /\ wire'[m].pos = p
           /\ OnWire' = OnWire \cup {m} /\ DOMAIN wire' = DOMAIN wire \cup {m}
           /\ \A k \in DOMAIN wire : k <= m /\ k # m
    BY <1>1, SentFact
  <2>2. m = n
    BY <2>1
  <2>3. Kind(n)' = IF wire'[n].pos = 0 THEN "farewell" ELSE outbox'[wire'[n].pos].kind
    BY DEF Kind
  <2>4. Id(n)' = IF wire'[n].pos = 0 THEN NoId ELSE outbox'[wire'[n].pos].id
    BY DEF Id
  <2>. QED
    BY <1>1, <2>1, <2>2, <2>3, <2>4
<1>2. ASSUME UNCHANGED wire
      PROVE  FALSE
  BY <1>2 DEF OnWire
<1>3. ASSUME NEW p, SendFrame(p, FALSE), UNCHANGED outbox
      PROVE  FALSE
  BY <1>3, FailedFact
<1>4. CASE Still \/ OpenSession \/ Hoist \/ Connect \/ \E rs \in Writes : ModWrites(rs)
  BY <1>2, <1>4 DEF Still, OpenSession, Hoist, Connect, ModWrites, relayVars
<1>5. CASE SendStartup
  <2>1. SendFrame(lane, TRUE) /\ lane # 0 /\ UNCHANGED <<outbox, session>>
    BY <1>5 DEF SendStartup, LaneOK, IInv
  <2>2. outbox[lane].kind = "startup"
    BY <2>1, Facts
  <2>. QED
    BY <1>1, <1>5, <2>1, <2>2 DEF Ahead
<1>6. CASE Ends
  <2>1. /\ proc = "running" /\ st.onWire /\ session' = session /\ UNCHANGED outbox
        /\ proc' # "running" /\ \E ok \in BOOLEAN : SendFrame(0, ok)
    BY <1>2, <1>3, <1>6 DEF Ends
  <2>2. PICK zero \in Nat : zero = 0 /\ \E ok \in BOOLEAN : SendFrame(zero, ok)
    BY <2>1
  <2>3. SendFrame(zero, TRUE) \/ SendFrame(zero, FALSE)
    BY <2>2, Zenon
  <2>4. SendFrame(zero, TRUE)
    BY <1>3, <2>1, <2>3
  <2>. QED
    BY <1>1, <2>1, <2>2, <2>4 DEF Farewell
<1>7. ASSUME NEW p \in 1 .. Len(outbox), Moves(p)
      PROVE  /\ UNCHANGED <<outbox, session>> /\ wire'[n].session = session
             /\ n \in Nat /\ OnWire' = OnWire \cup {n} /\ DOMAIN wire' = DOMAIN wire \cup {n}
             /\ \A k \in DOMAIN wire : k <= n /\ k # n
             /\ InOrder(n, p)
  <2>1. Forward(p)
    BY <1>2, <1>7, MoveFact DEF Moves
  <2>2. SendFrame(p, TRUE)
    BY <1>7, <2>1, MoveFact
  <2>3. UNCHANGED <<outbox, session>> /\ p # 0 /\ proc = "running" /\ st.onWire /\ p = st.next
    BY <1>7 DEF Moves
  <2>. QED
    BY <1>1, <2>1, <2>2, <2>3 DEF InOrder
<1>. QED
  BY <1>4, <1>5, <1>6, <1>7, Shapes

LEMMA CatalogueStep ==
    ASSUME IInv, Started, Reader, CaughtUp, CatalogueFresh, [Next]_vars
    PROVE  CatalogueFresh'
<1>. SUFFICES ASSUME NEW k \in OnWire', Kind(k)' \in ClearedKinds \ {"startup"}
              PROVE  \E j \in OnWire' :
                        /\ j < k /\ wire'[j].session = wire'[k].session
                        /\ LastStartup(wire[j].pos, wire[k].pos)'
  BY DEF CatalogueFresh
<1>0. \A j \in OnWire : j \in DOMAIN wire /\ j \in OnWire' /\ wire'[j] = wire[j]
  BY WireKept, Facts
<1>1. CASE k \in OnWire
  <2>1. PICK j \in OnWire : /\ j < k /\ wire[j].session = wire[k].session
                            /\ LastStartup(wire[j].pos, wire[k].pos)
    BY <1>0, <1>1, WireKept DEF CatalogueFresh
  <2>2. wire[k].pos \in 0 .. Len(outbox) /\ Len(outbox) \in Nat
    BY <1>1, Facts
  <2>3. \A q \in 1 .. wire[k].pos : outbox'[q] = outbox[q]
    BY <2>2, OutboxKept
  <2>4. PICK q \in Nat, p \in Nat : q = wire[j].pos /\ p = wire[k].pos /\ LastStartup(q, p)
    BY <2>1, <1>1, Facts
  <2>5. /\ q \in 1 .. p - 1 /\ outbox'[q] = outbox[q] /\ outbox'[p] = outbox[p]
        /\ \A r \in q + 1 .. p - 1 : outbox'[r] = outbox[r]
    <3>1. q \in 1 .. p - 1
      BY <2>4 DEF LastStartup
    <3>. QED
      BY <2>3, <2>4, <3>1
  <2>6. wire'[j].pos = q /\ wire'[k].pos = p
    BY <1>0, <1>1, <2>4
  <2>7. LastStartup(wire[j].pos, wire[k].pos)'
    BY <2>4, <2>5, <2>6 DEF LastStartup
  <2>. QED
    BY <1>0, <1>1, <2>1, <2>7
<1>2. CASE k \notin OnWire
  <2>1. PICK p \in 1 .. Len(outbox) : InOrder(k, p)
    <3>1. Ahead(k) \/ Farewell(k) \/ \E p \in 1 .. Len(outbox) : InOrder(k, p)
      BY <1>2, NewOnWire
    <3>. QED
      BY <3>1 DEF Ahead, Farewell, ClearedKinds
  <2>2. Forwardable(p) /\ ~ Superseded(p) /\ outbox[p].kind \in ClearedKinds /\ st.onWire
        /\ proc = "running" /\ p = st.next
    BY <2>1 DEF InOrder, Forward, Sendable
  <2>3. st.hoisted = 0
    BY <2>2, Facts DEF Superseded, Reader
  <2>4. PICK j \in OnWire : wire[j].session = session /\ Caught(wire[j].pos, p, st.game)
    BY <2>2, <2>3 DEF CaughtUp
  <2>5. wire[j].pos # 0 /\ wire[j].pos \in Nat
    BY <2>2, <2>4, Facts DEF Started
  <2>6. outbox[p].game = st.game
    BY <2>2 DEF Forwardable
  <2>7. LastStartup(wire[j].pos, p)
    BY <2>4, <2>5, <2>6 DEF LastStartup, Caught
  <2>8. /\ UNCHANGED outbox /\ wire'[k].session = session /\ k \in Nat
        /\ \A m \in DOMAIN wire : m <= k /\ k # m
    BY <1>2, NewOnWire
  <2>9. j < k /\ wire'[j] = wire[j] /\ j \in OnWire' /\ wire'[k].pos = p
    BY <1>0, <2>1, <2>8, Facts DEF InOrder
  <2>. QED
    BY <2>4, <2>7, <2>8, <2>9 DEF LastStartup
<1>. QED
  BY <1>1, <1>2

LEMMA LaunchStep ==
    ASSUME IInv, Started, Reader, OneLaunchPerConnection, [Next]_vars
    PROVE  OneLaunchPerConnection'
<1>0. \A j \in OnWire :
         /\ j \in DOMAIN wire /\ j \in OnWire' /\ wire'[j] = wire[j] /\ Kind(j)' = Kind(j)
         /\ wire[j].pos # 0 => outbox'[wire[j].pos] = outbox[wire[j].pos]
  BY WireKept, Facts
<1>1. \A j \in OnWire : Kind(j) = "startup" => wire[j].pos # 0
  BY DEF Kind
<1>2. ASSUME NEW n \in OnWire', n \notin OnWire, Ahead(n)
      PROVE  \A k \in OnWire : wire[k].session # session
  BY <1>2, Facts DEF Ahead, SendStartup, AtLoop, Started
<1>3. ASSUME NEW k \in OnWire'
      PROVE  \E j \in OnWire' :
                /\ j <= k /\ wire'[j].session = wire'[k].session
                /\ Kind(j)' = "startup"
                /\ wire'[k].pos # 0 => outbox'[wire'[j].pos].game = outbox'[wire'[k].pos].game
                /\ \A i \in OnWire' : wire'[i].session = wire'[j].session => i >= j
  <2>1. CASE k \in OnWire
    <3>1. PICK j \in OnWire :
            /\ j <= k /\ wire[j].session = wire[k].session
            /\ Kind(j) = "startup"
            /\ wire[k].pos # 0 => outbox[wire[j].pos].game = outbox[wire[k].pos].game
            /\ \A i \in OnWire : wire[i].session = wire[j].session => i >= j
      BY <2>1 DEF OneLaunchPerConnection, StartupFirst
    <3>2. ASSUME NEW i \in OnWire', wire'[i].session = wire'[j].session
          PROVE  i >= j
      <4>1. CASE i \in OnWire
        BY <1>0, <3>1, <3>2, <4>1
      <4>2. CASE i \notin OnWire
        BY <1>0, <4>2, NewOnWire, Facts
      <4>. QED
        BY <4>1, <4>2
    <3>. QED
      BY <1>0, <1>1, <2>1, <3>1, <3>2
  <2>2. CASE k \notin OnWire /\ Ahead(k)
    <3>1. /\ wire'[k].session = session /\ OnWire' = OnWire \cup {k} /\ k \in Nat
      BY <2>2, NewOnWire
    <3>. QED
      BY <1>0, <1>2, <2>2, <3>1 DEF Ahead
  <2>3. CASE k \notin OnWire /\ ~ Ahead(k)
    <3>1. /\ proc = "running" /\ st.onWire /\ wire'[k].session = session /\ UNCHANGED outbox
          /\ OnWire' = OnWire \cup {k} /\ k \in Nat /\ \A m \in DOMAIN wire : m <= k
          /\ wire'[k].pos # 0 => wire'[k].pos \in 1 .. Len(outbox) /\ Forwardable(wire'[k].pos)
      <4>1. Farewell(k) \/ \E p \in 1 .. Len(outbox) : InOrder(k, p)
        BY <2>3, NewOnWire
      <4>2. /\ proc = "running" /\ st.onWire
            /\ wire'[k].pos # 0 => wire'[k].pos \in 1 .. Len(outbox) /\ Forwardable(wire'[k].pos)
        BY <4>1 DEF Farewell, InOrder, Forward, Sendable
      <4>. QED
        BY <2>3, <4>2, NewOnWire
    <3>2. PICK j \in OnWire :
            /\ wire[j].session = session /\ wire[j].pos = lane
            /\ \A m \in DOMAIN wire : wire[m].session = session => j <= m
      BY <3>1 DEF Started
    <3>3. lane # 0 /\ outbox[lane].kind = "startup" /\ outbox[lane].game = st.game
      BY <3>1, Facts DEF Started, LaneOK, IInv
    <3>4. Kind(j) = "startup"
      BY <3>2, <3>3 DEF Kind
    <3>5. wire'[k].pos # 0 => outbox[wire'[k].pos].game = st.game
      BY <3>1 DEF Forwardable
    <3>6. \A i \in OnWire' : wire'[i].session = session => i >= j
      BY <1>0, <3>1, <3>2, Facts
    <3>. QED
      BY <1>0, <3>1, <3>2, <3>3, <3>4, <3>5, <3>6
  <2>. QED
    BY <2>1, <2>2, <2>3
<1>4. StartupFirst'
  BY <1>3 DEF StartupFirst
<1>5. ASSUME NEW j \in OnWire', NEW k \in OnWire', j < k, wire'[j].session = wire'[k].session,
             Kind(j)' = "startup", Kind(k)' = "startup"
      PROVE  /\ wire'[k].pos > 1
             /\ outbox'[wire'[k].pos - 1].kind = "tag"
             /\ outbox'[wire'[k].pos - 1].session # wire'[k].session
  <2>1. CASE k \notin OnWire
    <3>0. /\ wire'[k].session = session /\ OnWire' = OnWire \cup {k} /\ k \in Nat
      BY <2>1, NewOnWire
    <3>a. j # k
      BY <1>5, <3>0
    <3>1. j \in OnWire /\ wire[j].session = session
      BY <1>0, <1>5, <3>0, <3>a
    <3>2. PICK p \in 1 .. Len(outbox) : InOrder(k, p)
      <4>1. Ahead(k) \/ Farewell(k) \/ \E p \in 1 .. Len(outbox) : InOrder(k, p)
        BY <2>1, NewOnWire
      <4>. QED
        BY <1>2, <1>5, <2>1, <3>1, <4>1 DEF Farewell
    <3>3. outbox[p].kind = "startup" /\ wire'[k].pos = p
      BY <1>5, <3>2 DEF InOrder
    <3>4. Forwardable(p) /\ ~ Relaunch(p)
      BY <3>2, <3>3 DEF InOrder, Forward, Sendable
    <3>5. st.tag # 0 /\ st.tag = p - 1 /\ outbox[st.tag].session # session
      BY <3>3, <3>4 DEF Relaunch, StartupIsLive
    <3>6. outbox[st.tag].kind = "tag"
      BY <3>2, <3>5 DEF InOrder, Reader
    <3>7. UNCHANGED outbox /\ wire'[k].session = session
      BY <2>1, NewOnWire
    <3>. QED
      BY <3>3, <3>5, <3>6, <3>7
  <2>2. CASE k \in OnWire /\ j \notin OnWire
    <3>1. j \in Nat /\ \A m \in DOMAIN wire : m <= j
      BY <2>2, NewOnWire
    <3>2. k \in DOMAIN wire /\ k \in Nat
      BY <2>2, Facts
    <3>. QED
      BY <1>5, <3>1, <3>2
  <2>3. CASE k \in OnWire /\ j \in OnWire
    <3>1. /\ wire[k].pos > 1
          /\ outbox[wire[k].pos - 1].kind = "tag"
          /\ outbox[wire[k].pos - 1].session # wire[k].session
      BY <1>0, <1>5, <2>3 DEF OneLaunchPerConnection
    <3>2. wire[k].pos - 1 \in 1 .. Len(outbox)
      BY SMTT(30), <2>3, <3>1, Facts
    <3>3. outbox'[wire[k].pos - 1] = outbox[wire[k].pos - 1]
      BY <3>2, OutboxKept
    <3>. QED
      BY <1>0, <2>3, <3>1, <3>3
  <2>. QED
    BY <2>1, <2>2, <2>3
<1>. QED
  BY <1>4, <1>5 DEF OneLaunchPerConnection

----------------------------------------------------------------------------
(* The cursor *)

(* Where the cursor may be put, and where the tail.                         *)
Passing(p) == Moves(p) /\ Passes(p)
Bootstraps ==
    /\ cursor = NoCursor /\ base' = BootstrapBoundary /\ UNCHANGED <<outbox, wire>>
    /\ cursor' \in {NoCursor, BootstrapBoundary}

LEMMA CursorFact ==
    ASSUME IInv, [Next]_vars
    PROVE  \/ UNCHANGED <<cursor, base>>
           \/ proc = "running" /\ cursor' = st.tail /\ UNCHANGED base
           \/ proc # "running" /\ Bootstraps
           \/ \E p \in 1 .. Len(outbox) : Passing(p) /\ cursor' = p /\ UNCHANGED base
<1>1. ASSUME ~ OpenSession, ~ OpenFails
      PROVE  UNCHANGED base
  BY <1>1 DEF Next, RelayNext, SessionNext, StartProcess, LoseSession, Stop, Crash, EndSession,
     RetryCursor, StartupNext, Hoist, Connect, SendStartup, SendStartupFails, OutboxNext, Skip,
     ReadTag, Drop, ReconnectForRelaunch, Forward, Observe, ForwardFails,
     ReceiveNext, ReceiveAction, DeliverToInbox, ReceiverDies, ModWrites, relayVars, vars
<1>2. ASSUME NEW tail \in 0 .. Len(outbox), ResumeAt(tail), UNCHANGED <<outbox, wire>>
      PROVE  UNCHANGED <<cursor, base>> \/ Bootstraps
  BY <1>2 DEF ResumeAt, Bootstraps
<1>3. CASE OpenSession \/ OpenFails
  BY <1>2, <1>3 DEF OpenSession, OpenFails
<1>4. ASSUME EndSession("idle") \/ EndSession("down"), proc = "running"
      PROVE  UNCHANGED <<cursor, base>> \/ (proc = "running" /\ cursor' = st.tail /\ UNCHANGED base)
  BY <1>4 DEF EndSession, Finish
<1>5. CASE StartProcess \/ LoseSession \/ Stop \/ Crash \/ RetryCursor \/ StartupNext
  BY <1>4, <1>5 DEF StartProcess, LoseSession, Stop, Crash, RetryCursor, StartupNext, Hoist,
     Connect, SendStartup, SendStartupFails, AtLoop
<1>6. CASE ReceiveNext \/ UNCHANGED vars \/ \E rs \in Writes : ModWrites(rs)
  BY <1>6 DEF ReceiveNext, ReceiveAction, DeliverToInbox, ReceiverDies, ModWrites, relayVars, vars
<1>7. ASSUME NEW p \in 1 .. Len(outbox), Moves(p)
      PROVE  \/ UNCHANGED <<cursor, base>>
             \/ Passing(p) /\ cursor' = p /\ UNCHANGED base
  BY <1>7 DEF Passing, Moves, Passes, Skip, Drop, Observe, ReadTag, Forward, Checkpoint
<1>8. CASE OutboxNext
  <2>1. PICK p \in 1 .. MaxOutbox :
        \/ Skip(p) \/ ReadTag(p) \/ Drop(p) \/ ReconnectForRelaunch(p)
        \/ Forward(p) \/ Observe(p) \/ ForwardFails(p)
    BY <1>8 DEF OutboxNext
  <2>2. CASE ReconnectForRelaunch(p) \/ ForwardFails(p)
    BY <1>4, <2>2 DEF ReconnectForRelaunch, ForwardFails, Sendable, Reading, AtLoop
  <2>3. CASE Skip(p) \/ ReadTag(p) \/ Drop(p) \/ Forward(p)
    <3>1. Reading(p)
      BY <2>3 DEF Skip, ReadTag, Drop, Forward, Sendable
    <3>2. p \in 1 .. Len(outbox)
      BY <3>1, BoundsAssumption, Facts DEF Reading
    <3>3. Moves(p)
      BY <2>3, <3>1, <3>2
      DEF Moves, Passes, Reading, AtLoop, Skip, ReadTag, Drop, Forward
    <3>. QED
      BY <1>7, <3>2, <3>3
  <2>4. CASE Observe(p)
    <3>1. proc = "running" /\ pc = "sent" /\ p = st.next
      BY <2>4 DEF Observe
    <3>2. p \in 1 .. Len(outbox) /\ st.onWire
      BY <3>1, BoundsAssumption, Facts DEF IInv, ConsumerOK
    <3>3. Moves(p)
      BY <2>4, <3>1, <3>2 DEF Moves, Passes, Observe
    <3>. QED
      BY <1>7, <3>2, <3>3
  <2>. QED
    BY <2>1, <2>2, <2>3, <2>4
<1>. QED
  BY <1>3, <1>5, <1>6, <1>8 DEF Next, RelayNext, SessionNext

LEMMA TailFact ==
    ASSUME IInv, [Next]_vars, proc' = "running"
    PROVE  \/ proc = "running" /\ st'.tail = st.tail
           \/ OpenSession /\ st'.tail = cursor /\ cursor # NoCursor /\ UNCHANGED <<outbox, cursor, base>>
           \/ OpenSession /\ Bootstraps /\ st'.tail = BootstrapBoundary
           \/ \E p \in 1 .. Len(outbox) : Passing(p) /\ st'.tail = p /\ UNCHANGED base
<1>. st \in Consumer
  BY Facts
<1>1. CASE OpenSession
  <2>1. PICK tail \in 0 .. Len(outbox) : ResumeAt(tail) /\ st' = NewConsumer(tail)
    BY <1>1 DEF OpenSession
  <2>2. st'.tail = tail /\ UNCHANGED <<outbox, wire>>
    BY <1>1, <2>1 DEF OpenSession, NewConsumer
  <2>. QED
    BY <1>1, <2>1, <2>2 DEF ResumeAt, Bootstraps
<1>2. CASE Still \/ Hoist \/ \E rs \in Writes : ModWrites(rs)
  BY <1>2 DEF Still, Hoist, ModWrites, relayVars
<1>3. CASE Ends
  BY <1>3 DEF Ends
<1>4. CASE Connect \/ SendStartup
  BY <1>4 DEF Connect, SendStartup, AtLoop, Consumer
<1>5. ASSUME NEW p \in 1 .. Len(outbox), Moves(p)
      PROVE  st'.tail = st.tail \/ (Passing(p) /\ st'.tail = p /\ UNCHANGED base)
  <2>1. UNCHANGED base /\ (Passes(p) \/ Forward(p) \/ ReadTag(p))
    BY <1>5 DEF Moves
  <2>2. Passes(p) => st'.tail = p
    BY <1>5, MoveFact
  <2>3. ReadTag(p) \/ Forward(p) => st'.tail = st.tail
    BY <1>5, MoveFact
  <2>. QED
    BY <1>5, <2>1, <2>2, <2>3 DEF Passing
<1>6. \A p \in 1 .. Len(outbox) : Moves(p) => proc = "running"
  BY DEF Moves
<1>. QED
  BY <1>1, <1>2, <1>3, <1>4, <1>5, <1>6, Shapes

(* The records that are passed are no tags, and contexts are not skipped.   *)
LEMMA PassFact ==
    ASSUME IInv, Reader, NEW p \in 1 .. Len(outbox), Passing(p)
    PROVE  /\ outbox[p].kind # "tag" /\ p = st.next /\ proc = "running" /\ st.onWire
           /\ outbox[p].kind = "context" => Drop(p) \/ Observe(p)
<1>. /\ p = st.next /\ proc = "running" /\ st.onWire /\ Passes(p)
  BY DEF Passing, Moves
<1>1. Superseded(p) => outbox[p].kind \in ClearedKinds
  <2>1. st.hoisted # 0 => st.hoisted = lane /\ lane # 0
    BY DEF Reader
  <2>. QED
    BY <2>1, Facts DEF Superseded, ClearedKinds
<1>2. Skip(p) => outbox[p].kind \in ClearedKinds
  BY <1>1 DEF Skip
<1>3. Observe(p) => outbox[p].kind # "tag"
  BY DEF Observe, ConsumerOK, IInv
<1>4. Drop(p) => outbox[p].kind # "tag"
  BY DEF Drop
<1>. QED
  BY <1>2, <1>3, <1>4 DEF Passes, ClearedKinds

LEMMA RestingStep ==
    ASSUME IInv, Reader, Resting, [Next]_vars
    PROVE  Resting'
<1>1. ASSUME NEW c \in Int, c <= Len(outbox), Rests(c)
      PROVE  Rests(c)'
  <2>1. CASE c > 0
    <3>1. c \in 1 .. Len(outbox) /\ Len(outbox) \in Nat
      BY <1>1, <2>1, Facts
    <3>2. /\ outbox'[c] = outbox[c] /\ Len(outbox') >= Len(outbox) /\ Len(outbox') \in Nat
          /\ c < Len(outbox) => outbox'[c + 1] = outbox[c + 1]
      <4>1. c < Len(outbox) => c + 1 \in 1 .. Len(outbox)
        BY <3>1
      <4>. QED
        BY <3>1, <4>1, OutboxKept
    <3>. QED
      BY <1>1, <3>1, <3>2 DEF Rests
  <2>2. CASE ~ (c > 0)
    BY <2>2 DEF Rests
  <2>. QED
    BY <2>1, <2>2
<1>2. Rests(BootstrapBoundary) /\ BootstrapBoundary \in Int /\ BootstrapBoundary <= Len(outbox)
  <2>1. outbox \in Seq(Record) /\ Len(outbox) \in Nat /\ (Len(outbox) = 0 => outbox = <<>>)
    BY Facts
  <2>2. CASE outbox # <<>> /\ outbox[Len(outbox)].kind = "tag"
    <3>1. BootstrapBoundary = Len(outbox) - 1
      BY <2>2 DEF BootstrapBoundary
    <3>2. PICK c \in Nat : c = Len(outbox) - 1
      BY <2>1, <2>2
    <3>3. c + 1 = Len(outbox)
      BY <2>1, <3>2
    <3>4. Rests(c)
      BY <2>1, <2>2, <3>2, <3>3 DEF Rests
    <3>. QED
      BY <2>1, <3>1, <3>2, <3>4
  <2>3. CASE ~ (outbox # <<>> /\ outbox[Len(outbox)].kind = "tag")
    <3>1. BootstrapBoundary = Len(outbox)
      BY <2>3 DEF BootstrapBoundary
    <3>. QED
      BY <2>1, <2>3, <3>1 DEF Rests
  <2>. QED
    BY <2>2, <2>3
<1>3. ASSUME NEW p \in 1 .. Len(outbox), Passing(p)
      PROVE  Rests(p)
  BY <1>3, PassFact DEF Rests
<1>4. /\ cursor \in Int /\ cursor <= Len(outbox) /\ Rests(cursor) /\ st.tail \in Int
      /\ proc = "running" => st.tail <= Len(outbox) /\ Rests(st.tail)
  BY Facts DEF IInv, ConsumerOK, Resting
<1>5. PICK c \in Int : c = cursor' /\ c <= Len(outbox) /\ Rests(c)
  <2>1. Rests(NoCursor) /\ NoCursor \in Int /\ NoCursor <= Len(outbox)
    BY Facts DEF Rests, NoCursor
  <2>. QED
    BY <1>2, <1>3, <1>4, <2>1, Facts, CursorFact DEF Bootstraps
<1>6. ASSUME proc' = "running"
      PROVE  \E t \in Int : t = st'.tail /\ t <= Len(outbox) /\ Rests(t)
  BY <1>2, <1>3, <1>4, <1>6, Facts, TailFact
<1>7. Rests(cursor)'
  <2>1. Rests(c)'
    BY <1>1, <1>5
  <2>. QED
    BY <1>5, <2>1 DEF Rests
<1>8. ASSUME proc' = "running"
      PROVE  Rests(st.tail)'
  <2>1. PICK t \in Int : t = st'.tail /\ t <= Len(outbox) /\ Rests(t)
    BY <1>6, <1>8
  <2>2. Rests(t)'
    BY <1>1, <2>1
  <2>. QED
    BY <2>1, <2>2 DEF Rests
<1>. QED
  BY <1>7, <1>8 DEF Resting

(* The cursor stays behind the consumer, and does not go back.              *)
LEMMA BehindStep ==
    ASSUME IInv, Reader, Behind, [Next]_vars
    PROVE  Behind' /\ cursor' >= cursor
<1>0. /\ cursor \in Int /\ st.tail \in Nat /\ st.next \in Nat
      /\ proc = "running" => cursor <= st.tail /\ st.tail < st.next
  BY Facts DEF Behind, Reader
<1>1. BootstrapBoundary \in Nat
  <2>1. Len(outbox) \in Nat /\ (outbox # <<>> => Len(outbox) # 0)
    BY Facts, EmptySeq
  <2>. QED
    BY <2>1 DEF BootstrapBoundary
<1>2. \A p \in 1 .. Len(outbox) : Passing(p) => p = st.next /\ proc = "running"
  BY DEF Passing, Moves
<1>3. cursor' >= cursor
  BY <1>0, <1>1, <1>2, CursorFact DEF Bootstraps, NoCursor
<1>4. ASSUME proc' = "running"
      PROVE  cursor' <= st'.tail
  <2>1. CASE proc = "running"
    <3>1. \/ st'.tail = st.tail
          \/ st'.tail = st.next
      BY <1>2, <1>4, <2>1, TailFact DEF OpenSession
    <3>2. \/ cursor' = cursor \/ cursor' = st.tail
          \/ st'.tail = st.next /\ cursor' = st.next
      <4>1. ASSUME NEW p \in 1 .. Len(outbox), Passing(p)
            PROVE  st'.tail = p
        BY <4>1, MoveFact DEF Passing
      <4>. QED
        BY <1>2, <2>1, <4>1, CursorFact
    <3>. QED
      BY <1>0, <2>1, <3>1, <3>2
  <2>2. CASE proc # "running"
    <3>1. \/ st'.tail = cursor /\ UNCHANGED cursor
          \/ Bootstraps /\ st'.tail = BootstrapBoundary
      BY <1>2, <1>4, <2>2, TailFact
    <3>. QED
      BY <1>0, <1>1, <3>1 DEF Bootstraps, NoCursor
  <2>. QED
    BY <2>1, <2>2
<1>. QED
  BY <1>3, <1>4 DEF Behind

(* What was left unsaved once stays known.                                  *)
LEMMA UnsavedKept ==
    ASSUME [Next]_vars
    PROVE  unsaved \subseteq unsaved'
<1>1. CASE Crash \/ \E p \in 1 .. MaxOutbox : Observe(p)
  BY <1>1 DEF Crash, Observe, LeftUnsaved
<1>2. CASE (SessionNext /\ ~ Crash) \/ RetryCursor \/ StartupNext
  BY <1>2 DEF SessionNext, StartProcess, OpenSession, OpenFails, LoseSession, Stop, RetryCursor,
              StartupNext, Hoist, Connect, SendStartup, SendStartupFails, EndSession
<1>3. CASE OutboxNext /\ ~ \E p \in 1 .. MaxOutbox : Observe(p)
  BY <1>3 DEF OutboxNext, Skip, ReadTag, Drop, ReconnectForRelaunch, Forward, ForwardFails,
              EndSession
<1>4. CASE ReceiveNext \/ UNCHANGED vars \/ \E rs \in Writes : ModWrites(rs)
  BY <1>4 DEF ReceiveNext, ReceiveAction, DeliverToInbox, ReceiverDies, ModWrites, relayVars, vars
<1>. QED
  BY <1>1, <1>2, <1>3, <1>4 DEF Next, RelayNext

LEMMA CheckpointedStep ==
    ASSUME IInv, Started, Reader, LastSent, Behind, ForceCheckpointed, [Next]_vars
    PROVE  ForceCheckpointed'
<1>. SUFFICES ASSUME NEW j \in OnWire', Kind(j)' \in {"force", "context"}
              PROVE  \/ /\ wire'[j].pos <= cursor'
                        /\ \A k \in OnWire' : j < k => wire'[k].pos # wire'[j].pos
                     \/ j \in unsaved'
                     \/ pc' = "sent" /\ j = Len(wire')
  BY DEF ForceCheckpointed
<1>0. \A k \in OnWire : k \in DOMAIN wire /\ wire'[k] = wire[k] /\ Kind(k)' = Kind(k)
  BY WireKept, Facts
<1>b. /\ cursor \in Int /\ cursor' \in Int /\ cursor' >= cursor
      /\ st.tail \in Nat /\ st.next \in Nat /\ Len(wire) \in Nat /\ DOMAIN wire = 1 .. Len(wire)
      /\ \A k \in DOMAIN wire : wire[k].pos \in Nat
  <2>1. TypeOK'
    BY TypeStep
  <2>2. cursor' \in Int
    BY <2>1, BoundsAssumption DEF TypeOK, Positions, NoCursor
  <2>. QED
    BY <2>2, BehindStep, Facts
<1>1. CASE j \in OnWire /\ j \in unsaved
  BY <1>1, UnsavedKept
<1>2. CASE j \in OnWire /\ pc = "sent" /\ j = Len(wire)
  <2>1. wire[j].pos = st.next /\ Urgent(st.next)
    <3>1. wire[j].pos = st.next /\ st.next # 0
      BY <1>2, Facts DEF LastSent
    <3>2. Kind(j) = outbox[st.next].kind
      BY <3>1 DEF Kind
    <3>. QED
      BY <1>0, <1>2, <3>1, <3>2 DEF Urgent
  <2>2. CASE UNCHANGED <<pc, wire>>
    BY <1>2, <2>2
  <2>3. CASE Crash
    BY <1>2, <2>1, <2>3 DEF Crash, LeftUnsaved
  <2>4. CASE Observe(st.next)
    <3>1. CASE retry'
      BY <1>2, <2>1, <2>4, <3>1 DEF Observe, LeftUnsaved
    <3>2. CASE ~ retry'
      <4>1. cursor' = st.next /\ UNCHANGED wire
        BY <2>1, <2>4, <3>2 DEF Observe, Checkpoint
      <4>2. \A k \in OnWire' : ~ (j < k)
        BY <1>2, <1>b, <4>1 DEF OnWire
      <4>. QED
        BY <1>b, <2>1, <4>1, <4>2
    <3>. QED
      BY <3>1, <3>2
  <2>. QED
    BY <1>2, <2>2, <2>3, <2>4, BetweenFact
<1>3. CASE /\ j \in OnWire /\ wire[j].pos <= cursor
           /\ \A k \in OnWire : j < k => wire[k].pos # wire[j].pos
  <2>1. wire'[j].pos <= cursor'
    BY <1>0, <1>b, <1>3
  <2>2. ASSUME NEW k \in OnWire', k \notin OnWire
        PROVE  wire'[k].pos # wire[j].pos
    <3>1. wire[j].pos # 0 /\ Kind(j) = outbox[wire[j].pos].kind
      BY <1>0, <1>3 DEF Kind
    <3>2. Ahead(k) \/ Farewell(k) \/ \E p \in 1 .. Len(outbox) : InOrder(k, p)
      BY <2>2, NewOnWire
    <3>3. CASE Ahead(k)
      <4>1. lane # 0 /\ outbox[lane].kind = "startup" /\ wire'[k].pos = lane
        BY <3>3, Facts DEF Ahead
      <4>. QED
        BY <1>0, <1>3, <3>1, <4>1
    <3>4. CASE Farewell(k)
      BY <3>1, <3>4 DEF Farewell
    <3>5. CASE \E p \in 1 .. Len(outbox) : InOrder(k, p)
      <4>1. proc = "running" /\ wire'[k].pos = st.next
        BY <3>5 DEF InOrder
      <4>. QED
        BY <1>0, <1>3, <1>b, <4>1 DEF Behind, Reader
    <3>. QED
      BY <3>2, <3>3, <3>4, <3>5
  <2>. QED
    BY <1>0, <1>3, <2>1, <2>2
<1>4. CASE j \notin OnWire
  <2>1. PICK p \in 1 .. Len(outbox) : InOrder(j, p)
    <3>1. Ahead(j) \/ Farewell(j) \/ \E p \in 1 .. Len(outbox) : InOrder(j, p)
      BY <1>4, NewOnWire
    <3>. QED
      BY <3>1 DEF Ahead, Farewell
  <2>2. Forward(p) /\ pc' = "sent" /\ SendFrame(p, TRUE) /\ UNCHANGED outbox
    BY <2>1 DEF InOrder, Forward
  <2>3. PICK n \in Nat : n = Len(wire) + 1 /\ OnWire' = OnWire \cup {n}
    BY <2>2, SentFact
  <2>4. j = Len(wire')
    BY <1>4, <2>2, <2>3, NewLength
  <2>. QED
    BY <2>2, <2>4
<1>. QED
  BY <1>0, <1>1, <1>2, <1>3, <1>4 DEF ForceCheckpointed

LEMMA GivenStep ==
    ASSUME IInv, Started, Reader, LastSent, Memory, GivenUp, [Next]_vars
    PROVE  GivenUp'
<1>. DEFINE Done(c) == \A p \in base + 1 .. c : Given(p)
<1>0. base \in Nat /\ cursor \in Int /\ st.tail \in Nat /\ Len(outbox) \in Nat
  BY Facts
<1>1. ASSUME NEW p \in 1 .. Len(outbox), Given(p)
      PROVE  Given(p)'
  <2>1. outbox'[p] = outbox[p]
    BY OutboxKept
  <2>2. ASSUME OnlyGame(outbox[p].game)'
        PROVE  OnlyGame(outbox[p].game)
    <3>1. DOMAIN outbox = 1 .. Len(outbox) /\ DOMAIN outbox' = 1 .. Len(outbox')
      <4>1. TypeOK'
        BY TypeStep DEF IInv
      <4>. QED
        BY <4>1 DEF IInv, TypeOK
    <3>2. \A q \in DOMAIN outbox : q \in DOMAIN outbox' /\ outbox'[q] = outbox[q]
      BY <1>0, <3>1, OutboxKept
    <3>. QED
      BY <2>1, <2>2, <3>2 DEF OnlyGame
  <2>3. \A k \in DOMAIN wire : k \in DOMAIN wire' /\ wire'[k] = wire[k]
    BY WireKept
  <2>. QED
    BY <1>1, <2>1, <2>2, <2>3 DEF Given
<1>2. ASSUME NEW p \in 1 .. Len(outbox), Passing(p), \A q \in base + 1 .. st.tail : Given(q)
      PROVE  \A q \in base + 1 .. p : Given(q)'
  <2>1. /\ outbox[p].kind # "tag" /\ p = st.next /\ proc = "running" /\ st.onWire
        /\ outbox[p].kind = "context" => Drop(p) \/ Observe(p)
    BY <1>2, PassFact
  <2>2. ASSUME NEW q \in base + 1 .. p, q # p
        PROVE  Given(q)'
    <3>1. q \in 1 .. Len(outbox)
      BY <1>0, <2>2
    <3>2. CASE q <= st.tail
      <4>1. Given(q)
        BY <1>0, <1>2, <2>2, <3>2
      <4>. QED
        BY <1>1, <3>1, <4>1
    <3>3. CASE ~ (q <= st.tail)
      <4>1. q \in st.tail + 1 .. st.next - 1
        BY <1>0, <2>1, <2>2, <3>1, <3>3
      <4>2. Given(q)
        BY <2>1, <4>1 DEF Reader, Given
      <4>. QED
        BY <1>1, <3>1, <4>2
    <3>. QED
      BY <3>2, <3>3
  <2>3. UNCHANGED outbox
    BY <1>2 DEF Passing, Moves
  <2>4. ASSUME outbox[p].kind = "context", OnlyGame(outbox[p].game)
        PROVE  \E k \in DOMAIN wire' : wire'[k].pos = p
    <3>1. CASE Observe(p)
      <4>1. Len(wire) \in DOMAIN wire /\ wire[Len(wire)].pos = p
        BY <2>1, <3>1, Facts DEF Observe, LastSent
      <4>. QED
        BY <4>1, WireKept
    <3>2. CASE Drop(p)
      <4>1. lane # 0 /\ outbox[lane].kind = "startup" /\ st.game = outbox[lane].game
            /\ lane \in 1 .. Len(outbox) /\ outbox[lane].game # NoGame
        BY <2>1, Facts DEF Started, LaneOK, IInv
      <4>2. DOMAIN outbox = 1 .. Len(outbox)
        BY DEF IInv, TypeOK
      <4>3. st.game = outbox[p].game /\ outbox[p].game # NoGame
        BY <2>4, <4>1, <4>2 DEF OnlyGame
      <4>4. Replayed(pending, "context", p)
        BY <2>4, <3>2, <4>3 DEF Drop, Forwardable
      <4>5. p \in Attempted("context")
        BY <2>1, <4>4 DEF Replayed, Memory, Remembers
      <4>. QED
        BY <4>5, WireKept DEF Attempted
    <3>. QED
      BY <2>1, <2>4, <3>1, <3>2
  <2>5. Given(p)'
    BY <2>3, <2>4 DEF Given, OnlyGame
  <2>. QED
    BY <2>2, <2>5
<1>3. ASSUME NEW c \in Int, c <= Len(outbox), \A p \in base + 1 .. c : Given(p)
      PROVE  \A p \in base + 1 .. c : Given(p)'
  <2>. SUFFICES ASSUME NEW p \in base + 1 .. c PROVE Given(p)'
    OBVIOUS
  <2>1. p \in 1 .. Len(outbox)
    BY <1>0, <1>3
  <2>. QED
    BY <1>1, <1>3, <2>1
<1>4. cursor <= Len(outbox) /\ (proc = "running" => st.tail <= Len(outbox))
  BY DEF IInv, ConsumerOK
<1>5. (\A p \in base + 1 .. cursor : Given(p)) /\ (proc = "running" => \A p \in base + 1 .. st.tail : Given(p))
  BY DEF GivenUp
<1>6. \A p \in base' + 1 .. cursor' : Given(p)'
  <2>1. CASE UNCHANGED <<cursor, base>>
    BY <1>0, <1>3, <1>4, <1>5, <2>1
  <2>2. CASE proc = "running" /\ cursor' = st.tail /\ UNCHANGED base
    BY <1>0, <1>3, <1>4, <1>5, <2>2
  <2>3. CASE Bootstraps
    <3>1. base' \in Int /\ cursor' \in Int /\ (cursor' <= base')
      <4>1. PICK b \in Int : b = BootstrapBoundary /\ b >= 0 - 1
        <5>1. BootstrapBoundary \in {Len(outbox), Len(outbox) - 1}
          BY DEF BootstrapBoundary
        <5>. QED
          BY <1>0, <5>1
      <4>2. base' = b /\ (cursor' = NoCursor \/ cursor' = b)
        BY <2>3, <4>1 DEF Bootstraps
      <4>3. NoCursor \in Int /\ NoCursor <= b /\ b <= b
        BY <4>1 DEF NoCursor
      <4>4. cursor' \in Int /\ cursor' <= b
        <5>1. CASE cursor' = NoCursor
          BY <4>3, <5>1
        <5>2. CASE cursor' = b
          BY <4>1, <4>3, <5>2
        <5>. QED
          BY <4>2, <5>1, <5>2
      <4>. QED
        BY <4>1, <4>2, <4>4
    <3>2. PICK b \in Int, c \in Int : b = base' /\ c = cursor' /\ c <= b
      BY <3>1
    <3>3. c <= b
      BY <3>2
    <3>4. ASSUME NEW p \in b + 1 .. c
          PROVE  FALSE
      BY <3>3
    <3>. QED
      BY <3>2, <3>4
  <2>4. ASSUME NEW p \in 1 .. Len(outbox), Passing(p), cursor' = p, UNCHANGED base
        PROVE  \A q \in base' + 1 .. cursor' : Given(q)'
    <3>1. proc = "running"
      BY <2>4 DEF Passing, Moves
    <3>. QED
      BY <1>2, <1>5, <2>4, <3>1
  <2>. QED
    BY <2>1, <2>2, <2>3, <2>4, CursorFact
<1>7. ASSUME proc' = "running"
      PROVE  \A p \in base' + 1 .. st'.tail : Given(p)'
  <2>1. CASE proc = "running" /\ st'.tail = st.tail
    <3>1. UNCHANGED base
      <4>1. ~ Bootstraps \/ OpenSession \/ OpenFails \/ UNCHANGED base
        BY <2>1, Shapes, <1>7 DEF Still, Ends, Hoist, Connect, SendStartup, Moves, ModWrites, relayVars
      <4>2. ~ OpenSession /\ ~ OpenFails
        BY <2>1 DEF OpenSession, OpenFails
      <4>. QED
        BY <4>1, <4>2, CursorFact
    <3>. QED
      BY <1>0, <1>3, <1>4, <1>5, <2>1, <3>1
  <2>2. CASE st'.tail = cursor /\ UNCHANGED <<outbox, cursor, base>>
    BY <1>0, <1>3, <1>4, <1>5, <2>2
  <2>3. CASE Bootstraps /\ st'.tail = BootstrapBoundary
    <3>1. base' = st'.tail /\ st'.tail \in Int
      <4>1. BootstrapBoundary \in {Len(outbox), Len(outbox) - 1}
        BY DEF BootstrapBoundary
      <4>. QED
        BY <1>0, <2>3, <4>1 DEF Bootstraps
    <3>2. PICK b \in Int : b = base' /\ b = st'.tail
      BY <3>1
    <3>3. ASSUME NEW p \in b + 1 .. b
          PROVE  FALSE
      OBVIOUS
    <3>. QED
      BY <3>2, <3>3
  <2>4. ASSUME NEW p \in 1 .. Len(outbox), Passing(p), st'.tail = p, UNCHANGED base
        PROVE  \A q \in base' + 1 .. st'.tail : Given(q)'
    <3>1. proc = "running"
      BY <2>4 DEF Passing, Moves
    <3>. QED
      BY <1>2, <1>5, <2>4, <3>1
  <2>. QED
    BY <1>7, <2>1, <2>2, <2>3, <2>4, TailFact
<1>. QED
  BY <1>6, <1>7 DEF GivenUp
----------------------------------------------------------------------------
(* The memory of what was sent *)

(* A full memory begins anew, one that is not stays exact.                  *)
LEMMA RememberFact ==
    ASSUME NEW A, NEW B, NEW memory, NEW p, IsFiniteSet(B), B = A \cup {p},
           memory \subseteq A, Cardinality(A) < MaxTracked => A \subseteq memory
    PROVE  /\ Remember(memory, p) \subseteq B
           /\ Cardinality(B) < MaxTracked => B \subseteq Remember(memory, p)
<1>1. Remember(memory, p) \subseteq B
  BY DEF Remember
<1>2. ASSUME Cardinality(B) < MaxTracked
      PROVE  B \subseteq Remember(memory, p)
  <2>1. Cardinality(A) <= Cardinality(B) /\ IsFiniteSet(A)
    BY FS_Subset
  <2>2. Cardinality(A) \in Nat /\ Cardinality(B) \in Nat /\ MaxTracked \in Nat
    BY <2>1, FS_CardinalityType, TrackedAssumption
  <2>3. memory = A /\ Cardinality(A) < MaxTracked
    BY <1>2, <2>1, <2>2
  <2>4. ~ (Cardinality(memory) >= MaxTracked)
    BY <2>2, <2>3
  <2>. QED
    BY <2>3, <2>4 DEF Remember
<1>. QED
  BY <1>1, <1>2

LEMMA AttemptedFact ==
    ASSUME IInv, NEW kind
    PROVE  /\ \A x : x \in Attempted(kind) <=>
                \E j \in DOMAIN wire :
                   wire[j].session > since /\ Kind(j) = kind /\ wire[j].pos = x
           /\ IsFiniteSet(Attempted(kind)) /\ Cardinality(Attempted(kind)) \in Nat
<1>1. \A x : x \in Attempted(kind) <=>
         \E j \in DOMAIN wire :
            wire[j].session > since /\ Kind(j) = kind /\ wire[j].pos = x
  BY DEF Attempted
<1>2. Attempted(kind) \subseteq 0 .. Len(outbox) /\ Len(outbox) \in Nat
  BY <1>1, Facts
<1>3. IsFiniteSet(Attempted(kind))
  BY <1>2, Bounded
<1>. QED
  BY <1>1, <1>3, FS_CardinalityType

(* What was sent for the tracker stays when a step sends nothing of the     *)
(* kind, and has one record more when it does.                              *)
LEMMA AttemptedSame ==
    ASSUME IInv, [Next]_vars, UNCHANGED since, NEW kind,
           \A n \in DOMAIN wire' : n \in DOMAIN wire \/ Kind(n)' # kind
    PROVE  Attempted(kind)' = Attempted(kind)
<1>1. \A x : x \in Attempted(kind)' <=>
        \E j \in DOMAIN wire' :
           wire'[j].session > since' /\ Kind(j)' = kind /\ wire'[j].pos = x
  BY DEF Attempted
<1>2. \A x : x \in Attempted(kind)' <=>
        \E j \in DOMAIN wire :
           wire[j].session > since /\ Kind(j) = kind /\ wire[j].pos = x
  BY <1>1, WireKept
<1>3. \A x : x \in Attempted(kind)' <=> x \in Attempted(kind)
  BY <1>2, AttemptedFact
<1>. QED
  BY <1>3

LEMMA AttemptedMore ==
    ASSUME IInv, [Next]_vars, UNCHANGED <<outbox, since>>, since < session, NEW kind,
           NEW p \in 1 .. Len(outbox), \E ok \in BOOLEAN : SendFrame(p, ok)
    PROVE  Attempted(kind)' = IF outbox[p].kind = kind
                              THEN Attempted(kind) \cup {p} ELSE Attempted(kind)
<1>1. PICK n :
        /\ n \in DOMAIN wire' /\ DOMAIN wire' = DOMAIN wire \cup {n}
        /\ wire'[n].session = session /\ wire'[n].pos = p
        /\ Kind(n)' = outbox[p].kind
  <2>1. PICK ok \in BOOLEAN : SendFrame(p, ok)
    OBVIOUS
  <2>2. p # 0
    BY Facts
  <2>. QED
    BY ZenonT(30), <2>1, <2>2, FrameFact
<1>2. \A x : x \in Attempted(kind)' <=>
        \E j \in DOMAIN wire' :
           wire'[j].session > since' /\ Kind(j)' = kind /\ wire'[j].pos = x
  BY DEF Attempted
<1>3. CASE outbox[p].kind = kind
  <2>1. session > since
    OBVIOUS
  <2>2. \A x : x \in Attempted(kind)' <=>
          \/ x = p
          \/ \E j \in DOMAIN wire :
                wire[j].session > since /\ Kind(j) = kind /\ wire[j].pos = x
    BY <1>1, <1>2, <1>3, <2>1, WireKept
  <2>3. \A x : x \in Attempted(kind)' <=> x = p \/ x \in Attempted(kind)
    BY <2>2, AttemptedFact
  <2>. QED
    BY <1>3, <2>3
<1>4. CASE outbox[p].kind # kind
  BY <1>1, <1>4, AttemptedSame
<1>. QED
  BY <1>3, <1>4

(* What a step makes of the memory: nothing, a new one, or one record more. *)
SameMemory == pending'.forces = pending.forces /\ pending'.contexts = pending.contexts
Quiet == UNCHANGED wire \/ SendStartup \/ SendStartupFails

LEMMA MemoryFact ==
    ASSUME IInv, [Next]_vars, proc' # "down"
    PROVE  \/ StartProcess
           \/ Connect /\ pending'.forces = {} /\ pending'.contexts = {} /\ since' = session - 1
           \/ SameMemory /\ UNCHANGED since /\ proc # "down" /\ Quiet
           \/ \E p \in 1 .. Len(outbox) : Forward(p) \/ ForwardFails(p)
<1>. pending \in Tracker
  BY Facts
<1>1. CASE SessionNext
  <2>1. CASE OpenSession \/ OpenFails
    BY <2>1 DEF OpenSession, OpenFails, BeginSession, Tracker, SameMemory, Quiet
  <2>2. CASE LoseSession
    BY <2>2 DEF LoseSession, AtLoop, EndSession, SameMemory, Quiet
  <2>3. ~ Stop /\ ~ Crash
    BY DEF Stop, Crash, EndSession
  <2>. QED
    BY <1>1, <2>1, <2>2, <2>3 DEF SessionNext
<1>2. CASE RetryCursor \/ ReceiveNext \/ UNCHANGED vars \/ \E rs \in Writes : ModWrites(rs)
  <2>1. CASE ReceiveNext
    <3>1. ASSUME NEW i \in ActionIds, ReceiveAction(i)
          PROVE  SameMemory
      BY <3>1 DEF ReceiveAction, Tracker, SameMemory
    <3>. QED
      BY <2>1, <3>1 DEF ReceiveNext, ReceiveAction, DeliverToInbox, ReceiverDies, SameMemory, Quiet
  <2>2. CASE RetryCursor \/ UNCHANGED vars \/ \E rs \in Writes : ModWrites(rs)
    BY <2>2 DEF RetryCursor, AtLoop, ModWrites, vars, relayVars, SameMemory, Quiet
  <2>. QED
    BY <1>2, <2>1, <2>2
<1>3. CASE StartupNext
  <2>1. CASE Connect
    <3>1. CASE pending.bound \in {NoGame, outbox[lane].game}
      BY <2>1, <3>1 DEF Connect, AtLoop, BindGame, Tracker, SameMemory, Quiet
    <3>2. CASE pending.bound \notin {NoGame, outbox[lane].game}
      BY <2>1, <3>2 DEF Connect, AtLoop, BindGame, NewTracker
    <3>. QED
      BY <3>1, <3>2
  <2>2. CASE Hoist
    BY <2>2 DEF Hoist, SameMemory, Quiet
  <2>3. CASE SendStartup \/ SendStartupFails
    BY <2>3 DEF SendStartup, SendStartupFails, AtLoop, EndSession, SameMemory, Quiet
  <2>. QED
    BY <1>3, <2>1, <2>2, <2>3 DEF StartupNext
<1>4. CASE OutboxNext
  <2>1. PICK p \in 1 .. MaxOutbox :
        \/ Skip(p) \/ ReadTag(p) \/ Drop(p) \/ ReconnectForRelaunch(p)
        \/ Forward(p) \/ Observe(p) \/ ForwardFails(p)
    BY <1>4 DEF OutboxNext
  <2>2. CASE Observe(p)
    BY <2>2 DEF Observe, Tracker, SameMemory, Quiet
  <2>3. CASE Skip(p) \/ ReadTag(p) \/ Drop(p) \/ ReconnectForRelaunch(p)
    BY <2>3 DEF Skip, ReadTag, Drop, ReconnectForRelaunch, Reading, AtLoop, EndSession,
                SameMemory, Quiet
  <2>4. CASE Forward(p) \/ ForwardFails(p)
    <3>1. Reading(p)
      BY <2>4 DEF Forward, ForwardFails, Sendable
    <3>2. p \in 1 .. Len(outbox)
      BY <3>1, BoundsAssumption, Facts DEF Reading
    <3>. QED
      BY <2>4, <3>2
  <2>. QED
    BY <2>1, <2>2, <2>3, <2>4
<1>. QED
  BY <1>1, <1>2, <1>3, <1>4 DEF Next, RelayNext

LEMMA MemoryStep ==
    ASSUME IInv, Started, Knows, Memory, [Next]_vars
    PROVE  Memory'
<1>. pending \in Tracker /\ Len(outbox) \in Nat
  BY Facts
<1>0. ASSUME proc' # "down", NEW kind, \A k \in DOMAIN wire' : wire'[k].session <= since'
      PROVE  Attempted(kind)' = {}
  <2>1. \A k \in DOMAIN wire' : ~ (wire'[k].session > since')
    <3>1. TypeOK'
      BY TypeStep DEF IInv
    <3>2. since' \in Nat /\ \A k \in DOMAIN wire' : wire'[k].session \in Nat
      <4>1. wire' \in Seq(Frame) /\ since' \in Sessions
        BY <3>1 DEF TypeOK
      <4>2. \A k \in DOMAIN wire' : wire'[k] \in Frame
        BY <4>1
      <4>. QED
        BY <4>1, <4>2, BoundsAssumption DEF Frame, Sessions
    <3>. QED
      BY <1>0, <3>2
  <2>. QED
    BY <2>1 DEF Attempted
<1>n. ASSUME NEW kind, Attempted(kind)' = {}
      PROVE  Remembers({}, kind)'
  BY <1>n DEF Remembers
<1>1. CASE StartProcess
  <2>1. \A k \in DOMAIN wire' : wire'[k].session <= since'
    BY <1>1, Facts DEF StartProcess
  <2>2. Remembers({}, "force")' /\ Remembers({}, "context")' /\ proc' # "down"
    BY <1>0, <1>1, <1>n, <2>1 DEF StartProcess
  <2>3. pending'.forces = {} /\ pending'.contexts = {}
    BY <1>1 DEF StartProcess, NewTracker
  <2>. QED
    BY <2>2, <2>3 DEF Memory, Remembers
<1>2. CASE Connect /\ pending'.forces = {} /\ pending'.contexts = {} /\ since' = session - 1
  <2>0. proc = "running" /\ ~ st.onWire /\ proc' # "down" /\ UNCHANGED wire
    BY <1>2 DEF Connect, AtLoop, LaneOK, IInv
  <2>1. \A k \in DOMAIN wire' : wire'[k].session <= since'
    <3>1. \A k \in DOMAIN wire : wire[k].session # session
      BY <2>0 DEF Started
    <3>. QED
      BY <1>2, <2>0, <3>1, Facts
  <2>2. Remembers({}, "force")' /\ Remembers({}, "context")' /\ proc' # "down"
    BY <1>0, <1>n, <2>0, <2>1
  <2>. QED
    BY <1>2, <2>2 DEF Memory, Remembers
<1>3. CASE SameMemory /\ UNCHANGED since /\ proc # "down" /\ Quiet
  <2>1. ASSUME NEW kind \in {"force", "context"}
        PROVE  Attempted(kind)' = Attempted(kind)
    <3>1. CASE UNCHANGED wire
      BY <1>3, <3>1, AttemptedSame
    <3>2. ASSUME NEW p \in 1 .. Len(outbox), \E ok \in BOOLEAN : SendFrame(p, ok),
                 outbox[p].kind = "startup", proc = "running", UNCHANGED outbox
          PROVE  Attempted(kind)' = Attempted(kind)
      <4>1. since < session
        BY <3>2 DEF Knows
      <4>. QED
        BY <1>3, <3>2, <4>1, AttemptedMore
    <3>3. CASE SendStartup \/ SendStartupFails
      <4>1. ws = "open" /\ proc = "running" /\ UNCHANGED outbox
        BY <3>3 DEF SendStartup, SendStartupFails, AtLoop, EndSession
      <4>2. lane \in 1 .. Len(outbox) /\ outbox[lane].kind = "startup"
        BY <4>1, Facts DEF LaneOK, IInv
      <4>3. SendFrame(lane, TRUE) \/ SendFrame(lane, FALSE)
        BY <3>3 DEF SendStartup, SendStartupFails
      <4>4. \E ok \in BOOLEAN : SendFrame(lane, ok)
        BY <4>3, Zenon
      <4>. QED
        BY <3>2, <4>1, <4>2, <4>4
    <3>. QED
      BY <1>3, <3>1, <3>3 DEF Quiet
  <2>. QED
    BY <1>3, <2>1 DEF Memory, Remembers, SameMemory
<1>4. ASSUME NEW p \in 1 .. Len(outbox), Forward(p) \/ ForwardFails(p)
      PROVE  Memory'
  <2>1. /\ pending' = FirstSendAt(pending, outbox[p].kind, p)
        /\ SendFrame(p, TRUE) \/ SendFrame(p, FALSE)
        /\ proc = "running" /\ UNCHANGED <<outbox, since>>
    BY <1>4 DEF Forward, ForwardFails, Sendable, Reading, AtLoop, EndSession
  <2>2. \E ok \in BOOLEAN : SendFrame(p, ok)
    BY <2>1, Zenon
  <2>3. since < session
    BY <2>1 DEF Knows
  <2>4. \A kind : Attempted(kind)' = IF outbox[p].kind = kind
                                     THEN Attempted(kind) \cup {p} ELSE Attempted(kind)
    BY <2>1, <2>2, <2>3, AttemptedMore
  <2>5. ASSUME NEW memory, NEW kind, Remembers(memory, kind), outbox[p].kind = kind
        PROVE  /\ Remember(memory, p) \subseteq Attempted(kind) \cup {p}
               /\ Cardinality(Attempted(kind) \cup {p}) < MaxTracked
                    => Attempted(kind) \cup {p} \subseteq Remember(memory, p)
    <3>1. IsFiniteSet(Attempted(kind) \cup {p})
      BY AttemptedFact, FS_AddElement
    <3>2. PICK A, B : A = Attempted(kind) /\ B = A \cup {p}
      OBVIOUS
    <3>3. /\ IsFiniteSet(B) /\ memory \subseteq A
          /\ Cardinality(A) < MaxTracked => A \subseteq memory
      BY <2>5, <3>1, <3>2 DEF Remembers
    <3>4. /\ Remember(memory, p) \subseteq B
          /\ Cardinality(B) < MaxTracked => B \subseteq Remember(memory, p)
      BY <3>2, <3>3, RememberFact
    <3>. QED
      BY <3>2, <3>4
  <2>6. Remembers(pending.forces, "force") /\ Remembers(pending.contexts, "context")
    BY <2>1 DEF Memory
  <2>7. /\ pending'.forces = IF outbox[p].kind = "force"
                             THEN Remember(pending.forces, p) ELSE pending.forces
        /\ pending'.contexts = IF outbox[p].kind = "context"
                               THEN Remember(pending.contexts, p) ELSE pending.contexts
    BY <2>1 DEF FirstSendAt, Tracker
  <2>8. Remembers(pending.forces, "force")'
    BY <2>4, <2>5, <2>6, <2>7 DEF Remembers
  <2>9. Remembers(pending.contexts, "context")'
    BY <2>4, <2>5, <2>6, <2>7 DEF Remembers
  <2>. QED
    BY <2>8, <2>9 DEF Memory
<1>5. CASE proc' = "down"
  BY <1>5 DEF Memory
<1>. QED
  BY <1>1, <1>2, <1>3, <1>4, <1>5, MemoryFact

LEMMA AttemptedGrows ==
    ASSUME IInv, [Next]_vars, UNCHANGED since, NEW kind, Cardinality(Attempted(kind)) >= MaxTracked
    PROVE  Cardinality(Attempted(kind)') >= MaxTracked
<1>1. Attempted(kind) \subseteq Attempted(kind)'
  BY WireKept, AttemptedFact DEF Attempted
<1>2. IsFiniteSet(Attempted(kind)')
  <2>1. WireOK' /\ Len(outbox') \in Nat
    BY WireStep, OutboxKept
  <2>2. Attempted(kind)' \in SUBSET (0 .. Len(outbox'))
    BY <2>1 DEF Attempted, WireOK
  <2>. QED
    BY <2>1, <2>2, Bounded
<1>3. Cardinality(Attempted(kind)) <= Cardinality(Attempted(kind)')
  BY <1>1, <1>2, FS_Subset
<1>4. Cardinality(Attempted(kind)) \in Nat /\ Cardinality(Attempted(kind)') \in Nat /\ MaxTracked \in Nat
  BY <1>2, AttemptedFact, FS_CardinalityType, TrackedAssumption
<1>. QED
  BY <1>3, <1>4

LEMMA NoReplayStep ==
    ASSUME IInv, Started, Knows, Memory, NoReplay, [Next]_vars
    PROVE  NoReplay'
<1>. SUFFICES ASSUME NEW j \in OnWire', NEW k \in OnWire', since' < wire'[j].session, j < k,
                     wire'[j].pos = wire'[k].pos, Kind(j)' \in {"force", "context"}
              PROVE  Cardinality(Attempted(Kind(j))') >= MaxTracked
  BY DEF NoReplay
<1>0. PICK kind \in {"force", "context"} : kind = Kind(j)' /\ kind = Kind(k)'
  BY DEF Kind
<1>1. CASE UNCHANGED since
  <2>1. Cardinality(Attempted(kind)) >= MaxTracked
    <3>1. j \in OnWire
      <4>1. SUFFICES ASSUME j \notin OnWire PROVE FALSE
        OBVIOUS
      <4>2. j \in Nat /\ OnWire' = OnWire \cup {j} /\ \A i \in DOMAIN wire : i <= j
        BY <4>1, NewOnWire
      <4>3. k \in DOMAIN wire /\ k \in Nat /\ k # j
        BY <4>2, Facts
      <4>. QED
        BY <4>2, <4>3
    <3>2. wire'[j] = wire[j] /\ Kind(j) = kind
      BY <1>0, <3>1, WireKept, Facts
    <3>3. CASE k \in OnWire
      <4>1. wire'[k] = wire[k]
        BY <3>3, WireKept, Facts
      <4>. QED
        BY <1>1, <3>1, <3>2, <3>3, <4>1 DEF NoReplay
    <3>4. CASE k \notin OnWire
      <4>1. PICK p \in 1 .. Len(outbox) : InOrder(k, p)
        <5>1. Ahead(k) \/ Farewell(k) \/ \E p \in 1 .. Len(outbox) : InOrder(k, p)
          BY <3>4, NewOnWire
        <5>. QED
          BY <1>0, <5>1 DEF Ahead, Farewell
      <4>2. Forward(p) /\ proc = "running" /\ wire'[k].pos = p /\ outbox[p].kind = kind
        BY <1>0, <4>1 DEF InOrder
      <4>3. ~ Replayed(pending, kind, p)
        BY <4>2 DEF Forward, Sendable
      <4>4. p \in Attempted(kind)
        BY SMTT(30), <1>1, <3>1, <3>2, <4>2, AttemptedFact, Facts
      <4>5. Remembers(pending.forces, "force") /\ Remembers(pending.contexts, "context")
        BY <4>2 DEF Memory
      <4>6. ASSUME NEW memory, Remembers(memory, kind), Cardinality(Attempted(kind)) < MaxTracked
            PROVE  p \in memory /\ Cardinality(memory) < MaxTracked
        <5>1. memory = Attempted(kind)
          BY <4>6 DEF Remembers
        <5>. QED
          BY <4>4, <4>6, <5>1
      <4>7. ~ (Cardinality(Attempted(kind)) < MaxTracked)
        BY <4>3, <4>5, <4>6 DEF Replayed
      <4>. QED
        BY <4>7, AttemptedFact, TrackedAssumption
    <3>. QED
      BY <3>3, <3>4
  <2>2. Cardinality(Attempted(kind)') >= MaxTracked
    BY <1>1, <2>1, AttemptedGrows
  <2>. QED
    BY <1>0, <2>2 DEF Attempted
<1>2. CASE since' # since
  <2>1. StartProcess \/ Connect
    <3>1. ASSUME NEW p \in 1 .. Len(outbox), Forward(p) \/ ForwardFails(p)
          PROVE  FALSE
      BY <1>2, <3>1 DEF Forward, ForwardFails, EndSession
    <3>2. CASE proc' = "down"
      BY <1>2, <3>2
      DEF Next, RelayNext, SessionNext, StartProcess, OpenSession, OpenFails, LoseSession, Stop, Crash, EndSession,
          RetryCursor, StartupNext, Hoist, Connect, SendStartup, SendStartupFails, OutboxNext, Skip,
          ReadTag, Drop, ReconnectForRelaunch, Forward, Observe, ForwardFails,
          ReceiveNext, ReceiveAction, DeliverToInbox, ReceiverDies, ModWrites, relayVars, vars
    <3>. QED
      BY <1>2, <3>1, <3>2, MemoryFact
  <2>2. \A i \in DOMAIN wire : wire[i].session <= since' /\ wire[i].session \in Nat
    <3>1. CASE StartProcess
      BY <3>1, Facts DEF StartProcess
    <3>2. CASE Connect
      <4>1. proc = "running" /\ ~ st.onWire /\ since' = session - 1
        BY <1>2, <3>2 DEF Connect, AtLoop, LaneOK, IInv
      <4>2. \A i \in DOMAIN wire : wire[i].session # session
        BY <4>1 DEF Started
      <4>. QED
        BY <4>1, <4>2, Facts
    <3>. QED
      BY <2>1, <3>1, <3>2
  <2>3. UNCHANGED wire /\ since' \in Int
    BY <2>1, Facts, BoundsAssumption DEF StartProcess, Connect, IInv, TypeOK, Sessions
  <2>4. j \in DOMAIN wire
    BY <2>3, Facts DEF OnWire
  <2>. QED
    BY <2>2, <2>3, <2>4
<1>. QED
  BY <1>1, <1>2

----------------------------------------------------------------------------
(* The actions of the inbox *)

LEMMA InboxTypes ==
    ASSUME IInv
    PROVE  /\ inbox \in Seq(InboxRecord) /\ Len(inbox) \in Nat /\ DOMAIN inbox = 1 .. Len(inbox)
           /\ \A n \in DOMAIN inbox : inbox[n].session \in Nat
           /\ session \in Nat /\ since \in Nat
<1>1. inbox \in Seq(InboxRecord) /\ since \in Sessions
  BY DEF IInv, TypeOK
<1>2. \A n \in DOMAIN inbox : inbox[n] \in InboxRecord
  BY <1>1
<1>3. \A n \in DOMAIN inbox : inbox[n].session \in Nat
  BY <1>2, BoundsAssumption DEF InboxRecord, Sessions
<1>. QED
  BY <1>1, <1>3, Facts, BoundsAssumption DEF Sessions

(* The line a step adds is the request of a new session, or the action the  *)
(* receive task was delivering.                                             *)
Requests(n) == OpenSession /\ inbox'[n] = Reregister(session')
Delivers(n) ==
    /\ rx.state = "delivering" /\ UNCHANGED session /\ inbox'[n] = ActionLine(rx.id, session)
    /\ DeliverToInbox \/ proc' # "running"

LEMMA InboxFact ==
    ASSUME IInv, [Next]_vars
    PROVE  /\ \A n \in DOMAIN inbox : n \in DOMAIN inbox' /\ inbox'[n] = inbox[n]
           /\ \A n \in DOMAIN inbox' :
                \/ n \in DOMAIN inbox
                \/ /\ n = Len(inbox) + 1 /\ \A j \in DOMAIN inbox : j < n
                   /\ Requests(n) \/ Delivers(n)
<1>. inbox \in Seq(InboxRecord) /\ Len(inbox) \in Nat /\ DOMAIN inbox = 1 .. Len(inbox)
  BY InboxTypes
<1>a. ASSUME NEW r, inbox' = Append(inbox, r)
      PROVE  /\ \A n \in DOMAIN inbox : n \in DOMAIN inbox' /\ inbox'[n] = inbox[n]
             /\ \A n \in DOMAIN inbox' :
                  \/ n \in DOMAIN inbox
                  \/ n = Len(inbox) + 1 /\ inbox'[n] = r /\ \A j \in DOMAIN inbox : j < n
  <2>1. DOMAIN inbox' = 1 .. Len(inbox) + 1
    BY <1>a
  <2>2. inbox'[Len(inbox) + 1] = r
    BY <1>a
  <2>3. \A n \in DOMAIN inbox : inbox'[n] = inbox[n]
    BY <1>a
  <2>. QED
    BY <2>1, <2>2, <2>3
<1>1. CASE UNCHANGED inbox
  BY <1>1
<1>2. CASE OpenSession
  <2>1. PICK r : r = Reregister(session') /\ inbox' = Append(inbox, r)
    BY <1>2 DEF OpenSession
  <2>. QED
    BY <1>2, <1>a, <2>1 DEF Requests
<1>3. ASSUME rx.state = "delivering", UNCHANGED session, inbox' = Append(inbox, ActionLine(rx.id, session)),
             DeliverToInbox \/ proc' # "running"
      PROVE  /\ \A n \in DOMAIN inbox : n \in DOMAIN inbox' /\ inbox'[n] = inbox[n]
             /\ \A n \in DOMAIN inbox' :
                  \/ n \in DOMAIN inbox
                  \/ n = Len(inbox) + 1 /\ Delivers(n) /\ \A j \in DOMAIN inbox : j < n
  <2>1. PICK r : r = ActionLine(rx.id, session) /\ inbox' = Append(inbox, r)
    BY <1>3
  <2>. QED
    BY <1>3, <1>a, <2>1 DEF Delivers
<1>4. ASSUME StopReceiver, UNCHANGED session, proc' # "running"
      PROVE  \/ UNCHANGED inbox
             \/ /\ rx.state = "delivering" /\ UNCHANGED session
                /\ inbox' = Append(inbox, ActionLine(rx.id, session))
                /\ DeliverToInbox \/ proc' # "running"
  BY <1>4 DEF StopReceiver
<1>5. \/ UNCHANGED inbox \/ OpenSession \/ DeliverToInbox
      \/ StopReceiver /\ UNCHANGED session /\ proc' # "running"
  BY DEF Next, RelayNext, SessionNext, StartProcess, OpenFails, LoseSession, Stop, Crash,
     EndSession, EndConsumer, RetryCursor, StartupNext, Hoist, Connect, SendStartup,
     SendStartupFails, OutboxNext, Skip, ReadTag, Drop, ReconnectForRelaunch, Forward,
     Observe, ForwardFails, ReceiveNext, ReceiveAction, ReceiverDies,
     ModWrites, relayVars, vars
<1>6. CASE DeliverToInbox
  BY <1>3, <1>6 DEF DeliverToInbox
<1>. QED
  BY <1>1, <1>2, <1>3, <1>4, <1>5, <1>6

(* What the tracker makes of an action of the inbox.                        *)
Known(i, s) ==
    i # NoId /\ since < s =>
         /\ proc = "running" /\ s = session =>
              ws = "open" /\ i \in pending.delivered /\ (rx.state = "delivering" => i # rx.id)
         /\ proc = "running" /\ s < session => i \in pending.earlier
         /\ proc = "idle" => i \in pending.earlier \cup pending.delivered

LEMMA KnowsStep ==
    ASSUME IInv, Knows, [Next]_vars
    PROVE  Knows'
<1>. /\ pending \in Tracker /\ session \in Nat /\ since \in Nat
     /\ \A n \in DOMAIN inbox : inbox[n].session \in Nat
     /\ LaneOK /\ rx \in Receiver /\ ws \in {"none", "open"}
     /\ proc \in {"down", "idle", "running"}
  BY Facts, InboxTypes DEF IInv, TypeOK
<1>k. /\ \A n \in DOMAIN inbox : inbox[n].session <= session /\ Known(inbox[n].id, inbox[n].session)
      /\ proc # "down" => since <= session
      /\ proc = "running" => since < session
      /\ rx.state = "delivering" => rx.id \in pending.delivered
      /\ proc # "running" => rx.state = "off"
  BY DEF Knows, Known, LaneOK
<1>. DEFINE Kept == \A i : \A s \in Nat : s <= session /\ Known(i, s) => Known(i, s)'
            Brought == \A i, s : /\ rx.state = "delivering" /\ i = rx.id /\ s = session
                                 /\ UNCHANGED session /\ (DeliverToInbox \/ proc' # "running")
                                 => Known(i, s)'
            Ordered == /\ session' \in Nat /\ session <= session'
                       /\ proc' # "down" => since' <= session'
                       /\ proc' = "running" => since' < session'
                       /\ rx'.state = "delivering" => rx'.id \in pending'.delivered
<1>q. ASSUME Kept, Brought, Ordered
      PROVE  Knows'
  <2>1. ASSUME NEW n \in DOMAIN inbox'
        PROVE  \E i : \E s \in Nat :
                  i = inbox'[n].id /\ s = inbox'[n].session /\ s <= session' /\ Known(i, s)'
    <3>1. CASE n \in DOMAIN inbox
      <4>1. PICK i : \E s \in Nat : i = inbox[n].id /\ s = inbox[n].session /\ s <= session /\ Known(i, s)
        BY <1>k, <3>1
      <4>2. PICK s \in Nat : i = inbox[n].id /\ s = inbox[n].session /\ s <= session /\ Known(i, s)
        BY <4>1
      <4>3. Known(i, s)' /\ s <= session'
        BY <1>q, <4>2
      <4>4. inbox'[n] = inbox[n]
        BY <3>1, InboxFact
      <4>. QED
        BY <4>2, <4>3, <4>4
    <3>2. CASE Requests(n)
      <4>1. inbox'[n].id = NoId /\ inbox'[n].session = session'
        BY <3>2 DEF Requests, Reregister
      <4>2. PICK s \in Nat : s = session'
        BY <1>q
      <4>3. Known(NoId, s)' /\ s <= s
        BY <4>2 DEF Known
      <4>. QED
        BY <4>1, <4>2, <4>3
    <3>3. CASE Delivers(n)
      <4>1. PICK i : i = rx.id
        OBVIOUS
      <4>2. PICK s \in Nat : s = session
        OBVIOUS
      <4>3. Known(i, s)' /\ s <= session'
        BY <1>q, <3>3, <4>1, <4>2 DEF Delivers
      <4>4. inbox'[n].id = i /\ inbox'[n].session = s
        BY <3>3, <4>1, <4>2 DEF Delivers, ActionLine
      <4>. QED
        BY <4>3, <4>4
    <3>. QED
      BY <2>1, <3>1, <3>2, <3>3, InboxFact
  <2>2. \A n \in DOMAIN inbox' : inbox'[n].session <= session'
    BY <2>1
  <2>3. \A n \in DOMAIN inbox' : Known(inbox[n].id, inbox[n].session)'
    <3>. SUFFICES ASSUME NEW n \in DOMAIN inbox' PROVE Known(inbox[n].id, inbox[n].session)'
      OBVIOUS
    <3>1. PICK i : \E s \in Nat : i = inbox'[n].id /\ s = inbox'[n].session /\ Known(i, s)'
      BY <2>1
    <3>2. PICK s \in Nat : i = inbox'[n].id /\ s = inbox'[n].session /\ Known(i, s)'
      BY <3>1
    <3>. QED
      BY <3>2 DEF Known
  <2>. QED
    BY <1>q, <2>2, <2>3 DEF Knows, Known
<1>1. CASE OpenSession
  <2>1. /\ proc = "idle" /\ proc' = "running" /\ session' = session + 1 /\ UNCHANGED <<rx, since>>
        /\ pending'.earlier = pending.earlier \cup pending.delivered
    BY <1>1 DEF OpenSession, BeginSession, Tracker
  <2>2. Ordered /\ rx.state = "off"
    BY <1>k, <2>1
  <2>3. ASSUME NEW i, NEW s \in Nat, s <= session, Known(i, s)
        PROVE  Known(i, s)'
    BY <2>1, <2>3 DEF Known
  <2>. QED
    BY <1>q, <2>2, <2>3
<1>2. CASE OpenFails
  <2>1. /\ proc = "idle" /\ proc' = "idle" /\ session' \in {session, session + 1} /\ UNCHANGED <<rx, since>>
        /\ pending'.earlier = pending.earlier \cup pending.delivered
    BY <1>2 DEF OpenFails, BeginSession, Tracker
  <2>2. Ordered /\ rx.state = "off"
    BY <1>k, <2>1
  <2>3. ASSUME NEW i, NEW s \in Nat, s <= session, Known(i, s)
        PROVE  Known(i, s)'
    BY <2>1, <2>3 DEF Known
  <2>. QED
    BY <1>q, <2>2, <2>3
<1>3. CASE StartProcess
  <2>1. /\ proc = "down" /\ proc' = "idle" /\ UNCHANGED <<session, rx>> /\ since' = session
    BY <1>3 DEF StartProcess
  <2>2. Ordered /\ rx.state = "off"
    BY <1>k, <2>1
  <2>3. ASSUME NEW i, NEW s \in Nat, s <= session, Known(i, s)
        PROVE  Known(i, s)'
    BY <2>1, <2>3 DEF Known
  <2>. QED
    BY <1>q, <2>2, <2>3
<1>4. CASE proc' = "down" /\ UNCHANGED session /\ rx'.state = "off"
  <2>1. Ordered
    BY <1>4, <1>k
  <2>2. \A i : \A s : Known(i, s)'
    BY <1>4 DEF Known
  <2>. QED
    BY <1>q, <2>1, <2>2
<1>5. CASE /\ EndSession("idle") /\ proc = "running"
           /\ pending'.delivered = pending.delivered /\ pending'.earlier = pending.earlier
  <2>1. proc' = "idle" /\ UNCHANGED <<session, since>> /\ rx'.state = "off"
    BY <1>5 DEF EndSession, EndConsumer, StopReceiver
  <2>2. Ordered
    BY <1>k, <1>5, <2>1
  <2>3. ASSUME NEW i, NEW s \in Nat, s <= session, Known(i, s)
        PROVE  Known(i, s)'
    BY <1>5, <2>1, <2>3 DEF Known
  <2>4. Brought
    BY <1>k, <1>5, <2>1 DEF Known
  <2>. QED
    BY <1>q, <2>2, <2>3, <2>4
<1>6. CASE /\ UNCHANGED <<session, proc, rx, ws, since>> /\ ~ DeliverToInbox
           /\ pending'.delivered = pending.delivered /\ pending'.earlier = pending.earlier
  <2>1. Ordered
    BY <1>k, <1>6
  <2>2. ASSUME NEW i, NEW s \in Nat, s <= session, Known(i, s)
        PROVE  Known(i, s)'
    BY <1>6, <2>2 DEF Known
  <2>3. Brought
    BY <1>k, <1>6
  <2>. QED
    BY <1>q, <2>1, <2>2, <2>3
<1>7. CASE Connect
  <2>1. /\ proc = "running" /\ proc' = "running" /\ UNCHANGED session /\ ws = "none" /\ ws' = "open"
        /\ rx.state = "off" /\ rx'.state = "reading"
    BY <1>7 DEF Connect, AtLoop, LaneOK
  <2>2. \/ /\ UNCHANGED since
           /\ pending'.delivered = pending.delivered /\ pending'.earlier = pending.earlier
        \/ since' = session - 1
    BY <1>7 DEF Connect, BindGame, Tracker
  <2>3. Ordered
    BY <1>k, <2>1, <2>2
  <2>4. ASSUME NEW i, NEW s \in Nat, s <= session, Known(i, s)
        PROVE  Known(i, s)'
    BY <1>k, <2>1, <2>2, <2>4 DEF Known
  <2>. QED
    BY <1>q, <2>1, <2>3, <2>4
<1>8. ASSUME NEW i \in ActionIds, ReceiveAction(i)
      PROVE  Knows'
  <2>1. /\ proc = "running" /\ UNCHANGED <<proc, session, since, ws>> /\ rx.state = "reading"
        /\ rx'.state = "delivering" /\ rx'.id = i /\ i \notin pending.delivered
        /\ pending'.delivered = pending.delivered \cup {i} /\ pending'.earlier = pending.earlier
    BY <1>8 DEF ReceiveAction, CanAdmit, Tracker
  <2>2. Ordered
    BY <1>k, <2>1
  <2>3. ASSUME NEW j, NEW s \in Nat, s <= session, Known(j, s)
        PROVE  Known(j, s)'
    BY <2>1, <2>3 DEF Known
  <2>. QED
    BY <1>q, <2>1, <2>2, <2>3
<1>9. CASE DeliverToInbox
  <2>1. /\ rx.state = "delivering" /\ UNCHANGED <<session, proc, since, ws, pending>>
        /\ rx'.state = "reading"
    BY <1>9 DEF DeliverToInbox
  <2>2. Ordered
    BY <1>k, <2>1
  <2>3. ASSUME NEW i, NEW s \in Nat, s <= session, Known(i, s)
        PROVE  Known(i, s)'
    BY <2>1, <2>3 DEF Known
  <2>4. Brought
    <3>1. rx.id \in pending.delivered /\ ws = "open" /\ proc = "running"
      BY <1>k, <2>1 DEF LaneOK
    <3>. QED
      BY <2>1, <3>1 DEF Known
  <2>. QED
    BY <1>q, <2>2, <2>3, <2>4
<1>10. CASE ReceiverDies
  <2>1. UNCHANGED <<session, proc, since, ws, pending>> /\ rx'.state = "dead" /\ ~ DeliverToInbox
    BY <1>10 DEF ReceiverDies, DeliverToInbox
  <2>2. Ordered
    BY <1>k, <2>1
  <2>3. ASSUME NEW i, NEW s \in Nat, s <= session, Known(i, s)
        PROVE  Known(i, s)'
    BY <2>1, <2>3 DEF Known
  <2>4. proc = "running"
    BY <1>10, <1>k DEF ReceiverDies
  <2>. QED
    BY <1>q, <2>1, <2>2, <2>3, <2>4
<1>11. CASE SessionNext
  <2>1. CASE Stop \/ Crash
    BY <1>4, <1>k, <2>1 DEF Stop, Crash, EndSession, EndConsumer, StopReceiver
  <2>2. CASE LoseSession
    BY <1>5, <2>2 DEF LoseSession, AtLoop
  <2>. QED
    BY <1>1, <1>2, <1>3, <1>11, <2>1, <2>2 DEF SessionNext
<1>12. CASE RetryCursor \/ Hoist \/ SendStartup \/ UNCHANGED vars \/ \E rs \in Writes : ModWrites(rs)
  <2>1. ~ DeliverToInbox \/ UNCHANGED vars
    BY <1>12 DEF RetryCursor, Hoist, SendStartup, ModWrites, DeliverToInbox, relayVars, vars
  <2>. QED
    BY <1>6, <1>9, <1>12, <2>1 DEF RetryCursor, Hoist, SendStartup, ModWrites, relayVars, vars
<1>13. CASE SendStartupFails
  BY <1>5, <1>13 DEF SendStartupFails, AtLoop
<1>14. CASE OutboxNext
  <2>1. PICK p \in 1 .. MaxOutbox :
        \/ Skip(p) \/ ReadTag(p) \/ Drop(p) \/ ReconnectForRelaunch(p)
        \/ Forward(p) \/ Observe(p) \/ ForwardFails(p)
    BY <1>14 DEF OutboxNext
  <2>2. CASE ReconnectForRelaunch(p) \/ ForwardFails(p)
    <3>1. proc = "running" /\ EndSession("idle")
      BY <2>2 DEF ReconnectForRelaunch, ForwardFails, Sendable, Reading, AtLoop
    <3>2. pending'.delivered = pending.delivered /\ pending'.earlier = pending.earlier
      BY <2>2 DEF ReconnectForRelaunch, ForwardFails, FirstSendAt, Tracker
    <3>. QED
      BY <1>5, <3>1, <3>2
  <2>3. CASE ~ (ReconnectForRelaunch(p) \/ ForwardFails(p))
    <3>1. UNCHANGED <<session, proc, rx, ws, since, inbox>>
      BY <2>1, <2>3 DEF Skip, ReadTag, Drop, Forward, Observe
    <3>2. pending'.delivered = pending.delivered /\ pending'.earlier = pending.earlier
      BY <2>1, <2>3 DEF Skip, ReadTag, Drop, Forward, Observe, FirstSendAt, Tracker
    <3>3. ~ DeliverToInbox \/ UNCHANGED rx
      BY <3>1
    <3>4. ~ DeliverToInbox
      BY <3>1 DEF DeliverToInbox
    <3>. QED
      BY <1>6, <3>1, <3>2, <3>4
  <2>. QED
    BY <2>2, <2>3
<1>. QED
  BY <1>7, <1>8, <1>9, <1>10, <1>11, <1>12, <1>13, <1>14
  DEF Next, RelayNext, StartupNext, ReceiveNext

LEMMA InSessionsStep ==
    ASSUME IInv, Knows, InboxInSessions, [Next]_vars
    PROVE  InboxInSessions'
<1>. SUFFICES ASSUME NEW j \in DOMAIN inbox', NEW k \in DOMAIN inbox', j < k
              PROVE  /\ inbox'[j].session <= inbox'[k].session
                     /\ inbox'[j].session = inbox'[k].session
                          => inbox'[k].kind = "action" /\ inbox'[j].id # inbox'[k].id
  BY DEF InboxInSessions
<1>1. /\ inbox \in Seq(InboxRecord) /\ Len(inbox) \in Nat /\ DOMAIN inbox = 1 .. Len(inbox)
      /\ \A n \in DOMAIN inbox : inbox[n].session \in Nat /\ inbox[n].session <= session
      /\ session \in Nat /\ since \in Nat
  BY InboxTypes DEF Knows
<1>2. j \in DOMAIN inbox /\ inbox'[j] = inbox[j]
  <2>1. CASE j \in DOMAIN inbox
    BY <2>1, InboxFact
  <2>2. CASE j \notin DOMAIN inbox
    <3>1. j = Len(inbox) + 1 /\ (k \in DOMAIN inbox \/ k = Len(inbox) + 1)
      BY <2>2, InboxFact
    <3>. QED
      BY <1>1, <3>1
  <2>. QED
    BY <2>1, <2>2
<1>3. CASE k \in DOMAIN inbox
  <2>1. inbox'[k] = inbox[k]
    BY <1>3, InboxFact
  <2>. QED
    BY <1>2, <1>3, <2>1 DEF InboxInSessions
<1>4. CASE Requests(k)
  <2>1. inbox'[k].session = session + 1
    BY <1>4 DEF Requests, OpenSession, Reregister
  <2>. QED
    BY <1>1, <1>2, <2>1
<1>5. CASE Delivers(k)
  <2>1. /\ inbox'[k].session = session /\ inbox'[k].id = rx.id /\ inbox'[k].kind = "action"
        /\ rx.state = "delivering"
    BY <1>5 DEF Delivers, ActionLine
  <2>2. rx.id # NoId /\ proc = "running" /\ since < session
    BY <2>1 DEF LaneOK, IInv, Knows
  <2>3. inbox[j].session = session => inbox[j].id # rx.id
    BY <1>2, <2>1, <2>2 DEF Knows
  <2>. QED
    BY <1>1, <1>2, <2>1, <2>3
<1>. QED
  BY <1>3, <1>4, <1>5, InboxFact

LEMMA NoStaleStep ==
    ASSUME IInv, Started, Knows, NoStaleResult, [Next]_vars
    PROVE  NoStaleResult'
<1>. SUFFICES ASSUME proc' = "running", NEW k \in OnWire', NEW n \in DOMAIN inbox',
                     wire'[k].session = session', Kind(k)' = "result", inbox'[n].id = Id(k)',
                     since' < inbox'[n].session, inbox'[n].session < session'
              PROVE  Id(k)' \in pending'.delivered
  BY DEF NoStaleResult
<1>. pending \in Tracker /\ session \in Nat /\ since \in Nat
  BY Facts, InboxTypes
<1>1. ~ OpenSession
  <2>1. SUFFICES ASSUME OpenSession PROVE FALSE
    OBVIOUS
  <2>2. session' = session + 1 /\ UNCHANGED wire
    BY <2>1 DEF OpenSession
  <2>3. k \in DOMAIN wire /\ wire[k].session = session + 1
    BY <2>2, Facts DEF OnWire
  <2>. QED
    BY <2>3, Facts
<1>2. session' = session /\ proc = "running"
  BY <1>1, Shapes DEF Still, Ends, Hoist, Connect, AtLoop, SendStartup, Moves, ModWrites, relayVars
<1>3. n \in DOMAIN inbox /\ inbox'[n] = inbox[n]
  <2>1. ~ Requests(n)
    BY <1>1 DEF Requests
  <2>2. ~ Delivers(n)
    <3>1. Delivers(n) => inbox'[n].session = session
      BY DEF Delivers, ActionLine
    <3>. QED
      BY <1>2, <3>1
  <2>. QED
    BY <2>1, <2>2, InboxFact
<1>4. UNCHANGED since /\ pending.delivered \subseteq pending'.delivered
      /\ pending'.earlier = pending.earlier
  <2>1. CASE Connect
    <3>1. ~ st.onWire /\ UNCHANGED <<wire, outbox>>
      BY <2>1 DEF Connect, LaneOK, IInv
    <3>2. k \in DOMAIN wire /\ wire[k].session = session
      BY <1>2, <3>1, Facts DEF OnWire
    <3>. QED
      BY <1>2, <3>1, <3>2 DEF Started
  <2>2. CASE RetryCursor \/ Hoist \/ SendStartup \/ UNCHANGED vars \/ \E rs \in Writes : ModWrites(rs)
    BY <2>2 DEF RetryCursor, Hoist, SendStartup, ModWrites, relayVars, vars
  <2>3. CASE OutboxNext
    <3>1. PICK p \in 1 .. MaxOutbox :
        \/ Skip(p) \/ ReadTag(p) \/ Drop(p) \/ ReconnectForRelaunch(p)
        \/ Forward(p) \/ Observe(p) \/ ForwardFails(p)
      BY <2>3 DEF OutboxNext
    <3>2. UNCHANGED since
      BY <3>1 DEF Skip, ReadTag, Drop, ReconnectForRelaunch, Forward, Observe,
                  ForwardFails, EndSession
    <3>3. pending'.delivered = pending.delivered /\ pending'.earlier = pending.earlier
      BY <3>1 DEF Skip, ReadTag, Drop, ReconnectForRelaunch, Forward, Observe,
                  ForwardFails, FirstSendAt, Tracker
    <3>. QED
      BY <3>2, <3>3
  <2>4. CASE ReceiveNext
    <3>1. ASSUME NEW i \in ActionIds, ReceiveAction(i)
          PROVE  /\ pending.delivered \subseteq pending'.delivered
                 /\ pending'.earlier = pending.earlier /\ UNCHANGED since
      BY <3>1 DEF ReceiveAction, Tracker
    <3>. QED
      BY <2>4, <3>1 DEF ReceiveNext, DeliverToInbox, ReceiverDies
  <2>5. ~ SendStartupFails /\ (SessionNext => FALSE)
    BY <1>1, <1>2 DEF SendStartupFails, SessionNext, StartProcess, OpenFails, LoseSession, Stop,
                      Crash, EndSession
  <2>. QED
    BY <2>1, <2>2, <2>3, <2>4, <2>5 DEF Next, RelayNext, StartupNext
<1>5. CASE k \in OnWire
  <2>1. k \in DOMAIN wire /\ wire'[k] = wire[k] /\ Kind(k)' = Kind(k) /\ Id(k)' = Id(k)
    BY <1>5, WireKept, Facts
  <2>2. Id(k) \in pending.delivered
    BY <1>2, <1>3, <1>4, <1>5, <2>1 DEF NoStaleResult
  <2>. QED
    BY <1>4, <2>1, <2>2
<1>6. CASE k \notin OnWire
  <2>1. PICK p \in 1 .. Len(outbox) : InOrder(k, p)
    <3>1. Ahead(k) \/ Farewell(k) \/ \E p \in 1 .. Len(outbox) : InOrder(k, p)
      BY <1>6, NewOnWire
    <3>. QED
      BY <3>1 DEF Ahead, Farewell
  <2>2. Sendable(p) /\ outbox[p].kind = "result" /\ Id(k)' = outbox[p].id
    BY <2>1 DEF InOrder, Forward
  <2>3. outbox[p].id # NoId /\ ~ Stale(pending, outbox[p].id)
    BY <2>2 DEF Sendable, Forwardable
  <2>4. outbox[p].id \in pending.earlier
    BY <1>2, <1>3, <1>4, <2>2, <2>3 DEF Knows
  <2>. QED
    BY <1>4, <2>2, <2>3, <2>4 DEF Stale
<1>. QED
  BY <1>5, <1>6

----------------------------------------------------------------------------
(* What is registered *)

LEMMA HeldFact ==
    ASSUME NEW s
    PROVE  \A x : x \in RegisteredOn(s) <=>
             /\ x # NoId
             /\ \E n \in OnWire :
                  /\ wire[n].session = s /\ Kind(n) = "register" /\ Id(n) = x
                  /\ \A m \in OnWire :
                       m > n /\ wire[m].session = s
                       => Kind(m) # "startup" /\ ~ (Kind(m) = "unregister" /\ Id(m) = x)
BY DEF RegisteredOn

LEMMA HeldSame ==
    ASSUME IInv, [Next]_vars, NEW s, OnWire' = OnWire
    PROVE  RegisteredOn(s)' = RegisteredOn(s)
<1>1. \A x : x \in RegisteredOn(s)' <=>
         /\ x # NoId
         /\ \E n \in OnWire' :
              /\ wire'[n].session = s /\ Kind(n)' = "register" /\ Id(n)' = x
              /\ \A m \in OnWire' :
                   m > n /\ wire'[m].session = s
                   => Kind(m)' # "startup" /\ ~ (Kind(m)' = "unregister" /\ Id(m)' = x)
  BY DEF RegisteredOn
<1>2. \A n \in OnWire : wire'[n] = wire[n] /\ Kind(n)' = Kind(n) /\ Id(n)' = Id(n)
  BY WireKept, Facts
<1>3. \A x : x \in RegisteredOn(s)' <=> x \in RegisteredOn(s)
  BY <1>1, <1>2, HeldFact
<1>. QED
  BY <1>3

LEMMA HeldMore ==
    ASSUME IInv, [Next]_vars, UNCHANGED <<outbox, session>>, NEW p \in 1 .. Len(outbox),
           SendFrame(p, TRUE)
    PROVE  RegisteredOn(session)' =
             CASE outbox[p].kind = "startup"    -> {}
               [] outbox[p].kind = "register"   -> RegisteredOn(session) \cup ({outbox[p].id} \ {NoId})
               [] outbox[p].kind = "unregister" -> RegisteredOn(session) \ {outbox[p].id}
               [] OTHER                         -> RegisteredOn(session)
<1>1. PICK f \in Nat :
         /\ f \notin DOMAIN wire /\ OnWire' = OnWire \cup {f}
         /\ wire'[f].session = session
         /\ Kind(f)' = outbox[p].kind /\ Id(f)' = outbox[p].id
         /\ \A k \in DOMAIN wire : k <= f /\ k # f
  <2>1. p # 0
    BY Facts
  <2>. QED
    BY <2>1, SentFact
<1>2. \A n \in OnWire :
         /\ wire'[n] = wire[n] /\ Kind(n)' = Kind(n) /\ Id(n)' = Id(n)
         /\ f > n /\ ~ (n > f) /\ n # f
  <2>1. \A n \in OnWire : n \in DOMAIN wire /\ n \in Nat
    BY Facts
  <2>. QED
    BY <1>1, <2>1, WireKept
<1>3. \A x : x \in RegisteredOn(session)' <=>
         /\ x # NoId
         /\ \E n \in OnWire' :
              /\ wire'[n].session = session' /\ Kind(n)' = "register" /\ Id(n)' = x
              /\ \A m \in OnWire' :
                   m > n /\ wire'[m].session = session'
                   => Kind(m)' # "startup" /\ ~ (Kind(m)' = "unregister" /\ Id(m)' = x)
  BY DEF RegisteredOn
<1>4. ~ (f > f)
  BY <1>1
<1>. DEFINE Clears(x) == Kind(f)' = "startup" \/ (Kind(f)' = "unregister" /\ Id(f)' = x)
<1>5. \A x : x \in RegisteredOn(session)' <=>
         \/ x # NoId /\ Kind(f)' = "register" /\ Id(f)' = x
         \/ x \in RegisteredOn(session) /\ ~ Clears(x)
  <2>. SUFFICES ASSUME NEW x
                PROVE  x \in RegisteredOn(session)' <=>
                         \/ x # NoId /\ Kind(f)' = "register" /\ Id(f)' = x
                         \/ x \in RegisteredOn(session) /\ ~ Clears(x)
    OBVIOUS
  <2>1. ASSUME NEW n \in OnWire
        PROVE  (\A m \in OnWire' :
                   m > n /\ wire'[m].session = session'
                   => Kind(m)' # "startup" /\ ~ (Kind(m)' = "unregister" /\ Id(m)' = x))
               <=> /\ ~ Clears(x)
                   /\ \A m \in OnWire :
                       m > n /\ wire[m].session = session
                       => Kind(m) # "startup" /\ ~ (Kind(m) = "unregister" /\ Id(m) = x)
    BY <1>1, <1>2
  <2>2. \A m \in OnWire' :
           m > f /\ wire'[m].session = session'
           => Kind(m)' # "startup" /\ ~ (Kind(m)' = "unregister" /\ Id(m)' = x)
    BY <1>1, <1>2, <1>4
  <2>3. x \in RegisteredOn(session) <=>
             /\ x # NoId
             /\ \E n \in OnWire :
                  /\ wire[n].session = session /\ Kind(n) = "register" /\ Id(n) = x
                  /\ \A m \in OnWire :
                       m > n /\ wire[m].session = session
                       => Kind(m) # "startup" /\ ~ (Kind(m) = "unregister" /\ Id(m) = x)
    BY HeldFact
  <2>4. ASSUME x \in RegisteredOn(session)'
        PROVE  \/ x # NoId /\ Kind(f)' = "register" /\ Id(f)' = x
               \/ x \in RegisteredOn(session) /\ ~ Clears(x)
    <3>1. PICK n \in OnWire' :
             /\ x # NoId /\ wire'[n].session = session' /\ Kind(n)' = "register" /\ Id(n)' = x
             /\ \A m \in OnWire' :
                   m > n /\ wire'[m].session = session'
                   => Kind(m)' # "startup" /\ ~ (Kind(m)' = "unregister" /\ Id(m)' = x)
      BY <1>3, <2>4
    <3>2. CASE n = f
      BY <3>1, <3>2
    <3>3. CASE n \in OnWire
      <4>1. wire[n].session = session /\ Kind(n) = "register" /\ Id(n) = x
        BY <1>2, <3>1, <3>3
      <4>2. /\ ~ Clears(x)
            /\ \A m \in OnWire :
                 m > n /\ wire[m].session = session
                 => Kind(m) # "startup" /\ ~ (Kind(m) = "unregister" /\ Id(m) = x)
        BY <2>1, <3>1, <3>3
      <4>. QED
        BY <2>3, <3>1, <3>3, <4>1, <4>2
    <3>. QED
      BY <1>1, <3>2, <3>3
  <2>5. ASSUME x # NoId /\ Kind(f)' = "register" /\ Id(f)' = x
        PROVE  x \in RegisteredOn(session)'
    BY <1>1, <1>3, <2>2, <2>5
  <2>6. ASSUME x \in RegisteredOn(session) /\ ~ Clears(x)
        PROVE  x \in RegisteredOn(session)'
    <3>1. PICK n \in OnWire :
             /\ wire[n].session = session /\ Kind(n) = "register" /\ Id(n) = x
             /\ \A m \in OnWire :
                  m > n /\ wire[m].session = session
                  => Kind(m) # "startup" /\ ~ (Kind(m) = "unregister" /\ Id(m) = x)
      BY <2>3, <2>6
    <3>2. \A m \in OnWire' :
             m > n /\ wire'[m].session = session'
             => Kind(m)' # "startup" /\ ~ (Kind(m)' = "unregister" /\ Id(m)' = x)
      BY <2>1, <2>6, <3>1
    <3>3. n \in OnWire' /\ wire'[n].session = session' /\ Kind(n)' = "register" /\ Id(n)' = x
      BY <1>1, <1>2, <3>1
    <3>. QED
      BY <1>3, <2>3, <2>6, <3>2, <3>3
  <2>. QED
    BY <2>4, <2>5, <2>6
<1>7. PICK kind, i, A, B :
         /\ kind = outbox[p].kind /\ i = outbox[p].id
         /\ A = RegisteredOn(session) /\ B = RegisteredOn(session)'
  OBVIOUS
<1>8. \A x : x \in B <=>
         \/ x # NoId /\ kind = "register" /\ i = x
         \/ x \in A /\ ~ (kind = "startup" \/ (kind = "unregister" /\ i = x))
  BY <1>1, <1>5, <1>7
<1>9. B = CASE kind = "startup"    -> {}
            [] kind = "register"   -> A \cup ({i} \ {NoId})
            [] kind = "unregister" -> A \ {i}
            [] OTHER               -> A
  <2>1. CASE kind = "startup"
    BY <1>8, <2>1
  <2>2. CASE kind = "register"
    <3>1. B = A \cup ({i} \ {NoId})
      BY <1>8, <2>2
    <3>. QED
      BY <2>2, <3>1
  <2>3. CASE kind = "unregister"
    <3>1. B = A \ {i}
      BY <1>8, <2>3
    <3>. QED
      BY <2>3, <3>1
  <2>4. CASE kind \notin {"startup", "register", "unregister"}
    <3>1. B = A
      BY <1>8, <2>4
    <3>. QED
      BY <2>4, <3>1
  <2>. QED
    BY <2>1, <2>2, <2>3, <2>4
<1>. QED
  BY <1>7, <1>9

LEMMA RegisteredStep ==
    ASSUME IInv, Started, Registered, [Next]_vars
    PROVE  Registered'
<1>. st \in Consumer /\ pending \in Tracker
  BY Facts
<1>1. ASSUME UNCHANGED <<wire, session, proc>>, st'.registered = st.registered
      PROVE  Registered'
  <2>1. OnWire' = OnWire
    BY <1>1 DEF OnWire
  <2>2. PICK s : s = session
    OBVIOUS
  <2>3. RegisteredOn(s)' = RegisteredOn(s)
    BY <2>1, HeldSame
  <2>. QED
    BY <1>1, <2>2, <2>3 DEF Registered, RegisteredOn
<1>2. CASE Ends
  BY <1>2 DEF Ends, Registered
<1>3. CASE OpenSession
  <2>1. session' = session + 1 /\ UNCHANGED wire /\ st'.registered = {}
    BY <1>3 DEF OpenSession, NewConsumer
  <2>2. \A n \in OnWire' : wire'[n].session # session'
    BY <2>1, Facts DEF OnWire
  <2>3. RegisteredOn(session)' = {}
    BY <2>2 DEF RegisteredOn
  <2>. QED
    BY <2>1, <2>3 DEF Registered
<1>4. CASE Still \/ Hoist \/ Connect \/ \E rs \in Writes : ModWrites(rs)
  BY <1>1, <1>4 DEF Still, Hoist, Connect, ModWrites, relayVars, Consumer
<1>5. CASE SendStartup
  <2>1. /\ SendFrame(lane, TRUE) /\ UNCHANGED <<outbox, session, proc>> /\ proc = "running"
        /\ lane \in 1 .. Len(outbox) /\ outbox[lane].kind = "startup"
    BY <1>5, Facts DEF SendStartup, AtLoop, LaneOK, IInv
  <2>2. RegisteredOn(session)' = {}
    BY <2>1, HeldMore
  <2>3. st'.registered = {}
    BY <1>5, <2>1 DEF SendStartup, Noted, Consumer
  <2>. QED
    BY <2>2, <2>3 DEF Registered
<1>6. ASSUME NEW p \in 1 .. Len(outbox), Moves(p)
      PROVE  Registered'
  <2>0. UNCHANGED <<outbox, session, proc>> /\ proc = "running"
    BY <1>6 DEF Moves
  <2>1. CASE Passes(p) \/ ReadTag(p)
    BY <1>1, <1>6, <2>0, <2>1, MoveFact
  <2>2. CASE Forward(p)
    <3>1. SendFrame(p, TRUE) /\ st'.registered = Noted(p)
      BY <1>6, <2>2, MoveFact
    <3>2. st.registered = RegisteredOn(session)
      BY <2>0 DEF Registered
    <3>3. RegisteredOn(session)' = Noted(p)
      BY <2>0, <3>1, <3>2, HeldMore DEF Noted
    <3>. QED
      BY <3>1, <3>3 DEF Registered
  <2>. QED
    BY <1>6, <2>1, <2>2 DEF Moves
<1>. QED
  BY <1>2, <1>3, <1>4, <1>5, <1>6, Shapes

----------------------------------------------------------------------------
(* The invariant is inductive *)

LEMMA InitWire == Init => WireInv
<1>. SUFFICES ASSUME Init PROVE WireInv
  OBVIOUS
<1>1. IInv
  BY InitInvariant
<1>2. /\ DOMAIN wire = {} /\ OnWire = {} /\ DOMAIN inbox = {} /\ outbox = <<>>
      /\ pc = "loop" /\ proc = "down" /\ lane = 0 /\ ws = "none" /\ cursor = 0 - 1 /\ base = 0
      /\ rx.state = "off"
  BY DEF Init, OnWire, NoCursor
<1>3. Started /\ Reader /\ LastSent /\ CaughtUp /\ Behind /\ Memory /\ Registered
  BY <1>2 DEF Started, Reader, LastSent, CaughtUp, Behind, Memory, Registered
<1>4. Resting
  BY <1>2 DEF Resting, Rests
<1>5. GivenUp /\ NoContextPassed
  BY <1>2 DEF GivenUp, NoContextPassed
<1>6. Knows
  BY <1>2 DEF Knows
<1>7. CatalogueFresh /\ OneLaunchPerConnection /\ CursorNotOnTag /\ ForceCheckpointed
  BY <1>2 DEF CatalogueFresh, OneLaunchPerConnection, StartupFirst, CursorNotOnTag, ForceCheckpointed
<1>8. NoReplay /\ InboxInSessions /\ NoStaleResult
  BY <1>2 DEF NoReplay, InboxInSessions, NoStaleResult
<1>. QED
  BY <1>1, <1>3, <1>4, <1>5, <1>6, <1>7, <1>8 DEF WireInv

LEMMA WireInvariant == Spec => []WireInv
<1>1. WireInv /\ [Next]_vars => WireInv'
  <2>. SUFFICES ASSUME WireInv, [Next]_vars PROVE WireInv'
    OBVIOUS
  <2>0. /\ IInv /\ Started /\ Reader /\ LastSent /\ CaughtUp /\ Resting /\ Behind /\ GivenUp /\ Memory
        /\ Knows /\ Registered
        /\ CatalogueFresh /\ OneLaunchPerConnection /\ CursorNotOnTag /\ ForceCheckpointed
        /\ NoContextPassed /\ NoReplay /\ InboxInSessions /\ NoStaleResult
    BY DEF WireInv
  <2>1. IInv'
    BY <2>0, TypeStep, WireStep, LaneStep, ConsumerStep, ObservedStep, OneResultStep DEF IInv
  <2>2. Started' /\ Reader' /\ LastSent' /\ CaughtUp'
    BY <2>0, StartedStep, ReaderStep, LastSentStep, CaughtUpStep
  <2>3. Resting' /\ Behind' /\ GivenUp'
    BY <2>0, RestingStep, BehindStep, GivenStep
  <2>4. Memory' /\ Knows' /\ Registered'
    BY <2>0, MemoryStep, KnowsStep, RegisteredStep
  <2>5. CatalogueFresh' /\ OneLaunchPerConnection' /\ ForceCheckpointed'
    BY <2>0, CatalogueStep, LaunchStep, CheckpointedStep
  <2>6. NoReplay' /\ InboxInSessions' /\ NoStaleResult'
    BY <2>0, NoReplayStep, InSessionsStep, NoStaleStep
  <2>7. CursorNotOnTag'
    BY <2>3 DEF Resting, Rests, CursorNotOnTag
  <2>8. NoContextPassed'
    BY <2>3 DEF GivenUp, Given, NoContextPassed
  <2>. QED
    BY <2>1, <2>2, <2>3, <2>4, <2>5, <2>6, <2>7, <2>8 DEF WireInv
<1>. QED
  BY <1>1, InitWire, PTL DEF Spec

(* Registrations, forces and results reach a connection only after the last *)
(* startup written before them: nothing of an earlier launch or answer      *)
(* enters a later one (session.rs, superseded and hoist_startup).           *)
THEOREM FreshCatalogue == Spec => []CatalogueFresh
<1>1. WireInv => CatalogueFresh
  BY DEF WireInv
<1>. QED
  BY <1>1, WireInvariant, PTL

(* A connection carries one game and one live launch of it (bind_game, the  *)
(* relaunch reconnect of session.rs).                                       *)
THEOREM OneLaunch == Spec => []OneLaunchPerConnection
<1>1. WireInv => OneLaunchPerConnection
  BY DEF WireInv
<1>. QED
  BY <1>1, WireInvariant, PTL

(* The durable cursor never rests between an answer tag and its startup,    *)
(* by whichever path it was written (cursor.rs, tailer.rs bootstrap).       *)
THEOREM NotOnTag == Spec => []CursorNotOnTag
<1>1. WireInv => CursorNotOnTag
  BY DEF WireInv
<1>. QED
  BY <1>1, WireInvariant, PTL

(* A force or a context that was sent is behind the durable cursor and is   *)
(* not sent again, over sessions, kills of the relay and new processes,     *)
(* unless the write of the cursor failed for it or a kill came between its  *)
(* send and that write (advance, urgent; the checkpoint comes second).      *)
THEOREM Checkpointed == Spec => []ForceCheckpointed
<1>1. WireInv => ForceCheckpointed
  BY DEF WireInv
<1>. QED
  BY <1>1, WireInvariant, PTL

(* With launches of one game, the cursor passes no context that was not     *)
(* given to a socket.                                                       *)
THEOREM ContextsGiven == Spec => []NoContextPassed
<1>1. WireInv => NoContextPassed
  BY DEF WireInv
<1>. QED
  BY <1>1, WireInvariant, PTL

(* No force and no context goes out twice in the life of a tracker, until   *)
(* its memory of those sent has been full (first_send_at).                  *)
THEOREM NotReplayed == Spec => []NoReplay
<1>1. WireInv => NoReplay
  BY DEF WireInv
<1>. QED
  BY <1>1, WireInvariant, PTL

(* Every action lies in the inbox between the request of its connection and *)
(* that of the next, once (receive.rs, the inbox lock).                     *)
THEOREM InSessions == Spec => []InboxInSessions
<1>1. WireInv => InboxInSessions
  BY DEF WireInv
<1>. QED
  BY <1>1, WireInvariant, PTL

(* No result answers only an action of an earlier connection of the same    *)
(* tracker (begin_session, is_stale_result).                                *)
THEOREM NotStale == Spec => []NoStaleResult
<1>1. WireInv => NoStaleResult
  BY DEF WireInv
<1>. QED
  BY <1>1, WireInvariant, PTL

(* Whenever a stop may come, the relay knows exactly the actions that the   *)
(* connection holds registered (note_registration_frame).                   *)
THEOREM StopKnowsRegistered == Spec => []StopUnregistersAll
<1>1. WireInv => StopUnregistersAll
  BY DEF WireInv, Registered, StopUnregistersAll, AtLoop
<1>. QED
  BY <1>1, WireInvariant, PTL

----------------------------------------------------------------------------
(* The system: whatever Relay says is so, and the mod answers once         *)

(* A sequence of sequences, put together from the left.                     *)
Joins(f, seqs) == f = [i \in 1 .. Len(seqs) |-> IF i = 1 THEN seqs[i] ELSE f[i - 1] \o seqs[i]]
Joined(seqs) == CHOOSE f : Joins(f, seqs)

LEMMA JoinedExists ==
    ASSUME NEW S, NEW seqs \in Seq(Seq(S))
    PROVE  Joins(Joined(seqs), seqs)
<1>. DEFINE N == Len(seqs)
            Part(m, g) == \A i \in 1 .. m : g[i] = IF i = 1 THEN seqs[i] ELSE g[i - 1] \o seqs[i]
            T == {m \in Nat : m <= N => \E g : g = [i \in 1 .. m |-> g[i]] /\ Part(m, g)}
<1>1. N \in Nat
  BY LenProperties
<1>2. 0 \in T
  <2>. PICK g : g = <<>>
    OBVIOUS
  <2>1. g = [i \in 1 .. 0 |-> g[i]] /\ Part(0, g)
    OBVIOUS
  <2>. QED
    BY <2>1
<1>3. ASSUME NEW m \in Nat, m \in T
      PROVE  m + 1 \in T
  <2>. SUFFICES ASSUME m + 1 <= N
                PROVE  \E g : g = [i \in 1 .. m + 1 |-> g[i]] /\ Part(m + 1, g)
    OBVIOUS
  <2>. PICK g : g = [i \in 1 .. m |-> g[i]] /\ Part(m, g)
    BY <1>1, <1>3
  <2>. DEFINE h == [i \in 1 .. m + 1 |->
                      IF i <= m THEN g[i] ELSE IF m = 0 THEN seqs[i] ELSE g[m] \o seqs[i]]
  <2>1. h = [i \in 1 .. m + 1 |-> h[i]]
    OBVIOUS
  <2>2. Part(m + 1, h)
    <3>. SUFFICES ASSUME NEW i \in 1 .. m + 1
                  PROVE  h[i] = IF i = 1 THEN seqs[i] ELSE h[i - 1] \o seqs[i]
      OBVIOUS
    <3>1. CASE i <= m
      <4>1. h[i] = g[i] /\ (i # 1 => i - 1 \in 1 .. m /\ h[i - 1] = g[i - 1])
        BY <3>1
      <4>2. i \in 1 .. m
        BY <3>1
      <4>3. g[i] = IF i = 1 THEN seqs[i] ELSE g[i - 1] \o seqs[i]
        BY <4>2
      <4>. QED
        BY <4>1, <4>3
    <3>2. CASE i = m + 1
      BY <3>2
    <3>. QED
      BY <3>1, <3>2
  <2>. QED
    BY <2>1, <2>2
<1>4. N \in T
  <2>. HIDE DEF T
  <2>. QED
    BY <1>1, <1>2, <1>3, InductionFact
<1>5. \E f : Joins(f, seqs)
  <2>. PICK g : g = [i \in 1 .. N |-> g[i]] /\ Part(N, g)
    BY <1>1, <1>4
  <2>1. g = [i \in 1 .. N |-> IF i = 1 THEN seqs[i] ELSE g[i - 1] \o seqs[i]]
    OBVIOUS
  <2>. QED
    BY <2>1 DEF Joins
<1>. QED
  BY <1>5 DEF Joined

LEMMA FlattenJoined ==
    ASSUME NEW seqs, Len(seqs) # 0
    PROVE  FlattenSeq(seqs) = Joined(seqs)[Len(seqs)]
BY DEF FlattenSeq, Joined, Joins

LEMMA JoinedFact ==
    ASSUME NEW S, NEW seqs \in Seq(Seq(S)), NEW i \in 1 .. Len(seqs)
    PROVE  /\ Joined(seqs)[i] = IF i = 1 THEN seqs[i] ELSE Joined(seqs)[i - 1] \o seqs[i]
           /\ Joined(seqs)[i] \in Seq(S)
<1>. PICK f : f = Joined(seqs)
  OBVIOUS
<1>. DEFINE N == Len(seqs)
            T == {m \in Nat : m \in 1 .. N => f[m] \in Seq(S)}
<1>1. /\ N \in Nat /\ \A j \in 1 .. N : seqs[j] \in Seq(S)
      /\ f = [j \in 1 .. N |-> IF j = 1 THEN seqs[j] ELSE f[j - 1] \o seqs[j]]
  BY LenProperties, ElementOfSeq, JoinedExists DEF Joins
<1>2. \A j \in 1 .. N : f[j] = IF j = 1 THEN seqs[j] ELSE f[j - 1] \o seqs[j]
  BY <1>1
<1>3. 0 \in T
  OBVIOUS
<1>4. ASSUME NEW m \in Nat, m \in T
      PROVE  m + 1 \in T
  <2>. SUFFICES ASSUME m + 1 \in 1 .. N
                PROVE  f[m + 1] \in Seq(S)
    OBVIOUS
  <2>1. CASE m = 0
    BY <1>1, <1>2, <2>1
  <2>2. CASE m # 0
    <3>. PICK j \in 1 .. N : j = m + 1
      OBVIOUS
    <3>1. j # 1 /\ j - 1 = m /\ m \in 1 .. N /\ f[m] \in Seq(S) /\ seqs[j] \in Seq(S)
      BY <1>1, <1>4, <2>2
    <3>2. f[j] = f[m] \o seqs[j]
      BY <1>2, <3>1
    <3>. QED
      BY <3>1, <3>2, ConcatProperties
  <2>. QED
    BY <2>1, <2>2
<1>5. i \in T
  <2>. HIDE DEF T
  <2>1. Nat \subseteq T
    BY <1>3, <1>4, InductionFact
  <2>2. i \in Nat
    BY <1>1
  <2>. QED
    BY <2>1, <2>2
<1>. QED
  BY <1>2, <1>5

LEMMA PrefixSeq ==
    ASSUME NEW S, NEW seqs \in Seq(S), NEW n \in 0 .. Len(seqs)
    PROVE  /\ SubSeq(seqs, 1, n) \in Seq(S) /\ Len(SubSeq(seqs, 1, n)) = n
           /\ \A k \in 1 .. n : SubSeq(seqs, 1, n)[k] = seqs[k]
           /\ SubSeq(seqs, n + 1, Len(seqs)) \in Seq(S)
           /\ Len(SubSeq(seqs, n + 1, Len(seqs))) = Len(seqs) - n
           /\ \A k \in 1 .. Len(seqs) - n : SubSeq(seqs, n + 1, Len(seqs))[k] = seqs[n + k]
<1>1. Len(seqs) \in Nat /\ n \in Nat /\ n <= Len(seqs) /\ \A k \in 1 .. Len(seqs) : seqs[k] \in S
  BY LenProperties, ElementOfSeq
<1>2. /\ SubSeq(seqs, 1, n) \in Seq(S)
      /\ Len(SubSeq(seqs, 1, n)) = IF 1 <= n THEN n - 1 + 1 ELSE 0
      /\ \A k \in 1 .. n - 1 + 1 : SubSeq(seqs, 1, n)[k] = seqs[1 + k - 1]
  <2>1. \A k \in 1 .. n : seqs[k] \in S
    BY <1>1
  <2>. QED
    BY <1>1, <2>1, SubSeqProperties
<1>3. /\ SubSeq(seqs, n + 1, Len(seqs)) \in Seq(S)
      /\ Len(SubSeq(seqs, n + 1, Len(seqs))) = IF n + 1 <= Len(seqs) THEN Len(seqs) - (n + 1) + 1 ELSE 0
      /\ \A k \in 1 .. Len(seqs) - (n + 1) + 1 : SubSeq(seqs, n + 1, Len(seqs))[k] = seqs[(n + 1) + k - 1]
  <2>1. \A k \in n + 1 .. Len(seqs) : seqs[k] \in S
    BY <1>1
  <2>2. n + 1 \in Int /\ Len(seqs) \in Int
    BY <1>1
  <2>. QED
    BY <2>1, <2>2, SubSeqProperties
<1>4. Len(SubSeq(seqs, 1, n)) = n /\ \A k \in 1 .. n : SubSeq(seqs, 1, n)[k] = seqs[k]
  <2>1. n - 1 + 1 = n /\ \A k \in 1 .. n : 1 + k - 1 = k
    BY <1>1
  <2>. QED
    BY <1>1, <1>2, <2>1
<1>5. /\ Len(SubSeq(seqs, n + 1, Len(seqs))) = Len(seqs) - n
      /\ \A k \in 1 .. Len(seqs) - n : SubSeq(seqs, n + 1, Len(seqs))[k] = seqs[n + k]
  <2>1. Len(seqs) - (n + 1) + 1 = Len(seqs) - n
        /\ \A k \in 1 .. Len(seqs) - n : (n + 1) + k - 1 = n + k
    BY <1>1
  <2>2. (IF n + 1 <= Len(seqs) THEN Len(seqs) - (n + 1) + 1 ELSE 0) = Len(seqs) - n
    BY <1>1
  <2>. QED
    BY <1>3, <2>1, <2>2
<1>. QED
  BY <1>2, <1>3, <1>4, <1>5

(* What the first n of some sequences are together.                         *)
LEMMA FlattenPrefix ==
    ASSUME NEW S, NEW seqs \in Seq(Seq(S)), NEW n \in 1 .. Len(seqs)
    PROVE  FlattenSeq(SubSeq(seqs, 1, n)) = Joined(seqs)[n]
<1>. DEFINE part == SubSeq(seqs, 1, n)
            T == {m \in Nat : m \in 1 .. n => Joined(part)[m] = Joined(seqs)[m]}
<1>1. /\ part \in Seq(Seq(S)) /\ Len(part) = n /\ \A k \in 1 .. n : part[k] = seqs[k]
      /\ Len(seqs) \in Nat /\ n \in Nat
  BY PrefixSeq, LenProperties
<1>. HIDE DEF part
<1>2. \A i \in 1 .. n : /\ Joined(part)[i] = IF i = 1 THEN part[i] ELSE Joined(part)[i - 1] \o part[i]
                        /\ Joined(seqs)[i] = IF i = 1 THEN seqs[i] ELSE Joined(seqs)[i - 1] \o seqs[i]
  <2>1. \A i \in 1 .. n : i \in 1 .. Len(seqs) /\ i \in 1 .. Len(part)
    BY <1>1
  <2>. QED
    BY <1>1, <2>1, JoinedFact
<1>3. 0 \in T
  OBVIOUS
<1>4. ASSUME NEW m \in Nat, m \in T
      PROVE  m + 1 \in T
  <2>. SUFFICES ASSUME m + 1 \in 1 .. n
                PROVE  Joined(part)[m + 1] = Joined(seqs)[m + 1]
    OBVIOUS
  <2>. PICK j \in 1 .. n : j = m + 1
    OBVIOUS
  <2>1. CASE m = 0
    <3>1. j = 1 /\ part[j] = seqs[j]
      BY <1>1, <2>1
    <3>. QED
      BY <1>2, <3>1
  <2>2. CASE m # 0
    <3>1. j # 1 /\ j - 1 = m /\ m \in 1 .. n /\ part[j] = seqs[j]
      BY <1>1, <2>2
    <3>2. Joined(part)[j - 1] = Joined(seqs)[j - 1]
      BY <1>4, <3>1
    <3>3. /\ Joined(part)[j] = Joined(part)[j - 1] \o part[j]
          /\ Joined(seqs)[j] = Joined(seqs)[j - 1] \o seqs[j]
      BY <1>2, <3>1
    <3>. QED
      BY <3>1, <3>2, <3>3
  <2>. QED
    BY <2>1, <2>2
<1>5. n \in T
  <2>. HIDE DEF T
  <2>1. Nat \subseteq T
    BY <1>3, <1>4, InductionFact
  <2>. QED
    BY <1>1, <2>1
<1>6. FlattenSeq(part) = Joined(part)[n]
  BY <1>1, FlattenJoined
<1>. QED
  BY <1>1, <1>5, <1>6 DEF part

LEMMA Regroup ==
    ASSUME NEW S
    PROVE  \A x, y, z \in Seq(S) : (x \o y) \o z = x \o (y \o z)
<1>1. ASSUME NEW x \in Seq(S), NEW y \in Seq(S), NEW z \in Seq(S)
      PROVE  (x \o y) \o z = x \o (y \o z)
  BY ConcatAssociative
<1>. QED
  BY <1>1

(* The first n of some sequences, together; with one more; and all of them. *)
Together(seqs, n) == FlattenSeq(SubSeq(seqs, 1, n))

LEMMA TogetherFact ==
    ASSUME NEW S, NEW seqs \in Seq(Seq(S))
    PROVE  /\ Together(seqs, 0) = <<>> /\ Together(seqs, Len(seqs)) = FlattenSeq(seqs)
           /\ \A n \in 0 .. Len(seqs) : Together(seqs, n) \in Seq(S)
           /\ \A n \in 1 .. Len(seqs) : Together(seqs, n) = Together(seqs, n - 1) \o seqs[n]
<1>0. Len(seqs) \in Nat /\ \A k \in 1 .. Len(seqs) : seqs[k] \in Seq(S)
  BY LenProperties, ElementOfSeq
<1>1. Together(seqs, 0) = <<>>
  <2>1. SubSeq(seqs, 1, 0) = <<>> /\ Len(<<>>) = 0
    BY SubSeqEmpty
  <2>. QED
    BY <2>1 DEF FlattenSeq, Together
<1>2. Together(seqs, Len(seqs)) = FlattenSeq(seqs)
  BY SubSeqFull DEF Together
<1>3. \A n \in 1 .. Len(seqs) : Together(seqs, n) = Joined(seqs)[n]
  BY FlattenPrefix DEF Together
<1>4. ASSUME NEW n \in 0 .. Len(seqs)
      PROVE  Together(seqs, n) \in Seq(S)
  <2>1. CASE n = 0
    <3>1. <<>> \in Seq(S)
      BY EmptySeq
    <3>. QED
      BY <1>1, <2>1, <3>1
  <2>2. CASE n \in 1 .. Len(seqs)
    BY <1>3, <2>2, JoinedFact
  <2>. QED
    BY <1>0, <2>1, <2>2
<1>5. ASSUME NEW n \in 1 .. Len(seqs)
      PROVE  Together(seqs, n) = Together(seqs, n - 1) \o seqs[n]
  <2>1. CASE n = 1
    <3>1. Joined(seqs)[n] = seqs[n]
      BY <2>1, JoinedFact
    <3>2. <<>> \o seqs[n] = seqs[n]
      BY <1>0, ConcatEmptySeq
    <3>3. Together(seqs, n - 1) = <<>>
      BY <1>1, <2>1
    <3>. QED
      BY <1>3, <3>1, <3>2, <3>3
  <2>2. CASE n # 1
    <3>. PICK k \in 1 .. Len(seqs) : k = n - 1
      BY <1>0, <2>2
    <3>1. Joined(seqs)[n] = Joined(seqs)[n - 1] \o seqs[n]
      BY <2>2, JoinedFact
    <3>2. Together(seqs, k) = Joined(seqs)[k] /\ Together(seqs, n) = Joined(seqs)[n]
      BY <1>3
    <3>. QED
      BY <3>1, <3>2
  <2>. QED
    BY <2>1, <2>2
<1>. QED
  BY <1>1, <1>2, <1>4, <1>5

LEMMA FlattenConcat ==
    ASSUME NEW S, NEW a \in Seq(Seq(S)), NEW b \in Seq(Seq(S))
    PROVE  /\ a \o b \in Seq(Seq(S)) /\ FlattenSeq(a \o b) = FlattenSeq(a) \o FlattenSeq(b)
           /\ FlattenSeq(a) \in Seq(S) /\ FlattenSeq(b) \in Seq(S)
<1>. DEFINE A == Len(a)
            B == Len(b)
            T == {m \in Nat : m <= B =>
                     Together(a \o b, A + m) = FlattenSeq(a) \o Together(b, m)}
<1>0. A \in Nat /\ B \in Nat
  BY LenProperties
<1>r. \A x, y, z \in Seq(S) : (x \o y) \o z = x \o (y \o z)
  BY Regroup, SMTT(30)
<1>1. /\ a \o b \in Seq(Seq(S)) /\ Len(a \o b) = A + B
      /\ \A i \in 1 .. A : (a \o b)[i] = a[i]
      /\ \A i \in 1 .. B : A + i \in 1 .. A + B /\ (a \o b)[A + i] = b[i]
  <2>1. /\ a \o b \in Seq(Seq(S)) /\ Len(a \o b) = A + B
        /\ \A i \in 1 .. A + B : (a \o b)[i] = IF i <= A THEN a[i] ELSE b[i - A]
    BY ConcatProperties
  <2>2. \A i \in 1 .. A : (a \o b)[i] = a[i]
    BY <1>0, <2>1
  <2>3. ASSUME NEW i \in 1 .. B
        PROVE  A + i \in 1 .. A + B /\ (a \o b)[A + i] = b[i]
    <3>1. A + i \in 1 .. A + B /\ ~ (A + i <= A) /\ A + i - A = i
      BY <1>0
    <3>. QED
      BY <2>1, <3>1
  <2>. QED
    BY <2>1, <2>2, <2>3
<1>2. /\ FlattenSeq(a) \in Seq(S) /\ FlattenSeq(b) \in Seq(S) /\ Together(b, B) = FlattenSeq(b)
      /\ Together(b, 0) = <<>> /\ \A m \in 0 .. B : Together(b, m) \in Seq(S)
      /\ \A m \in 1 .. B : Together(b, m) = Together(b, m - 1) \o b[m]
  <2>1. A \in 0 .. A /\ B \in 0 .. B
    BY <1>0
  <2>. QED
    BY <2>1, TogetherFact
<1>3. 0 \in T
  <2>1. Together(a \o b, A) = FlattenSeq(a)
    <3>1. A \in 0 .. Len(a \o b) /\ A \in 0 .. Len(a)
      BY <1>0, <1>1
    <3>2. /\ SubSeq(a \o b, 1, A) \in Seq(Seq(S)) /\ Len(SubSeq(a \o b, 1, A)) = A
          /\ \A k \in 1 .. A : SubSeq(a \o b, 1, A)[k] = (a \o b)[k]
      BY <1>1, <3>1, PrefixSeq
    <3>3. SubSeq(a \o b, 1, A) = a
      BY <1>1, <3>2, SeqEqual
    <3>. QED
      BY <3>3 DEF Together
  <2>2. FlattenSeq(a) \o <<>> = FlattenSeq(a)
    BY <1>2, ConcatEmptySeq
  <2>3. A + 0 = A
    BY <1>0
  <2>. QED
    BY <1>2, <2>1, <2>2, <2>3
<1>4. ASSUME NEW m \in Nat, m \in T
      PROVE  m + 1 \in T
  <2>. SUFFICES ASSUME m + 1 <= B
                PROVE  Together(a \o b, A + (m + 1)) = FlattenSeq(a) \o Together(b, m + 1)
    OBVIOUS
  <2>. PICK j \in 1 .. B : j = m + 1
    BY <1>0
  <2>. PICK k \in 1 .. A + B : k = A + j
    BY <1>1
  <2>1. /\ m <= B /\ m \in 0 .. B /\ j - 1 = m /\ k - 1 = A + m /\ k \in 1 .. Len(a \o b)
        /\ (a \o b)[k] = b[j] /\ b[j] \in Seq(S)
    BY <1>0, <1>1, ElementOfSeq
  <2>2. Together(a \o b, k) = Together(a \o b, k - 1) \o (a \o b)[k]
    BY <1>1, <2>1, TogetherFact
  <2>3. Together(a \o b, k - 1) = FlattenSeq(a) \o Together(b, m)
    BY <1>4, <2>1
  <2>4. (FlattenSeq(a) \o Together(b, m)) \o b[j] = FlattenSeq(a) \o (Together(b, m) \o b[j])
    <3>1. FlattenSeq(a) \in Seq(S) /\ Together(b, m) \in Seq(S) /\ b[j] \in Seq(S)
      BY <1>2, <2>1
    <3>. QED
      BY <1>r, <3>1
  <2>5. Together(b, j) = Together(b, m) \o b[j]
    BY <1>2, <2>1
  <2>6. Together(a \o b, k) = FlattenSeq(a) \o Together(b, j)
    BY <2>1, <2>2, <2>3, <2>4, <2>5
  <2>. QED
    BY <2>6
<1>5. B \in T
  <2>. HIDE DEF T
  <2>1. Nat \subseteq T
    BY <1>3, <1>4, InductionFact
  <2>. QED
    BY <1>0, <2>1
<1>6. Together(a \o b, A + B) = FlattenSeq(a \o b)
  <2>1. Together(a \o b, Len(a \o b)) = FlattenSeq(a \o b)
    BY <1>1, TogetherFact
  <2>. QED
    BY <1>1, <2>1
<1>7. Together(a \o b, A + B) = FlattenSeq(a) \o Together(b, B)
  BY <1>0, <1>5
<1>. QED
  BY <1>1, <1>2, <1>6, <1>7

(* One sequence alone; and one record of each.                              *)
LEMMA FlattenOne ==
    ASSUME NEW S, NEW s \in Seq(S)
    PROVE  <<s>> \in Seq(Seq(S)) /\ FlattenSeq(<<s>>) = s
<1>1. <<s>> \in Seq(Seq(S)) /\ Len(<<s>>) = 1 /\ <<s>>[1] = s
  OBVIOUS
<1>2. Together(<<s>>, 1) = Together(<<s>>, 0) \o s /\ Together(<<s>>, 0) = <<>>
      /\ Together(<<s>>, 1) = FlattenSeq(<<s>>)
  <2>1. 1 \in 1 .. Len(<<s>>) /\ 1 - 1 = 0
    BY <1>1
  <2>. QED
    BY <1>1, <2>1, TogetherFact
<1>3. <<>> \o s = s
  BY ConcatEmptySeq
<1>. QED
  BY <1>1, <1>2, <1>3

LEMMA FlattenSingles ==
    ASSUME NEW S, NEW f \in Seq(S), NEW seqs \in Seq(Seq(S)), Len(seqs) = Len(f),
           \A i \in 1 .. Len(f) : seqs[i] = <<f[i]>>
    PROVE  FlattenSeq(seqs) = f
<1>. DEFINE N == Len(f)
            T == {m \in Nat : m <= N => Together(seqs, m) = SubSeq(f, 1, m)}
<1>1. N \in Nat /\ \A i \in 1 .. N : f[i] \in S
  BY LenProperties, ElementOfSeq
<1>2. 0 \in T
  <2>1. Together(seqs, 0) = <<>>
    BY TogetherFact
  <2>2. SubSeq(f, 1, 0) = <<>>
    BY SubSeqEmpty
  <2>. QED
    BY <2>1, <2>2
<1>3. ASSUME NEW m \in Nat, m \in T
      PROVE  m + 1 \in T
  <2>. SUFFICES ASSUME m + 1 <= N
                PROVE  Together(seqs, m + 1) = SubSeq(f, 1, m + 1)
    OBVIOUS
  <2>. PICK j \in 1 .. N : j = m + 1
    BY <1>1
  <2>1. j - 1 = m /\ m <= N /\ j \in 1 .. Len(seqs) /\ seqs[j] = <<f[j]>>
    BY <1>1
  <2>2. Together(seqs, j) = Together(seqs, m) \o <<f[j]>>
    BY <2>1, TogetherFact
  <2>3. Together(seqs, m) = SubSeq(f, 1, m)
    BY <1>3, <2>1
  <2>4. SubSeq(f, 1, j) = SubSeq(f, 1, j - 1) \o <<f[j]>>
    <3>1. 1 \in 1 .. Len(f) /\ j \in 1 .. Len(f)
      BY <1>1
    <3>. QED
      BY <3>1, SubSeqRecursiveSecond
  <2>5. Together(seqs, j) = SubSeq(f, 1, j)
    BY <2>1, <2>2, <2>3, <2>4
  <2>. QED
    BY <2>5
<1>4. N \in T
  <2>. HIDE DEF T
  <2>1. Nat \subseteq T
    BY <1>2, <1>3, InductionFact
  <2>. QED
    BY <1>1, <2>1
<1>5. Together(seqs, N) = FlattenSeq(seqs) /\ SubSeq(f, 1, N) = f
  <2>1. Together(seqs, Len(seqs)) = FlattenSeq(seqs)
    BY TogetherFact
  <2>. QED
    BY <2>1, SubSeqFull
<1>6. Together(seqs, N) = SubSeq(f, 1, N)
  BY <1>1, <1>4
<1>. QED
  BY <1>5, <1>6

(* What the disk takes and what waits are all there is.                     *)
LEMMA FlattenSplit ==
    ASSUME NEW S, NEW seqs \in Seq(Seq(S)), NEW n \in 0 .. Len(seqs)
    PROVE  \E now, later \in Seq(S) :
              /\ now = FlattenSeq(SubSeq(seqs, 1, n))
              /\ later = FlattenSeq(SubSeq(seqs, n + 1, Len(seqs)))
              /\ FlattenSeq(seqs) = now \o later /\ FlattenSeq(seqs) \in Seq(S)
              /\ SubSeq(seqs, n + 1, Len(seqs)) \in Seq(Seq(S))
<1>. DEFINE front == SubSeq(seqs, 1, n)
            rest == SubSeq(seqs, n + 1, Len(seqs))
<1>0. Len(seqs) \in Nat /\ n \in Nat /\ n <= Len(seqs)
  BY LenProperties
<1>1. front \in Seq(Seq(S)) /\ rest \in Seq(Seq(S))
  BY PrefixSeq
<1>2. front \o rest = seqs
  <2>1. 1 \in 1 .. Len(seqs) + 1 /\ n \in 1 - 1 .. Len(seqs) /\ Len(seqs) \in n .. Len(seqs)
    BY <1>0
  <2>2. SubSeq(seqs, 1, n) \o SubSeq(seqs, n + 1, Len(seqs)) = SubSeq(seqs, 1, Len(seqs))
    BY <2>1, ConcatAdjacentSubSeq
  <2>. QED
    BY <2>2, SubSeqFull
<1>. HIDE DEF front, rest
<1>3. /\ FlattenSeq(front \o rest) = FlattenSeq(front) \o FlattenSeq(rest)
      /\ FlattenSeq(front) \in Seq(S) /\ FlattenSeq(rest) \in Seq(S)
  BY <1>1, FlattenConcat
<1>4. FlattenSeq(front) \o FlattenSeq(rest) \in Seq(S)
  BY <1>3, ConcatProperties
<1>. QED
  BY <1>1, <1>2, <1>3, <1>4 DEF front, rest

----------------------------------------------------------------------------
(* What the two programs have in their hands and in their files.            *)
SystemTypes ==
    /\ outbox \in Seq(Record) /\ inbox \in Seq(InboxRecord)
    /\ session \in Sessions /\ rx \in Receiver
    /\ ModTypeOK /\ fifo \in Seq(Seq(Record)) /\ IsFiniteSet(owed)

(* The server uses an id once, so the inbox holds it once.                  *)
BringsAction(n) == inbox[n].kind = "action"
Delivered ==
    /\ \A m, n \in DOMAIN inbox : m # n /\ BringsAction(m) /\ BringsAction(n) => inbox[m].id # inbox[n].id
    /\ \A n \in DOMAIN inbox : BringsAction(n) => inbox[n].id \in ActionIds
    /\ rx.state = "delivering" =>
          rx.id \in ActionIds /\ \A n \in DOMAIN inbox : inbox[n].id # rx.id

(* The ids of the actions the mod has read.                                 *)
Consumed == {inbox[n].id : n \in {m \in 1 .. inboxPos : BringsAction(m)}}

(* What the mod has written and what waits in the fifo.                     *)
Log == outbox \o FlattenSeq(fifo)

(* The results of a log are of these ids, and of each at most once.         *)
Single(log, ids) ==
    \A p \in DOMAIN log : log[p].kind = "result" =>
        /\ log[p].id \in ids
        /\ \A q \in DOMAIN log : q # p /\ log[q].kind = "result" => log[q].id # log[p].id

(* An action read is owed, or has its result on the way, or neither.        *)
Answering ==
    /\ OwedIds \subseteq Consumed
    /\ \A a, b \in owed : a.id = b.id => a = b
    /\ Single(Log, Consumed \ OwedIds)

SystemInv == SystemTypes /\ Delivered /\ Answering

----------------------------------------------------------------------------
(* Logs of results.                                                         *)
Resultless == {r \in Record : r.kind # "result"}

LEMMA NoneSingle ==
    ASSUME NEW log \in Seq(Resultless)
    PROVE  Single(log, {})
<1>1. DOMAIN log = 1 .. Len(log)
  BY LenProperties
<1>2. \A p \in DOMAIN log : log[p] \in Resultless
  BY <1>1, ElementOfSeq
<1>. QED
  BY <1>2 DEF Single, Resultless

LEMMA SingleJoin ==
    ASSUME NEW a \in Seq(Record), NEW b \in Seq(Record), NEW ids, NEW jds,
           Single(a, ids), Single(b, jds), ids \cap jds = {}
    PROVE  a \o b \in Seq(Record) /\ Single(a \o b, ids \cup jds)
<1>. PICK c \in Seq(Record) : c = a \o b
  BY ConcatProperties
<1>0. /\ Len(a) \in Nat /\ Len(b) \in Nat /\ DOMAIN a = 1 .. Len(a) /\ DOMAIN b = 1 .. Len(b)
      /\ DOMAIN c = 1 .. Len(c)
  BY LenProperties
<1>1. /\ Len(c) = Len(a) + Len(b)
      /\ \A i \in 1 .. Len(a) + Len(b) : c[i] = IF i <= Len(a) THEN a[i] ELSE b[i - Len(a)]
  BY ConcatProperties
<1>2. ASSUME NEW p \in DOMAIN c
      PROVE  \/ p \in DOMAIN a /\ c[p] = a[p]
             \/ ~ (p \in DOMAIN a) /\ p - Len(a) \in DOMAIN b /\ c[p] = b[p - Len(a)]
  <2>1. p \in 1 .. Len(a) + Len(b)
    BY <1>0, <1>1
  <2>2. CASE p <= Len(a)
    BY <1>0, <1>1, <2>1, <2>2
  <2>3. CASE ~ (p <= Len(a))
    <3>1. p - Len(a) \in 1 .. Len(b) /\ ~ (p \in 1 .. Len(a))
      BY <1>0, <2>1, <2>3
    <3>. QED
      BY <1>0, <1>1, <2>1, <2>3, <3>1
  <2>. QED
    BY <2>2, <2>3
<1>3. ASSUME NEW p \in DOMAIN c, NEW q \in DOMAIN c, q # p,
             c[p].kind = "result", c[q].kind = "result"
      PROVE  c[q].id # c[p].id
  <2>1. CASE p \in DOMAIN a /\ q \in DOMAIN a
    BY <1>2, <1>3, <2>1 DEF Single
  <2>2. CASE ~ (p \in DOMAIN a) /\ ~ (q \in DOMAIN a)
    <3>1. /\ p - Len(a) \in DOMAIN b /\ c[p] = b[p - Len(a)]
          /\ q - Len(a) \in DOMAIN b /\ c[q] = b[q - Len(a)]
      BY <1>2, <2>2
    <3>2. p - Len(a) # q - Len(a)
      BY <1>0, <1>3
    <3>. QED
      BY <1>3, <3>1, <3>2 DEF Single
  <2>3. CASE p \in DOMAIN a /\ ~ (q \in DOMAIN a)
    <3>1. c[p].id \in ids /\ c[q].id \in jds
      BY <1>2, <1>3, <2>3 DEF Single
    <3>. QED
      BY <3>1
  <2>4. CASE ~ (p \in DOMAIN a) /\ q \in DOMAIN a
    <3>1. c[q].id \in ids /\ c[p].id \in jds
      BY <1>2, <1>3, <2>4 DEF Single
    <3>. QED
      BY <3>1
  <2>. QED
    BY <2>1, <2>2, <2>3, <2>4
<1>4. ASSUME NEW p \in DOMAIN c, c[p].kind = "result"
      PROVE  c[p].id \in ids \cup jds
  BY <1>2, <1>4 DEF Single
<1>5. Single(c, ids \cup jds)
  BY <1>3, <1>4 DEF Single
<1>. QED
  BY <1>5

LEMMA SinglePart ==
    ASSUME NEW a \in Seq(Record), NEW b \in Seq(Record), NEW ids, NEW jds,
           Single(a \o b, ids), ids \subseteq jds
    PROVE  Single(a, jds)
<1>1. /\ Len(a) \in Nat /\ Len(b) \in Nat /\ DOMAIN a = 1 .. Len(a)
      /\ a \o b \in Seq(Record) /\ Len(a \o b) = Len(a) + Len(b)
      /\ \A i \in 1 .. Len(a) + Len(b) : (a \o b)[i] = IF i <= Len(a) THEN a[i] ELSE b[i - Len(a)]
  BY ConcatProperties, LenProperties
<1>2. DOMAIN (a \o b) = 1 .. Len(a) + Len(b)
  BY <1>1, LenProperties
<1>3. \A p \in DOMAIN a : p \in DOMAIN (a \o b) /\ (a \o b)[p] = a[p]
  BY <1>1, <1>2
<1>. QED
  BY <1>3 DEF Single

LEMMA SingleMore ==
    ASSUME NEW a, NEW ids, NEW jds, Single(a, ids), ids \subseteq jds
    PROVE  Single(a, jds)
BY DEF Single

----------------------------------------------------------------------------
(* What the mod writes is of the records of the outbox, a result or not.    *)
LEMMA ResultlessFact == Resultless \subseteq Record /\ Seq(Resultless) \subseteq Seq(Record)
                   /\ Seq(Seq(Resultless)) \subseteq Seq(Seq(Record))
<1>1. Resultless \subseteq Record
  BY DEF Resultless
<1>2. Seq(Resultless) \subseteq Seq(Record)
  BY <1>1, SeqMonotonic
<1>. QED
  BY <1>1, <1>2, SeqMonotonic

LEMMA LinesFact ==
    /\ \A s \in Sessions : StartupLine(s) \in Seq(Resultless)
    /\ Register \in Seq(Resultless) /\ Unregister \in Seq(Resultless)
    /\ \A ready \in BOOLEAN : CatalogueLine(ready) \in Seq(Seq(Resultless))
    /\ \A s \in Sessions, ready \in BOOLEAN :
          <<StartupLine(s)>> \o CatalogueLine(ready) \in Seq(Seq(Resultless))
<1>0. 0 \in Sessions /\ ModGame \in Games \cup {NoGame}
  BY ModAssumption, BoundsAssumption DEF Sessions
<1>1. Startup(ModGame) \in Resultless /\ \A s \in Sessions : Tag(ModGame, s) \in Resultless
  BY <1>0 DEF Resultless, Record, Kinds, Startup, Tag
<1>2. Catalogue("register", ModGame, NoId) \in Resultless /\ Catalogue("unregister", ModGame, NoId) \in Resultless
  BY <1>0 DEF Resultless, Record, Kinds, Catalogue
<1>3. \A s \in Sessions : StartupLine(s) \in Seq(Resultless)
  BY <1>1 DEF StartupLine
<1>4. Register \in Seq(Resultless) /\ Unregister \in Seq(Resultless)
  BY <1>2 DEF Register, Unregister
<1>5. ASSUME NEW ready \in BOOLEAN
      PROVE  CatalogueLine(ready) \in Seq(Seq(Resultless))
  <2>1. <<Register>> \in Seq(Seq(Resultless)) /\ <<>> \in Seq(Seq(Resultless))
    BY <1>4, EmptySeq
  <2>. QED
    BY <2>1 DEF CatalogueLine
<1>6. ASSUME NEW s \in Sessions, NEW ready \in BOOLEAN
      PROVE  <<StartupLine(s)>> \o CatalogueLine(ready) \in Seq(Seq(Resultless))
  <2>1. <<StartupLine(s)>> \in Seq(Seq(Resultless))
    BY <1>3
  <2>. QED
    BY <1>5, <2>1, ConcatProperties
<1>. QED
  BY <1>3, <1>4, <1>5, <1>6

LEMMA RegroupRecords ==
    \A x, y, z \in Seq(Record) : (x \o y) \o z = x \o (y \o z)
BY Regroup, SMTT(30)

(* The lines join the log, and the outbox grows by what the disk takes.     *)
LEMMA Poured ==
    ASSUME SystemTypes, NEW items \in Seq(Seq(Record)), NEW n \in 0 .. Len(fifo \o items),
           Len(outbox) + Len(FlattenSeq(fifo \o items)) <= MaxOutbox,
           outbox' = outbox \o FlattenSeq(SubSeq(fifo \o items, 1, n))
    PROVE  /\ \E w \in Seq(Record) : outbox' = outbox \o w /\ Len(outbox) + Len(w) <= MaxOutbox
           /\ outbox' \in Seq(Record) /\ Log \in Seq(Record) /\ FlattenSeq(items) \in Seq(Record)
           /\ SubSeq(fifo \o items, n + 1, Len(fifo \o items)) \in Seq(Seq(Record))
           /\ \E later \in Seq(Record) :
                 /\ later = FlattenSeq(SubSeq(fifo \o items, n + 1, Len(fifo \o items)))
                 /\ Log \o FlattenSeq(items) = outbox' \o later
<1>0. outbox \in Seq(Record) /\ fifo \in Seq(Seq(Record))
  BY DEF SystemTypes
<1>. DEFINE all == fifo \o items
<1>1. /\ all \in Seq(Seq(Record)) /\ FlattenSeq(all) = FlattenSeq(fifo) \o FlattenSeq(items)
      /\ FlattenSeq(fifo) \in Seq(Record) /\ FlattenSeq(items) \in Seq(Record)
  BY <1>0, FlattenConcat
<1>2. /\ n \in 0 .. Len(all) /\ Len(outbox) + Len(FlattenSeq(all)) <= MaxOutbox
      /\ outbox' = outbox \o FlattenSeq(SubSeq(all, 1, n))
  OBVIOUS
<1>. HIDE DEF all
<1>4. PICK now \in Seq(Record), later \in Seq(Record) :
          /\ now = FlattenSeq(SubSeq(all, 1, n))
          /\ later = FlattenSeq(SubSeq(all, n + 1, Len(all)))
          /\ FlattenSeq(all) = now \o later /\ FlattenSeq(all) \in Seq(Record)
          /\ SubSeq(all, n + 1, Len(all)) \in Seq(Seq(Record))
  BY <1>1, <1>2, FlattenSplit, Zenon
<1>5. /\ Len(now) \in Nat /\ Len(later) \in Nat /\ Len(outbox) \in Nat
      /\ Len(now \o later) = Len(now) + Len(later) /\ outbox \o now \in Seq(Record)
  BY <1>0, ConcatProperties, LenProperties
<1>6. outbox' = outbox \o now /\ Len(outbox) + Len(now) <= MaxOutbox
  <2>1. Len(FlattenSeq(all)) = Len(now) + Len(later)
    BY <1>4, <1>5
  <2>2. Len(outbox) + (Len(now) + Len(later)) <= MaxOutbox
    BY <1>2, <2>1
  <2>3. Len(outbox) + Len(now) <= MaxOutbox
    BY <1>5, <2>2, BoundsAssumption
  <2>. QED
    BY <1>2, <1>4, <2>3
<1>7. Log \in Seq(Record)
  <2>1. outbox \o FlattenSeq(fifo) \in Seq(Record)
    BY <1>0, <1>1, ConcatProperties
  <2>. QED
    BY <2>1 DEF Log
<1>8. (outbox \o now) \o later = outbox \o (now \o later)
  BY <1>0, RegroupRecords
<1>9. (outbox \o FlattenSeq(fifo)) \o FlattenSeq(items) = outbox \o (FlattenSeq(fifo) \o FlattenSeq(items))
  BY <1>0, <1>1, RegroupRecords
<1>10. Log \o FlattenSeq(items) = outbox' \o later
  BY <1>1, <1>4, <1>6, <1>8, <1>9 DEF Log
<1>11. \E w \in Seq(Record) : outbox' = outbox \o w /\ Len(outbox) + Len(w) <= MaxOutbox
  BY <1>6
<1>12. outbox' \in Seq(Record)
  BY <1>5, <1>6
<1>. QED
  BY <1>1, <1>4, <1>7, <1>10, <1>11, <1>12 DEF all

LEMMA Enqueued ==
    ASSUME SystemTypes, NEW items \in Seq(Seq(Record)), Enqueue(items)
    PROVE  /\ \E w \in Seq(Record) : outbox' = outbox \o w /\ Len(outbox) + Len(w) <= MaxOutbox
           /\ outbox' \in Seq(Record) /\ fifo' \in Seq(Seq(Record))
           /\ Log \in Seq(Record) /\ FlattenSeq(items) \in Seq(Record)
           /\ Log' = Log \o FlattenSeq(items)
<1>1. PICK n \in 0 .. Len(fifo \o items) :
          /\ outbox' = outbox \o FlattenSeq(SubSeq(fifo \o items, 1, n))
          /\ fifo' = SubSeq(fifo \o items, n + 1, Len(fifo \o items))
  BY DEF Enqueue
<1>2. Len(outbox) + Len(FlattenSeq(fifo \o items)) <= MaxOutbox
  BY DEF Enqueue
<1>3. /\ \E w \in Seq(Record) : outbox' = outbox \o w /\ Len(outbox) + Len(w) <= MaxOutbox
      /\ outbox' \in Seq(Record) /\ Log \in Seq(Record) /\ FlattenSeq(items) \in Seq(Record)
      /\ SubSeq(fifo \o items, n + 1, Len(fifo \o items)) \in Seq(Seq(Record))
      /\ \E later \in Seq(Record) :
            /\ later = FlattenSeq(SubSeq(fifo \o items, n + 1, Len(fifo \o items)))
            /\ Log \o FlattenSeq(items) = outbox' \o later
  BY <1>1, <1>2, Poured, Zenon
<1>4. Log \o FlattenSeq(items) = outbox' \o FlattenSeq(fifo')
  BY <1>1, <1>3, Zenon
<1>5. Log' = outbox' \o FlattenSeq(fifo')
  BY DEF Log
<1>6. Log' = Log \o FlattenSeq(items)
  BY <1>4, <1>5, Zenon
<1>7. fifo' \in Seq(Seq(Record))
  BY <1>1, <1>3, Zenon
<1>. QED
  BY <1>3, <1>6, <1>7, Zenon

----------------------------------------------------------------------------
(* A position of the inbox that only moves on, over an inbox that only grows*)
LEMMA ConsumedFact ==
    ASSUME SystemTypes, UNCHANGED inbox
    PROVE  /\ inboxPos' \in Nat /\ inboxPos <= inboxPos' => Consumed \subseteq Consumed'
           /\ inboxPos' = inboxPos => Consumed' = Consumed
           /\ inboxPos \in Nat /\ Len(inbox) \in Nat /\ inboxPos <= Len(inbox)
<1>1. inboxPos \in Nat /\ Len(inbox) \in Nat /\ inboxPos <= Len(inbox)
  BY LenProperties DEF SystemTypes, ModTypeOK
<1>2. inboxPos' = inboxPos => Consumed' = Consumed
  BY DEF Consumed, BringsAction
<1>3. ASSUME inboxPos' \in Nat, inboxPos <= inboxPos'
      PROVE  Consumed \subseteq Consumed'
  <2>1. \A m \in 1 .. inboxPos : m \in 1 .. inboxPos'
    BY <1>1, <1>3
  <2>. QED
    BY <2>1 DEF Consumed, BringsAction
<1>. QED
  BY <1>1, <1>2, <1>3

(* Lines without a result join the log while nothing new is owed.           *)
LEMMA ResultlessStep ==
    ASSUME SystemTypes, Answering, UNCHANGED inbox,
           inboxPos' \in Nat, inboxPos <= inboxPos',
           NEW items \in Seq(Seq(Resultless)), Enqueue(items), owed' \subseteq owed
    PROVE  Answering' /\ outbox' \in Seq(Record) /\ fifo' \in Seq(Seq(Record))
<1>1. items \in Seq(Seq(Record)) /\ FlattenSeq(items) \in Seq(Resultless)
  <2>1. FlattenSeq(items) \in Seq(Resultless)
    BY FlattenConcat
  <2>. QED
    BY <2>1, ResultlessFact
<1>2. /\ outbox' \in Seq(Record) /\ fifo' \in Seq(Seq(Record)) /\ Log \in Seq(Record)
      /\ FlattenSeq(items) \in Seq(Record) /\ Log' = Log \o FlattenSeq(items)
  BY <1>1, Enqueued
<1>3. Single(FlattenSeq(items), {})
  BY <1>1, NoneSingle
<1>4. Single(Log', (Consumed \ OwedIds) \cup {})
  BY <1>2, <1>3, SingleJoin DEF Answering
<1>5. Consumed \subseteq Consumed' /\ OwedIds' \subseteq OwedIds
  BY ConsumedFact DEF OwedIds
<1>6. (Consumed \ OwedIds) \cup {} \subseteq (Consumed \ OwedIds)'
  BY <1>5
<1>7. Single(Log', (Consumed \ OwedIds)')
  BY <1>4, <1>6, SingleMore
<1>8. OwedIds' \subseteq Consumed'
  BY <1>5 DEF Answering
<1>. QED
  BY <1>2, <1>7, <1>8 DEF Answering, Single

LEMMA LastAskedFact ==
    ASSUME SystemTypes
    PROVE  LastAsked \in Sessions
<1>. DEFINE asked == {inbox[n].session : n \in {m \in DOMAIN inbox : inbox[m].kind = "reregister"}}
<1>1. asked \subseteq 0 .. MaxSessions /\ MaxSessions \in Nat
  <2>1. \A n \in DOMAIN inbox : inbox[n] \in InboxRecord
    BY DEF SystemTypes
  <2>. QED
    BY <2>1, BoundsAssumption DEF InboxRecord, Sessions
<1>. HIDE DEF asked
<1>2. ASSUME asked # {}
      PROVE  \E s \in asked : \A t \in asked : t <= s
  BY <1>1, <1>2, MaxFact
<1>3. ASSUME asked # {}
      PROVE  (CHOOSE s \in asked : \A t \in asked : t <= s) \in asked
  BY <1>2, <1>3
<1>4. LastAsked = IF asked = {} THEN 0 ELSE CHOOSE s \in asked : \A t \in asked : t <= s
  BY DEF LastAsked, asked
<1>5. LastAsked \in asked \cup {0}
  BY <1>3, <1>4
<1>6. asked \subseteq Sessions /\ 0 \in Sessions
  BY <1>1 DEF Sessions
<1>. QED
  BY <1>5, <1>6

(* The types of the mod's part.                                             *)
ModTypes ==
    /\ outbox \in Seq(Record) /\ fifo \in Seq(Seq(Record))
    /\ ModTypeOK /\ IsFiniteSet(owed)

LEMMA LaunchGameStep ==
    ASSUME SystemTypes, Answering, Launch
    PROVE  ModTypes' /\ Answering'
<1>1. UNCHANGED inbox /\ inboxPos' = Len(inbox) /\ owed' = {} /\ answered' = {}
      /\ answers' = LastAsked /\ up' = TRUE /\ launches' = launches + 1 /\ launches < MaxLaunches
  BY DEF Launch, SkipTo
<1>2. PICK ready \in BOOLEAN :
          Enqueue(<<StartupLine(answers')>> \o CatalogueLine(ready)) /\ complete' = ready
  BY Zenon DEF Launch
<1>3. answers' \in Sessions
  BY <1>1, LastAskedFact
<1>4. <<StartupLine(answers')>> \o CatalogueLine(ready) \in Seq(Seq(Resultless))
  BY <1>3, LinesFact
<1>5. inboxPos' \in Nat /\ inboxPos <= inboxPos' /\ inboxPos' = Len(inbox')
  BY <1>1, ConsumedFact
<1>6. Answering' /\ outbox' \in Seq(Record) /\ fifo' \in Seq(Seq(Record))
  <2>1. owed' \subseteq owed
    BY <1>1
  <2>. QED
    BY <1>1, <1>2, <1>4, <1>5, <2>1, ResultlessStep
<1>7. IsFiniteSet(owed')
  BY <1>1, FS_EmptySet
<1>8. launches' \in 0 .. MaxLaunches /\ complete' \in BOOLEAN
  BY <1>1, <1>2, ModAssumption DEF SystemTypes, ModTypeOK
<1>9. \A n \in DOMAIN fifo' : fifo'[n] \in Seq(Record)
  BY <1>6
<1>10. ModTypeOK'
  BY <1>1, <1>3, <1>5, <1>8, <1>9 DEF ModTypeOK
<1>. QED
  BY <1>6, <1>7, <1>10 DEF ModTypes

LEMMA FlushStep ==
    ASSUME SystemTypes, Answering, Flush
    PROVE  ModTypes' /\ Answering'
<1>1. /\ UNCHANGED <<inbox, up, launches, inboxPos, answers, complete, owed, answered>>
      /\ Enqueue(<<>>)
  BY DEF Flush
<1>2. <<>> \in Seq(Seq(Resultless))
  BY EmptySeq
<1>3. inboxPos' \in Nat /\ inboxPos <= inboxPos' /\ owed' \subseteq owed
  BY <1>1, ConsumedFact
<1>4. Answering' /\ outbox' \in Seq(Record) /\ fifo' \in Seq(Seq(Record))
  BY <1>1, <1>2, <1>3, ResultlessStep
<1>5. \A n \in DOMAIN fifo' : fifo'[n] \in Seq(Record)
  BY <1>4
<1>. QED
  BY <1>1, <1>4, <1>5 DEF ModTypes, ModTypeOK, SystemTypes

LEMMA RetryCatalogueStep ==
    ASSUME SystemTypes, Answering, RetryCatalogue
    PROVE  ModTypes' /\ Answering'
<1>1. /\ UNCHANGED <<inbox, up, launches, inboxPos, answers, owed, answered>>
      /\ Enqueue(<<Register>>) /\ complete' = TRUE
  BY DEF RetryCatalogue
<1>2. <<Register>> \in Seq(Seq(Resultless))
  BY LinesFact
<1>3. inboxPos' \in Nat /\ inboxPos <= inboxPos' /\ owed' \subseteq owed
  BY <1>1, ConsumedFact
<1>4. Answering' /\ outbox' \in Seq(Record) /\ fifo' \in Seq(Seq(Record))
  BY <1>1, <1>2, <1>3, ResultlessStep
<1>5. \A n \in DOMAIN fifo' : fifo'[n] \in Seq(Record)
  BY <1>4
<1>. QED
  BY <1>1, <1>4, <1>5 DEF ModTypes, ModTypeOK, SystemTypes

(* The record the mod reads.                                                *)
LEMMA PollingFact ==
    ASSUME SystemTypes, UNCHANGED inbox, NEW kind, Polling(kind)
    PROVE  /\ inboxPos' \in 1 .. Len(inbox) /\ inboxPos' = inboxPos + 1 /\ inboxPos' \in DOMAIN inbox
           /\ inbox[inboxPos'].kind = kind /\ inbox[inboxPos'] \in InboxRecord
           /\ inboxPos' \in Nat /\ inboxPos <= inboxPos' /\ inboxPos' <= Len(inbox')
<1>1. inbox \in Seq(InboxRecord) /\ DOMAIN inbox = 1 .. Len(inbox) /\ Len(inbox) \in Nat
      /\ inboxPos \in Nat /\ inboxPos <= Len(inbox)
  BY ConsumedFact, LenProperties DEF SystemTypes
<1>2. inboxPos' = inboxPos + 1 /\ inboxPos < Len(inbox) /\ inbox[inboxPos + 1].kind = kind
  BY DEF Polling
<1>3. inboxPos' \in 1 .. Len(inbox)
  BY <1>1, <1>2
<1>4. inbox[inboxPos'] \in InboxRecord
  BY <1>1, <1>3, ElementOfSeq
<1>5. inboxPos' \in Nat /\ inboxPos <= inboxPos' /\ inboxPos' <= Len(inbox')
  BY <1>1, <1>2
<1>. QED
  BY <1>1, <1>2, <1>3, <1>4, <1>5

(* A session asked for again gets what is missing, another one the startup. *)
LEMMA ReconnectLines ==
    ASSUME Reconnect, answers' \in Sessions
    PROVE  \E items \in Seq(Seq(Resultless)) : Enqueue(items)
<1>1. answers' = inbox[inboxPos'].session
  BY DEF Reconnect
<1>2. PICK ready \in BOOLEAN :
          LET s == inbox[inboxPos'].session
              again == s = answers
          IN  IF again
              THEN Enqueue(CatalogueLine(ready /\ ~ complete))
              ELSE Enqueue(<<StartupLine(s)>> \o CatalogueLine(ready))
  BY Zenon DEF Reconnect
<1>3. CASE inbox[inboxPos'].session = answers
  <2>1. Enqueue(CatalogueLine(ready /\ ~ complete))
    BY <1>2, <1>3
  <2>2. (ready /\ ~ complete) \in BOOLEAN
    OBVIOUS
  <2>3. CatalogueLine(ready /\ ~ complete) \in Seq(Seq(Resultless))
    BY <2>2, LinesFact, Zenon
  <2>. QED
    BY <2>1, <2>3
<1>4. CASE inbox[inboxPos'].session # answers
  <2>1. Enqueue(<<StartupLine(answers')>> \o CatalogueLine(ready))
    BY <1>1, <1>2, <1>4
  <2>2. <<StartupLine(answers')>> \o CatalogueLine(ready) \in Seq(Seq(Resultless))
    BY LinesFact
  <2>. QED
    BY <2>1, <2>2
<1>. QED
  BY <1>3, <1>4

LEMMA ReconnectStep ==
    ASSUME SystemTypes, Answering, Reconnect
    PROVE  ModTypes' /\ Answering'
<1>1. /\ UNCHANGED <<inbox, up, launches>> /\ Polling("reregister")
      /\ answers' = inbox[inboxPos'].session
  BY DEF Reconnect
<1>2. PICK ready \in BOOLEAN :
          LET s == inbox[inboxPos'].session
              again == s = answers
          IN  /\ complete' = (ready \/ (again /\ complete))
              /\ IF again
                 THEN UNCHANGED <<owed, answered>>
                 ELSE owed' = {} /\ answered' = {}
  BY Zenon DEF Reconnect
<1>3. /\ inboxPos' \in Nat /\ inboxPos <= inboxPos' /\ inboxPos' <= Len(inbox')
      /\ answers' \in Sessions
  BY <1>1, PollingFact DEF InboxRecord
<1>4. /\ owed' \subseteq owed /\ IsFiniteSet(owed') /\ answered' \subseteq ActionIds
      /\ owed' \subseteq Owed
  <2>1. (owed' = owed /\ answered' = answered) \/ (owed' = {} /\ answered' = {})
    BY <1>2
  <2>2. IsFiniteSet({})
    BY FS_EmptySet
  <2>. QED
    BY <2>1, <2>2 DEF SystemTypes, ModTypeOK
<1>5. \E items \in Seq(Seq(Resultless)) : Enqueue(items)
  BY <1>3, ReconnectLines
<1>6. Answering' /\ outbox' \in Seq(Record) /\ fifo' \in Seq(Seq(Record))
  BY <1>1, <1>3, <1>4, <1>5, ResultlessStep
<1>7. \A n \in DOMAIN fifo' : fifo'[n] \in Seq(Record)
  BY <1>6
<1>8. complete' \in BOOLEAN
  <2>1. \A a, b, c \in BOOLEAN : (a \/ (b /\ c)) \in BOOLEAN
    OBVIOUS
  <2>2. complete \in BOOLEAN /\ (inbox[inboxPos'].session = answers) \in BOOLEAN
    BY DEF SystemTypes, ModTypeOK
  <2>. QED
    BY <1>2, <2>1, <2>2, Zenon
<1>9. inboxPos' \in 0 .. Len(inbox')
  BY <1>1, <1>3, ConsumedFact
<1>10. up' \in BOOLEAN /\ launches' \in 0 .. MaxLaunches
  BY <1>1 DEF SystemTypes, ModTypeOK
<1>11. ModTypeOK'
  BY <1>3, <1>4, <1>7, <1>8, <1>9, <1>10 DEF ModTypeOK
<1>. QED
  BY <1>4, <1>6, <1>11 DEF ModTypes

LEMMA TakeActionStep ==
    ASSUME SystemTypes, Delivered, Answering, TakeAction
    PROVE  ModTypes' /\ Answering'
<1>1. /\ UNCHANGED <<outbox, inbox, up, launches, fifo, answers, complete, answered>>
      /\ Polling("action")
  BY DEF TakeAction
<1>. DEFINE i == inbox[inboxPos'].id
            o == [id |-> i, session |-> inbox[inboxPos'].session]
<1>2. owed' = IF Opens(o) THEN owed \cup {o} ELSE owed
  BY DEF TakeAction
<1>3. /\ inboxPos' \in 1 .. Len(inbox) /\ inboxPos' = inboxPos + 1 /\ inboxPos' \in DOMAIN inbox
      /\ inbox[inboxPos'].kind = "action" /\ inbox[inboxPos'] \in InboxRecord
      /\ inboxPos' \in Nat /\ inboxPos <= inboxPos' /\ inboxPos' <= Len(inbox')
      /\ inboxPos \in Nat /\ Len(inbox) \in Nat /\ DOMAIN inbox = 1 .. Len(inbox)
      /\ inboxPos <= Len(inbox)
  <2>1. DOMAIN inbox = 1 .. Len(inbox)
    BY LenProperties DEF SystemTypes
  <2>. QED
    BY <1>1, <2>1, PollingFact, ConsumedFact
<1>4. i \in ActionIds /\ o \in Owed /\ o.id = i
  BY <1>3 DEF Delivered, BringsAction, Owed, InboxRecord
<1>5. Consumed' = Consumed \cup {i}
  <2>1. \A m \in 1 .. inboxPos' : m \in 1 .. inboxPos \/ m = inboxPos'
    BY <1>3
  <2>2. \A m \in 1 .. inboxPos : m \in 1 .. inboxPos'
    BY <1>3
  <2>3. inboxPos' \in 1 .. inboxPos' /\ BringsAction(inboxPos')
    BY <1>3 DEF BringsAction
  <2>. QED
    BY <1>1, <2>1, <2>2, <2>3 DEF Consumed, BringsAction
<1>6. i \notin Consumed
  <2>1. \A m \in 1 .. inboxPos : m \in DOMAIN inbox /\ m # inboxPos'
    BY <1>3
  <2>2. inboxPos' \in DOMAIN inbox /\ BringsAction(inboxPos')
    BY <1>3 DEF BringsAction
  <2>. QED
    BY <2>1, <2>2 DEF Delivered, Consumed
<1>. HIDE DEF o, i
<1>7. Single(Log', (Consumed \ OwedIds)')
  <2>1. Log' = Log
    BY <1>1 DEF Log
  <2>2. OwedIds' \subseteq OwedIds \cup {i}
    BY <1>2, <1>4 DEF OwedIds
  <2>3. Consumed \ OwedIds \subseteq (Consumed \ OwedIds)'
    BY <1>5, <1>6, <2>2
  <2>. QED
    BY <2>1, <2>3, SingleMore DEF Answering
<1>8. OwedIds' \subseteq Consumed' /\ \A a, b \in owed' : a.id = b.id => a = b
  <2>1. CASE Opens(o)
    <3>1. owed' = owed \cup {o} /\ \A a \in owed : a.id # o.id
      BY <1>2, <1>4, <2>1 DEF Opens, OwedIds
    <3>. QED
      BY <1>4, <1>5, <3>1 DEF Answering, OwedIds
  <2>2. CASE ~ Opens(o)
    <3>1. owed' = owed
      BY <1>2, <2>2
    <3>. QED
      BY <1>5, <3>1 DEF Answering, OwedIds
  <2>. QED
    BY <2>1, <2>2
<1>9. Answering'
  BY <1>7, <1>8 DEF Answering
<1>10. IsFiniteSet(owed') /\ owed' \subseteq Owed
  BY <1>2, <1>4, FS_AddElement DEF SystemTypes, ModTypeOK
<1>11. inboxPos' \in 0 .. Len(inbox')
  BY <1>1, <1>3
<1>. QED
  BY <1>1, <1>9, <1>10, <1>11 DEF ModTypes, ModTypeOK, SystemTypes

(* The record of a result.                                                  *)
Answers(o) == [Result(ModGame, o.id) EXCEPT !.session = o.session]

LEMMA AnswersFact ==
    ASSUME NEW o \in Owed
    PROVE  /\ Answers(o) \in Record /\ Answers(o).id = o.id /\ Answers(o).kind = "result"
           /\ ResultLine(o) = <<Answers(o)>> /\ ResultLine(o) \in Seq(Record)
<1>1. Answers(o) = [kind |-> "result", game |-> ModGame, id |-> o.id, session |-> o.session]
  BY DEF Answers, Result
<1>2. Answers(o) \in Record
  BY <1>1, ModAssumption DEF Record, Kinds, Owed
<1>3. ResultLine(o) = <<Answers(o)>>
  BY DEF ResultLine, Answers
<1>. QED
  BY <1>1, <1>2, <1>3

LEMMA AnswerStep ==
    ASSUME SystemTypes, Answering, NEW o \in owed, Answer(o)
    PROVE  ModTypes' /\ Answering'
<1>1. /\ UNCHANGED <<inbox, up, launches, inboxPos, answers, complete>>
      /\ Enqueue(<<ResultLine(o)>>)
      /\ owed' = owed \ {o} /\ answered' = answered \cup {o.id}
  BY DEF Answer
<1>2. o \in Owed
  BY DEF SystemTypes, ModTypeOK
<1>3. <<ResultLine(o)>> \in Seq(Seq(Record)) /\ FlattenSeq(<<ResultLine(o)>>) = <<Answers(o)>>
  BY <1>2, AnswersFact, FlattenOne
<1>4. /\ outbox' \in Seq(Record) /\ fifo' \in Seq(Seq(Record)) /\ Log \in Seq(Record)
      /\ Log' = Log \o <<Answers(o)>>
  BY <1>1, <1>3, Enqueued
<1>5. <<Answers(o)>> \in Seq(Record) /\ Single(<<Answers(o)>>, {o.id})
  BY <1>2, AnswersFact DEF Single
<1>6. Single(Log', (Consumed \ OwedIds) \cup {o.id})
  <2>1. (Consumed \ OwedIds) \cap {o.id} = {}
    BY DEF OwedIds
  <2>. QED
    BY <1>4, <1>5, <2>1, SingleJoin DEF Answering
<1>7. Consumed' = Consumed /\ OwedIds' = OwedIds \ {o.id} /\ o.id \in Consumed
  <2>1. Consumed' = Consumed
    BY <1>1, ConsumedFact
  <2>2. OwedIds' = OwedIds \ {o.id}
    BY <1>1 DEF OwedIds, Answering
  <2>. QED
    BY <2>1, <2>2 DEF OwedIds, Answering
<1>8. (Consumed \ OwedIds) \cup {o.id} \subseteq (Consumed \ OwedIds)'
  BY <1>7
<1>9. Single(Log', (Consumed \ OwedIds)')
  BY <1>6, <1>8, SingleMore
<1>10. Answering'
  BY <1>1, <1>7, <1>9 DEF Answering
<1>11. IsFiniteSet(owed') /\ owed' \subseteq Owed /\ answered' \subseteq ActionIds
  BY <1>1, <1>2, FS_RemoveElement DEF SystemTypes, ModTypeOK, Owed
<1>12. \A n \in DOMAIN fifo' : fifo'[n] \in Seq(Record)
  BY <1>4
<1>. QED
  BY <1>1, <1>4, <1>10, <1>11, <1>12 DEF ModTypes, ModTypeOK, SystemTypes

(* The results of a quit, in some order.                                    *)
ResultLines(order) == [n \in DOMAIN order |-> ResultLine(order[n])]

LEMMA ResultLinesFact ==
    ASSUME SystemTypes, Answering, NEW order \in SetToSeqs(owed)
    PROVE  /\ ResultLines(order) \in Seq(Seq(Record))
           /\ FlattenSeq(ResultLines(order)) \in Seq(Record)
           /\ Single(FlattenSeq(ResultLines(order)), OwedIds)
<1>. DEFINE C == Cardinality(owed)
            f == [n \in 1 .. C |-> Answers(order[n])]
            lines == ResultLines(order)
<1>1. C \in Nat
  BY FS_CardinalityType DEF SystemTypes
<1>2. order \in [1 .. C -> owed] /\ \A i, j \in 1 .. C : i # j => order[i] # order[j]
  BY DEF SetToSeqs
<1>3. \A n \in 1 .. C : /\ order[n] \in owed
                        /\ Answers(order[n]) \in Record /\ Answers(order[n]).id = order[n].id
                        /\ ResultLine(order[n]) = <<Answers(order[n])>>
                        /\ ResultLine(order[n]) \in Seq(Record)
  <2>1. \A n \in 1 .. C : order[n] \in owed /\ order[n] \in Owed
    BY <1>2 DEF SystemTypes, ModTypeOK
  <2>. QED
    BY <2>1, AnswersFact
<1>4. f \in Seq(Record) /\ Len(f) = C /\ DOMAIN f = 1 .. C
  <2>1. f \in [1 .. C -> Record]
    BY <1>3
  <2>. QED
    BY <1>1, <2>1, IsASeq, LenProperties
<1>5. lines = [n \in 1 .. C |-> ResultLine(order[n])]
  BY <1>2 DEF ResultLines
<1>6. lines \in Seq(Seq(Record)) /\ Len(lines) = C
  <2>1. lines \in [1 .. C -> Seq(Record)]
    BY <1>3, <1>5
  <2>. QED
    BY <1>1, <2>1, LenProperties
<1>7. \A i \in 1 .. Len(f) : lines[i] = <<f[i]>>
  BY <1>3, <1>4, <1>5
<1>8. Single(f, OwedIds)
  <2>1. ASSUME NEW p \in 1 .. C
        PROVE  f[p].id \in OwedIds
    BY <1>3 DEF OwedIds
  <2>2. ASSUME NEW p \in 1 .. C, NEW q \in 1 .. C, q # p
        PROVE  f[q].id # f[p].id
    <3>1. order[p] # order[q] /\ order[p] \in owed /\ order[q] \in owed
      BY <1>2, <1>3, <2>2
    <3>. QED
      BY <1>3, <3>1 DEF Answering
  <2>. QED
    BY <1>4, <2>1, <2>2 DEF Single
<1>9. FlattenSeq(lines) = f
  <2>. HIDE DEF f, lines
  <2>. QED
    BY <1>4, <1>6, <1>7, FlattenSingles
<1>. QED
  BY <1>4, <1>6, <1>8, <1>9

(* What a quit writes: the results of what is owed, then the withdrawal.    *)
QuitLines(order) == ResultLines(order) \o (IF complete THEN <<Unregister>> ELSE <<>>)

LEMMA QuitLinesFact ==
    ASSUME SystemTypes, Answering, NEW order \in SetToSeqs(owed)
    PROVE  /\ QuitLines(order) \in Seq(Seq(Record))
           /\ FlattenSeq(QuitLines(order)) \in Seq(Record)
           /\ Single(FlattenSeq(QuitLines(order)), OwedIds)
<1>. DEFINE lines == ResultLines(order)
            rest == IF complete THEN <<Unregister>> ELSE <<>>
<1>1. lines \in Seq(Seq(Record)) /\ FlattenSeq(lines) \in Seq(Record) /\ Single(FlattenSeq(lines), OwedIds)
  BY ResultLinesFact
<1>2. rest \in Seq(Seq(Resultless))
  <2>1. <<Unregister>> \in Seq(Seq(Resultless)) /\ <<>> \in Seq(Seq(Resultless))
    BY LinesFact, EmptySeq
  <2>. QED
    BY <2>1
<1>. HIDE DEF lines, rest
<1>3. FlattenSeq(rest) \in Seq(Resultless) /\ rest \in Seq(Seq(Record))
  <2>1. FlattenSeq(rest) \in Seq(Resultless)
    BY <1>2, FlattenConcat
  <2>. QED
    BY <1>2, <2>1, ResultlessFact
<1>4. Single(FlattenSeq(rest), {}) /\ FlattenSeq(rest) \in Seq(Record)
  BY <1>3, NoneSingle, ResultlessFact
<1>5. /\ lines \o rest \in Seq(Seq(Record))
      /\ FlattenSeq(lines \o rest) = FlattenSeq(lines) \o FlattenSeq(rest)
  BY <1>1, <1>3, FlattenConcat
<1>6. /\ FlattenSeq(lines) \o FlattenSeq(rest) \in Seq(Record)
      /\ Single(FlattenSeq(lines) \o FlattenSeq(rest), OwedIds \cup {})
  BY <1>1, <1>4, SingleJoin
<1>7. OwedIds \cup {} = OwedIds
  OBVIOUS
<1>. QED
  BY <1>5, <1>6, <1>7 DEF QuitLines, lines, rest

(* A fifo that is gone leaves the outbox as the whole log.                  *)
LEMMA NoFifo ==
    ASSUME outbox' \in Seq(Record), fifo' = <<>>
    PROVE  Log' = outbox' /\ fifo' \in Seq(Seq(Record))
<1>1. Log' = outbox' \o FlattenSeq(fifo')
  BY DEF Log
<1>2. FlattenSeq(<<>>) = <<>>
  BY DEF FlattenSeq
<1>3. FlattenSeq(fifo') = <<>>
  BY <1>2
<1>4. outbox' \o <<>> = outbox'
  BY ConcatEmptySeq
<1>. QED
  BY <1>1, <1>3, <1>4, EmptySeq

LEMMA QuitStep ==
    ASSUME SystemTypes, Answering, Quit
    PROVE  /\ ModTypes' /\ Answering'
           /\ \E w \in Seq(Record) : outbox' = outbox \o w /\ Len(outbox) + Len(w) <= MaxOutbox
<1>1. /\ UNCHANGED <<inbox, launches, inboxPos, answers, answered>>
      /\ up' = FALSE /\ fifo' = <<>> /\ owed' = {} /\ complete' = FALSE
  BY DEF Quit
<1>2. PICK order \in SetToSeqs(owed) :
          /\ Len(outbox) + Len(FlattenSeq(fifo \o QuitLines(order))) <= MaxOutbox
          /\ \E n \in 0 .. Len(fifo \o QuitLines(order)) :
                outbox' = outbox \o FlattenSeq(SubSeq(fifo \o QuitLines(order), 1, n))
  BY Zenon DEF Quit, QuitLines, ResultLines
<1>. DEFINE items == QuitLines(order)
<1>3. /\ items \in Seq(Seq(Record)) /\ FlattenSeq(items) \in Seq(Record)
      /\ Single(FlattenSeq(items), OwedIds)
  BY QuitLinesFact
<1>4. PICK n \in 0 .. Len(fifo \o items) :
          outbox' = outbox \o FlattenSeq(SubSeq(fifo \o items, 1, n))
  BY <1>2
<1>5. Len(outbox) + Len(FlattenSeq(fifo \o items)) <= MaxOutbox
  BY <1>2
<1>. HIDE DEF items
<1>6. /\ \E w \in Seq(Record) : outbox' = outbox \o w /\ Len(outbox) + Len(w) <= MaxOutbox
      /\ outbox' \in Seq(Record) /\ Log \in Seq(Record)
      /\ \E later \in Seq(Record) :
            /\ later = FlattenSeq(SubSeq(fifo \o items, n + 1, Len(fifo \o items)))
            /\ Log \o FlattenSeq(items) = outbox' \o later
  BY <1>3, <1>4, <1>5, Poured, Zenon
<1>7. PICK later \in Seq(Record) : Log \o FlattenSeq(items) = outbox' \o later
  BY <1>6
<1>8. Single(Log \o FlattenSeq(items), (Consumed \ OwedIds) \cup OwedIds)
  <2>1. (Consumed \ OwedIds) \cap OwedIds = {}
    OBVIOUS
  <2>. QED
    BY <1>3, <1>6, <2>1, SingleJoin DEF Answering
<1>9. Consumed' = Consumed /\ OwedIds' = {} /\ OwedIds \subseteq Consumed
  BY <1>1, ConsumedFact DEF OwedIds, Answering
<1>10. Single(outbox', Consumed')
  <2>1. Single(outbox' \o later, (Consumed \ OwedIds) \cup OwedIds)
    BY <1>7, <1>8
  <2>2. (Consumed \ OwedIds) \cup OwedIds \subseteq Consumed'
    BY <1>9
  <2>3. outbox' \in Seq(Record)
    BY <1>6
  <2>. QED
    BY <2>1, <2>2, <2>3, SinglePart
<1>11. Log' = outbox' /\ fifo' \in Seq(Seq(Record))
  BY <1>1, <1>6, NoFifo
<1>12. Single(Log', (Consumed \ OwedIds)')
  <2>1. (Consumed \ OwedIds)' = Consumed'
    BY <1>9
  <2>. QED
    BY <1>10, <1>11, <2>1
<1>13. Answering'
  BY <1>1, <1>9, <1>12 DEF Answering
<1>14. IsFiniteSet(owed') /\ \A m \in DOMAIN fifo' : fifo'[m] \in Seq(Record)
  BY <1>1, FS_EmptySet
<1>. QED
  BY <1>1, <1>6, <1>11, <1>13, <1>14 DEF ModTypes, ModTypeOK, SystemTypes

LEMMA KillGameStep ==
    ASSUME SystemTypes, Answering, KillGame
    PROVE  ModTypes' /\ Answering'
<1>1. /\ UNCHANGED <<outbox, inbox, launches, inboxPos, answers, answered>>
      /\ up' = FALSE /\ fifo' = <<>> /\ owed' = {} /\ complete' = FALSE
  BY DEF KillGame
<1>2. outbox \in Seq(Record) /\ FlattenSeq(fifo) \in Seq(Record)
  BY FlattenConcat DEF SystemTypes
<1>3. Consumed' = Consumed /\ OwedIds' = {}
  BY <1>1, ConsumedFact DEF OwedIds
<1>4. Single(outbox, Consumed')
  <2>1. Single(outbox \o FlattenSeq(fifo), Consumed \ OwedIds)
    BY DEF Answering, Log
  <2>2. Consumed \ OwedIds \subseteq Consumed'
    BY <1>3
  <2>. QED
    BY <1>2, <2>1, <2>2, SinglePart
<1>5. Log' = outbox /\ fifo' \in Seq(Seq(Record)) /\ outbox' = outbox
  BY <1>1, <1>2, NoFifo
<1>6. Single(Log', (Consumed \ OwedIds)')
  <2>1. (Consumed \ OwedIds)' = Consumed'
    BY <1>3
  <2>. QED
    BY <1>4, <1>5, <2>1
<1>7. Answering'
  BY <1>1, <1>3, <1>6 DEF Answering
<1>8. IsFiniteSet(owed') /\ \A m \in DOMAIN fifo' : fifo'[m] \in Seq(Record)
  BY <1>1, FS_EmptySet
<1>. QED
  BY <1>1, <1>2, <1>5, <1>7, <1>8 DEF ModTypes, ModTypeOK, SystemTypes

----------------------------------------------------------------------------
(* What a step of the relay does to the files and to the receive task.      *)
RelayMoves ==
    /\ outbox' = outbox /\ session' \in Sessions /\ rx' \in Receiver
    /\ rx'.state = "delivering" => rx' = rx
    /\ \/ inbox' = inbox
       \/ rx' = rx /\ inbox' = Append(inbox, Reregister(session'))
       \/ /\ rx.state = "delivering" /\ rx'.state # "delivering"
          /\ inbox' = Append(inbox, ActionLine(rx.id, session))

LEMMA StillMoves ==
    ASSUME SystemTypes, UNCHANGED <<outbox, inbox, session, rx>>
    PROVE  RelayMoves
BY DEF RelayMoves, SystemTypes

LEMMA EndMoves ==
    ASSUME SystemTypes, EndConsumer, UNCHANGED <<outbox, session>>
    PROVE  RelayMoves
<1>1. rx' = [state |-> "off", id |-> NoId]
      /\ (inbox' = inbox \/ (rx.state = "delivering" /\ inbox' = Append(inbox, ActionLine(rx.id, session))))
  BY DEF EndConsumer, StopReceiver
<1>2. rx' \in Receiver /\ rx'.state # "delivering"
  BY <1>1 DEF Receiver
<1>. QED
  BY <1>1, <1>2 DEF RelayMoves, SystemTypes

LEMMA EndSessionMoves ==
    ASSUME SystemTypes, NEW to, EndSession(to)
    PROVE  RelayMoves
BY EndMoves DEF EndSession

LEMMA SessionMoves ==
    ASSUME SystemTypes,
           StartProcess \/ OpenSession \/ OpenFails \/ LoseSession \/ Stop \/ Crash
    PROVE  RelayMoves
<1>0. session \in Nat /\ MaxSessions \in Nat /\ Sessions = 0 .. MaxSessions
  BY BoundsAssumption DEF SystemTypes, Sessions
<1>1. CASE StartProcess
  BY <1>1, StillMoves DEF StartProcess
<1>2. CASE OpenSession
  <2>1. /\ session < MaxSessions /\ session' = session + 1 /\ UNCHANGED <<outbox, rx>>
        /\ inbox' = Append(inbox, Reregister(session'))
    BY <1>2 DEF OpenSession
  <2>2. session' \in Sessions
    BY <1>0, <2>1
  <2>. QED
    BY <2>1, <2>2 DEF RelayMoves, SystemTypes
<1>3. CASE OpenFails
  <2>1. session' \in Sessions /\ UNCHANGED <<outbox, inbox, rx>>
    BY <1>3 DEF OpenFails
  <2>. QED
    BY <2>1 DEF RelayMoves, SystemTypes
<1>4. CASE LoseSession
  BY <1>4, EndSessionMoves DEF LoseSession
<1>5. CASE Stop
  <2>1. CASE EndSession("down")
    BY <2>1, EndSessionMoves
  <2>2. CASE UNCHANGED <<outbox, inbox, session, rx>>
    BY <2>2, StillMoves
  <2>. QED
    BY <1>5, <2>1, <2>2 DEF Stop
<1>6. CASE Crash
  BY <1>6, EndMoves DEF Crash
<1>. QED
  BY <1>1, <1>2, <1>3, <1>4, <1>5, <1>6

LEMMA StartupMoves ==
    ASSUME SystemTypes,
           RetryCursor \/ Hoist \/ Connect \/ SendStartup \/ SendStartupFails
    PROVE  RelayMoves
<1>1. CASE RetryCursor
  BY <1>1, StillMoves DEF RetryCursor
<1>2. CASE Hoist
  BY <1>2, StillMoves DEF Hoist
<1>3. CASE Connect
  <2>1. UNCHANGED <<outbox, inbox, session>> /\ rx' = [state |-> "reading", id |-> NoId]
    BY <1>3 DEF Connect
  <2>2. rx' \in Receiver /\ rx'.state # "delivering"
    BY <2>1 DEF Receiver
  <2>. QED
    BY <2>1, <2>2 DEF RelayMoves, SystemTypes
<1>4. CASE SendStartup
  BY <1>4, StillMoves DEF SendStartup
<1>5. CASE SendStartupFails
  BY <1>5, EndSessionMoves DEF SendStartupFails
<1>. QED
  BY <1>1, <1>2, <1>3, <1>4, <1>5

LEMMA OutboxMoves ==
    ASSUME SystemTypes, NEW p \in 1 .. MaxOutbox,
           \/ Skip(p) \/ ReadTag(p) \/ Drop(p) \/ ReconnectForRelaunch(p)
           \/ Forward(p) \/ Observe(p) \/ ForwardFails(p)
    PROVE  RelayMoves
<1>1. CASE Skip(p)
  BY <1>1, StillMoves DEF Skip
<1>2. CASE ReadTag(p)
  BY <1>2, StillMoves DEF ReadTag
<1>3. CASE Drop(p)
  BY <1>3, StillMoves DEF Drop
<1>4. CASE ReconnectForRelaunch(p)
  BY <1>4, EndSessionMoves DEF ReconnectForRelaunch
<1>5. CASE Forward(p)
  BY <1>5, StillMoves DEF Forward
<1>6. CASE Observe(p)
  BY <1>6, StillMoves DEF Observe
<1>7. CASE ForwardFails(p)
  BY <1>7, EndSessionMoves DEF ForwardFails
<1>. QED
  BY <1>1, <1>2, <1>3, <1>4, <1>5, <1>6, <1>7

LEMMA ReceiverMoves ==
    ASSUME SystemTypes, DeliverToInbox \/ ReceiverDies
    PROVE  RelayMoves
<1>1. CASE DeliverToInbox
  <2>1. /\ rx.state = "delivering" /\ inbox' = Append(inbox, ActionLine(rx.id, session))
        /\ rx' = [state |-> "reading", id |-> NoId] /\ UNCHANGED <<outbox, session>>
    BY <1>1 DEF DeliverToInbox
  <2>2. rx' \in Receiver /\ rx'.state # "delivering"
    BY <2>1 DEF Receiver
  <2>. QED
    BY <2>1, <2>2 DEF RelayMoves, SystemTypes
<1>2. CASE ReceiverDies
  <2>1. /\ rx' = [state |-> "dead", id |-> NoId] /\ UNCHANGED <<outbox, inbox, session>>
    BY <1>2 DEF ReceiverDies
  <2>2. rx' \in Receiver /\ rx'.state # "delivering"
    BY <2>1 DEF Receiver
  <2>. QED
    BY <2>1, <2>2 DEF RelayMoves, SystemTypes
<1>. QED
  BY <1>1, <1>2

LEMMA RelayShape ==
    ASSUME SystemTypes, RelayWorks \/ RelayFault \/ StartProcess
    PROVE  RelayMoves
<1>1. CASE RelayWorks
  BY <1>1, SessionMoves, StartupMoves, OutboxMoves, ReceiverMoves DEF RelayWorks, IdleEnds
<1>2. CASE RelayFault
  BY <1>2, SessionMoves, StartupMoves, OutboxMoves, ReceiverMoves DEF RelayFault
<1>3. CASE StartProcess
  BY <1>3, SessionMoves
<1>. QED
  BY <1>1, <1>2, <1>3

----------------------------------------------------------------------------
(* Each step keeps what the two programs have in common.                    *)
LEMMA InboxGrown ==
    ASSUME SystemTypes, NEW l \in InboxRecord, inbox' = Append(inbox, l)
    PROVE  /\ inbox' \in Seq(InboxRecord) /\ Len(inbox) \in Nat /\ Len(inbox') = Len(inbox) + 1
           /\ DOMAIN inbox = 1 .. Len(inbox) /\ DOMAIN inbox' = 1 .. Len(inbox) + 1
           /\ \A n \in 1 .. Len(inbox) : inbox'[n] = inbox[n]
           /\ inbox'[Len(inbox) + 1] = l
<1>1. inbox \in Seq(InboxRecord) /\ Len(inbox) \in Nat /\ DOMAIN inbox = 1 .. Len(inbox)
  BY LenProperties DEF SystemTypes
<1>2. /\ Append(inbox, l) \in Seq(InboxRecord) /\ Len(Append(inbox, l)) = Len(inbox) + 1
      /\ \A n \in 1 .. Len(inbox) : Append(inbox, l)[n] = inbox[n]
      /\ Append(inbox, l)[Len(inbox) + 1] = l
  BY <1>1, AppendProperties
<1>3. DOMAIN inbox' = 1 .. Len(inbox')
  BY <1>2, LenProperties
<1>. QED
  BY <1>1, <1>2, <1>3

(* The inbox stays, or grows by a line that no position of the mod is past. *)
LEMMA InboxKeeps ==
    ASSUME SystemInv, UNCHANGED modVars, UNCHANGED outbox,
           session' \in Sessions, rx' \in Receiver,
           inbox' = inbox \/ \E l \in InboxRecord : inbox' = Append(inbox, l)
    PROVE  SystemTypes' /\ Answering'
<1>0. /\ inbox \in Seq(InboxRecord) /\ Len(inbox) \in Nat /\ inboxPos \in 0 .. Len(inbox)
  BY LenProperties DEF SystemInv, SystemTypes, ModTypeOK
<1>1. inboxPos' = inboxPos
  BY DEF modVars
<1>2. /\ inbox' \in Seq(InboxRecord) /\ inboxPos' \in 0 .. Len(inbox')
      /\ \A n \in 1 .. inboxPos : inbox'[n] = inbox[n]
  <2>1. CASE inbox' = inbox
    BY <1>0, <1>1, <2>1
  <2>2. CASE \E l \in InboxRecord : inbox' = Append(inbox, l)
    <3>. PICK l \in InboxRecord : inbox' = Append(inbox, l)
      BY <2>2
    <3>1. /\ inbox' \in Seq(InboxRecord) /\ Len(inbox') = Len(inbox) + 1
          /\ \A n \in 1 .. Len(inbox) : inbox'[n] = inbox[n]
      BY InboxGrown DEF SystemInv
    <3>2. inboxPos \in 0 .. Len(inbox) + 1 /\ \A n \in 1 .. inboxPos : n \in 1 .. Len(inbox)
      BY <1>0, SMT
    <3>3. inboxPos' \in 0 .. Len(inbox')
      BY <1>1, <3>1, <3>2, Zenon
    <3>. QED
      BY <3>1, <3>2, <3>3, Zenon
  <2>. QED
    BY <2>1, <2>2
<1>3. Consumed' = Consumed
  <2>1. Consumed' = {inbox'[n].id : n \in {m \in 1 .. inboxPos : inbox'[m].kind = "action"}}
    BY <1>1 DEF Consumed, BringsAction
  <2>. QED
    BY <1>2, <2>1 DEF Consumed, BringsAction
<1>4. Log' = Log /\ OwedIds' = OwedIds /\ owed' = owed
  BY DEF Log, OwedIds, modVars
<1>5. Single(Log', (Consumed \ OwedIds)')
  <2>1. (Consumed \ OwedIds)' = Consumed \ OwedIds
    BY <1>3, <1>4
  <2>. QED
    BY <1>4, <2>1 DEF SystemInv, Answering
<1>6. Answering'
  BY <1>3, <1>4, <1>5 DEF SystemInv, Answering
<1>7. SystemTypes'
  BY <1>2 DEF SystemInv, SystemTypes, ModTypeOK, modVars
<1>. QED
  BY <1>6, <1>7

LEMMA RelayKeeps ==
    ASSUME SystemInv, RelayMoves, UNCHANGED modVars
    PROVE  SystemInv'
<1>0. /\ SystemTypes /\ Delivered /\ session \in Sessions /\ rx \in Receiver
      /\ Len(inbox) \in Nat /\ DOMAIN inbox = 1 .. Len(inbox)
  BY LenProperties DEF SystemInv, SystemTypes
<1>1. outbox' = outbox /\ session' \in Sessions /\ rx' \in Receiver
      /\ (rx'.state = "delivering" => rx' = rx)
  BY DEF RelayMoves
<1>2. CASE inbox' = inbox
  <2>1. Delivered'
    BY <1>0, <1>1, <1>2 DEF Delivered, BringsAction
  <2>. QED
    BY <1>1, <1>2, <2>1, InboxKeeps DEF SystemInv
<1>3. CASE rx' = rx /\ inbox' = Append(inbox, Reregister(session'))
  <2>. PICK l : l = Reregister(session')
    OBVIOUS
  <2>1. l \in InboxRecord /\ l.kind # "action" /\ l.id = NoId
    BY <1>1 DEF Reregister, InboxRecord
  <2>2. inbox' = Append(inbox, l)
    BY <1>3
  <2>3. /\ DOMAIN inbox' = 1 .. Len(inbox) + 1 /\ inbox'[Len(inbox) + 1] = l
        /\ \A n \in 1 .. Len(inbox) : inbox'[n] = inbox[n]
    BY <1>0, <2>1, <2>2, InboxGrown
  <2>4. \A n \in DOMAIN inbox' : n \in DOMAIN inbox \/ n = Len(inbox) + 1
    BY <1>0, <2>3
  <2>5. Delivered'
    BY <1>0, <1>3, <2>1, <2>3, <2>4, NoIdAssumption DEF Delivered, BringsAction
  <2>. QED
    BY <1>1, <2>1, <2>2, <2>5, InboxKeeps DEF SystemInv
<1>4. CASE /\ rx.state = "delivering" /\ rx'.state # "delivering"
           /\ inbox' = Append(inbox, ActionLine(rx.id, session))
  <2>. PICK l : l = ActionLine(rx.id, session)
    OBVIOUS
  <2>1. rx.id \in ActionIds /\ \A n \in DOMAIN inbox : inbox[n].id # rx.id
    BY <1>0, <1>4 DEF Delivered
  <2>2. l \in InboxRecord /\ l.kind = "action" /\ l.id = rx.id
    BY <1>0, <2>1 DEF ActionLine, InboxRecord
  <2>3. inbox' = Append(inbox, l)
    BY <1>4
  <2>4. /\ DOMAIN inbox' = 1 .. Len(inbox) + 1 /\ inbox'[Len(inbox) + 1] = l
        /\ \A n \in 1 .. Len(inbox) : inbox'[n] = inbox[n]
    BY <1>0, <2>2, <2>3, InboxGrown
  <2>5. \A n \in DOMAIN inbox' : n \in DOMAIN inbox \/ n = Len(inbox) + 1
    BY <1>0, <2>4
  <2>6. Delivered'
    BY <1>0, <1>4, <2>1, <2>2, <2>4, <2>5 DEF Delivered, BringsAction
  <2>. QED
    BY <1>1, <2>2, <2>3, <2>6, InboxKeeps DEF SystemInv
<1>. QED
  BY <1>2, <1>3, <1>4 DEF RelayMoves

LEMMA ServerKeeps ==
    ASSUME SystemInv, ServerSends, UNCHANGED modVars
    PROVE  SystemInv'
<1>. PICK i \in ActionIds \ UsedIds : ReceiveAction(i)
  BY DEF ServerSends
<1>1. /\ rx' = [state |-> "delivering", id |-> i] /\ UNCHANGED <<outbox, inbox, session>>
  BY DEF ReceiveAction
<1>2. rx' \in Receiver /\ rx'.id = i /\ \A n \in DOMAIN inbox : inbox[n].id # i
  BY <1>1 DEF Receiver, UsedIds
<1>3. Delivered'
  BY <1>1, <1>2 DEF SystemInv, Delivered, BringsAction
<1>4. session' \in Sessions
  BY <1>1 DEF SystemInv, SystemTypes
<1>. QED
  BY <1>1, <1>2, <1>3, <1>4, InboxKeeps DEF SystemInv

(* The mod leaves the inbox alone, and appends to the outbox or leaves it.  *)
ModMoves ==
    /\ inbox' = inbox
    /\ \/ outbox' = outbox
       \/ \E w \in Seq(Record) : outbox' = outbox \o w /\ Len(outbox) + Len(w) <= MaxOutbox

LEMMA EnqueueMoves ==
    ASSUME SystemTypes, NEW items \in Seq(Seq(Resultless)), Enqueue(items), UNCHANGED inbox
    PROVE  ModMoves
<1>1. items \in Seq(Seq(Record))
  BY ResultlessFact
<1>. QED
  BY <1>1, Enqueued DEF ModMoves

LEMMA ModShape ==
    ASSUME SystemInv, Launch \/ ModWorks \/ ModFault
    PROVE  ModMoves /\ ModTypes' /\ Answering'
<1>0. SystemTypes /\ Delivered /\ Answering
  BY DEF SystemInv
<1>1. CASE Launch
  <2>1. ModTypes' /\ Answering'
    BY <1>0, <1>1, LaunchGameStep
  <2>2. UNCHANGED inbox /\ answers' \in Sessions
    BY <1>0, <1>1, LastAskedFact DEF Launch
  <2>3. PICK ready \in BOOLEAN : Enqueue(<<StartupLine(answers')>> \o CatalogueLine(ready))
    BY <1>1, Zenon DEF Launch
  <2>4. <<StartupLine(answers')>> \o CatalogueLine(ready) \in Seq(Seq(Resultless))
    BY <2>2, LinesFact
  <2>. QED
    BY <1>0, <2>1, <2>2, <2>3, <2>4, EnqueueMoves
<1>2. CASE Flush
  <2>1. Enqueue(<<>>) /\ UNCHANGED inbox /\ <<>> \in Seq(Seq(Resultless))
    BY <1>2, EmptySeq DEF Flush
  <2>. QED
    BY <1>0, <1>2, <2>1, EnqueueMoves, FlushStep
<1>3. CASE Reconnect
  <2>1. ModTypes' /\ Answering' /\ UNCHANGED inbox /\ answers' = inbox[inboxPos'].session
    BY <1>0, <1>3, ReconnectStep DEF Reconnect
  <2>2. answers' \in Sessions
    BY <2>1 DEF ModTypes, ModTypeOK
  <2>3. \E items \in Seq(Seq(Resultless)) : Enqueue(items)
    BY <1>3, <2>1, <2>2, ReconnectLines
  <2>. QED
    BY <1>0, <2>1, <2>3, EnqueueMoves
<1>4. CASE RetryCatalogue
  <2>1. Enqueue(<<Register>>) /\ UNCHANGED inbox /\ <<Register>> \in Seq(Seq(Resultless))
    BY <1>4, LinesFact DEF RetryCatalogue
  <2>. QED
    BY <1>0, <1>4, <2>1, EnqueueMoves, RetryCatalogueStep
<1>5. CASE TakeAction
  <2>1. UNCHANGED <<outbox, inbox>>
    BY <1>5 DEF TakeAction
  <2>. QED
    BY <1>0, <1>5, <2>1, TakeActionStep DEF ModMoves
<1>6. ASSUME NEW o \in owed, Answer(o)
      PROVE  ModMoves /\ ModTypes' /\ Answering'
  <2>1. Enqueue(<<ResultLine(o)>>) /\ UNCHANGED inbox
    BY <1>6 DEF Answer
  <2>2. <<ResultLine(o)>> \in Seq(Seq(Record))
    <3>1. ResultLine(o) \in Seq(Record)
      BY <1>0, AnswersFact DEF SystemTypes, ModTypeOK
    <3>. QED
      BY <3>1
  <2>3. ModMoves
    BY <1>0, <2>1, <2>2, Enqueued DEF ModMoves
  <2>. QED
    BY <1>0, <1>6, <2>3, AnswerStep
<1>7. CASE Quit
  <2>1. UNCHANGED inbox
    BY <1>7 DEF Quit
  <2>. QED
    BY <1>0, <1>7, <2>1, QuitStep DEF ModMoves
<1>8. CASE KillGame
  <2>1. UNCHANGED <<outbox, inbox>>
    BY <1>8 DEF KillGame
  <2>. QED
    BY <1>0, <1>8, <2>1, KillGameStep DEF ModMoves
<1>. QED
  BY <1>1, <1>2, <1>3, <1>4, <1>5, <1>6, <1>7, <1>8 DEF ModWorks, ModFault

LEMMA ModKeeps ==
    ASSUME SystemInv, Launch \/ ModWorks \/ ModFault, UNCHANGED relayVars
    PROVE  SystemInv'
<1>1. ModMoves /\ ModTypes' /\ Answering'
  BY ModShape
<1>2. inbox' = inbox /\ session' = session /\ rx' = rx
  BY <1>1 DEF ModMoves, relayVars
<1>3. Delivered'
  BY <1>2 DEF SystemInv, Delivered, BringsAction
<1>4. SystemTypes'
  BY <1>1, <1>2 DEF SystemInv, SystemTypes, ModTypes
<1>. QED
  BY <1>1, <1>3, <1>4 DEF SystemInv

LEMMA SystemStarts ==
    ASSUME SystemInit
    PROVE  SystemInv
<1>1. /\ outbox = <<>> /\ inbox = <<>> /\ session = 0
      /\ rx = [state |-> "off", id |-> NoId]
      /\ up = FALSE /\ launches = 0 /\ fifo = <<>> /\ inboxPos = 0 /\ answers = 0
      /\ complete = FALSE /\ owed = {} /\ answered = {}
  BY DEF SystemInit, Init, ModInit
<1>2. FlattenSeq(<<>>) = <<>> /\ <<>> \o <<>> = <<>>
  BY DEF FlattenSeq
<1>3. Log = <<>>
  BY <1>1, <1>2 DEF Log
<1>4. Answering
  BY <1>1, <1>3 DEF Answering, OwedIds, Single
<1>5. Delivered
  BY <1>1 DEF Delivered, BringsAction
<1>6. IsFiniteSet({}) /\ 0 \in Sessions /\ 0 \in 0 .. MaxLaunches
  BY FS_EmptySet, BoundsAssumption, ModAssumption DEF Sessions
<1>7. rx \in Receiver
  BY <1>1 DEF Receiver
<1>8. ModTypeOK
  <2>1. Len(inbox) \in Nat /\ inboxPos \in 0 .. Len(inbox)
    BY <1>1
  <2>2. \A n \in DOMAIN fifo : fifo[n] \in Seq(Record)
    BY <1>1
  <2>3. owed \subseteq Owed /\ answered \subseteq ActionIds /\ up \in BOOLEAN /\ complete \in BOOLEAN
    BY <1>1
  <2>4. answers \in Sessions /\ launches \in 0 .. MaxLaunches
    BY <1>1, <1>6
  <2>. QED
    BY <2>1, <2>2, <2>3, <2>4 DEF ModTypeOK
<1>9. SystemTypes
  BY <1>1, <1>6, <1>7, <1>8, EmptySeq DEF SystemTypes
<1>. QED
  BY <1>4, <1>5, <1>9 DEF SystemInv

(* Every step of the system is one of the relay, of the server or of the mod*)
LEMMA SystemSteps ==
    ASSUME SystemNext
    PROVE  \/ (RelayWorks \/ RelayFault \/ StartProcess) /\ UNCHANGED modVars
           \/ ServerSends /\ UNCHANGED modVars
           \/ (Launch \/ ModWorks \/ ModFault) /\ UNCHANGED relayVars
BY DEF SystemNext, StartStep, RelayStep, ServerStep, ModStep, FaultStep

LEMMA SystemKeeps ==
    ASSUME SystemInv, [SystemNext]_systemVars
    PROVE  SystemInv'
<1>1. CASE (RelayWorks \/ RelayFault \/ StartProcess) /\ UNCHANGED modVars
  BY <1>1, RelayShape, RelayKeeps DEF SystemInv
<1>2. CASE ServerSends /\ UNCHANGED modVars
  BY <1>2, ServerKeeps
<1>3. CASE (Launch \/ ModWorks \/ ModFault) /\ UNCHANGED relayVars
  BY <1>3, ModKeeps
<1>4. CASE UNCHANGED systemVars
  <2>1. UNCHANGED <<outbox, inbox, session, rx, up, launches, fifo, inboxPos, answers,
                    complete, owed, answered>>
    BY <1>4 DEF systemVars, relayVars, modVars
  <2>2. SystemTypes'
    BY <2>1 DEF SystemInv, SystemTypes, ModTypeOK
  <2>3. Delivered'
    BY <2>1 DEF SystemInv, Delivered, BringsAction
  <2>4. Answering'
    <3>1. Consumed' = Consumed /\ OwedIds' = OwedIds /\ owed' = owed
      BY <2>1 DEF Consumed, OwedIds, BringsAction
    <3>2. Log' = Log
      BY <2>1 DEF Log
    <3>3. (Consumed \ OwedIds)' = Consumed \ OwedIds
      BY <3>1
    <3>4. Single(Log', (Consumed \ OwedIds)')
      BY <3>2, <3>3 DEF SystemInv, Answering
    <3>. QED
      BY <3>1, <3>4 DEF SystemInv, Answering
  <2>. QED
    BY <2>2, <2>3, <2>4 DEF SystemInv
<1>. QED
  BY <1>1, <1>2, <1>3, <1>4, SystemSteps

(* The types of both programs, and that an action is answered once: always. *)
THEOREM SystemInvariant == SystemSpec => []SystemInv
<1>1. SystemInit => SystemInv
  BY SystemStarts
<1>2. SystemInv /\ [SystemNext]_systemVars => SystemInv'
  BY SystemKeeps
<1>. QED
  BY <1>1, <1>2, PTL DEF SystemSpec

(* The mod answers an action of a connection once, across quits, kills and  *)
(* launches, with any part of the fifo on the disk (bridge.lua, TX.open and *)
(* TX.close; main.lua, love.quit).                                          *)
THEOREM OneAnswer == SystemSpec => []AnsweredOnce
<1>1. ASSUME SystemInv
      PROVE  AnsweredOnce
  <2>1. outbox \in Seq(Record) /\ FlattenSeq(fifo) \in Seq(Record) /\ ModTypeOK
    BY <1>1, FlattenConcat DEF SystemInv, SystemTypes
  <2>2. Single(outbox, Consumed \ OwedIds)
    <3>1. Single(outbox \o FlattenSeq(fifo), Consumed \ OwedIds)
      BY <1>1 DEF SystemInv, Answering, Log
    <3>. QED
      BY <2>1, <3>1, SinglePart
  <2>. QED
    BY <2>1, <2>2 DEF AnsweredOnce, Single
<1>. QED
  BY <1>1, SystemInvariant, PTL

----------------------------------------------------------------------------
(* The relay of the system is the relay of Relay, with a mod that may write *)
(* whatever the outbox holds.                                               *)
AnyWrites == Writes = Seq(Record)

LEMMA RelayNextStep ==
    ASSUME RelayWorks \/ RelayFault \/ StartProcess \/ ServerSends
    PROVE  RelayNext
<1>1. CASE RelayWorks
  <2>1. CASE \/ OpenSession \/ RetryCursor \/ Hoist \/ Connect \/ SendStartup
             \/ DeliverToInbox \/ IdleEnds
    BY <2>1 DEF IdleEnds, RelayNext, SessionNext, StartupNext, ReceiveNext
  <2>2. CASE \E p \in 1 .. MaxOutbox :
                \/ Skip(p) \/ ReadTag(p) \/ Drop(p) \/ ReconnectForRelaunch(p)
                \/ Forward(p) \/ Observe(p)
    BY <2>2 DEF RelayNext, OutboxNext
  <2>. QED
    BY <1>1, <2>1, <2>2 DEF RelayWorks
<1>2. CASE RelayFault
  BY <1>2 DEF RelayFault, RelayNext, SessionNext, StartupNext, OutboxNext, ReceiveNext
<1>3. CASE StartProcess
  BY <1>3 DEF RelayNext, SessionNext
<1>4. CASE ServerSends
  BY <1>4 DEF ServerSends, RelayNext, ReceiveNext
<1>. QED
  BY <1>1, <1>2, <1>3, <1>4

LEMMA SystemIsRelayStep ==
    ASSUME AnyWrites, SystemInv, [SystemNext]_systemVars
    PROVE  [Next]_vars
<1>1. CASE (RelayWorks \/ RelayFault \/ StartProcess) /\ UNCHANGED modVars
  BY <1>1, RelayNextStep DEF Next
<1>2. CASE ServerSends /\ UNCHANGED modVars
  BY <1>2, RelayNextStep DEF Next
<1>3. CASE (Launch \/ ModWorks \/ ModFault) /\ UNCHANGED relayVars
  <2>1. ModMoves
    BY <1>3, ModShape
  <2>2. CASE outbox' = outbox
    <3>1. inbox' = inbox
      BY <2>1 DEF ModMoves
    <3>. QED
      BY <1>3, <2>2, <3>1 DEF vars
  <2>3. CASE \E w \in Seq(Record) : outbox' = outbox \o w /\ Len(outbox) + Len(w) <= MaxOutbox
    <3>. PICK w \in Seq(Record) : outbox' = outbox \o w /\ Len(outbox) + Len(w) <= MaxOutbox
      BY <2>3
    <3>1. ModWrites(w) /\ w \in Writes
      BY <1>3, <2>1 DEF ModMoves, ModWrites, AnyWrites
    <3>. QED
      BY <3>1 DEF Next
  <2>. QED
    BY <2>1, <2>2, <2>3 DEF ModMoves
<1>4. CASE UNCHANGED systemVars
  BY <1>4 DEF systemVars, vars
<1>. QED
  BY <1>1, <1>2, <1>3, <1>4, SystemSteps

(* Whatever the mod, the server and the failures do together, the relay and *)
(* its two files go through a behaviour of Relay: the protocol the mod      *)
(* follows takes nothing away from what session.rs, receive.rs and          *)
(* cursor.rs promise to any mod. Writes, which the system does not use, is  *)
(* all that an outbox can hold.                                             *)
THEOREM SystemIsRelay ==
    ASSUME AnyWrites
    PROVE  SystemSpec => Spec
<1>1. SystemInit => Init
  BY DEF SystemInit
<1>2. SystemInv /\ [SystemNext]_systemVars => [Next]_vars
  BY SystemIsRelayStep
<1>. QED
  BY <1>1, <1>2, SystemInvariant, PTL DEF SystemSpec, Spec

(* So what Relay guarantees to any mod, its connections guarantee in the    *)
(* system: one result for an action, no stale one, an inbox in sessions, a  *)
(* fresh catalogue, one launch, a farewell that names what is registered.   *)
THEOREM RelayGuaranteesInSystem ==
    ASSUME AnyWrites
    PROVE  SystemSpec => [](/\ TypeOK /\ OneResultPerConnection /\ NoStaleResult
                            /\ InboxInSessions /\ CatalogueFresh /\ OneLaunchPerConnection
                            /\ StopUnregistersAll /\ CursorNotOnTag /\ NoReplay
                            /\ ForceCheckpointed /\ NoContextPassed)
BY SystemIsRelay, TypeCorrect, OneResult, NotStale, InSessions, FreshCatalogue, OneLaunch,
   StopKnowsRegistered, NotOnTag, NotReplayed, Checkpointed, ContextsGiven, PTL
=============================================================================
