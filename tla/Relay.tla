------------------------------- MODULE Relay -------------------------------
(***************************************************************************)
(* The Rust relay neuro-bridge-rs: session.rs (run_session), obligations.rs*)
(* (PendingTracker), the startup probe of tailer.rs, receive.rs and the    *)
(* checkpoints of cursor.rs, over an outbox that is never rotated (the     *)
(* module OutboxTailer has the rotation).                                  *)
(*                                                                         *)
(* One task consumes the outbox and sends frames, one task receives, one   *)
(* looks ahead for the startup; the mod writes whatever it likes, the      *)
(* network and the disk fail whenever they like, and the process may be    *)
(* killed between any two steps.                                           *)
(***************************************************************************)
EXTENDS Ipc, FiniteSets

CONSTANTS
    MaxTracked,         \* MAX_TRACKED_ACTIONS
    Writes              \* the sequences of records the mod appends at once

ASSUME TrackedAssumption == MaxTracked \in Nat \ {0}
ASSUME WritesAssumption == Writes \subseteq Seq(Record)

NoCursor == -1      \* there is no usable cursor file

VARIABLES
    proc,      \* the relay process: "down", "idle" between sessions, "running"
    session,   \* the highest transport session marker on disk
    cursor,    \* the durable cursor file
    retry,     \* a cursor write failed and is to be tried again
    pending,   \* the PendingTracker, which lives as long as the process
    st,        \* the ConsumerState of the running session
    lane,      \* the startup lane: position of the startup found ahead, or 0
    ws,        \* the websocket: "none", "open"
    pc,        \* the consumer: "loop", or "sent" before what it sent is passed
    rx,        \* the receive task: its state and the id it is delivering
    wire,      \* history: the frames given to the socket, in order
    since,     \* history: the last session the PendingTracker knows nothing of
    base,      \* history: where the last bootstrap began to read
    unsaved    \* history: the frames after which the cursor was not written

relayVars == <<proc, session, cursor, retry, pending, st, lane, ws, pc, rx, wire,
               since, base, unsaved>>
vars == <<outbox, inbox, relayVars>>

Tracker == [delivered : SUBSET ActionIds, answered : SUBSET ActionIds,
            earlier : SUBSET ActionIds,
            forces : SUBSET Positions, contexts : SUBSET Positions,
            bound : Games \cup {NoGame}]

Consumer == [tail : Positions, next : 1 .. MaxOutbox + 1,
             game : Games \cup {NoGame}, onWire : BOOLEAN,
             hoisted : Positions, tag : Positions, registered : SUBSET ActionIds]

Receiver == [state : {"off", "reading", "delivering", "dead"},
             id : ActionIds \cup {NoId}]

(* A frame is the record of the outbox it was made of; the one frame that  *)
(* is made of none, the unregister frame of a stop, has position 0.        *)
Frame == [session : Sessions, pos : Positions, ok : BOOLEAN]

TypeOK ==
    /\ outbox \in Seq(Record) /\ Len(outbox) <= MaxOutbox
    /\ inbox \in Seq(InboxRecord)
    /\ proc \in {"down", "idle", "running"}
    /\ session \in Sessions
    /\ cursor \in Positions \cup {NoCursor}
    /\ retry \in BOOLEAN
    /\ pending \in Tracker
    /\ st \in Consumer
    /\ lane \in Positions
    /\ ws \in {"none", "open"}
    /\ pc \in {"loop", "sent"}
    /\ rx \in Receiver
    /\ wire \in Seq(Frame) /\ since \in Sessions
    /\ base \in Positions
    /\ unsaved \subseteq Nat

----------------------------------------------------------------------------
(* PendingTracker *)

NewTracker == [delivered |-> {}, answered |-> {}, earlier |-> {},
               forces |-> {}, contexts |-> {}, bound |-> NoGame]

BindGame(t, g) ==
    [(IF t.bound \in {NoGame, g} THEN t ELSE NewTracker) EXCEPT !.bound = g]

(* Fault: only the ids already answered are refused. *)
CanAdmit_AnsweredOnly(t, i) == i \notin t.answered

CanAdmit(t, i) == i \notin t.answered /\ i \notin t.delivered

(* Fault: a second result for an id is not suppressed. *)
Suppressed_Never(t, i) == FALSE

Suppressed(t, i) == i \in t.answered

Stale(t, i) == i \in t.earlier /\ i \notin t.delivered

OwesResult(t) == ~ (t.delivered \subseteq t.answered)

(* A force or a context is remembered by the position it ends at, before   *)
(* it is sent; a full memory is emptied first, and forgets.                *)
Remember(set, p) == IF Cardinality(set) >= MaxTracked THEN {p} ELSE set \cup {p}

FirstSendAt(t, k, p) ==
    CASE k = "force"   -> [t EXCEPT !.forces = Remember(@, p)]
      [] k = "context" -> [t EXCEPT !.contexts = Remember(@, p)]
      [] OTHER         -> t

(* Fault: a record read again is taken for a new one. *)
Replayed_Never(t, k, p) == FALSE

Replayed(t, k, p) ==
    \/ k = "force" /\ p \in t.forces /\ Cardinality(t.forces) < MaxTracked
    \/ k = "context" /\ p \in t.contexts /\ Cardinality(t.contexts) < MaxTracked

(* Fault: the actions of earlier connections are forgotten. *)
BeginSession_Forgets(t) == [t EXCEPT !.delivered = {}, !.answered = {}]

BeginSession(t) ==
    [t EXCEPT !.earlier = @ \cup t.delivered, !.delivered = {}, !.answered = {}]

----------------------------------------------------------------------------
(* What the consumer decides of the record at position p *)

(* The answer tag that ends where the startup at p begins says which       *)
(* session the startup answers; a startup without one is always live.      *)
StartupIsLive(tag, p) == tag # 0 /\ tag = p - 1 => outbox[tag].session = session

(* The startups the probe accepts: it reads from the tail of the session,  *)
(* so it knows the tags after the tail only.                               *)
LiveStartups ==
    {p \in st.tail + 1 .. Len(outbox) :
        /\ outbox[p].kind = "startup" /\ outbox[p].game # NoGame
        /\ StartupIsLive(IF p - 1 > st.tail /\ outbox[p-1].kind = "tag"
                         THEN p - 1 ELSE 0, p)}

(* Faults: the hoisted startup supersedes only itself; or contexts as well. *)
Superseded_OnlyStartup(p) == st.hoisted # 0 /\ p = st.hoisted
Superseded_Everything(p) == st.hoisted # 0 /\ p <= st.hoisted

Superseded(p) ==
    /\ st.hoisted # 0
    /\ \/ p = st.hoisted
       \/ p < st.hoisted /\ outbox[p].kind \in ClearedKinds

(* The copy of the hoisted startup, once reached, ends the superseding.    *)
HoistedAfter(p) == IF p >= st.hoisted THEN 0 ELSE st.hoisted

(* classify_outbox_command, for a consumer that has bound st.game          *)
Forwardable(p) ==
    LET r == outbox[p]
    IN  /\ r.kind \notin {"tag", "junk"}
        /\ r.game # NoGame
        /\ r.game = st.game
        /\ r.kind = "result" =>
              /\ r.id # NoId
              /\ ~ Suppressed(pending, r.id)
              /\ ~ Stale(pending, r.id)

(* Fault: a launch does not end the connection of the one before it. *)
Relaunch_Never(p) == FALSE

(* A startup of a live launch while one is on the wire: reconnect first.   *)
Relaunch(p) ==
    /\ outbox[p].kind = "startup" /\ Forwardable(p)
    /\ StartupIsLive(st.tag, p)

(* Fault: a withdrawal is not noted. *)
Noted_KeepsUnregistered(p) ==
    CASE outbox[p].kind = "startup"  -> {}
      [] outbox[p].kind = "register" -> st.registered \cup ({outbox[p].id} \ {NoId})
      [] OTHER                       -> st.registered

(* note_registration_frame: the actions registered once p is sent. *)
Noted(p) ==
    LET r == outbox[p]
    IN  CASE r.kind = "startup"    -> {}
          [] r.kind = "register"   -> st.registered \cup ({r.id} \ {NoId})
          [] r.kind = "unregister" -> st.registered \ {r.id}
          [] OTHER                 -> st.registered

Urgent(p) == outbox[p].kind \in {"force", "context"}

----------------------------------------------------------------------------
(* Checkpointer *)

(* Fault: a force waits for the thresholds as any other record does. *)
Checkpoint_NotUrgent(p, urgent) ==
    \/ cursor' = p /\ retry' = FALSE
    \/ UNCHANGED <<cursor, retry>>

(* advance: a force or a context is written at once, another record when   *)
(* enough records or bytes are unsaved (here: at any record). A write may  *)
(* fail, and none is tried while an earlier failure is being waited out.   *)
Checkpoint(p, urgent) ==
    \/ cursor' = p /\ retry' = FALSE
    \/ retry' = TRUE /\ UNCHANGED cursor
    \/ ~ urgent /\ UNCHANGED <<cursor, retry>>

(* finish: the last write of a session, which is not tried twice.          *)
FinishDue == retry \/ (st.tail # cursor /\ (cursor = NoCursor => st.tail # 0))
Finish ==
    \/ UNCHANGED cursor
    \/ FinishDue /\ cursor' = st.tail

(* Fault: the boundary is the end of the file, tag or not. *)
BootstrapBoundary_PastTag == Len(outbox)

(* The end of the last complete record, or the start of it when it is a    *)
(* tag, so that the startup the tag announces is still seen.               *)
BootstrapBoundary ==
    IF outbox # <<>> /\ outbox[Len(outbox)].kind = "tag"
    THEN Len(outbox) - 1 ELSE Len(outbox)

----------------------------------------------------------------------------
(* The process and its sessions *)

(* Fault: the consumer begins with the record the cursor is past. *)
NewConsumer_OffByOne(tail) ==
    [tail |-> tail, next |-> tail, game |-> NoGame, onWire |-> FALSE,
     hoisted |-> 0, tag |-> 0, registered |-> {}]

NewConsumer(tail) ==
    [tail |-> tail, next |-> tail + 1, game |-> NoGame, onWire |-> FALSE,
     hoisted |-> 0, tag |-> 0, registered |-> {}]

Init ==
    /\ outbox = <<>> /\ inbox = <<>>
    /\ proc = "down" /\ session = 0 /\ cursor = NoCursor /\ retry = FALSE
    /\ pending = NewTracker
    /\ st = NewConsumer(0)
    /\ lane = 0 /\ ws = "none" /\ pc = "loop"
    /\ rx = [state |-> "off", id |-> NoId]
    /\ wire = <<>> /\ since = 0 /\ base = 0 /\ unsaved = {}

StartProcess ==
    /\ proc = "down"
    /\ proc' = "idle"
    /\ pending' = NewTracker
    /\ since' = session
    /\ UNCHANGED <<outbox, inbox, session, cursor, retry, st, lane, ws, pc, rx,
                   wire, base, unsaved>>

(* load_cursor, else the bootstrap boundary, which is made durable at once *)
(* (or owed to the retry) when there is an outbox to point into.           *)
ResumeAt(tail) ==
    IF cursor # NoCursor
    THEN tail = cursor /\ UNCHANGED <<cursor, base>>
    ELSE /\ tail = BootstrapBoundary /\ base' = tail
         /\ cursor' \in {NoCursor} \cup (IF outbox = <<>> THEN {} ELSE {tail})

(* The start of run_session, and the new session marker and the request to *)
(* register again of open_transport_session.                               *)
OpenSession ==
    /\ proc = "idle" /\ session < MaxSessions
    /\ proc' = "running"
    /\ session' = session + 1
    /\ inbox' = Append(inbox, Reregister(session'))
    /\ pending' = BeginSession(pending)
    /\ \E tail \in 0 .. Len(outbox) : ResumeAt(tail) /\ st' = NewConsumer(tail)
    /\ retry' = (cursor' = NoCursor /\ outbox # <<>>)
    /\ lane' = 0 /\ ws' = "none" /\ pc' = "loop"
    /\ UNCHANGED <<outbox, rx, wire, since, unsaved>>

(* The marker or the inbox cannot be written: the session ends unopened.   *)
OpenFails ==
    /\ proc = "idle"
    /\ session' \in {session, session + 1} \cap Sessions
    /\ pending' = BeginSession(pending)
    /\ \E tail \in 0 .. Len(outbox) : ResumeAt(tail)
    /\ UNCHANGED <<outbox, inbox, proc, retry, st, lane, ws, pc, rx, wire, since,
                   unsaved>>

(* The receive task is aborted; an append already begun still completes,   *)
(* under the inbox lock and so before anything a later session appends.    *)
StopReceiver ==
    /\ rx' = [state |-> "off", id |-> NoId]
    /\ \/ UNCHANGED inbox
       \/ rx.state = "delivering" /\ inbox' = Append(inbox, ActionLine(rx.id, session))

(* The consumer's state and its retry are gone with the session. *)
EndConsumer ==
    /\ st' = NewConsumer(0) /\ retry' = FALSE
    /\ ws' = "none" /\ pc' = "loop" /\ lane' = 0
    /\ StopReceiver

EndSession(to) ==
    /\ proc' = to
    /\ Finish
    /\ EndConsumer
    /\ UNCHANGED <<outbox, session, since, base, unsaved>>

(* The last frame stays behind the cursor, if it is a force or a context.  *)
LeftUnsaved(p) == unsaved \cup (IF Urgent(p) THEN {Len(wire)} ELSE {})

(* Killed, anywhere: also between the send of a frame and the checkpoint   *)
(* after it.                                                               *)
Crash ==
    /\ proc # "down"
    /\ proc' = "down" /\ pending' = NewTracker
    /\ unsaved' = IF pc = "sent" THEN LeftUnsaved(st.next) ELSE unsaved
    /\ EndConsumer
    /\ UNCHANGED <<outbox, session, cursor, wire, since, base>>

AtLoop == proc = "running" /\ pc = "loop"

SendFrame(p, ok) == wire' = Append(wire, [session |-> session, pos |-> p, ok |-> ok])

(* The stop signal: on a connection that has its startup, the actions      *)
(* registered there are unregistered, if the socket will have it; then the *)
(* session ends and the process with it.                                   *)
Stop ==
    \/ /\ AtLoop /\ EndSession("down") /\ pending' = NewTracker
       /\ IF st.onWire THEN \E ok \in BOOLEAN : SendFrame(0, ok) ELSE UNCHANGED wire
    \/ /\ proc = "idle" /\ proc' = "down" /\ pending' = NewTracker
       /\ UNCHANGED <<outbox, inbox, session, cursor, retry, st, lane, ws, pc,
                      rx, wire, since, base, unsaved>>

(* The session is lost at the loop: the mod's heartbeat stopped, the idle   *)
(* second found a task finished or could not flush, the outbox could not be *)
(* read.                                                                    *)
LoseSession == AtLoop /\ EndSession("idle") /\ UNCHANGED <<pending, wire>>

RetryCursor ==
    /\ AtLoop /\ retry
    /\ cursor' = st.tail /\ retry' = FALSE
    /\ UNCHANGED <<outbox, inbox, proc, session, pending, st, lane, ws, pc, rx,
                   wire, since, base, unsaved>>

----------------------------------------------------------------------------
(* The startup, sent ahead *)

Hoist ==
    /\ proc = "running" /\ lane = 0 /\ ~ st.onWire
    /\ \E p \in LiveStartups :
          /\ \A q \in LiveStartups : p <= q
          /\ lane' = p
    /\ UNCHANGED <<outbox, inbox, proc, session, cursor, retry, pending, st,
                   ws, pc, rx, wire, since, base, unsaved>>

(* classify_outbox_command binds the game, then the socket is opened and   *)
(* the receive task spawned. The tracker of another game is made anew.     *)
Connect ==
    /\ AtLoop /\ lane # 0 /\ ws = "none"
    /\ pending' = BindGame(pending, outbox[lane].game)
    /\ st' = [st EXCEPT !.game = outbox[lane].game]
    /\ ws' = "open"
    /\ rx' = [state |-> "reading", id |-> NoId]
    /\ since' = IF pending.bound \in {NoGame, outbox[lane].game} THEN since ELSE session - 1
    /\ UNCHANGED <<outbox, inbox, proc, session, cursor, retry, lane, pc, wire, base,
                   unsaved>>

SendStartup ==
    /\ AtLoop /\ ws = "open" /\ ~ st.onWire
    /\ SendFrame(lane, TRUE)
    /\ st' = [st EXCEPT !.onWire = TRUE, !.hoisted = lane, !.registered = Noted(lane)]
    /\ UNCHANGED <<outbox, inbox, proc, session, cursor, retry, pending, lane,
                   ws, pc, rx, since, base, unsaved>>

SendStartupFails ==
    /\ AtLoop /\ ws = "open" /\ ~ st.onWire
    /\ SendFrame(lane, FALSE)
    /\ EndSession("idle") /\ UNCHANGED pending

----------------------------------------------------------------------------
(* The outbox, in order *)

Reading(p) == AtLoop /\ st.onWire /\ p = st.next /\ p <= Len(outbox)

Passed(p) == [st EXCEPT !.tail = p, !.next = p + 1, !.hoisted = HoistedAfter(p)]

(* fence_record: a superseded record is passed over. *)
Skip(p) ==
    /\ Reading(p) /\ Superseded(p)
    /\ st' = Passed(p)
    /\ Checkpoint(p, FALSE)
    /\ UNCHANGED <<outbox, inbox, proc, session, pending, lane, ws, pc, rx,
                   wire, since, base, unsaved>>

(* The tail never rests on a tag, or the next session would miss it. *)
ReadTag(p) ==
    /\ Reading(p) /\ ~ Superseded(p) /\ outbox[p].kind = "tag"
    /\ st' = [st EXCEPT !.next = p + 1, !.hoisted = HoistedAfter(p), !.tag = p]
    /\ UNCHANGED <<outbox, inbox, proc, session, cursor, retry, pending, lane,
                   ws, pc, rx, wire, since, base, unsaved>>

(* Dropped by the classification, or remembered as already sent. *)
Drop(p) ==
    /\ Reading(p) /\ ~ Superseded(p) /\ outbox[p].kind # "tag"
    /\ Forwardable(p) => Replayed(pending, outbox[p].kind, p)
    /\ st' = Passed(p)
    /\ Checkpoint(p, Urgent(p))
    /\ UNCHANGED <<outbox, inbox, proc, session, pending, lane, ws, pc, rx,
                   wire, since, base, unsaved>>

ReconnectForRelaunch(p) ==
    /\ Reading(p) /\ ~ Superseded(p) /\ Relaunch(p)
    /\ EndSession("idle") /\ UNCHANGED <<pending, wire>>

Sendable(p) ==
    /\ Reading(p) /\ ~ Superseded(p) /\ Forwardable(p) /\ ~ Relaunch(p)
    /\ ~ Replayed(pending, outbox[p].kind, p)

Forward(p) ==
    /\ Sendable(p)
    /\ pending' = FirstSendAt(pending, outbox[p].kind, p)
    /\ SendFrame(p, TRUE)
    /\ st' = [st EXCEPT !.registered = Noted(p)]
    /\ pc' = "sent"
    /\ UNCHANGED <<outbox, inbox, proc, session, cursor, retry, lane, ws, rx,
                   since, base, unsaved>>

(* What follows a send that succeeded: a result counts as answered, and    *)
(* the record is passed and checkpointed. The receive task may run, and a  *)
(* kill may come, in between.                                              *)
Observe(p) ==
    /\ proc = "running" /\ pc = "sent" /\ p = st.next
    /\ pending' = IF outbox[p].kind = "result"
                  THEN [pending EXCEPT !.answered = @ \cup {outbox[p].id}]
                  ELSE pending
    /\ st' = Passed(p)
    /\ Checkpoint(p, Urgent(p))
    /\ unsaved' = IF retry' THEN LeftUnsaved(p) ELSE unsaved
    /\ pc' = "loop"
    /\ UNCHANGED <<outbox, inbox, proc, session, lane, ws, rx, wire, since, base>>

ForwardFails(p) ==
    /\ Sendable(p)
    /\ pending' = FirstSendAt(pending, outbox[p].kind, p)
    /\ SendFrame(p, FALSE)
    /\ EndSession("idle")

----------------------------------------------------------------------------
(* The receive task *)

ReceiveAction(i) ==
    /\ proc = "running" /\ rx.state = "reading" /\ CanAdmit(pending, i)
    /\ pending' = [pending EXCEPT !.delivered = @ \cup {i}]
    /\ rx' = [state |-> "delivering", id |-> i]
    /\ UNCHANGED <<outbox, inbox, proc, session, cursor, retry, st, lane, ws,
                   pc, wire, since, base, unsaved>>

DeliverToInbox ==
    /\ rx.state = "delivering"
    /\ inbox' = Append(inbox, ActionLine(rx.id, session))
    /\ rx' = [state |-> "reading", id |-> NoId]
    /\ UNCHANGED <<outbox, proc, session, cursor, retry, pending, st, lane, ws,
                   pc, wire, since, base, unsaved>>

(* The inbox refuses the record for good, or the server closed the socket. *)
ReceiverDies ==
    /\ rx.state \in {"reading", "delivering"}
    /\ rx' = [state |-> "dead", id |-> NoId]
    /\ UNCHANGED <<outbox, inbox, proc, session, cursor, retry, pending, st,
                   lane, ws, pc, wire, since, base, unsaved>>

----------------------------------------------------------------------------
SessionNext ==
    StartProcess \/ OpenSession \/ OpenFails \/ LoseSession \/ Stop \/ Crash

StartupNext == Hoist \/ Connect \/ SendStartup \/ SendStartupFails

OutboxNext ==
    \E p \in 1 .. MaxOutbox :
        \/ Skip(p) \/ ReadTag(p) \/ Drop(p) \/ ReconnectForRelaunch(p)
        \/ Forward(p) \/ Observe(p) \/ ForwardFails(p)

ReceiveNext == (\E i \in ActionIds : ReceiveAction(i)) \/ DeliverToInbox \/ ReceiverDies

RelayNext == SessionNext \/ RetryCursor \/ StartupNext \/ OutboxNext \/ ReceiveNext

(* The mod, here with no protocol of its own: any write at any time. *)
ModWrites(rs) ==
    /\ Len(outbox) + Len(rs) <= MaxOutbox
    /\ outbox' = outbox \o rs
    /\ UNCHANGED <<inbox, relayVars>>

Next == RelayNext \/ \E rs \in Writes : ModWrites(rs)

Spec == Init /\ [][Next]_vars

----------------------------------------------------------------------------
(* Safety *)

Kind(k) == IF wire[k].pos = 0 THEN "farewell" ELSE outbox[wire[k].pos].kind
Id(k) == IF wire[k].pos = 0 THEN NoId ELSE outbox[wire[k].pos].id
OnWire == {k \in DOMAIN wire : wire[k].ok}

(* A connection carries at most one result for an id, whatever the mod     *)
(* writes and however often the outbox is read again: the server never     *)
(* sees a second answer (PendingTracker, and observe_result after send).   *)
OneResultPerConnection ==
    \A j, k \in OnWire :
        /\ j # k /\ wire[j].session = wire[k].session
        /\ Kind(j) = "result" /\ Kind(k) = "result"
        => Id(j) # Id(k)

(* A result on the running connection never answers only an action that an *)
(* earlier connection of the same tracker brought to the mod, whichever    *)
(* sessions failed to open in between: what the id says is that the mod     *)
(* must have got it again (begin_session, is_stale_result). A process makes *)
(* the tracker, and a change of the game makes it anew.                    *)
NoStaleResult ==
    proc = "running" =>
        \A k \in OnWire, n \in DOMAIN inbox :
            /\ wire[k].session = session /\ Kind(k) = "result"
            /\ inbox[n].id = Id(k)
            /\ since < inbox[n].session /\ inbox[n].session < session
            => Id(k) \in pending.delivered

(* Within one connection an action id is handed to the mod at most once,   *)
(* and every action lies after the request to register of its connection   *)
(* and before that of the next: an append that outlives its session cannot *)
(* land in the next one (receive.rs, INBOX lock).                          *)
InboxInSessions ==
    /\ \A j, k \in DOMAIN inbox :
          j < k => inbox[j].session <= inbox[k].session
    /\ \A j, k \in DOMAIN inbox :
          j < k /\ inbox[j].session = inbox[k].session
          => inbox[k].kind = "action" /\ inbox[j].id # inbox[k].id

(* Registrations, forces and results reach a connection only after the     *)
(* startup they belong to, the last one written before them: nothing of an *)
(* earlier launch or of an earlier answer enters a later one (superseded). *)
LastStartup(q, p) ==
    /\ q \in 1 .. p - 1
    /\ outbox[q].kind = "startup" /\ outbox[q].game = outbox[p].game
    /\ \A r \in q + 1 .. p - 1 :
          ~ (outbox[r].kind = "startup" /\ outbox[r].game = outbox[p].game)
CatalogueFresh ==
    \A k \in OnWire :
        Kind(k) \in ClearedKinds \ {"startup"} =>
            \E j \in OnWire :
                /\ j < k /\ wire[j].session = wire[k].session
                /\ LastStartup(wire[j].pos, wire[k].pos)

(* The first frame of a connection is a startup, every later one is of the *)
(* game that startup named (bind_game, matches_bound), and a further       *)
(* startup answers another session: a connection carries one live launch   *)
(* (the relaunch reconnect).                                               *)
StartupFirst ==
    \A k \in OnWire : \E j \in OnWire :
        /\ j <= k /\ wire[j].session = wire[k].session
        /\ Kind(j) = "startup"
        /\ wire[k].pos # 0 => outbox[wire[j].pos].game = outbox[wire[k].pos].game
        /\ \A i \in OnWire : wire[i].session = wire[j].session => i >= j
OneLaunchPerConnection ==
    /\ StartupFirst
    /\ \A j, k \in OnWire :
          /\ j < k /\ wire[j].session = wire[k].session
          /\ Kind(j) = "startup" /\ Kind(k) = "startup"
          => /\ wire[k].pos > 1
             /\ outbox[wire[k].pos - 1].kind = "tag"
             /\ outbox[wire[k].pos - 1].session # wire[k].session

(* Whenever a stop may come, the relay knows which actions the connection  *)
(* holds registered: the unregister frame it then sends names all of them, *)
(* and nothing else (note_registration_frame, quit_unregister_frame).      *)
RegisteredOn(s) ==
    LET Frames == {n \in OnWire : wire[n].session = s}
        Withdrawn(n) == \E m \in Frames :
            m > n /\ (Kind(m) = "startup" \/ (Kind(m) = "unregister" /\ Id(m) = Id(n)))
    IN  {Id(n) : n \in {m \in Frames : Kind(m) = "register" /\ ~ Withdrawn(m)}} \ {NoId}
StopUnregistersAll == AtLoop => st.registered = RegisteredOn(session)

(* The durable cursor never rests between an answer tag and its startup,   *)
(* by whichever path it was written: bootstrap, checkpoint, retry, finish. *)
CursorNotOnTag ==
    cursor > 0 /\ cursor < Len(outbox) /\ outbox[cursor].kind = "tag"
    => outbox[cursor + 1].kind # "startup"

(* No force and no context goes out twice in the life of a tracker, while  *)
(* the memory of those sent is not full (first_send_at).                   *)
Attempted(kind) == 
    {wire[k].pos : k \in {j \in DOMAIN wire : wire[j].session > since /\ Kind(j) = kind}}
NoReplay ==
    \A j, k \in OnWire :
        /\ since < wire[j].session /\ j < k /\ wire[j].pos = wire[k].pos
        /\ Kind(j) \in {"force", "context"}
        => Cardinality(Attempted(Kind(j))) >= MaxTracked

(* A force or a context that was sent is behind the durable cursor and no  *)
(* frame of it follows, in this session, a later one or a later process,   *)
(* unless the write of the cursor after it failed, or a kill came between  *)
(* its send and that write, or the relay is between the two (advance,      *)
(* urgent): a stop or a kill at any other time does not repeat it.         *)
ForceCheckpointed ==
    \A j \in OnWire : Kind(j) \in {"force", "context"} =>
        \/ /\ wire[j].pos <= cursor
           /\ \A k \in OnWire : j < k => wire[k].pos # wire[j].pos
        \/ j \in unsaved
        \/ pc = "sent" /\ j = Len(wire)

(* While all launches are of one game, the cursor passes no context of it  *)
(* that was not given to a socket: contexts are neither superseded nor lost*)
(* to a crash.                                                             *)
OnlyGame(g) ==
    g # NoGame /\ \A q \in DOMAIN outbox :
        outbox[q].kind = "startup" => outbox[q].game \in {g, NoGame}
NoContextPassed ==
    \A p \in base + 1 .. cursor :
        outbox[p].kind = "context" /\ OnlyGame(outbox[p].game)
        => \E k \in DOMAIN wire : wire[k].pos = p

(* "Dropping an already sent ..." (session.rs, replayed): what the relay   *)
(* drops as already sent was sent.                                         *)
DroppedWasSent ==
    [][\A p \in 1 .. MaxOutbox :
        Drop(p) /\ Replayed(pending, outbox[p].kind, p)
        => \E k \in OnWire : wire[k].pos = p]_vars
============================================================================
