---------------------------- MODULE QueueBudget ----------------------------
(***************************************************************************)
(* The way of a line through a session of the relay: the file watcher, the *)
(* tailer task (tailer.rs), the two lanes with their byte budget (queue.rs)*)
(* and the consumer (session.rs, Lanes::next and the loop of run_session). *)
(*                                                                         *)
(* The tailer waits for an event or a timer, for bytes of the budget, for  *)
(* room in a lane; the consumer waits for a line or a timer. Every wait    *)
(* has a wakeup of its own, and the timers are there for the watcher that  *)
(* dies. What a line says is left out: a line is usable or not, is a live  *)
(* startup or not, and has a size.                                         *)
(***************************************************************************)
EXTENDS Integers, Sequences, FiniteSetsExt

CONSTANTS
    Lines,        \* what the mod may write
    MaxBytes,     \* MAX_QUEUED_BYTES
    MaxQueued,    \* MAX_QUEUED_RECORDS: the room of the outbox lane
    MaxWatch,     \* the room of the watch channel
    Chunk,        \* MAX_CHUNK, in lines: what one read returns
    MaxLines      \* bound: lines the mod writes

(* A line fits into a chunk, which is no larger than the budget (config.rs: *)
(* MAX_CHUNK = MAX_QUEUED_BYTES). An unusable one (no UTF-8, too long) has *)
(* size 0: it is queued without its text.                                  *)
ASSUME LinesAssumption ==
    /\ Lines \subseteq [startup : BOOLEAN, bytes : 0 .. MaxBytes]
    /\ \A line \in Lines : line.startup => line.bytes # 0
ASSUME RoomAssumption ==
    /\ MaxBytes \in Nat \ {0} /\ MaxQueued \in Nat \ {0} /\ MaxWatch \in Nat \ {0}
    /\ Chunk \in Nat \ {0} /\ MaxLines \in Nat

VARIABLES
    outbox,    \* the lines of the file
    events,    \* kinds of file system events the watcher has not handled yet
    watch,     \* messages in the watch channel
    healthy,   \* the watcher works
    tailer,    \* the tailer task
    used,      \* queue_bytes: reserved bytes of the budget
    permit,    \* the permit stored in the Notify `released`
    lanes,     \* the startup lane (room for one item) and the outbox lane
    onWire,    \* startup_on_wire
    consumer,  \* the loop of run_session and the item it holds
    handled    \* lines of the outbox the consumer is done with

vars == <<outbox, events, watch, healthy, tailer, used, permit, lanes, onWire,
          consumer, handled>>

Positions == 0 .. MaxLines
Gone == -1

Item == [pos : Positions, hoisted : BOOLEAN]
NoItem == [pos |-> 0, hoisted |-> FALSE]
Bytes(item) == IF item.pos = 0 THEN 0 ELSE outbox[item.pos].bytes

(* read is the position of the ordered reader, probe that of the one that  *)
(* looks for the startup; batch holds the records read and not yet queued. *)
Tailer == [pc : {"drain", "read", "admit", "await", "parked", "send", "sleep", "dead"},
           read : Positions, probe : Positions \cup {Gone}, batch : Seq(Item),
           caught : BOOLEAN, watched : BOOLEAN]

Consumer == [pc : {"next", "recv", "busy", "told", "ended"}, item : Item]

TypeOK ==
    /\ outbox \in Seq(Lines) /\ Len(outbox) <= MaxLines
    /\ events \subseteq {"write", "read"}
    /\ watch \in 0 .. MaxWatch
    /\ healthy \in BOOLEAN
    /\ tailer \in Tailer
    /\ used \in 0 .. MaxBytes
    /\ permit \in BOOLEAN
    /\ lanes \in [startup : Seq(Item), outbox : Seq(Item)]
    /\ Len(lanes.startup) <= 1 /\ Len(lanes.outbox) <= MaxQueued
    /\ onWire \in BOOLEAN
    /\ consumer \in Consumer
    /\ handled \in Positions

Init ==
    /\ outbox = <<>> /\ events = {} /\ watch = 0
    /\ healthy \in BOOLEAN
    /\ tailer = [pc |-> "drain", read |-> 0, probe |-> 0, batch |-> <<>>,
                 caught |-> FALSE, watched |-> healthy]
    /\ used = 0 /\ permit = FALSE
    /\ lanes = [startup |-> <<>>, outbox |-> <<>>]
    /\ onWire = FALSE
    /\ consumer = [pc |-> "next", item |-> NoItem]
    /\ handled = 0

Alive == consumer.pc # "ended"

----------------------------------------------------------------------------
(* The file and its watcher *)

AppendLine(line) ==
    /\ Len(outbox) < MaxLines
    /\ outbox' = Append(outbox, line)
    /\ events' = IF healthy THEN events \cup {"write"} ELSE events
    /\ UNCHANGED <<watch, healthy, tailer, used, permit, lanes, onWire, consumer,
                   handled>>

(* try_send: a full channel already holds what will wake the tailer. *)
TrySend == watch' = IF watch < MaxWatch THEN watch + 1 ELSE watch

(* Fault: the tailer's own reads count. *)
WakesTailer_Always(kind) == TRUE

WakesTailer(kind) == kind # "read"

WatcherDelivers(kind) ==
    /\ Alive /\ healthy /\ kind \in events
    /\ events' = events \ {kind}
    /\ IF WakesTailer(kind) THEN TrySend ELSE UNCHANGED watch
    /\ UNCHANGED <<outbox, healthy, tailer, used, permit, lanes, onWire, consumer,
                   handled>>

WatcherDies ==
    /\ Alive /\ healthy /\ healthy' = FALSE
    /\ events' = {}
    /\ UNCHANGED <<outbox, watch, tailer, used, permit, lanes, onWire, consumer,
                   handled>>

----------------------------------------------------------------------------
(* The tailer task *)

At(pc) == Alive /\ tailer.pc = pc

(* The end of a turn: another one at once when the file has more, else the *)
(* wait for an event or a timer, whose length depends on the watcher.      *)
EndTurn(t) ==
    IF t.caught
    THEN [t EXCEPT !.pc = "sleep", !.watched = @ /\ healthy]
    ELSE [t EXCEPT !.pc = "drain"]

Drain ==
    /\ At("drain")
    /\ watch' = 0
    /\ tailer' = [tailer EXCEPT !.pc = "read"]
    /\ UNCHANGED <<outbox, events, healthy, used, permit, lanes, onWire, consumer,
                   handled>>

ReadTo(from) == Min({from + Chunk, Len(outbox)})

(* An access event of the read itself reaches the watcher. *)
Accessed == events' = IF healthy THEN events \cup {"read"} ELSE events

(* forward_in_order: the records of this read, in their order. *)
ReadOrdered ==
    /\ At("read") /\ onWire
    /\ LET to == ReadTo(tailer.read)
           t == [tailer EXCEPT
                   !.probe = Gone, !.read = to, !.caught = (to = Len(outbox)),
                   !.batch = [n \in 1 .. to - tailer.read |->
                                [pos |-> tailer.read + n, hoisted |-> FALSE]]]
       IN  tailer' = IF t.batch = <<>> THEN EndTurn(t) ELSE [t EXCEPT !.pc = "admit"]
    /\ Accessed
    /\ UNCHANGED <<outbox, watch, healthy, used, permit, lanes, onWire, consumer,
                   handled>>

(* Fault: the ordered reader goes on where the probe stopped. *)
Hoisted_MovesReader(t, p) ==
    [t EXCEPT !.pc = "admit", !.probe = Gone, !.caught = TRUE, !.read = p,
              !.batch = <<[pos |-> p, hoisted |-> TRUE]>>]

(* hoist_startup: the first live startup goes ahead, and the probe is done. *)
Hoisted(t, p) ==
    [t EXCEPT !.pc = "admit", !.probe = Gone, !.caught = TRUE,
              !.batch = <<[pos |-> p, hoisted |-> TRUE]>>]

ReadAhead ==
    /\ At("read") /\ ~ onWire /\ tailer.probe # Gone
    /\ LET to == ReadTo(tailer.probe)
           found == {p \in tailer.probe + 1 .. to : outbox[p].startup}
       IN  tailer' = IF found # {}
                     THEN Hoisted(tailer, Min(found))
                     ELSE EndTurn([tailer EXCEPT !.probe = to, !.caught = (to = Len(outbox))])
    /\ Accessed
    /\ UNCHANGED <<outbox, watch, healthy, used, permit, lanes, onWire, consumer,
                   handled>>

(* The startup is queued and not yet on the wire: nothing to read. *)
ReadNothing ==
    /\ At("read") /\ ~ onWire /\ tailer.probe = Gone
    /\ tailer' = EndTurn([tailer EXCEPT !.caught = TRUE])
    /\ UNCHANGED <<outbox, events, watch, healthy, used, permit, lanes, onWire,
                   consumer, handled>>

ReadFails ==
    /\ At("read")
    /\ tailer' = [tailer EXCEPT !.pc = "dead"]
    /\ UNCHANGED <<outbox, events, watch, healthy, used, permit, lanes, onWire,
                   consumer, handled>>

(* Fault: a line as large as the whole budget does not fit. *)
Fits_Strictly(bytes) == used + bytes < MaxBytes

Fits(bytes) == used + bytes <= MaxBytes

(* QueuedOutgoing::admit: bytes are reserved, or the task waits for a       *)
(* release. A release that comes after the failed reservation and before   *)
(* the wait has left its permit.                                           *)
Admit ==
    /\ At("admit")
    /\ LET bytes == Bytes(Head(tailer.batch))
       IN  IF Fits(bytes) \/ bytes = 0
           THEN used' = used + bytes /\ tailer' = [tailer EXCEPT !.pc = "send"]
           ELSE UNCHANGED used /\ tailer' = [tailer EXCEPT !.pc = "await"]
    /\ UNCHANGED <<outbox, events, watch, healthy, permit, lanes, onWire, consumer,
                   handled>>

AwaitRelease ==
    /\ At("await") \/ At("parked")
    /\ IF permit
       THEN permit' = FALSE /\ tailer' = [tailer EXCEPT !.pc = "admit"]
       ELSE UNCHANGED permit /\ tailer' = [tailer EXCEPT !.pc = "parked"]
    /\ UNCHANGED <<outbox, events, watch, healthy, used, lanes, onWire, consumer,
                   handled>>

(* A full lane keeps the task waiting. *)
Send ==
    /\ At("send")
    /\ LET item == Head(tailer.batch)
           rest == [tailer EXCEPT !.batch = Tail(@)]
       IN  /\ IF item.hoisted
              THEN /\ lanes.startup = <<>>
                   /\ lanes' = [lanes EXCEPT !.startup = <<item>>]
              ELSE /\ Len(lanes.outbox) < MaxQueued
                   /\ lanes' = [lanes EXCEPT !.outbox = Append(@, item)]
           /\ tailer' = IF rest.batch = <<>>
                        THEN EndTurn(rest) ELSE [rest EXCEPT !.pc = "admit"]
    /\ UNCHANGED <<outbox, events, watch, healthy, used, permit, onWire, consumer,
                   handled>>

WakeByEvent ==
    /\ At("sleep") /\ watch > 0
    /\ watch' = watch - 1
    /\ tailer' = [tailer EXCEPT !.pc = "drain"]
    /\ UNCHANGED <<outbox, events, healthy, used, permit, lanes, onWire, consumer,
                   handled>>

(* WATCHED_FALLBACK_MS or POLL_FALLBACK_MS have passed. *)
WakeByTimer ==
    /\ At("sleep")
    /\ tailer' = [tailer EXCEPT !.pc = "drain"]
    /\ UNCHANGED <<outbox, events, watch, healthy, used, permit, lanes, onWire,
                   consumer, handled>>

----------------------------------------------------------------------------
(* The consumer *)

(* Fault: only a task that already waits is notified. *)
Notify_Waiters == permit' = (permit \/ tailer.pc = "parked")

Notify == permit' = TRUE

(* Lanes::next: what the item before held is free by now. *)
CallNext ==
    /\ consumer.pc = "next"
    /\ consumer' = [consumer EXCEPT !.pc = "recv"]
    /\ Notify
    /\ UNCHANGED <<outbox, events, watch, healthy, tailer, used, lanes, onWire,
                   handled>>

(* The lane the consumer listens to. *)
Listened == IF onWire THEN lanes.outbox ELSE lanes.startup

Receive ==
    /\ consumer.pc = "recv" /\ Listened # <<>>
    /\ consumer' = [pc |-> "busy", item |-> Head(Listened)]
    /\ lanes' = IF onWire THEN [lanes EXCEPT !.outbox = Tail(@)]
                          ELSE [lanes EXCEPT !.startup = Tail(@)]
    /\ UNCHANGED <<outbox, events, watch, healthy, tailer, used, permit, onWire,
                   handled>>

(* The startup is sent, the flag set, and only then the tailer told. *)
SendStartup ==
    /\ consumer.pc = "busy" /\ consumer.item.hoisted
    /\ onWire' = TRUE
    /\ consumer' = [consumer EXCEPT !.pc = "told"]
    /\ UNCHANGED <<outbox, events, watch, healthy, tailer, used, permit, lanes,
                   handled>>

TellTailer == TrySend

(* Fault: a startup keeps its bytes reserved. *)
Released_NotStartup(item) == IF item.hoisted THEN used ELSE used - Bytes(item)

(* Drop of QueuedOutgoing. *)
Released(item) == used - Bytes(item)

FinishStartup ==
    /\ consumer.pc = "told"
    /\ TellTailer
    /\ used' = Released(consumer.item)
    /\ consumer' = [pc |-> "next", item |-> NoItem]
    /\ UNCHANGED <<outbox, events, healthy, tailer, permit, lanes, onWire, handled>>

FinishLine ==
    /\ consumer.pc = "busy" /\ ~ consumer.item.hoisted
    /\ handled' = consumer.item.pos
    /\ used' = Released(consumer.item)
    /\ consumer' = [pc |-> "next", item |-> NoItem]
    /\ UNCHANGED <<outbox, events, watch, healthy, tailer, permit, lanes, onWire>>

(* The wait of one second is over, or a cursor write is tried again. *)
TimeOut ==
    /\ consumer.pc = "recv" /\ Listened = <<>> /\ tailer.pc # "dead"
    /\ consumer' = [consumer EXCEPT !.pc = "next"]
    /\ UNCHANGED <<outbox, events, watch, healthy, tailer, used, permit, lanes,
                   onWire, handled>>

RetryCursor ==
    /\ consumer.pc = "recv"
    /\ consumer' = [consumer EXCEPT !.pc = "next"]
    /\ UNCHANGED <<outbox, events, watch, healthy, tailer, used, permit, lanes,
                   onWire, handled>>

End ==
    /\ consumer' = [pc |-> "ended", item |-> NoItem]
    /\ UNCHANGED <<outbox, events, watch, healthy, tailer, used, permit, lanes,
                   onWire, handled>>

(* A dead tailer has closed the lanes: the session ends once they are empty. *)
LanesClosed == consumer.pc = "recv" /\ Listened = <<>> /\ tailer.pc = "dead" /\ End

(* A stop, a lost connection, a relaunch: the tailer is aborted with it. *)
EndSession == Alive /\ End

----------------------------------------------------------------------------
TailerWorks ==
    \/ Drain \/ ReadOrdered \/ ReadAhead \/ ReadNothing
    \/ Admit \/ AwaitRelease \/ Send \/ WakeByEvent

ConsumerWorks == CallNext \/ SendStartup \/ FinishStartup \/ FinishLine

Next ==
    \/ \E line \in Lines : AppendLine(line)
    \/ (\E kind \in events : WatcherDelivers(kind)) \/ WatcherDies
    \/ TailerWorks \/ ReadFails \/ WakeByTimer
    \/ ConsumerWorks \/ Receive \/ LanesClosed \/ TimeOut \/ RetryCursor \/ EndSession

(* The tasks are polled and the watcher runs. A cursor retry may turn the  *)
(* consumer away from its lane, but comes a second apart at least: what is *)
(* there again and again is received. No timer is owed.                    *)
Fairness ==
    /\ WF_vars(TailerWorks)
    /\ WF_vars(ConsumerWorks)
    /\ SF_vars(Receive \/ LanesClosed)
    /\ \A kind \in {"write", "read"} : WF_vars(WatcherDelivers(kind))

Spec == Init /\ [][Next]_vars /\ Fairness

----------------------------------------------------------------------------
Total(sizes) ==
    LET sum[n \in 0 .. Len(sizes)] == IF n = 0 THEN 0 ELSE sum[n - 1] + sizes[n]
    IN  sum[Len(sizes)]
Held(items) == Total([n \in DOMAIN items |-> Bytes(items[n])])

(* Bytes the tailer has reserved for an item that is in no lane yet. *)
Reserved == IF tailer.pc = "send" THEN Bytes(Head(tailer.batch)) ELSE 0

(* The budget is what the lines on their way hold, no more and no less: in *)
(* a lane, with the consumer, or reserved and not yet in a lane. It is     *)
(* never exceeded (queue.rs: reserve, Drop).                               *)
BudgetExact ==
    /\ TypeOK
    /\ Alive => used = Held(lanes.startup) + Held(lanes.outbox) + Bytes(consumer.item) + Reserved

(* The startup is in the hands of the tailer, to be sent ahead. *)
Hoisting == \E n \in DOMAIN tailer.batch : tailer.batch[n].hoisted

(* The lines read and not yet handled, from the consumer back to the reader. *)
Way ==
    (IF consumer.item.pos = 0 \/ consumer.item.hoisted THEN <<>> ELSE <<consumer.item>>)
        \o lanes.outbox
        \o (IF Hoisting THEN <<>> ELSE tailer.batch)

(* Between the consumer and the ordered reader lie exactly the lines read   *)
(* and not yet handled, in their order: the startup sent ahead takes none  *)
(* with it, and the switch from the probe to the ordered reader loses none *)
(* (tailer_task, forward_in_order).                                        *)
LinesInOrder ==
    Alive =>
        /\ Hoisting => Len(tailer.batch) = 1
        /\ Len(Way) = tailer.read - handled
        /\ \A n \in DOMAIN Way : Way[n] = [pos |-> handled + n, hoisted |-> FALSE]

(* Once the outbox has a live startup, every line in it is handled, unless *)
(* the session ends.                                                       *)
Handled == []<>(\/ ~ Alive
                \/ \A p \in DOMAIN outbox : ~ outbox[p].startup
                \/ handled = Len(outbox))

(* As long as the watcher works no timer is needed for it: neither the      *)
(* release of bytes nor an event nor the word that the startup is out is   *)
(* missed between a check and the wait that follows it.                    *)
PromptWhileWatched == []healthy => Handled

(* Without a watcher, or when it dies at the worst moment, the timers do. *)
Timers == WF_vars(WakeByTimer) /\ WF_vars(TimeOut)
HandledByTimers == Timers => Handled

(* A tailer does not keep itself awake: once the mod is silent, events stop *)
(* waking it (wakes_tailer).                                               *)
ComesToRest == <>[][~ WakeByEvent]_vars
============================================================================
