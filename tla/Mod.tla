-------------------------------- MODULE Mod --------------------------------
(***************************************************************************)
(* The Lua side of the two files: bridge.lua (the outbox fifo, the inbox   *)
(* position, the owed results) and bridge_init.lua (launch, reconnect,     *)
(* quit). One game thread runs it, so a handler is one step; the disk may  *)
(* take any number of the lines a handler offers, and the game may be      *)
(* killed between two steps.                                               *)
(*                                                                         *)
(* Lines are whole here: the module OutboxTailer has torn lines and        *)
(* rotation.                                                               *)
(***************************************************************************)
EXTENDS Ipc, FiniteSets, SequencesExt

CONSTANTS
    ModGame,      \* the game name of the mod
    MaxLaunches   \* bound: launches of the game

ASSUME ModAssumption == ModGame \in Games /\ MaxLaunches \in Nat

VARIABLES
    up,         \* the game is running
    launches,   \* how often it was launched
    fifo,       \* lines not yet in the outbox: a sequence of sequences of records
    inboxPos,   \* records of the inbox consumed
    answers,    \* transport_session: the session the mod answers, 0 if it knows none
    complete,   \* _bridge_init_complete: the catalogue of this startup is registered
    owed,       \* TX: ids received and not answered, with the session they came by
    answered    \* TX: ids answered

modVars == <<up, launches, fifo, inboxPos, answers, complete, owed, answered>>

Owed == [id : ActionIds, session : Sessions]

ModTypeOK ==
    /\ up \in BOOLEAN
    /\ launches \in 0 .. MaxLaunches
    /\ \A n \in DOMAIN fifo : fifo[n] \in Seq(Record)
    /\ inboxPos \in 0 .. Len(inbox)
    /\ answers \in Sessions
    /\ complete \in BOOLEAN
    /\ owed \subseteq Owed
    /\ answered \subseteq ActionIds

OwedIds == {o.id : o \in owed}

(* enqueue and flush_outbox: the lines join the fifo, of which the disk     *)
(* takes some.                                                              *)
Enqueue(items) ==
    LET all == fifo \o items
    IN  /\ Len(outbox) + Len(FlattenSeq(all)) <= MaxOutbox
        /\ \E n \in 0 .. Len(all) :
              /\ outbox' = outbox \o FlattenSeq(SubSeq(all, 1, n))
              /\ fifo' = SubSeq(all, n + 1, Len(all))

(* Fault: the tag names the session before the one answered. *)
StartupLine_Earlier(s) ==
    IF s = 0 THEN <<Startup(ModGame)>> ELSE <<Tag(ModGame, s - 1), Startup(ModGame)>>

(* A startup that answers a session goes out as one line pair with its tag. *)
StartupLine(s) ==
    IF s = 0 THEN <<Startup(ModGame)>> ELSE <<Tag(ModGame, s), Startup(ModGame)>>

Register == <<Catalogue("register", ModGame, NoId)>>
Unregister == <<Catalogue("unregister", ModGame, NoId)>>
ResultLine(o) == <<[Result(ModGame, o.id) EXCEPT !.session = o.session]>>

(* register_catalogue, which the game may not be ready for. *)
CatalogueLine(ready) == IF ready THEN <<Register>> ELSE <<>>

ModInit ==
    /\ up = FALSE /\ launches = 0 /\ fifo = <<>> /\ inboxPos = 0 /\ answers = 0
    /\ complete = FALSE /\ owed = {} /\ answered = {}

(* _skip_stale_inbox: the last session the inbox asks to answer. *)
LastAsked ==
    LET asked == {inbox[n].session : n \in {m \in DOMAIN inbox : inbox[m].kind = "reregister"}}
    IN  IF asked = {} THEN 0 ELSE CHOOSE s \in asked : \A t \in asked : t <= s

(* Fault: a launch reads the inbox from its start. *)
SkipTo_Start == 0

(* _skip_stale_inbox: nothing that precedes a launch is for it. *)
SkipTo == Len(inbox)

(* Bridge:new and send_startup of a launch, then the catalogue.            *)
Launch ==
    /\ ~ up /\ launches < MaxLaunches
    /\ up' = TRUE /\ launches' = launches + 1
    /\ inboxPos' = SkipTo
    /\ answers' = LastAsked
    /\ \E ready \in BOOLEAN :
          /\ Enqueue(<<StartupLine(answers')>> \o CatalogueLine(ready))
          /\ complete' = ready
    /\ owed' = {} /\ answered' = {}
    /\ UNCHANGED inbox

(* update: the fifo is tried again every frame. *)
Flush ==
    /\ up /\ fifo # <<>>
    /\ Enqueue(<<>>) /\ fifo' # fifo
    /\ UNCHANGED <<inbox, up, launches, inboxPos, answers, complete, owed, answered>>

(* poll_inbox reads nothing while a line waits in the fifo. *)
Polling(kind) ==
    /\ up /\ fifo = <<>> /\ inboxPos < Len(inbox)
    /\ inbox[inboxPos + 1].kind = kind
    /\ inboxPos' = inboxPos + 1

(* handle_transport_reconnect: a session not answered yet is answered by a *)
(* startup and the catalogue, and what was owed to the one before is       *)
(* dropped; a session already answered only gets what is still missing.    *)
Reconnect ==
    /\ Polling("reregister")
    /\ \E ready \in BOOLEAN :
          LET s == inbox[inboxPos'].session
              again == s = answers
          IN  /\ answers' = s
              /\ complete' = (ready \/ (again /\ complete))
              /\ IF again
                 THEN /\ Enqueue(CatalogueLine(ready /\ ~ complete))
                      /\ UNCHANGED <<owed, answered>>
                 ELSE /\ Enqueue(<<StartupLine(s)>> \o CatalogueLine(ready))
                      /\ owed' = {} /\ answered' = {}
    /\ UNCHANGED <<inbox, up, launches>>

(* retry_pending_reconnect and the setup of every frame. *)
RetryCatalogue ==
    /\ up /\ ~ complete
    /\ Enqueue(<<Register>>)
    /\ complete' = TRUE
    /\ UNCHANGED <<inbox, up, launches, inboxPos, answers, owed, answered>>

(* TX.open: an id is opened once in a transport session. *)
Opens(o) == o.id \notin OwedIds /\ o.id \notin answered

TakeAction ==
    /\ Polling("action")
    /\ LET o == [id |-> inbox[inboxPos'].id, session |-> inbox[inboxPos'].session]
       IN  owed' = IF Opens(o) THEN owed \cup {o} ELSE owed
    /\ UNCHANGED <<outbox, inbox, up, launches, fifo, answers, complete, answered>>

(* send_action_result, of an execution or of its deadline. *)
Answer(o) ==
    /\ up /\ o \in owed
    /\ Enqueue(<<ResultLine(o)>>)
    /\ owed' = owed \ {o}
    /\ answered' = answered \cup {o.id}
    /\ UNCHANGED <<inbox, up, launches, inboxPos, answers, complete>>

(* love.quit: what is owed is answered, the catalogue withdrawn, and what  *)
(* the disk does not take is lost.                                         *)
Quit ==
    /\ up /\ up' = FALSE
    /\ \E order \in SetToSeqs(owed) :
          LET last == [n \in DOMAIN order |-> ResultLine(order[n])]
                        \o (IF complete THEN <<Unregister>> ELSE <<>>)
              all == fifo \o last
          IN  /\ Len(outbox) + Len(FlattenSeq(all)) <= MaxOutbox
              /\ \E n \in 0 .. Len(all) : outbox' = outbox \o FlattenSeq(SubSeq(all, 1, n))
    /\ fifo' = <<>> /\ owed' = {} /\ complete' = FALSE
    /\ UNCHANGED <<inbox, launches, inboxPos, answers, answered>>

KillGame ==
    /\ up /\ up' = FALSE
    /\ fifo' = <<>> /\ owed' = {} /\ complete' = FALSE
    /\ UNCHANGED <<outbox, inbox, launches, inboxPos, answers, answered>>

ModNext ==
    \/ Launch \/ Flush \/ Reconnect \/ RetryCatalogue \/ TakeAction
    \/ (\E o \in owed : Answer(o)) \/ Quit \/ KillGame
============================================================================
