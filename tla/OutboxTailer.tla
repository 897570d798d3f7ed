---------------------------- MODULE OutboxTailer ----------------------------
(***************************************************************************)
(* The outbox as files. The mod appends to the outbox and renames it to .1 *)
(* when it is full (bridge.lua, _append); the relay follows both files     *)
(* (tailer.rs), queues what it reads, consumes the queue (fence_record,    *)
(* superseded) and keeps a durable cursor (cursor.rs).                     *)
(*                                                                         *)
(* A line is its serial number. A file is known by its inode, which the    *)
(* file system may give again once the file is gone. An offset is a number *)
(* of lines; a torn line is one whose newline is not written yet.          *)
(***************************************************************************)
EXTENDS Integers, Sequences, FiniteSets

CONSTANTS
    Inodes,        \* file ids
    Gone,          \* no file, or no file id
    FileCap,       \* MAX_OUTBOX_FILE_BYTES, in lines
    MaxLines,      \* bound: lines the mod begins
    MaxRotations,  \* bound: renames of the outbox
    MaxRewinds     \* bound: rewinds of the tailer in a session

ASSUME CapAssumption == FileCap \in Nat \ {0}
ASSUME LimitsAssumption == MaxLines \in Nat /\ MaxRotations \in Nat /\ MaxRewinds \in Nat

VARIABLES
    current,    \* the outbox file, or Gone
    rotated,    \* the file .1, or Gone
    rotating,   \* how far _append has come: "no", "removing", "renaming", "renamed"
    written,    \* lines begun
    rotations,  \* history: renames done
    lagged,     \* history: a file was filled in a session whose cursor had
                \* already lost its own
    cursor,     \* the durable cursor file, or Gone
    phase,      \* the session: "off", "probing" for a startup, "reading" after it
    probe,      \* the reader that looks ahead for the startup
    tailer,     \* the reader in order
    queue,      \* lines read and not yet consumed
    generation, \* the generation the consumer accepts
    tail,       \* ConsumerState.tail
    hoisted,    \* the startup sent ahead, until the ordered read meets it, or Gone
    startup     \* history: the line of the startup of this session, 0 if none
                \* or if the session has passed over a line

modSide == <<current, rotated, rotating, written, rotations, lagged>>
relaySide == <<cursor, phase, probe, tailer, queue, generation, tail, hoisted, startup>>
vars == <<modSide, relaySide>>

Lines == 1 .. MaxLines
Offsets == 0 .. MaxLines

(* begun and before are history: how many renames and which line came      *)
(* before the file.                                                        *)
File == [id : Inodes, lines : Seq(Lines), torn : Offsets,
         begun : 0 .. MaxRotations, before : Offsets]

(* Resume, with the line before it as history. *)
Place == [pos : Offsets, id : Inodes \cup {Gone}, last : Offsets]

(* The cursor file; print is the fingerprint of the bytes up to len.       *)
Cursor == [at : Place, len : Offsets, print : Seq(Lines), begun : 0 .. MaxRotations]

Reader == [pos : Offsets, id : Inodes \cup {Gone}, generation : 0 .. MaxRewinds]
Mark == [line : Lines, id : Inodes, pos : Offsets, generation : 0 .. MaxRewinds]

ASSUME GoneAssumption == Gone \notin Inodes \cup File \cup Cursor \cup Mark

TypeOK ==
    /\ current \in File \cup {Gone} /\ rotated \in File \cup {Gone}
    /\ rotating \in {"no", "removing", "renaming", "renamed"}
    /\ written \in Offsets /\ rotations \in 0 .. MaxRotations
    /\ lagged \in BOOLEAN
    /\ cursor \in Cursor \cup {Gone}
    /\ phase \in {"off", "probing", "reading"}
    /\ probe \in Reader /\ tailer \in Reader
    /\ queue \in Seq(Mark)
    /\ generation \in 0 .. MaxRewinds
    /\ tail \in Place
    /\ hoisted \in Mark \cup {Gone} /\ startup \in Offsets

Files == {current, rotated} \ {Gone}

(* What is on disk of a file, its torn line included. *)
Content(f) == IF f.torn = 0 THEN f.lines ELSE Append(f.lines, f.torn)
Size(f) == Len(Content(f))

LineBefore(f, pos) == IF pos \in DOMAIN f.lines THEN f.lines[pos] ELSE f.before
Complete == IF current # Gone /\ current.torn # 0 THEN written - 1 ELSE written

(* The file the cursor points into is there. *)
Kept == cursor # Gone /\ \E f \in Files : f.begun = cursor.begun

Init ==
    /\ current = Gone /\ rotated = Gone /\ rotating = "no"
    /\ written = 0 /\ rotations = 0 /\ lagged = FALSE
    /\ cursor = Gone /\ phase = "off"
    /\ probe = [pos |-> 0, id |-> Gone, generation |-> 0] /\ tailer = probe
    /\ queue = <<>> /\ generation = 0
    /\ tail = [pos |-> 0, id |-> Gone, last |-> 0]
    /\ hoisted = Gone /\ startup = 0

----------------------------------------------------------------------------
(* The mod: _append *)

(* relay_draining_rotated: the cursor is valid in .1 and not at its end.   *)
Draining ==
    /\ cursor # Gone /\ rotated # Gone
    /\ cursor.at.pos < Size(rotated) /\ cursor.len <= Size(rotated)
    /\ SubSeq(Content(rotated), 1, cursor.len) = cursor.print

(* Fault: a torn line does not keep the outbox from being renamed. *)
RotationDue_Torn ==
    /\ current # Gone /\ Size(current) >= FileCap /\ ~ Draining

RotationDue ==
    /\ current # Gone /\ current.torn = 0 /\ Size(current) >= FileCap
    /\ ~ Draining

BeginRotation ==
    /\ rotating = "no" /\ RotationDue
    /\ written < MaxLines /\ rotations < MaxRotations
    /\ rotating' = "removing"
    /\ lagged' = (lagged \/ (phase # "off" /\ rotated # Gone /\ ~ Kept))
    /\ UNCHANGED <<current, rotated, written, rotations, relaySide>>

RemoveRotated ==
    /\ rotating = "removing"
    /\ rotating' = "renaming" /\ rotated' = Gone
    /\ UNCHANGED <<current, written, rotations, lagged, relaySide>>

(* A rename that fails leaves the full file to be appended to. *)
Rename ==
    /\ rotating = "renaming"
    /\ rotating' = "renamed"
    /\ \/ rotated' = current /\ current' = Gone /\ rotations' = rotations + 1
       \/ UNCHANGED <<current, rotated, rotations>>
    /\ UNCHANGED <<written, lagged, relaySide>>

NewFile(id) == [id |-> id, lines |-> <<>>, torn |-> 0, begun |-> rotations,
                before |-> written]

(* The line lands whole or torn. *)
AppendLine ==
    /\ written < MaxLines
    /\ rotating = "renamed" \/ (rotating = "no" /\ ~ RotationDue)
    /\ current # Gone => current.torn = 0
    /\ \E id \in Inodes \ {f.id : f \in Files} :
          LET f == IF current = Gone THEN NewFile(id) ELSE current
          IN  \/ current' = [f EXCEPT !.lines = Append(@, written + 1)]
              \/ current' = [f EXCEPT !.torn = written + 1]
    /\ written' = written + 1 /\ rotating' = "no"
    /\ UNCHANGED <<rotated, rotations, lagged, relaySide>>

(* The rest of the line, or the newline with which the next instance of    *)
(* the mod ends a line it finds torn (Bridge:new).                         *)
CompleteLine ==
    /\ current # Gone /\ current.torn # 0
    /\ current' = [current EXCEPT !.lines = Append(@, current.torn), !.torn = 0]
    /\ UNCHANGED <<rotated, rotating, written, rotations, lagged, relaySide>>

KillMod ==
    /\ rotating # "no" /\ rotating' = "no"
    /\ UNCHANGED <<current, rotated, written, rotations, lagged, relaySide>>

ModNext ==
    BeginRotation \/ RemoveRotated \/ Rename \/ AppendLine \/ CompleteLine \/ KillMod

----------------------------------------------------------------------------
(* The cursor file *)

(* Fault: a cursor is known by the file id alone. *)
Fences_IdOnly(c, f) == c.at.id = f.id /\ c.len <= Size(f)

(* Cursor::fence, for a loaded cursor. *)
Fences(c, f) ==
    /\ c.at.id = f.id /\ c.len <= Size(f)
    /\ SubSeq(Content(f), 1, c.len) = c.print

(* persist_cursor: possible only while the file is there; the fingerprint  *)
(* is of what the file holds now.                                          *)
SaveCursor(place) ==
    \E f \in Files :
        /\ f.id = place.id /\ place.pos <= Size(f)
        /\ cursor' = [at |-> place, len |-> Size(f), print |-> Content(f),
                      begun |-> f.begun]

MaySave(place) == SaveCursor(place) \/ UNCHANGED cursor

----------------------------------------------------------------------------
(* Tailer::read_blocking: what a read at t may return *)

(* split: complete lines only. *)
Batches(f, from, g) ==
    {[to |-> [pos |-> n, id |-> f.id, generation |-> g],
      marks |-> [k \in 1 .. n - from |->
                   [line |-> f.lines[from + k], id |-> f.id, pos |-> from + k,
                    generation |-> g]]] : n \in from .. Len(f.lines)}

Ours(t) == current # Gone /\ Size(current) >= t.pos /\ t.id \in {Gone, current.id}
OwnRotated(t) == rotated # Gone /\ t.id = rotated.id /\ Size(rotated) >= t.pos

(* The own file, .1 to its end first; then the new outbox from its start.  *)
(* A file that is neither is read from its start in a new generation.      *)
Reads(t) ==
    LET drain == ~ Ours(t) /\ OwnRotated(t)
    IN  IF drain /\ t.pos < Len(rotated.lines)
        THEN Batches(rotated, t.pos, t.generation)
        ELSE IF current = Gone
        THEN IF drain THEN {[to |-> [t EXCEPT !.pos = 0, !.id = Gone], marks |-> <<>>]} ELSE {}
        ELSE IF Ours(t) THEN Batches(current, t.pos, t.generation)
        ELSE IF drain THEN Batches(current, 0, t.generation)
        ELSE IF t.generation < MaxRewinds THEN Batches(current, 0, t.generation + 1)
        ELSE {}

----------------------------------------------------------------------------
(* The session *)

Begin(place) ==
    /\ phase = "off" /\ phase' = "probing"
    /\ tail' = place
    /\ tailer' = [pos |-> place.pos, id |-> place.id, generation |-> 0]
    /\ probe' = tailer'
    /\ queue' = <<>> /\ generation' = 0 /\ hoisted' = Gone /\ startup' = 0

(* load_cursor *)
ResumeSession ==
    /\ cursor # Gone
    /\ \E f \in Files :
          /\ Fences(cursor, f)
          /\ Begin([cursor.at EXCEPT !.last = LineBefore(f, cursor.at.pos)])
    /\ UNCHANGED <<modSide, cursor>>

BootstrapPlace ==
    IF current = Gone THEN [pos |-> 0, id |-> Gone, last |-> Complete]
    ELSE [pos |-> Len(current.lines), id |-> current.id, last |-> Complete]

BootstrapSession ==
    /\ \A f \in Files : cursor # Gone => ~ Fences(cursor, f)
    /\ Begin(BootstrapPlace)
    /\ MaySave(BootstrapPlace)
    /\ UNCHANGED modSide

(* hoist_startup: the startup is one of the lines read ahead, or none is;  *)
(* once it is sent the ordered read may begin.                             *)
ReadAhead ==
    /\ phase = "probing"
    /\ \E r \in Reads(probe) :
          /\ probe' = r.to
          /\ \/ \E k \in DOMAIN r.marks :
                   /\ hoisted' = [r.marks[k] EXCEPT !.generation = tailer.generation]
                   /\ startup' = r.marks[k].line /\ phase' = "reading"
             \/ UNCHANGED <<hoisted, startup, phase>>
    /\ UNCHANGED <<modSide, cursor, tailer, queue, generation, tail>>

(* forward_in_order *)
ReadInOrder ==
    /\ phase = "reading"
    /\ \E r \in Reads(tailer) :
          /\ tailer' = r.to
          /\ queue' = queue \o r.marks
          /\ generation' = r.to.generation
    /\ UNCHANGED <<modSide, cursor, phase, probe, tail, hoisted, startup>>

Detached(m) ==
    \/ m.generation # generation
    \/ ~ \E f \in Files : f.id = m.id /\ Size(f) >= m.pos

Discard ==
    /\ phase = "reading" /\ queue # <<>> /\ Detached(Head(queue))
    /\ queue' = Tail(queue)
    /\ UNCHANGED <<modSide, cursor, phase, probe, tailer, generation, tail, hoisted, startup>>

(* Fault: a line of the file before is taken for one after the startup. *)
Superseded_SameFile(m) == hoisted # Gone /\ m.id = hoisted.id /\ m.pos <= hoisted.pos

(* superseded, for a line of a kind that a startup clears. *)
Superseded(m) == hoisted # Gone /\ (m.id = hoisted.id => m.pos <= hoisted.pos)

(* A line is forwarded or passed over; either way the tail moves past it.  *)
Take ==
    /\ phase = "reading" /\ queue # <<>> /\ ~ Detached(Head(queue))
    /\ LET m == Head(queue)
       IN  /\ tail' = [pos |-> m.pos, id |-> m.id, last |-> m.line]
           /\ hoisted' = IF hoisted # Gone /\ m.id = hoisted.id /\ m.pos >= hoisted.pos
                         THEN Gone ELSE hoisted
           /\ startup' = IF m.line = tail.last + 1 THEN startup ELSE 0
    /\ MaySave(tail')
    /\ queue' = Tail(queue)
    /\ UNCHANGED <<modSide, phase, probe, tailer, generation>>

(* The checkpointer writes only a tail that is not yet durable. *)
Unsaved ==
    cursor # Gone => [pos |-> cursor.at.pos, id |-> cursor.at.id]
                       # [pos |-> tail.pos, id |-> tail.id]

RetrySave ==
    /\ phase # "off" /\ Unsaved /\ SaveCursor(tail)
    /\ UNCHANGED <<modSide, phase, probe, tailer, queue, generation, tail, hoisted, startup>>

(* finish, or a crash. *)
EndSession ==
    /\ phase # "off" /\ phase' = "off"
    /\ (Unsaved /\ SaveCursor(tail)) \/ UNCHANGED cursor
    /\ queue' = <<>>
    /\ UNCHANGED <<modSide, probe, tailer, generation, tail, hoisted, startup>>

RelayNext ==
    \/ ResumeSession \/ BootstrapSession \/ ReadAhead \/ ReadInOrder
    \/ Discard \/ Take \/ RetrySave \/ EndSession

Next == ModNext \/ RelayNext

Spec == Init /\ [][Next]_vars

----------------------------------------------------------------------------
(* Over the two files and the cursor the relay reads one log: in order, no *)
(* line twice in a session, and none passed over while the file of the     *)
(* cursor is there, whatever is renamed, removed or killed in between; as  *)
(* long as the cursor of a session is not a whole file behind.             *)
Log == INSTANCE OutboxLog WITH
    complete <- Complete, read <- tail.last,
    saved <- (IF cursor = Gone THEN -1 ELSE cursor.at.last),
    kept <- Kept, open <- (phase # "off")
ImplementsLog == Log!LogInit /\ [][lagged' \/ Log!LogNext]_(Log!logVars)

(* A .1 never ends inside a line: a line the disk has taken half of keeps  *)
(* the outbox from being renamed until it is complete.                     *)
RotatedWhole == TypeOK /\ (rotated # Gone => rotated.torn = 0)

(* Of the lines a startup clears, those before the startup that was sent   *)
(* ahead are held back and those after it are not, also when a rename came *)
(* between them, as long as the session passes over no line (superseded).  *)
ClearsUpToStartup ==
    [][Take /\ startup' > 0 => (Superseded(Head(queue)) <=> Head(queue).line <= startup)]_vars

(* "unsafe rotation fails closed rather than truncating records" (README): *)
(* a rotation that begins goes on to remove the .1, so it may begin only   *)
(* when the durable cursor has passed the lines in it                      *)
(* (relay_draining_rotated).                                               *)
NothingUnreadRemoved ==
    [][BeginRotation /\ rotated # Gone /\ cursor # Gone =>
       LineBefore(rotated, Len(rotated.lines)) <= cursor.at.last]_vars
=============================================================================
