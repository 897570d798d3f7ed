----------------------------- MODULE InboxFile -----------------------------
(***************************************************************************)
(* The inbox as files. The relay appends a record, takes a failed append   *)
(* back, ends a torn one with a newline and renames a full inbox to .1     *)
(* (receive.rs); the mod reads on from its position, which it checks       *)
(* against the bytes before it, and finishes .1 before it begins the new   *)
(* inbox (bridge.lua, poll_inbox). When a play review lands in the outbox, *)
(* the mod notes how far the inbox reaches: an action below that mark does *)
(* not answer the review (mark_inbox_on_landing, validate.lua).            *)
(*                                                                         *)
(* A record is two cells, its text and its newline; a torn record is half  *)
(* of the text, or the text without the newline. Offsets count cells. The  *)
(* timestamp makes the text of every append its own, so a cell carries the *)
(* number of the append.                                                   *)
(***************************************************************************)
EXTENDS Integers, Sequences, SequencesExt

CONSTANTS
    NoFile,       \* no file, or no open handle
    Capacity,     \* MAX_INBOX_BYTES, in cells of the shortest records
    AnchorCells,  \* INBOX_ANCHOR_BYTES, in cells
    MaxAppends,   \* bound: appends tried; a launch stands for one
    MaxLaunches   \* bound: launches of the game after the first, and of reviews
                  \* before the last

ASSUME CapacityAssumption == Capacity \in Nat /\ Capacity >= 2
ASSUME AnchorAssumption == AnchorCells \in Nat \ {0}
ASSUME LimitsAssumption == MaxAppends \in Nat /\ MaxLaunches \in Nat

VARIABLES
    inbox,      \* the cells of the inbox, or NoFile
    rotated,    \* the cells of .1, or NoFile
    slot,       \* OpenInbox.len of the handle kept open, or NoFile
    writer,     \* how far an append has come
    carries,    \* history: the record that each append carries
    acked,      \* history: records whose append succeeded
    lines,      \* history: the appends that became lines, in order
    rotations,  \* history: renames done
    pos,        \* inbox_pos
    anchor,     \* _inbox_anchor
    poll,       \* how far a poll has come
    buffer,     \* what the poll has read and not consumed
    blocked,    \* a line waits in the fifo of the outbox
    serial,     \* inbox_serial: the cells consumed since the launch
    review,     \* the mark of the open review, and what it stands for
    handled,    \* the records given to the handler since the launch
    launches,   \* launches so far
    read,       \* history: the appends consumed since the launch
    first,      \* history: how many lines precede the launch
    next,       \* history: the file, by number of renames, that pos belongs to
    skipped     \* history: the mod began a file that is not the next

relaySide == <<inbox, rotated, slot, writer, carries, acked, lines, rotations>>
reviewing == <<serial, review>>
modSide == <<pos, anchor, poll, buffer, blocked, reviewing, handled, launches, read,
             first, next, skipped>>
vars == <<relaySide, modSide>>

Appends == 1 .. MaxAppends
Cell == Appends \X {"half", "text", "newline"}
Contents == Seq(Cell)

ASSUME NoFileAssumption == NoFile \notin Nat /\ NoFile \notin Contents

(* A review without a mark has not landed; unread is what the mod has      *)
(* counted so far. History: the appends on disk when it began to count, and *)
(* those that may have been when it was done.                              *)
NoMark == -1
Review == [mark : Nat \cup {NoMark}, unread : Int,
           before : SUBSET Appends, after : SUBSET Appends]
NotLanded == [mark |-> NoMark, unread |-> 0, before |-> {}, after |-> {}]

TypeOK ==
    /\ inbox \in Contents \cup {NoFile} /\ rotated \in Contents \cup {NoFile}
    /\ slot \in Nat \cup {NoFile}
    /\ writer \in {"idle", "failed", "opening", "open", "torn", "removing"}
    /\ carries \in Seq(Appends) /\ Len(carries) <= MaxAppends
    /\ acked \subseteq Appends /\ lines \in Seq(Appends)
    /\ rotations \in 0 .. MaxAppends
    /\ pos \in Nat /\ anchor \in Contents /\ Len(anchor) <= AnchorCells
    /\ poll \in {"idle", "current", "rotated", "draining", "start", "sized", "moved", "counted"}
    /\ buffer \in Contents /\ blocked \in BOOLEAN
    /\ serial \in Nat /\ review \in Review
    /\ handled \in Seq(Appends) /\ launches \in 0 .. MaxLaunches
    /\ read \in Seq(Appends) /\ first \in Nat /\ next \in Nat /\ skipped \in BOOLEAN

Text(a) == <<a, "text">>
Half(a) == <<a, "half">>
Newline(a) == <<a, "newline">>
EndsLine(cell) == cell[2] = "newline"

Init ==
    /\ inbox = NoFile /\ rotated = NoFile /\ slot = NoFile /\ writer = "idle"
    /\ carries = <<>> /\ acked = {} /\ lines = <<>> /\ rotations = 0
    /\ pos = 0 /\ anchor = <<>> /\ poll = "idle" /\ buffer = <<>> /\ blocked = FALSE
    /\ serial = 0 /\ review = NotLanded
    /\ handled = <<>> /\ launches = 0 /\ read = <<>> /\ first = 0 /\ next = 0
    /\ skipped = FALSE

----------------------------------------------------------------------------
(* append_record, append_retrying *)

This == Len(carries)
LastRecord == IF carries = <<>> THEN 0 ELSE Last(carries)

(* The next record, or the same again after a transient failure; the inbox *)
(* may be open from the record before.                                     *)
BeginAppend ==
    /\ writer \in {"idle", "failed"} /\ Len(carries) + launches < MaxAppends
    /\ \E r \in {LastRecord, LastRecord + 1} :
          /\ r = LastRecord => writer = "failed"
          /\ carries' = Append(carries, r)
    /\ writer' = IF slot = NoFile THEN "opening" ELSE "open"
    /\ UNCHANGED <<inbox, rotated, slot, acked, lines, rotations, modSide>>

(* reopen_inbox, at the begin of a session. *)
Reopen ==
    /\ writer \in {"idle", "failed"} /\ slot # NoFile
    /\ slot' = NoFile
    /\ UNCHANGED <<inbox, rotated, writer, carries, acked, lines, rotations, modSide>>

(* Fault: a torn record is left as it is. *)
Closed_Never(c) == c

(* A torn record is ended by a newline. *)
Closed(c) == IF c # <<>> /\ ~ EndsLine(Last(c)) THEN Append(c, Newline(Last(c)[1])) ELSE c

(* Fault: the newline that ends a torn record is not counted. *)
OpenedLength_Short(c) == Len(c)

(* OpenInbox.len, for an inbox that was found with the content c. *)
OpenedLength(c) == Len(Closed(c))

Open ==
    /\ writer = "opening"
    /\ LET c == IF inbox = NoFile THEN <<>> ELSE inbox
       IN  /\ inbox' = Closed(c)
           /\ lines' = IF Closed(c) = c THEN lines ELSE Append(lines, Last(c)[1])
           /\ slot' = OpenedLength(c)
    /\ writer' = "open"
    /\ UNCHANGED <<rotated, carries, acked, rotations, modSide>>

(* The inbox cannot be opened, synced, renamed or closed with a newline. *)
OpenFails ==
    /\ writer = "opening" \/ (writer = "open" /\ slot > 0)
    /\ writer' = "failed" /\ slot' = NoFile
    /\ UNCHANGED <<inbox, rotated, carries, acked, lines, rotations, modSide>>

(* Records are of any length: one may not fit behind others, and fits into *)
(* an inbox of its own. The directory sync after the rename may fail.      *)
Rotate ==
    /\ writer = "open" /\ slot > 0
    /\ rotated' = inbox /\ inbox' = NoFile /\ slot' = NoFile
    /\ rotations' = rotations + 1
    /\ writer' \in {"opening", "failed"}
    /\ UNCHANGED <<carries, acked, lines, modSide>>

WriteRecord ==
    /\ writer = "open" /\ slot + 2 <= Capacity
    /\ inbox' = inbox \o <<Text(This), Newline(This)>>
    /\ slot' = slot + 2 /\ lines' = Append(lines, This)
    /\ acked' = acked \cup {LastRecord}
    /\ writer' = "idle"
    /\ UNCHANGED <<rotated, carries, rotations, modSide>>

WriteFails ==
    /\ writer = "open" /\ slot + 2 <= Capacity
    /\ \E part \in {<<>>, <<Half(This)>>, <<Text(This)>>} : inbox' = inbox \o part
    /\ writer' = "torn"
    /\ UNCHANGED <<rotated, slot, carries, acked, lines, rotations, modSide>>

(* roll_back_append: the truncation, or its sync, may fail too. *)
RollBack ==
    /\ writer = "torn"
    /\ \/ /\ inbox' = SubSeq(inbox, 1, slot)
          /\ writer' = "failed" \/ (slot = 0 /\ writer' = "removing")
       \/ UNCHANGED inbox /\ writer' = "failed"
    /\ slot' = NoFile
    /\ UNCHANGED <<rotated, carries, acked, lines, rotations, modSide>>

RemoveEmpty ==
    /\ writer = "removing" /\ writer' = "failed"
    /\ inbox' \in {NoFile, inbox}
    /\ UNCHANGED <<rotated, slot, carries, acked, lines, rotations, modSide>>

CrashRelay ==
    /\ writer' = "idle" /\ slot' = NoFile
    /\ UNCHANGED <<inbox, rotated, carries, acked, lines, rotations, modSide>>

RelayNext ==
    \/ BeginAppend \/ Reopen \/ Open \/ OpenFails \/ Rotate
    \/ WriteRecord \/ WriteFails \/ RollBack \/ RemoveEmpty \/ CrashRelay

----------------------------------------------------------------------------
(* poll_inbox, _consume *)

(* Fault: the bytes before the position are not compared. *)
Continues_BySize(f) == f # NoFile /\ Len(f) >= pos

(* The file goes on where the mod has read to. *)
Continues(f) ==
    /\ f # NoFile /\ Len(f) >= pos
    /\ SubSeq(f, pos - Len(anchor) + 1, pos) = anchor

Rest(f) == SubSeq(f, pos + 1, Len(f))

PollCurrent ==
    /\ poll = "idle" /\ ~ blocked
    /\ \/ /\ pos = 0 /\ inbox # NoFile
          /\ buffer' = inbox /\ poll' = "current"
          /\ next' = rotations /\ skipped' = (skipped \/ rotations # next)
       \/ /\ pos > 0 /\ Continues(inbox)
          /\ buffer' = Rest(inbox) /\ poll' = "current"
          /\ UNCHANGED <<next, skipped>>
       \/ /\ pos > 0 /\ ~ Continues(inbox)
          /\ poll' = "rotated"
          /\ UNCHANGED <<buffer, next, skipped>>
    /\ UNCHANGED <<relaySide, pos, anchor, blocked, reviewing, handled, launches, read,
                   first>>

(* .1 continues it, or lines are lost ("ipc_inbox_rotation_lost"). *)
PollRotated ==
    /\ poll = "rotated"
    /\ \/ /\ Continues(rotated)
          /\ buffer' = Rest(rotated) /\ poll' = "draining"
          /\ UNCHANGED <<pos, anchor>>
       \/ /\ ~ Continues(rotated)
          /\ pos' = 0 /\ anchor' = <<>> /\ poll' = "start"
          /\ UNCHANGED buffer
    /\ UNCHANGED <<relaySide, blocked, reviewing, handled, launches, read, first, next,
                   skipped>>

PollStart ==
    /\ poll = "start"
    /\ IF inbox = NoFile
       THEN poll' = "idle" /\ UNCHANGED <<buffer, next, skipped>>
       ELSE /\ buffer' = inbox /\ poll' = "current"
            /\ next' = rotations /\ skipped' = (skipped \/ rotations # next)
    /\ UNCHANGED <<relaySide, pos, anchor, blocked, reviewing, handled, launches, read,
                   first>>

LineEnds == {n \in DOMAIN buffer : EndsLine(buffer[n])}
LineEnd == CHOOSE n \in LineEnds : \A m \in LineEnds : n <= m

LastCells(s) == SubSeq(s, (IF Len(s) > AnchorCells THEN Len(s) - AnchorCells ELSE 0) + 1, Len(s))

(* Fault: an id that was handled is handled again. *)
Opens_Always(r) == TRUE

(* TX.open: the same action is not handled twice. *)
Opens(r) == ~ \E n \in DOMAIN handled : handled[n] = r

(* A line; the handler may leave a line of its own in the fifo. *)
ConsumeLine ==
    /\ poll \in {"current", "draining"} /\ ~ blocked /\ LineEnds # {}
    /\ LET line == SubSeq(buffer, 1, LineEnd - 1)
           a == buffer[LineEnd][1]
       IN  /\ handled' = IF line = <<Text(a)>> /\ Opens(carries[a])
                         THEN Append(handled, carries[a]) ELSE handled
           /\ read' = Append(read, a)
           /\ pos' = pos + LineEnd /\ serial' = serial + LineEnd
           /\ anchor' = LastCells(anchor \o SubSeq(buffer, 1, LineEnd))
           /\ buffer' = SubSeq(buffer, LineEnd + 1, Len(buffer))
    /\ blocked' \in BOOLEAN
    /\ UNCHANGED <<relaySide, poll, review, launches, first, next, skipped>>

(* While a line waits in the fifo nothing more is consumed. *)
StopPoll ==
    /\ poll \in {"current", "draining"} /\ blocked
    /\ poll' = "idle" /\ buffer' = <<>>
    /\ UNCHANGED <<relaySide, pos, anchor, blocked, reviewing, handled, launches, read,
                   first, next, skipped>>

EndPoll ==
    /\ poll \in {"current", "draining"} /\ ~ blocked /\ LineEnds = {}
    /\ buffer' = <<>>
    /\ IF poll = "draining"
       THEN pos' = 0 /\ anchor' = <<>> /\ poll' = "start" /\ next' = next + 1
       ELSE poll' = "idle" /\ UNCHANGED <<pos, anchor, next>>
    /\ UNCHANGED <<relaySide, blocked, reviewing, handled, launches, read, first, skipped>>

(* flush_outbox *)
Unblock ==
    /\ blocked /\ poll = "idle" /\ blocked' = FALSE
    /\ UNCHANGED <<relaySide, pos, anchor, poll, buffer, reviewing, handled, launches,
                   read, first, next, skipped>>

----------------------------------------------------------------------------
(* mark_inbox_on_landing, _inbox_present *)

Size(f) == IF f = NoFile THEN 0 ELSE Len(f)
OnDisk == ToSet(lines) \cup (IF inbox = NoFile THEN {} ELSE {cell[1] : cell \in ToSet(inbox)})

(* A torn record at the end may be counted and then taken back. *)
Blurred == IF inbox \in {NoFile, <<>>} \/ EndsLine(Last(inbox)) THEN {} ELSE Appends

Counting == <<relaySide, pos, anchor, buffer, blocked, serial, handled, launches, read,
              first, next, skipped>>

(* The line that asks for the answer is in the outbox. What may wait behind *)
(* it in the fifo only keeps the mod from polling.                         *)
LandReview ==
    /\ poll = "idle" /\ ~ blocked /\ review = NotLanded /\ launches < MaxLaunches
    /\ review' = [review EXCEPT !.unread = Size(inbox) - pos, !.before = OnDisk,
                               !.after = Blurred]
    /\ poll' = "sized"
    /\ UNCHANGED Counting

SetMark(unread) ==
    /\ review' = [review EXCEPT !.mark = serial + (IF unread > 0 THEN unread ELSE 0),
                               !.unread = 0,
                               !.after = @ \cup OnDisk \cup Blurred]
    /\ poll' = "idle"

(* The size is of the file the mod reads, or of one after it. *)
CompareHead ==
    /\ poll = "sized"
    /\ IF pos = 0 \/ Continues(inbox)
       THEN SetMark(review.unread)
       ELSE poll' = "moved" /\ UNCHANGED review
    /\ UNCHANGED Counting

(* Fault: what is left of .1 is not counted. *)
RotatedRest_None == 0

RotatedRest == IF Size(rotated) > pos THEN Size(rotated) - pos ELSE 0

CountRotated ==
    /\ poll = "moved" /\ poll' = "counted"
    /\ review' = [review EXCEPT !.unread = RotatedRest]
    /\ UNCHANGED Counting

CountInbox ==
    /\ poll = "counted"
    /\ SetMark(review.unread + Size(inbox))
    /\ UNCHANGED Counting

(* parameters: the line at serial may answer the review.                   *)
Answers == review.mark # NoMark /\ serial >= review.mark

(* A new instance of the mod: _skip_stale_inbox. *)
Launch ==
    /\ launches < MaxLaunches /\ launches' = launches + 1
    /\ LET c == IF inbox = NoFile THEN <<>> ELSE inbox
           ends == {n \in DOMAIN c : EndsLine(c[n])}
           stop == CHOOSE n \in ends \cup {0} : \A m \in ends : m <= n
       IN  pos' = stop /\ anchor' = LastCells(SubSeq(c, 1, stop))
    /\ poll' = "idle" /\ buffer' = <<>> /\ blocked' = FALSE
    /\ serial' = 0 /\ review' = NotLanded
    /\ handled' = <<>> /\ read' = <<>> /\ first' = Len(lines)
    /\ next' = rotations /\ skipped' = FALSE
    /\ UNCHANGED relaySide

PollStep ==
    \/ PollCurrent \/ PollRotated \/ PollStart \/ ConsumeLine \/ StopPoll \/ EndPoll
    \/ Unblock
    \/ CompareHead \/ CountRotated \/ CountInbox

Next == RelayNext \/ PollStep \/ LandReview \/ Launch

Spec == Init /\ [][Next]_vars

(* The game runs its frames, and the disk takes what waits in the fifo. *)
FairSpec == Spec /\ WF_vars(PollStep)

----------------------------------------------------------------------------
(* The relay is a file ahead of a mod that has read nothing of the one it  *)
(* is at, or has been.                                                     *)
Overtaken == skipped \/ (pos = 0 /\ rotations > next)

(* "a growing file is read once, line by line" (test_inbox_rotation.lua):  *)
(* whatever the relay takes back, ends or renames, no line is read again   *)
(* after a later one or twice, and none is left out as long as the mod     *)
(* does not begin a file that is not the next.                             *)
ReadsInOrder ==
    /\ \A j, k \in DOMAIN read : j < k => read[j] < read[k]
    /\ ~ skipped => read = SubSeq(lines, first + 1, first + Len(read))

(* A file the mod has begun to read is given up only after two renames:    *)
(* one rename loses nothing of it.                                         *)
LostByTwoRotations ==
    [][PollRotated /\ pos' = 0 => rotations >= next + 2]_vars

(* An action that counts as the answer to a review was appended after the  *)
(* review landed, over a rename of the inbox in between, records torn and  *)
(* taken back and relay steps between the looks of the mod; and one that    *)
(* came after it counts, unless lines of the inbox were lost to the mod or *)
(* a torn record stood in it (parameters, _inbox_present).                 *)
AnswersFollowReview ==
    [][\A a \in Appends : read' = Append(read, a) /\ review.mark # NoMark =>
           /\ Answers => a \notin review.before
           /\ a \notin review.after /\ ~ Overtaken => Answers]_vars

(* An append that is tried again may become two lines; the handler sees    *)
(* the record once.                                                        *)
HandledOnce ==
    TypeOK /\ \A j, k \in DOMAIN handled : j # k => handled[j] # handled[k]

(* A record whose append succeeded reaches the handler, unless the game is *)
(* launched anew or overtaken.                                             *)
AppendedBefore(r) == \E n \in 1 .. first : carries[lines[n]] = r
RecordsHandled ==
    \A r \in Appends :
        r \in acked ~> \/ Overtaken \/ AppendedBefore(r)
                       \/ \E n \in DOMAIN handled : handled[n] = r
=============================================================================
