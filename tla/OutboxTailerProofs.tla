------------------------ MODULE OutboxTailerProofs ------------------------
(***************************************************************************)
(* Proofs about OutboxTailer, for any file ids, size of the files and      *)
(* number of lines, renames and rewinds: a .1 never ends inside a line;    *)
(* over the two files and the cursor the relay reads one log; and the      *)
(* startup that is sent ahead clears what is before it and nothing else.   *)
(***************************************************************************)
EXTENDS OutboxTailer, NumberFacts, SequenceTheorems

(* The lines of a file follow the line before it.                          *)
EndOf(f) == f.before + Len(f.lines)
Shaped(f) ==
    /\ \A k \in 1 .. Len(f.lines) : f.lines[k] = f.before + k
    /\ f.torn # 0 => f.torn = EndOf(f) + 1
    /\ f.torn = 0 => Len(f.lines) > 0

(* The line before the first of the outbox, or of the one to come.         *)
NextBefore == IF current = Gone THEN written ELSE current.before

(* The two files are the end of the log.                                   *)
FilesInv ==
    /\ current # Gone =>
          /\ Shaped(current) /\ current.begun = rotations
          /\ current.before + Size(current) = written
    /\ rotated # Gone =>
          /\ Shaped(rotated) /\ rotated.torn = 0 /\ rotated.begun = rotations - 1
          /\ EndOf(rotated) = NextBefore
    /\ current # Gone /\ rotated # Gone => current.id # rotated.id
    /\ rotating \in {"removing", "renaming"} =>
          current # Gone /\ current.torn = 0 /\ rotations < MaxRotations
    /\ rotating = "renaming" => rotated = Gone
    /\ current = Gone /\ rotated = Gone => rotations = 0

(* The cursor is of one file, whose first line its fingerprint holds.      *)
CursorInv ==
    cursor # Gone =>
        /\ cursor.len >= 1 /\ Len(cursor.print) = cursor.len /\ cursor.print[1] <= written
        /\ cursor.begun <= rotations /\ (current = Gone => cursor.begun < rotations)
        /\ \A f \in Files :
              /\ f.begun = cursor.begun =>
                    /\ f.id = cursor.at.id /\ cursor.len <= Size(f)
                    /\ \A k \in 1 .. cursor.len : cursor.print[k] = f.before + k
                    /\ cursor.at.pos <= Len(f.lines) /\ cursor.at.last = f.before + cursor.at.pos
              /\ f.begun # cursor.begun => cursor.print[1] # f.before + 1
        /\ rotating = "removing" /\ rotated # Gone /\ rotated.begun = cursor.begun =>
              cursor.at.pos = Len(rotated.lines)

(* Where the consumer is: in a file, or at the end of one that is gone, with *)
(* nothing left to save, or before the first file.                          *)
TailIn(f) == tail.id = f.id /\ tail.pos <= Len(f.lines) /\ tail.last = f.before + tail.pos
Live == \E f \in Files : TailIn(f)
Loose ==
    /\ ~ Kept /\ tail.last <= NextBefore
    /\ tail.id # Gone =>
          /\ ~ Unsaved /\ tail.pos >= 1
          /\ rotated # Gone => tail.id # rotated.id
          /\ current # Gone /\ rotated = Gone => tail.id # current.id

TailInv ==
    /\ Live \/ Loose
    /\ Kept => cursor.at.last <= tail.last
    /\ rotated # Gone /\ TailIn(rotated) /\ Kept => cursor.begun = rotated.begun
    /\ rotating = "removing" /\ rotated # Gone =>
          /\ Live /\ tail.last >= EndOf(rotated)
          /\ TailIn(rotated) => ~ Unsaved

(* The queue holds the lines that come next.                               *)
MarkIn(m, f) == m.id = f.id /\ m.pos \in 1 .. Len(f.lines) /\ m.line = f.before + m.pos
QueueInv ==
    \A k \in DOMAIN queue :
        /\ queue[k].generation = generation
        /\ \E f \in Files : MarkIn(queue[k], f)
        /\ queue[k].line = queue[1].line + k - 1
        /\ queue[k].line > tail.last
        /\ Live => queue[k].line = tail.last + k

(* The reader goes on behind the queue.                                    *)
Upto == IF queue = <<>> THEN tail.last ELSE queue[Len(queue)].line
ReaderIn(f) == tailer.id = f.id /\ tailer.pos <= Len(f.lines) /\ Upto = f.before + tailer.pos
ReaderInv ==
    /\ tailer.generation = generation
    /\ tailer.id = Gone => tailer.pos = 0
    /\ queue # <<>> \/ Live =>
          \/ \E f \in Files : ReaderIn(f)
          \/ tailer.id = Gone /\ Upto = NextBefore
    /\ current # Gone /\ TailIn(current) => tailer.id = current.id
    /\ rotated # Gone /\ tailer.id = rotated.id => rotated.before + tailer.pos >= tail.last

SessionInv == phase # "off" => TailInv /\ QueueInv /\ ReaderInv

IInv == TypeOK /\ FilesInv /\ (~ lagged => CursorInv /\ SessionInv)

----------------------------------------------------------------------------
(* Files and what they hold.                                                *)
LEMMA LineNumbers ==
    /\ MaxLines \in Nat /\ MaxRotations \in Nat /\ MaxRewinds \in Nat
    /\ Lines \subseteq Nat /\ Lines \subseteq Offsets /\ Offsets \subseteq Nat
    /\ \A n : n \in Lines <=> n \in Int /\ 1 <= n /\ n <= MaxLines
    /\ \A n : n \in Offsets <=> n \in Int /\ 0 <= n /\ n <= MaxLines
BY LimitsAssumption DEF Lines, Offsets

LEMMA FileFact ==
    ASSUME NEW f \in File
    PROVE  /\ f # Gone /\ f.id \in Inodes /\ f.id # Gone
           /\ f.lines \in Seq(Lines) /\ Len(f.lines) \in Nat /\ DOMAIN f.lines = 1 .. Len(f.lines)
           /\ \A k \in 1 .. Len(f.lines) : f.lines[k] \in Lines
           /\ f.torn \in Offsets /\ f.before \in Offsets /\ f.begun \in 0 .. MaxRotations
           /\ f.torn \in Nat /\ f.before \in Nat /\ f.begun \in Nat /\ EndOf(f) \in Nat
           /\ Content(f) \in Seq(Lines)
           /\ f.before <= MaxLines /\ Size(f) \in Nat
           /\ f.torn = 0 => Size(f) = Len(f.lines)
           /\ f.torn # 0 => Size(f) = Len(f.lines) + 1
           /\ \A k \in 1 .. Len(f.lines) : Content(f)[k] = f.lines[k]
           /\ f.torn # 0 => Content(f)[Len(f.lines) + 1] = f.torn
<1>1. /\ f # Gone /\ f.id \in Inodes /\ f.id # Gone /\ f.lines \in Seq(Lines)
      /\ f.torn \in Offsets /\ f.before \in Offsets /\ f.begun \in 0 .. MaxRotations
  BY GoneAssumption DEF File
<1>2. f.torn \in Nat /\ f.before \in Nat /\ f.begun \in Nat /\ f.before <= MaxLines
  BY <1>1, LineNumbers
<1>3. /\ Len(f.lines) \in Nat /\ DOMAIN f.lines = 1 .. Len(f.lines)
      /\ \A k \in 1 .. Len(f.lines) : f.lines[k] \in Lines
  BY <1>1, LenProperties, ElementOfSeq
<1>4. CASE f.torn = 0
  <2>1. Content(f) = f.lines
    BY <1>4 DEF Content
  <2>. QED
    BY <1>1, <1>2, <1>3, <1>4, <2>1 DEF Size, EndOf
<1>5. CASE f.torn # 0
  <2>1. Content(f) = Append(f.lines, f.torn) /\ f.torn \in Lines
    BY <1>1, <1>5, LineNumbers DEF Content
  <2>2. /\ Append(f.lines, f.torn) \in Seq(Lines) /\ Len(Append(f.lines, f.torn)) = Len(f.lines) + 1
        /\ \A k \in 1 .. Len(f.lines) : Append(f.lines, f.torn)[k] = f.lines[k]
        /\ Append(f.lines, f.torn)[Len(f.lines) + 1] = f.torn
    BY <1>1, <2>1, AppendProperties
  <2>. QED
    BY <1>1, <1>2, <1>3, <1>5, <2>1, <2>2 DEF Size, EndOf
<1>. QED
  BY <1>4, <1>5

LEMMA ShapedFact ==
    ASSUME NEW f \in File, Shaped(f)
    PROVE  /\ Size(f) >= 1 /\ Len(f.lines) <= Size(f)
           /\ \A k \in 1 .. Size(f) : Content(f)[k] = f.before + k
           /\ EndOf(f) <= MaxLines
<1>1. /\ Len(f.lines) \in Nat /\ f.before \in Nat /\ f.before <= MaxLines
      /\ \A k \in 1 .. Len(f.lines) : f.lines[k] \in Lines /\ Content(f)[k] = f.lines[k]
      /\ Size(f) \in Nat
      /\ f.torn = 0 => Size(f) = Len(f.lines)
      /\ f.torn # 0 => Size(f) = Len(f.lines) + 1 /\ Content(f)[Len(f.lines) + 1] = f.torn
  BY FileFact
<1>2. /\ \A k \in 1 .. Len(f.lines) : f.lines[k] = f.before + k
      /\ f.torn # 0 => f.torn = f.before + Len(f.lines) + 1
      /\ f.torn = 0 => Len(f.lines) > 0
  BY DEF Shaped, EndOf
<1>3. EndOf(f) <= MaxLines
  <2>1. CASE Len(f.lines) = 0
    BY <1>1, <2>1 DEF EndOf
  <2>2. CASE Len(f.lines) > 0
    <3>1. Len(f.lines) \in 1 .. Len(f.lines)
      BY <1>1, <2>2
    <3>2. f.lines[Len(f.lines)] \in Lines /\ f.lines[Len(f.lines)] = f.before + Len(f.lines)
      BY <1>1, <1>2, <3>1
    <3>. QED
      BY <3>2, LineNumbers DEF EndOf
  <2>. QED
    BY <1>1, <2>1, <2>2
<1>4. ASSUME NEW k \in 1 .. Size(f)
      PROVE  Content(f)[k] = f.before + k
  <2>1. CASE k \in 1 .. Len(f.lines)
    BY <1>1, <1>2, <2>1
  <2>2. CASE k \notin 1 .. Len(f.lines)
    <3>1. f.torn # 0 /\ k = Len(f.lines) + 1
      BY <1>1, <2>2
    <3>2. Content(f)[k] = f.torn
      BY <1>1, <3>1
    <3>3. f.torn = f.before + k
      BY <1>1, <1>2, <3>1
    <3>. QED
      BY <3>2, <3>3
  <2>. QED
    BY <2>1, <2>2
<1>5. Size(f) >= 1 /\ Len(f.lines) <= Size(f)
  <2>1. CASE f.torn = 0
    BY <1>1, <1>2, <2>1
  <2>2. CASE f.torn # 0
    BY <1>1, <2>2
  <2>. QED
    BY <2>1, <2>2
<1>. QED
  BY <1>3, <1>4, <1>5

LEMMA FilesFact ==
    ASSUME TypeOK
    PROVE  /\ \A f : f \in Files <=> \/ current # Gone /\ f = current
                                     \/ rotated # Gone /\ f = rotated
           /\ Files \subseteq File
           /\ current # Gone => current \in File
           /\ rotated # Gone => rotated \in File
           /\ written \in Nat /\ rotations \in Nat
BY LineNumbers DEF TypeOK, Files

(* A file is known by its id, by its number and by the line before it.      *)
LEMMA OneFile ==
    ASSUME TypeOK, FilesInv, NEW f \in Files, NEW g \in Files,
           f.id = g.id \/ f.begun = g.begun \/ f.before = g.before
    PROVE  f = g
<1>1. ASSUME current # Gone, rotated # Gone
      PROVE  current.id # rotated.id /\ current.begun # rotated.begun /\ current.before # rotated.before
  <2>1. current \in File /\ rotated \in File /\ rotations \in Nat
    BY <1>1, FilesFact
  <2>2. /\ current.id # rotated.id /\ current.begun = rotations /\ rotated.begun = rotations - 1
        /\ EndOf(rotated) = current.before /\ Len(rotated.lines) > 0
    BY <1>1 DEF FilesInv, NextBefore, Shaped
  <2>3. rotated.before \in Nat /\ Len(rotated.lines) \in Nat
    BY <2>1, FileFact
  <2>. QED
    BY <2>1, <2>2, <2>3 DEF EndOf
<1>. QED
  BY <1>1, FilesFact

(* What the relay may compare of a file is its first lines.                 *)
LEMMA FenceFact ==
    ASSUME NEW f \in File, Shaped(f), NEW n \in Nat, n <= Size(f), NEW print \in Seq(Lines),
           Len(print) = n
    PROVE  SubSeq(Content(f), 1, n) = print <=> \A k \in 1 .. n : print[k] = f.before + k
<1>1. /\ Content(f) \in Seq(Lines) /\ Len(Content(f)) = Size(f) /\ Size(f) \in Nat
      /\ \A k \in 1 .. Size(f) : Content(f)[k] = f.before + k
  BY FileFact, ShapedFact DEF Size
<1>2. \A k \in 1 .. n : Content(f)[k] \in Lines /\ Content(f)[k] = f.before + k
  <2>1. \A k \in 1 .. n : k \in 1 .. Len(Content(f))
    BY <1>1
  <2>. QED
    BY <1>1, <2>1, ElementOfSeq
<1>. PICK part : part = SubSeq(Content(f), 1, n)
  OBVIOUS
<1>3. /\ part \in Seq(Lines) /\ Len(part) = n
      /\ \A k \in 1 .. n : part[k] = f.before + k
  <2>1. 1 \in Int /\ n \in Int
    OBVIOUS
  <2>2. /\ SubSeq(Content(f), 1, n) \in Seq(Lines)
        /\ Len(SubSeq(Content(f), 1, n)) = IF 1 <= n THEN n - 1 + 1 ELSE 0
        /\ \A k \in 1 .. n - 1 + 1 : SubSeq(Content(f), 1, n)[k] = Content(f)[1 + k - 1]
    BY <1>2, <2>1, SubSeqProperties
  <2>3. n - 1 + 1 = n /\ \A k \in 1 .. n : 1 + k - 1 = k
    OBVIOUS
  <2>. QED
    BY <1>2, <2>2, <2>3
<1>4. part = print <=> \A k \in 1 .. n : part[k] = print[k]
  BY <1>3, SeqEqual
<1>5. part = print <=> \A k \in 1 .. n : print[k] = f.before + k
  BY <1>3, <1>4
<1>. QED
  BY <1>5

----------------------------------------------------------------------------
(* The mod appends.                                                         *)
Extends(f, g) ==
    /\ g.id = f.id /\ g.before = f.before /\ g.begun = f.begun
    /\ Len(f.lines) <= Len(g.lines) /\ Size(f) <= Size(g)

LEMMA LineAdded ==
    ASSUME NEW f \in File, \A k \in 1 .. Len(f.lines) : f.lines[k] = f.before + k,
           NEW n \in Lines, n = EndOf(f) + 1, f.torn \in {0, n}
    PROVE  \E g \in File :
              /\ g = [f EXCEPT !.lines = Append(@, n), !.torn = 0]
              /\ Shaped(g) /\ g.torn = 0 /\ Extends(f, g) /\ g.before + Size(g) = n
<1>. PICK g : g = [f EXCEPT !.lines = Append(@, n), !.torn = 0]
  OBVIOUS
<1>1. /\ f.lines \in Seq(Lines) /\ Len(f.lines) \in Nat /\ f.before \in Nat
      /\ Size(f) \in Nat /\ (f.torn = 0 => Size(f) = Len(f.lines))
      /\ f.torn # 0 => Size(f) = Len(f.lines) + 1
  BY FileFact
<1>2. /\ Append(f.lines, n) \in Seq(Lines) /\ Len(Append(f.lines, n)) = Len(f.lines) + 1
      /\ \A k \in 1 .. Len(f.lines) : Append(f.lines, n)[k] = f.lines[k]
      /\ Append(f.lines, n)[Len(f.lines) + 1] = n
  BY <1>1, AppendProperties
<1>3. /\ g.lines = Append(f.lines, n) /\ g.torn = 0 /\ g.id = f.id /\ g.before = f.before
      /\ g.begun = f.begun
  BY DEF File
<1>4. g \in File
  <2>1. 0 \in Offsets
    BY LineNumbers
  <2>. QED
    BY <1>2, <2>1 DEF File
<1>5. Size(g) = Len(f.lines) + 1
  <2>1. Size(g) = Len(g.lines)
    BY <1>3, <1>4, FileFact
  <2>. QED
    BY <1>2, <1>3, <2>1
<1>6. ASSUME NEW k \in 1 .. Len(g.lines)
      PROVE  g.lines[k] = g.before + k
  <2>1. k \in 1 .. Len(f.lines) \/ k = Len(f.lines) + 1
    BY <1>1, <1>2, <1>3
  <2>2. CASE k \in 1 .. Len(f.lines)
    BY <1>2, <1>3, <2>2
  <2>3. CASE k = Len(f.lines) + 1
    <3>1. g.lines[k] = n
      BY <1>2, <1>3, <2>3
    <3>2. f.before + (Len(f.lines) + 1) = n
      BY <1>1 DEF EndOf
    <3>3. g.before + k = n
      BY <1>3, <2>3, <3>2
    <3>. QED
      BY <3>1, <3>3
  <2>. QED
    BY <2>1, <2>2, <2>3
<1>7. Shaped(g)
  BY <1>1, <1>2, <1>3, <1>6 DEF Shaped
<1>8. Extends(f, g)
  BY <1>1, <1>2, <1>3, <1>5 DEF Extends
<1>9. g.before + Size(g) = n
  BY <1>1, <1>3, <1>5 DEF EndOf
<1>. QED
  BY <1>3, <1>4, <1>7, <1>8, <1>9

LEMMA LineTorn ==
    ASSUME NEW f \in File, \A k \in 1 .. Len(f.lines) : f.lines[k] = f.before + k,
           NEW n \in Lines, n = EndOf(f) + 1, f.torn = 0
    PROVE  \E g \in File :
              /\ g = [f EXCEPT !.torn = n]
              /\ Shaped(g) /\ Extends(f, g) /\ g.before + Size(g) = n
<1>. PICK g : g = [f EXCEPT !.torn = n]
  OBVIOUS
<1>1. /\ Len(f.lines) \in Nat /\ f.before \in Nat /\ Size(f) = Len(f.lines)
  BY FileFact
<1>2. /\ g.lines = f.lines /\ g.torn = n /\ g.id = f.id /\ g.before = f.before
      /\ g.begun = f.begun
  BY DEF File
<1>3. n \in Offsets /\ n # 0
  BY LineNumbers
<1>4. g \in File
  BY <1>3 DEF File
<1>5. Size(g) = Len(f.lines) + 1
  BY <1>2, <1>3, <1>4, FileFact
<1>6. Shaped(g)
  BY <1>2, <1>3 DEF Shaped, EndOf
<1>7. Extends(f, g)
  BY <1>1, <1>2, <1>5 DEF Extends
<1>8. g.before + Size(g) = n
  BY <1>1, <1>2, <1>5 DEF EndOf
<1>. QED
  BY <1>4, <1>6, <1>7, <1>8

Grown ==
    /\ rotated' = rotated /\ rotations' = rotations /\ lagged' = lagged
    /\ written \in Nat /\ written' \in Offsets /\ written <= written'
    /\ current' \in File /\ Shaped(current') /\ current'.before + Size(current') = written'
    /\ current # Gone => Extends(current, current')
    /\ current = Gone =>
          /\ current'.before = written /\ current'.begun = rotations
          /\ rotated # Gone => current'.id # rotated.id
    /\ rotating' \in {"no", "renamed"}
    /\ UNCHANGED relaySide

LEMMA AppendLineGrows ==
    ASSUME TypeOK, FilesInv, AppendLine
    PROVE  Grown
<1>n. written + 1 \in Lines /\ written \in Offsets /\ written \in Nat
  <2>1. written \in Offsets /\ written < MaxLines
    BY DEF AppendLine, TypeOK
  <2>. QED
    BY <2>1, LineNumbers
<1>u. /\ rotated' = rotated /\ rotations' = rotations /\ lagged' = lagged
      /\ written' = written + 1 /\ rotating' = "no" /\ UNCHANGED relaySide
  BY DEF AppendLine
<1>v. written' \in Offsets /\ written <= written'
  BY <1>n, <1>u, LineNumbers
<1>1. CASE current # Gone
  <2>1. /\ current \in File /\ Shaped(current) /\ current.torn = 0
        /\ current.before + Size(current) = written
    BY <1>1, FilesFact DEF FilesInv, AppendLine
  <2>2. written + 1 = EndOf(current) + 1 /\ Size(current) = Len(current.lines)
    BY <2>1, FileFact DEF EndOf
  <2>3. \/ current' = [current EXCEPT !.lines = Append(@, written + 1)]
        \/ current' = [current EXCEPT !.torn = written + 1]
    BY <1>1 DEF AppendLine
  <2>4. [current EXCEPT !.lines = Append(@, written + 1)] =
           [current EXCEPT !.lines = Append(@, written + 1), !.torn = 0]
    BY <2>1 DEF File
  <2>5. \A k \in 1 .. Len(current.lines) : current.lines[k] = current.before + k
    BY <2>1 DEF Shaped
  <2>6. \E g \in File :
           /\ g = [current EXCEPT !.lines = Append(@, written + 1), !.torn = 0]
           /\ Shaped(g) /\ Extends(current, g) /\ g.before + Size(g) = written + 1
    BY <1>n, <2>1, <2>2, <2>5, LineAdded
  <2>7. \E g \in File :
           /\ g = [current EXCEPT !.torn = written + 1]
           /\ Shaped(g) /\ Extends(current, g) /\ g.before + Size(g) = written + 1
    BY <1>n, <2>1, <2>2, <2>5, LineTorn
  <2>8. \E g \in File :
           /\ g = current'
           /\ Shaped(g) /\ Extends(current, g) /\ g.before + Size(g) = written + 1
    BY <2>3, <2>4, <2>6, <2>7
  <2>. QED
    BY <1>1, <1>n, <1>u, <1>v, <2>8 DEF Grown
<1>2. CASE current = Gone
  <2>. PICK id \in Inodes \ {f.id : f \in Files} :
          \/ current' = [NewFile(id) EXCEPT !.lines = Append(@, written + 1)]
          \/ current' = [NewFile(id) EXCEPT !.torn = written + 1]
    BY <1>2 DEF AppendLine
  <2>. PICK f : f = NewFile(id)
    OBVIOUS
  <2>1. f \in File /\ f.id = id /\ f.lines = <<>> /\ f.torn = 0 /\ f.begun = rotations /\ f.before = written
    <3>1. <<>> \in Seq(Lines) /\ 0 \in Offsets /\ rotations \in 0 .. MaxRotations
      BY EmptySeq, LineNumbers DEF TypeOK
    <3>. QED
      BY <1>n, <3>1 DEF NewFile, File
  <2>2. Len(f.lines) = 0 /\ written + 1 = EndOf(f) + 1
    BY <1>n, <2>1, EmptySeq DEF EndOf
  <2>3. \A k \in 1 .. Len(f.lines) : f.lines[k] = f.before + k
    BY <2>2
  <2>4. [f EXCEPT !.lines = Append(@, written + 1)] =
           [f EXCEPT !.lines = Append(@, written + 1), !.torn = 0]
    BY <2>1 DEF File
  <2>5. \E g \in File :
           /\ g = [f EXCEPT !.lines = Append(@, written + 1), !.torn = 0]
           /\ Shaped(g) /\ Extends(f, g) /\ g.before + Size(g) = written + 1
    BY <1>n, <2>1, <2>2, <2>3, LineAdded
  <2>6. \E g \in File :
           /\ g = [f EXCEPT !.torn = written + 1]
           /\ Shaped(g) /\ Extends(f, g) /\ g.before + Size(g) = written + 1
    BY <1>n, <2>1, <2>2, <2>3, LineTorn
  <2>7. \E g \in File :
           /\ g = current'
           /\ Shaped(g) /\ Extends(f, g) /\ g.before + Size(g) = written + 1
    BY <2>4, <2>5, <2>6
  <2>8. /\ current'.before = written /\ current'.begun = rotations /\ current'.id = id
    BY <2>1, <2>7 DEF Extends
  <2>9. rotated # Gone => id # rotated.id
    BY FilesFact
  <2>. QED
    BY <1>2, <1>n, <1>u, <1>v, <2>7, <2>8, <2>9 DEF Grown
<1>. QED
  BY <1>1, <1>2

LEMMA CompleteLineGrows ==
    ASSUME TypeOK, FilesInv, CompleteLine
    PROVE  Grown
<1>1. /\ current # Gone /\ current \in File /\ Shaped(current) /\ current.torn # 0
      /\ current.before + Size(current) = written
      /\ current' = [current EXCEPT !.lines = Append(@, current.torn), !.torn = 0]
      /\ rotated' = rotated /\ rotations' = rotations /\ lagged' = lagged /\ written' = written
      /\ rotating' = rotating /\ UNCHANGED relaySide
  BY FilesFact DEF FilesInv, CompleteLine
<1>2. current.torn \in Lines /\ current.torn = EndOf(current) + 1
      /\ \A k \in 1 .. Len(current.lines) : current.lines[k] = current.before + k
  BY <1>1, FileFact, LineNumbers DEF Shaped
<1>3. current.torn = written
  BY <1>1, <1>2, FileFact DEF EndOf
<1>4. \E g \in File :
         /\ g = [current EXCEPT !.lines = Append(@, current.torn), !.torn = 0]
         /\ Shaped(g) /\ Extends(current, g) /\ g.before + Size(g) = current.torn
  BY ZenonT(30), <1>1, <1>2, LineAdded
<1>5. rotating \in {"no", "renamed"}
  BY <1>1 DEF FilesInv, TypeOK
<1>6. written \in Offsets /\ written \in Nat /\ written <= written
  BY LineNumbers DEF TypeOK
<1>. QED
  BY <1>1, <1>3, <1>4, <1>5, <1>6 DEF Grown

(* What holds of the files, the cursor and the session when a file grows or *)
(* is begun.                                                                *)
LEMMA GrownFiles ==
    ASSUME TypeOK, FilesInv, Grown
    PROVE  TypeOK' /\ FilesInv' /\ NextBefore' = NextBefore
<1>1. /\ rotated' = rotated /\ rotations' = rotations /\ current' # Gone
      /\ rotating' \in {"no", "renamed"}
  BY FileFact DEF Grown
<1>2. TypeOK'
  BY DEF TypeOK, Grown, relaySide
<1>3. NextBefore' = NextBefore
  BY <1>1 DEF NextBefore, Grown, Extends
<1>4. Shaped(current') /\ current'.begun = rotations /\ current'.before + Size(current') = written'
  BY DEF Grown, Extends, FilesInv
<1>5. rotated # Gone => current'.id # rotated.id
  BY DEF Grown, Extends, FilesInv
<1>. QED
  BY <1>1, <1>2, <1>3, <1>4, <1>5 DEF FilesInv

LEMMA GrownCursor ==
    ASSUME TypeOK, FilesInv, CursorInv, Grown
    PROVE  CursorInv' /\ (Kept' <=> Kept)
<1>1. /\ rotated' = rotated /\ rotations' = rotations /\ current' # Gone /\ cursor' = cursor
      /\ rotating' \in {"no", "renamed"} /\ written \in Nat /\ written' \in Nat /\ written <= written'
  BY FileFact, LineNumbers DEF Grown, relaySide
<1>3. \A f : f \in Files' <=> f = current' \/ (rotated # Gone /\ f = rotated)
  <2>1. \A f : f \in Files' <=> \/ current' # Gone /\ f = current'
                                \/ rotated' # Gone /\ f = rotated'
    BY DEF Files
  <2>. QED
    BY <1>1, <2>1
<1>4. ASSUME cursor # Gone
      PROVE  CursorInv' /\ (Kept' <=> Kept)
  <2>1. cursor \in Cursor /\ cursor.begun \in Nat /\ cursor.print \in Seq(Lines) /\ cursor.len \in Nat
        /\ cursor.at.pos \in Nat
    BY <1>4, LineNumbers DEF TypeOK, Cursor, Place
  <2>2. /\ cursor.len >= 1 /\ Len(cursor.print) = cursor.len /\ cursor.print[1] <= written
        /\ cursor.begun <= rotations /\ (current = Gone => cursor.begun < rotations)
        /\ \A f \in Files :
              /\ f.begun = cursor.begun =>
                    /\ f.id = cursor.at.id /\ cursor.len <= Size(f)
                    /\ \A k \in 1 .. cursor.len : cursor.print[k] = f.before + k
                    /\ cursor.at.pos <= Len(f.lines) /\ cursor.at.last = f.before + cursor.at.pos
              /\ f.begun # cursor.begun => cursor.print[1] # f.before + 1
    BY <1>4 DEF CursorInv
  <2>3. cursor.print[1] \in Nat /\ cursor.print[1] <= written'
    <3>1. 1 \in 1 .. Len(cursor.print)
      BY <2>1, <2>2
    <3>2. cursor.print[1] \in Nat
      BY <2>1, <3>1, ElementOfSeq, LineNumbers
    <3>. QED
      BY <1>1, <2>2, <3>2
  <2>4. rotated # Gone => rotated \in Files
    BY FilesFact
  <2>5. CASE current # Gone
    <3>1. current \in Files /\ Extends(current, current')
      BY <2>5, FilesFact DEF Grown
    <3>2. /\ Len(current.lines) \in Nat /\ Len(current'.lines) \in Nat
          /\ Size(current) \in Nat /\ Size(current') \in Nat
      <4>1. current \in File /\ current' \in File
        BY <2>5, FilesFact DEF Grown
      <4>. QED
        BY <4>1, FileFact
    <3>3. /\ current'.begun = cursor.begun =>
                /\ current'.id = cursor.at.id /\ cursor.len <= Size(current')
                /\ \A k \in 1 .. cursor.len : cursor.print[k] = current'.before + k
                /\ cursor.at.pos <= Len(current'.lines)
                /\ cursor.at.last = current'.before + cursor.at.pos
          /\ current'.begun # cursor.begun => cursor.print[1] # current'.before + 1
      BY SMTT(30), <2>1, <2>2, <3>1, <3>2 DEF Extends
    <3>4. CursorInv'
      BY <1>1, <1>3, <2>2, <2>3, <2>4, <3>3 DEF CursorInv
    <3>5. Kept' <=> Kept
      BY <1>1, <1>3, <1>4, <2>4, <3>1, FilesFact DEF Kept, Extends
    <3>. QED
      BY <3>4, <3>5
  <2>6. CASE current = Gone
    <3>1. /\ current'.begun # cursor.begun /\ cursor.print[1] # current'.before + 1
      <4>1. current'.begun = rotations /\ current'.before = written /\ cursor.begun < rotations
        BY <2>2, <2>6 DEF Grown
      <4>. QED
        BY <1>1, <2>1, <2>2, <2>3, <4>1, FilesFact
    <3>2. CursorInv'
      BY <1>1, <1>3, <2>2, <2>3, <2>4, <3>1 DEF CursorInv
    <3>3. Kept' <=> Kept
      BY <1>1, <1>3, <1>4, <2>4, <2>6, <3>1, FilesFact DEF Kept
    <3>. QED
      BY <3>2, <3>3
  <2>. QED
    BY <2>5, <2>6
<1>5. CASE cursor = Gone
  BY <1>1, <1>5 DEF CursorInv, Kept
<1>. QED
  BY <1>4, <1>5

LEMMA SessionFact ==
    ASSUME TypeOK
    PROVE  /\ tail.pos \in Nat /\ tail.last \in Nat /\ tail.id \in Inodes \cup {Gone}
           /\ tailer.pos \in Nat /\ tailer.id \in Inodes \cup {Gone}
           /\ tailer.generation \in 0 .. MaxRewinds
           /\ Gone \notin Inodes
           /\ queue \in Seq(Mark) /\ Len(queue) \in Nat /\ DOMAIN queue = 1 .. Len(queue)
           /\ \A k \in DOMAIN queue : /\ queue[k] \in Mark /\ queue[k].line \in Nat
                                      /\ queue[k].pos \in Nat /\ queue[k].id \in Inodes
           /\ queue # <<>> => Len(queue) > 0 /\ Len(queue) \in DOMAIN queue /\ 1 \in DOMAIN queue
           /\ NextBefore \in Nat
<1>1. /\ tail \in Place /\ tailer \in Reader /\ queue \in Seq(Mark)
  BY DEF TypeOK
<1>2. /\ tail.pos \in Nat /\ tail.last \in Nat /\ tail.id \in Inodes \cup {Gone}
      /\ tailer.pos \in Nat /\ tailer.id \in Inodes \cup {Gone}
      /\ tailer.generation \in 0 .. MaxRewinds /\ Gone \notin Inodes
  BY <1>1, LineNumbers, GoneAssumption DEF Place, Reader
<1>3. Len(queue) \in Nat /\ DOMAIN queue = 1 .. Len(queue)
  BY <1>1, LenProperties
<1>4. \A k \in DOMAIN queue : queue[k] \in Mark
  BY <1>1, <1>3, ElementOfSeq
<1>5. \A k \in DOMAIN queue : /\ queue[k].line \in Nat
                              /\ queue[k].pos \in Nat /\ queue[k].id \in Inodes
  BY <1>4, LineNumbers DEF Mark
<1>6. queue # <<>> => Len(queue) > 0
  BY <1>1, <1>3, EmptySeq
<1>7. NextBefore \in Nat
  BY FilesFact, FileFact DEF NextBefore
<1>. QED
  BY <1>1, <1>2, <1>3, <1>4, <1>5, <1>6, <1>7

LEMMA GrownSession ==
    ASSUME TypeOK, FilesInv, CursorInv, TailInv, QueueInv, ReaderInv, Grown
    PROVE  (TailInv /\ QueueInv /\ ReaderInv)'
<1>1. /\ rotated' = rotated /\ rotations' = rotations /\ current' # Gone /\ cursor' = cursor
      /\ rotating' \in {"no", "renamed"} /\ tail' = tail /\ queue' = queue /\ tailer' = tailer
      /\ generation' = generation
  BY FileFact DEF Grown, relaySide
<1>2. NextBefore' = NextBefore /\ (Kept' <=> Kept) /\ NextBefore \in Nat
  BY GrownFiles, GrownCursor, SessionFact
<1>3. \A f : f \in Files' <=> f = current' \/ (rotated # Gone /\ f = rotated)
  BY <1>1 DEF Files
<1>4. /\ current # Gone => current \in Files /\ current \in File
      /\ rotated # Gone => rotated \in Files /\ rotated \in File
      /\ current' \in File
  BY FilesFact DEF Grown
<1>5. /\ current # Gone => /\ current'.id = current.id /\ current'.before = current.before
                           /\ current'.begun = current.begun
                           /\ Len(current.lines) <= Len(current'.lines)
                           /\ Len(current.lines) \in Nat /\ Len(current'.lines) \in Nat
      /\ current = Gone => current'.before = written /\ (rotated # Gone => current'.id # rotated.id)
  BY <1>4, FileFact DEF Grown, Extends
<1>6. current'.before = NextBefore
  BY <1>5 DEF NextBefore
<1>7. /\ Live \/ Loose
      /\ Kept => cursor.at.last <= tail.last
      /\ rotated # Gone /\ TailIn(rotated) /\ Kept => cursor.begun = rotated.begun
  BY DEF TailInv
<1>8. Loose /\ tail.id # Gone =>
         /\ ~ Unsaved /\ tail.pos >= 1
         /\ rotated # Gone => tail.id # rotated.id
         /\ current # Gone /\ rotated = Gone => tail.id # current.id
  BY DEF Loose
<1>9. /\ tail.pos \in Nat /\ tail.last \in Nat
      /\ tail.id \in Inodes \cup {Gone} /\ current'.id # Gone /\ (Loose => tail.last <= NextBefore)
  BY <1>4, FileFact, SessionFact DEF Loose
<1>10. current # Gone /\ TailIn(current) => TailIn(current)'
  BY <1>1, <1>5, <1>9 DEF TailIn
<1>11. TailIn(rotated)' <=> TailIn(rotated)
  BY <1>1 DEF TailIn
<1>12. ASSUME TailIn(current)'
       PROVE  current # Gone /\ TailIn(current)
  <2>1. tail.id = current'.id /\ tail.last = NextBefore + tail.pos
    BY <1>1, <1>6, <1>12 DEF TailIn
  <2>2. ~ Loose
    <3>1. ASSUME Loose
          PROVE  FALSE
      <4>1. tail.id # Gone /\ tail.last <= NextBefore
        BY <1>4, <2>1, <3>1, FileFact DEF Loose
      <4>2. tail.pos >= 1
        BY <1>8, <3>1, <4>1
      <4>. QED
        BY <1>2, <2>1, <4>1, <4>2, SessionFact
    <3>. QED
      BY <3>1
  <2>. PICK f \in Files : TailIn(f)
    BY <1>7, <2>2 DEF Live
  <2>3. ~ (rotated # Gone /\ f = rotated)
    <3>1. rotated # Gone => current'.id # rotated.id
      BY DEF Grown, Extends, FilesInv
    <3>. QED
      BY <2>1, <3>1 DEF TailIn
  <2>4. current # Gone /\ f = current
    BY <2>3, FilesFact
  <2>. QED
    BY <2>4
<1>13. Live' <=> Live
  <2>1. Live' <=> TailIn(current)' \/ (rotated # Gone /\ TailIn(rotated)')
    BY <1>1, <1>3 DEF Live, TailIn
  <2>2. Live <=> (current # Gone /\ TailIn(current)) \/ (rotated # Gone /\ TailIn(rotated))
    BY FilesFact DEF Live
  <2>. QED
    BY <1>10, <1>11, <1>12, <2>1, <2>2
<1>14. TailInv'
  <2>1. Unsaved' <=> Unsaved
    BY <1>1 DEF Unsaved
  <2>2. ASSUME Loose
        PROVE  Loose'
    <3>1. ASSUME tail.id # Gone, rotated = Gone
          PROVE  tail.id # current'.id
      <4>1. CASE current # Gone
        BY <1>5, <1>8, <2>2, <3>1, <4>1
      <4>2. CASE current = Gone
        <5>1. rotations = 0
          BY <3>1, <4>2 DEF FilesInv
        <5>2. cursor # Gone
          BY <1>8, <2>2, <3>1 DEF Unsaved
        <5>3. cursor.begun < 0 /\ cursor.begun \in Nat
          <6>1. cursor \in Cursor
            BY <5>2 DEF TypeOK
          <6>. QED
            BY <4>2, <5>1, <5>2, <6>1, LineNumbers DEF CursorInv, Cursor
        <5>. QED
          BY <5>3
      <4>. QED
        BY <4>1, <4>2
    <3>2. ~ Kept' /\ tail'.last <= NextBefore'
      BY <1>1, <1>2, <2>2 DEF Loose
    <3>. QED
      BY <1>1, <1>8, <2>1, <2>2, <3>1, <3>2 DEF Loose
  <2>. QED
    BY <1>1, <1>2, <1>7, <1>11, <1>13, <2>2 DEF TailInv
<1>15. QueueInv'
  <2>1. ASSUME NEW k \in DOMAIN queue
        PROVE  \E f \in Files' : MarkIn(queue[k], f)
    <3>. PICK f \in Files : MarkIn(queue[k], f)
      BY DEF QueueInv
    <3>1. CASE rotated # Gone /\ f = rotated
      BY <1>3, <3>1
    <3>2. CASE current # Gone /\ f = current
      <4>1. MarkIn(queue[k], current')
        BY <1>5, <3>2 DEF MarkIn
      <4>. QED
        BY <1>3, <4>1
    <3>. QED
      BY <3>1, <3>2, FilesFact
  <2>. QED
    BY <1>1, <1>13, <2>1 DEF QueueInv
<1>16. ReaderInv'
  <2>1. Upto' = Upto
    BY <1>1 DEF Upto
  <2>2. ASSUME NEW f \in Files, ReaderIn(f)
        PROVE  \E g \in Files' : ReaderIn(g)'
    <3>1. CASE rotated # Gone /\ f = rotated
      <4>1. ReaderIn(rotated)'
        BY <1>1, <2>1, <2>2, <3>1 DEF ReaderIn
      <4>. QED
        BY <1>1, <1>3, <3>1, <4>1 DEF ReaderIn
    <3>2. CASE current # Gone /\ f = current
      <4>1. tailer.id = current'.id /\ tailer.pos <= Len(current'.lines)
            /\ Upto = current'.before + tailer.pos
        BY <1>5, <2>2, <3>2, SessionFact DEF ReaderIn
      <4>. QED
        BY <1>1, <1>3, <2>1, <4>1 DEF ReaderIn
    <3>. QED
      BY <3>1, <3>2, FilesFact
  <2>3. queue # <<>> \/ Live =>
           \/ \E f \in Files : ReaderIn(f)
           \/ tailer.id = Gone /\ Upto = NextBefore
    BY DEF ReaderInv
  <2>4. queue' # <<>> \/ Live' =>
           \/ \E f \in Files' : ReaderIn(f)'
           \/ tailer'.id = Gone /\ Upto' = NextBefore'
    BY <1>1, <1>2, <1>13, <2>1, <2>2, <2>3
  <2>5. TailIn(current)' => tailer.id = current'.id
    BY <1>5, <1>12 DEF ReaderInv
  <2>6. /\ tailer'.generation = generation' /\ (tailer'.id = Gone => tailer'.pos = 0)
        /\ rotated' # Gone /\ tailer'.id = rotated'.id => rotated'.before + tailer'.pos >= tail'.last
    BY <1>1 DEF ReaderInv
  <2>. QED
    BY <1>1, <2>4, <2>5, <2>6 DEF ReaderInv, ReaderIn
<1>. QED
  BY <1>14, <1>15, <1>16

----------------------------------------------------------------------------
(* The mod renames.                                                         *)
LEMMA RenameStep ==
    ASSUME TypeOK, FilesInv, Rename
    PROVE  /\ TypeOK' /\ FilesInv'
           /\ CursorInv => CursorInv' /\ (Kept' <=> Kept)
           /\ CursorInv /\ TailInv /\ QueueInv /\ ReaderInv => (TailInv /\ QueueInv /\ ReaderInv)'
<1>1. /\ rotating = "renaming" /\ rotating' = "renamed" /\ current # Gone /\ rotated = Gone
      /\ current.torn = 0 /\ current \in File /\ current \in Files
      /\ written' = written /\ lagged' = lagged /\ cursor' = cursor
      /\ tail' = tail /\ queue' = queue /\ tailer' = tailer /\ generation' = generation
      /\ UNCHANGED relaySide
  BY FilesFact DEF Rename, FilesInv, relaySide
<1>2. CASE current' = current /\ rotated' = rotated /\ rotations' = rotations
  <2>1. TypeOK'
    BY <1>1, <1>2 DEF TypeOK, relaySide
  <2>2. NextBefore' = NextBefore /\ Files' = Files
    BY <1>1, <1>2 DEF NextBefore, Files
  <2>3. FilesInv'
    BY <1>1, <1>2, <2>2 DEF FilesInv
  <2>4. (Kept' <=> Kept) /\ (Unsaved' <=> Unsaved) /\ Upto' = Upto /\ (Live' <=> Live)
        /\ (TailIn(current)' <=> TailIn(current))
    BY <1>1, <1>2, <2>2 DEF Kept, Unsaved, Upto, Live, TailIn
  <2>5. CursorInv => CursorInv'
    BY <1>1, <1>2, <2>2 DEF CursorInv
  <2>6. TailInv => TailInv'
    BY <1>1, <1>2, <2>2, <2>4 DEF TailInv, Loose
  <2>7. QueueInv => QueueInv'
    BY <1>1, <2>2, <2>4 DEF QueueInv
  <2>8. ReaderInv => ReaderInv'
    BY <1>1, <1>2, <2>2, <2>4 DEF ReaderInv, ReaderIn
  <2>. QED
    BY <2>1, <2>3, <2>4, <2>5, <2>6, <2>7, <2>8
<1>3. CASE rotated' = current /\ current' = Gone /\ rotations' = rotations + 1
  <2>1. TypeOK'
    <3>1. rotations + 1 \in 0 .. MaxRotations
      BY <1>1, LineNumbers DEF FilesInv, TypeOK
    <3>. QED
      BY <1>1, <1>3, <3>1 DEF TypeOK, relaySide
  <2>2. /\ Shaped(current) /\ current.begun = rotations /\ current.before + Size(current) = written
        /\ Size(current) = Len(current.lines) /\ Len(current.lines) \in Nat /\ current.before \in Nat
        /\ rotations \in Nat /\ written \in Nat /\ Len(current.lines) > 0 /\ current.id # Gone
    BY <1>1, FileFact, FilesFact DEF FilesInv, Shaped
  <2>3. NextBefore' = written /\ NextBefore = current.before /\ EndOf(current) = written
        /\ current.before <= written
    BY <1>1, <1>3, <2>2 DEF NextBefore, EndOf
  <2>4. FilesInv'
    BY <1>1, <1>3, <2>2, <2>3 DEF FilesInv
  <2>5. Files' = Files /\ \A f : f \in Files <=> f = current
    BY <1>1, <1>3, FilesFact DEF Files
  <2>6. (Kept' <=> Kept) /\ (Unsaved' <=> Unsaved) /\ Upto' = Upto /\ (Live' <=> Live)
        /\ (Live <=> TailIn(current)) /\ (TailIn(rotated)' <=> TailIn(current))
    BY <1>1, <1>3, <2>5 DEF Kept, Unsaved, Upto, Live, TailIn
  <2>7. ASSUME CursorInv
        PROVE  CursorInv'
    <3>1. cursor # Gone => cursor.begun \in Nat /\ cursor.begun < rotations + 1
      <4>1. cursor # Gone => cursor \in Cursor /\ cursor.begun <= rotations
        BY <2>7 DEF TypeOK, CursorInv
      <4>2. cursor # Gone => cursor.begun \in Nat
        BY <4>1, LineNumbers DEF Cursor
      <4>. QED
        BY <2>2, <4>1, <4>2
    <3>2. cursor # Gone => cursor.begun <= rotations + 1
      BY <2>2, <3>1
    <3>. QED
      BY <1>1, <1>3, <2>5, <2>7, <3>1, <3>2 DEF CursorInv
  <2>8. ASSUME CursorInv, TailInv, QueueInv, ReaderInv
        PROVE  (TailInv /\ QueueInv /\ ReaderInv)'
    <3>0. /\ tail.pos \in Nat /\ tail.last \in Nat /\ tailer.pos \in Nat
          /\ Len(queue) \in Nat /\ queue # <<>> => Len(queue) \in DOMAIN queue
      BY SessionFact
    <3>1. ASSUME Loose
          PROVE  Loose'
      <4>1. tail.last <= written
        BY <2>2, <2>3, <3>0, <3>1 DEF Loose
      <4>. QED
        BY <1>1, <1>3, <2>3, <2>6, <3>1, <4>1 DEF Loose
    <3>2. Kept => cursor.begun = current.begun
      BY <2>5 DEF Kept
    <3>3. TailInv'
      BY <1>1, <1>3, <2>6, <2>8, <3>1, <3>2 DEF TailInv
    <3>4. QueueInv'
      BY <1>1, <2>5, <2>6, <2>8 DEF QueueInv
    <3>5. ASSUME queue # <<>> \/ Live
          PROVE  ReaderIn(current) /\ Upto >= tail.last
      <4>1. ReaderIn(current) \/ (tailer.id = Gone /\ Upto = NextBefore)
        BY <2>5, <2>8, <3>5 DEF ReaderInv
      <4>2. CASE queue # <<>>
        <5>1. Len(queue) \in DOMAIN queue /\ Upto = queue[Len(queue)].line
          BY <3>0, <4>2 DEF Upto
        <5>2. MarkIn(queue[Len(queue)], current) /\ queue[Len(queue)].line > tail.last
          BY <2>5, <2>8, <5>1 DEF QueueInv
        <5>3. Upto > current.before /\ Upto >= tail.last
          BY <2>2, <3>0, <5>1, <5>2, SessionFact DEF MarkIn
        <5>. QED
          BY <2>2, <2>3, <4>1, <5>3
      <4>3. CASE queue = <<>>
        <5>1. Live /\ Upto = tail.last
          BY <3>5, <4>3 DEF Upto
        <5>2. TailIn(current) /\ tailer.id = current.id
          BY <1>1, <2>6, <2>8, <5>1 DEF ReaderInv
        <5>. QED
          BY <2>2, <3>0, <4>1, <5>1, <5>2
      <4>. QED
        BY <4>2, <4>3
    <3>6. ASSUME tailer.id = current.id
          PROVE  current.before + tailer.pos >= tail.last
      <4>1. CASE queue # <<>> \/ Live
        BY <3>5, <4>1 DEF ReaderIn
      <4>2. CASE ~ (queue # <<>> \/ Live)
        <5>1. tail.last <= current.before
          BY <2>3, <2>8, <4>2 DEF TailInv, Loose
        <5>. QED
          BY <2>2, <3>0, <5>1
      <4>. QED
        BY <4>1, <4>2
    <3>7. ReaderInv'
      <4>1. queue' # <<>> \/ Live' => \E f \in Files' : ReaderIn(f)'
        <5>1. queue' # <<>> \/ Live' => ReaderIn(current)
          BY <1>1, <2>6, <3>5
        <5>2. ReaderIn(current) => \E f \in Files' : tailer'.id = f.id /\ tailer'.pos <= Len(f.lines)
                                                     /\ Upto' = f.before + tailer'.pos
          BY <1>1, <2>5, <2>6 DEF ReaderIn
        <5>. QED
          BY <5>1, <5>2 DEF ReaderIn
      <4>2. tailer'.generation = generation' /\ (tailer'.id = Gone => tailer'.pos = 0)
        BY <1>1, <2>8 DEF ReaderInv
      <4>3. rotated'.before + tailer'.pos >= tail'.last \/ tailer'.id # rotated'.id
        BY <1>1, <1>3, <3>6
      <4>. QED
        BY <1>3, <4>1, <4>2, <4>3 DEF ReaderInv
    <3>. QED
      BY <3>3, <3>4, <3>7
  <2>. QED
    BY <2>1, <2>4, <2>6, <2>7, <2>8
<1>. QED
  BY <1>1, <1>2, <1>3 DEF Rename

(* The steps of a rename before the files change. *)
LEMMA SameFiles ==
    ASSUME UNCHANGED <<current, rotated, rotations, written>>, UNCHANGED relaySide
    PROVE  /\ NextBefore' = NextBefore /\ Files' = Files
           /\ (Kept' <=> Kept) /\ (Unsaved' <=> Unsaved) /\ (Live' <=> Live) /\ (Loose' <=> Loose)
           /\ (TailIn(current)' <=> TailIn(current)) /\ (TailIn(rotated)' <=> TailIn(rotated))
           /\ QueueInv => QueueInv'
           /\ ReaderInv => ReaderInv'
<1>1. /\ current' = current /\ rotated' = rotated /\ rotations' = rotations /\ written' = written
      /\ cursor' = cursor /\ tail' = tail /\ queue' = queue /\ tailer' = tailer
      /\ generation' = generation
  BY DEF relaySide
<1>2. NextBefore' = NextBefore /\ Files' = Files
  BY <1>1 DEF NextBefore, Files
<1>3. /\ (Kept' <=> Kept) /\ (Unsaved' <=> Unsaved) /\ (Live' <=> Live)
      /\ (TailIn(current)' <=> TailIn(current)) /\ (TailIn(rotated)' <=> TailIn(rotated))
      /\ Upto' = Upto
  BY <1>1, <1>2 DEF Kept, Unsaved, Live, TailIn, Upto
<1>4. Loose' <=> Loose
  BY <1>1, <1>2, <1>3 DEF Loose
<1>5. QueueInv => QueueInv'
  BY <1>1, <1>2, <1>3 DEF QueueInv
<1>6. ReaderInv => ReaderInv'
  BY <1>1, <1>2, <1>3 DEF ReaderInv, ReaderIn
<1>. QED
  BY <1>2, <1>3, <1>4, <1>5, <1>6

LEMMA KillStep ==
    ASSUME TypeOK, FilesInv, KillMod
    PROVE  /\ TypeOK' /\ FilesInv' /\ (Kept' <=> Kept)
           /\ CursorInv => CursorInv'
           /\ TailInv /\ QueueInv /\ ReaderInv => (TailInv /\ QueueInv /\ ReaderInv)'
<1>1. /\ UNCHANGED <<current, rotated, rotations, written>> /\ UNCHANGED relaySide
      /\ rotating' = "no" /\ lagged' = lagged
  BY DEF KillMod
<1>2. TypeOK'
  BY <1>1 DEF TypeOK, relaySide
<1>3. FilesInv'
  BY <1>1, SameFiles DEF FilesInv
<1>4. CursorInv => CursorInv'
  BY <1>1, SameFiles DEF CursorInv, relaySide
<1>5. TailInv => TailInv'
  BY <1>1, SameFiles DEF TailInv, relaySide
<1>. QED
  BY <1>1, <1>2, <1>3, <1>4, <1>5, SameFiles

(* A cursor that does not hold the rename back has read .1 to its end.      *)
LEMMA NotDraining ==
    ASSUME TypeOK, FilesInv, CursorInv, ~ Draining, cursor # Gone, rotated # Gone,
           rotated.begun = cursor.begun
    PROVE  cursor.at.pos = Len(rotated.lines)
<1>1. /\ rotated \in File /\ rotated \in Files /\ Shaped(rotated) /\ rotated.torn = 0
  BY FilesFact DEF FilesInv
<1>2. /\ cursor.len \in Nat /\ Len(cursor.print) = cursor.len /\ cursor.print \in Seq(Lines)
      /\ cursor.at.pos \in Nat
  BY LineNumbers DEF CursorInv, TypeOK, Cursor, Place
<1>3. /\ cursor.len <= Size(rotated) /\ cursor.at.pos <= Len(rotated.lines)
      /\ \A k \in 1 .. cursor.len : cursor.print[k] = rotated.before + k
  BY <1>1 DEF CursorInv
<1>4. SubSeq(Content(rotated), 1, cursor.len) = cursor.print
  <2>. PICK n, print : n = cursor.len /\ print = cursor.print
    OBVIOUS
  <2>1. n \in Nat /\ n <= Size(rotated) /\ print \in Seq(Lines) /\ Len(print) = n
    BY <1>2, <1>3
  <2>2. \A k \in 1 .. n : print[k] = rotated.before + k
    BY <1>3
  <2>3. SubSeq(Content(rotated), 1, n) = print
    BY <1>1, <2>1, <2>2, FenceFact
  <2>. QED
    BY <2>3
<1>5. ~ (cursor.at.pos < Size(rotated))
  BY <1>3, <1>4 DEF Draining
<1>6. Size(rotated) = Len(rotated.lines) /\ Len(rotated.lines) \in Nat
  BY <1>1, FileFact
<1>. QED
  BY <1>2, <1>3, <1>5, <1>6

LEMMA BeginRotationStep ==
    ASSUME TypeOK, FilesInv, BeginRotation
    PROVE  /\ TypeOK' /\ FilesInv' /\ (Kept' <=> Kept)
           /\ CursorInv => CursorInv'
           /\ ~ lagged' /\ phase # "off" /\ CursorInv /\ TailInv /\ QueueInv /\ ReaderInv =>
                 (TailInv /\ QueueInv /\ ReaderInv)'
<1>1. /\ UNCHANGED <<current, rotated, rotations, written>> /\ UNCHANGED relaySide
      /\ rotating' = "removing" /\ RotationDue /\ rotations < MaxRotations
      /\ lagged' = (lagged \/ (phase # "off" /\ rotated # Gone /\ ~ Kept))
      /\ current # Gone /\ current.torn = 0 /\ ~ Draining
  BY DEF BeginRotation, RotationDue
<1>2. TypeOK'
  BY <1>1 DEF TypeOK, relaySide
<1>3. FilesInv'
  BY <1>1, SameFiles DEF FilesInv
<1>4. ASSUME CursorInv
      PROVE  CursorInv'
  <2>1. cursor' = cursor /\ Files' = Files
    BY <1>1, SameFiles DEF relaySide
  <2>2. cursor # Gone /\ rotated # Gone /\ rotated.begun = cursor.begun =>
           cursor.at.pos = Len(rotated.lines)
    BY <1>1, <1>4, NotDraining
  <2>. QED
    BY <1>1, <1>4, <2>1, <2>2 DEF CursorInv
<1>5. ASSUME ~ lagged', phase # "off", CursorInv, TailInv, QueueInv, ReaderInv
      PROVE  TailInv'
  <2>1. ASSUME rotated # Gone
        PROVE  Live /\ tail.last >= EndOf(rotated) /\ (TailIn(rotated) => ~ Unsaved)
    <3>1. Kept
      BY <1>1, <1>5, <2>1
    <3>2. Live
      BY <1>5, <3>1 DEF TailInv, Loose
    <3>. PICK g \in Files : g.begun = cursor.begun
      BY <3>1 DEF Kept
    <3>3. /\ cursor # Gone /\ g.id = cursor.at.id /\ cursor.at.pos <= Len(g.lines)
          /\ cursor.at.last = g.before + cursor.at.pos /\ cursor.at.pos \in Nat
      BY <1>5, <3>1, LineNumbers DEF CursorInv, Kept, TypeOK, Cursor, Place
    <3>4. rotated \in File /\ rotated \in Files /\ EndOf(rotated) = NextBefore
          /\ rotated.before \in Nat /\ Len(rotated.lines) \in Nat /\ NextBefore \in Nat
      BY <2>1, FilesFact, FileFact, SessionFact DEF FilesInv
    <3>5. cursor.at.last >= EndOf(rotated)
      <4>1. CASE g = rotated
        <5>1. cursor.at.pos = Len(rotated.lines)
          BY <1>1, <1>5, <2>1, <3>3, <4>1, NotDraining
        <5>. QED
          BY <3>3, <3>4, <4>1, <5>1 DEF EndOf
      <4>2. CASE g # rotated
        <5>1. g = current /\ NextBefore = current.before
          BY <1>1, <4>2, FilesFact DEF NextBefore
        <5>. QED
          BY <3>3, <3>4, <5>1
      <4>. QED
        BY <4>1, <4>2
    <3>6. tail.last \in Nat /\ cursor.at.last \in Nat /\ cursor.at.last <= tail.last
          /\ EndOf(rotated) \in Nat /\ tail.pos \in Nat
      <4>1. cursor.at.last \in Nat
        BY <3>3, LineNumbers DEF TypeOK, Cursor, Place
      <4>. QED
        BY <1>5, <3>1, <3>4, <4>1, SessionFact DEF TailInv
    <3>7. ASSUME TailIn(rotated)
          PROVE  ~ Unsaved
      <4>1. cursor.begun = rotated.begun
        BY <1>5, <2>1, <3>1, <3>7 DEF TailInv
      <4>2. g = rotated
        BY <3>4, <4>1, OneFile
      <4>3. cursor.at.pos = Len(rotated.lines)
        BY <1>1, <1>5, <2>1, <3>3, <4>1, NotDraining
      <4>4. tail.id = rotated.id /\ tail.pos = Len(rotated.lines)
        BY <3>4, <3>5, <3>6, <3>7 DEF TailIn, EndOf
      <4>. QED
        BY <3>3, <4>2, <4>3, <4>4 DEF Unsaved
    <3>. QED
      BY <3>2, <3>5, <3>6, <3>7
  <2>2. tail' = tail /\ cursor' = cursor /\ rotated' = rotated
    BY <1>1 DEF relaySide
  <2>3. /\ Live \/ Loose
        /\ Kept => cursor.at.last <= tail.last
        /\ rotated # Gone /\ TailIn(rotated) /\ Kept => cursor.begun = rotated.begun
    BY <1>5 DEF TailInv
  <2>. QED
    BY <1>1, <2>1, <2>2, <2>3, SameFiles DEF TailInv
<1>. QED
  BY <1>1, <1>2, <1>3, <1>4, <1>5, SameFiles

LEMMA RemoveStep ==
    ASSUME TypeOK, FilesInv, RemoveRotated
    PROVE  /\ TypeOK' /\ FilesInv' /\ (Kept' => Kept)
           /\ CursorInv => CursorInv'
           /\ CursorInv /\ TailInv /\ QueueInv /\ ReaderInv => (TailInv /\ QueueInv /\ ReaderInv)'
<1>1. /\ current' = current /\ rotated' = Gone /\ rotating = "removing" /\ rotating' = "renaming"
      /\ written' = written /\ rotations' = rotations /\ lagged' = lagged /\ cursor' = cursor
      /\ tail' = tail /\ queue' = queue /\ tailer' = tailer /\ generation' = generation
      /\ UNCHANGED relaySide
  BY DEF RemoveRotated, relaySide
<1>2. /\ current # Gone /\ current \in Files /\ current \in File
      /\ \A f : f \in Files' <=> f = current
      /\ rotated # Gone => rotated \in Files /\ rotated \in File /\ Len(rotated.lines) > 0
                           /\ Len(rotated.lines) \in Nat /\ rotated.before \in Nat
                           /\ rotated.id # current.id /\ EndOf(rotated) = current.before
                           /\ current.begun # rotated.begun
      /\ NextBefore' = NextBefore /\ NextBefore = current.before /\ current.before \in Nat
      /\ Len(current.lines) \in Nat /\ current.id # Gone
  <2>1. /\ current # Gone /\ current \in Files /\ current \in File
        /\ \A f : f \in Files' <=> f = current
        /\ NextBefore' = NextBefore /\ NextBefore = current.before
        /\ current.before \in Nat /\ Len(current.lines) \in Nat /\ current.id # Gone
    BY <1>1, FilesFact, FileFact DEF FilesInv, Files, NextBefore
  <2>2. ASSUME rotated # Gone
        PROVE  /\ rotated \in Files /\ rotated \in File /\ Len(rotated.lines) > 0
               /\ Len(rotated.lines) \in Nat /\ rotated.before \in Nat
               /\ rotated.id # current.id /\ EndOf(rotated) = current.before
               /\ current.begun # rotated.begun
    <3>1. rotated \in Files /\ rotated \in File
      BY <2>2, FilesFact
    <3>2. Len(rotated.lines) > 0 /\ EndOf(rotated) = current.before /\ rotated.id # current.id
      BY <2>1, <2>2 DEF FilesInv, Shaped
    <3>3. current.begun # rotated.begun
      BY <2>1, <3>1, <3>2, OneFile
    <3>. QED
      BY <3>1, <3>2, <3>3, FileFact
  <2>. QED
    BY <2>1, <2>2
<1>3. TypeOK'
  BY <1>1 DEF TypeOK, relaySide
<1>4. FilesInv'
  BY <1>1, <1>2 DEF FilesInv
<1>5. Kept' => Kept
  BY <1>1, <1>2 DEF Kept
<1>6. CursorInv => CursorInv'
  BY <1>1, <1>2 DEF CursorInv
<1>7. ASSUME CursorInv, TailInv, QueueInv, ReaderInv
      PROVE  (TailInv /\ QueueInv /\ ReaderInv)'
  <2>1. (Unsaved' <=> Unsaved) /\ (TailIn(current)' <=> TailIn(current)) /\ Upto' = Upto
        /\ (Live' <=> TailIn(current))
    BY <1>1, <1>2 DEF Unsaved, TailIn, Upto, Live
  <2>2. /\ tail.pos \in Nat /\ tail.last \in Nat
        /\ Len(queue) \in Nat /\ queue # <<>> => Len(queue) \in DOMAIN queue
    BY SessionFact
  <2>3. ASSUME rotated # Gone, Live
        PROVE  (TailIn(rotated) \/ TailIn(current)) /\ tail.last >= current.before
    BY <1>1, <1>2, <1>7, <2>3, FilesFact DEF TailInv, Live
  <2>4. ASSUME rotated # Gone, ~ TailIn(current)
        PROVE  Loose'
    <3>1. Live /\ TailIn(rotated) /\ ~ Unsaved /\ tail.last >= EndOf(rotated)
      BY <1>1, <1>7, <2>3, <2>4 DEF TailInv
    <3>2. tail.pos = Len(rotated.lines) /\ tail.last = current.before /\ tail.id = rotated.id
      BY <1>2, <2>2, <2>4, <3>1 DEF TailIn, EndOf
    <3>3. ~ Kept'
      <4>1. ASSUME Kept'
            PROVE  FALSE
        <5>1. cursor # Gone /\ current.begun = cursor.begun
          BY <1>1, <1>2, <4>1 DEF Kept
        <5>2. current.id = cursor.at.id
          BY <1>2, <1>7, <5>1 DEF CursorInv
        <5>3. tail.id = cursor.at.id
          BY <3>1, <5>1 DEF Unsaved
        <5>. QED
          BY <1>2, <2>4, <3>2, <5>2, <5>3
      <4>. QED
        BY <4>1
    <3>4. tail.pos >= 1 /\ tail.last <= current.before
      BY <1>2, <2>4, <3>2
    <3>. QED
      BY <1>1, <1>2, <2>1, <2>4, <3>1, <3>2, <3>3, <3>4 DEF Loose
  <2>5. ASSUME rotated = Gone
        PROVE  (Live' <=> Live) /\ (Loose' <=> Loose) /\ (Kept' <=> Kept)
    <3>1. Files' = Files
      BY <1>1, <2>5 DEF Files
    <3>2. (Live' <=> Live) /\ (Kept' <=> Kept)
      BY <1>1, <3>1 DEF Live, Kept, TailIn
    <3>. QED
      BY <1>1, <1>2, <2>1, <2>5, <3>2 DEF Loose
  <2>6. TailInv'
    <3>1. Live' \/ Loose'
      BY <1>7, <2>1, <2>4, <2>5 DEF TailInv
    <3>2. Kept' => cursor.at.last <= tail.last
      BY <1>5, <1>7 DEF TailInv
    <3>. QED
      BY <1>1, <3>1, <3>2 DEF TailInv
  <2>7. ASSUME NEW k \in DOMAIN queue
        PROVE  MarkIn(queue[k], current)
    <3>. PICK f \in Files : MarkIn(queue[k], f)
      BY <1>7 DEF QueueInv
    <3>1. CASE rotated # Gone /\ f = rotated
      <4>1. queue[k].line > tail.last /\ tail.last >= EndOf(rotated)
        BY <1>1, <1>7, <3>1 DEF QueueInv, TailInv
      <4>2. queue[k].line <= EndOf(rotated)
        BY <1>2, <3>1, SessionFact DEF MarkIn, EndOf
      <4>. QED
        BY <1>2, <2>2, <3>1, <4>1, <4>2, SessionFact
    <3>2. CASE f = current
      BY <3>2
    <3>. QED
      BY <3>1, <3>2, FilesFact
  <2>8. QueueInv'
    <3>1. Live' => Live
      BY <1>2, <2>1 DEF Live
    <3>2. \A k \in DOMAIN queue : \E f \in Files' : MarkIn(queue[k], f)
      BY <1>2, <2>7
    <3>. QED
      BY <1>1, <1>7, <3>1, <3>2 DEF QueueInv
  <2>9. ASSUME queue # <<>> \/ Live'
        PROVE  \/ ReaderIn(current)
               \/ tailer.id = Gone /\ Upto = NextBefore
    <3>1. queue # <<>> \/ Live
      BY <1>2, <2>1, <2>9 DEF Live
    <3>2. \/ \E f \in Files : ReaderIn(f)
          \/ tailer.id = Gone /\ Upto = NextBefore
      BY <1>7, <3>1 DEF ReaderInv
    <3>3. ASSUME rotated # Gone, ReaderIn(rotated)
          PROVE  FALSE
      <4>1. Upto <= current.before /\ tailer.id # current.id
        BY <1>2, <3>3, SessionFact DEF ReaderIn, EndOf
      <4>2. CASE queue # <<>>
        <5>1. MarkIn(queue[Len(queue)], current) /\ Len(queue) \in DOMAIN queue
          BY <2>2, <2>7, <4>2
        <5>. QED
          BY <1>2, <4>1, <4>2, <5>1, SessionFact DEF MarkIn, Upto
      <4>3. CASE queue = <<>>
        <5>1. TailIn(current)
          BY <2>1, <2>9, <4>3
        <5>. QED
          BY <1>2, <1>7, <4>1, <5>1 DEF ReaderInv
      <4>. QED
        BY <4>2, <4>3
    <3>. QED
      BY <3>2, <3>3, FilesFact
  <2>10. ReaderInv'
    <3>1. queue' # <<>> \/ Live' =>
             \/ \E f \in Files' : ReaderIn(f)'
             \/ tailer'.id = Gone /\ Upto' = NextBefore'
      <4>1. ReaderIn(current) => \E f \in Files' : tailer'.id = f.id /\ tailer'.pos <= Len(f.lines)
                                                   /\ Upto' = f.before + tailer'.pos
        BY <1>1, <1>2, <2>1 DEF ReaderIn
      <4>. QED
        BY <1>1, <1>2, <2>1, <2>9, <4>1 DEF ReaderIn
    <3>2. /\ tailer'.generation = generation' /\ (tailer'.id = Gone => tailer'.pos = 0)
          /\ current' # Gone /\ TailIn(current)' => tailer'.id = current'.id
      BY <1>1, <1>2, <1>7, <2>1 DEF ReaderInv
    <3>. QED
      BY <1>1, <3>1, <3>2 DEF ReaderInv
  <2>. QED
    BY <2>6, <2>8, <2>10
<1>. QED
  BY <1>3, <1>4, <1>5, <1>6, <1>7

----------------------------------------------------------------------------
(* What a read returns.                                                     *)
LEMMA SameMod ==
    ASSUME UNCHANGED modSide
    PROVE  /\ current' = current /\ rotated' = rotated /\ rotating' = rotating /\ written' = written
           /\ rotations' = rotations /\ lagged' = lagged
           /\ Files' = Files /\ NextBefore' = NextBefore /\ Complete' = Complete
           /\ FilesInv => FilesInv'
<1>1. /\ current' = current /\ rotated' = rotated /\ rotating' = rotating /\ written' = written
      /\ rotations' = rotations /\ lagged' = lagged
  BY DEF modSide
<1>2. Files' = Files /\ NextBefore' = NextBefore /\ Complete' = Complete
  BY <1>1 DEF Files, NextBefore, Complete
<1>. QED
  BY <1>1, <1>2 DEF FilesInv

(* The lines a read returns.                                                *)
BatchOf(marks, f, from, n, g) ==
    /\ from <= n /\ n <= Len(f.lines) /\ Len(marks) = n - from /\ DOMAIN marks = 1 .. n - from
    /\ \A k \in 1 .. n - from :
          /\ MarkIn(marks[k], f) /\ marks[k].generation = g
          /\ marks[k].line = f.before + from + k

LEMMA BatchFact ==
    ASSUME NEW f \in File, Shaped(f), NEW from \in Nat, NEW g \in 0 .. MaxRewinds,
           NEW r \in Batches(f, from, g)
    PROVE  \E n \in Nat :
              /\ r.to = [pos |-> n, id |-> f.id, generation |-> g] /\ r.to \in Reader
              /\ r.marks \in Seq(Mark) /\ BatchOf(r.marks, f, from, n, g)
<1>1. /\ Len(f.lines) \in Nat /\ f.before \in Nat /\ f.id \in Inodes
      /\ \A k \in 1 .. Len(f.lines) : f.lines[k] \in Lines /\ f.lines[k] = f.before + k
      /\ EndOf(f) <= MaxLines
  BY FileFact, ShapedFact DEF Shaped
<1>. PICK n \in from .. Len(f.lines) :
        r = [to |-> [pos |-> n, id |-> f.id, generation |-> g],
             marks |-> [k \in 1 .. n - from |->
                          [line |-> f.lines[from + k], id |-> f.id, pos |-> from + k,
                           generation |-> g]]]
  BY DEF Batches
<1>2. /\ r.to = [pos |-> n, id |-> f.id, generation |-> g]
      /\ r.marks = [k \in 1 .. n - from |->
                          [line |-> f.lines[from + k], id |-> f.id, pos |-> from + k,
                           generation |-> g]]
  OBVIOUS
<1>3. n \in Nat /\ from <= n /\ n <= Len(f.lines) /\ n - from \in Nat /\ n <= MaxLines
  BY <1>1, LineNumbers DEF EndOf
<1>4. \A k \in 1 .. n - from :
         r.marks[k] = [line |-> f.lines[from + k], id |-> f.id, pos |-> from + k, generation |-> g]
  BY <1>2
<1>5. \A k \in 1 .. n - from : /\ from + k \in 1 .. Len(f.lines) /\ from + k \in Nat
                               /\ f.before + (from + k) = f.before + from + k
  BY <1>1, <1>3
<1>6. \A k \in 1 .. n - from : from + k \in Offsets
  BY <1>1, <1>3, <1>5, LineNumbers
<1>7. ASSUME NEW k \in 1 .. n - from
      PROVE  /\ r.marks[k] \in Mark
             /\ MarkIn(r.marks[k], f) /\ r.marks[k].generation = g
             /\ r.marks[k].line = f.before + from + k
  <2>1. /\ r.marks[k].line = f.lines[from + k] /\ r.marks[k].pos = from + k
        /\ r.marks[k].id = f.id /\ r.marks[k].generation = g
    BY <1>4
  <2>2. f.lines[from + k] \in Lines /\ f.lines[from + k] = f.before + (from + k)
    BY <1>1, <1>5
  <2>3. r.marks[k] \in Mark
    BY <1>1, <1>4, <1>6, <2>2 DEF Mark
  <2>. QED
    BY <1>5, <2>1, <2>2, <2>3 DEF MarkIn
<1>8. DOMAIN r.marks = 1 .. n - from
  BY <1>2
<1>9. r.marks \in Seq(Mark) /\ Len(r.marks) = n - from
  <2>1. r.marks \in [1 .. n - from -> Mark]
    BY <1>2, <1>7
  <2>2. r.marks \in Seq(Mark)
    BY ZenonT(30), <1>3, <2>1, SeqDef
  <2>. QED
    BY <1>3, <1>8, <2>2, LenProperties
<1>10. r.to \in Reader
  <2>1. n \in Offsets
    BY <1>3, LineNumbers
  <2>. QED
    BY <1>1, <1>2, <2>1 DEF Reader
<1>11. BatchOf(r.marks, f, from, n, g)
  BY <1>3, <1>7, <1>8, <1>9 DEF BatchOf
<1>. QED
  BY <1>2, <1>3, <1>9, <1>10, <1>11

(* A read takes up in the own file, or, when the own file is .1 and is      *)
(* read, at the start of the outbox; and only of a file that is neither     *)
(* does it start over.                                                      *)
Goes(t, f, from, g) ==
    \/ /\ t.id = f.id /\ from = t.pos /\ g = t.generation
    \/ /\ current # Gone /\ f = current /\ t.id = Gone /\ from = t.pos /\ g = t.generation
    \/ /\ current # Gone /\ f = current /\ from = 0 /\ g = t.generation
       /\ rotated # Gone /\ t.id = rotated.id /\ t.pos >= Len(rotated.lines)
    \/ /\ current # Gone /\ f = current /\ from = 0
       /\ g \in 0 .. MaxRewinds /\ ~ Ours(t) /\ ~ OwnRotated(t)

LEMMA ReadsFact ==
    ASSUME TypeOK, FilesInv, NEW t \in Reader, NEW r \in Reads(t)
    PROVE  \/ /\ r.marks = <<>> /\ r.to = [t EXCEPT !.pos = 0, !.id = Gone] /\ r.to \in Reader
              /\ current = Gone /\ rotated # Gone /\ t.id = rotated.id
              /\ t.pos >= Len(rotated.lines)
           \/ \E f \in Files, from \in Nat, g \in 0 .. MaxRewinds :
                 Goes(t, f, from, g) /\ r \in Batches(f, from, g)
<1>1. /\ t.pos \in Nat /\ 0 \in Nat /\ t.generation \in 0 .. MaxRewinds /\ t.generation \in Nat
      /\ 0 \in Offsets
  BY LineNumbers DEF Reader
<1>2. /\ current # Gone => current \in Files
      /\ rotated # Gone => rotated \in Files /\ rotated \in File /\ Len(rotated.lines) \in Nat
  BY FilesFact, FileFact
<1>. DEFINE drain == ~ Ours(t) /\ OwnRotated(t)
<1>3. drain => rotated # Gone /\ t.id = rotated.id
  BY DEF OwnRotated
<1>4. CASE drain /\ t.pos < Len(rotated.lines)
  <2>1. r \in Batches(rotated, t.pos, t.generation)
    BY <1>4 DEF Reads
  <2>2. Goes(t, rotated, t.pos, t.generation)
    BY <1>3, <1>4 DEF Goes
  <2>. QED
    BY <1>1, <1>2, <1>3, <1>4, <2>1, <2>2
<1>5. CASE ~ (drain /\ t.pos < Len(rotated.lines)) /\ current = Gone
  <2>1. drain /\ r \in {[to |-> [t EXCEPT !.pos = 0, !.id = Gone], marks |-> <<>>]}
    BY <1>5 DEF Reads
  <2>2. r = [to |-> [t EXCEPT !.pos = 0, !.id = Gone], marks |-> <<>>]
    BY <2>1
  <2>3. r.marks = <<>> /\ r.to = [t EXCEPT !.pos = 0, !.id = Gone]
    BY <2>2
  <2>4. [t EXCEPT !.pos = 0, !.id = Gone] \in Reader
    BY <1>1 DEF Reader
  <2>5. t.pos >= Len(rotated.lines)
    BY <1>1, <1>2, <1>3, <1>5, <2>1
  <2>. QED
    BY <1>3, <1>5, <2>1, <2>3, <2>4, <2>5
<1>6. CASE ~ (drain /\ t.pos < Len(rotated.lines)) /\ current # Gone
  <2>1. CASE Ours(t)
    <3>1. r \in Batches(current, t.pos, t.generation)
      BY <1>6, <2>1 DEF Reads
    <3>2. Goes(t, current, t.pos, t.generation)
      BY <1>6, <2>1 DEF Goes, Ours
    <3>. QED
      BY <1>1, <1>2, <1>6, <3>1, <3>2
  <2>2. CASE drain
    <3>1. r \in Batches(current, 0, t.generation)
      BY <1>6, <2>2 DEF Reads
    <3>2. t.pos >= Len(rotated.lines)
      BY <1>1, <1>2, <1>3, <1>6, <2>2
    <3>3. Goes(t, current, 0, t.generation)
      BY <1>3, <1>6, <2>2, <3>2 DEF Goes
    <3>. QED
      BY <1>1, <1>2, <1>6, <3>1, <3>3
  <2>3. CASE ~ Ours(t) /\ ~ drain
    <3>1. t.generation < MaxRewinds /\ r \in Batches(current, 0, t.generation + 1)
      BY <1>6, <2>3 DEF Reads
    <3>2. t.generation + 1 \in 0 .. MaxRewinds
      BY <1>1, <3>1, LineNumbers
    <3>3. Goes(t, current, 0, t.generation + 1)
      BY <1>6, <2>3, <3>2 DEF Goes
    <3>. QED
      BY <1>1, <1>2, <1>6, <3>1, <3>2, <3>3
  <2>. QED
    BY <2>1, <2>2, <2>3
<1>. QED
  BY <1>4, <1>5, <1>6

(* Whatever it returns, it has its type.                                    *)
LEMMA ReadTyped ==
    ASSUME TypeOK, FilesInv, NEW t \in Reader, NEW r \in Reads(t)
    PROVE  r.to \in Reader /\ r.marks \in Seq(Mark)
<1>1. <<>> \in Seq(Mark)
  BY EmptySeq
<1>2. ASSUME NEW f \in Files, NEW from \in Nat, NEW g \in 0 .. MaxRewinds, r \in Batches(f, from, g)
      PROVE  r.to \in Reader /\ r.marks \in Seq(Mark)
  <2>1. f \in File /\ Shaped(f)
    BY FilesFact DEF FilesInv
  <2>. QED
    BY <1>2, <2>1, BatchFact
<1>. QED
  BY <1>1, <1>2, ReadsFact

----------------------------------------------------------------------------
(* The cursor is written for a place in a file.                             *)
PlaceIn(place, f) ==
    place.id = f.id /\ place.pos <= Len(f.lines) /\ place.last = f.before + place.pos

LEMMA SaveFact ==
    ASSUME TypeOK, FilesInv, NEW place \in Place, NEW f \in Files, PlaceIn(place, f),
           rotating = "removing" /\ rotated # Gone /\ f = rotated => place.pos = Len(rotated.lines),
           SaveCursor(place), UNCHANGED modSide
    PROVE  /\ cursor' \in Cursor /\ cursor' # Gone /\ cursor'.at = place /\ cursor'.begun = f.begun
           /\ Kept' /\ CursorInv'
<1>. PICK g \in Files :
        /\ g.id = place.id
        /\ cursor' = [at |-> place, len |-> Size(g), print |-> Content(g), begun |-> g.begun]
  BY DEF SaveCursor
<1>1. g = f
  BY OneFile DEF PlaceIn
<1>2. /\ cursor'.at = place /\ cursor'.len = Size(f) /\ cursor'.print = Content(f)
      /\ cursor'.begun = f.begun
  BY <1>1
<1>3. /\ f \in File /\ Shaped(f) /\ Size(f) \in Nat /\ Content(f) \in Seq(Lines) /\ f.begun \in 0 .. MaxRotations
      /\ Size(f) >= 1 /\ \A k \in 1 .. Size(f) : Content(f)[k] = f.before + k
      /\ f.before \in Nat /\ Len(Content(f)) = Size(f) /\ EndOf(f) <= MaxLines
      /\ Len(f.lines) \in Nat
  <2>1. f \in File /\ Shaped(f)
    BY FilesFact DEF FilesInv
  <2>. QED
    BY <2>1, FileFact, ShapedFact DEF Size
<1>4. f.before + Size(f) <= written /\ written \in Nat /\ written <= MaxLines
  <2>1. written \in Nat /\ written <= MaxLines /\ MaxLines \in Nat
    BY LineNumbers DEF TypeOK
  <2>2. CASE current # Gone /\ f = current
    BY <2>1, <2>2, <1>3 DEF FilesInv
  <2>3. CASE rotated # Gone /\ f = rotated
    <3>1. Size(f) = Len(f.lines) /\ f.before + Size(f) = NextBefore
      BY <1>3, <2>3, FileFact DEF FilesInv, EndOf
    <3>2. NextBefore <= written
      <4>1. CASE current = Gone
        BY <2>1, <4>1 DEF NextBefore
      <4>2. CASE current # Gone
        <5>1. current \in File
          BY <4>2, FilesFact
        <5>2. Size(current) \in Nat /\ current.before \in Nat
          BY <5>1, FileFact
        <5>3. current.before + Size(current) = written
          BY <4>2 DEF FilesInv
        <5>. QED
          BY <2>1, <4>2, <5>2, <5>3 DEF NextBefore
      <4>. QED
        BY <4>1, <4>2
    <3>. QED
      BY <2>1, <3>1, <3>2
  <2>. QED
    BY <2>2, <2>3, FilesFact
<1>5. Size(f) \in Offsets
  BY <1>3, <1>4, LineNumbers
<1>6. cursor' \in Cursor
  BY <1>1, <1>3, <1>5 DEF Cursor
<1>7. cursor' # Gone
  BY <1>6, GoneAssumption
<1>8. /\ cursor'.print[1] = f.before + 1 /\ cursor'.print[1] <= written
  BY <1>2, <1>3, <1>4
<1>9. f.begun \in Nat /\ rotations \in Nat /\ f.begun <= rotations /\ (current = Gone => f.begun < rotations)
  <2>1. f.begun \in Nat /\ rotations \in Nat
    BY <1>3, FilesFact, FileFact
  <2>. QED
    BY <2>1, FilesFact DEF FilesInv
<1>10. ASSUME NEW h \in Files
       PROVE  /\ h.begun = f.begun =>
                    /\ h.id = place.id /\ Size(f) <= Size(h)
                    /\ \A k \in 1 .. Size(f) : Content(f)[k] = h.before + k
                    /\ place.pos <= Len(h.lines) /\ place.last = h.before + place.pos
              /\ h.begun # f.begun => f.before + 1 # h.before + 1
  <2>1. CASE h = f
    BY <1>3, <2>1 DEF PlaceIn
  <2>2. CASE h # f
    <3>1. h.begun # f.begun /\ h.before # f.before
      BY <2>2, OneFile
    <3>2. h.before \in Nat
      BY FilesFact, FileFact
    <3>. QED
      BY <1>3, <3>1, <3>2
  <2>. QED
    BY <2>1, <2>2
<1>11. rotating = "removing" /\ rotated # Gone /\ rotated.begun = f.begun =>
          place.pos = Len(rotated.lines)
  BY OneFile, FilesFact
<1>12. current' = current /\ rotated' = rotated /\ rotating' = rotating /\ written' = written
       /\ rotations' = rotations /\ Files' = Files
  BY SameMod
<1>13. Kept'
  BY <1>2, <1>7, <1>12 DEF Kept
<1>14. CursorInv'
  BY <1>2, <1>3, <1>8, <1>9, <1>10, <1>11, <1>12 DEF CursorInv
<1>. QED
  BY <1>2, <1>6, <1>7, <1>13, <1>14

(* A save, or none, keeps the type of the cursor.                           *)
LEMMA SaveTyped ==
    ASSUME TypeOK, NEW place \in Place, MaySave(place), FilesInv
    PROVE  cursor' \in Cursor \cup {Gone}
<1>1. CASE SaveCursor(place)
  <2>. PICK g \in Files :
        /\ cursor' = [at |-> place, len |-> Size(g), print |-> Content(g), begun |-> g.begun]
    BY <1>1 DEF SaveCursor
  <2>1. g \in File /\ Shaped(g)
    BY FilesFact DEF FilesInv
  <2>2. Size(g) \in Nat /\ Content(g) \in Seq(Lines) /\ g.begun \in 0 .. MaxRotations
        /\ g.before \in Nat /\ Len(g.lines) \in Nat
        /\ (g.torn = 0 => Size(g) = Len(g.lines)) /\ EndOf(g) <= MaxLines
    BY <2>1, FileFact, ShapedFact
  <2>3. Size(g) <= MaxLines
    <3>1. CASE g.torn = 0
      BY <2>2, <3>1, LineNumbers DEF EndOf
    <3>2. CASE g.torn # 0
      <4>1. current # Gone /\ g = current
        BY <3>2, FilesFact DEF FilesInv
      <4>2. g.before + Size(g) = written /\ written \in Nat /\ written <= MaxLines
        BY <4>1, LineNumbers DEF FilesInv, TypeOK
      <4>. QED
        BY <2>2, <4>2, LineNumbers
    <3>. QED
      BY <3>1, <3>2
  <2>4. Size(g) \in Offsets
    BY <2>2, <2>3, LineNumbers
  <2>. QED
    BY <2>2, <2>4 DEF Cursor
<1>2. CASE UNCHANGED cursor
  BY <1>2 DEF TypeOK
<1>. QED
  BY <1>1, <1>2 DEF MaySave

----------------------------------------------------------------------------
(* The relay reads.                                                         *)
LEMMA ReadAheadStep ==
    ASSUME TypeOK, FilesInv, ReadAhead
    PROVE  /\ TypeOK' /\ FilesInv' /\ (Kept' <=> Kept)
           /\ CursorInv => CursorInv'
           /\ SessionInv => SessionInv'
           /\ UNCHANGED <<modSide, cursor, tail>> /\ (phase' # "off" <=> phase # "off")
<1>1. /\ UNCHANGED modSide /\ cursor' = cursor /\ tailer' = tailer /\ queue' = queue
      /\ generation' = generation /\ tail' = tail /\ phase = "probing"
  BY DEF ReadAhead
<1>2. /\ current' = current /\ rotated' = rotated /\ rotating' = rotating /\ written' = written
      /\ rotations' = rotations /\ lagged' = lagged
      /\ Files' = Files /\ NextBefore' = NextBefore /\ FilesInv'
  BY <1>1, SameMod
<1>. PICK r \in Reads(probe) :
        /\ probe' = r.to
        /\ \/ \E k \in DOMAIN r.marks :
                 /\ hoisted' = [r.marks[k] EXCEPT !.generation = tailer.generation]
                 /\ startup' = r.marks[k].line /\ phase' = "reading"
           \/ UNCHANGED <<hoisted, startup, phase>>
  BY DEF ReadAhead
<1>3. r.to \in Reader /\ r.marks \in Seq(Mark)
  BY ReadTyped DEF TypeOK
<1>4. /\ hoisted' \in Mark \cup {Gone} /\ startup' \in Offsets /\ phase' \in {"probing", "reading"}
  <2>1. ASSUME NEW k \in DOMAIN r.marks
        PROVE  [r.marks[k] EXCEPT !.generation = tailer.generation] \in Mark /\ r.marks[k].line \in Offsets
    <3>1. r.marks[k] \in Mark
      BY <1>3, LenProperties, ElementOfSeq
    <3>2. tailer.generation \in 0 .. MaxRewinds
      BY SessionFact
    <3>. QED
      BY <3>1, <3>2, LineNumbers DEF Mark
  <2>2. hoisted \in Mark \cup {Gone} /\ startup \in Offsets
    BY DEF TypeOK
  <2>. QED
    BY <1>1, <2>1, <2>2
<1>5. TypeOK'
  BY <1>1, <1>2, <1>3, <1>4 DEF TypeOK
<1>6. (Kept' <=> Kept) /\ (Unsaved' <=> Unsaved) /\ (Live' <=> Live)
      /\ (TailIn(current)' <=> TailIn(current)) /\ (TailIn(rotated)' <=> TailIn(rotated))
      /\ Upto' = Upto
  BY <1>1, <1>2 DEF Kept, Unsaved, Live, TailIn, Upto
<1>7. CursorInv => CursorInv'
  BY <1>1, <1>2 DEF CursorInv
<1>8. Loose' <=> Loose
  BY <1>1, <1>2, <1>6 DEF Loose
<1>9. TailInv => TailInv'
  BY <1>1, <1>2, <1>6, <1>8 DEF TailInv
<1>10. QueueInv => QueueInv'
  BY <1>1, <1>2, <1>6 DEF QueueInv
<1>11. ReaderInv => ReaderInv'
  BY <1>1, <1>2, <1>6 DEF ReaderInv, ReaderIn
<1>12. SessionInv => SessionInv'
  BY <1>1, <1>4, <1>9, <1>10, <1>11 DEF SessionInv
<1>. QED
  BY <1>1, <1>2, <1>4, <1>5, <1>6, <1>7, <1>12

(* The line at the head of the queue.                                       *)
First == queue[1].line

LEMMA QueueFact ==
    ASSUME TypeOK, QueueInv, queue # <<>>
    PROVE  /\ First \in Nat /\ \A k \in DOMAIN queue : queue[k].line = First + k - 1
           /\ Upto = First + Len(queue) - 1 /\ Upto > tail.last
           /\ Live => Upto = tail.last + Len(queue)
<1>1. First \in Nat /\ \A k \in DOMAIN queue : queue[k].line = First + k - 1
  BY SessionFact DEF QueueInv, First
<1>2. Len(queue) \in DOMAIN queue /\ Upto = queue[Len(queue)].line
  BY SessionFact DEF Upto
<1>3. Upto > tail.last /\ (Live => Upto = tail.last + Len(queue))
  BY <1>2 DEF QueueInv
<1>. QED
  BY <1>1, <1>2, <1>3

(* Where they belong behind the queue.                                      *)
Follows(f, from, g) ==
    /\ f = current \/ tailer.id = f.id
    /\ queue # <<>> => g = generation /\ Upto = f.before + from
    /\ Live => f.before + from = tail.last + Len(queue)
    /\ f.before + from >= tail.last

Advance(f, n, g, marks) ==
    /\ UNCHANGED modSide /\ cursor' = cursor /\ tail' = tail
    /\ queue' = queue \o marks /\ generation' = g
    /\ tailer' = [pos |-> n, id |-> f.id, generation |-> g]

LEMMA ReadOn ==
    ASSUME TypeOK, FilesInv, QueueInv, ReaderInv,
           NEW f \in Files, NEW from \in Nat, NEW n \in Nat, NEW g \in 0 .. MaxRewinds,
           NEW marks \in Seq(Mark), BatchOf(marks, f, from, n, g), Follows(f, from, g),
           Advance(f, n, g, marks)
    PROVE  QueueInv' /\ ReaderInv'
<1>1. /\ current' = current /\ rotated' = rotated /\ Files' = Files /\ NextBefore' = NextBefore
      /\ tail' = tail /\ (Live' <=> Live) /\ (TailIn(current)' <=> TailIn(current))
      /\ queue' = queue \o marks /\ generation' = g
  BY SameMod DEF Live, TailIn, Advance
<1>n. /\ f.before \in Nat /\ Len(f.lines) \in Nat /\ tail.last \in Nat /\ Len(queue) \in Nat
      /\ n - from \in Nat /\ from <= n /\ n <= Len(f.lines)
      /\ f.before + from >= tail.last
  BY FilesFact, FileFact, SessionFact DEF BatchOf, Follows
<1>2. /\ f \in File /\ f.before \in Nat /\ Len(f.lines) \in Nat /\ f.id # Gone
      /\ tail.last \in Nat /\ queue \in Seq(Mark) /\ Len(queue) \in Nat /\ DOMAIN queue = 1 .. Len(queue)
      /\ \A k \in DOMAIN queue : queue[k].line \in Nat
      /\ queue # <<>> => Len(queue) > 0 /\ 1 \in DOMAIN queue
      /\ n - from \in Nat /\ Len(marks) = n - from /\ n <= Len(f.lines) /\ from <= n
  BY FilesFact, FileFact, SessionFact DEF BatchOf
<1>3. /\ queue' \in Seq(Mark) /\ Len(queue') = Len(queue) + (n - from)
      /\ DOMAIN queue' = 1 .. Len(queue) + (n - from)
      /\ \A k \in 1 .. Len(queue) : queue'[k] = queue[k]
      /\ \A k \in Len(queue) + 1 .. Len(queue) + (n - from) : queue'[k] = marks[k - Len(queue)]
  <2>1. /\ queue \o marks \in Seq(Mark)
        /\ Len(queue \o marks) = Len(queue) + Len(marks)
        /\ \A k \in 1 .. Len(queue) + Len(marks) :
              (queue \o marks)[k] = IF k <= Len(queue) THEN queue[k] ELSE marks[k - Len(queue)]
    BY <1>2, ConcatProperties
  <2>2. DOMAIN (queue \o marks) = 1 .. Len(queue) + (n - from)
    BY <1>2, <2>1, LenProperties
  <2>3. \A k \in 1 .. Len(queue) : k \in 1 .. Len(queue) + Len(marks) /\ k <= Len(queue)
    BY <1>2
  <2>4. \A k \in Len(queue) + 1 .. Len(queue) + (n - from) :
           k \in 1 .. Len(queue) + Len(marks) /\ ~ (k <= Len(queue))
    BY <1>2
  <2>5. Len(marks) = n - from
    BY <1>2
  <2>. QED
    BY <1>1, <1>n, <2>1, <2>2, <2>3, <2>4, <2>5
<1>4. ASSUME NEW k \in DOMAIN queue'
      PROVE  /\ queue'[k].generation = g
             /\ \E h \in Files : MarkIn(queue'[k], h)
             /\ queue'[k].line = f.before + from - Len(queue) + k
             /\ queue'[k].line > tail.last
  <2>1. CASE k \in 1 .. Len(queue)
    <3>1. k \in DOMAIN queue /\ queue # <<>> /\ queue'[k] = queue[k]
      BY <1>2, <1>3, <2>1, EmptySeq
    <3>2. /\ queue[k].generation = generation /\ \E h \in Files : MarkIn(queue[k], h)
          /\ queue[k].line = First + k - 1 /\ queue[k].line > tail.last
      BY <3>1, QueueFact DEF QueueInv
    <3>3. First + Len(queue) - 1 = f.before + from /\ First \in Nat
          /\ generation = g
      BY <3>1, QueueFact DEF Follows
    <3>4. First + k - 1 = f.before + from - Len(queue) + k
      BY <1>n, <2>1, <3>3
    <3>. QED
      BY <3>1, <3>2, <3>3, <3>4
  <2>2. CASE k \in Len(queue) + 1 .. Len(queue) + (n - from)
    <3>1. k - Len(queue) \in 1 .. n - from /\ queue'[k] = marks[k - Len(queue)]
      <4>1. k - Len(queue) \in 1 .. n - from
        BY <1>n, <2>2
      <4>. QED
        BY <1>3, <2>2, <4>1
    <3>2. /\ MarkIn(queue'[k], f) /\ queue'[k].generation = g
          /\ queue'[k].line = f.before + from + (k - Len(queue))
      BY <3>1 DEF BatchOf
    <3>3. /\ f.before + from + (k - Len(queue)) = f.before + from - Len(queue) + k
          /\ f.before + from + (k - Len(queue)) > tail.last
      BY SMTT(30), <1>n, <2>2
    <3>. QED
      BY <3>2, <3>3
  <2>. QED
    BY <1>2, <1>3, <2>1, <2>2
<1>5. ASSUME NEW k \in DOMAIN queue'
      PROVE  /\ queue'[k].line = queue'[1].line + k - 1
             /\ Live => queue'[k].line = tail.last + k
  <2>1. 1 \in DOMAIN queue' /\ k \in Nat
    BY <1>2, <1>3
  <2>2. First' = f.before + from - Len(queue) + 1
    BY SMTT(30), <1>4, <2>1 DEF First
  <2>3. queue'[k].line = f.before + from - Len(queue) + k
    BY <1>4, Zenon
  <2>5. First' + k - 1 = f.before + from - Len(queue) + k
    BY <1>n, <2>1, <2>2
  <2>6. queue'[1].line = First'
    BY DEF First
  <2>4. Live => f.before + from = tail.last + Len(queue)
    BY DEF Follows
  <2>8. Live => f.before + from - Len(queue) + k = tail.last + k
    BY SMTT(30), <1>n, <2>1, <2>4
  <2>7. Live => queue'[k].line = tail.last + k
    BY <2>3, <2>8
  <2>. QED
    BY <2>3, <2>5, <2>6, <2>7
<1>6. QueueInv'
  BY <1>1, <1>4, <1>5 DEF QueueInv
<1>7. tailer'.generation = generation' /\ tailer'.id = f.id /\ tailer'.pos = n
  BY DEF Advance
<1>8. ASSUME queue' # <<>> \/ Live
      PROVE  Upto' = f.before + n
  <2>1. CASE queue' # <<>>
    <3>1. Len(queue') \in DOMAIN queue'
      BY <1>2, <1>3, <2>1, EmptySeq
    <3>2. Upto' = queue'[Len(queue')].line
      BY <2>1 DEF Upto
    <3>3. queue'[Len(queue')].line = f.before + from - Len(queue) + Len(queue')
      BY <1>4, <3>1
    <3>4. Len(queue') = Len(queue) + (n - from)
      BY <1>3
    <3>5. f.before + from - Len(queue) + (Len(queue) + (n - from)) = f.before + n
      BY <1>n
    <3>. QED
      BY <3>2, <3>3, <3>4, <3>5
  <2>2. CASE queue' = <<>>
    <3>1. Len(queue') = 0 /\ Live
      BY <1>8, <2>2, EmptySeq
    <3>2. Upto' = tail.last
      BY <1>1, <2>2 DEF Upto
    <3>3. f.before + from = tail.last + Len(queue) /\ Len(queue) + (n - from) = 0
      BY <1>3, <3>1 DEF Follows
    <3>. QED
      BY <1>n, <3>2, <3>3
  <2>. QED
    BY <2>1, <2>2
<1>9. ASSUME current # Gone, TailIn(current)
      PROVE  f.id = current.id
  BY <1>9, FilesFact DEF ReaderInv, Follows
<1>10. ASSUME rotated # Gone, f.id = rotated.id
       PROVE  rotated.before + n >= tail.last
  <2>1. f = rotated
    BY <1>10, OneFile, FilesFact
  <2>. QED
    BY <1>2, <2>1 DEF Follows
<1>11. ReaderInv'
  <2>1. queue' # <<>> \/ Live' => \E h \in Files' : ReaderIn(h)'
    BY <1>1, <1>2, <1>7, <1>8 DEF ReaderIn
  <2>2. f.id # Gone
    BY <1>2
  <2>. QED
    BY <1>1, <1>7, <1>9, <1>10, <2>1, <2>2 DEF ReaderInv, ReaderIn
<1>. QED
  BY <1>6, <1>11

LEMMA ReadInOrderStep ==
    ASSUME TypeOK, FilesInv, ReadInOrder
    PROVE  /\ TypeOK' /\ FilesInv' /\ (Kept' <=> Kept)
           /\ CursorInv => CursorInv'
           /\ TailInv /\ QueueInv /\ ReaderInv => (TailInv /\ QueueInv /\ ReaderInv)'
           /\ UNCHANGED <<modSide, cursor, tail, phase>>
<1>1. /\ UNCHANGED <<modSide, cursor, tail, phase>> /\ UNCHANGED modSide
      /\ cursor' = cursor /\ probe' = probe
      /\ tail' = tail /\ hoisted' = hoisted /\ startup' = startup /\ phase' = phase
  BY DEF ReadInOrder
<1>2. /\ current' = current /\ rotated' = rotated /\ rotating' = rotating /\ written' = written
      /\ rotations' = rotations /\ lagged' = lagged
      /\ Files' = Files /\ NextBefore' = NextBefore /\ FilesInv'
  BY <1>1, SameMod
<1>. PICK r \in Reads(tailer) :
        tailer' = r.to /\ queue' = queue \o r.marks /\ generation' = r.to.generation
  BY DEF ReadInOrder
<1>3. r.to \in Reader /\ r.marks \in Seq(Mark) /\ tailer \in Reader /\ queue \in Seq(Mark)
  BY ReadTyped DEF TypeOK
<1>4. queue' \in Seq(Mark) /\ generation' \in 0 .. MaxRewinds
  BY <1>3, ConcatProperties DEF Reader
<1>5. TypeOK'
  BY <1>1, <1>2, <1>3, <1>4 DEF TypeOK
<1>6. (Kept' <=> Kept) /\ (Unsaved' <=> Unsaved) /\ (Live' <=> Live)
      /\ (TailIn(current)' <=> TailIn(current)) /\ (TailIn(rotated)' <=> TailIn(rotated))
  BY <1>1, <1>2 DEF Kept, Unsaved, Live, TailIn
<1>7. CursorInv => CursorInv'
  BY <1>1, <1>2 DEF CursorInv
<1>8. Loose' <=> Loose
  BY <1>1, <1>2, <1>6 DEF Loose
<1>9. TailInv => TailInv'
  BY <1>1, <1>2, <1>6, <1>8 DEF TailInv
<1>10. ASSUME TailInv, QueueInv, ReaderInv
       PROVE  QueueInv' /\ ReaderInv'
  <2>1. /\ tail.last \in Nat /\ tail.pos \in Nat /\ tailer.pos \in Nat /\ Len(queue) \in Nat
        /\ DOMAIN queue = 1 .. Len(queue)
        /\ queue # <<>> => Len(queue) > 0 /\ Len(queue) \in DOMAIN queue /\ 1 \in DOMAIN queue
        /\ \A k \in DOMAIN queue : queue[k].line \in Nat
        /\ tailer.id \in Inodes \cup {Gone} /\ Gone \notin Inodes
        /\ NextBefore \in Nat
    BY SessionFact
  <2>2. /\ current # Gone => /\ current \in Files /\ current \in File /\ NextBefore = current.before
                             /\ current.id # Gone /\ current.before \in Nat /\ Len(current.lines) \in Nat
                             /\ Size(current) \in Nat /\ Len(current.lines) <= Size(current)
        /\ rotated # Gone => /\ rotated \in Files /\ rotated \in File /\ EndOf(rotated) = NextBefore
                             /\ rotated.id # Gone /\ rotated.before \in Nat /\ Len(rotated.lines) \in Nat
                             /\ Size(rotated) \in Nat /\ Len(rotated.lines) <= Size(rotated)
    BY FilesFact, FileFact, ShapedFact DEF FilesInv, NextBefore
  <2>3. /\ queue # <<>> \/ Live =>
              \/ current # Gone /\ ReaderIn(current)
              \/ rotated # Gone /\ ReaderIn(rotated)
              \/ tailer.id = Gone /\ tailer.pos = 0 /\ Upto = NextBefore
    BY <1>10, FilesFact DEF ReaderInv
  <2>4. /\ queue # <<>> => Upto >= tail.last
        /\ Live => Upto = tail.last + Len(queue)
        /\ ~ Live => tail.last <= NextBefore
        /\ queue = <<>> => Upto = tail.last /\ Len(queue) = 0
    <3>1. ASSUME queue # <<>>
          PROVE  Upto > tail.last /\ (Live => Upto = tail.last + Len(queue)) /\ Upto \in Int
      BY <1>10, <2>1, <3>1, QueueFact
    <3>2. ASSUME queue = <<>>
          PROVE  Upto = tail.last /\ Len(queue) = 0
      BY <3>2, EmptySeq DEF Upto
    <3>3. ~ Live => tail.last <= NextBefore
      BY <1>10 DEF TailInv, Loose
    <3>. QED
      BY <2>1, <3>1, <3>2, <3>3
  <2>5. CASE /\ r.marks = <<>> /\ r.to = [tailer EXCEPT !.pos = 0, !.id = Gone]
             /\ current = Gone /\ rotated # Gone /\ tailer.id = rotated.id
             /\ tailer.pos >= Len(rotated.lines)
    <3>1. queue' = queue /\ tailer'.pos = 0 /\ tailer'.id = Gone
          /\ tailer'.generation = tailer.generation /\ generation' = tailer.generation
      <4>1. queue \o <<>> = queue
        BY <1>3, ConcatEmptySeq
      <4>2. /\ r.to.pos = 0 /\ r.to.id = Gone /\ r.to.generation = tailer.generation
        BY <1>3, <2>5 DEF Reader
      <4>. QED
        BY <2>5, <4>1, <4>2
    <3>2. generation' = generation /\ Upto' = Upto
      BY <1>1, <1>10, <3>1 DEF ReaderInv, Upto
    <3>3. QueueInv'
      BY <1>1, <1>2, <1>6, <1>10, <3>1, <3>2 DEF QueueInv
    <3>4. queue # <<>> \/ Live => Upto = NextBefore
      BY <2>1, <2>2, <2>3, <2>5 DEF ReaderIn, EndOf
    <3>5. ReaderInv'
      <4>1. rotated'.id # tailer'.id
        BY <1>2, <2>2, <2>5, <3>1
      <4>2. current' = Gone
        BY <1>2, <2>5
      <4>. QED
        BY <1>2, <1>6, <3>1, <3>2, <3>4, <4>1, <4>2 DEF ReaderInv
    <3>. QED
      BY <3>3, <3>5
  <2>6. ASSUME NEW f \in Files, NEW from \in Nat, NEW g \in 0 .. MaxRewinds,
               Goes(tailer, f, from, g), r \in Batches(f, from, g)
        PROVE  QueueInv' /\ ReaderInv'
    <3>1. f \in File /\ Shaped(f) /\ Len(f.lines) \in Nat /\ f.before \in Nat /\ f.id # Gone
      BY FilesFact, FileFact DEF FilesInv
    <3>. PICK n \in Nat :
              /\ r.to = [pos |-> n, id |-> f.id, generation |-> g]
              /\ BatchOf(r.marks, f, from, n, g)
      BY <2>6, <3>1, BatchFact
    <3>2. from <= Len(f.lines)
      BY <3>1 DEF BatchOf
    <3>3. f = current \/ tailer.id = f.id
      BY <2>6 DEF Goes
    <3>4. ASSUME queue # <<>> \/ Live
          PROVE  g = generation /\ f.before + from = Upto
      <4>1. CASE tailer.id = f.id /\ from = tailer.pos /\ g = tailer.generation
        <5>1. ReaderIn(f)
          <6>1. \E h \in Files : ReaderIn(h)
            BY <1>10, <3>1, <3>4, <4>1 DEF ReaderInv
          <6>. QED
            BY <4>1, <6>1, OneFile DEF ReaderIn
        <5>. QED
          BY <1>10, <4>1, <5>1 DEF ReaderIn, ReaderInv
      <4>2. CASE current # Gone /\ f = current /\ tailer.id = Gone /\ from = tailer.pos
                 /\ g = tailer.generation
        <5>1. tailer.pos = 0 /\ Upto = NextBefore
          BY <2>2, <2>3, <3>4, <4>2 DEF ReaderIn
        <5>. QED
          BY <1>10, <2>2, <4>2, <5>1 DEF ReaderInv
      <4>3. CASE current # Gone /\ f = current /\ from = 0 /\ g = tailer.generation
                 /\ rotated # Gone /\ tailer.id = rotated.id /\ tailer.pos >= Len(rotated.lines)
        <5>1. ReaderIn(rotated)
          <6>1. current.id # rotated.id
            BY <4>3 DEF FilesInv
          <6>. QED
            BY <2>2, <2>3, <3>4, <4>3, <6>1 DEF ReaderIn
        <5>2. Upto = EndOf(rotated)
          BY <2>1, <2>2, <4>3, <5>1 DEF ReaderIn, EndOf
        <5>. QED
          BY <1>10, <2>2, <4>3, <5>2 DEF ReaderInv
      <4>4. CASE current # Gone /\ f = current /\ ~ Ours(tailer) /\ ~ OwnRotated(tailer)
        <5>1. ~ (current # Gone /\ ReaderIn(current))
          BY <2>1, <2>2, <4>4 DEF ReaderIn, Ours
        <5>2. ~ (rotated # Gone /\ ReaderIn(rotated))
          BY <2>1, <2>2, <4>4 DEF ReaderIn, OwnRotated
        <5>3. tailer.id = Gone /\ tailer.pos = 0
          BY <2>3, <3>4, <5>1, <5>2
        <5>. QED
          BY <2>2, <4>4, <5>3 DEF Ours
      <4>. QED
        BY <2>6, <4>1, <4>2, <4>3, <4>4 DEF Goes
    <3>5. ASSUME queue = <<>>, ~ Live
          PROVE  f.before + from >= tail.last
      <4>1. tail.last <= NextBefore
        BY <2>4, <3>5
      <4>2. CASE f = current
        BY SMTT(30), <2>1, <2>2, <3>1, <4>1, <4>2, FilesFact
      <4>3. CASE f # current
        <5>1. rotated # Gone /\ f = rotated /\ tailer.id = rotated.id /\ from = tailer.pos
          BY <2>6, <4>3, FilesFact DEF Goes
        <5>. QED
          BY <1>10, <5>1 DEF ReaderInv
      <4>. QED
        BY <4>2, <4>3
    <3>6. f.before + from >= tail.last
      BY <2>1, <2>4, <3>4, <3>5
    <3>7. Follows(f, from, g)
      BY <2>4, <3>3, <3>4, <3>6 DEF Follows
    <3>8. Advance(f, n, g, r.marks)
      BY <1>1 DEF Advance
    <3>. QED
      BY <1>3, <1>10, <3>7, <3>8, ReadOn
  <2>. QED
    BY <1>3, <2>5, <2>6, ReadsFact
<1>. QED
  BY <1>1, <1>2, <1>5, <1>6, <1>7, <1>9, <1>10

----------------------------------------------------------------------------
(* A session begins.                                                        *)
(* The cursor is accepted in the file it was written for, and in no other.  *)
LEMMA CursorFenced ==
    ASSUME TypeOK, FilesInv, CursorInv, cursor # Gone, NEW f \in Files
    PROVE  Fences(cursor, f) <=> f.begun = cursor.begun
<1>1. /\ cursor.len \in Nat /\ cursor.len >= 1 /\ Len(cursor.print) = cursor.len
      /\ cursor.print \in Seq(Lines) /\ 1 \in 1 .. cursor.len
  BY LineNumbers DEF CursorInv, TypeOK, Cursor
<1>2. f \in File /\ Shaped(f)
  BY FilesFact DEF FilesInv
<1>3. ASSUME cursor.len <= Size(f)
      PROVE  SubSeq(Content(f), 1, cursor.len) = cursor.print
                <=> \A k \in 1 .. cursor.len : cursor.print[k] = f.before + k
  BY <1>1, <1>2, <1>3, FenceFact
<1>4. /\ f.begun = cursor.begun =>
            /\ f.id = cursor.at.id /\ cursor.len <= Size(f)
            /\ \A k \in 1 .. cursor.len : cursor.print[k] = f.before + k
      /\ f.begun # cursor.begun => cursor.print[1] # f.before + 1
  BY DEF CursorInv
<1>. QED
  BY <1>1, <1>3, <1>4 DEF Fences

LEMMA BeginTyped ==
    ASSUME TypeOK, FilesInv, NEW place \in Place, Begin(place), UNCHANGED modSide,
           cursor' \in Cursor \cup {Gone}
    PROVE  TypeOK'
<1>1. /\ phase' = "probing" /\ tail' = place /\ probe' = tailer'
      /\ tailer' = [pos |-> place.pos, id |-> place.id, generation |-> 0]
      /\ queue' = <<>> /\ generation' = 0 /\ hoisted' = Gone /\ startup' = 0
  BY DEF Begin
<1>2. 0 \in 0 .. MaxRewinds /\ 0 \in Offsets /\ <<>> \in Seq(Mark)
  BY LineNumbers, EmptySeq
<1>3. tailer' \in Reader
  BY <1>1, <1>2 DEF Reader, Place
<1>4. /\ current' = current /\ rotated' = rotated /\ rotating' = rotating /\ written' = written
      /\ rotations' = rotations /\ lagged' = lagged
  BY SameMod
<1>. QED
  BY <1>1, <1>2, <1>3, <1>4 DEF TypeOK

(* A session that begins at a place in a file.                              *)
LEMMA BeginIn ==
    ASSUME TypeOK, FilesInv, NEW place \in Place, NEW f \in Files, PlaceIn(place, f), Begin(place),
           UNCHANGED modSide,
           Kept' => cursor'.at = place /\ cursor'.begun = f.begun,
           rotating = "removing" /\ rotated # Gone /\ f = rotated =>
              Kept' /\ place.pos = Len(rotated.lines)
    PROVE  (TailInv /\ QueueInv /\ ReaderInv)'
<1>1. /\ tail' = place /\ tailer'.pos = place.pos /\ tailer'.id = place.id
      /\ tailer'.generation = 0 /\ queue' = <<>> /\ generation' = 0
  BY DEF Begin
<1>2. /\ current' = current /\ rotated' = rotated /\ rotating' = rotating /\ Files' = Files
      /\ NextBefore' = NextBefore
  BY SameMod
<1>3. /\ f.id # Gone /\ f.before \in Nat /\ Len(f.lines) \in Nat /\ place.pos \in Nat /\ place.last \in Nat
      /\ place.id = f.id /\ place.pos <= Len(f.lines) /\ place.last = f.before + place.pos
  BY FilesFact, FileFact, LineNumbers DEF Place, PlaceIn
<1>4. (\E h \in Files : PlaceIn(place, h)) /\ Live'
  BY <1>1, <1>2 DEF Live, TailIn, PlaceIn
<1>5. \A h \in Files : h.id = place.id => h = f
  BY <1>3, OneFile
<1>6. Kept' => cursor' # Gone /\ cursor'.at.last = place.last /\ cursor'.begun = f.begun /\ ~ Unsaved'
  BY <1>1 DEF Kept, Unsaved
<1>7. ASSUME rotated # Gone, rotating = "removing"
      PROVE  place.last >= EndOf(rotated)
  <2>1. /\ EndOf(rotated) = NextBefore /\ EndOf(rotated) = rotated.before + Len(rotated.lines)
        /\ rotated.before \in Nat /\ Len(rotated.lines) \in Nat
    BY <1>7, FilesFact, FileFact DEF FilesInv, EndOf
  <2>2. CASE f = rotated
    BY <1>3, <1>7, <2>1, <2>2
  <2>3. CASE f # rotated
    <3>1. EndOf(rotated) = f.before
      BY <2>1, <2>3, FilesFact DEF NextBefore
    <3>. QED
      BY <1>3, <3>1
  <2>. QED
    BY <2>2, <2>3
<1>8. ASSUME rotated # Gone, TailIn(rotated)'
      PROVE  f = rotated
  <2>1. tail'.id = rotated'.id
    BY <1>8 DEF TailIn
  <2>2. rotated.id = place.id
    BY <1>1, <1>2, <2>1
  <2>3. rotated \in Files
    BY <1>8, FilesFact
  <2>. QED
    BY <1>3, <2>2, <2>3, OneFile
<1>9. TailInv'
  <2>1. Kept' => cursor'.at.last <= tail'.last
    BY <1>1, <1>3, <1>6
  <2>2. rotated' # Gone /\ TailIn(rotated)' /\ Kept' => cursor'.begun = rotated'.begun
    BY <1>2, <1>6, <1>8
  <2>3. rotating' = "removing" /\ rotated' # Gone => tail'.last >= EndOf(rotated')
    BY <1>1, <1>2, <1>7
  <2>4. rotating' = "removing" /\ rotated' # Gone /\ TailIn(rotated)' => ~ Unsaved'
    BY <1>2, <1>6, <1>8
  <2>. QED
    BY <1>4, <2>1, <2>2, <2>3, <2>4 DEF TailInv
<1>10. DOMAIN queue' = {}
  BY <1>1
<1>11. QueueInv'
  BY <1>10 DEF QueueInv
<1>12. Upto' = place.last
  BY <1>1 DEF Upto
<1>13. \E h \in Files' : ReaderIn(h)'
  <2>1. tailer'.id = f.id /\ tailer'.pos <= Len(f.lines) /\ Upto' = f.before + tailer'.pos
    BY <1>1, <1>3, <1>12
  <2>. QED
    BY <1>2, <2>1 DEF ReaderIn
<1>14. ReaderInv'
  <2>1. current # Gone /\ TailIn(current)' => tailer'.id = current.id
    BY <1>1, <1>2 DEF TailIn
  <2>2. rotated # Gone /\ tailer'.id = rotated.id => rotated.before + tailer'.pos >= tail'.last
    <3>1. rotated # Gone /\ tailer'.id = rotated.id => f = rotated
      BY <1>1, <1>5, FilesFact
    <3>2. f.before + place.pos >= place.last
      BY <1>3
    <3>. QED
      BY <1>1, <3>1, <3>2
  <2>. QED
    BY <1>1, <1>2, <1>3, <1>13, <2>1, <2>2 DEF ReaderInv
<1>. QED
  BY <1>9, <1>11, <1>14

LEMMA ResumePlace ==
    ASSUME TypeOK, cursor # Gone, NEW f \in File
    PROVE  [cursor.at EXCEPT !.last = LineBefore(f, cursor.at.pos)] \in Place
<1>1. LineBefore(f, cursor.at.pos) \in Offsets
  BY FileFact, LineNumbers DEF LineBefore
<1>2. cursor.at \in Place
  BY DEF TypeOK, Cursor
<1>. QED
  BY <1>1, <1>2 DEF Place

LEMMA ResumeStep ==
    ASSUME TypeOK, FilesInv, ResumeSession
    PROVE  /\ TypeOK' /\ FilesInv' /\ (Kept' <=> Kept)
           /\ CursorInv => /\ CursorInv' /\ (TailInv /\ QueueInv /\ ReaderInv)'
                           /\ Kept /\ tail'.last = cursor.at.last
           /\ UNCHANGED <<modSide, cursor>> /\ phase = "off" /\ phase' # "off"
<1>1. /\ UNCHANGED <<modSide, cursor>> /\ UNCHANGED modSide /\ cursor' = cursor /\ cursor # Gone
  BY DEF ResumeSession
<1>. PICK f \in Files :
        /\ Fences(cursor, f)
        /\ Begin([cursor.at EXCEPT !.last = LineBefore(f, cursor.at.pos)])
  BY DEF ResumeSession
<1>2. /\ current' = current /\ rotated' = rotated /\ rotating' = rotating /\ written' = written
      /\ rotations' = rotations /\ Files' = Files /\ FilesInv'
      /\ phase = "off" /\ phase' = "probing"
  BY <1>1, SameMod DEF Begin
<1>3. f \in File /\ Shaped(f)
  BY FilesFact DEF FilesInv
<1>4. [cursor.at EXCEPT !.last = LineBefore(f, cursor.at.pos)] \in Place /\ cursor.at \in Place
  BY <1>1, <1>3, ResumePlace DEF TypeOK, Cursor
<1>5. TypeOK'
  BY <1>1, <1>4, BeginTyped DEF TypeOK
<1>6. Kept' <=> Kept
  BY <1>1, <1>2 DEF Kept
<1>7. ASSUME CursorInv
      PROVE  CursorInv' /\ (TailInv /\ QueueInv /\ ReaderInv)' /\ Kept /\ tail'.last = cursor.at.last
  <2>1. f.begun = cursor.begun
    BY <1>1, <1>7, CursorFenced
  <2>2. /\ f.id = cursor.at.id /\ cursor.at.pos <= Len(f.lines)
        /\ cursor.at.last = f.before + cursor.at.pos
    BY <1>1, <1>7, <2>1 DEF CursorInv
  <2>3. LineBefore(f, cursor.at.pos) = cursor.at.last
    <3>1. /\ cursor.at.pos \in Nat /\ Len(f.lines) \in Nat /\ DOMAIN f.lines = 1 .. Len(f.lines)
          /\ f.before \in Nat
      BY <1>3, <1>4, FileFact, LineNumbers DEF Place
    <3>2. CASE cursor.at.pos = 0
      BY <2>2, <3>1, <3>2 DEF LineBefore
    <3>3. CASE cursor.at.pos # 0
      <4>1. cursor.at.pos \in 1 .. Len(f.lines)
        BY <2>2, <3>1, <3>3
      <4>. QED
        BY <1>3, <2>2, <3>1, <4>1 DEF LineBefore, Shaped
    <3>. QED
      BY <3>2, <3>3
  <2>4. [cursor.at EXCEPT !.last = LineBefore(f, cursor.at.pos)] = cursor.at
    BY <1>4, <2>3 DEF Place
  <2>5. Begin(cursor.at)
    BY <2>4
  <2>6. PlaceIn(cursor.at, f)
    BY <2>2 DEF PlaceIn
  <2>7. Kept
    BY <1>1, <2>1 DEF Kept
  <2>8. rotating = "removing" /\ rotated # Gone /\ f = rotated =>
              Kept' /\ cursor.at.pos = Len(rotated.lines)
    BY <1>1, <1>6, <1>7, <2>1, <2>7 DEF CursorInv
  <2>9. cursor'.at = cursor.at /\ cursor'.begun = f.begun
    BY <1>1, <2>1
  <2>10. (TailInv /\ QueueInv /\ ReaderInv)'
    BY <1>1, <1>4, <2>5, <2>6, <2>8, <2>9, BeginIn
  <2>11. CursorInv'
    BY <1>1, <1>2, <1>7 DEF CursorInv
  <2>12. tail' = cursor.at
    BY <2>5 DEF Begin
  <2>. QED
    BY <2>7, <2>10, <2>11, <2>12
<1>. QED
  BY <1>1, <1>2, <1>5, <1>6, <1>7

(* The end of the outbox is the end of what is complete.                    *)
LEMMA BootstrapFact ==
    ASSUME TypeOK, FilesInv
    PROVE  /\ BootstrapPlace \in Place /\ BootstrapPlace.last = Complete
           /\ current = Gone =>
                 BootstrapPlace.id = Gone /\ BootstrapPlace.pos = 0 /\ Complete = NextBefore
           /\ current # Gone => PlaceIn(BootstrapPlace, current) /\ Complete = EndOf(current)
           /\ Complete \in Nat /\ NextBefore <= Complete
<1>1. CASE current = Gone
  <2>1. Complete = written /\ NextBefore = written /\ written \in Offsets /\ written \in Nat
    BY <1>1, FilesFact DEF Complete, NextBefore, TypeOK
  <2>2. BootstrapPlace = [pos |-> 0, id |-> Gone, last |-> Complete]
    BY <1>1 DEF BootstrapPlace
  <2>3. BootstrapPlace \in Place
    BY <2>1, <2>2, LineNumbers DEF Place
  <2>. QED
    BY <1>1, <2>1, <2>2, <2>3
<1>2. CASE current # Gone
  <2>1. /\ current \in File /\ Shaped(current) /\ current.before + Size(current) = written
        /\ current.before \in Nat /\ Len(current.lines) \in Nat /\ current.id \in Inodes
        /\ written \in Nat /\ EndOf(current) <= MaxLines /\ EndOf(current) \in Nat
        /\ current.torn = 0 => Size(current) = Len(current.lines)
        /\ current.torn # 0 => Size(current) = Len(current.lines) + 1
    BY <1>2, FilesFact, FileFact, ShapedFact DEF FilesInv
  <2>2. Complete = EndOf(current)
    <3>1. CASE current.torn = 0
      BY <1>2, <2>1, <3>1 DEF Complete, EndOf
    <3>2. CASE current.torn # 0
      BY <1>2, <2>1, <3>2 DEF Complete, EndOf
    <3>. QED
      BY <3>1, <3>2
  <2>3. BootstrapPlace = [pos |-> Len(current.lines), id |-> current.id, last |-> Complete]
    BY <1>2 DEF BootstrapPlace
  <2>4. Complete \in Offsets /\ Len(current.lines) \in Offsets
    <3>1. EndOf(current) \in Offsets
      BY <2>1, LineNumbers
    <3>2. Len(current.lines) <= EndOf(current)
      BY <2>1 DEF EndOf
    <3>3. Len(current.lines) <= MaxLines
      BY <2>1, <3>2, LineNumbers
    <3>. QED
      BY <2>1, <2>2, <3>1, <3>3, LineNumbers
  <2>5. BootstrapPlace \in Place
    BY <2>1, <2>3, <2>4 DEF Place
  <2>6. PlaceIn(BootstrapPlace, current)
    BY <2>1, <2>2, <2>3 DEF PlaceIn, EndOf
  <2>7. NextBefore <= Complete
    BY <1>2, <2>1, <2>2 DEF NextBefore, EndOf
  <2>. QED
    BY <1>2, <2>1, <2>2, <2>3, <2>5, <2>6, <2>7
<1>. QED
  BY <1>1, <1>2

LEMMA BootstrapStep ==
    ASSUME TypeOK, FilesInv, BootstrapSession
    PROVE  /\ TypeOK' /\ FilesInv'
           /\ CursorInv => /\ CursorInv' /\ (TailInv /\ QueueInv /\ ReaderInv)'
                           /\ ~ Kept /\ tail'.last = Complete
                           /\ \/ Kept' /\ cursor' # Gone /\ cursor'.at.last = tail'.last
                              \/ cursor' = cursor /\ ~ Kept'
           /\ UNCHANGED modSide /\ phase = "off" /\ phase' # "off"
<1>1. /\ UNCHANGED modSide /\ MaySave(BootstrapPlace) /\ Begin(BootstrapPlace)
      /\ \A f \in Files : cursor # Gone => ~ Fences(cursor, f)
      /\ phase = "off" /\ phase' = "probing" /\ tail' = BootstrapPlace
  BY DEF BootstrapSession, Begin
<1>2. /\ current' = current /\ rotated' = rotated /\ rotating' = rotating /\ written' = written
      /\ rotations' = rotations /\ Files' = Files /\ FilesInv' /\ NextBefore' = NextBefore
  BY <1>1, SameMod
<1>3. BootstrapPlace \in Place /\ BootstrapPlace.last = Complete
  BY BootstrapFact
<1>4. TypeOK'
  BY <1>1, <1>3, SaveTyped, BeginTyped
<1>5. ASSUME CursorInv
      PROVE  /\ CursorInv' /\ (TailInv /\ QueueInv /\ ReaderInv)'
             /\ ~ Kept
             /\ \/ Kept' /\ cursor' # Gone /\ cursor'.at.last = tail'.last
                \/ cursor' = cursor /\ ~ Kept'
  <2>1. ~ Kept
    BY <1>1, <1>5, CursorFenced DEF Kept
  <2>2. CASE current = Gone
    <3>1. BootstrapPlace.id = Gone /\ BootstrapPlace.pos = 0 /\ Complete = NextBefore
      BY <2>2, BootstrapFact
    <3>2. ~ SaveCursor(BootstrapPlace)
      <4>1. \A f \in Files : f.id # Gone
        BY FilesFact, FileFact
      <4>. QED
        BY <3>1, <4>1 DEF SaveCursor
    <3>3. cursor' = cursor
      BY <1>1, <3>2 DEF MaySave
    <3>4. ~ Kept' /\ CursorInv'
      BY <1>2, <1>5, <2>1, <3>3 DEF Kept, CursorInv
    <3>5. /\ tailer'.pos = 0 /\ tailer'.id = Gone /\ tailer'.generation = 0 /\ queue' = <<>>
          /\ generation' = 0 /\ tail'.id = Gone /\ tail'.last = NextBefore
      BY <1>1, <1>3, <3>1 DEF Begin
    <3>6. \A f \in Files : f.id # Gone
      BY FilesFact, FileFact
    <3>7. ~ Live'
      BY <1>2, <3>5, <3>6 DEF Live, TailIn
    <3>8. Loose'
      BY <1>2, <3>4, <3>5, SessionFact DEF Loose
    <3>9. rotating # "removing"
      BY <2>2 DEF FilesInv
    <3>10. rotated # Gone => ~ TailIn(rotated)' /\ rotated.id # Gone
      BY <1>2, <3>5, <3>6, FilesFact DEF TailIn
    <3>11. TailInv'
      BY <1>2, <3>4, <3>8, <3>9 DEF TailInv
    <3>12. QueueInv'
      <4>1. DOMAIN queue' = {}
        BY <3>5
      <4>. QED
        BY <4>1 DEF QueueInv
    <3>13. ReaderInv'
      BY <1>2, <2>2, <3>5, <3>7, <3>10 DEF ReaderInv
    <3>. QED
      BY <2>1, <3>3, <3>4, <3>11, <3>12, <3>13
  <2>3. CASE current # Gone
    <3>1. PlaceIn(BootstrapPlace, current) /\ current \in Files
      BY <2>3, BootstrapFact, FilesFact
    <3>2. current # rotated \/ rotated = Gone
      BY <2>3 DEF FilesInv
    <3>3. \/ /\ cursor' # Gone /\ cursor'.at = BootstrapPlace /\ cursor'.begun = current.begun
             /\ Kept' /\ CursorInv'
          \/ cursor' = cursor /\ ~ Kept' /\ CursorInv'
      <4>1. CASE SaveCursor(BootstrapPlace)
        BY <1>1, <1>3, <3>1, <3>2, <4>1, SaveFact
      <4>2. CASE cursor' = cursor
        BY <1>2, <1>5, <2>1, <4>2 DEF Kept, CursorInv
      <4>. QED
        BY <1>1, <4>1, <4>2 DEF MaySave
    <3>4. (TailInv /\ QueueInv /\ ReaderInv)'
      BY <1>1, <1>3, <3>1, <3>2, <3>3, BeginIn
    <3>. QED
      BY <1>1, <2>1, <3>3, <3>4
  <2>. QED
    BY <2>2, <2>3
<1>. QED
  BY <1>1, <1>2, <1>3, <1>4, <1>5

----------------------------------------------------------------------------
(* The relay consumes.                                                      *)
LEMMA DiscardStep ==
    ASSUME TypeOK, FilesInv, Discard
    PROVE  /\ TypeOK' /\ FilesInv' /\ ~ QueueInv /\ lagged' = lagged /\ phase # "off"
<1>1. /\ UNCHANGED modSide /\ cursor' = cursor /\ phase' = phase /\ probe' = probe
      /\ tailer' = tailer /\ generation' = generation /\ tail' = tail /\ hoisted' = hoisted
      /\ startup' = startup /\ queue # <<>> /\ Detached(Head(queue)) /\ queue' = Tail(queue)
      /\ phase = "reading"
  BY DEF Discard
<1>2. /\ current' = current /\ rotated' = rotated /\ rotating' = rotating /\ written' = written
      /\ rotations' = rotations /\ lagged' = lagged /\ FilesInv'
  BY <1>1, SameMod
<1>3. Head(queue) = queue[1] /\ Tail(queue) \in Seq(Mark)
  BY <1>1, SessionFact, HeadTailProperties
<1>4. TypeOK'
  BY <1>1, <1>2, <1>3 DEF TypeOK
<1>5. ASSUME QueueInv
      PROVE  FALSE
  <2>1. 1 \in DOMAIN queue
    BY <1>1, SessionFact
  <2>. PICK f \in Files : queue[1].generation = generation /\ MarkIn(queue[1], f)
    BY <1>5, <2>1 DEF QueueInv
  <2>2. f \in File /\ Shaped(f)
    BY FilesFact DEF FilesInv
  <2>3. Size(f) >= queue[1].pos
    BY <2>2, FileFact, ShapedFact DEF MarkIn
  <2>. QED
    BY <1>1, <1>3, <2>3 DEF Detached, MarkIn
<1>. QED
  BY <1>1, <1>2, <1>4, <1>5

LEMMA EndFact ==
    ASSUME TypeOK, FilesInv, NEW f \in Files
    PROVE  EndOf(f) <= Complete
<1>1. CASE current # Gone /\ f = current
  BY <1>1, BootstrapFact
<1>2. CASE rotated # Gone /\ f = rotated
  BY <1>2, BootstrapFact DEF FilesInv
<1>. QED
  BY <1>1, <1>2, FilesFact

LEMMA TakeFact ==
    ASSUME TypeOK, Take
    PROVE  \E m \in Mark, place \in Place :
              /\ place.pos = m.pos /\ place.id = m.id /\ place.last = m.line
              /\ m = queue[1] /\ 1 \in DOMAIN queue /\ m.line \in Nat /\ m.line = First
              /\ tail' = place /\ MaySave(place)
              /\ queue' \in Seq(Mark) /\ Len(queue') = Len(queue) - 1
              /\ DOMAIN queue' = 1 .. Len(queue) - 1
              /\ \A k \in DOMAIN queue' : k + 1 \in DOMAIN queue /\ queue'[k] = queue[k + 1]
<1>1. queue # <<>> /\ queue' = Tail(queue)
  BY DEF Take
<1>. DEFINE m == Head(queue)
            place == [pos |-> m.pos, id |-> m.id, last |-> m.line]
<1>2. m = queue[1] /\ 1 \in DOMAIN queue /\ m \in Mark /\ Len(queue) > 0
  BY <1>1, SessionFact, HeadTailProperties
<1>3. place \in Place /\ m.line \in Nat
  BY <1>2, LineNumbers DEF Place, Mark
<1>4. tail' = place /\ MaySave(tail')
  BY DEF Take
<1>5. /\ Tail(queue) \in Seq(Mark) /\ Len(Tail(queue)) = Len(queue) - 1
      /\ \A i \in 1 .. Len(Tail(queue)) : Tail(queue)[i] = queue[i + 1]
      /\ DOMAIN queue = 1 .. Len(queue) /\ Len(queue) \in Nat
  BY <1>1, SessionFact, HeadTailProperties
<1>6. DOMAIN queue' = 1 .. Len(queue) - 1
  BY <1>1, <1>5, LenProperties
<1>7. \A k \in DOMAIN queue' : k + 1 \in DOMAIN queue /\ queue'[k] = queue[k + 1]
  BY <1>1, <1>5, <1>6
<1>8. MaySave(place)
  BY <1>4
<1>9. place.pos = m.pos /\ place.id = m.id /\ place.last = m.line
  OBVIOUS
<1>10. m.line = First
  BY <1>2 DEF First
<1>. HIDE DEF m, place
<1>. QED
  BY <1>1, <1>2, <1>3, <1>4, <1>5, <1>6, <1>7, <1>8, <1>9, <1>10

LEMMA TakeTyped ==
    ASSUME TypeOK, FilesInv, Take
    PROVE  /\ TypeOK' /\ FilesInv' /\ UNCHANGED modSide
           /\ phase = "reading" /\ phase' = phase /\ queue # <<>>
           /\ tailer' = tailer /\ generation' = generation
<1>1. /\ UNCHANGED modSide /\ phase' = phase /\ probe' = probe /\ tailer' = tailer
      /\ generation' = generation /\ phase = "reading" /\ queue # <<>>
  BY DEF Take
<1>2. /\ current' = current /\ rotated' = rotated /\ rotating' = rotating /\ written' = written
      /\ rotations' = rotations /\ lagged' = lagged /\ FilesInv'
  BY <1>1, SameMod
<1>. PICK m \in Mark, place \in Place : tail' = place /\ MaySave(place) /\ queue' \in Seq(Mark)
  BY TakeFact
<1>3. cursor' \in Cursor \cup {Gone}
  BY SaveTyped
<1>4. hoisted' \in Mark \cup {Gone} /\ startup' \in Offsets
  BY SMTT(30), LineNumbers DEF Take, TypeOK
<1>. QED
  BY <1>1, <1>2, <1>3, <1>4 DEF TypeOK

LEMMA TakeStep ==
    ASSUME TypeOK, FilesInv, Take, CursorInv, TailInv, QueueInv, ReaderInv
    PROVE  /\ CursorInv' /\ (TailInv /\ QueueInv /\ ReaderInv)'
           /\ Kept => tail'.last = tail.last + 1
           /\ tail'.last \in tail.last + 1 .. Complete
           /\ \/ Kept' /\ cursor' # Gone /\ cursor'.at.last = tail'.last
              \/ cursor' = cursor /\ (Kept' <=> Kept)
<1>. PICK m \in Mark, place \in Place :
              /\ place.pos = m.pos /\ place.id = m.id /\ place.last = m.line
              /\ m = queue[1] /\ 1 \in DOMAIN queue /\ m.line \in Nat /\ m.line = First
              /\ tail' = place /\ MaySave(place)
              /\ queue' \in Seq(Mark) /\ Len(queue') = Len(queue) - 1
              /\ DOMAIN queue' = 1 .. Len(queue) - 1
              /\ \A k \in DOMAIN queue' : k + 1 \in DOMAIN queue /\ queue'[k] = queue[k + 1]
  BY TakeFact
<1>1. /\ current' = current /\ rotated' = rotated /\ rotating' = rotating /\ written' = written
      /\ rotations' = rotations /\ Files' = Files /\ NextBefore' = NextBefore
      /\ tailer' = tailer /\ generation' = generation /\ queue # <<>>
      /\ tail'.pos = m.pos /\ tail'.id = m.id /\ tail'.last = m.line
      /\ UNCHANGED modSide
  BY TakeTyped, SameMod
<1>2. \A k \in DOMAIN queue' :
         /\ k + 1 \in DOMAIN queue /\ queue'[k] = queue[k + 1] /\ k \in Nat
         /\ queue[k + 1] \in Mark
  BY SessionFact
<1>. PICK f \in Files : MarkIn(m, f)
  BY DEF QueueInv
<1>3. /\ m.line > tail.last /\ (Live => m.line = tail.last + 1)
      /\ tail.last \in Nat /\ m.line \in Nat
  BY SessionFact DEF QueueInv
<1>4. /\ f \in File /\ f.before \in Nat /\ Len(f.lines) \in Nat /\ f.id # Gone /\ m.pos \in 1 .. Len(f.lines)
      /\ m.id = f.id /\ m.line = f.before + m.pos /\ PlaceIn(place, f)
  <2>1. f \in File /\ f.before \in Nat /\ Len(f.lines) \in Nat /\ f.id # Gone
    BY FilesFact, FileFact
  <2>2. m.pos \in 1 .. Len(f.lines) /\ m.id = f.id /\ m.line = f.before + m.pos
    BY DEF MarkIn
  <2>. QED
    BY <2>1, <2>2 DEF PlaceIn
<1>5. /\ rotated # Gone => /\ rotated.before \in Nat /\ Len(rotated.lines) \in Nat
                           /\ EndOf(rotated) = NextBefore /\ rotated \in Files
                           /\ EndOf(rotated) = rotated.before + Len(rotated.lines)
      /\ current # Gone => NextBefore = current.before /\ current.before \in Nat
      /\ current # Gone => current \in Files
  BY FilesFact, FileFact DEF FilesInv, NextBefore, EndOf
<1>6. f # rotated => current # Gone /\ f = current /\ m.line > NextBefore
  BY <1>4, <1>5, FilesFact
<1>7. f = rotated => rotated # Gone /\ m.line <= EndOf(rotated)
  BY <1>4, <1>5, FilesFact
<1>8. rotating = "removing" /\ rotated # Gone => f # rotated /\ tail'.last >= EndOf(rotated)
  <2>1. rotating = "removing" /\ rotated # Gone => tail.last >= EndOf(rotated) /\ EndOf(rotated) \in Nat
    BY <1>5 DEF TailInv
  <2>. QED
    BY <1>1, <1>3, <1>7, <2>1
<1>9. \/ cursor' # Gone /\ cursor'.at = place /\ cursor'.begun = f.begun /\ Kept' /\ CursorInv'
      \/ cursor' = cursor /\ (Kept' <=> Kept) /\ CursorInv'
  <2>1. CASE SaveCursor(place)
    BY <1>1, <1>4, <1>8, <2>1, SaveFact
  <2>2. CASE cursor' = cursor
    BY <1>1, <2>2 DEF Kept, CursorInv
  <2>. QED
    BY <2>1, <2>2 DEF MaySave
<1>10. Live'
  BY <1>1, <1>4 DEF Live, TailIn
<1>11. /\ rotated # Gone /\ TailIn(rotated)' => f = rotated
       /\ current # Gone /\ TailIn(current)' => f = current
  <2>1. (TailIn(rotated)' => rotated.id = f.id) /\ (TailIn(current)' => current.id = f.id)
    BY <1>1, <1>4 DEF TailIn
  <2>. QED
    BY <1>5, <2>1, OneFile
<1>12. Kept => cursor # Gone /\ cursor.at.last <= tail.last /\ cursor.at.last \in Nat
  <2>1. cursor # Gone => cursor.at.last \in Nat
    BY LineNumbers DEF TypeOK, Cursor, Place
  <2>. QED
    BY <2>1 DEF TailInv, Kept
<1>13. ASSUME rotated # Gone, f = rotated, Kept
       PROVE  cursor.begun = rotated.begun
  <2>. PICK h \in Files : h.begun = cursor.begun
    BY <1>13 DEF Kept
  <2>1. h \in File /\ h.before \in Nat /\ cursor.at.last = h.before + cursor.at.pos /\ cursor.at.pos \in Nat
    BY <1>12, <1>13, FilesFact, FileFact, LineNumbers DEF CursorInv, TypeOK, Cursor, Place
  <2>2. cursor.at.last < EndOf(rotated)
    BY <1>3, <1>5, <1>7, <1>12, <1>13
  <2>3. h # current \/ current = Gone
    BY <1>5, <1>13, <2>1, <2>2
  <2>. QED
    BY <2>3, FilesFact
<1>14. TailInv'
  <2>1. Kept' => cursor'.at.last <= tail'.last
    <3>1. CASE cursor'.at = place
      BY <1>1, <1>3, <3>1
    <3>2. CASE cursor' = cursor /\ (Kept' <=> Kept)
      BY <1>1, <1>3, <1>12, <3>2
    <3>. QED
      BY <1>9, <3>1, <3>2
  <2>2. rotated # Gone /\ TailIn(rotated)' /\ Kept' => cursor'.begun = rotated.begun
    BY <1>5, <1>9, <1>11, <1>13
  <2>3. rotating = "removing" /\ rotated # Gone => ~ TailIn(rotated)'
    BY <1>5, <1>8, <1>11
  <2>4. rotating' = "removing" /\ rotated' # Gone => tail'.last >= EndOf(rotated')
    BY <1>1, <1>8
  <2>. QED
    BY <1>1, <1>10, <2>1, <2>2, <2>3, <2>4 DEF TailInv
<1>15. QueueInv'
  <2>1. ASSUME NEW k \in DOMAIN queue'
        PROVE  /\ queue'[k].generation = generation /\ \E h \in Files : MarkIn(queue'[k], h)
               /\ queue'[k].line = m.line + k
               /\ queue'[k].line > m.line
    <3>1. k + 1 \in DOMAIN queue /\ queue'[k] = queue[k + 1] /\ k \in Nat /\ k > 0
      BY <1>2
    <3>2. queue[k + 1].line = First + (k + 1) - 1 /\ First \in Nat
      BY <1>1, <3>1, QueueFact
    <3>3. First + (k + 1) - 1 = m.line + k /\ m.line + k > m.line
      BY <1>3, <3>1, <3>2
    <3>4. queue[k + 1].generation = generation /\ \E h \in Files : MarkIn(queue[k + 1], h)
      BY <3>1 DEF QueueInv
    <3>. QED
      BY <3>1, <3>2, <3>3, <3>4
  <2>2. ASSUME NEW k \in DOMAIN queue'
        PROVE  queue'[k].line = queue'[1].line + k - 1
    <3>1. 1 \in DOMAIN queue' /\ k \in Nat
      BY <1>2, SessionFact
    <3>2. First' = m.line + 1 /\ First' = queue'[1].line
      BY <2>1, <3>1 DEF First
    <3>3. queue'[k].line = First' + k - 1
      BY <1>3, <2>1, <3>1, <3>2
    <3>. QED
      BY <3>2, <3>3
  <2>. QED
    BY <1>1, <2>1, <2>2 DEF QueueInv
<1>16. Upto' = Upto
  <2>1. CASE queue' = <<>>
    <3>1. Len(queue') = 0 /\ Len(queue) \in Nat
      BY <2>1, EmptySeq, SessionFact
    <3>2. Len(queue) = 1
      BY <3>1
    <3>3. Upto = m.line
      BY <1>1, <3>2 DEF Upto
    <3>. QED
      BY <1>1, <2>1, <3>3 DEF Upto
  <2>2. CASE queue' # <<>>
    <3>1. Len(queue) \in Nat /\ Len(queue') > 0 /\ Len(queue') \in DOMAIN queue'
      BY <2>2, EmptySeq, LenProperties, SessionFact
    <3>2. Len(queue') + 1 = Len(queue)
      BY <3>1
    <3>3. queue'[Len(queue')] = queue[Len(queue)]
      BY <1>2, <3>1, <3>2
    <3>. QED
      BY <1>1, <2>2, <3>3 DEF Upto
  <2>. QED
    BY <2>1, <2>2
<1>17. ReaderInv'
  <2>1. Upto >= m.line /\ Upto \in Int
    <3>1. Upto = First + Len(queue) - 1 /\ First \in Nat
      BY <1>1, QueueFact
    <3>2. Len(queue) \in Nat /\ Len(queue) > 0
      BY <1>1, SessionFact
    <3>. QED
      BY <3>1, <3>2
  <2>2. \/ \E h \in Files : ReaderIn(h)
        \/ tailer.id = Gone /\ Upto = NextBefore
    BY <1>1 DEF ReaderInv
  <2>3. \/ \E h \in Files' : ReaderIn(h)'
        \/ tailer'.id = Gone /\ Upto' = NextBefore'
    BY <1>1, <1>16, <2>2 DEF ReaderIn
  <2>4. ASSUME current # Gone, TailIn(current)'
        PROVE  tailer.id = current.id
    <3>1. f = current /\ f # rotated
      <4>1. current # rotated
        BY <2>4 DEF FilesInv
      <4>. QED
        BY <1>11, <2>4, <4>1
    <3>2. Upto > NextBefore /\ NextBefore \in Nat
      BY <1>3, <1>5, <1>6, <2>1, <2>4, <3>1
    <3>. PICK h \in Files : ReaderIn(h)
      BY <2>2, <3>2
    <3>3. h \in File /\ Len(h.lines) \in Nat /\ h.before \in Nat /\ tailer.pos \in Nat
      BY FilesFact, FileFact, SessionFact
    <3>4. Upto <= EndOf(h)
      BY <3>3 DEF ReaderIn, EndOf
    <3>5. h = current
      BY <1>5, <3>2, <3>4, <2>1, FilesFact
    <3>. QED
      BY <3>5 DEF ReaderIn
  <2>5. ASSUME rotated # Gone, tailer.id = rotated.id
        PROVE  rotated.before + tailer.pos >= m.line
    <3>1. rotated.id # Gone
      BY <1>5, <2>5, FilesFact, FileFact
    <3>. PICK h \in Files : ReaderIn(h)
      BY <2>2, <2>5, <3>1
    <3>2. h = rotated
      <4>1. h.id = rotated.id
        BY <2>5 DEF ReaderIn
      <4>. QED
        BY <1>5, <2>5, <4>1, OneFile
    <3>. QED
      BY <2>1, <3>2 DEF ReaderIn
  <2>6. tailer.generation = generation /\ (tailer.id = Gone => tailer.pos = 0)
    BY DEF ReaderInv
  <2>. QED
    BY <1>1, <2>3, <2>4, <2>5, <2>6 DEF ReaderInv
<1>18. Kept => tail'.last = tail.last + 1
  BY <1>1, <1>3 DEF TailInv, Loose
<1>19. tail'.last \in tail.last + 1 .. Complete
  <2>1. m.line <= EndOf(f)
    BY <1>4 DEF EndOf
  <2>2. EndOf(f) <= Complete /\ EndOf(f) \in Nat /\ Complete \in Nat
    BY <1>4, EndFact, FileFact, BootstrapFact
  <2>. QED
    BY <1>1, <1>3, <2>1, <2>2
<1>20. \/ Kept' /\ cursor' # Gone /\ cursor'.at.last = tail'.last
       \/ cursor' = cursor /\ (Kept' <=> Kept)
  BY <1>1, <1>9
<1>. QED
  BY <1>9, <1>14, <1>15, <1>17, <1>18, <1>19, <1>20

(* The checkpointer saves a tail that is in a file, and that file is the    *)
(* one the new cursor is for.                                               *)
LEMMA SaveTail ==
    ASSUME TypeOK, FilesInv, TailInv, Unsaved, SaveCursor(tail), UNCHANGED modSide
    PROVE  /\ cursor' \in Cursor /\ cursor' # Gone /\ cursor'.at = tail /\ Kept' /\ CursorInv' /\ Live
           /\ rotated # Gone /\ TailIn(rotated) => cursor'.begun = rotated.begun
<1>1. \A f \in Files : f.id # Gone
  BY FilesFact, FileFact
<1>2. Live
  BY <1>1 DEF TailInv, Loose, SaveCursor
<1>. PICK f \in Files : TailIn(f)
  BY <1>2 DEF Live
<1>3. PlaceIn(tail, f) /\ tail \in Place
  BY DEF TailIn, PlaceIn, TypeOK
<1>4. ~ (rotating = "removing" /\ rotated # Gone /\ f = rotated)
  BY DEF TailInv
<1>5. /\ cursor' \in Cursor /\ cursor' # Gone /\ cursor'.at = tail /\ cursor'.begun = f.begun
      /\ Kept' /\ CursorInv'
  BY <1>3, <1>4, SaveFact
<1>6. ASSUME rotated # Gone, TailIn(rotated)
      PROVE  f = rotated
  <2>1. rotated \in Files /\ f.id = rotated.id
    BY <1>6, FilesFact DEF TailIn
  <2>. QED
    BY <2>1, OneFile
<1>. QED
  BY <1>2, <1>5, <1>6

LEMMA RetrySaveStep ==
    ASSUME TypeOK, FilesInv, RetrySave
    PROVE  /\ TypeOK' /\ FilesInv' /\ UNCHANGED <<modSide, tail, phase>> /\ phase # "off"
           /\ TailInv /\ QueueInv /\ ReaderInv =>
                 /\ CursorInv' /\ (TailInv /\ QueueInv /\ ReaderInv)'
                 /\ cursor' # Gone /\ cursor'.at.last = tail.last /\ Kept'
<1>1. /\ UNCHANGED modSide /\ phase' = phase /\ probe' = probe /\ tailer' = tailer /\ queue' = queue
      /\ generation' = generation /\ tail' = tail /\ hoisted' = hoisted /\ startup' = startup
      /\ phase # "off" /\ Unsaved /\ SaveCursor(tail) /\ MaySave(tail)
  BY DEF RetrySave, MaySave
<1>2. /\ current' = current /\ rotated' = rotated /\ rotating' = rotating /\ written' = written
      /\ rotations' = rotations /\ lagged' = lagged
      /\ Files' = Files /\ NextBefore' = NextBefore /\ FilesInv'
  BY <1>1, SameMod
<1>3. cursor' \in Cursor \cup {Gone}
  BY <1>1, SaveTyped DEF TypeOK
<1>4. TypeOK'
  BY <1>1, <1>2, <1>3 DEF TypeOK
<1>5. ASSUME TailInv, QueueInv, ReaderInv
      PROVE  /\ CursorInv' /\ (TailInv /\ QueueInv /\ ReaderInv)'
             /\ cursor' # Gone /\ cursor'.at.last = tail.last /\ Kept'
  <2>1. /\ cursor' # Gone /\ cursor'.at = tail /\ Kept' /\ CursorInv' /\ Live
        /\ rotated # Gone /\ TailIn(rotated) => cursor'.begun = rotated.begun
    BY <1>1, <1>5, SaveTail
  <2>2. /\ (Live' <=> Live) /\ (TailIn(current)' <=> TailIn(current))
        /\ (TailIn(rotated)' <=> TailIn(rotated)) /\ Upto' = Upto
    BY <1>1, <1>2 DEF Live, TailIn, Upto
  <2>3. ~ Unsaved'
    BY <1>1, <2>1 DEF Unsaved
  <2>4. tail.last <= tail.last
    BY SessionFact
  <2>5. TailInv'
    BY <1>1, <1>2, <1>5, <2>1, <2>2, <2>3, <2>4 DEF TailInv
  <2>6. QueueInv'
    BY <1>1, <1>2, <1>5, <2>2 DEF QueueInv
  <2>7. ReaderInv'
    BY <1>1, <1>2, <1>5, <2>2 DEF ReaderInv, ReaderIn
  <2>. QED
    BY <2>1, <2>5, <2>6, <2>7
<1>. QED
  BY <1>1, <1>2, <1>4, <1>5

LEMMA EndSessionStep ==
    ASSUME TypeOK, FilesInv, EndSession
    PROVE  /\ TypeOK' /\ FilesInv' /\ UNCHANGED <<modSide, tail>> /\ phase # "off" /\ phase' = "off"
           /\ CursorInv /\ TailInv =>
                 /\ CursorInv'
                 /\ \/ cursor' # Gone /\ cursor'.at.last = tail.last /\ Kept'
                    \/ cursor' = cursor /\ (Kept' <=> Kept)
<1>1. /\ UNCHANGED modSide /\ phase # "off" /\ phase' = "off" /\ probe' = probe /\ tailer' = tailer
      /\ queue' = <<>> /\ generation' = generation /\ tail' = tail /\ hoisted' = hoisted
      /\ startup' = startup
      /\ (Unsaved /\ SaveCursor(tail)) \/ cursor' = cursor
  BY DEF EndSession
<1>2. /\ current' = current /\ rotated' = rotated /\ rotating' = rotating /\ written' = written
      /\ rotations' = rotations /\ lagged' = lagged
      /\ Files' = Files /\ NextBefore' = NextBefore /\ FilesInv'
  BY <1>1, SameMod
<1>3. cursor' \in Cursor \cup {Gone}
  BY <1>1, SaveTyped DEF TypeOK, MaySave
<1>4. TypeOK'
  BY <1>1, <1>2, <1>3, EmptySeq DEF TypeOK
<1>5. ASSUME CursorInv, TailInv
      PROVE  /\ CursorInv'
             /\ \/ cursor' # Gone /\ cursor'.at.last = tail.last /\ Kept'
                \/ cursor' = cursor /\ (Kept' <=> Kept)
  <2>1. CASE Unsaved /\ SaveCursor(tail)
    BY <1>1, <1>5, <2>1, SaveTail
  <2>2. CASE cursor' = cursor
    BY <1>1, <1>2, <1>5, <2>2 DEF Kept, CursorInv
  <2>. QED
    BY <1>1, <2>1, <2>2
<1>. QED
  BY <1>1, <1>2, <1>4, <1>5

----------------------------------------------------------------------------
(* The steps together.                                                      *)
LEMMA Initially ==
    ASSUME Init
    PROVE  IInv
<1>1. /\ current = Gone /\ rotated = Gone /\ rotating = "no" /\ written = 0 /\ rotations = 0
      /\ lagged = FALSE /\ cursor = Gone /\ phase = "off" /\ queue = <<>>
      /\ generation = 0 /\ hoisted = Gone /\ startup = 0 /\ tailer = probe
      /\ probe = [pos |-> 0, id |-> Gone, generation |-> 0]
      /\ tail = [pos |-> 0, id |-> Gone, last |-> 0]
  BY DEF Init
<1>2. 0 \in Offsets /\ 0 \in 0 .. MaxRotations /\ 0 \in 0 .. MaxRewinds /\ <<>> \in Seq(Mark)
  BY LineNumbers, EmptySeq
<1>3. probe \in Reader /\ tail \in Place
  BY <1>1, <1>2 DEF Reader, Place
<1>4. TypeOK
  BY <1>1, <1>2, <1>3 DEF TypeOK
<1>5. FilesInv /\ CursorInv /\ SessionInv
  BY <1>1 DEF FilesInv, CursorInv, SessionInv
<1>. QED
  BY <1>4, <1>5 DEF IInv

LEMMA Unlagged ==
    ASSUME TypeOK, Next
    PROVE  ~ lagged' => ~ lagged
BY SameMod DEF TypeOK, Next, ModNext, RelayNext, BeginRotation, RemoveRotated, Rename, AppendLine, CompleteLine,
   KillMod, ResumeSession, BootstrapSession, ReadAhead, ReadInOrder, Discard, Take, RetrySave, EndSession

LEMMA ModPreserves ==
    ASSUME IInv, ModNext
    PROVE  IInv'
<1>1. TypeOK /\ FilesInv /\ (~ lagged => CursorInv /\ SessionInv) /\ (~ lagged' => ~ lagged)
      /\ phase' = phase
  BY Unlagged DEF IInv, Next, ModNext, relaySide, BeginRotation, RemoveRotated, Rename, AppendLine,
     CompleteLine, KillMod
<1>2. ASSUME Grown
      PROVE  IInv'
  BY <1>1, <1>2, GrownFiles, GrownCursor, GrownSession DEF IInv, SessionInv
<1>3. CASE BeginRotation
  BY <1>1, <1>3, BeginRotationStep DEF IInv, SessionInv
<1>4. CASE RemoveRotated
  BY <1>1, <1>4, RemoveStep DEF IInv, SessionInv
<1>5. CASE Rename
  BY <1>1, <1>5, RenameStep DEF IInv, SessionInv
<1>6. CASE KillMod
  BY <1>1, <1>6, KillStep DEF IInv, SessionInv
<1>. QED
  BY <1>1, <1>2, <1>3, <1>4, <1>5, <1>6, AppendLineGrows, CompleteLineGrows DEF ModNext

LEMMA RelayPreserves ==
    ASSUME IInv, RelayNext
    PROVE  IInv'
<1>1. TypeOK /\ FilesInv /\ (~ lagged => CursorInv /\ SessionInv) /\ (~ lagged' => ~ lagged)
  BY Unlagged DEF IInv, Next
<1>2. CASE ResumeSession
  BY <1>1, <1>2, ResumeStep DEF IInv, SessionInv
<1>3. CASE BootstrapSession
  BY <1>1, <1>3, BootstrapStep DEF IInv, SessionInv
<1>4. CASE ReadAhead
  BY <1>1, <1>4, ReadAheadStep DEF IInv
<1>5. CASE ReadInOrder
  BY <1>1, <1>5, ReadInOrderStep DEF IInv, SessionInv
<1>6. CASE Discard
  BY <1>1, <1>6, DiscardStep DEF IInv, SessionInv
<1>7. CASE Take
  <2>1. TypeOK' /\ FilesInv' /\ phase # "off"
    BY <1>1, <1>7, TakeTyped
  <2>. QED
    BY <1>1, <1>7, <2>1, TakeStep DEF IInv, SessionInv
<1>8. CASE RetrySave
  BY <1>1, <1>8, RetrySaveStep DEF IInv, SessionInv
<1>9. CASE EndSession
  BY <1>1, <1>9, EndSessionStep DEF IInv, SessionInv
<1>. QED
  BY <1>2, <1>3, <1>4, <1>5, <1>6, <1>7, <1>8, <1>9 DEF RelayNext

LEMMA Preserved ==
    ASSUME IInv, [Next]_vars
    PROVE  IInv'
<1>1. CASE UNCHANGED vars
  <2>1. UNCHANGED <<current, rotated, rotations, written>> /\ UNCHANGED relaySide
        /\ UNCHANGED modSide /\ rotating' = rotating /\ lagged' = lagged /\ cursor' = cursor
        /\ tail' = tail /\ phase' = phase /\ TypeOK
    BY <1>1 DEF vars, modSide, relaySide, IInv
  <2>2. TypeOK'
    BY <1>1 DEF vars, modSide, relaySide, IInv, TypeOK
  <2>3. FilesInv' /\ (CursorInv => CursorInv') /\ (TailInv => TailInv')
        /\ (QueueInv => QueueInv') /\ (ReaderInv => ReaderInv')
    <3>1. FilesInv'
      BY <2>1, SameMod DEF IInv
    <3>2. CursorInv => CursorInv'
      BY <2>1, SameFiles DEF CursorInv
    <3>3. TailInv => TailInv'
      BY <2>1, SameFiles DEF TailInv
    <3>. QED
      BY <2>1, <3>1, <3>2, <3>3, SameFiles
  <2>. QED
    BY <2>1, <2>2, <2>3 DEF IInv, SessionInv
<1>2. CASE ModNext
  BY <1>2, ModPreserves
<1>3. CASE RelayNext
  BY <1>3, RelayPreserves
<1>. QED
  BY <1>1, <1>2, <1>3 DEF Next

LEMMA Invariant ==
    Spec => []IInv
<1>. QED
  BY Initially, Preserved, PTL DEF Spec

(* A .1 never ends inside a line, for any number of files, lines and        *)
(* renames (_append tests for a torn line before it renames).               *)
THEOREM WholeLines ==
    Spec => []RotatedWhole
<1>1. IInv => RotatedWhole
  BY DEF IInv, FilesInv, RotatedWhole
<1>. QED
  BY <1>1, Invariant, PTL

----------------------------------------------------------------------------
(* The log.                                                                 *)
Saved == IF cursor = Gone THEN -1 ELSE cursor.at.last
Open == phase # "off"

(* What a step of the files and the cursor does to the log.                 *)
LEMMA SavedFact ==
    ASSUME cursor' # Gone, cursor'.at.last = tail'.last
    PROVE  Saved' = tail'.last
BY DEF Saved

LEMMA ModLog ==
    ASSUME IInv, ModNext, ~ lagged'
    PROVE  /\ tail'.last = tail.last /\ Saved' = Saved /\ (Open' <=> Open)
           /\ \/ Complete' \in {Complete, Complete + 1} /\ (Kept' <=> Kept)
              \/ Complete' = Complete /\ Kept /\ ~ Kept'
<1>1. TypeOK /\ FilesInv /\ CursorInv /\ written \in Nat
  BY Unlagged, FilesFact DEF IInv, Next
<1>2. /\ tail' = tail /\ cursor' = cursor /\ phase' = phase
  BY DEF ModNext, relaySide, BeginRotation, RemoveRotated, Rename, AppendLine, CompleteLine, KillMod
<1>3. tail'.last = tail.last /\ Saved' = Saved /\ (Open' <=> Open)
  BY <1>2 DEF Saved, Open
<1>4. ASSUME UNCHANGED <<current, written>>, Kept' => Kept
      PROVE  \/ Complete' \in {Complete, Complete + 1} /\ (Kept' <=> Kept)
             \/ Complete' = Complete /\ Kept /\ ~ Kept'
  <2>1. Complete' = Complete
    BY <1>4 DEF Complete
  <2>. QED
    BY <1>4, <2>1
<1>5. CASE BeginRotation
  BY <1>1, <1>3, <1>4, <1>5, BeginRotationStep DEF BeginRotation
<1>6. CASE RemoveRotated
  BY <1>1, <1>3, <1>4, <1>6, RemoveStep DEF RemoveRotated
<1>7. CASE Rename
  <2>1. Kept' <=> Kept
    BY <1>1, <1>7, RenameStep
  <2>2. current.torn = 0 /\ written' = written /\ (current' = current \/ current' = Gone)
    BY <1>1, <1>7 DEF Rename, FilesInv
  <2>3. Complete' = Complete
    BY <2>2 DEF Complete
  <2>. QED
    BY <1>3, <2>1, <2>3
<1>8. CASE AppendLine
  <2>1. Kept' <=> Kept
    BY <1>1, <1>8, AppendLineGrows, GrownCursor
  <2>2. Complete = written /\ written' = written + 1
    BY <1>8 DEF AppendLine, Complete
  <2>3. Complete' \in {written', written' - 1}
    BY DEF Complete
  <2>. QED
    BY <1>1, <1>3, <2>1, <2>2, <2>3
<1>9. CASE CompleteLine
  <2>1. Kept' <=> Kept
    BY <1>1, <1>9, CompleteLineGrows, GrownCursor
  <2>2. Complete = written - 1 /\ written' = written
    BY <1>9 DEF CompleteLine, Complete
  <2>3. Complete' \in {written', written' - 1}
    BY DEF Complete
  <2>. QED
    BY <1>1, <1>3, <2>1, <2>2, <2>3
<1>10. CASE KillMod
  BY <1>1, <1>3, <1>4, <1>10, KillStep DEF KillMod
<1>. QED
  BY <1>3, <1>5, <1>6, <1>7, <1>8, <1>9, <1>10 DEF ModNext

LEMMA LogSame ==
    ASSUME Complete' = Complete, tail'.last = tail.last, Saved' = Saved,
           Kept' <=> Kept, Open' <=> Open
    PROVE  UNCHANGED Log!logVars
<1>1. Kept' = Kept /\ Open' = Open
  <2>1. Kept \in BOOLEAN /\ Open \in BOOLEAN /\ Kept' \in BOOLEAN /\ Open' \in BOOLEAN
    BY DEF Kept, Open
  <2>. QED
    BY <2>1
<1>2. (phase # "off")' = (phase # "off")
  BY <1>1 DEF Open
<1>3. (IF cursor = Gone THEN -1 ELSE cursor.at.last)' = (IF cursor = Gone THEN -1 ELSE cursor.at.last)
  BY DEF Saved
<1>. QED
  BY <1>1, <1>2, <1>3 DEF Log!logVars

LEMMA Booleans ==
    /\ Kept \in BOOLEAN /\ Kept' \in BOOLEAN /\ Open \in BOOLEAN /\ Open' \in BOOLEAN
    /\ Open = (phase # "off") /\ Open' = (phase' # "off")
    /\ Saved = (IF cursor = Gone THEN -1 ELSE cursor.at.last)
    /\ Saved' = (IF cursor' = Gone THEN -1 ELSE cursor'.at.last)
BY DEF Kept, Open, Saved

LEMMA LogWrite ==
    ASSUME Complete' = Complete + 1, tail'.last = tail.last, Saved' = Saved,
           Kept' <=> Kept, Open' <=> Open
    PROVE  Log!LogNext
<1>1. Kept' = Kept /\ (phase' # "off") = (phase # "off")
  BY Booleans
<1>2. (IF cursor' = Gone THEN -1 ELSE cursor'.at.last) = (IF cursor = Gone THEN -1 ELSE cursor.at.last)
  BY Booleans
<1>. QED
  BY <1>1, <1>2 DEF Log!LogNext, Log!Write

LEMMA LogForget ==
    ASSUME Complete' = Complete, tail'.last = tail.last, Saved' = Saved,
           Kept, ~ Kept', Open' <=> Open
    PROVE  Log!LogNext
<1>1. Kept' = FALSE /\ (phase' # "off") = (phase # "off")
  BY Booleans
<1>2. (IF cursor' = Gone THEN -1 ELSE cursor'.at.last) = (IF cursor = Gone THEN -1 ELSE cursor.at.last)
  BY Booleans
<1>. QED
  BY <1>1, <1>2 DEF Log!LogNext, Log!Forget

LEMMA LogResume ==
    ASSUME Complete' = Complete, tail'.last = Saved, Saved' = Saved,
           Kept, Kept', ~ Open, Open'
    PROVE  Log!LogNext
<1>1. Kept' = Kept /\ (phase' # "off") = TRUE /\ ~ (phase # "off")
  BY Booleans
<1>2. (IF cursor' = Gone THEN -1 ELSE cursor'.at.last) = (IF cursor = Gone THEN -1 ELSE cursor.at.last)
      /\ tail'.last = (IF cursor = Gone THEN -1 ELSE cursor.at.last)
  BY Booleans
<1>. QED
  BY <1>1, <1>2 DEF Log!LogNext, Log!Resume

(* The saves of the other steps.                                            *)
Saves ==
    \/ Kept' /\ cursor' # Gone /\ cursor'.at.last = tail'.last
    \/ cursor' = cursor /\ (Kept' <=> Kept)

LEMMA LogSaves ==
    ASSUME Saves
    PROVE  Log!MaySave
<1>1. CASE Kept' /\ cursor' # Gone /\ cursor'.at.last = tail'.last
  <2>1. Kept' = TRUE /\ (IF cursor' = Gone THEN -1 ELSE cursor'.at.last) = tail'.last
    BY <1>1, Booleans
  <2>. QED
    BY <2>1 DEF Log!MaySave, Log!Save
<1>2. CASE cursor' = cursor /\ (Kept' <=> Kept)
  <2>1. Kept' = Kept
    BY <1>2, Booleans
  <2>2. (IF cursor' = Gone THEN -1 ELSE cursor'.at.last) = (IF cursor = Gone THEN -1 ELSE cursor.at.last)
    BY <1>2
  <2>. QED
    BY <2>1, <2>2 DEF Log!MaySave
<1>. QED
  BY <1>1, <1>2 DEF Saves

LEMMA LogBootstrap ==
    ASSUME Complete' = Complete, tail'.last = Complete, Saves, ~ Kept, ~ Open, Open'
    PROVE  Log!LogNext
<1>1. (phase' # "off") = TRUE /\ ~ (phase # "off") /\ Log!MaySave
  BY Booleans, LogSaves
<1>. QED
  BY <1>1 DEF Log!LogNext, Log!Bootstrap

LEMMA LogConsume ==
    ASSUME Complete' = Complete, Saves, Open, Open' <=> Open,
           Kept => tail'.last = tail.last + 1, tail'.last \in tail.last + 1 .. Complete,
           tail.last \in Nat, Complete \in Nat
    PROVE  Log!LogNext
<1>1. (phase' # "off") = (phase # "off") /\ (phase # "off") /\ Log!MaySave
  BY Booleans, LogSaves
<1>2. tail'.last <= Complete
  OBVIOUS
<1>. QED
  BY <1>1, <1>2 DEF Log!LogNext, Log!Consume

LEMMA LogCheckpoint ==
    ASSUME Complete' = Complete, tail'.last = tail.last, Kept', cursor' # Gone,
           cursor'.at.last = tail'.last, Open, Open' <=> Open
    PROVE  Log!LogNext
<1>1. (phase' # "off") = (phase # "off") /\ (phase # "off") /\ Kept' = TRUE
      /\ (IF cursor' = Gone THEN -1 ELSE cursor'.at.last) = tail'.last
  BY Booleans
<1>. QED
  BY <1>1 DEF Log!LogNext, Log!Checkpoint, Log!Save

LEMMA LogClose ==
    ASSUME Complete' = Complete, tail'.last = tail.last, Saves, Open, ~ Open'
    PROVE  Log!LogNext
<1>1. (phase' # "off") = FALSE /\ (phase # "off") /\ Log!MaySave
  BY Booleans, LogSaves
<1>. QED
  BY <1>1 DEF Log!LogNext, Log!Close

(* Every step under the invariant is a step of the log or none.             *)
LEMMA RelayLog ==
    ASSUME IInv, RelayNext, ~ lagged'
    PROVE  Log!LogNext \/ UNCHANGED Log!logVars
<1>1. /\ TypeOK /\ FilesInv /\ CursorInv /\ SessionInv
      /\ (Open <=> phase # "off") /\ (Open' <=> phase' # "off")
      /\ Open => TailInv /\ QueueInv /\ ReaderInv
  BY Unlagged DEF IInv, Next, SessionInv, Open
<1>2. Complete' = Complete
  BY SameMod DEF RelayNext, ResumeSession, BootstrapSession, ReadAhead, ReadInOrder, Discard, Take,
     RetrySave, EndSession
<1>3. CASE ResumeSession
  <2>1. /\ (Kept' <=> Kept) /\ Kept /\ tail'.last = cursor.at.last /\ cursor' = cursor
        /\ ~ Open /\ Open'
    BY <1>1, <1>3, ResumeStep
  <2>2. tail'.last = Saved /\ Saved' = Saved
    BY <2>1 DEF Saved, Kept
  <2>. QED
    BY <1>2, <2>1, <2>2, LogResume
<1>4. CASE BootstrapSession
  <2>1. ~ Kept /\ tail'.last = Complete /\ Saves /\ ~ Open /\ Open'
    BY <1>1, <1>4, BootstrapStep DEF Saves
  <2>. QED
    BY <1>2, <2>1, LogBootstrap
<1>5. CASE ReadAhead
  <2>1. tail'.last = tail.last /\ Saved' = Saved /\ (Kept' <=> Kept) /\ (Open' <=> Open)
    BY <1>1, <1>5, ReadAheadStep DEF Saved
  <2>. QED
    BY <1>2, <2>1, LogSame
<1>6. CASE ReadInOrder
  <2>1. tail'.last = tail.last /\ Saved' = Saved /\ (Kept' <=> Kept) /\ (Open' <=> Open)
    BY <1>1, <1>6, ReadInOrderStep DEF Saved, Open
  <2>. QED
    BY <1>2, <2>1, LogSame
<1>7. CASE Discard
  BY <1>1, <1>7, DiscardStep
<1>8. CASE Take
  <2>1. Open /\ (Open' <=> Open)
    BY <1>1, <1>8, TakeTyped DEF Open
  <2>2. /\ Kept => tail'.last = tail.last + 1
        /\ tail'.last \in tail.last + 1 .. Complete
        /\ Saves
    BY <1>1, <1>8, <2>1, TakeStep DEF Saves
  <2>3. tail.last \in Nat /\ Complete \in Nat
    BY <1>1, SessionFact, BootstrapFact
  <2>. QED
    BY <1>2, <2>1, <2>2, <2>3, LogConsume
<1>9. CASE RetrySave
  <2>1. tail' = tail /\ Open /\ (Open' <=> Open)
    BY <1>1, <1>9, RetrySaveStep DEF Open
  <2>2. cursor' # Gone /\ cursor'.at.last = tail.last /\ Kept'
    BY <1>1, <1>9, <2>1, RetrySaveStep
  <2>3. tail'.last = tail.last /\ cursor'.at.last = tail'.last
    BY <2>1, <2>2
  <2>. QED
    BY <1>2, <2>1, <2>2, <2>3, LogCheckpoint
<1>10. CASE EndSession
  <2>1. tail' = tail /\ Open /\ ~ Open'
    BY <1>1, <1>10, EndSessionStep
  <2>2. \/ cursor' # Gone /\ cursor'.at.last = tail.last /\ Kept'
        \/ cursor' = cursor /\ (Kept' <=> Kept)
    BY <1>1, <1>10, <2>1, EndSessionStep
  <2>3. tail'.last = tail.last /\ Saves
    BY <2>1, <2>2 DEF Saves
  <2>. QED
    BY <1>2, <2>1, <2>3, LogClose
<1>. QED
  BY <1>3, <1>4, <1>5, <1>6, <1>7, <1>8, <1>9, <1>10 DEF RelayNext

LEMMA LogStep ==
    ASSUME IInv, [Next]_vars
    PROVE  [lagged' \/ Log!LogNext]_(Log!logVars)
<1>1. CASE lagged'
  BY <1>1
<1>2. CASE ~ lagged' /\ ModNext
  <2>1. /\ tail'.last = tail.last /\ Saved' = Saved /\ (Open' <=> Open)
        /\ \/ Complete' \in {Complete, Complete + 1} /\ (Kept' <=> Kept)
           \/ Complete' = Complete /\ Kept /\ ~ Kept'
    BY <1>2, ModLog
  <2>2. Log!LogNext \/ UNCHANGED Log!logVars
    BY <2>1, LogSame, LogWrite, LogForget
  <2>. QED
    BY <2>2
<1>3. CASE ~ lagged' /\ RelayNext
  BY <1>3, RelayLog
<1>4. CASE UNCHANGED vars
  <2>1. /\ current' = current /\ rotated' = rotated /\ written' = written /\ cursor' = cursor
        /\ tail' = tail /\ phase' = phase
    BY <1>4 DEF vars, modSide, relaySide
  <2>2. Files' = Files
    BY <2>1 DEF Files
  <2>3. /\ Complete' = Complete /\ tail'.last = tail.last /\ Saved' = Saved
        /\ (Kept' <=> Kept) /\ (Open' <=> Open)
    BY <2>1, <2>2 DEF Complete, Saved, Kept, Open
  <2>. QED
    BY <2>3, LogSame
<1>. QED
  BY <1>1, <1>2, <1>3, <1>4 DEF Next

LEMMA LogStart ==
    ASSUME Init
    PROVE  Log!LogInit
<1>1. /\ Complete = 0 /\ tail.last = 0 /\ cursor = Gone /\ ~ Kept /\ phase = "off"
  BY DEF Init, Complete, Kept
<1>2. Kept = FALSE /\ (phase # "off") = FALSE
  BY <1>1, Booleans
<1>. QED
  BY <1>1, <1>2 DEF Log!LogInit, Log!Nothing

(* Over the outbox, .1 and the durable cursor the relay reads one log, for  *)
(* any sizes: in order, no line twice in a session, none passed over while  *)
(* the file of the cursor is there, a session taken up where the cursor     *)
(* points; until a session's cursor is a whole file behind (tailer.rs,      *)
(* cursor.rs, bridge.lua _append).                                          *)
THEOREM OneLog ==
    Spec => ImplementsLog
<1>. QED
  BY Invariant, LogStart, LogStep, PTL DEF Spec, ImplementsLog

----------------------------------------------------------------------------
(* The startup that is sent ahead. While the session looks for it, what a   *)
(* read may return is behind the tail.                                      *)
ProbeInv ==
    /\ \/ NextBefore >= tail.last
       \/ /\ current # Gone /\ current.id = probe.id /\ probe.pos <= Size(current)
          /\ current.before + probe.pos >= tail.last
    /\ rotated # Gone /\ rotated.id = probe.id => rotated.before + probe.pos >= tail.last

(* A file with the id of the startup is its file, or one begun after it;    *)
(* and of the queue, what is up to it in its file has the lower offsets.    *)
HoistInv ==
    /\ hoisted.line <= written
    /\ \A f \in Files :
          /\ f.id = hoisted.id => f.before >= hoisted.line \/ f.before + hoisted.pos = hoisted.line
          /\ f.before < hoisted.line /\ hoisted.line <= f.before + Size(f) => f.id = hoisted.id
    /\ \A k \in DOMAIN queue :
          /\ queue[k].id = hoisted.id /\ queue[k].line <= hoisted.line =>
                queue[k].line + hoisted.pos = hoisted.line + queue[k].pos
          /\ queue[k].line = hoisted.line => queue[k].id = hoisted.id

(* As long as no line is passed over, the startup is met when the tail      *)
(* comes to its line.                                                       *)
MetInv ==
    startup > 0 =>
       /\ hoisted # Gone => startup = hoisted.line /\ tail.last < startup
       /\ hoisted = Gone => tail.last >= startup

CursorLong == cursor # Gone => cursor.at.pos <= cursor.len
StartInv ==
    /\ CursorLong
    /\ phase = "probing" => queue = <<>> /\ ProbeInv
    /\ phase = "reading" => (hoisted # Gone => HoistInv) /\ MetInv

LEMMA HoistedFact ==
    ASSUME TypeOK
    PROVE  /\ hoisted # Gone => hoisted \in Mark /\ hoisted.line \in Nat /\ hoisted.pos \in Nat
                                /\ hoisted.id \in Inodes
           /\ startup \in Nat /\ probe.pos \in Nat /\ probe \in Reader
           /\ probe.id \in Inodes \cup {Gone}
BY LineNumbers DEF TypeOK, Mark, Reader

(* The two files hold no line twice.                                        *)
LEMMA OneHolder ==
    ASSUME TypeOK, FilesInv, NEW f \in Files, NEW g \in Files, NEW n \in Nat,
           f.before < n, n <= f.before + Size(f), g.before < n, n <= g.before + Size(g)
    PROVE  f = g
<1>1. ASSUME current # Gone, rotated # Gone
      PROVE  rotated.before + Size(rotated) = current.before /\ current.before \in Nat
             /\ rotated.before + Size(rotated) \in Nat
  BY <1>1, FilesFact, FileFact DEF FilesInv, EndOf, NextBefore
<1>2. ASSUME f # g
      PROVE  FALSE
  <2>1. \/ current # Gone /\ rotated # Gone /\ f = current /\ g = rotated
        \/ current # Gone /\ rotated # Gone /\ f = rotated /\ g = current
    BY <1>2, FilesFact
  <2>. QED
    BY <1>1, <2>1
<1>. QED
  BY <1>2

LEMMA SaveLong ==
    ASSUME NEW place, MaySave(place), CursorLong
    PROVE  CursorLong'
BY DEF MaySave, SaveCursor, CursorLong

(* Lines are added at the end of the files.                                 *)
LEMMA GrownStart ==
    ASSUME TypeOK, FilesInv, StartInv, Grown
    PROVE  StartInv'
<1>1. /\ cursor' = cursor /\ phase' = phase /\ queue' = queue /\ probe' = probe /\ tail' = tail
      /\ hoisted' = hoisted /\ startup' = startup /\ rotated' = rotated
  BY DEF Grown, relaySide
<1>2. /\ NextBefore' = NextBefore /\ written \in Nat /\ written' \in Nat /\ written <= written'
      /\ current' # Gone /\ current' \in File
      /\ Size(current') \in Nat /\ current'.before \in Nat
      /\ current'.before + Size(current') = written'
  BY GrownFiles, FileFact, LineNumbers DEF Grown
<1>3. \A f : f \in Files' <=> f = current' \/ (rotated # Gone /\ f = rotated)
  BY <1>1, <1>2 DEF Files
<1>4. /\ current # Gone => /\ current \in Files /\ current'.id = current.id /\ current'.before = current.before
                           /\ Size(current) <= Size(current') /\ Size(current) \in Nat
                           /\ current.before + Size(current) = written
      /\ current = Gone => current'.before = written
      /\ rotated # Gone => rotated \in Files
  BY FilesFact, FileFact DEF Grown, Extends, FilesInv
<1>5. ASSUME ProbeInv
      PROVE  ProbeInv'
  <2>1. \/ NextBefore' >= tail'.last
        \/ /\ current' # Gone /\ current'.id = probe'.id /\ probe'.pos <= Size(current')
           /\ current'.before + probe'.pos >= tail'.last
    BY <1>1, <1>2, <1>4, <1>5, HoistedFact DEF ProbeInv
  <2>. QED
    BY <1>1, <1>5, <2>1 DEF ProbeInv
<1>6. ASSUME hoisted # Gone, HoistInv
      PROVE  HoistInv'
  <2>1. hoisted.line \in Nat /\ hoisted.line <= written
    BY <1>6, HoistedFact DEF HoistInv
  <2>2. /\ current'.id = hoisted.id => \/ current'.before >= hoisted.line
                                       \/ current'.before + hoisted.pos = hoisted.line
        /\ current'.before < hoisted.line /\ hoisted.line <= current'.before + Size(current') =>
              current'.id = hoisted.id
    BY <1>2, <1>4, <1>6, <2>1 DEF HoistInv
  <2>3. \A f \in Files' :
          /\ f.id = hoisted.id => f.before >= hoisted.line \/ f.before + hoisted.pos = hoisted.line
          /\ f.before < hoisted.line /\ hoisted.line <= f.before + Size(f) => f.id = hoisted.id
    BY <1>3, <1>4, <1>6, <2>2 DEF HoistInv
  <2>4. hoisted.line <= written'
    BY <1>2, <2>1
  <2>. QED
    BY <1>1, <1>6, <2>3, <2>4 DEF HoistInv
<1>. QED
  BY <1>1, <1>5, <1>6 DEF StartInv, CursorLong, MetInv

(* A step that moves or removes files.                                      *)
LEMMA MovedStart ==
    ASSUME StartInv, UNCHANGED relaySide, written' = written, Files' \subseteq Files,
           ProbeInv => ProbeInv'
    PROVE  StartInv'
<1>1. /\ cursor' = cursor /\ phase' = phase /\ queue' = queue /\ tail' = tail
      /\ hoisted' = hoisted /\ startup' = startup
  BY DEF relaySide
<1>2. HoistInv => HoistInv'
  BY <1>1 DEF HoistInv
<1>. QED
  BY <1>1, <1>2 DEF StartInv, CursorLong, MetInv

LEMMA ModStart ==
    ASSUME TypeOK, FilesInv, StartInv, ModNext
    PROVE  StartInv'
<1>1. CASE AppendLine \/ CompleteLine
  BY <1>1, AppendLineGrows, CompleteLineGrows, GrownStart
<1>2. CASE BeginRotation \/ KillMod
  <2>1. UNCHANGED <<current, rotated, rotations, written>> /\ UNCHANGED relaySide
    BY <1>2 DEF BeginRotation, KillMod
  <2>2. Files' = Files /\ NextBefore' = NextBefore
    BY <2>1, SameFiles
  <2>3. ProbeInv => ProbeInv'
    BY <2>1, <2>2 DEF ProbeInv, relaySide
  <2>. QED
    BY <2>1, <2>2, <2>3, MovedStart
<1>3. CASE RemoveRotated
  <2>1. /\ current' = current /\ written' = written /\ rotated' = Gone /\ UNCHANGED relaySide
        /\ tail' = tail /\ probe' = probe
    BY <1>3 DEF RemoveRotated, relaySide
  <2>2. Files' \subseteq Files /\ NextBefore' = NextBefore
    BY <2>1 DEF Files, NextBefore
  <2>3. ProbeInv => ProbeInv'
    BY <2>1, <2>2 DEF ProbeInv
  <2>. QED
    BY <2>1, <2>2, <2>3, MovedStart
<1>4. CASE Rename
  <2>1. /\ written' = written /\ UNCHANGED relaySide /\ tail' = tail /\ probe' = probe
        /\ current # Gone /\ rotated = Gone
        /\ \/ rotated' = current /\ current' = Gone
           \/ rotated' = rotated /\ current' = current
    BY <1>4 DEF Rename, relaySide, FilesInv
  <2>2. Files' = Files
    BY <2>1 DEF Files
  <2>3. /\ current.before \in Nat /\ Size(current) \in Nat /\ current.before + Size(current) = written
        /\ written \in Nat /\ tail.last \in Nat /\ probe.pos \in Nat /\ NextBefore = current.before
    BY <2>1, FilesFact, FileFact, SessionFact, HoistedFact DEF FilesInv, NextBefore
  <2>4. ASSUME rotated' = current, current' = Gone, ProbeInv
        PROVE  ProbeInv'
    <3>1. NextBefore' = written
      BY <2>1, <2>4 DEF NextBefore
    <3>2. written >= tail.last
      BY <2>1, <2>3, <2>4 DEF ProbeInv
    <3>3. current.id = probe.id => current.before + probe.pos >= tail.last
      BY <2>1, <2>3, <2>4 DEF ProbeInv
    <3>. QED
      BY <2>1, <2>4, <3>1, <3>2, <3>3 DEF ProbeInv
  <2>5. ASSUME rotated' = rotated, current' = current, ProbeInv
        PROVE  ProbeInv'
    BY <2>1, <2>5 DEF ProbeInv, NextBefore
  <2>. QED
    BY <2>1, <2>2, <2>4, <2>5, MovedStart
<1>. QED
  BY <1>1, <1>2, <1>3, <1>4 DEF ModNext

(* A session begins with the tail where the probe is.                       *)
LEMMA BeginStart ==
    ASSUME TypeOK, FilesInv, NEW place \in Place, Begin(place), UNCHANGED modSide, CursorLong',
           \/ NextBefore >= place.last
           \/ /\ current # Gone /\ current.id = place.id /\ place.pos <= Size(current)
              /\ current.before + place.pos >= place.last,
           rotated # Gone /\ rotated.id = place.id => rotated.before + place.pos >= place.last
    PROVE  StartInv'
<1>1. /\ phase' = "probing" /\ tail' = place /\ probe' = tailer' /\ queue' = <<>>
      /\ tailer' = [pos |-> place.pos, id |-> place.id, generation |-> 0]
  BY DEF Begin
<1>2. tail'.last = place.last /\ probe'.pos = place.pos /\ probe'.id = place.id
  BY <1>1
<1>3. current' = current /\ rotated' = rotated /\ NextBefore' = NextBefore
  BY SameMod
<1>4. ProbeInv'
  BY <1>2, <1>3 DEF ProbeInv
<1>. QED
  BY <1>1, <1>4 DEF StartInv

LEMMA ResumeStart ==
    ASSUME TypeOK, FilesInv, StartInv, ResumeSession
    PROVE  StartInv'
<1>1. UNCHANGED modSide /\ cursor' = cursor /\ cursor # Gone
  BY DEF ResumeSession
<1>. PICK f \in Files :
        /\ Fences(cursor, f)
        /\ Begin([cursor.at EXCEPT !.last = LineBefore(f, cursor.at.pos)])
  BY DEF ResumeSession
<1>. DEFINE place == [cursor.at EXCEPT !.last = LineBefore(f, cursor.at.pos)]
<1>2. /\ f \in File /\ Shaped(f) /\ f.before \in Nat /\ Len(f.lines) \in Nat /\ Size(f) \in Nat
      /\ DOMAIN f.lines = 1 .. Len(f.lines) /\ Len(f.lines) <= Size(f)
  BY FilesFact, FileFact, ShapedFact DEF FilesInv
<1>3. place \in Place /\ cursor.at \in Place /\ cursor.at.pos \in Nat /\ cursor.len \in Nat
  BY <1>1, <1>2, ResumePlace, LineNumbers DEF TypeOK, Cursor, Place
<1>4. place.pos = cursor.at.pos /\ place.id = cursor.at.id /\ place.last = LineBefore(f, cursor.at.pos)
  BY <1>3 DEF Place
<1>5. f.id = place.id /\ place.pos <= Size(f)
  BY <1>1, <1>2, <1>3, <1>4 DEF Fences, StartInv, CursorLong
<1>6. place.last <= f.before + place.pos /\ place.last <= EndOf(f) /\ place.last \in Nat
  <2>1. CASE cursor.at.pos \in 1 .. Len(f.lines)
    <3>1. place.last = f.before + cursor.at.pos
      BY <1>2, <1>4, <2>1 DEF LineBefore, Shaped
    <3>. QED
      BY <1>2, <1>3, <1>4, <2>1, <3>1 DEF EndOf
  <2>2. CASE cursor.at.pos \notin 1 .. Len(f.lines)
    <3>1. place.last = f.before
      BY <1>2, <1>4, <2>2 DEF LineBefore
    <3>. QED
      BY <1>2, <1>3, <1>4, <3>1 DEF EndOf
  <2>. QED
    BY <2>1, <2>2
<1>7. \/ NextBefore >= place.last
      \/ /\ current # Gone /\ current.id = place.id /\ place.pos <= Size(current)
         /\ current.before + place.pos >= place.last
  <2>1. CASE current # Gone /\ f = current
    BY <1>5, <1>6, <2>1
  <2>2. CASE rotated # Gone /\ f = rotated
    <3>1. EndOf(f) = NextBefore
      BY <2>2 DEF FilesInv
    <3>. QED
      BY <1>6, <3>1
  <2>. QED
    BY <2>1, <2>2, FilesFact
<1>8. rotated # Gone /\ rotated.id = place.id => rotated.before + place.pos >= place.last
  <2>1. rotated # Gone /\ rotated.id = place.id => f = rotated
    BY <1>5, OneFile, FilesFact
  <2>. QED
    BY <1>6, <2>1
<1>9. Begin(place) /\ CursorLong'
  BY <1>1 DEF StartInv, CursorLong
<1>. HIDE DEF place
<1>. QED
  BY <1>1, <1>3, <1>7, <1>8, <1>9, BeginStart

LEMMA BootstrapStart ==
    ASSUME TypeOK, FilesInv, StartInv, BootstrapSession
    PROVE  StartInv'
<1>1. UNCHANGED modSide /\ Begin(BootstrapPlace) /\ MaySave(BootstrapPlace)
  BY DEF BootstrapSession
<1>2. CursorLong'
  BY <1>1, SaveLong DEF StartInv
<1>3. BootstrapPlace \in Place
  BY BootstrapFact
<1>4. /\ \/ NextBefore >= BootstrapPlace.last
         \/ /\ current # Gone /\ current.id = BootstrapPlace.id /\ BootstrapPlace.pos <= Size(current)
            /\ current.before + BootstrapPlace.pos >= BootstrapPlace.last
      /\ rotated # Gone => rotated.id # BootstrapPlace.id
  <2>1. CASE current = Gone
    <3>1. BootstrapPlace.id = Gone /\ BootstrapPlace.last = NextBefore /\ NextBefore \in Nat
      BY <2>1, BootstrapFact, SessionFact
    <3>2. rotated # Gone => rotated.id # Gone
      BY FilesFact, FileFact
    <3>. QED
      BY <3>1, <3>2
  <2>2. CASE current # Gone
    <3>1. /\ BootstrapPlace.id = current.id /\ BootstrapPlace.pos <= Len(current.lines)
          /\ BootstrapPlace.last = current.before + BootstrapPlace.pos
      BY <2>2, BootstrapFact DEF PlaceIn
    <3>2. /\ Len(current.lines) \in Nat /\ Size(current) \in Nat /\ current.before \in Nat
          /\ Len(current.lines) <= Size(current) /\ BootstrapPlace.pos \in Nat
      BY <1>3, <2>2, FilesFact, FileFact, ShapedFact, LineNumbers DEF FilesInv, Place
    <3>3. rotated # Gone => rotated.id # current.id
      BY <2>2 DEF FilesInv
    <3>. QED
      BY <2>2, <3>1, <3>2, <3>3
  <2>. QED
    BY <2>1, <2>2
<1>. QED
  BY <1>1, <1>2, <1>3, <1>4, BeginStart

(* What the probe may be given is behind the tail.                          *)
LEMMA ProbeReads ==
    ASSUME TypeOK, FilesInv, ProbeInv, NEW r \in Reads(probe)
    PROVE  /\ \A k \in DOMAIN r.marks :
                 r.marks[k].line > tail.last /\ \E f \in Files : MarkIn(r.marks[k], f)
           /\ \/ NextBefore >= tail.last
              \/ /\ current # Gone /\ current.id = r.to.id /\ r.to.pos <= Size(current)
                 /\ current.before + r.to.pos >= tail.last
           /\ rotated # Gone /\ rotated.id = r.to.id => rotated.before + r.to.pos >= tail.last
<1>1. /\ current # Gone => /\ current \in Files /\ current \in File /\ NextBefore = current.before
                           /\ current.id # Gone /\ current.before \in Nat /\ Len(current.lines) \in Nat
                           /\ Size(current) \in Nat /\ Len(current.lines) <= Size(current)
      /\ rotated # Gone => /\ rotated \in Files /\ rotated \in File /\ EndOf(rotated) = NextBefore
                           /\ rotated.id # Gone /\ rotated.before \in Nat /\ Len(rotated.lines) \in Nat
                           /\ EndOf(rotated) = rotated.before + Len(rotated.lines)
      /\ current # Gone /\ rotated # Gone => current.id # rotated.id
      /\ NextBefore \in Nat /\ tail.last \in Nat /\ probe.pos \in Nat /\ probe \in Reader
  BY FilesFact, FileFact, ShapedFact, SessionFact, HoistedFact DEF FilesInv, NextBefore, EndOf
<1>2. CASE /\ r.marks = <<>> /\ r.to = [probe EXCEPT !.pos = 0, !.id = Gone]
           /\ current = Gone /\ rotated # Gone /\ probe.id = rotated.id
  <2>1. r.to.id = Gone /\ DOMAIN r.marks = {}
    BY <1>1, <1>2 DEF Reader
  <2>2. NextBefore >= tail.last
    BY <1>2 DEF ProbeInv
  <2>. QED
    BY <1>1, <1>2, <2>1, <2>2
<1>3. ASSUME NEW f \in Files, NEW from \in Nat, NEW g \in 0 .. MaxRewinds,
             Goes(probe, f, from, g), r \in Batches(f, from, g)
      PROVE  /\ \A k \in DOMAIN r.marks :
                   r.marks[k].line > tail.last /\ \E h \in Files : MarkIn(r.marks[k], h)
             /\ \/ NextBefore >= tail.last
                \/ /\ current # Gone /\ current.id = r.to.id /\ r.to.pos <= Size(current)
                   /\ current.before + r.to.pos >= tail.last
             /\ rotated # Gone /\ rotated.id = r.to.id => rotated.before + r.to.pos >= tail.last
  <2>1. f \in File /\ Shaped(f) /\ f.before \in Nat /\ Len(f.lines) \in Nat /\ f.id # Gone
    BY FilesFact, FileFact DEF FilesInv
  <2>. PICK n \in Nat : /\ r.to = [pos |-> n, id |-> f.id, generation |-> g]
                        /\ BatchOf(r.marks, f, from, n, g)
    BY <1>3, <2>1, BatchFact
  <2>2. /\ DOMAIN r.marks = 1 .. n - from /\ from <= n /\ n <= Len(f.lines)
        /\ \A k \in 1 .. n - from : MarkIn(r.marks[k], f) /\ r.marks[k].line = f.before + from + k
    BY DEF BatchOf
  <2>3. r.to.pos = n /\ r.to.id = f.id
    OBVIOUS
  <2>4. /\ f.before + from >= tail.last
        /\ NextBefore >= tail.last \/ (current # Gone /\ f = current)
    <3>1. CASE current # Gone /\ f = current
      <4>1. CASE NextBefore >= tail.last
        BY <1>1, <2>1, <3>1, <4>1
      <4>2. CASE ~ (NextBefore >= tail.last)
        <5>1. /\ current.id = probe.id /\ probe.pos <= Size(current)
              /\ current.before + probe.pos >= tail.last
          BY <4>2 DEF ProbeInv
        <5>2. Ours(probe)
          BY <1>1, <3>1, <5>1 DEF Ours
        <5>3. from = probe.pos
          BY <1>1, <1>3, <3>1, <5>1, <5>2 DEF Goes
        <5>. QED
          BY <3>1, <5>1, <5>3
      <4>. QED
        BY <4>1, <4>2
    <3>2. CASE ~ (current # Gone /\ f = current)
      <4>1. rotated # Gone /\ f = rotated /\ probe.id = rotated.id /\ from = probe.pos
        BY <1>3, <3>2, FilesFact DEF Goes
      <4>2. rotated.before + probe.pos >= tail.last
        BY <4>1 DEF ProbeInv
      <4>3. NextBefore >= tail.last
        BY <1>1, <4>1 DEF ProbeInv
      <4>. QED
        BY <4>1, <4>2, <4>3
    <3>. QED
      BY <3>1, <3>2
  <2>5. ASSUME NEW k \in DOMAIN r.marks
        PROVE  r.marks[k].line > tail.last /\ \E h \in Files : MarkIn(r.marks[k], h)
    <3>1. k \in 1 .. n - from
      BY <2>2
    <3>2. r.marks[k].line = f.before + from + k /\ MarkIn(r.marks[k], f) /\ k \in Int /\ k >= 1
      BY <2>2, <3>1
    <3>. QED
      BY <1>1, <2>1, <2>4, <3>2
  <2>6. f.before + n >= tail.last
    BY <1>1, <2>1, <2>2, <2>4
  <2>7. rotated # Gone /\ rotated.id = f.id => f = rotated
    BY OneFile, FilesFact
  <2>8. n <= Size(f)
    BY <2>1, <2>2, FileFact, ShapedFact
  <2>. QED
    BY <2>3, <2>4, <2>5, <2>6, <2>7, <2>8
<1>. QED
  BY <1>1, <1>2, <1>3, ReadsFact

LEMMA ReadAheadStart ==
    ASSUME TypeOK, FilesInv, StartInv, ReadAhead
    PROVE  StartInv'
<1>. PICK r \in Reads(probe) :
        /\ probe' = r.to
        /\ \/ \E k \in DOMAIN r.marks :
                 /\ hoisted' = [r.marks[k] EXCEPT !.generation = tailer.generation]
                 /\ startup' = r.marks[k].line /\ phase' = "reading"
           \/ UNCHANGED <<hoisted, startup, phase>>
  BY DEF ReadAhead
<1>1. /\ phase = "probing" /\ UNCHANGED modSide /\ cursor' = cursor /\ queue' = queue /\ tail' = tail
      /\ queue = <<>> /\ ProbeInv
  BY DEF ReadAhead, StartInv
<1>2. /\ current' = current /\ rotated' = rotated /\ written' = written /\ Files' = Files
      /\ NextBefore' = NextBefore /\ CursorLong'
  BY <1>1, SameMod DEF StartInv, CursorLong
<1>3. CASE phase' = phase
  <2>1. /\ \/ NextBefore >= tail.last
           \/ /\ current # Gone /\ current.id = r.to.id /\ r.to.pos <= Size(current)
              /\ current.before + r.to.pos >= tail.last
        /\ rotated # Gone /\ rotated.id = r.to.id => rotated.before + r.to.pos >= tail.last
    BY <1>1, ProbeReads
  <2>2. ProbeInv'
    BY <1>1, <1>2, <2>1 DEF ProbeInv
  <2>. QED
    BY <1>1, <1>2, <1>3, <2>2 DEF StartInv
<1>4. ASSUME NEW k \in DOMAIN r.marks,
             hoisted' = [r.marks[k] EXCEPT !.generation = tailer.generation],
             startup' = r.marks[k].line, phase' = "reading"
      PROVE  StartInv'
  <2>1. r.marks[k].line > tail.last /\ \E f \in Files : MarkIn(r.marks[k], f)
    BY <1>1, ProbeReads
  <2>2. r.marks[k] \in Mark
    <3>1. r.marks \in Seq(Mark)
      BY ReadTyped, HoistedFact
    <3>. QED
      BY <3>1, ElementOfSeq, LenProperties
  <2>3. /\ hoisted'.line = r.marks[k].line /\ hoisted'.id = r.marks[k].id /\ hoisted'.pos = r.marks[k].pos
        /\ hoisted'.line \in Nat /\ hoisted'.pos \in Nat
    BY <1>4, <2>2, LineNumbers DEF Mark
  <2>. PICK f \in Files : MarkIn(r.marks[k], f)
    BY <2>1
  <2>4. /\ f \in File /\ f.before \in Nat /\ Len(f.lines) \in Nat /\ Size(f) \in Nat /\ Len(f.lines) <= Size(f)
        /\ hoisted'.id = f.id /\ hoisted'.pos \in 1 .. Len(f.lines) /\ hoisted'.line = f.before + hoisted'.pos
    BY <2>3, FilesFact, FileFact, ShapedFact DEF MarkIn, FilesInv
  <2>5. hoisted'.line <= written'
    <3>1. f.before + Len(f.lines) <= written
      <4>1. EndOf(f) <= Complete
        BY EndFact
      <4>2. Complete <= written /\ Complete \in Int /\ written \in Int
        BY FilesFact DEF Complete
      <4>3. EndOf(f) = f.before + Len(f.lines)
        BY DEF EndOf
      <4>. QED
        BY <2>4, <4>1, <4>2, <4>3
    <3>2. hoisted'.line <= f.before + Len(f.lines)
      BY <2>3, <2>4
    <3>3. written' = written /\ written \in Int /\ f.before + Len(f.lines) \in Int /\ hoisted'.line \in Int
      BY <1>2, <2>3, <2>4, FilesFact
    <3>. QED
      BY <3>1, <3>2, <3>3
  <2>6. ASSUME NEW g \in Files
        PROVE  /\ g.id = hoisted'.id => g.before + hoisted'.pos = hoisted'.line
               /\ g.before < hoisted'.line /\ hoisted'.line <= g.before + Size(g) => g.id = hoisted'.id
    <3>1. g.id = f.id => g = f
      BY OneFile
    <3>2. g.before < hoisted'.line /\ hoisted'.line <= g.before + Size(g) => g = f
      <4>1. f.before < hoisted'.line /\ hoisted'.line <= f.before + Size(f)
        BY <2>4
      <4>. QED
        BY <2>3, <4>1, OneHolder
    <3>. QED
      BY <2>4, <3>1, <3>2
  <2>7. HoistInv'
    <3>1. queue' = <<>> /\ DOMAIN queue' = {}
      BY <1>1
    <3>. QED
      BY <1>2, <2>5, <2>6, <3>1 DEF HoistInv
  <2>8. MetInv'
    <3>1. hoisted' # Gone
      <4>1. hoisted' \in Mark \cup {Gone}
        BY <1>4, <2>2, LineNumbers DEF Mark, TypeOK, Reader
      <4>2. hoisted' \in Mark
        BY <1>4, <2>2 DEF Mark, TypeOK, Reader
      <4>. QED
        BY <4>2, GoneAssumption
    <3>2. startup' = hoisted'.line /\ tail'.last < startup'
      BY <1>1, <1>4, <2>1, <2>3, SessionFact
    <3>. QED
      BY <3>1, <3>2 DEF MetInv
  <2>. QED
    BY <1>2, <1>4, <2>7, <2>8 DEF StartInv
<1>. QED
  BY <1>3, <1>4

LEMMA ReadMarks ==
    ASSUME TypeOK, FilesInv, NEW t \in Reader, NEW r \in Reads(t), NEW k \in DOMAIN r.marks
    PROVE  \E f \in Files : MarkIn(r.marks[k], f)
<1>1. ASSUME NEW f \in Files, NEW from \in Nat, NEW g \in 0 .. MaxRewinds, r \in Batches(f, from, g)
      PROVE  MarkIn(r.marks[k], f)
  <2>1. f \in File /\ Shaped(f)
    BY FilesFact DEF FilesInv
  <2>. PICK n \in Nat : BatchOf(r.marks, f, from, n, g)
    BY <1>1, <2>1, BatchFact
  <2>. QED
    BY DEF BatchOf
<1>2. r.marks # <<>>
  OBVIOUS
<1>. QED
  BY <1>1, <1>2, ReadsFact

(* What is read behind the startup.                                         *)
LEMMA MarkHoisted ==
    ASSUME TypeOK, FilesInv, HoistInv, hoisted # Gone, NEW m, NEW f \in Files, MarkIn(m, f)
    PROVE  /\ m.id = hoisted.id /\ m.line <= hoisted.line =>
                  m.line + hoisted.pos = hoisted.line + m.pos
           /\ m.line = hoisted.line => m.id = hoisted.id
<1>1. /\ f.before \in Nat /\ Len(f.lines) \in Nat /\ Size(f) \in Nat /\ Len(f.lines) <= Size(f)
      /\ hoisted.line \in Nat /\ hoisted.pos \in Nat
  BY FilesFact, FileFact, ShapedFact, HoistedFact DEF FilesInv
<1>2. m.id = f.id /\ m.pos \in 1 .. Len(f.lines) /\ m.line = f.before + m.pos
  BY DEF MarkIn
<1>3. /\ f.id = hoisted.id => f.before >= hoisted.line \/ f.before + hoisted.pos = hoisted.line
      /\ f.before < hoisted.line /\ hoisted.line <= f.before + Size(f) => f.id = hoisted.id
  BY DEF HoistInv
<1>4. m.id = hoisted.id /\ m.line <= hoisted.line => m.line + hoisted.pos = hoisted.line + m.pos
  BY <1>1, <1>2, <1>3
<1>5. m.line = hoisted.line => m.id = hoisted.id
  BY <1>1, <1>2, <1>3
<1>. QED
  BY <1>4, <1>5

LEMMA ReadInOrderStart ==
    ASSUME TypeOK, FilesInv, StartInv, ReadInOrder
    PROVE  StartInv'
<1>1. /\ UNCHANGED modSide /\ cursor' = cursor /\ tail' = tail /\ hoisted' = hoisted
      /\ startup' = startup /\ phase' = phase /\ phase = "reading"
  BY DEF ReadInOrder
<1>2. /\ written' = written /\ Files' = Files /\ CursorLong' /\ MetInv' /\ (hoisted # Gone => HoistInv)
  BY <1>1, SameMod DEF StartInv, CursorLong, MetInv
<1>. PICK r \in Reads(tailer) : queue' = queue \o r.marks
  BY DEF ReadInOrder
<1>3. r.marks \in Seq(Mark) /\ tailer \in Reader /\ queue \in Seq(Mark)
  BY ReadTyped DEF TypeOK
<1>4. /\ Len(queue) \in Nat /\ Len(r.marks) \in Nat /\ DOMAIN queue = 1 .. Len(queue)
      /\ DOMAIN r.marks = 1 .. Len(r.marks)
      /\ Len(queue \o r.marks) = Len(queue) + Len(r.marks) /\ queue \o r.marks \in Seq(Mark)
      /\ \A k \in 1 .. Len(queue) + Len(r.marks) :
            (queue \o r.marks)[k] = IF k <= Len(queue) THEN queue[k] ELSE r.marks[k - Len(queue)]
  BY <1>3, LenProperties, ConcatProperties
<1>5. DOMAIN queue' = 1 .. Len(queue) + Len(r.marks)
  BY <1>4, LenProperties
<1>6. ASSUME hoisted # Gone
      PROVE  HoistInv'
  <2>1. ASSUME NEW k \in DOMAIN queue'
        PROVE  /\ queue'[k].id = hoisted.id /\ queue'[k].line <= hoisted.line =>
                    queue'[k].line + hoisted.pos = hoisted.line + queue'[k].pos
               /\ queue'[k].line = hoisted.line => queue'[k].id = hoisted.id
    <3>1. CASE k <= Len(queue)
      <4>1. k \in DOMAIN queue /\ queue'[k] = queue[k]
        BY <1>4, <1>5, <3>1
      <4>. QED
        BY <1>2, <1>6, <4>1 DEF HoistInv
    <3>2. CASE ~ (k <= Len(queue))
      <4>1. k - Len(queue) \in DOMAIN r.marks /\ queue'[k] = r.marks[k - Len(queue)]
        BY <1>4, <1>5, <3>2
      <4>2. \E f \in Files : MarkIn(queue'[k], f)
        BY <1>3, <4>1, ReadMarks
      <4>. QED
        BY <1>2, <1>6, <4>2, MarkHoisted
    <3>. QED
      BY <3>1, <3>2
  <2>. QED
    BY <1>1, <1>2, <1>6, <2>1 DEF HoistInv
<1>. QED
  BY <1>1, <1>2, <1>6 DEF StartInv

LEMMA DiscardStart ==
    ASSUME TypeOK, FilesInv, StartInv, Discard
    PROVE  StartInv'
<1>1. /\ UNCHANGED modSide /\ cursor' = cursor /\ tail' = tail /\ hoisted' = hoisted
      /\ startup' = startup /\ phase' = phase /\ phase = "reading" /\ queue # <<>>
      /\ queue' = Tail(queue)
  BY DEF Discard
<1>2. /\ written' = written /\ Files' = Files /\ CursorLong' /\ MetInv' /\ (hoisted # Gone => HoistInv)
  BY <1>1, SameMod DEF StartInv, CursorLong, MetInv
<1>3. \A k \in DOMAIN queue' : k + 1 \in DOMAIN queue /\ queue'[k] = queue[k + 1]
  <2>1. /\ Tail(queue) \in Seq(Mark) /\ Len(Tail(queue)) = Len(queue) - 1
        /\ \A i \in 1 .. Len(Tail(queue)) : Tail(queue)[i] = queue[i + 1]
        /\ DOMAIN queue = 1 .. Len(queue) /\ Len(queue) \in Nat /\ Len(queue) > 0
    BY <1>1, SessionFact, HeadTailProperties
  <2>2. DOMAIN queue' = 1 .. Len(queue) - 1
    BY <1>1, <2>1, LenProperties
  <2>. QED
    BY <1>1, <2>1, <2>2
<1>4. hoisted # Gone => HoistInv'
  BY <1>1, <1>2, <1>3 DEF HoistInv
<1>. QED
  BY <1>1, <1>2, <1>4 DEF StartInv

(* The startup is met when the tail comes to its line.                      *)
LEMMA TakeStart ==
    ASSUME TypeOK, FilesInv, StartInv, Take
    PROVE  /\ StartInv'
           /\ startup' > 0 => (Superseded(Head(queue)) <=> Head(queue).line <= startup)
<1>. PICK m \in Mark, place \in Place :
              /\ place.pos = m.pos /\ place.id = m.id /\ place.last = m.line
              /\ m = queue[1] /\ 1 \in DOMAIN queue /\ m.line \in Nat
              /\ tail' = place /\ MaySave(place)
              /\ \A k \in DOMAIN queue' : k + 1 \in DOMAIN queue /\ queue'[k] = queue[k + 1]
  BY TakeFact
<1>1. m = Head(queue)
  BY TakeTyped, SessionFact, HeadTailProperties
<1>2. /\ hoisted' = (IF hoisted # Gone /\ m.id = hoisted.id /\ m.pos >= hoisted.pos THEN Gone ELSE hoisted)
      /\ startup' = (IF m.line = tail.last + 1 THEN startup ELSE 0)
  BY <1>1 DEF Take
<1>3. /\ UNCHANGED modSide /\ phase = "reading" /\ phase' = phase /\ tail'.last = m.line
      /\ written' = written /\ Files' = Files /\ CursorLong'
  BY TakeTyped, SameMod, SaveLong DEF StartInv
<1>4. /\ tail.last \in Nat /\ startup \in Nat /\ m.pos \in Nat
      /\ hoisted # Gone => hoisted.line \in Nat /\ hoisted.pos \in Nat
  BY SessionFact, HoistedFact, LineNumbers DEF Mark
<1>5. ASSUME hoisted # Gone
      PROVE  /\ HoistInv
             /\ m.id = hoisted.id /\ m.line <= hoisted.line =>
                   m.line + hoisted.pos = hoisted.line + m.pos
             /\ m.line = hoisted.line => m.id = hoisted.id
  <2>1. HoistInv
    BY <1>3, <1>5 DEF StartInv
  <2>. QED
    BY <2>1 DEF HoistInv
<1>6. hoisted' # Gone => HoistInv'
  <2>1. hoisted' # Gone => hoisted' = hoisted /\ hoisted # Gone
    BY <1>2
  <2>. QED
    BY <1>3, <1>5, <2>1 DEF HoistInv
<1>7. ASSUME startup' > 0
      PROVE  startup' = startup /\ m.line = tail.last + 1
             /\ (hoisted # Gone => startup = hoisted.line /\ tail.last < startup)
             /\ (hoisted = Gone => tail.last >= startup)
  BY <1>2, <1>3, <1>7 DEF StartInv, MetInv
<1>8. MetInv'
  <2>1. ASSUME startup' > 0, hoisted = Gone
        PROVE  hoisted' = Gone /\ tail'.last >= startup'
    BY <1>2, <1>3, <1>4, <1>7, <2>1
  <2>2. ASSUME startup' > 0, hoisted # Gone, m.id = hoisted.id, m.pos >= hoisted.pos
        PROVE  hoisted' = Gone /\ tail'.last >= startup'
    <3>1. m.line <= hoisted.line /\ startup' = hoisted.line
      BY <1>4, <1>7, <2>2
    <3>2. m.line + hoisted.pos = hoisted.line + m.pos
      BY <1>5, <2>2, <3>1
    <3>. QED
      BY <1>2, <1>3, <1>4, <2>2, <3>1, <3>2
  <2>3. ASSUME startup' > 0, hoisted # Gone, ~ (m.id = hoisted.id /\ m.pos >= hoisted.pos)
        PROVE  hoisted' = hoisted /\ startup' = hoisted.line /\ tail'.last < startup'
    <3>1. m.line <= hoisted.line /\ startup' = hoisted.line
      BY <1>4, <1>7, <2>3
    <3>2. m.line # hoisted.line
      BY <1>4, <1>5, <2>3, <3>1
    <3>. QED
      BY <1>2, <1>3, <1>4, <2>3, <3>1, <3>2
  <2>. QED
    BY <2>1, <2>2, <2>3 DEF MetInv
<1>9. ASSUME startup' > 0
      PROVE  Superseded(m) <=> m.line <= startup
  <2>1. CASE hoisted = Gone
    BY <1>4, <1>7, <1>9, <2>1 DEF Superseded
  <2>2. CASE hoisted # Gone
    <3>1. m.line <= startup /\ startup = hoisted.line
      BY <1>4, <1>7, <1>9, <2>2
    <3>2. m.id = hoisted.id => m.pos <= hoisted.pos
      BY <1>4, <1>5, <2>2, <3>1
    <3>. QED
      BY <2>2, <3>1, <3>2 DEF Superseded
  <2>. QED
    BY <2>1, <2>2
<1>. QED
  BY <1>1, <1>3, <1>6, <1>8, <1>9 DEF StartInv

LEMMA SaveStart ==
    ASSUME TypeOK, FilesInv, StartInv, RetrySave \/ EndSession
    PROVE  StartInv'
<1>1. /\ UNCHANGED modSide /\ tail' = tail /\ hoisted' = hoisted /\ startup' = startup /\ probe' = probe
  BY DEF RetrySave, EndSession
<1>2. SaveCursor(tail) \/ cursor' = cursor
  BY DEF RetrySave, EndSession
<1>3. CursorLong'
  <2>1. CASE SaveCursor(tail)
    BY <2>1 DEF SaveCursor, CursorLong
  <2>2. CASE cursor' = cursor
    BY <2>2 DEF StartInv, CursorLong
  <2>. QED
    BY <1>2, <2>1, <2>2
<1>4. /\ written' = written /\ Files' = Files /\ current' = current /\ rotated' = rotated
      /\ NextBefore' = NextBefore
  BY <1>1, SameMod
<1>5. CASE EndSession
  <2>1. phase' = "off"
    BY <1>5 DEF EndSession
  <2>. QED
    BY <1>3, <2>1 DEF StartInv
<1>6. CASE RetrySave
  <2>1. phase' = phase /\ queue' = queue
    BY <1>6 DEF RetrySave
  <2>2. (ProbeInv => ProbeInv') /\ (HoistInv => HoistInv') /\ (MetInv => MetInv')
    BY <1>1, <1>4, <2>1 DEF ProbeInv, HoistInv, MetInv
  <2>. QED
    BY <1>1, <1>3, <2>1, <2>2 DEF StartInv
<1>. QED
  BY <1>5, <1>6

LEMMA StartPreserved ==
    ASSUME TypeOK, FilesInv, StartInv, [Next]_vars
    PROVE  StartInv'
<1>1. CASE ModNext
  BY <1>1, ModStart
<1>2. CASE RelayNext
  BY <1>2, ResumeStart, BootstrapStart, ReadAheadStart, ReadInOrderStart, DiscardStart, TakeStart,
     SaveStart DEF RelayNext
<1>3. CASE UNCHANGED vars
  <2>1. /\ UNCHANGED modSide /\ cursor' = cursor /\ phase' = phase /\ probe' = probe /\ queue' = queue
        /\ tail' = tail /\ hoisted' = hoisted /\ startup' = startup
    BY <1>3 DEF vars, relaySide
  <2>2. /\ written' = written /\ Files' = Files /\ current' = current /\ rotated' = rotated
        /\ NextBefore' = NextBefore
    BY <2>1, SameMod
  <2>. QED
    BY <2>1, <2>2 DEF StartInv, CursorLong, ProbeInv, HoistInv, MetInv
<1>. QED
  BY <1>1, <1>2, <1>3 DEF Next

LEMMA StartFromInit ==
    Init => StartInv
BY DEF Init, StartInv, CursorLong

(* Of the lines a startup clears, those before the startup that was sent    *)
(* ahead are held back and those after it are not, for any sizes, wherever  *)
(* renames come, as long as the session passes over no line (session.rs,    *)
(* superseded; tailer.rs, hoist_startup).                                   *)
THEOREM HeldBackUpToStartup ==
    Spec => ClearsUpToStartup
<1>1. ASSUME TypeOK, FilesInv, StartInv, [Next]_vars
      PROVE  [Take /\ startup' > 0 => (Superseded(Head(queue)) <=> Head(queue).line <= startup)]_vars
  BY <1>1, TakeStart
<1>2. IInv => TypeOK /\ FilesInv
  BY DEF IInv
<1>. QED
  BY <1>1, <1>2, Invariant, StartPreserved, StartFromInit, PTL DEF Spec, ClearsUpToStartup
====
