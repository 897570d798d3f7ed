--------------------------- MODULE InboxFileProofs --------------------------
(***************************************************************************)
(* Proofs about InboxFile, for every capacity, length of the anchor and    *)
(* number of appends and launches: the mod reads the lines of the inbox in *)
(* the order they were written, none twice and none left out, gives a file *)
(* up only after two renames, and hands a record over once. A record it    *)
(* takes as the answer to a review was appended after the review landed.   *)
(***************************************************************************)
EXTENDS InboxFile, NumberFacts, SequenceTheorems

(* The newlines of a file or buffer, and the appends they end.              *)
Cells(f) == IF f = NoFile THEN <<>> ELSE f
Ends(c) == {n \in DOMAIN c : EndsLine(c[n])}
Ended(c) == {c[n][1] : n \in Ends(c)}
InOrder(c) == \A m, n \in Ends(c) : m < n => c[m][1] < c[n][1]

Lined == {lines[k] : k \in DOMAIN lines}

(* Every number comes from an append begun, and a record is not newer than  *)
(* its append.                                                              *)
Numbered ==
    /\ \A c \in {Cells(inbox), Cells(rotated)} : \A n \in DOMAIN c : c[n][1] <= Len(carries)
    /\ \A k \in DOMAIN lines : lines[k] <= Len(carries)
    /\ \A k \in DOMAIN carries : carries[k] <= k
    /\ carries = <<>> => writer = "idle"

(* The handle kept open ends where the inbox does, or where it did before   *)
(* the append that failed, and a line ends there.                           *)
Handle ==
    /\ writer \in {"open", "torn"} => slot # NoFile
    /\ writer \in {"opening", "removing", "failed"} => slot = NoFile
    /\ slot # NoFile =>
          /\ inbox # NoFile /\ slot \in 0 .. Len(inbox)
          /\ slot > 0 => EndsLine(inbox[slot])
          /\ \A n \in DOMAIN inbox : n > slot => writer = "torn" /\ ~ EndsLine(inbox[n])
    /\ writer = "removing" => inbox = <<>>

(* An append renames the inbox at most once.                                *)
Renamed ==
    /\ rotations <= Len(carries)
    /\ writer \in {"opening", "open"} /\ Cells(inbox) # <<>> => rotations < Len(carries)

(* The newlines of .1 and of the inbox are the last lines, in their order;  *)
(* the append under way and a torn record come after all of them.           *)
Sections ==
    /\ \A j, k \in DOMAIN lines : j < k => lines[j] < lines[k]
    /\ InOrder(Cells(inbox)) /\ InOrder(Cells(rotated))
    /\ Ended(Cells(inbox)) \subseteq Lined /\ Ended(Cells(rotated)) \subseteq Lined
    /\ \A x \in Lined, y \in Ended(Cells(inbox)) : x > y => x \in Ended(Cells(inbox))
    /\ \A x \in Lined, y \in Ended(Cells(rotated)) :
          x > y => x \in Ended(Cells(rotated)) \cup Ended(Cells(inbox))
    /\ \A y \in Ended(Cells(rotated)), z \in Ended(Cells(inbox)) : y < z

Ahead ==
    /\ writer \in {"opening", "open", "torn"} => \A x \in Lined : x < Len(carries)
    /\ \A n \in DOMAIN Cells(inbox) :
          n = Len(Cells(inbox)) /\ ~ EndsLine(Cells(inbox)[n]) =>
              /\ \A x \in Lined : x < Cells(inbox)[n][1]
              /\ writer = "opening" => Cells(inbox)[n][1] < Len(carries)

(* The lines the mod has passed, and the last of them.                      *)
Index == first + Len(read)
Passed == anchor[Len(anchor)][1]

(* The bytes before the position are those of the anchor.                   *)
Anchored(f) ==
    /\ f # NoFile /\ pos <= Len(f)
    /\ \A i \in 1 .. Len(anchor) : f[pos - Len(anchor) + i] = anchor[i]

(* The position is in the file that was begun after next renames, behind    *)
(* the last line read; the lines of later files are later.                  *)
Position ==
    /\ next <= rotations /\ (~ skipped => Index <= Len(lines))
    /\ \A j, k \in DOMAIN read : j < k => read[j] < read[k]
    /\ \A k \in DOMAIN read : read[k] \in Lined
    /\ ~ skipped => \A k \in DOMAIN read : read[k] = lines[first + k]
    /\ pos = 0 =>
          /\ anchor = <<>>
          /\ \A k \in DOMAIN read, y \in Ended(Cells(inbox)) : read[k] < y
          /\ ~ skipped /\ next = rotations =>
                Ended(Cells(inbox)) = {lines[k] : k \in Index + 1 .. Len(lines)}
    /\ pos > 0 =>
          /\ Len(anchor) \in 1 .. pos /\ EndsLine(anchor[Len(anchor)])
          /\ Passed \in Lined /\ \A k \in DOMAIN read : read[k] <= Passed
          /\ ~ skipped => Index > 0 /\ Passed = lines[Index]
          /\ next = rotations => Anchored(inbox)
          /\ next = rotations - 1 => Anchored(rotated)
          /\ next < rotations => \A y \in Ended(Cells(inbox)) : Passed < y
          /\ next < rotations - 1 => \A y \in Ended(Cells(rotated)) : Passed < y

(* Where the buffer has a newline, it is what the file holds.               *)
Copies(f) ==
    \A n \in Ends(buffer) :
        /\ f # NoFile /\ pos + n <= Len(f)
        /\ \A i \in 1 .. n : f[pos + i] = buffer[i]

(* The lines of the buffer come next.                                       *)
Buffered ==
    /\ poll \notin {"current", "draining"} => buffer = <<>>
    /\ \A n \in DOMAIN buffer : buffer[n][1] <= Len(carries)
    /\ InOrder(buffer) /\ Ended(buffer) \subseteq Lined
    /\ \A y \in Ended(buffer) :
          /\ \A k \in DOMAIN read : read[k] < y
          /\ pos > 0 => Passed < y
          /\ ~ skipped => \A k \in DOMAIN lines :
                             /\ k <= Index => lines[k] < y
                             /\ k > Index /\ lines[k] < y => lines[k] \in Ended(buffer)
          /\ next < rotations => \A z \in Ended(Cells(inbox)) : y < z
          /\ next < rotations - 1 => \A z \in Ended(Cells(rotated)) : y < z
    /\ next = rotations => Copies(inbox)
    /\ next = rotations - 1 => Copies(rotated)

(* The mod turns to .1 when the inbox is a later file, and reads it to its  *)
(* end.                                                                     *)
Turned ==
    /\ poll = "rotated" => pos > 0 /\ next < rotations
    /\ poll = "start" => pos = 0
    /\ poll = "draining" =>
          /\ pos > 0 /\ next < rotations
          /\ next = rotations - 1 =>
                /\ Len(buffer) = Len(rotated) - pos
                /\ \A i \in DOMAIN buffer : rotated[pos + i] = buffer[i]
Once == \A j, k \in DOMAIN handled : j # k => handled[j] # handled[k]

(* The relay's files, and what the mod makes of them.                       *)
RelayType ==
    /\ inbox \in Contents \cup {NoFile} /\ rotated \in Contents \cup {NoFile}
    /\ slot \in Nat \cup {NoFile}
    /\ writer \in {"idle", "failed", "opening", "open", "torn", "removing"}
    /\ carries \in Seq(Appends) /\ Len(carries) <= MaxAppends
    /\ acked \subseteq Appends /\ lines \in Seq(Appends)
    /\ rotations \in Nat

ModType ==
    /\ pos \in Nat /\ anchor \in Contents /\ Len(anchor) <= AnchorCells
    /\ poll \in {"idle", "current", "rotated", "draining", "start", "sized", "moved", "counted"}
    /\ buffer \in Contents /\ blocked \in BOOLEAN
    /\ serial \in Nat /\ review \in Review
    /\ handled \in Seq(Appends) /\ launches \in 0 .. MaxLaunches
    /\ read \in Seq(Appends) /\ first \in Nat /\ next \in Nat /\ skipped \in BOOLEAN

RelayInv == RelayType /\ Numbered /\ Handle /\ Renamed /\ Sections /\ Ahead
ModInv == ModType /\ Position /\ Buffered /\ Turned /\ Once
IInv == RelayInv /\ ModInv

----------------------------------------------------------------------------
(* Parts of contents.                                                       *)
LEMMA PartFact ==
    ASSUME NEW c \in Contents, NEW m \in Nat, NEW n \in Nat, n <= Len(c)
    PROVE  /\ SubSeq(c, m + 1, n) \in Contents
           /\ Len(SubSeq(c, m + 1, n)) = IF m <= n THEN n - m ELSE 0
           /\ \A i \in 1 .. n - m : SubSeq(c, m + 1, n)[i] = c[m + i]
<1>1. Len(c) \in Nat /\ c \in [1 .. Len(c) -> Cell]
  BY LenProperties DEF Contents
<1>2. \A i \in m + 1 .. n : c[i] \in Cell
  BY <1>1
<1>3. m + 1 \in Int /\ n \in Int
  OBVIOUS
<1>4. /\ SubSeq(c, m + 1, n) \in Seq(Cell)
      /\ Len(SubSeq(c, m + 1, n)) = IF m + 1 <= n THEN n - (m + 1) + 1 ELSE 0
      /\ \A i \in 1 .. n - (m + 1) + 1 : SubSeq(c, m + 1, n)[i] = c[(m + 1) + i - 1]
  BY <1>2, <1>3, SubSeqProperties
<1>. QED
  BY <1>4 DEF Contents

LEMMA CellFact ==
    ASSUME NEW c \in Contents
    PROVE  /\ Len(c) \in Nat /\ DOMAIN c = 1 .. Len(c)
           /\ \A n \in DOMAIN c : c[n] \in Cell /\ c[n][1] \in Appends /\ c[n][1] \in Nat
           /\ c # <<>> => Len(c) > 0
<1>1. Len(c) \in Nat /\ c \in [1 .. Len(c) -> Cell] /\ DOMAIN c = 1 .. Len(c)
  BY LenProperties DEF Contents
<1>2. Appends \subseteq Nat
  BY LimitsAssumption DEF Appends
<1>3. c # <<>> => Len(c) > 0
  BY <1>1, EmptySeq DEF Contents
<1>. QED
  BY <1>1, <1>2, <1>3 DEF Cell

LEMMA EndsFact ==
    ASSUME NEW c \in Contents
    PROVE  /\ \A n : n \in Ends(c) <=> n \in 1 .. Len(c) /\ EndsLine(c[n])
           /\ Ends(c) \subseteq Nat
           /\ Ended(c) \subseteq Nat
           /\ \A n \in Ends(c) : c[n][1] \in Ended(c)
           /\ \A y \in Ended(c) : \E n \in Ends(c) : y = c[n][1]
BY CellFact DEF Ends, Ended

LEMMA CellsFact ==
    ASSUME NEW f \in Contents \cup {NoFile}
    PROVE  /\ Cells(f) \in Contents
           /\ f # NoFile => Cells(f) = f /\ f \in Contents
           /\ Cells(f) # <<>> => f # NoFile
BY EmptySeq DEF Cells, Contents

LEMMA NoneEnds ==
    Ends(<<>>) = {} /\ Ended(<<>>) = {} /\ InOrder(<<>>) /\ <<>> \in Contents /\ Len(<<>>) = 0
<1>1. <<>> \in Contents /\ Len(<<>>) = 0
  BY EmptySeq DEF Contents
<1>2. \A n \in Ends(<<>>) : FALSE
  BY <1>1, EndsFact
<1>. QED
  BY <1>1, <1>2 DEF Ended, InOrder

(* Appending a cell, or two.                                                *)
LEMMA AddOne ==
    ASSUME NEW c \in Contents, NEW x \in Cell
    PROVE  /\ Append(c, x) \in Contents /\ Len(Append(c, x)) = Len(c) + 1
           /\ \A i \in 1 .. Len(c) : Append(c, x)[i] = c[i]
           /\ Append(c, x)[Len(c) + 1] = x
BY AppendProperties DEF Contents

LEMMA AddMany ==
    ASSUME NEW c \in Contents, NEW d \in Contents
    PROVE  /\ c \o d \in Contents /\ Len(c \o d) = Len(c) + Len(d)
           /\ \A i \in 1 .. Len(c) : (c \o d)[i] = c[i]
           /\ \A i \in 1 .. Len(d) : (c \o d)[Len(c) + i] = d[i]
<1>1. Len(c) \in Nat /\ Len(d) \in Nat
  BY CellFact
<1>2. /\ c \o d \in Contents /\ Len(c \o d) = Len(c) + Len(d)
      /\ \A i \in 1 .. Len(c) + Len(d) : (c \o d)[i] = IF i <= Len(c) THEN c[i] ELSE d[i - Len(c)]
  BY ConcatProperties DEF Contents
<1>3. ASSUME NEW i \in 1 .. Len(d)
      PROVE  (c \o d)[Len(c) + i] = d[i]
  <2>1. Len(c) + i \in 1 .. Len(c) + Len(d) /\ ~ (Len(c) + i <= Len(c)) /\ (Len(c) + i) - Len(c) = i
    BY <1>1
  <2>. QED
    BY <1>2, <2>1
<1>4. \A i \in 1 .. Len(c) : (c \o d)[i] = c[i]
  BY <1>1, <1>2
<1>. QED
  BY <1>2, <1>3, <1>4

(* The line that is consumed ends at the first newline of the buffer.       *)
LEMMA FirstEnd ==
    ASSUME buffer \in Contents, LineEnds # {}
    PROVE  /\ LineEnd \in 1 .. Len(buffer) /\ EndsLine(buffer[LineEnd])
           /\ \A n \in Ends(buffer) : LineEnd <= n
<1>1. LineEnds = Ends(buffer) /\ LineEnds \in SUBSET Nat
  BY EndsFact DEF LineEnds, Ends
<1>2. \E n \in LineEnds : \A m \in LineEnds : n <= m
  BY <1>1, LeastFact
<1>3. LineEnd \in LineEnds /\ \A m \in LineEnds : LineEnd <= m
  BY <1>2 DEF LineEnd
<1>. QED
  BY <1>1, <1>3, EndsFact

(* The anchor is the end of what was read.                                  *)
LEMMA LastCellsFact ==
    ASSUME NEW s \in Contents
    PROVE  /\ LastCells(s) \in Contents
           /\ Len(LastCells(s)) <= AnchorCells /\ Len(LastCells(s)) <= Len(s)
           /\ s # <<>> => Len(LastCells(s)) >= 1
           /\ \A i \in 1 .. Len(LastCells(s)) : LastCells(s)[i] = s[Len(s) - Len(LastCells(s)) + i]
<1>0. Len(s) \in Nat /\ Len(s) <= Len(s)
  BY CellFact
<1>. PICK m \in Nat : m = IF Len(s) > AnchorCells THEN Len(s) - AnchorCells ELSE 0
  BY <1>0, AnchorAssumption
<1>1. Len(s) \in Nat /\ m <= Len(s) /\ Len(s) - m <= AnchorCells /\ (s # <<>> => Len(s) - m >= 1)
  BY CellFact, AnchorAssumption
<1>2. LastCells(s) = SubSeq(s, m + 1, Len(s))
  BY DEF LastCells
<1>3. /\ LastCells(s) \in Contents /\ Len(LastCells(s)) = Len(s) - m
      /\ \A i \in 1 .. Len(s) - m : LastCells(s)[i] = s[m + i]
  <2>1. /\ SubSeq(s, m + 1, Len(s)) \in Contents
        /\ Len(SubSeq(s, m + 1, Len(s))) = IF m <= Len(s) THEN Len(s) - m ELSE 0
        /\ \A i \in 1 .. Len(s) - m : SubSeq(s, m + 1, Len(s))[i] = s[m + i]
    BY ZenonT(30), <1>0, PartFact
  <2>. QED
    BY <1>1, <1>2, <2>1
<1>4. Len(s) - Len(LastCells(s)) = m
  BY <1>1, <1>3
<1>. QED
  BY <1>1, <1>3, <1>4

(* A file goes on where the mod has read to if the anchor is in its place.  *)
LEMMA ContinuesFact ==
    ASSUME pos \in Nat, anchor \in Contents, Len(anchor) <= pos, NEW f \in Contents \cup {NoFile}
    PROVE  Continues(f) <=> Anchored(f)
<1>1. CASE f = NoFile
  BY <1>1 DEF Continues, Anchored
<1>2. CASE f # NoFile /\ pos > Len(f)
  BY <1>2, CellFact DEF Continues, Anchored
<1>3. CASE f # NoFile /\ pos <= Len(f)
  <2>1. f \in Contents /\ Len(f) \in Nat /\ Len(anchor) \in Nat
    BY <1>3, CellFact
  <2>. PICK m \in Nat : m = pos - Len(anchor)
    BY <2>1
  <2>. PICK part : part = SubSeq(f, m + 1, pos)
    OBVIOUS
  <2>2. part \in Contents /\ Len(part) = pos - m /\ \A i \in 1 .. pos - m : part[i] = f[m + i]
    <3>1. m <= pos
      BY <2>1
    <3>2. /\ SubSeq(f, m + 1, pos) \in Contents
          /\ Len(SubSeq(f, m + 1, pos)) = IF m <= pos THEN pos - m ELSE 0
          /\ \A i \in 1 .. pos - m : SubSeq(f, m + 1, pos)[i] = f[m + i]
      BY ZenonT(30), <1>3, <2>1, PartFact
    <3>. QED
      BY <3>1, <3>2
  <2>3. Len(part) = Len(anchor)
    BY <2>1, <2>2
  <2>4. part = anchor <=> \A i \in 1 .. Len(anchor) : part[i] = anchor[i]
    BY <2>2, <2>3, SeqEqual DEF Contents
  <2>5. (\A i \in 1 .. Len(anchor) : part[i] = anchor[i]) <=> (\A i \in 1 .. Len(anchor) : f[m + i] = anchor[i])
    BY <2>2, <2>3
  <2>6. Continues(f) <=> part = anchor
    BY <1>3, <2>1 DEF Continues
  <2>7. Anchored(f) <=> \A i \in 1 .. Len(anchor) : f[m + i] = anchor[i]
    BY <1>3 DEF Anchored
  <2>. QED
    BY <2>4, <2>5, <2>6, <2>7
<1>. QED
  BY <1>1, <1>2, <1>3, CellFact

----------------------------------------------------------------------------
(* The relay's files.                                                       *)

(* Up to its newlines a content stays as it is; it gets no newline, or one  *)
(* for append a, behind all it has.                                         *)
Keeps(c, d) == \A n \in Ends(c) : n <= Len(d) /\ \A i \in 1 .. n : d[i] = c[i]
Same(c, d) == Keeps(c, d) /\ Ends(d) = Ends(c)
Adds(c, d, a) ==
    /\ Keeps(c, d)
    /\ \E e \in Ends(d) :
          Ends(d) = Ends(c) \cup {e} /\ (\A n \in Ends(c) : n < e) /\ d[e][1] = a

(* What every step of the relay but a rename does to the files.             *)
Grows ==
    /\ rotated' = rotated /\ rotations' = rotations /\ Len(carries) <= Len(carries')
    /\ \/ lines' = lines /\ Same(Cells(inbox), Cells(inbox'))
       \/ \E a \in Appends :
             /\ lines' = Append(lines, a) /\ \A x \in Lined : x < a
             /\ a <= Len(carries') /\ Adds(Cells(inbox), Cells(inbox'), a)

KeepsFiles == RelayType' /\ Numbered' /\ Handle' /\ Renamed' /\ Ahead'

LEMMA SameFact ==
    ASSUME NEW c \in Contents
    PROVE  Same(c, c)
BY EndsFact DEF Same, Keeps

LEMMA KeepsFact ==
    ASSUME NEW c \in Contents, NEW d \in Contents, Keeps(c, d)
    PROVE  /\ Ends(c) \subseteq Ends(d) /\ \A n \in Ends(c) : d[n] = c[n]
           /\ Ended(c) \subseteq Ended(d)
<1>1. ASSUME NEW n \in Ends(c)
      PROVE  n \in Ends(d) /\ d[n] = c[n]
  <2>1. n \in 1 .. Len(c) /\ EndsLine(c[n]) /\ n \in Nat /\ n \in 1 .. n
    BY EndsFact
  <2>2. n <= Len(d) /\ d[n] = c[n]
    BY <2>1 DEF Keeps
  <2>3. n \in 1 .. Len(d)
    BY <2>1, <2>2, CellFact
  <2>. QED
    BY <2>1, <2>2, <2>3, EndsFact
<1>2. \A n \in Ends(c) : c[n][1] \in Ended(d)
  BY <1>1, EndsFact
<1>. QED
  BY <1>1, <1>2, EndsFact

LEMMA SameLines ==
    ASSUME NEW c \in Contents, NEW d \in Contents, Same(c, d)
    PROVE  Ended(d) = Ended(c) /\ (InOrder(c) => InOrder(d))
BY KeepsFact DEF Same, Ended, InOrder

LEMMA MoreLines ==
    ASSUME NEW c \in Contents, NEW d \in Contents, NEW a \in Nat, Adds(c, d, a),
           \A y \in Ended(c) : y < a
    PROVE  Ended(d) = Ended(c) \cup {a} /\ (InOrder(c) => InOrder(d))
<1>. PICK e \in Ends(d) :
        Ends(d) = Ends(c) \cup {e} /\ (\A n \in Ends(c) : n < e) /\ d[e][1] = a
  BY DEF Adds
<1>1. \A n \in Ends(c) : d[n] = c[n]
  BY KeepsFact DEF Adds
<1>2. Ended(d) = Ended(c) \cup {a}
  BY <1>1 DEF Ended
<1>3. ASSUME InOrder(c), NEW m \in Ends(d), NEW n \in Ends(d), m < n
      PROVE  d[m][1] < d[n][1]
  <2>1. CASE n = e
    <3>1. m \in Ends(c)
      BY <1>3, <2>1, EndsFact
    <3>. QED
      BY <1>1, <2>1, <3>1, EndsFact
  <2>2. CASE m = e /\ n # e
    BY <1>3, <2>2, EndsFact
  <2>3. CASE m # e /\ n # e
    BY <1>1, <1>3, <2>3 DEF InOrder
  <2>. QED
    BY <2>1, <2>2, <2>3
<1>. QED
  BY <1>2, <1>3 DEF InOrder

LEMMA LinedFact ==
    ASSUME lines \in Seq(Appends)
    PROVE  /\ Lined \subseteq Appends /\ Lined \subseteq Nat
           /\ Len(lines) \in Nat /\ DOMAIN lines = 1 .. Len(lines)
           /\ \A k \in 1 .. Len(lines) : lines[k] \in Lined /\ lines[k] \in Nat
           /\ \A x \in Lined : \E k \in 1 .. Len(lines) : x = lines[k]
<1>1. Len(lines) \in Nat /\ DOMAIN lines = 1 .. Len(lines) /\ lines \in [1 .. Len(lines) -> Appends]
  BY LenProperties
<1>2. Appends \subseteq Nat
  BY LimitsAssumption DEF Appends
<1>. QED
  BY <1>1, <1>2 DEF Lined

LEMMA AppendedLine ==
    ASSUME lines \in Seq(Appends), NEW a \in Appends, lines' = Append(lines, a)
    PROVE  /\ Len(lines') = Len(lines) + 1 /\ lines'[Len(lines) + 1] = a
           /\ \A k \in 1 .. Len(lines) : lines'[k] = lines[k]
           /\ Lined' = Lined \cup {a} /\ lines' \in Seq(Appends)
<1>1. /\ lines' \in Seq(Appends) /\ Len(lines') = Len(lines) + 1 /\ lines'[Len(lines) + 1] = a
      /\ \A k \in 1 .. Len(lines) : lines'[k] = lines[k]
  BY AppendProperties
<1>2. DOMAIN lines = 1 .. Len(lines) /\ Len(lines) \in Nat
  BY LenProperties
<1>3. DOMAIN lines' = 1 .. Len(lines) + 1
  BY <1>1, LenProperties
<1>4. Lined' = {lines'[k] : k \in DOMAIN lines'}
  BY DEF Lined
<1>5. ASSUME NEW x
      PROVE  x \in Lined' <=> x \in Lined \cup {a}
  <2>1. ASSUME NEW k \in DOMAIN lines', x = lines'[k]
        PROVE  x \in Lined \cup {a}
    <3>1. k \in DOMAIN lines \/ k = Len(lines) + 1
      BY <1>2, <1>3
    <3>. QED
      BY <1>1, <1>2, <2>1, <3>1 DEF Lined
  <2>2. ASSUME NEW k \in DOMAIN lines, x = lines[k]
        PROVE  x \in Lined'
    <3>1. k \in DOMAIN lines' /\ lines'[k] = lines[k]
      BY <1>1, <1>2, <1>3
    <3>. QED
      BY <1>4, <2>2, <3>1
  <2>3. Len(lines) + 1 \in DOMAIN lines'
    BY <1>2, <1>3
  <2>. QED
    BY <1>1, <1>4, <2>1, <2>2, <2>3 DEF Lined
<1>. QED
  BY <1>1, <1>5

(* In terms of the lines.                                                   *)
LEMMA GrowFact ==
    ASSUME RelayType, Sections, RelayType', Grows
    PROVE  /\ Keeps(Cells(inbox), Cells(inbox'))
           /\ InOrder(Cells(inbox'))
           /\ \/ lines' = lines /\ Lined' = Lined /\ Ended(Cells(inbox')) = Ended(Cells(inbox))
              \/ \E a \in Appends :
                    /\ lines' = Append(lines, a) /\ (\A x \in Lined : x < a)
                    /\ a <= Len(carries')
                    /\ Lined' = Lined \cup {a}
                    /\ Ended(Cells(inbox')) = Ended(Cells(inbox)) \cup {a}
<1>. PICK c, d : c = Cells(inbox) /\ d = Cells(inbox')
  OBVIOUS
<1>1. c \in Contents /\ d \in Contents
  BY CellsFact DEF RelayType
<1>2. InOrder(c) /\ Ended(c) \subseteq Lined
  BY DEF Sections
<1>3. CASE lines' = lines /\ Same(c, d)
  BY <1>1, <1>2, <1>3, SameLines DEF Lined, Same
<1>4. CASE \E a \in Appends :
             /\ lines' = Append(lines, a) /\ \A x \in Lined : x < a
             /\ a <= Len(carries') /\ Adds(c, d, a)
  <2>. PICK a \in Appends :
             /\ lines' = Append(lines, a) /\ \A x \in Lined : x < a
             /\ a <= Len(carries') /\ Adds(c, d, a)
    BY <1>4
  <2>1. a \in Nat
    BY LimitsAssumption DEF Appends
  <2>2. Ended(d) = Ended(c) \cup {a} /\ InOrder(d)
    BY <1>1, <1>2, <2>1, MoreLines
  <2>3. Lined' = Lined \cup {a}
    BY AppendedLine DEF RelayType
  <2>4. Keeps(c, d)
    BY DEF Adds
  <2>. QED
    BY <2>2, <2>3, <2>4
<1>. QED
  BY <1>3, <1>4 DEF Grows

LEMMA GrowsSections ==
    ASSUME RelayType, Sections, RelayType', Grows
    PROVE  Sections'
<1>. DEFINE In == Ended(Cells(inbox))
            Old == Ended(Cells(rotated))
<1>1. RelayType /\ lines \in Seq(Appends) /\ lines' \in Seq(Appends)
  BY DEF RelayType
<1>2. In \subseteq Lined /\ Old \subseteq Lined /\ Lined \subseteq Nat
  BY <1>1, LinedFact DEF Sections
<1>3. /\ \A x \in Lined, y \in In : x > y => x \in In
      /\ \A x \in Lined, y \in Old : x > y => x \in Old \cup In
      /\ \A y \in Old, z \in In : y < z
  BY DEF Sections
<1>4. InOrder(Cells(inbox')) /\ InOrder(Cells(rotated'))
  BY GrowFact DEF Grows, Sections
<1>5. Ended(Cells(rotated')) = Old
  BY DEF Grows
<1>6. CASE lines' = lines /\ Lined' = Lined /\ Ended(Cells(inbox')) = In
  BY <1>4, <1>5, <1>6 DEF Sections
<1>7. CASE \E a \in Appends :
              /\ lines' = Append(lines, a) /\ (\A x \in Lined : x < a)
              /\ Lined' = Lined \cup {a}
              /\ Ended(Cells(inbox')) = In \cup {a}
  <2>. PICK a \in Appends :
              /\ lines' = Append(lines, a) /\ (\A x \in Lined : x < a)
              /\ Lined' = Lined \cup {a}
              /\ Ended(Cells(inbox')) = In \cup {a}
    BY <1>7
  <2>. PICK In2, Old2, L, L2 : In2 = Ended(Cells(inbox')) /\ Old2 = Ended(Cells(rotated')) /\ L = Lined /\ L2 = Lined'
    OBVIOUS
  <2>0. a \in Nat
    BY LimitsAssumption DEF Appends
  <2>1. \A j, k \in DOMAIN lines' : j < k => lines'[j] < lines'[k]
    <3>1. ASSUME NEW j \in DOMAIN lines', NEW k \in DOMAIN lines', j < k
          PROVE  lines'[j] < lines'[k]
      <4>1. DOMAIN lines' = 1 .. Len(lines) + 1 /\ Len(lines) \in Nat /\ DOMAIN lines = 1 .. Len(lines)
        BY <1>1, AppendedLine, LenProperties
      <4>2. j \in 1 .. Len(lines) /\ lines'[j] = lines[j] /\ lines[j] \in Lined
        BY <1>1, <3>1, <4>1, AppendedLine, LinedFact
      <4>3. CASE k = Len(lines) + 1
        BY <1>1, <4>2, <4>3, AppendedLine
      <4>4. CASE k \in 1 .. Len(lines)
        <5>1. lines'[k] = lines[k]
          BY <1>1, <4>4, AppendedLine
        <5>. QED
          BY <3>1, <4>1, <4>2, <4>4, <5>1 DEF Sections
      <4>. QED
        BY <4>1, <4>3, <4>4
    <3>. QED
      BY <3>1
  <2>2. In2 = In \cup {a} /\ Old2 = Old /\ L2 = L \cup {a} /\ (\A x \in L : x < a)
        /\ In \subseteq L /\ Old \subseteq L /\ L \subseteq Nat
    BY <1>2, <1>5
  <2>3. In2 \subseteq L2 /\ Old2 \subseteq L2
    BY <2>2
  <2>. HIDE DEF In, Old
  <2>4. \A x \in L2, y \in In2 : x > y => x \in In2
    BY <1>3, <2>0, <2>2
  <2>5. \A x \in L2, y \in Old2 : x > y => x \in Old2 \cup In2
    BY <1>3, <2>0, <2>2
  <2>6. \A y \in Old2, z \in In2 : y < z
    BY <1>3, <2>0, <2>2
  <2>. QED
    BY <1>4, <2>1, <2>3, <2>4, <2>5, <2>6 DEF Sections
<1>. QED
  BY <1>6, <1>7, GrowFact

LEMMA CarriesFact ==
    ASSUME RelayType
    PROVE  /\ Len(carries) \in Nat /\ MaxAppends \in Nat /\ Appends \subseteq Nat
           /\ DOMAIN carries = 1 .. Len(carries)
           /\ \A k \in 1 .. Len(carries) : carries[k] \in Appends
           /\ carries # <<>> => Len(carries) \in Appends
           /\ \A x \in Lined : x \in Nat
<1>1. Len(carries) \in Nat /\ MaxAppends \in Nat /\ Appends \subseteq Nat
      /\ DOMAIN carries = 1 .. Len(carries) /\ carries \in [1 .. Len(carries) -> Appends]
  BY LimitsAssumption, LenProperties DEF RelayType, Appends
<1>2. carries # <<>> => Len(carries) # 0
  BY EmptySeq DEF RelayType
<1>3. carries # <<>> => Len(carries) \in Appends
  BY <1>1, <1>2 DEF RelayType, Appends
<1>4. \A x \in Lined : x \in Nat
  BY LinedFact DEF RelayType
<1>. QED
  BY <1>1, <1>3, <1>4

LEMMA LinedBounded ==
    ASSUME RelayType, Numbered
    PROVE  \A x \in Lined : x <= Len(carries)
BY LinedFact DEF RelayType, Numbered

(* Steps that only turn the writer.                                         *)
LEMMA WriterSteps ==
    ASSUME RelayInv, Reopen \/ OpenFails \/ CrashRelay
    PROVE  KeepsFiles /\ Grows
<1>1. /\ inbox' = inbox /\ rotated' = rotated /\ carries' = carries /\ acked' = acked
      /\ lines' = lines /\ rotations' = rotations
  BY DEF Reopen, OpenFails, CrashRelay
<1>2. slot' = NoFile /\ writer' \in {"idle", "failed"} /\ (carries = <<>> => writer' = "idle")
  BY DEF Reopen, OpenFails, CrashRelay, RelayInv, Numbered
<1>3. RelayType'
  BY <1>1, <1>2 DEF RelayInv, RelayType
<1>4. Numbered'
  BY <1>1, <1>2 DEF RelayInv, Numbered
<1>5. Handle'
  BY <1>1, <1>2 DEF RelayInv, Handle
<1>6. Renamed'
  BY <1>1, <1>2 DEF RelayInv, Renamed
<1>7. Lined' = Lined
  BY <1>1 DEF Lined
<1>8. Ahead'
  BY <1>1, <1>2, <1>7 DEF RelayInv, Ahead
<1>9. Grows
  <2>1. Cells(inbox) \in Contents
    BY CellsFact DEF RelayInv, RelayType
  <2>2. Len(carries) <= Len(carries')
    BY <1>1, CarriesFact DEF RelayInv
  <2>. QED
    BY <1>1, <2>1, <2>2, SameFact DEF Grows
<1>. QED
  BY <1>3, <1>4, <1>5, <1>6, <1>8, <1>9 DEF KeepsFiles

LEMMA BeginAppendStep ==
    ASSUME RelayInv, launches \in Nat, BeginAppend
    PROVE  KeepsFiles /\ Grows
<1>. PICK r : carries' = Append(carries, r) /\ r \in {LastRecord, LastRecord + 1}
              /\ (r = LastRecord => writer = "failed")
  BY DEF BeginAppend
<1>1. /\ inbox' = inbox /\ rotated' = rotated /\ slot' = slot /\ acked' = acked
      /\ lines' = lines /\ rotations' = rotations
      /\ writer' = (IF slot = NoFile THEN "opening" ELSE "open")
      /\ writer \in {"idle", "failed"} /\ Len(carries) + launches < MaxAppends
  BY DEF BeginAppend
<1>. PICK n : n = Len(carries)
  OBVIOUS
<1>2. n \in Nat /\ n + 1 <= MaxAppends /\ n + 1 \in Appends /\ MaxAppends \in Nat
  BY <1>1, CarriesFact DEF RelayInv, Appends
<1>3. r \in Appends /\ r <= n + 1
  <2>1. CASE carries = <<>>
    <3>1. LastRecord = 0 /\ writer = "idle"
      BY <2>1 DEF LastRecord, RelayInv, Numbered
    <3>. QED
      BY <1>2, <3>1 DEF Appends
  <2>2. CASE carries # <<>>
    <3>1. n \in 1 .. n /\ DOMAIN carries = 1 .. n /\ carries[n] \in Appends
      BY <2>2, CarriesFact DEF RelayInv, Appends
    <3>2. LastRecord = carries[n] /\ carries[n] <= n
      BY <2>2, <3>1 DEF LastRecord, Last, RelayInv, Numbered
    <3>. QED
      BY <1>2, <3>1, <3>2 DEF Appends
  <2>. QED
    BY <2>1, <2>2
<1>4. /\ carries' \in Seq(Appends) /\ Len(carries') = n + 1 /\ carries' # <<>>
      /\ carries'[n + 1] = r /\ \A k \in 1 .. n : carries'[k] = carries[k]
  BY <1>3, AppendProperties DEF RelayInv, RelayType
<1>5. RelayType'
  BY <1>1, <1>2, <1>4 DEF RelayInv, RelayType
<1>6. Numbered'
  <2>1. \A k \in DOMAIN carries' : carries'[k] <= k
    <3>1. DOMAIN carries' = 1 .. n + 1 /\ DOMAIN carries = 1 .. n
      BY <1>4, CarriesFact, LenProperties DEF RelayInv
    <3>2. ASSUME NEW k \in 1 .. n + 1
          PROVE  carries'[k] <= k
      <4>1. CASE k = n + 1
        BY <1>3, <1>4, <4>1
      <4>2. CASE k \in 1 .. n
        BY <1>4, <3>1, <4>2 DEF RelayInv, Numbered
      <4>. QED
        BY <1>2, <4>1, <4>2
    <3>. QED
      BY <3>1, <3>2
  <2>2. \A c \in {Cells(inbox), Cells(rotated)} : \A k \in DOMAIN c : c[k][1] <= n + 1
    <3>1. ASSUME NEW c \in {Cells(inbox), Cells(rotated)}, NEW k \in DOMAIN c
          PROVE  c[k][1] <= n + 1
      <4>1. c[k][1] \in Nat
        BY CellsFact, CellFact DEF RelayInv, RelayType
      <4>2. c[k][1] <= n
        BY DEF RelayInv, Numbered
      <4>. QED
        BY <1>2, <4>1, <4>2
    <3>. QED
      BY <3>1
  <2>3. \A k \in DOMAIN lines : lines[k] <= n + 1
    BY <1>2, LinedFact DEF RelayInv, RelayType, Numbered
  <2>. QED
    BY <1>1, <1>4, <2>1, <2>2, <2>3 DEF Numbered
<1>7. Handle'
  <2>1. slot = NoFile \/ slot \in Nat
    BY DEF RelayInv, RelayType
  <2>2. NoFile \notin Nat
    BY NoFileAssumption
  <2>3. slot # NoFile =>
          /\ inbox # NoFile /\ slot \in 0 .. Len(inbox)
          /\ slot > 0 => EndsLine(inbox[slot])
          /\ \A k \in DOMAIN inbox : ~ (k > slot)
    BY <1>1 DEF RelayInv, Handle
  <2>. QED
    BY <1>1, <2>3 DEF Handle
<1>8. Renamed'
  BY <1>1, <1>2, <1>4 DEF RelayInv, Renamed, RelayType
<1>9. Ahead'
  <2>1. Lined' = Lined
    BY <1>1 DEF Lined
  <2>2. \A x \in Lined : x < n + 1
    BY <1>2, LinedBounded, CarriesFact DEF RelayInv
  <2>3. \A k \in DOMAIN Cells(inbox) : Cells(inbox)[k][1] < n + 1
    <3>1. ASSUME NEW k \in DOMAIN Cells(inbox)
          PROVE  Cells(inbox)[k][1] < n + 1
      <4>1. Cells(inbox)[k][1] \in Nat
        BY CellsFact, CellFact DEF RelayInv, RelayType
      <4>2. Cells(inbox)[k][1] <= n
        BY DEF RelayInv, Numbered
      <4>. QED
        BY <1>2, <4>1, <4>2
    <3>. QED
      BY <3>1
  <2>. QED
    BY <1>1, <1>4, <2>1, <2>2, <2>3 DEF RelayInv, Ahead
<1>10. Grows
  <2>1. Cells(inbox) \in Contents
    BY CellsFact DEF RelayInv, RelayType
  <2>. QED
    BY <1>1, <1>2, <1>4, <2>1, SameFact DEF Grows
<1>. QED
  BY <1>5, <1>6, <1>7, <1>8, <1>9, <1>10 DEF KeepsFiles

LEMMA RemoveEmptyStep ==
    ASSUME RelayInv, RemoveEmpty
    PROVE  KeepsFiles /\ Grows
<1>1. /\ rotated' = rotated /\ carries' = carries /\ acked' = acked /\ slot' = slot
      /\ lines' = lines /\ rotations' = rotations /\ inbox' \in {NoFile, inbox}
      /\ writer = "removing" /\ writer' = "failed"
  BY DEF RemoveEmpty
<1>2. inbox = <<>> /\ slot = NoFile /\ carries # <<>>
  BY <1>1 DEF RelayInv, Handle, Numbered
<1>3. Cells(inbox') = <<>> /\ Cells(inbox) = <<>>
  BY <1>1, <1>2 DEF Cells
<1>4. RelayType'
  BY <1>1, <1>2, NoneEnds DEF RelayInv, RelayType
<1>5. Numbered'
  <2>1. \A k \in DOMAIN <<>> : FALSE
    BY NoneEnds, CellFact
  <2>. QED
    BY <1>1, <1>2, <1>3, <2>1 DEF RelayInv, Numbered
<1>6. Handle'
  BY <1>1, <1>2 DEF RelayInv, Handle
<1>7. Renamed'
  BY <1>1, <1>2 DEF RelayInv, Renamed
<1>8. Lined' = Lined
  BY <1>1 DEF Lined
<1>9. Ahead'
  BY <1>1, <1>3, <1>8 DEF RelayInv, Ahead
<1>10. Grows
  <2>2. Len(carries) <= Len(carries')
    BY <1>1, CarriesFact DEF RelayInv
  <2>. QED
    BY <1>1, <1>3, <2>2, NoneEnds, SameFact DEF Grows
<1>. QED
  BY <1>4, <1>5, <1>6, <1>7, <1>9, <1>10 DEF KeepsFiles

LEMMA SamePart ==
    ASSUME NEW c \in Contents, NEW d \in Contents, NEW m \in Nat, m <= Len(c), m <= Len(d),
           \A i \in 1 .. m : d[i] = c[i],
           \A n \in 1 .. Len(c) : n > m => ~ EndsLine(c[n]),
           \A n \in 1 .. Len(d) : n > m => ~ EndsLine(d[n])
    PROVE  Same(c, d)
<1>1. Len(c) \in Nat /\ Len(d) \in Nat
  BY CellFact
<1>2. \A n \in Ends(c) : n \in Nat /\ 1 <= n /\ n <= m
  BY <1>1, EndsFact
<1>3. \A n \in Ends(d) : n \in Nat /\ 1 <= n /\ n <= m
  BY <1>1, EndsFact
<1>4. Keeps(c, d)
  BY <1>1, <1>2 DEF Keeps
<1>5. Ends(c) \subseteq Ends(d)
  BY <1>1, <1>2, EndsFact
<1>6. Ends(d) \subseteq Ends(c)
  BY <1>1, <1>3, EndsFact
<1>. QED
  BY <1>4, <1>5, <1>6 DEF Same

LEMMA AddsLast ==
    ASSUME NEW c \in Contents, NEW d \in Contents, Len(c) < Len(d), NEW a,
           \A i \in 1 .. Len(c) : d[i] = c[i],
           \A n \in 1 .. Len(d) : n > Len(c) /\ n < Len(d) => ~ EndsLine(d[n]),
           EndsLine(d[Len(d)]), d[Len(d)][1] = a
    PROVE  Adds(c, d, a)
<1>1. Len(c) \in Nat /\ Len(d) \in Nat /\ Len(d) \in Ends(d)
  BY CellFact, EndsFact
<1>2. \A n \in Ends(c) : n \in Nat /\ 1 <= n /\ n <= Len(c) /\ EndsLine(c[n])
  BY <1>1, EndsFact
<1>3. Keeps(c, d)
  BY <1>1, <1>2 DEF Keeps
<1>4. Ends(c) \subseteq Ends(d)
  BY <1>1, <1>2, EndsFact
<1>5. ASSUME NEW n \in Ends(d), n # Len(d)
      PROVE  n \in Ends(c)
  <2>1. n \in 1 .. Len(d) /\ EndsLine(d[n])
    BY EndsFact
  <2>2. n \in 1 .. Len(c)
    BY <1>1, <1>5, <2>1
  <2>. QED
    BY <2>1, <2>2, EndsFact
<1>6. Ends(d) = Ends(c) \cup {Len(d)} /\ \A n \in Ends(c) : n < Len(d)
  BY <1>1, <1>2, <1>4, <1>5
<1>. QED
  BY <1>1, <1>3, <1>6 DEF Adds

LEMMA ClosedFact ==
    ASSUME NEW c \in Contents
    PROVE  /\ Closed(c) \in Contents
           /\ Closed(c) # <<>> => c # <<>> /\ EndsLine(Closed(c)[Len(Closed(c))])
           /\ \/ Closed(c) = c
              \/ /\ c # <<>> /\ Closed(c) # c /\ Len(c) \in DOMAIN c /\ ~ EndsLine(c[Len(c)])
                 /\ Len(Closed(c)) = Len(c) + 1
                 /\ \A i \in 1 .. Len(c) : Closed(c)[i] = c[i]
                 /\ Closed(c)[Len(c) + 1] = Newline(c[Len(c)][1])
                 /\ Adds(c, Closed(c), c[Len(c)][1])
<1>1. CASE c # <<>> /\ ~ EndsLine(Last(c))
  <2>. PICK a, d : a = c[Len(c)][1] /\ d = Append(c, Newline(a))
    OBVIOUS
  <2>1. Len(c) \in Nat /\ Len(c) \in DOMAIN c /\ a \in Appends
    BY <1>1, CellFact
  <2>2. Newline(a) \in Cell /\ EndsLine(Newline(a)) /\ Newline(a)[1] = a
    BY <2>1 DEF Newline, Cell, EndsLine
  <2>3. /\ d \in Contents /\ Len(d) = Len(c) + 1
        /\ \A i \in 1 .. Len(c) : d[i] = c[i]
        /\ d[Len(c) + 1] = Newline(a)
    BY <2>2, AddOne
  <2>4. Closed(c) = d
    BY <1>1 DEF Closed, Last
  <2>5. Adds(c, d, a)
    <3>1. Len(c) < Len(d) /\ EndsLine(d[Len(d)]) /\ d[Len(d)][1] = a
      BY <2>1, <2>2, <2>3
    <3>2. \A n \in 1 .. Len(d) : n > Len(c) /\ n < Len(d) => ~ EndsLine(d[n])
      BY <2>1, <2>3
    <3>. QED
      BY <2>3, <3>1, <3>2, AddsLast
  <2>6. d # c
    BY <2>1, <2>3
  <2>. QED
    BY <1>1, <2>1, <2>2, <2>3, <2>4, <2>5, <2>6 DEF Last
<1>2. CASE ~ (c # <<>> /\ ~ EndsLine(Last(c)))
  BY <1>2 DEF Closed, Last
<1>. QED
  BY <1>1, <1>2

LEMMA OpenStep ==
    ASSUME RelayInv, Open
    PROVE  KeepsFiles /\ Grows
<1>. PICK c, d : c = Cells(inbox) /\ d = Closed(c)
  OBVIOUS
<1>1. /\ rotated' = rotated /\ carries' = carries /\ acked' = acked /\ rotations' = rotations
      /\ inbox' = d /\ slot' = Len(d) /\ writer = "opening" /\ writer' = "open"
      /\ lines' = (IF d = c THEN lines ELSE Append(lines, c[Len(c)][1]))
  BY DEF Open, OpenedLength, Cells, Last
<1>2. c \in Contents /\ d \in Contents /\ Len(d) \in Nat /\ d # NoFile
      /\ DOMAIN d = 1 .. Len(d) /\ DOMAIN c = 1 .. Len(c) /\ Len(c) \in Nat
  BY CellsFact, ClosedFact, CellFact, NoFileAssumption DEF RelayInv, RelayType
<1>3. Cells(inbox') = d /\ Cells(rotated') = Cells(rotated)
  BY <1>1, <1>2 DEF Cells
<1>4. carries # <<>> /\ Len(carries) \in Nat
  BY <1>1, CarriesFact DEF RelayInv, Numbered
<1>5. /\ \A x \in Lined : x < Len(carries)
      /\ \A n \in DOMAIN c : n = Len(c) /\ ~ EndsLine(c[n]) =>
             (\A x \in Lined : x < c[n][1]) /\ c[n][1] < Len(carries)
  BY <1>1 DEF RelayInv, Ahead
<1>6. d # <<>> => c # <<>> /\ EndsLine(d[Len(d)])
  BY <1>2, ClosedFact
<1>7. \/ d = c /\ lines' = lines
      \/ \E a \in Appends :
            /\ a = c[Len(c)][1] /\ lines' = Append(lines, a) /\ (\A x \in Lined : x < a)
            /\ a < Len(carries) /\ Adds(c, d, a)
            /\ Len(d) = Len(c) + 1 /\ d[Len(c) + 1] = Newline(a)
            /\ \A i \in 1 .. Len(c) : d[i] = c[i]
  <2>1. CASE d = c
    BY <1>1, <2>1
  <2>2. CASE d # c
    <3>. PICK a : a = c[Len(c)][1]
      OBVIOUS
    <3>1. /\ Len(c) \in DOMAIN c /\ ~ EndsLine(c[Len(c)]) /\ Adds(c, d, a)
          /\ Len(d) = Len(c) + 1 /\ d[Len(c) + 1] = Newline(a)
          /\ \A i \in 1 .. Len(c) : d[i] = c[i]
      BY ZenonT(30), <1>2, <2>2, ClosedFact
    <3>2. a \in Appends
      BY <1>2, <3>1, CellFact
    <3>3. (\A x \in Lined : x < a) /\ a < Len(carries)
      BY <1>5, <3>1
    <3>. QED
      BY <1>1, <2>2, <3>1, <3>2, <3>3
  <2>. QED
    BY <2>1, <2>2
<1>8. RelayType'
  <2>1. lines' \in Seq(Appends)
    BY <1>7, AppendedLine DEF RelayInv, RelayType
  <2>. QED
    BY <1>1, <1>2, <2>1 DEF RelayInv, RelayType
<1>9. \A x \in Lined' : x \in Nat /\ x < Len(carries)
  <2>0. \A x \in Lined : x \in Nat /\ x < Len(carries)
    BY <1>5, CarriesFact DEF RelayInv
  <2>1. CASE lines' = lines
    BY <2>0, <2>1 DEF Lined
  <2>2. CASE \E a \in Appends : lines' = Append(lines, a) /\ a < Len(carries)
    <3>. PICK a \in Appends : lines' = Append(lines, a) /\ a < Len(carries)
      BY <2>2
    <3>1. Lined' = Lined \cup {a} /\ a \in Nat
      BY AppendedLine, CarriesFact DEF RelayInv, RelayType
    <3>. QED
      BY <2>0, <3>1
  <2>. QED
    BY <1>7, <2>1, <2>2
<1>10. Numbered'
  <2>1. \A n \in DOMAIN d : d[n][1] <= Len(carries)
    <3>1. \A n \in DOMAIN c : c[n][1] <= Len(carries)
      BY DEF RelayInv, Numbered
    <3>2. ASSUME NEW a \in Appends, a < Len(carries), Len(d) = Len(c) + 1, d[Len(c) + 1] = Newline(a),
                 \A i \in 1 .. Len(c) : d[i] = c[i], NEW n \in DOMAIN d
          PROVE  d[n][1] <= Len(carries)
      <4>1. CASE n \in 1 .. Len(c)
        BY <1>2, <3>1, <3>2, <4>1
      <4>2. CASE n = Len(c) + 1
        <5>1. d[n][1] = a
          BY <3>2, <4>2 DEF Newline
        <5>2. a \in Nat
          BY CarriesFact DEF RelayInv
        <5>. QED
          BY <1>4, <3>2, <5>1, <5>2
      <4>. QED
        BY <1>2, <3>2, <4>1, <4>2
    <3>. QED
      BY <1>7, <3>1, <3>2
  <2>2. \A k \in DOMAIN lines' : lines'[k] <= Len(carries)
    <3>1. \A k \in DOMAIN lines' : lines'[k] \in Lined'
      BY DEF Lined
    <3>. QED
      BY <1>4, <1>9, <3>1
  <2>. QED
    BY <1>1, <1>3, <1>4, <2>1, <2>2 DEF RelayInv, Numbered
<1>11. Handle'
  <2>1. Len(d) > 0 => EndsLine(d[Len(d)])
    BY <1>2, <1>6, NoneEnds
  <2>2. \A n \in DOMAIN d : ~ (n > Len(d))
    BY <1>2
  <2>3. Len(d) # NoFile /\ Len(d) \in 0 .. Len(d)
    BY <1>2, NoFileAssumption
  <2>. QED
    BY <1>1, <1>2, <2>1, <2>2, <2>3 DEF Handle
<1>12. Renamed'
  BY <1>1, <1>3, <1>6 DEF RelayInv, Renamed
<1>13. Ahead'
  <2>1. \A n \in DOMAIN d : n = Len(d) => EndsLine(d[n])
    BY <1>2, <1>6, NoneEnds
  <2>. QED
    BY <1>1, <1>3, <1>9, <2>1 DEF Ahead
<1>14. Grows
  <2>1. Len(carries) <= Len(carries')
    BY <1>1, <1>4
  <2>2. CASE d = c /\ lines' = lines
    BY <1>1, <1>2, <1>3, <2>1, <2>2, SameFact DEF Grows
  <2>3. CASE \E a \in Appends :
            /\ lines' = Append(lines, a) /\ (\A x \in Lined : x < a)
            /\ a < Len(carries) /\ Adds(c, d, a)
    <3>. PICK a \in Appends :
            /\ lines' = Append(lines, a) /\ (\A x \in Lined : x < a)
            /\ a < Len(carries) /\ Adds(c, d, a)
      BY <2>3
    <3>1. a <= Len(carries')
      BY <1>1, <1>4, CarriesFact DEF RelayInv
    <3>. QED
      BY <1>1, <1>3, <2>1, <3>1 DEF Grows
  <2>. QED
    BY <1>7, <2>2, <2>3
<1>. QED
  BY <1>8, <1>10, <1>11, <1>12, <1>13, <1>14 DEF KeepsFiles

(* An inbox that is open ends where its handle does, with a line.           *)
LEMMA OpenInbox ==
    ASSUME RelayInv, writer = "open"
    PROVE  /\ inbox \in Contents /\ Cells(inbox) = inbox /\ slot = Len(inbox) /\ slot \in Nat
           /\ slot > 0 => EndsLine(inbox[slot])
           /\ carries # <<>> /\ \A x \in Lined : x < Len(carries)
<1>1. slot # NoFile
  BY DEF RelayInv, Handle
<1>2. /\ inbox # NoFile /\ slot \in 0 .. Len(inbox) /\ (slot > 0 => EndsLine(inbox[slot]))
      /\ \A n \in DOMAIN inbox : ~ (n > slot)
  BY <1>1 DEF RelayInv, Handle
<1>3. inbox \in Contents /\ Cells(inbox) = inbox
  BY <1>2, CellsFact DEF RelayInv, RelayType
<1>4. Len(inbox) \in Nat /\ DOMAIN inbox = 1 .. Len(inbox)
  BY <1>3, CellFact
<1>5. slot = Len(inbox) /\ slot \in Nat
  <2>1. slot \in Nat /\ slot <= Len(inbox)
    BY <1>2, <1>4
  <2>2. ASSUME slot < Len(inbox)
        PROVE  FALSE
    <3>1. Len(inbox) \in DOMAIN inbox /\ Len(inbox) > slot
      BY <1>4, <2>1, <2>2
    <3>. QED
      BY <1>2, <3>1
  <2>3. Len(inbox) \in Nat
    BY <1>4
  <2>. QED
    BY <2>1, <2>2, <2>3
<1>. QED
  BY <1>2, <1>3, <1>5 DEF RelayInv, Numbered, Ahead

LEMMA WriteRecordStep ==
    ASSUME RelayInv, WriteRecord
    PROVE  KeepsFiles /\ Grows
<1>. PICK c, d, a : c = inbox /\ d = inbox \o <<Text(This), Newline(This)>> /\ a = Len(carries)
  OBVIOUS
<1>1. /\ rotated' = rotated /\ carries' = carries /\ rotations' = rotations
      /\ inbox' = d /\ slot' = slot + 2 /\ writer = "open" /\ writer' = "idle"
      /\ lines' = Append(lines, a) /\ acked' = acked \cup {LastRecord}
  BY DEF WriteRecord, This
<1>2. /\ c \in Contents /\ Cells(inbox) = c /\ slot = Len(c) /\ Len(c) \in Nat
      /\ carries # <<>> /\ \A x \in Lined : x < a
  BY <1>1, OpenInbox
<1>3. a \in Appends /\ a \in Nat /\ a = This
  BY <1>2, CarriesFact DEF RelayInv, This
<1>4. /\ Text(a) \in Cell /\ Newline(a) \in Cell /\ EndsLine(Newline(a)) /\ ~ EndsLine(Text(a))
      /\ Text(a)[1] = a /\ Newline(a)[1] = a
  BY <1>3 DEF Text, Newline, Cell, EndsLine
<1>5. /\ d \in Contents /\ Len(d) = Len(c) + 2
      /\ \A i \in 1 .. Len(c) : d[i] = c[i]
      /\ d[Len(c) + 1] = Text(a) /\ d[Len(c) + 2] = Newline(a)
  <2>1. <<Text(a), Newline(a)>> \in Contents /\ Len(<<Text(a), Newline(a)>>) = 2
    BY <1>4 DEF Contents
  <2>2. 1 \in 1 .. 2 /\ 2 \in 1 .. 2
    OBVIOUS
  <2>3. /\ d \in Contents /\ Len(d) = Len(c) + 2
        /\ \A i \in 1 .. Len(c) : d[i] = c[i]
        /\ \A i \in 1 .. 2 : d[Len(c) + i] = <<Text(a), Newline(a)>>[i]
    BY SMTT(30), <1>2, <1>3, <2>1, AddMany
  <2>. QED
    BY <2>2, <2>3
<1>6. d # NoFile /\ Cells(inbox') = d /\ Cells(rotated') = Cells(rotated)
  BY <1>1, <1>5, NoFileAssumption DEF Cells
<1>7. DOMAIN d = 1 .. Len(d) /\ DOMAIN c = 1 .. Len(c)
  BY <1>2, <1>5, CellFact
<1>8. \A n \in 1 .. Len(d) : n \in 1 .. Len(c) \/ n = Len(c) + 1 \/ n = Len(c) + 2
  BY <1>2, <1>5
<1>9. EndsLine(d[Len(d)]) /\ d[Len(d)][1] = a
  BY <1>4, <1>5
<1>10. Adds(c, d, a)
  <2>1. \A n \in 1 .. Len(d) : n > Len(c) /\ n < Len(d) => ~ EndsLine(d[n])
    <3>1. \A n \in 1 .. Len(d) : n > Len(c) /\ n < Len(d) => n = Len(c) + 1
      BY <1>2, <1>5
    <3>. QED
      BY <1>4, <1>5, <3>1
  <2>2. Len(c) < Len(d)
    BY <1>2, <1>5
  <2>. QED
    BY <1>2, <1>5, <1>9, <2>1, <2>2, AddsLast
<1>11. RelayType'
  <2>1. lines' \in Seq(Appends)
    BY <1>1, <1>3, AppendedLine DEF RelayInv, RelayType
  <2>2. LastRecord \in Appends
    BY <1>2, CarriesFact DEF RelayInv, LastRecord, Last, Appends
  <2>. QED
    BY <1>1, <1>2, <1>5, <2>1, <2>2 DEF RelayInv, RelayType
<1>12. Numbered'
  <2>1. \A n \in DOMAIN d : d[n][1] <= a
    <3>1. \A n \in DOMAIN c : c[n][1] <= a
      BY <1>2 DEF RelayInv, Numbered
    <3>. QED
      BY <1>3, <1>4, <1>5, <1>7, <1>8, <3>1
  <2>2. \A k \in DOMAIN lines' : lines'[k] <= a
    <3>1. Lined' = Lined \cup {a}
      BY <1>1, <1>3, AppendedLine DEF RelayInv, RelayType
    <3>2. \A k \in DOMAIN lines' : lines'[k] \in Lined'
      BY DEF Lined
    <3>3. \A x \in Lined : x \in Nat /\ x <= a
      BY <1>2, <1>3, CarriesFact DEF RelayInv
    <3>. QED
      BY <1>3, <3>1, <3>2, <3>3
  <2>. QED
    BY <1>1, <1>2, <1>6, <2>1, <2>2 DEF RelayInv, Numbered
<1>13. Handle'
  <2>1. slot' = Len(d) /\ Len(d) \in Nat /\ slot' \in 0 .. Len(d)
    BY <1>1, <1>2, <1>5
  <2>2. \A n \in DOMAIN d : ~ (n > Len(d))
    BY <1>7, <2>1
  <2>. QED
    BY <1>1, <1>6, <1>9, <2>1, <2>2 DEF Handle
<1>14. Renamed'
  BY <1>1 DEF RelayInv, Renamed
<1>15. Ahead'
  BY <1>1, <1>6, <1>9 DEF Ahead
<1>16. Grows
  <2>1. a <= Len(carries') /\ Len(carries) <= Len(carries')
    BY <1>1, <1>3
  <2>. QED
    BY <1>1, <1>2, <1>3, <1>6, <1>10, <2>1 DEF Grows
<1>. QED
  BY <1>11, <1>12, <1>13, <1>14, <1>15, <1>16 DEF KeepsFiles

LEMMA WriteFailsStep ==
    ASSUME RelayInv, WriteFails
    PROVE  KeepsFiles /\ Grows
<1>. PICK c, a : c = inbox /\ a = Len(carries)
  OBVIOUS
<1>1. /\ rotated' = rotated /\ carries' = carries /\ rotations' = rotations /\ acked' = acked
      /\ slot' = slot /\ writer = "open" /\ writer' = "torn" /\ lines' = lines
  BY DEF WriteFails
<1>. PICK part : part \in {<<>>, <<Half(This)>>, <<Text(This)>>} /\ inbox' = inbox \o part
  BY DEF WriteFails
<1>. PICK d : d = inbox'
  OBVIOUS
<1>2. /\ c \in Contents /\ Cells(inbox) = c /\ slot = Len(c) /\ Len(c) \in Nat
      /\ carries # <<>> /\ (\A x \in Lined : x < a) /\ (slot > 0 => EndsLine(c[slot]))
  BY <1>1, OpenInbox
<1>3. a \in Appends /\ a \in Nat /\ a = This
  BY <1>2, CarriesFact DEF RelayInv, This
<1>4. /\ part \in Contents /\ Len(part) \in Nat
      /\ \A n \in 1 .. Len(part) : ~ EndsLine(part[n]) /\ part[n][1] = a
  <2>1. Text(a) \in Cell /\ Half(a) \in Cell /\ ~ EndsLine(Text(a)) /\ ~ EndsLine(Half(a))
        /\ Text(a)[1] = a /\ Half(a)[1] = a
    BY <1>3 DEF Text, Half, Cell, EndsLine
  <2>2. CASE part = <<>>
    BY <2>2, NoneEnds
  <2>3. ASSUME NEW x \in {Text(a), Half(a)}, part = <<x>>
        PROVE  /\ part \in Contents /\ Len(part) \in Nat
               /\ \A n \in 1 .. Len(part) : ~ EndsLine(part[n]) /\ part[n][1] = a
    <3>1. x \in Cell /\ ~ EndsLine(x) /\ x[1] = a
      BY <2>1
    <3>2. part \in Contents /\ Len(part) = 1 /\ part[1] = x
      BY <2>3, <3>1 DEF Contents
    <3>. QED
      BY <3>1, <3>2
  <2>. QED
    BY <1>3, <2>2, <2>3
<1>5. /\ d \in Contents /\ Len(d) = Len(c) + Len(part)
      /\ \A i \in 1 .. Len(c) : d[i] = c[i]
      /\ \A i \in 1 .. Len(part) : d[Len(c) + i] = part[i]
  BY <1>2, <1>4, AddMany
<1>6. d # NoFile /\ Cells(inbox') = d /\ Cells(rotated') = Cells(rotated)
  BY <1>1, <1>5, NoFileAssumption DEF Cells
<1>7. DOMAIN d = 1 .. Len(d) /\ DOMAIN c = 1 .. Len(c) /\ Len(d) \in Nat
  BY <1>2, <1>5, CellFact
<1>8. ASSUME NEW n \in 1 .. Len(d), n > Len(c)
      PROVE  ~ EndsLine(d[n]) /\ d[n][1] = a
  <2>. PICK i : i = n - Len(c)
    OBVIOUS
  <2>1. i \in 1 .. Len(part) /\ Len(c) + i = n
    BY <1>2, <1>4, <1>5, <1>8
  <2>. QED
    BY <1>4, <1>5, <2>1
<1>9. Same(c, d)
  <2>1. Len(c) <= Len(c) /\ Len(c) <= Len(d) /\ \A n \in 1 .. Len(c) : ~ (n > Len(c))
    BY <1>2, <1>4, <1>5
  <2>. QED
    BY <1>2, <1>5, <1>8, <2>1, SamePart
<1>11. RelayType'
  BY <1>1, <1>5 DEF RelayInv, RelayType
<1>12. Numbered'
  <2>1. \A n \in DOMAIN d : d[n][1] <= a
    <3>1. \A n \in DOMAIN c : c[n][1] <= a
      BY <1>2 DEF RelayInv, Numbered
    <3>2. \A n \in DOMAIN d : n \in DOMAIN c \/ n > Len(c)
      BY <1>2, <1>7
    <3>. QED
      BY SMTT(30), <1>3, <1>5, <1>7, <1>8, <3>1, <3>2
  <2>. QED
    BY <1>1, <1>2, <1>6, <2>1 DEF RelayInv, Numbered
<1>13. Handle'
  <2>1. slot \in 0 .. Len(d) /\ slot # NoFile
    BY <1>2, <1>4, <1>5, NoFileAssumption
  <2>2. slot > 0 => EndsLine(d[slot])
    BY <1>2, <1>5
  <2>3. \A n \in DOMAIN d : n > slot => ~ EndsLine(d[n])
    BY <1>2, <1>7, <1>8
  <2>. QED
    BY <1>1, <1>6, <2>1, <2>2, <2>3 DEF Handle
<1>14. Renamed'
  BY <1>1 DEF RelayInv, Renamed
<1>15. Ahead'
  <2>1. Lined' = Lined
    BY <1>1 DEF Lined
  <2>2. ASSUME NEW n \in DOMAIN d, n = Len(d), ~ EndsLine(d[n])
        PROVE  \A x \in Lined : x < d[n][1]
    <3>1. CASE n > Len(c)
      BY <1>2, <1>7, <1>8, <3>1
    <3>2. CASE ~ (n > Len(c))
      <4>1. n = slot /\ slot > 0 /\ d[n] = c[n]
        BY <1>2, <1>4, <1>5, <1>7, <2>2, <3>2
      <4>. QED
        BY <1>2, <2>2, <4>1
    <3>. QED
      BY <3>1, <3>2
  <2>. QED
    BY <1>1, <1>2, <1>6, <2>1, <2>2 DEF Ahead
<1>16. Grows
  <2>1. Len(carries) <= Len(carries')
    BY <1>1, <1>3
  <2>. QED
    BY <1>1, <1>2, <1>6, <1>9, <2>1 DEF Grows
<1>. QED
  BY <1>11, <1>12, <1>13, <1>14, <1>15, <1>16 DEF KeepsFiles

LEMMA RollBackStep ==
    ASSUME RelayInv, RollBack
    PROVE  KeepsFiles /\ Grows
<1>. PICK c, d : c = inbox /\ d = inbox'
  OBVIOUS
<1>1. /\ rotated' = rotated /\ carries' = carries /\ rotations' = rotations /\ acked' = acked
      /\ slot' = NoFile /\ writer = "torn" /\ lines' = lines
      /\ \/ /\ d = SubSeq(c, 1, slot)
            /\ writer' = "failed" \/ (slot = 0 /\ writer' = "removing")
         \/ d = c /\ writer' = "failed"
  BY DEF RollBack
<1>2. /\ c # NoFile /\ slot \in 0 .. Len(c) /\ (slot > 0 => EndsLine(c[slot]))
      /\ (\A n \in DOMAIN c : n > slot => ~ EndsLine(c[n])) /\ carries # <<>>
  BY <1>1 DEF RelayInv, Handle, Numbered
<1>3. c \in Contents /\ Cells(inbox) = c /\ Len(c) \in Nat /\ DOMAIN c = 1 .. Len(c) /\ slot \in Nat
      /\ slot <= Len(c)
  <2>1. c \in Contents /\ Cells(inbox) = c
    BY <1>2, CellsFact DEF RelayInv, RelayType
  <2>2. Len(c) \in Nat /\ DOMAIN c = 1 .. Len(c)
    BY <2>1, CellFact
  <2>. QED
    BY <1>2, <2>1, <2>2
<1>4. Len(carries) \in Nat
  BY CarriesFact DEF RelayInv
<1>5. /\ d \in Contents /\ Len(d) <= Len(c) /\ Same(c, d) /\ Len(d) \in Nat
      /\ \A i \in 1 .. Len(d) : d[i] = c[i]
      /\ \/ d = c
         \/ Len(d) = slot
  <2>1. CASE d = c
    BY <1>3, <2>1, SameFact
  <2>2. CASE d = SubSeq(c, 1, slot)
    <3>1. /\ SubSeq(c, 0 + 1, slot) \in Contents
          /\ Len(SubSeq(c, 0 + 1, slot)) = IF 0 <= slot THEN slot - 0 ELSE 0
          /\ \A i \in 1 .. slot - 0 : SubSeq(c, 0 + 1, slot)[i] = c[0 + i]
      BY <1>3, PartFact
    <3>2. 0 + 1 = 1 /\ slot - 0 = slot /\ 0 <= slot /\ \A i \in 1 .. slot : 0 + i = i
      BY <1>3
    <3>3. d \in Contents /\ Len(d) = slot /\ \A i \in 1 .. slot : d[i] = c[i]
      BY <2>2, <3>1, <3>2
    <3>4. Same(c, d)
      <4>1. slot <= Len(d) /\ \A n \in 1 .. Len(d) : ~ (n > slot)
        BY <1>3, <3>3
      <4>. QED
        BY <1>2, <1>3, <3>3, <4>1, SamePart
    <3>. QED
      BY <1>3, <3>3, <3>4
  <2>. QED
    BY <1>1, <2>1, <2>2
<1>6. d # NoFile /\ Cells(inbox') = d /\ Cells(rotated') = Cells(rotated)
  BY <1>1, <1>5, NoFileAssumption DEF Cells
<1>7. DOMAIN d = 1 .. Len(d)
  BY <1>5, CellFact
<1>11. RelayType'
  BY <1>1, <1>5 DEF RelayInv, RelayType
<1>12. Numbered'
  <2>1. \A n \in DOMAIN d : d[n][1] <= Len(carries)
    <3>1. \A n \in DOMAIN c : c[n][1] <= Len(carries)
      BY <1>3 DEF RelayInv, Numbered
    <3>2. \A n \in DOMAIN d : n \in DOMAIN c
      <4>1. Len(d) <= Len(c) /\ Len(d) \in Nat
        BY <1>5
      <4>2. Len(c) \in Nat /\ DOMAIN c = 1 .. Len(c)
        BY <1>3
      <4>. QED
        BY <1>7, <4>1, <4>2
    <3>. QED
      BY <1>5, <1>7, <3>1, <3>2
  <2>. QED
    BY <1>1, <1>2, <1>6, <2>1 DEF RelayInv, Numbered
<1>13. Handle'
  <2>1. writer' = "removing" => d = <<>>
    <3>1. ASSUME writer' = "removing"
          PROVE  d = <<>>
      <4>1. slot = 0 /\ d = SubSeq(c, 1, slot)
        BY <1>1, <3>1
      <4>. QED
        BY <4>1, SubSeqEmpty
    <3>. QED
      BY <3>1
  <2>. QED
    BY <1>1, <2>1 DEF Handle
<1>14. Renamed'
  BY <1>1 DEF RelayInv, Renamed
<1>15. Ahead'
  <2>1. Lined' = Lined
    BY <1>1 DEF Lined
  <2>2. ASSUME NEW n \in DOMAIN d, n = Len(d), ~ EndsLine(d[n])
        PROVE  \A x \in Lined : x < d[n][1]
    <3>1. CASE d = c
      BY <1>3, <2>2, <3>1 DEF RelayInv, Ahead
    <3>2. CASE Len(d) = slot
      <4>1. slot > 0 /\ d[n] = c[slot]
        BY <1>3, <1>5, <1>7, <2>2, <3>2
      <4>. QED
        BY <1>2, <2>2, <4>1
    <3>. QED
      BY <1>5, <3>1, <3>2
  <2>. QED
    BY <1>1, <1>6, <2>1, <2>2 DEF Ahead
<1>16. Grows
  <2>1. Len(carries) <= Len(carries')
    BY <1>1, <1>4
  <2>. QED
    BY <1>1, <1>3, <1>5, <1>6, <2>1 DEF Grows
<1>. QED
  BY <1>11, <1>12, <1>13, <1>14, <1>15, <1>16 DEF KeepsFiles

LEMMA RotateStep ==
    ASSUME RelayInv, Rotate
    PROVE  KeepsFiles /\ Sections'
<1>1. /\ carries' = carries /\ rotations' = rotations + 1 /\ acked' = acked /\ lines' = lines
      /\ rotated' = inbox /\ inbox' = NoFile /\ slot' = NoFile
      /\ writer = "open" /\ slot > 0 /\ writer' \in {"opening", "failed"}
  BY DEF Rotate
<1>2. /\ inbox \in Contents /\ Cells(inbox) = inbox /\ slot = Len(inbox) /\ carries # <<>>
      /\ slot \in Nat /\ \A x \in Lined : x < Len(carries)
  BY <1>1, OpenInbox
<1>3. Cells(inbox') = <<>> /\ Cells(rotated') = inbox /\ Lined' = Lined
  BY <1>1, <1>2, NoFileAssumption DEF Cells, Lined
<1>4. inbox # <<>>
  BY <1>1, <1>2, NoneEnds
<1>5. \A n \in DOMAIN <<>> : FALSE
  BY NoneEnds, CellFact
<1>11. RelayType'
  BY <1>1, <1>2 DEF RelayInv, RelayType
<1>12. Numbered'
  BY <1>1, <1>2, <1>3, <1>5 DEF RelayInv, Numbered
<1>13. Handle'
  BY <1>1 DEF Handle
<1>14. Renamed'
  <2>1. rotations < Len(carries)
    BY <1>1, <1>2, <1>4 DEF RelayInv, Renamed
  <2>2. rotations + 1 <= Len(carries)
    BY <2>1, CarriesFact DEF RelayInv, RelayType
  <2>. QED
    BY <1>1, <1>3, <2>2 DEF Renamed
<1>15. Ahead'
  BY <1>1, <1>2, <1>3, <1>5 DEF Ahead
<1>16. Sections'
  <2>1. Ended(Cells(inbox')) = {} /\ InOrder(Cells(inbox'))
    BY <1>3, NoneEnds
  <2>2. /\ \A x \in Lined, y \in Ended(inbox) : x > y => x \in Ended(inbox)
        /\ InOrder(inbox) /\ Ended(inbox) \subseteq Lined
        /\ \A j, k \in DOMAIN lines : j < k => lines[j] < lines[k]
    BY <1>2 DEF RelayInv, Sections
  <2>. QED
    BY <1>1, <1>3, <2>1, <2>2 DEF Sections
<1>. QED
  BY <1>11, <1>12, <1>13, <1>14, <1>15, <1>16 DEF KeepsFiles

(* The files after any step.                                                *)
LEMMA RelayStep ==
    ASSUME RelayInv, launches \in Nat, RelayNext
    PROVE  RelayInv' /\ (Rotate \/ Grows)
<1>1. CASE BeginAppend
  BY <1>1, BeginAppendStep, GrowsSections DEF KeepsFiles, RelayInv
<1>2. CASE Reopen \/ OpenFails \/ CrashRelay
  BY <1>2, WriterSteps, GrowsSections DEF KeepsFiles, RelayInv
<1>3. CASE Open
  BY <1>3, OpenStep, GrowsSections DEF KeepsFiles, RelayInv
<1>4. CASE Rotate
  BY <1>4, RotateStep DEF KeepsFiles, RelayInv
<1>5. CASE WriteRecord
  BY <1>5, WriteRecordStep, GrowsSections DEF KeepsFiles, RelayInv
<1>6. CASE WriteFails
  BY <1>6, WriteFailsStep, GrowsSections DEF KeepsFiles, RelayInv
<1>7. CASE RollBack
  BY <1>7, RollBackStep, GrowsSections DEF KeepsFiles, RelayInv
<1>8. CASE RemoveEmpty
  BY <1>8, RemoveEmptyStep, GrowsSections DEF KeepsFiles, RelayInv
<1>. QED
  BY <1>1, <1>2, <1>3, <1>4, <1>5, <1>6, <1>7, <1>8 DEF RelayNext

LEMMA OtherStep ==
    ASSUME RelayInv, UNCHANGED relaySide
    PROVE  RelayInv'
<1>1. /\ inbox' = inbox /\ rotated' = rotated /\ slot' = slot /\ writer' = writer
      /\ carries' = carries /\ acked' = acked /\ lines' = lines /\ rotations' = rotations
  BY DEF relaySide
<1>2. Lined' = Lined
  BY <1>1 DEF Lined
<1>3. RelayType' /\ Numbered' /\ Handle' /\ Renamed'
  BY <1>1 DEF RelayInv, RelayType, Numbered, Handle, Renamed
<1>4. Sections' /\ Ahead'
  BY <1>1, <1>2 DEF RelayInv, Sections, Ahead
<1>. QED
  BY <1>3, <1>4 DEF RelayInv

----------------------------------------------------------------------------
(* What the mod makes of the files.                                         *)

LEMMA ModBasics ==
    ASSUME ModType, Position
    PROVE  /\ pos \in Nat /\ next \in Nat /\ Len(anchor) \in Nat /\ Len(anchor) <= pos
           /\ first \in Nat /\ Len(read) \in Nat /\ DOMAIN read = 1 .. Len(read) /\ Index \in Nat
           /\ Len(buffer) \in Nat /\ DOMAIN buffer = 1 .. Len(buffer)
           /\ \A k \in DOMAIN read : read[k] \in Nat
           /\ pos > 0 => /\ Len(anchor) > 0 /\ anchor[Len(anchor)] \in Cell
                         /\ Passed \in Nat /\ EndsLine(anchor[Len(anchor)])
<1>1. /\ pos \in Nat /\ next \in Nat /\ first \in Nat
      /\ Len(anchor) \in Nat /\ DOMAIN anchor = 1 .. Len(anchor)
      /\ Len(buffer) \in Nat /\ DOMAIN buffer = 1 .. Len(buffer)
      /\ Len(read) \in Nat /\ DOMAIN read = 1 .. Len(read) /\ read \in [1 .. Len(read) -> Appends]
  BY CellFact, LenProperties DEF ModType
<1>2. Appends \subseteq Nat
  BY LimitsAssumption DEF Appends
<1>3. Len(anchor) <= pos
  <2>1. CASE pos = 0
    BY <2>1, NoneEnds DEF Position
  <2>2. CASE pos > 0
    BY <1>1, <2>2 DEF Position
  <2>. QED
    BY <1>1, <2>1, <2>2
<1>4. ASSUME pos > 0
      PROVE  /\ Len(anchor) > 0 /\ anchor[Len(anchor)] \in Cell
             /\ Passed \in Nat /\ EndsLine(anchor[Len(anchor)])
  <2>1. Len(anchor) \in 1 .. pos /\ EndsLine(anchor[Len(anchor)])
    BY <1>4 DEF Position
  <2>2. Len(anchor) \in DOMAIN anchor
    BY <1>1, <2>1
  <2>. QED
    BY <1>1, <2>1, <2>2, CellFact DEF ModType, Passed
<1>5. Index \in Nat
  BY <1>1 DEF Index
<1>. QED
  BY <1>1, <1>2, <1>3, <1>4, <1>5

(* The position is behind a newline, that of the last line passed.          *)
LEMMA AnchoredEnd ==
    ASSUME ModType, Position, pos > 0, NEW f \in Contents, Anchored(f)
    PROVE  pos \in Ends(f) /\ f[pos][1] = Passed /\ Passed \in Ended(f)
<1>1. /\ pos \in Nat /\ Len(anchor) \in Nat /\ Len(anchor) > 0 /\ Len(anchor) <= pos
      /\ EndsLine(anchor[Len(anchor)])
  BY ModBasics
<1>2. pos <= Len(f) /\ \A i \in 1 .. Len(anchor) : f[pos - Len(anchor) + i] = anchor[i]
  BY DEF Anchored
<1>3. pos - Len(anchor) + Len(anchor) = pos /\ Len(anchor) \in 1 .. Len(anchor)
  BY <1>1
<1>4. f[pos] = anchor[Len(anchor)]
  BY <1>2, <1>3
<1>5. pos \in 1 .. Len(f)
  BY <1>1, <1>2, CellFact
<1>. QED
  BY <1>1, <1>4, <1>5, EndsFact DEF Passed

LEMMA ModFiles ==
    ASSUME RelayInv
    PROVE  /\ Cells(inbox) \in Contents /\ Cells(rotated) \in Contents
           /\ Ended(Cells(inbox)) \subseteq Nat /\ Ended(Cells(rotated)) \subseteq Nat
           /\ Ended(Cells(inbox)) \subseteq Lined /\ Ended(Cells(rotated)) \subseteq Lined
           /\ Lined \subseteq Nat /\ rotations \in Nat
           /\ Len(lines) \in Nat /\ DOMAIN lines = 1 .. Len(lines)
           /\ \A k \in DOMAIN lines : lines[k] \in Lined /\ lines[k] \in Nat
           /\ \A j, k \in DOMAIN lines : j < k => lines[j] < lines[k]
BY CellsFact, EndsFact, LinedFact DEF RelayInv, RelayType, Sections

(* Until a line is passed, only the newlines of a file matter.              *)
LEMMA AnchorKept ==
    ASSUME ModType, Position, pos > 0, NEW f \in Contents \cup {NoFile}, Anchored(f),
           NEW g \in Contents \cup {NoFile}, Keeps(Cells(f), Cells(g))
    PROVE  Anchored(g)
<1>1. f # NoFile /\ Cells(f) = f /\ f \in Contents /\ Cells(g) \in Contents
  BY CellsFact DEF Anchored
<1>2. pos \in Ends(f)
  BY <1>1, AnchoredEnd
<1>3. pos <= Len(Cells(g)) /\ \A i \in 1 .. pos : Cells(g)[i] = f[i]
  BY <1>1, <1>2 DEF Keeps
<1>4. pos \in Nat /\ Len(anchor) \in Nat /\ Len(anchor) <= pos
  BY ModBasics
<1>5. Cells(g) # <<>>
  BY <1>3, <1>4, NoneEnds
<1>6. g # NoFile /\ Cells(g) = g
  BY <1>5, CellsFact
<1>7. \A i \in 1 .. Len(anchor) : pos - Len(anchor) + i \in 1 .. pos
  BY <1>4
<1>. QED
  BY <1>3, <1>6, <1>7 DEF Anchored

LEMMA CopyKept ==
    ASSUME ModType, Position, NEW f \in Contents \cup {NoFile}, Copies(f),
           NEW g \in Contents \cup {NoFile}, Keeps(Cells(f), Cells(g))
    PROVE  Copies(g)
<1>0. pos \in Nat /\ buffer \in Contents
  BY ModBasics DEF ModType
<1>. SUFFICES ASSUME NEW n \in Ends(buffer)
              PROVE  g # NoFile /\ pos + n <= Len(g) /\ \A i \in 1 .. n : g[pos + i] = buffer[i]
  BY DEF Copies
<1>1. f # NoFile /\ pos + n <= Len(f) /\ \A i \in 1 .. n : f[pos + i] = buffer[i]
  BY DEF Copies
<1>2. Cells(f) = f /\ f \in Contents /\ Cells(g) \in Contents
  BY <1>1, CellsFact
<1>3. n \in Nat /\ n >= 1 /\ EndsLine(buffer[n]) /\ n \in 1 .. n
  BY <1>0, EndsFact, CellFact
<1>4. pos + n \in 1 .. Len(f) /\ EndsLine(f[pos + n])
  <2>1. f[pos + n] = buffer[n]
    BY <1>1, <1>3
  <2>2. Len(f) \in Nat
    BY <1>2, CellFact
  <2>. QED
    BY <1>0, <1>1, <1>3, <2>1, <2>2
<1>5. pos + n \in Ends(f)
  BY <1>2, <1>4, EndsFact
<1>6. pos + n <= Len(Cells(g)) /\ \A i \in 1 .. pos + n : Cells(g)[i] = f[i]
  BY <1>2, <1>5 DEF Keeps
<1>7. Cells(g) # <<>>
  BY <1>0, <1>3, <1>6, NoneEnds
<1>8. g # NoFile /\ Cells(g) = g
  BY <1>7, CellsFact
<1>9. \A i \in 1 .. n : pos + i \in 1 .. pos + n
  BY <1>0, <1>3
<1>. QED
  BY <1>1, <1>6, <1>8, <1>9

(* What a step that is no rename adds to the lines.                         *)
LEMMA GrowLines ==
    ASSUME RelayInv, RelayInv', Grows
    PROVE  /\ Len(lines) <= Len(lines') /\ Len(lines') \in Nat /\ DOMAIN lines' = 1 .. Len(lines')
           /\ \A k \in 1 .. Len(lines) : lines'[k] = lines[k]
           /\ \A k \in 1 .. Len(lines') : k > Len(lines) => \A x \in Lined : x < lines'[k]
           /\ Lined \subseteq Lined'
           /\ Ended(Cells(inbox')) =
                 Ended(Cells(inbox)) \cup {lines'[k] : k \in Len(lines) + 1 .. Len(lines')}
           /\ \A y \in Ended(Cells(inbox')) : y \in Ended(Cells(inbox)) \/ \A x \in Lined : x < y
           /\ Keeps(Cells(inbox), Cells(inbox'))
           /\ rotated' = rotated /\ rotations' = rotations /\ Len(carries) <= Len(carries')
<1>1. Len(lines) \in Nat /\ lines \in Seq(Appends)
  BY LinedFact DEF RelayInv, RelayType
<1>2. RelayType /\ Sections /\ RelayType'
  BY DEF RelayInv
<1>3. /\ Keeps(Cells(inbox), Cells(inbox'))
      /\ rotated' = rotated /\ rotations' = rotations /\ Len(carries) <= Len(carries')
  BY <1>2, GrowFact DEF Grows
<1>4. CASE lines' = lines /\ Lined' = Lined /\ Ended(Cells(inbox')) = Ended(Cells(inbox))
  <2>1. \A k \in Len(lines) + 1 .. Len(lines) : FALSE
    BY <1>1
  <2>2. \A k \in 1 .. Len(lines) : ~ (k > Len(lines))
    BY <1>1
  <2>3. DOMAIN lines = 1 .. Len(lines)
    BY <1>1, LenProperties
  <2>. QED
    BY <1>1, <1>3, <1>4, <2>1, <2>2, <2>3
<1>5. CASE \E a \in Appends :
              /\ lines' = Append(lines, a) /\ (\A x \in Lined : x < a)
              /\ Lined' = Lined \cup {a}
              /\ Ended(Cells(inbox')) = Ended(Cells(inbox)) \cup {a}
  <2>. PICK a \in Appends :
              /\ lines' = Append(lines, a) /\ (\A x \in Lined : x < a)
              /\ Lined' = Lined \cup {a}
              /\ Ended(Cells(inbox')) = Ended(Cells(inbox)) \cup {a}
    BY <1>5
  <2>1. /\ Len(lines') = Len(lines) + 1 /\ lines'[Len(lines) + 1] = a
        /\ \A k \in 1 .. Len(lines) : lines'[k] = lines[k]
    BY <1>1, AppendedLine
  <2>2. \A k \in Len(lines) + 1 .. Len(lines') : k = Len(lines) + 1
    BY <1>1, <2>1
  <2>3. Len(lines) + 1 \in Len(lines) + 1 .. Len(lines')
    BY <1>1, <2>1
  <2>4. {lines'[k] : k \in Len(lines) + 1 .. Len(lines')} = {a}
    BY <2>1, <2>2, <2>3
  <2>5. \A k \in 1 .. Len(lines') : k > Len(lines) => k = Len(lines) + 1
    BY <1>1, <2>1
  <2>6. Len(lines) <= Len(lines') /\ Len(lines') \in Nat
    BY <1>1, <2>1
  <2>7. DOMAIN lines' = 1 .. Len(lines')
    BY <1>1, AppendedLine, LenProperties
  <2>8. \A k \in 1 .. Len(lines') : k > Len(lines) => \A x \in Lined : x < lines'[k]
    BY <2>1, <2>5
  <2>. QED
    BY <1>3, <2>1, <2>4, <2>6, <2>7, <2>8
<1>. QED
  BY <1>2, <1>4, <1>5, GrowFact

LEMMA GrowMod ==
    ASSUME RelayInv, ModInv, RelayInv', Grows, UNCHANGED modSide
    PROVE  ModInv'
<1>. DEFINE In == Ended(Cells(inbox))
            Old == Ended(Cells(rotated))
            More == Ended(Cells(inbox'))
<1>u. /\ pos' = pos /\ anchor' = anchor /\ poll' = poll /\ buffer' = buffer /\ blocked' = blocked
      /\ serial' = serial /\ review' = review /\ handled' = handled /\ launches' = launches
      /\ read' = read /\ first' = first /\ next' = next /\ skipped' = skipped
  BY DEF modSide, reviewing
<1>g. /\ Len(lines) <= Len(lines') /\ Len(lines') \in Nat /\ DOMAIN lines' = 1 .. Len(lines')
      /\ \A k \in 1 .. Len(lines) : lines'[k] = lines[k]
      /\ \A k \in 1 .. Len(lines') : k > Len(lines) => \A x \in Lined : x < lines'[k]
      /\ Lined \subseteq Lined'
      /\ More = In \cup {lines'[k] : k \in Len(lines) + 1 .. Len(lines')}
      /\ \A y \in More : y \in In \/ \A x \in Lined : x < y
      /\ Keeps(Cells(inbox), Cells(inbox'))
      /\ rotated' = rotated /\ rotations' = rotations /\ Len(carries) <= Len(carries')
  BY GrowLines
<1>f. /\ In \subseteq Lined /\ Old \subseteq Lined /\ Lined \subseteq Nat
      /\ Len(lines) \in Nat /\ DOMAIN lines = 1 .. Len(lines)
      /\ \A k \in DOMAIN lines : lines[k] \in Lined
      /\ inbox \in Contents \cup {NoFile} /\ inbox' \in Contents \cup {NoFile}
  BY ModFiles DEF RelayInv, RelayType
<1>m. ModType /\ Position /\ Buffered /\ Turned /\ Once
  BY DEF ModInv
<1>i. /\ Index' = Index /\ Passed' = Passed /\ Index \in Nat /\ pos \in Nat
      /\ \A k \in DOMAIN read : read[k] \in Nat
  BY <1>m, <1>u, ModBasics DEF Index, Passed
<1>a. /\ pos > 0 /\ Anchored(inbox) => Anchored(inbox)'
      /\ Anchored(rotated)' = Anchored(rotated)
  <2>1. pos > 0 /\ Anchored(inbox) => Anchored(inbox')
    BY <1>f, <1>g, <1>m, AnchorKept
  <2>. QED
    BY <1>g, <1>u, <2>1 DEF Anchored
<1>c. /\ Copies(inbox) => Copies(inbox)'
      /\ Copies(rotated)' = Copies(rotated)
  <2>1. Copies(inbox) => Copies(inbox')
    BY <1>f, <1>g, <1>m, CopyKept
  <2>. QED
    BY <1>g, <1>u, <2>1 DEF Copies
<1>. HIDE DEF In, Old, More
<1>1. ModType'
  BY <1>m, <1>u DEF ModType
<1>2. Once'
  BY <1>m, <1>u DEF Once
<1>3. Turned'
  BY <1>m, <1>u, <1>g DEF Turned
<1>4. Position'
  <2>1. next <= rotations /\ (~ skipped => Index <= Len(lines'))
        /\ (\A j, k \in DOMAIN read : j < k => read[j] < read[k])
        /\ \A k \in DOMAIN read : read[k] \in Lined'
    BY <1>m, <1>f, <1>g, <1>i DEF Position
  <2>2. ~ skipped => \A k \in DOMAIN read : read[k] = lines'[first + k]
    <3>1. ASSUME ~ skipped, NEW k \in DOMAIN read
          PROVE  read[k] = lines'[first + k]
      <4>1. read[k] = lines[first + k] /\ Index <= Len(lines)
        BY <1>m, <3>1 DEF Position
      <4>2. first \in Nat /\ Len(read) \in Nat /\ DOMAIN read = 1 .. Len(read)
        BY <1>m, ModBasics
      <4>3. first + k \in 1 .. Len(lines)
        BY <1>f, <4>1, <4>2 DEF Index
      <4>. QED
        BY <1>g, <4>1, <4>3
    <3>. QED
      BY <3>1
  <2>3. ASSUME pos = 0
        PROVE  /\ anchor = <<>>
               /\ \A k \in DOMAIN read, y \in More : read[k] < y
               /\ ~ skipped /\ next = rotations => More = {lines'[k] : k \in Index + 1 .. Len(lines')}
    <3>1. anchor = <<>> /\ \A k \in DOMAIN read, y \in In : read[k] < y
      BY <1>m, <2>3 DEF Position, In
    <3>2. \A k \in DOMAIN read : read[k] \in Lined
      BY <1>m DEF Position
    <3>3. \A k \in DOMAIN read, y \in More : read[k] < y
      BY <1>g, <3>1, <3>2
    <3>4. ASSUME ~ skipped, next = rotations
          PROVE  More = {lines'[k] : k \in Index + 1 .. Len(lines')}
      <4>1. In = {lines[k] : k \in Index + 1 .. Len(lines)} /\ Index <= Len(lines)
        BY <1>m, <2>3, <3>4 DEF Position, In
      <4>2. \A k \in Index + 1 .. Len(lines) : lines'[k] = lines[k]
        BY <1>f, <1>g, <1>i
      <4>3. \A k : k \in Index + 1 .. Len(lines') <=>
                      k \in Index + 1 .. Len(lines) \/ k \in Len(lines) + 1 .. Len(lines')
        BY <1>f, <1>g, <1>i, <4>1
      <4>4. {lines[k] : k \in Index + 1 .. Len(lines)} = {lines'[k] : k \in Index + 1 .. Len(lines)}
        BY <4>2
      <4>. QED
        BY <1>g, <4>1, <4>3, <4>4
    <3>. QED
      BY <3>1, <3>3, <3>4
  <2>4. ASSUME pos > 0
        PROVE  /\ Len(anchor) \in 1 .. pos /\ EndsLine(anchor[Len(anchor)])
               /\ Passed \in Lined' /\ \A k \in DOMAIN read : read[k] <= Passed
               /\ ~ skipped => Index > 0 /\ Passed = lines'[Index]
               /\ next = rotations => Anchored(inbox)'
               /\ next = rotations - 1 => Anchored(rotated)'
               /\ next < rotations => \A y \in More : Passed < y
               /\ next < rotations - 1 => \A y \in Old : Passed < y
    <3>1. /\ Len(anchor) \in 1 .. pos /\ EndsLine(anchor[Len(anchor)])
          /\ Passed \in Lined /\ \A k \in DOMAIN read : read[k] <= Passed
          /\ ~ skipped => Index > 0 /\ Passed = lines[Index]
          /\ next = rotations => Anchored(inbox)
          /\ next = rotations - 1 => Anchored(rotated)
          /\ next < rotations => \A y \in In : Passed < y
          /\ next < rotations - 1 => \A y \in Old : Passed < y
      BY <1>m, <2>4 DEF Position, In, Old
    <3>2. ~ skipped /\ Index > 0 => lines'[Index] = lines[Index]
      BY <1>f, <1>g, <1>i, <1>m DEF Position
    <3>3. next < rotations => \A y \in More : Passed < y
      BY <1>g, <3>1
    <3>. QED
      BY <1>a, <1>g, <2>4, <3>1, <3>2, <3>3
  <2>. QED
    BY <1>g, <1>i, <1>u, <2>1, <2>2, <2>3, <2>4 DEF Position, More, Old
<1>5. Buffered'
  <2>1. /\ poll \notin {"current", "draining"} => buffer = <<>>
        /\ InOrder(buffer) /\ Ended(buffer) \subseteq Lined /\ Ended(buffer) \subseteq Lined'
        /\ \A n \in DOMAIN buffer : buffer[n][1] <= Len(carries)
    BY <1>m, <1>g DEF Buffered
  <2>2. \A n \in DOMAIN buffer : buffer[n][1] <= Len(carries')
    <3>1. \A n \in DOMAIN buffer : buffer[n][1] \in Nat
      BY <1>m, CellFact DEF ModType
    <3>2. Len(carries) \in Nat /\ Len(carries') \in Nat
      BY CarriesFact, LenProperties DEF RelayInv, RelayType
    <3>. QED
      BY <1>g, <2>1, <3>1, <3>2
  <2>3. ASSUME NEW y \in Ended(buffer)
        PROVE  /\ \A k \in DOMAIN read : read[k] < y
               /\ pos > 0 => Passed < y
               /\ ~ skipped => \A k \in DOMAIN lines' :
                                 /\ k <= Index => lines'[k] < y
                                 /\ k > Index /\ lines'[k] < y => lines'[k] \in Ended(buffer)
               /\ next < rotations => \A z \in More : y < z
               /\ next < rotations - 1 => \A z \in Old : y < z
    <3>1. /\ \A k \in DOMAIN read : read[k] < y
          /\ pos > 0 => Passed < y
          /\ ~ skipped => \A k \in DOMAIN lines :
                            /\ k <= Index => lines[k] < y
                            /\ k > Index /\ lines[k] < y => lines[k] \in Ended(buffer)
          /\ next < rotations => \A z \in In : y < z
          /\ next < rotations - 1 => \A z \in Old : y < z
      BY <1>m DEF Buffered, In, Old
    <3>2. y \in Lined /\ y \in Nat
      BY <1>f, <2>1
    <3>3. next < rotations => \A z \in More : y < z
      BY <1>g, <3>1, <3>2
    <3>4. ASSUME ~ skipped, NEW k \in DOMAIN lines'
          PROVE  /\ k <= Index => lines'[k] < y
                 /\ k > Index /\ lines'[k] < y => lines'[k] \in Ended(buffer)
      <4>1. CASE k \in 1 .. Len(lines)
        BY <1>f, <1>g, <3>1, <3>4, <4>1
      <4>2. CASE k > Len(lines)
        <5>1. y < lines'[k] /\ Index <= Len(lines)
          BY <1>g, <1>m, <3>2, <3>4, <4>2 DEF Position
        <5>2. lines'[k] \in Nat
          <6>1. lines' \in Seq(Appends) /\ Appends \subseteq Nat
            BY CarriesFact DEF RelayInv, RelayType
          <6>. QED
            BY <1>g, <6>1, ElementOfSeq
        <5>3. ~ (k <= Index) /\ ~ (lines'[k] < y)
          BY <1>f, <1>g, <1>i, <3>2, <4>2, <5>1, <5>2
        <5>. QED
          BY <5>3
      <4>. QED
        BY <1>f, <1>g, <4>1, <4>2
    <3>. QED
      BY <3>1, <3>3, <3>4
  <2>4. (next = rotations => Copies(inbox)') /\ (next = rotations - 1 => Copies(rotated)')
    BY <1>c, <1>m DEF Buffered
  <2>. QED
    BY <1>g, <1>i, <1>u, <2>1, <2>2, <2>3, <2>4 DEF Buffered, More, Old
<1>. QED
  BY <1>1, <1>2, <1>3, <1>4, <1>5 DEF ModInv

(* The inbox becomes .1.                                                    *)
LEMMA RotateMod ==
    ASSUME RelayInv, ModInv, Rotate
    PROVE  ModInv'
<1>u. /\ pos' = pos /\ anchor' = anchor /\ poll' = poll /\ buffer' = buffer /\ blocked' = blocked
      /\ serial' = serial /\ review' = review /\ handled' = handled /\ launches' = launches
      /\ read' = read /\ first' = first /\ next' = next /\ skipped' = skipped
      /\ rotated' = inbox /\ inbox' = NoFile /\ rotations' = rotations + 1
      /\ lines' = lines /\ carries' = carries /\ writer = "open"
  BY DEF Rotate, modSide, reviewing
<1>m. ModType /\ Position /\ Buffered /\ Turned /\ Once
  BY DEF ModInv
<1>i. /\ Index' = Index /\ Passed' = Passed /\ Lined' = Lined
      /\ next \in Nat /\ rotations \in Nat /\ next <= rotations
  BY <1>m, <1>u, ModBasics, ModFiles DEF Index, Passed, Lined, Position
<1>r. /\ Cells(inbox') = <<>> /\ Cells(rotated') = Cells(inbox) /\ Ended(Cells(inbox')) = {}
      /\ ~ (next = rotations') /\ next < rotations'
      /\ (next = rotations' - 1 <=> next = rotations) /\ (next < rotations' - 1 <=> next < rotations)
  <2>1. Cells(inbox') = <<>> /\ Cells(rotated') = Cells(inbox)
    BY <1>u, OpenInbox DEF Cells
  <2>. QED
    BY <1>i, <1>u, <2>1, NoneEnds
<1>a. /\ Anchored(rotated)' = Anchored(inbox) /\ Copies(rotated)' = Copies(inbox)
  BY <1>u DEF Anchored, Copies
<1>1. ModType'
  BY <1>m, <1>u DEF ModType
<1>2. Once'
  BY <1>m, <1>u DEF Once
<1>3. Turned'
  <2>1. poll = "draining" => next # rotations' - 1
    BY <1>i, <1>m, <1>r DEF Turned
  <2>. QED
    BY <1>m, <1>r, <1>u, <2>1 DEF Turned
<1>4. Position'
  BY <1>a, <1>i, <1>m, <1>r, <1>u DEF Position
<1>5. Buffered'
  BY <1>a, <1>i, <1>m, <1>r, <1>u DEF Buffered
<1>. QED
  BY <1>1, <1>2, <1>3, <1>4, <1>5 DEF ModInv

(* Steps of the mod that leave its position in the inbox alone.             *)
Still ==
    /\ pos' = pos /\ anchor' = anchor /\ read' = read /\ first' = first /\ next' = next
    /\ skipped' = skipped /\ inbox' = inbox /\ rotated' = rotated /\ rotations' = rotations
    /\ lines' = lines /\ carries' = carries

LEMMA StillPosition ==
    ASSUME Position, Still
    PROVE  Position' /\ Index' = Index /\ Passed' = Passed /\ Lined' = Lined
<1>1. Index' = Index /\ Passed' = Passed /\ Lined' = Lined
  BY DEF Still, Index, Passed, Lined
<1>2. Anchored(inbox)' = Anchored(inbox) /\ Anchored(rotated)' = Anchored(rotated)
  BY DEF Still, Anchored
<1>. QED
  BY <1>1, <1>2 DEF Position, Still

LEMMA StillBuffer ==
    ASSUME Buffered, Still, buffer' = buffer, poll' \notin {"current", "draining"} => buffer = <<>>
    PROVE  Buffered'
<1>1. Index' = Index /\ Passed' = Passed /\ Lined' = Lined
  BY DEF Still, Index, Passed, Lined
<1>2. Copies(inbox)' = Copies(inbox) /\ Copies(rotated)' = Copies(rotated)
  BY DEF Still, Copies
<1>. QED
  BY <1>1, <1>2 DEF Buffered, Still

LEMMA EmptyBuffer ==
    ASSUME buffer' = <<>>
    PROVE  Buffered'
<1>1. Ends(buffer') = {} /\ Ended(buffer') = {} /\ InOrder(buffer')
  BY NoneEnds
<1>2. \A n \in DOMAIN buffer' : FALSE
  BY NoneEnds, CellFact
<1>3. Copies(inbox)' /\ Copies(rotated)'
  BY <1>1 DEF Copies
<1>. QED
  BY <1>1, <1>2, <1>3 DEF Buffered

LEMMA PauseSteps ==
    ASSUME RelayInv, ModInv,
           StopPoll \/ Unblock \/ CompareHead \/ CountRotated \/ CountInbox \/ LandReview
    PROVE  ModInv'
<1>m. ModType /\ Position /\ Buffered /\ Turned /\ Once
  BY DEF ModInv
<1>1. /\ Still /\ handled' = handled /\ launches' = launches /\ serial' = serial
      /\ blocked' \in {blocked, FALSE}
      /\ poll' \in {"idle", "sized", "moved", "counted"}
      /\ buffer' = <<>>
  <2>1. CASE StopPoll
    BY <2>1 DEF StopPoll, Still, relaySide, reviewing
  <2>2. CASE Unblock \/ CompareHead \/ CountRotated \/ CountInbox \/ LandReview
    <3>1. /\ Still /\ handled' = handled /\ launches' = launches /\ serial' = serial
          /\ blocked' \in {blocked, FALSE} /\ buffer' = buffer
          /\ poll' \in {"idle", "sized", "moved", "counted"}
          /\ poll \in {"idle", "sized", "moved", "counted"}
      BY <2>2 DEF Unblock, CompareHead, CountRotated, CountInbox, LandReview, Counting, SetMark,
                  Still, relaySide, reviewing
    <3>2. buffer = <<>>
      BY <1>m, <3>1 DEF Buffered
    <3>. QED
      BY <3>1, <3>2
  <2>. QED
    BY <2>1, <2>2
<1>2. review' \in Review
  <2>0. /\ review \in Review /\ pos \in Nat /\ serial \in Nat /\ inbox \in Contents \cup {NoFile}
        /\ rotated \in Contents \cup {NoFile}
    BY <1>m DEF ModType, RelayInv, RelayType
  <2>1. Size(inbox) \in Nat /\ Size(rotated) \in Nat
    BY <2>0, CellFact DEF Size
  <2>2. OnDisk \subseteq Appends /\ Blurred \subseteq Appends
    <3>1. ToSet(lines) \subseteq Appends
      BY LinedFact DEF RelayInv, RelayType, ToSet, Lined
    <3>2. inbox # NoFile => {cell[1] : cell \in ToSet(inbox)} \subseteq Appends
      BY <2>0, CellFact DEF ToSet
    <3>. QED
      BY <3>1, <3>2 DEF OnDisk, Blurred
  <2>3. review.unread \in Int /\ review.before \subseteq Appends /\ review.after \subseteq Appends
        /\ review.mark \in Nat \cup {NoMark}
    BY <2>0 DEF Review
  <2>4. ASSUME NEW u \in Int, SetMark(u)
        PROVE  review' \in Review
    <3>1. review' = [review EXCEPT !.mark = serial + (IF u > 0 THEN u ELSE 0), !.unread = 0,
                                  !.after = @ \cup OnDisk \cup Blurred]
      BY <2>4 DEF SetMark
    <3>2. serial + (IF u > 0 THEN u ELSE 0) \in Nat
      BY <2>0
    <3>3. review.after \cup OnDisk \cup Blurred \subseteq Appends /\ 0 \in Int
      BY <2>2, <2>3
    <3>. QED
      BY <2>0, <3>1, <3>2, <3>3 DEF Review
  <2>5. CASE StopPoll \/ Unblock
    BY <2>0, <2>5 DEF StopPoll, Unblock, reviewing
  <2>6. CASE CompareHead
    BY <2>0, <2>3, <2>4, <2>6 DEF CompareHead
  <2>7. CASE CountRotated
    <3>1. RotatedRest \in Int /\ review' = [review EXCEPT !.unread = RotatedRest]
      BY <2>0, <2>1, <2>7 DEF CountRotated, RotatedRest
    <3>. QED
      BY <2>0, <3>1 DEF Review
  <2>8. CASE CountInbox
    BY <2>1, <2>3, <2>4, <2>8 DEF CountInbox
  <2>9. CASE LandReview
    <3>1. Size(inbox) - pos \in Int
      BY <2>0, <2>1
    <3>2. review' = [review EXCEPT !.unread = Size(inbox) - pos, !.before = OnDisk, !.after = Blurred]
      BY <2>9 DEF LandReview
    <3>. QED
      BY <2>0, <2>2, <3>1, <3>2 DEF Review
  <2>. QED
    BY <2>5, <2>6, <2>7, <2>8, <2>9
<1>3. ModType'
  <2>1. pos' = pos /\ anchor' = anchor /\ read' = read /\ first' = first /\ next' = next
        /\ skipped' = skipped
    BY <1>1 DEF Still
  <2>2. buffer' \in Contents /\ blocked' \in BOOLEAN
    BY <1>1, <1>m, NoneEnds DEF ModType
  <2>3. poll' \in {"idle", "current", "rotated", "draining", "start", "sized", "moved", "counted"}
    BY <1>1
  <2>. QED
    BY <1>1, <1>2, <1>m, <2>1, <2>2, <2>3 DEF ModType
<1>4. Position'
  BY <1>1, <1>m, StillPosition
<1>5. Buffered'
  BY <1>1, EmptyBuffer
<1>6. Turned'
  BY <1>1 DEF Turned
<1>7. Once'
  BY <1>1, <1>m DEF Once
<1>. QED
  BY <1>3, <1>4, <1>5, <1>6, <1>7 DEF ModInv

(* What comes behind the position.                                          *)
Behind(g, f, p) ==
    /\ g \in Contents /\ p \in Nat /\ p <= Len(f)
    /\ Len(g) = Len(f) - p /\ \A i \in 1 .. Len(g) : g[i] = f[p + i]

LEMMA RestFact ==
    ASSUME NEW f \in Contents, NEW p, NEW g, Behind(g, f, p)
    PROVE  /\ \A n \in Ends(g) : p + n \in Ends(f) /\ g[n] = f[p + n]
           /\ \A n \in Ends(f) : n > p => n - p \in Ends(g) /\ g[n - p] = f[n]
           /\ Ended(g) \subseteq Ended(f)
           /\ InOrder(f) => InOrder(g)
<1>0. Len(f) \in Nat /\ p \in Nat /\ p <= Len(f)
  BY CellFact DEF Behind
<1>1. g \in Contents /\ Len(g) = Len(f) - p /\ \A i \in 1 .. Len(f) - p : g[i] = f[p + i]
  BY DEF Behind
<1>2. \A n \in Ends(g) : p + n \in Ends(f) /\ g[n] = f[p + n]
  <2>1. ASSUME NEW n \in Ends(g)
        PROVE  p + n \in Ends(f) /\ g[n] = f[p + n]
    <3>1. n \in 1 .. Len(g) /\ EndsLine(g[n])
      BY <1>1, EndsFact
    <3>2. p + n \in 1 .. Len(f) /\ g[n] = f[p + n]
      BY <1>0, <1>1, <3>1
    <3>. QED
      BY <3>1, <3>2, EndsFact
  <2>. QED
    BY <2>1
<1>3. \A n \in Ends(f) : n > p => n - p \in Ends(g) /\ g[n - p] = f[n]
  <2>1. ASSUME NEW n \in Ends(f), n > p
        PROVE  n - p \in Ends(g) /\ g[n - p] = f[n]
    <3>1. n \in 1 .. Len(f) /\ EndsLine(f[n])
      BY EndsFact
    <3>2. n - p \in 1 .. Len(g) /\ p + (n - p) = n
      BY <1>0, <1>1, <2>1, <3>1
    <3>3. g[n - p] = f[n]
      BY <1>1, <3>2
    <3>. QED
      BY <1>1, <3>1, <3>2, <3>3, EndsFact
  <2>. QED
    BY <2>1
<1>4. Ended(g) \subseteq Ended(f)
  <2>1. \A n \in Ends(g) : g[n][1] \in Ended(f)
    BY <1>2, EndsFact
  <2>. QED
    BY <1>1, <2>1, EndsFact
<1>5. ASSUME InOrder(f), NEW m \in Ends(g), NEW n \in Ends(g), m < n
      PROVE  g[m][1] < g[n][1]
  <2>1. p + m \in Ends(f) /\ p + n \in Ends(f) /\ g[m] = f[p + m] /\ g[n] = f[p + n]
    BY <1>2
  <2>2. m \in Nat /\ n \in Nat
    BY <1>1, EndsFact
  <2>3. p + m < p + n
    BY <1>0, <1>5, <2>2
  <2>. QED
    BY <1>5, <2>1, <2>3 DEF InOrder
<1>. QED
  BY <1>1, <1>2, <1>3, <1>4, <1>5 DEF InOrder

LEMMA RestPart ==
    ASSUME NEW f \in Contents, pos \in Nat, pos <= Len(f)
    PROVE  /\ Rest(f) \in Contents /\ Len(Rest(f)) = Len(f) - pos
           /\ \A i \in 1 .. Len(Rest(f)) : Rest(f)[i] = f[pos + i]
<1>1. Len(f) \in Nat /\ Len(f) <= Len(f) /\ pos <= Len(f)
  BY CellFact
<1>2. /\ SubSeq(f, pos + 1, Len(f)) \in Contents
      /\ Len(SubSeq(f, pos + 1, Len(f))) = IF pos <= Len(f) THEN Len(f) - pos ELSE 0
      /\ \A i \in 1 .. Len(f) - pos : SubSeq(f, pos + 1, Len(f))[i] = f[pos + i]
  BY <1>1, PartFact
<1>3. Rest(f) = SubSeq(f, pos + 1, Len(f))
  BY DEF Rest
<1>. QED
  BY <1>1, <1>2, <1>3

LEMMA RestInOrder ==
    ASSUME NEW f \in Contents, pos \in Nat, pos <= Len(f), InOrder(f)
    PROVE  /\ Rest(f) \in Contents /\ Len(Rest(f)) = Len(f) - pos
           /\ \A i \in 1 .. Len(Rest(f)) : Rest(f)[i] = f[pos + i]
           /\ \A n \in Ends(Rest(f)) : pos + n \in Ends(f) /\ Rest(f)[n] = f[pos + n]
           /\ Ended(Rest(f)) \subseteq Ended(f) /\ InOrder(Rest(f))
<1>1. Behind(Rest(f), f, pos)
  BY RestPart DEF Behind
<1>. QED
  BY <1>1, RestPart, RestFact

LEMMA RestBehind ==
    ASSUME ModType, Position, pos > 0, NEW f \in Contents, Anchored(f), InOrder(f),
           NEW g, g = Rest(f)
    PROVE  /\ \A y \in Ended(g) : Passed < y
           /\ \A y \in Ended(f) : y > Passed => y \in Ended(g)
<1>1. pos \in Nat /\ pos <= Len(f) /\ Passed \in Nat
  BY ModBasics DEF Anchored
<1>2. pos \in Ends(f) /\ f[pos][1] = Passed
  BY AnchoredEnd
<1>. PICK p \in Nat : p = pos
  BY <1>1
<1>3. /\ g \in Contents
      /\ \A n \in Ends(g) : p + n \in Ends(f) /\ g[n] = f[p + n]
      /\ \A n \in Ends(f) : n > p => n - p \in Ends(g) /\ g[n - p] = f[n]
  <2>1. Rest(f) \in Contents /\ Behind(Rest(f), f, pos)
    BY <1>1, RestPart DEF Behind
  <2>2. /\ \A n \in Ends(Rest(f)) : pos + n \in Ends(f) /\ Rest(f)[n] = f[pos + n]
        /\ \A n \in Ends(f) : n > pos =>
              n - pos \in Ends(Rest(f)) /\ Rest(f)[n - pos] = f[n]
    BY <2>1, RestFact
  <2>. QED
    BY <2>1, <2>2, Zenon
<1>4. ASSUME NEW n \in Ends(g)
      PROVE  Passed < g[n][1]
  <2>1. n \in Nat /\ n >= 1
    BY <1>3, EndsFact, CellFact
  <2>2. p < p + n
    BY <2>1
  <2>. QED
    BY <1>2, <1>3, <2>2 DEF InOrder
<1>5. ASSUME NEW n \in Ends(f), f[n][1] > Passed
      PROVE  f[n][1] \in Ended(g)
  <2>1. n \in Nat /\ f[n][1] \in Nat
    BY EndsFact, CellFact
  <2>2. n > p
    <3>1. n < p => f[n][1] < Passed
      BY <1>2 DEF InOrder
    <3>2. n # p
      BY <1>1, <1>2, <1>5, <2>1
    <3>3. ~ (n < p)
      BY <1>1, <1>5, <2>1, <3>1
    <3>. QED
      BY <2>1, <3>2, <3>3
  <2>. QED
    BY <1>3, <2>2, EndsFact
<1>. QED
  BY <1>4, <1>5 DEF Ended

(* A file that goes on is the one the mod has read from: the inbox, or .1.  *)
LEMMA OwnInbox ==
    ASSUME RelayInv, ModInv, pos > 0
    PROVE  /\ Anchored(inbox) <=> next = rotations
           /\ Continues(inbox) <=> Anchored(inbox)
           /\ Continues(rotated) <=> Anchored(rotated)
           /\ next < rotations => (Anchored(rotated) <=> next = rotations - 1)
<1>1. ModType /\ Position
  BY DEF ModInv
<1>2. /\ pos \in Nat /\ anchor \in Contents /\ Len(anchor) <= pos /\ Passed \in Nat /\ next \in Nat
      /\ rotations \in Nat /\ inbox \in Contents \cup {NoFile} /\ rotated \in Contents \cup {NoFile}
      /\ next <= rotations
  BY <1>1, ModBasics DEF ModType, RelayInv, RelayType, Position
<1>3. Continues(inbox) <=> Anchored(inbox)
  BY <1>2, ContinuesFact
<1>4. Continues(rotated) <=> Anchored(rotated)
  BY <1>2, ContinuesFact
<1>5. ASSUME Anchored(inbox), next < rotations
      PROVE  FALSE
  <2>1. inbox \in Contents /\ Cells(inbox) = inbox
    BY <1>2, <1>5, CellsFact DEF Anchored
  <2>2. Passed \in Ended(inbox)
    BY <1>1, <1>5, <2>1, AnchoredEnd
  <2>3. Passed < Passed
    BY <1>1, <1>5, <2>1, <2>2 DEF Position
  <2>. QED
    BY <1>2, <2>3
<1>6. ASSUME Anchored(rotated), next < rotations - 1
      PROVE  FALSE
  <2>1. rotated \in Contents /\ Cells(rotated) = rotated
    BY <1>2, <1>6, CellsFact DEF Anchored
  <2>2. Passed \in Ended(rotated)
    BY <1>1, <1>6, <2>1, AnchoredEnd
  <2>3. Passed < Passed
    BY <1>1, <1>6, <2>1, <2>2 DEF Position
  <2>. QED
    BY <1>2, <2>3
<1>7. (next = rotations => Anchored(inbox)) /\ (next = rotations - 1 => Anchored(rotated))
  BY <1>1 DEF Position
<1>8. next = rotations \/ next < rotations
  BY <1>2
<1>9. next < rotations => next = rotations - 1 \/ next < rotations - 1
  BY <1>2
<1>. QED
  BY <1>3, <1>4, <1>5, <1>6, <1>7, <1>8, <1>9

(* The mod begins the inbox.                                                *)
BeginsInbox ==
    /\ pos = 0 /\ inbox # NoFile
    /\ buffer' = inbox /\ poll' = "current"
    /\ next' = rotations /\ skipped' = (skipped \/ rotations # next)
    /\ UNCHANGED <<relaySide, pos, anchor, blocked, reviewing, handled, launches, read, first>>

LEMMA BeginStep ==
    ASSUME RelayInv, ModInv, BeginsInbox
    PROVE  ModInv'
<1>u. /\ pos' = pos /\ anchor' = anchor /\ blocked' = blocked /\ serial' = serial
      /\ review' = review /\ handled' = handled /\ launches' = launches /\ read' = read
      /\ first' = first /\ inbox' = inbox /\ rotated' = rotated /\ rotations' = rotations
      /\ lines' = lines /\ carries' = carries /\ pos = 0 /\ inbox # NoFile /\ buffer' = inbox
      /\ poll' = "current" /\ next' = rotations /\ skipped' = (skipped \/ rotations # next)
  BY DEF BeginsInbox, relaySide, reviewing
<1>m. ModType /\ Position /\ Buffered /\ Turned /\ Once
  BY DEF ModInv
<1>i. Index' = Index /\ Passed' = Passed /\ Lined' = Lined /\ Index \in Nat
  BY <1>m, <1>u, ModBasics DEF Index, Passed, Lined
<1>f. inbox \in Contents /\ Cells(inbox) = inbox /\ rotations \in Nat
      /\ Len(inbox) \in Nat /\ DOMAIN inbox = 1 .. Len(inbox)
  BY <1>u, CellsFact, CellFact DEF RelayInv, RelayType
<1>s. ~ skipped' => ~ skipped /\ next = rotations
  BY <1>u
<1>r. ~ (rotations < rotations) /\ ~ (rotations < rotations - 1) /\ rotations # rotations - 1
      /\ rotations <= rotations /\ ~ (0 > 0)
  BY <1>f
<1>1. ModType'
  BY <1>f, <1>m, <1>u DEF ModType
<1>2. Position'
  <2>1. (pos > 0) = FALSE
    BY <1>u
  <2>. QED
    BY <1>i, <1>m, <1>r, <1>s, <1>u, <2>1 DEF Position
<1>3. Buffered'
  <2>1. /\ InOrder(inbox) /\ Ended(inbox) \subseteq Lined
        /\ \A n \in DOMAIN inbox : inbox[n][1] <= Len(carries)
    BY <1>f DEF RelayInv, Sections, Numbered
  <2>2. \A y \in Ended(inbox), k \in DOMAIN read : read[k] < y
    BY <1>f, <1>m, <1>u DEF Position
  <2>3. ASSUME NEW y \in Ended(inbox), ~ skipped', NEW k \in DOMAIN lines
        PROVE  /\ k <= Index => lines[k] < y
               /\ k > Index /\ lines[k] < y => lines[k] \in Ended(inbox)
    <3>1. Ended(inbox) = {lines[j] : j \in Index + 1 .. Len(lines)}
      BY <1>f, <1>m, <1>s, <1>u, <2>3 DEF Position
    <3>2. Len(lines) \in Nat /\ DOMAIN lines = 1 .. Len(lines)
          /\ \A i, j \in DOMAIN lines : i < j => lines[i] < lines[j]
      BY ModFiles
    <3>. PICK j \in Index + 1 .. Len(lines) : y = lines[j]
      BY <3>1
    <3>3. k <= Index => j \in DOMAIN lines /\ k < j
      BY <1>i, <3>2
    <3>4. k > Index => k \in Index + 1 .. Len(lines)
      BY <1>i, <3>2
    <3>. QED
      BY <3>1, <3>2, <3>3, <3>4
  <2>4. Copies(inbox)'
    <3>1. \A n \in Ends(inbox) : n \in 1 .. Len(inbox) /\ 0 + n <= Len(inbox)
                                 /\ \A i \in 1 .. n : 0 + i = i
      BY <1>f, EndsFact
    <3>. QED
      BY <1>u, <3>1 DEF Copies
  <2>. QED
    BY <1>i, <1>r, <1>u, <2>1, <2>2, <2>3, <2>4 DEF Buffered
<1>4. Turned'
  BY <1>u DEF Turned
<1>5. Once'
  BY <1>m, <1>u DEF Once
<1>. QED
  BY <1>1, <1>2, <1>3, <1>4, <1>5 DEF ModInv

(* The mod reads on in its file, the inbox or .1.                           *)
LEMMA ReadOn ==
    ASSUME RelayInv, ModInv, Still, pos > 0, NEW f \in {inbox, rotated},
           Anchored(f), buffer' = Rest(f), poll' \in {"current", "draining"},
           f = inbox => next = rotations, f = rotated => next = rotations - 1,
           \A x \in Lined, y, z \in Ended(Cells(f)) : y < x /\ x < z => x \in Ended(Cells(f))
    PROVE  Buffered' /\ buffer' \in Contents /\ Len(buffer') = Len(f) - pos
           /\ \A i \in DOMAIN buffer' : f[pos + i] = buffer'[i]
<1>. PICK g, p : g = Rest(f) /\ p = pos
  OBVIOUS
<1>m. ModType /\ Position
  BY DEF ModInv
<1>f. /\ f \in Contents /\ Cells(f) = f /\ f # NoFile /\ InOrder(f) /\ Ended(f) \subseteq Lined
      /\ \A n \in DOMAIN f : f[n][1] <= Len(carries)
  <2>1. f \in Contents /\ Cells(f) = f /\ f # NoFile
    BY CellsFact DEF Anchored, RelayInv, RelayType
  <2>. QED
    BY <2>1 DEF RelayInv, Sections, Numbered
<1>p. p \in Nat /\ p <= Len(f) /\ Passed \in Nat /\ Index \in Nat /\ Len(f) \in Nat
      /\ \A k \in DOMAIN read : read[k] \in Nat
  BY <1>f, <1>m, ModBasics, CellFact DEF Anchored
<1>g. /\ g \in Contents /\ Len(g) = Len(f) - p
      /\ \A i \in 1 .. Len(g) : g[i] = f[p + i]
      /\ \A n \in Ends(g) : p + n \in Ends(f) /\ g[n] = f[p + n]
      /\ Ended(g) \subseteq Ended(f) /\ InOrder(g)
  BY <1>f, <1>p, RestInOrder
<1>b. /\ \A y \in Ended(g) : Passed < y
      /\ \A y \in Ended(f) : y > Passed => y \in Ended(g)
      /\ Passed \in Ended(f)
  BY <1>f, <1>m, RestBehind, AnchoredEnd
<1>d. DOMAIN g = 1 .. Len(g) /\ Len(g) \in Nat
  BY <1>g, CellFact
<1>i. Index' = Index /\ Passed' = Passed /\ Lined' = Lined
  BY DEF Still, Index, Passed, Lined
<1>l. /\ Len(lines) \in Nat /\ DOMAIN lines = 1 .. Len(lines) /\ Lined \subseteq Nat
      /\ rotations \in Nat /\ next \in Nat
      /\ \A k \in DOMAIN lines : lines[k] \in Lined
      /\ \A j, k \in DOMAIN lines : j < k => lines[j] < lines[k]
  BY <1>m, ModFiles, ModBasics
<1>1. \A n \in DOMAIN g : g[n][1] <= Len(carries)
  <2>1. \A n \in DOMAIN g : p + n \in DOMAIN f
    BY <1>d, <1>f, <1>g, <1>p, CellFact
  <2>. QED
    BY <1>d, <1>f, <1>g, <2>1
<1>2. ASSUME NEW y \in Ended(g)
      PROVE  /\ \A k \in DOMAIN read : read[k] < y
             /\ Passed < y
             /\ ~ skipped => \A k \in DOMAIN lines :
                              /\ k <= Index => lines[k] < y
                              /\ k > Index /\ lines[k] < y => lines[k] \in Ended(g)
             /\ next < rotations => \A z \in Ended(Cells(inbox)) : y < z
             /\ ~ (next < rotations - 1)
  <2>0. y \in Nat /\ Passed < y /\ y \in Ended(f) /\ y \in Lined
    BY <1>b, <1>f, <1>g, <1>l
  <2>1. \A k \in DOMAIN read : read[k] < y
    <3>1. \A k \in DOMAIN read : read[k] <= Passed
      BY <1>m DEF Position
    <3>. QED
      BY <1>p, <2>0, <3>1
  <2>2. ASSUME ~ skipped, NEW k \in DOMAIN lines
        PROVE  /\ k <= Index => lines[k] < y
               /\ k > Index /\ lines[k] < y => lines[k] \in Ended(g)
    <3>1. Index > 0 /\ Passed = lines[Index] /\ Index <= Len(lines)
      BY <1>m, <2>2 DEF Position
    <3>2. Index \in DOMAIN lines /\ lines[k] \in Nat
      <4>1. lines[k] \in Nat
        BY <1>l
      <4>2. Index > 0 /\ Index <= Len(lines) /\ Index \in Nat
        BY <1>p, <3>1
      <4>. QED
        BY <1>l, <4>1, <4>2
    <3>3. ASSUME k <= Index
          PROVE  lines[k] < y
      <4>1. lines[k] <= Passed
        <5>1. k = Index \/ k < Index
          BY <1>l, <1>p, <3>3
        <5>2. k < Index => lines[k] < Passed
          BY <1>l, <3>1, <3>2
        <5>. QED
          BY <1>p, <3>1, <3>2, <5>1, <5>2
      <4>. QED
        BY <1>p, <2>0, <3>2, <4>1
    <3>4. ASSUME k > Index, lines[k] < y
          PROVE  lines[k] \in Ended(g)
      <4>1. Passed < lines[k] /\ lines[k] \in Lined
        BY <1>l, <3>1, <3>2, <3>4
      <4>2. lines[k] \in Ended(f)
        BY <1>b, <1>f, <2>0, <3>4, <4>1
      <4>. QED
        BY <1>b, <1>p, <3>2, <4>1, <4>2
    <3>. QED
      BY <3>3, <3>4
  <2>3. next < rotations => \A z \in Ended(Cells(inbox)) : y < z
    <3>1. ASSUME next < rotations
          PROVE  f = rotated
      BY <1>l, <3>1
    <3>. QED
      BY <1>f, <2>0, <3>1 DEF RelayInv, Sections
  <2>4. ~ (next < rotations - 1)
    BY <1>l
  <2>. QED
    BY <2>0, <2>1, <2>2, <2>3, <2>4
<1>3. ASSUME NEW n \in Ends(g)
      PROVE  p + n <= Len(f) /\ \A i \in 1 .. n : f[p + i] = g[i]
  <2>1. n \in 1 .. Len(g)
    BY <1>g, EndsFact
  <2>2. \A i \in 1 .. n : i \in 1 .. Len(g)
    BY <1>d, <2>1
  <2>. QED
    BY <1>d, <1>g, <1>p, <2>1, <2>2
<1>4. (next = rotations => f = inbox) /\ (next = rotations - 1 => f = rotated)
  BY <1>l
<1>u. /\ pos' = p /\ anchor' = anchor /\ read' = read /\ first' = first /\ next' = next
      /\ skipped' = skipped /\ inbox' = inbox /\ rotated' = rotated /\ rotations' = rotations
      /\ lines' = lines /\ carries' = carries /\ buffer' = g
  BY DEF Still
<1>5. (next = rotations => Copies(inbox)') /\ (next = rotations - 1 => Copies(rotated)')
  <2>1. Copies(f)'  => (next = rotations => Copies(inbox)') /\ (next = rotations - 1 => Copies(rotated)')
    BY <1>4, <1>u DEF Copies
  <2>2. \A n \in Ends(buffer') : /\ f # NoFile /\ pos' + n <= Len(f)
                                 /\ \A i \in 1 .. n : f[pos' + i] = buffer'[i]
    BY <1>3, <1>f, <1>u
  <2>3. /\ next = rotations => inbox' = f
        /\ next = rotations - 1 => rotated' = f
    BY <1>4, <1>u
  <2>. QED
    BY <2>2, <2>3 DEF Copies
<1>6. Buffered'
  BY <1>1, <1>2, <1>5, <1>f, <1>g, <1>i, <1>u DEF Buffered
<1>. QED
  BY <1>6, <1>d, <1>g, <1>u

LEMMA PollCurrentStep ==
    ASSUME RelayInv, ModInv, PollCurrent
    PROVE  ModInv'
<1>m. ModType /\ Position /\ Buffered /\ Turned /\ Once
  BY DEF ModInv
<1>n. pos \in Nat /\ (pos = 0 \/ pos > 0)
  BY <1>m DEF ModType
<1>1. CASE pos = 0
  <2>1. BeginsInbox
    BY <1>1 DEF PollCurrent, BeginsInbox
  <2>. QED
    BY <2>1, BeginStep
<1>2. CASE pos > 0
  <2>1. /\ Still /\ blocked' = blocked /\ serial' = serial /\ review' = review
        /\ handled' = handled /\ launches' = launches /\ poll = "idle"
    BY <1>1, <1>2, <1>n DEF PollCurrent, Still, relaySide, reviewing
  <2>u. /\ pos' = pos /\ anchor' = anchor /\ read' = read /\ first' = first /\ next' = next
        /\ skipped' = skipped /\ rotations' = rotations /\ rotated' = rotated
    BY <2>1 DEF Still
  <2>2. Position'
    BY <1>m, <2>1, StillPosition
  <2>3. Once'
    BY <1>m, <2>1 DEF Once
  <2>4. CASE Continues(inbox) /\ buffer' = Rest(inbox) /\ poll' = "current"
    <3>1. Anchored(inbox) /\ next = rotations
      BY <1>2, <2>4, OwnInbox
    <3>2. rotations # rotations - 1
      BY ModFiles
    <3>3. /\ \A x \in Lined, y, z \in Ended(Cells(inbox)) : y < x /\ x < z => x \in Ended(Cells(inbox))
      <4>1. \A x \in Lined, y \in Ended(Cells(inbox)) : x > y => x \in Ended(Cells(inbox))
        BY DEF RelayInv, Sections
      <4>2. Lined \subseteq Nat /\ Ended(Cells(inbox)) \subseteq Nat
        BY ModFiles
      <4>. QED
        BY <4>1, <4>2
    <3>4. inbox = rotated => FALSE
      <4>1. ASSUME inbox = rotated
            PROVE  FALSE
        <5>1. inbox \in Contents /\ Cells(inbox) = inbox /\ Cells(rotated) = inbox
          BY <3>1, <4>1, CellsFact DEF Anchored, RelayInv, RelayType
        <5>2. Passed \in Ended(inbox) /\ Passed \in Nat
          BY <1>2, <1>m, <3>1, <5>1, AnchoredEnd, ModBasics
        <5>3. Passed < Passed
          BY <5>1, <5>2 DEF RelayInv, Sections
        <5>. QED
          BY <5>2, <5>3
      <4>. QED
        BY <4>1
    <3>5. Buffered' /\ buffer' \in Contents
      BY <1>2, <2>1, <2>4, <3>1, <3>2, <3>3, <3>4, ReadOn
    <3>6. ModType'
      BY <1>m, <2>1, <2>4, <2>u, <3>5 DEF ModType
    <3>7. Turned'
      BY <2>4 DEF Turned
    <3>. QED
      BY <2>2, <2>3, <3>5, <3>6, <3>7 DEF ModInv
  <2>5. CASE ~ Continues(inbox) /\ poll' = "rotated" /\ buffer' = buffer
    <3>1. next < rotations
      <4>1. next # rotations
        BY <1>2, <2>5, OwnInbox
      <4>2. next \in Nat /\ rotations \in Nat /\ next <= rotations
        BY <1>m, ModBasics, ModFiles DEF Position
      <4>. QED
        BY <4>1, <4>2
    <3>2. buffer = <<>>
      BY <1>m, <2>1 DEF Buffered
    <3>3. Buffered'
      BY <2>5, <3>2, EmptyBuffer
    <3>4. ModType'
      BY <1>m, <2>1, <2>5, <2>u DEF ModType
    <3>5. Turned'
      BY <1>2, <2>5, <2>u, <3>1 DEF Turned
    <3>. QED
      BY <2>2, <2>3, <3>3, <3>4, <3>5 DEF ModInv
  <2>. QED
    BY <1>2, <1>n, <2>4, <2>5 DEF PollCurrent
<1>. QED
  BY <1>1, <1>2, <1>n

(* The position is given up, or .1 is read out: the next file is begun.     *)
LEMMA PollRotatedStep ==
    ASSUME RelayInv, ModInv, PollRotated
    PROVE  ModInv' /\ (pos' = 0 => rotations >= next + 2)
<1>m. ModType /\ Position /\ Buffered /\ Turned /\ Once
  BY DEF ModInv
<1>u. /\ read' = read /\ first' = first /\ next' = next /\ skipped' = skipped /\ inbox' = inbox
      /\ rotated' = rotated /\ rotations' = rotations /\ lines' = lines /\ carries' = carries
      /\ blocked' = blocked /\ serial' = serial /\ review' = review
      /\ handled' = handled /\ launches' = launches
  BY DEF PollRotated, relaySide, reviewing
<1>n. pos > 0 /\ next < rotations /\ next \in Nat /\ rotations \in Nat /\ pos \in Nat
      /\ Lined' = Lined /\ Index' = Index /\ buffer = <<>>
      /\ \A k \in DOMAIN read : read[k] \in Nat
  BY <1>m, <1>u, ModBasics, ModFiles DEF PollRotated, Turned, Lined, Index, Buffered
<1>o. Once'
  BY <1>m, <1>u DEF Once
<1>1. CASE Continues(rotated) /\ buffer' = Rest(rotated) /\ poll' = "draining"
           /\ pos' = pos /\ anchor' = anchor
  <2>1. Anchored(rotated) /\ next = rotations - 1 /\ next # rotations
    BY <1>1, <1>n, OwnInbox
  <2>2. Still
    BY <1>1, <1>u DEF Still
  <2>3. Position'
    BY <1>m, <2>2, StillPosition
  <2>4. \A x \in Lined, y, z \in Ended(Cells(rotated)) : y < x /\ x < z => x \in Ended(Cells(rotated))
    <3>1. /\ \A x \in Lined, y \in Ended(Cells(rotated)) :
                x > y => x \in Ended(Cells(rotated)) \cup Ended(Cells(inbox))
          /\ \A y \in Ended(Cells(rotated)), z \in Ended(Cells(inbox)) : y < z
      BY DEF RelayInv, Sections
    <3>2. Lined \subseteq Nat /\ Ended(Cells(rotated)) \subseteq Nat /\ Ended(Cells(inbox)) \subseteq Nat
      BY ModFiles
    <3>. QED
      BY <3>1, <3>2
  <2>5. rotated # inbox
    <3>1. ASSUME rotated = inbox
          PROVE  FALSE
      BY <1>n, <2>1, <3>1, OwnInbox
    <3>. QED
      BY <3>1
  <2>6. Buffered' /\ buffer' \in Contents /\ Len(buffer') = Len(rotated) - pos
        /\ \A i \in DOMAIN buffer' : rotated[pos + i] = buffer'[i]
    BY <1>1, <1>n, <2>1, <2>2, <2>4, <2>5, ReadOn
  <2>7. ModType'
    BY <1>1, <1>m, <1>u, <2>6 DEF ModType
  <2>8. Turned'
    BY <1>1, <1>n, <1>u, <2>6 DEF Turned
  <2>9. pos' # 0
    BY <1>1, <1>n
  <2>. QED
    BY <1>o, <2>3, <2>6, <2>7, <2>8, <2>9 DEF ModInv
<1>2. CASE ~ Continues(rotated) /\ pos' = 0 /\ anchor' = <<>> /\ poll' = "start" /\ buffer' = buffer
  <2>1. rotations >= next + 2
    <3>1. next # rotations - 1
      BY <1>2, <1>n, OwnInbox
    <3>. QED
      BY <1>n, <3>1
  <2>2. Buffered'
    BY <1>2, <1>n, EmptyBuffer
  <2>3. ModType'
    <3>1. <<>> \in Contents /\ Len(<<>>) <= AnchorCells
      BY NoneEnds, AnchorAssumption
    <3>. QED
      BY <1>2, <1>m, <1>u, <3>1 DEF ModType
  <2>4. Turned'
    BY <1>2 DEF Turned
  <2>5. \A k \in DOMAIN read, y \in Ended(Cells(inbox)) : read[k] < y
    <3>1. (\A k \in DOMAIN read : read[k] <= Passed) /\ \A y \in Ended(Cells(inbox)) : Passed < y
      BY <1>m, <1>n DEF Position
    <3>2. Passed \in Nat /\ Ended(Cells(inbox)) \subseteq Nat
      BY <1>m, <1>n, ModBasics, ModFiles
    <3>. QED
      BY <1>n, <3>1, <3>2
  <2>6. Position'
    <3>1. next # rotations /\ ~ (0 > 0)
      BY <1>n
    <3>2. /\ next <= rotations /\ (~ skipped => Index <= Len(lines))
          /\ \A j, k \in DOMAIN read : j < k => read[j] < read[k]
          /\ \A k \in DOMAIN read : read[k] \in Lined
          /\ ~ skipped => \A k \in DOMAIN read : read[k] = lines[first + k]
      BY <1>m DEF Position
    <3>. QED
      BY <1>2, <1>n, <1>u, <2>5, <3>1, <3>2 DEF Position
  <2>. QED
    BY <1>o, <2>1, <2>2, <2>3, <2>4, <2>6 DEF ModInv
<1>. QED
  BY <1>1, <1>2 DEF PollRotated

LEMMA PollStartStep ==
    ASSUME RelayInv, ModInv, PollStart
    PROVE  ModInv'
<1>m. ModType /\ Position /\ Buffered /\ Turned /\ Once
  BY DEF ModInv
<1>1. CASE inbox # NoFile
  <2>1. pos = 0
    BY <1>m DEF Turned, PollStart
  <2>2. BeginsInbox
    BY <1>1, <2>1 DEF PollStart, BeginsInbox
  <2>. QED
    BY <2>2, BeginStep
<1>2. CASE inbox = NoFile
  <2>1. /\ Still /\ blocked' = blocked /\ serial' = serial /\ review' = review
        /\ handled' = handled /\ launches' = launches /\ poll = "start" /\ poll' = "idle"
        /\ buffer' = buffer
    BY <1>2 DEF PollStart, Still, relaySide, reviewing
  <2>2. buffer = <<>>
    BY <1>m, <2>1 DEF Buffered
  <2>3. Position' /\ Buffered'
    BY <1>m, <2>1, <2>2, StillPosition, EmptyBuffer
  <2>4. ModType'
    BY <1>m, <2>1 DEF ModType, Still
  <2>5. Turned' /\ Once'
    BY <1>m, <2>1 DEF Turned, Once
  <2>. QED
    BY <2>3, <2>4, <2>5 DEF ModInv
<1>. QED
  BY <1>1, <1>2

LEMMA EndPollStep ==
    ASSUME RelayInv, ModInv, EndPoll
    PROVE  ModInv'
<1>m. ModType /\ Position /\ Buffered /\ Turned /\ Once
  BY DEF ModInv
<1>u. /\ read' = read /\ first' = first /\ skipped' = skipped /\ inbox' = inbox
      /\ rotated' = rotated /\ rotations' = rotations /\ lines' = lines /\ carries' = carries
      /\ blocked' = blocked /\ serial' = serial /\ review' = review
      /\ handled' = handled /\ launches' = launches /\ buffer' = <<>> /\ LineEnds = {}
      /\ poll \in {"current", "draining"}
  BY DEF EndPoll, relaySide, reviewing
<1>n. /\ next \in Nat /\ rotations \in Nat /\ pos \in Nat /\ Index \in Nat
      /\ Lined' = Lined /\ Index' = Index
      /\ \A k \in DOMAIN read : read[k] \in Nat
  BY <1>m, <1>u, ModBasics, ModFiles DEF Lined, Index
<1>o. Once' /\ Buffered'
  BY <1>m, <1>u, EmptyBuffer DEF Once
<1>1. CASE poll = "current" /\ poll' = "idle" /\ pos' = pos /\ anchor' = anchor /\ next' = next
  <2>1. Still
    BY <1>1, <1>u DEF Still
  <2>2. Position'
    BY <1>m, <2>1, StillPosition
  <2>3. ModType' /\ Turned'
    BY <1>1, <1>m, <1>u, NoneEnds DEF ModType, Turned
  <2>. QED
    BY <1>o, <2>2, <2>3 DEF ModInv
<1>2. CASE poll = "draining" /\ pos' = 0 /\ anchor' = <<>> /\ poll' = "start" /\ next' = next + 1
  <2>1. pos > 0 /\ next < rotations
    BY <1>2, <1>m DEF Turned
  <2>2. /\ Passed \in Nat /\ Lined \subseteq Nat /\ Ended(Cells(inbox)) \subseteq Nat
        /\ Ended(Cells(inbox)) \subseteq Lined
        /\ Len(lines) \in Nat /\ DOMAIN lines = 1 .. Len(lines)
        /\ \A k \in DOMAIN lines : lines[k] \in Lined /\ lines[k] \in Nat
        /\ \A j, k \in DOMAIN lines : j < k => lines[j] < lines[k]
    BY <1>m, <2>1, ModBasics, ModFiles
  <2>3. (\A k \in DOMAIN read : read[k] <= Passed) /\ \A y \in Ended(Cells(inbox)) : Passed < y
    BY <1>m, <2>1 DEF Position
  <2>4. \A k \in DOMAIN read, y \in Ended(Cells(inbox)) : read[k] < y
    BY <1>n, <2>2, <2>3
  <2>5. ASSUME ~ skipped, next + 1 = rotations
        PROVE  Ended(Cells(inbox)) = {lines[k] : k \in Index + 1 .. Len(lines)}
    <3>1. Passed = lines[Index] /\ Index > 0 /\ Index <= Len(lines) /\ Index \in DOMAIN lines
      <4>1. Passed = lines[Index] /\ Index > 0 /\ Index <= Len(lines)
        BY <1>m, <2>1, <2>5 DEF Position
      <4>2. Index > 0 /\ Index <= Len(lines)
        BY <4>1
      <4>. QED
        BY <1>n, <2>2, <4>1, <4>2
    <3>2. next = rotations - 1
      BY <1>n, <2>5
    <3>3. Anchored(rotated) /\ Len(buffer) = Len(rotated) - pos
          /\ \A i \in DOMAIN buffer : rotated[pos + i] = buffer[i]
      BY <1>2, <1>m, <2>1, <3>2 DEF Position, Turned
    <3>4. rotated \in Contents /\ Cells(rotated) = rotated /\ pos <= Len(rotated)
          /\ InOrder(rotated)
      BY <3>3, CellsFact DEF Anchored, RelayInv, RelayType, Sections
    <3>5. \A n \in Ends(rotated) : n <= pos
      <4>1. ASSUME NEW n \in Ends(rotated), n > pos
            PROVE  FALSE
        <5>1. n \in Nat /\ n <= Len(rotated) /\ Len(rotated) \in Nat /\ EndsLine(rotated[n])
          BY <3>4, EndsFact, CellFact
        <5>. PICK i : i = n - pos
          OBVIOUS
        <5>2. i \in 1 .. Len(buffer) /\ pos + i = n
          BY <1>n, <3>3, <4>1, <5>1
        <5>3. i \in DOMAIN buffer /\ EndsLine(buffer[i])
          BY <1>m, <3>3, <5>1, <5>2, ModBasics
        <5>4. i \in LineEnds
          BY <5>3 DEF LineEnds
        <5>. QED
          BY <1>u, <5>4
      <4>2. \A n \in Ends(rotated) : n \in Nat
        BY <3>4, EndsFact
      <4>. QED
        BY <1>n, <4>1, <4>2
    <3>6. pos \in Ends(rotated) /\ rotated[pos][1] = Passed /\ Passed \in Ended(rotated)
      BY <1>m, <2>1, <3>3, <3>4, AnchoredEnd
    <3>7. \A y \in Ended(rotated) : y <= Passed
      <4>1. \A n \in Ends(rotated) : n \in Nat /\ rotated[n][1] \in Nat
        BY <3>4, EndsFact, CellFact
      <4>2. ASSUME NEW n \in Ends(rotated)
            PROVE  rotated[n][1] <= Passed
        <5>1. n = pos \/ n < pos
          BY <1>n, <3>5, <4>1
        <5>2. n < pos => rotated[n][1] < Passed
          BY <3>4, <3>6 DEF InOrder
        <5>3. n = pos => rotated[n][1] = Passed
          BY <3>6
        <5>. QED
          BY <2>2, <4>1, <5>1, <5>2, <5>3
      <4>. QED
        BY <3>4, <4>2, EndsFact
    <3>8. \A x \in Lined : x > Passed => x \in Ended(Cells(inbox))
      <4>1. \A x \in Lined, y \in Ended(rotated) :
                x > y => x \in Ended(rotated) \cup Ended(Cells(inbox))
        BY <3>4 DEF RelayInv, Sections
      <4>. QED
        BY <2>2, <3>6, <3>7, <4>1
    <3>9. ASSUME NEW k \in Index + 1 .. Len(lines)
          PROVE  lines[k] \in Ended(Cells(inbox))
      <4>1. k \in DOMAIN lines /\ Index < k
        BY <1>n, <2>2
      <4>2. lines[Index] < lines[k]
        BY <2>2, <3>1, <4>1
      <4>. QED
        BY <2>2, <3>1, <3>8, <4>1, <4>2
    <3>10. ASSUME NEW z \in Ended(Cells(inbox))
           PROVE  \E k \in Index + 1 .. Len(lines) : z = lines[k]
      <4>1. z \in Lined /\ Passed < z /\ z \in Nat
        BY <2>2, <2>3
      <4>. PICK k \in DOMAIN lines : z = lines[k]
        BY <4>1 DEF Lined
      <4>2. k \in Nat /\ k <= Len(lines) /\ ~ (k < Index) /\ k # Index
        <5>1. ~ (k < Index)
          BY <2>2, <3>1, <4>1
        <5>2. k # Index
          BY <2>2, <3>1, <4>1
        <5>. QED
          BY <2>2, <5>1, <5>2
      <4>3. k \in Index + 1 .. Len(lines)
        BY <1>n, <2>2, <4>2
      <4>. QED
        BY <4>3
    <3>. QED
      BY <3>9, <3>10
  <2>6. Position'
    <3>1. ~ (0 > 0) /\ next + 1 <= rotations
      BY <1>n, <2>1
    <3>2. /\ ~ skipped => Index <= Len(lines)
          /\ \A j, k \in DOMAIN read : j < k => read[j] < read[k]
          /\ \A k \in DOMAIN read : read[k] \in Lined
          /\ ~ skipped => \A k \in DOMAIN read : read[k] = lines[first + k]
      BY <1>m DEF Position
    <3>. QED
      BY <1>2, <1>n, <1>u, <2>4, <2>5, <3>1, <3>2 DEF Position
  <2>7. ModType'
    <3>1. <<>> \in Contents /\ Len(<<>>) <= AnchorCells /\ next + 1 \in Nat
      BY <1>n, NoneEnds, AnchorAssumption
    <3>. QED
      BY <1>2, <1>m, <1>u, <3>1 DEF ModType
  <2>8. Turned'
    BY <1>2 DEF Turned
  <2>. QED
    BY <1>o, <2>6, <2>7, <2>8 DEF ModInv
<1>. QED
  BY <1>1, <1>2 DEF EndPoll

LEMMA FirstPart ==
    ASSUME NEW c \in Contents, NEW e \in Nat, e <= Len(c)
    PROVE  /\ SubSeq(c, 1, e) \in Contents /\ Len(SubSeq(c, 1, e)) = e
           /\ \A i \in 1 .. e : SubSeq(c, 1, e)[i] = c[i]
<1>1. /\ SubSeq(c, 0 + 1, e) \in Contents
      /\ Len(SubSeq(c, 0 + 1, e)) = IF 0 <= e THEN e - 0 ELSE 0
      /\ \A i \in 1 .. e - 0 : SubSeq(c, 0 + 1, e)[i] = c[0 + i]
  BY PartFact
<1>2. 0 + 1 = 1 /\ e - 0 = e /\ 0 <= e /\ \A i \in 1 .. e : 0 + i = i
  OBVIOUS
<1>. QED
  BY <1>1, <1>2

LEMMA StartAnchor ==
    ASSUME NEW c \in Contents, NEW e \in Nat, e <= Len(c), NEW a, a = LastCells(SubSeq(c, 1, e))
    PROVE  /\ a \in Contents /\ Len(a) <= AnchorCells /\ Len(a) <= e /\ Len(a) \in Nat
           /\ e > 0 => Len(a) >= 1
           /\ \A i \in 1 .. Len(a) : a[i] = c[e - Len(a) + i]
<1>. PICK t : t = SubSeq(c, 1, e)
  OBVIOUS
<1>1. t \in Contents /\ Len(t) = e /\ \A i \in 1 .. e : t[i] = c[i]
  BY FirstPart
<1>2. /\ a \in Contents
      /\ Len(a) <= AnchorCells /\ Len(a) <= Len(t)
      /\ t # <<>> => Len(a) >= 1
      /\ \A i \in 1 .. Len(a) : a[i] = t[Len(t) - Len(a) + i]
  <2>1. t \in Contents
    BY <1>1
  <2>. QED
    BY <2>1, LastCellsFact
<1>3. e > 0 => t # <<>>
  BY <1>1, NoneEnds
<1>4. Len(a) \in Nat
  BY <1>2, CellFact
<1>5. ASSUME NEW i \in 1 .. Len(a)
      PROVE  a[i] = c[e - Len(a) + i]
  <2>1. e - Len(a) + i \in 1 .. e
    BY <1>1, <1>2, <1>4
  <2>2. a[i] = t[e - Len(a) + i]
    BY <1>1, <1>2
  <2>. QED
    BY <1>1, <2>1, <2>2
<1>. QED
  BY <1>1, <1>2, <1>3, <1>4, <1>5

LEMMA LaunchStep ==
    ASSUME RelayInv, ModInv, Launch
    PROVE  ModInv'
<1>. DEFINE c == Cells(inbox)
            ends == {n \in DOMAIN c : EndsLine(c[n])}
            stop == CHOOSE n \in ends \cup {0} : \A m \in ends : m <= n
<1>m. ModType /\ Position /\ Once
  BY DEF ModInv
<1>u. /\ launches < MaxLaunches /\ launches' = launches + 1
      /\ pos' = stop /\ anchor' = LastCells(SubSeq(c, 1, stop))
      /\ poll' = "idle" /\ buffer' = <<>> /\ blocked' = FALSE
      /\ serial' = 0 /\ review' = NotLanded
      /\ handled' = <<>> /\ read' = <<>> /\ first' = Len(lines)
      /\ next' = rotations /\ skipped' = FALSE
      /\ inbox' = inbox /\ rotated' = rotated /\ rotations' = rotations
      /\ lines' = lines /\ carries' = carries
  BY DEF Launch, relaySide, Cells
<1>c. c \in Contents /\ ends = Ends(c) /\ Len(c) \in Nat /\ DOMAIN c = 1 .. Len(c)
      /\ ends \subseteq 1 .. Len(c)
  BY CellsFact, CellFact DEF RelayInv, RelayType, Ends
<1>f. /\ Ended(c) \subseteq Nat /\ Ended(c) \subseteq Lined /\ Lined \subseteq Nat
      /\ rotations \in Nat /\ Len(lines) \in Nat /\ DOMAIN lines = 1 .. Len(lines)
      /\ \A k \in DOMAIN lines : lines[k] \in Lined /\ lines[k] \in Nat
      /\ \A j, k \in DOMAIN lines : j < k => lines[j] < lines[k]
  BY ModFiles
<1>l. Lined' = Lined /\ Index' = Len(lines)
  BY <1>f, <1>u DEF Lined, Index
<1>s. stop \in ends \cup {0} /\ \A m \in ends : m <= stop
  <2>1. \E n \in ends \cup {0} : \A m \in ends : m <= n
    <3>1. CASE ends = {}
      BY <3>1
    <3>2. CASE ends # {}
      <4>1. ends \in SUBSET (0 .. Len(c))
        BY <1>c
      <4>. HIDE DEF ends, c
      <4>2. \A y \in ends : y <= Max(ends)
        BY <1>c, <3>2, <4>1, MaxFact
      <4>3. Max(ends) \in ends
        BY <1>c, <3>2, <4>1, MaxFact
      <4>. QED
        BY <4>2, <4>3
    <3>. QED
      BY <3>1, <3>2
  <2>. HIDE DEF ends
  <2>. QED
    BY <2>1
<1>. HIDE DEF c, stop
<1>p. stop \in Nat /\ stop <= Len(c)
  BY <1>c, <1>s
<1>a. /\ anchor' \in Contents /\ Len(anchor') <= AnchorCells /\ Len(anchor') <= stop
      /\ Len(anchor') \in Nat
      /\ stop > 0 => Len(anchor') >= 1
      /\ \A i \in 1 .. Len(anchor') : anchor'[i] = c[stop - Len(anchor') + i]
  <2>1. c \in Contents /\ stop \in Nat /\ stop <= Len(c)
    BY <1>c, <1>p
  <2>2. anchor' = LastCells(SubSeq(c, 1, stop))
    BY <1>u
  <2>. HIDE DEF c
  <2>. QED
    BY <2>1, <2>2, StartAnchor
<1>1. ModType'
  <2>1. review' \in Review
    <3>1. NoMark \in Nat \cup {NoMark} /\ 0 \in Int /\ {} \in SUBSET Appends
      OBVIOUS
    <3>. QED
      BY <1>u, <3>1 DEF Review, NotLanded
  <2>2. launches + 1 \in 0 .. MaxLaunches
    BY <1>m, <1>u, LimitsAssumption DEF ModType
  <2>3. <<>> \in Contents /\ <<>> \in Seq(Appends)
    BY NoneEnds, EmptySeq
  <2>. QED
    BY <1>a, <1>f, <1>p, <1>u, <2>1, <2>2, <2>3 DEF ModType
<1>2. Once' /\ Turned'
  <2>1. \A k \in DOMAIN <<>> : FALSE
    BY NoneEnds, CellFact
  <2>. QED
    BY <1>u, <2>1 DEF Once, Turned
<1>3. Buffered'
  BY <1>u, EmptyBuffer
<1>4. Position'
  <2>1. \A k \in DOMAIN <<>> : FALSE
    BY NoneEnds, CellFact
  <2>2. ~ (rotations < rotations) /\ ~ (rotations < rotations - 1) /\ rotations # rotations - 1
        /\ rotations <= rotations /\ Len(lines) <= Len(lines)
    BY <1>f
  <2>3. ASSUME stop = 0
        PROVE  /\ anchor' = <<>>
               /\ Ended(c) = {lines[k] : k \in Len(lines) + 1 .. Len(lines)}
    <3>1. anchor' = <<>>
      <4>1. Len(anchor') = 0
        BY <1>a, <2>3
      <4>. QED
        BY <1>a, <4>1, CellFact
    <3>2. \A n \in Ends(c) : FALSE
      BY <1>c, <1>s, <2>3
    <3>3. Ended(c) = {}
      BY <3>2 DEF Ended
    <3>4. \A k \in Len(lines) + 1 .. Len(lines) : FALSE
      BY <1>f
    <3>. QED
      BY <3>1, <3>3, <3>4
  <2>4. ASSUME stop > 0
        PROVE  /\ Len(anchor') \in 1 .. stop /\ EndsLine(anchor'[Len(anchor')])
               /\ Passed' \in Lined
               /\ Len(lines) > 0 /\ Passed' = lines[Len(lines)]
               /\ Anchored(inbox)'
    <3>1. Len(anchor') \in 1 .. stop /\ Len(anchor') \in 1 .. Len(anchor')
      BY <1>a, <1>p, <2>4
    <3>2. stop \in Ends(c) /\ EndsLine(c[stop]) /\ c[stop][1] \in Ended(c)
      BY <1>c, <1>s, <2>4, EndsFact
    <3>3. anchor'[Len(anchor')] = c[stop]
      <4>1. stop - Len(anchor') + Len(anchor') = stop
        BY <1>a, <1>p
      <4>. QED
        BY <1>a, <3>1, <4>1
    <3>4. Passed' = c[stop][1]
      BY <3>3 DEF Passed
    <3>5. c[stop][1] \in Lined /\ c[stop][1] \in Nat
      BY <1>f, <3>2
    <3>6. \A x \in Lined : x <= c[stop][1]
      <4>1. ASSUME NEW x \in Lined, x > c[stop][1]
            PROVE  FALSE
        <5>1. x \in Ended(c)
          BY <3>2, <4>1 DEF RelayInv, Sections, c
        <5>. PICK n \in Ends(c) : x = c[n][1]
          BY <1>c, <5>1, EndsFact
        <5>2. n = stop \/ n < stop
          BY <1>c, <1>p, <1>s
        <5>3. n < stop => c[n][1] < c[stop][1]
          BY <3>2 DEF RelayInv, Sections, InOrder, c
        <5>. QED
          BY <1>f, <3>5, <4>1, <5>1, <5>2, <5>3
      <4>. QED
        BY <1>f, <3>5, <4>1
    <3>7. Len(lines) > 0 /\ c[stop][1] = lines[Len(lines)]
      <4>. PICK k \in DOMAIN lines : c[stop][1] = lines[k]
        BY <3>5 DEF Lined
      <4>1. k \in Nat /\ 1 <= k /\ k <= Len(lines) /\ Len(lines) \in DOMAIN lines
        BY <1>f
      <4>2. lines[Len(lines)] <= lines[k]
        BY <1>f, <3>6, <4>1
      <4>3. k < Len(lines) => lines[k] < lines[Len(lines)]
        BY <1>f, <4>1
      <4>4. ~ (k < Len(lines))
        BY <1>f, <4>1, <4>2, <4>3
      <4>5. k = Len(lines)
        BY <1>f, <4>1, <4>4
      <4>. QED
        BY <4>1, <4>5
    <3>8. Anchored(inbox)'
      <4>1. Cells(inbox) # <<>>
        BY <1>p, <2>4, NoneEnds DEF c
      <4>2. inbox # NoFile /\ c = inbox
        BY <4>1, CellsFact DEF c, RelayInv, RelayType
      <4>. QED
        BY <1>a, <1>p, <1>u, <4>2 DEF Anchored
    <3>. QED
      BY <3>1, <3>2, <3>3, <3>4, <3>5, <3>7, <3>8
  <2>5. Ended(Cells(inbox')) = Ended(c)
    BY <1>u DEF c
  <2>6. pos' = 0 =>
          /\ anchor' = <<>>
          /\ \A k \in DOMAIN read', y \in Ended(Cells(inbox')) : read'[k] < y
          /\ ~ skipped' /\ next' = rotations' =>
                Ended(Cells(inbox')) = {lines'[k] : k \in Index' + 1 .. Len(lines')}
    BY <1>l, <1>u, <2>1, <2>3, <2>5
  <2>7. pos' > 0 =>
          /\ Len(anchor') \in 1 .. pos' /\ EndsLine(anchor'[Len(anchor')])
          /\ Passed' \in Lined' /\ \A k \in DOMAIN read' : read'[k] <= Passed'
          /\ ~ skipped' => Index' > 0 /\ Passed' = lines'[Index']
          /\ Anchored(inbox)'
    BY <1>l, <1>u, <2>1, <2>4
  <2>8. /\ next' <= rotations' /\ (~ skipped' => Index' <= Len(lines'))
        /\ ~ (next' = rotations' - 1)
        /\ ~ (next' < rotations') /\ ~ (next' < rotations' - 1)
        /\ \A k \in DOMAIN read' : FALSE
    BY <1>l, <1>u, <2>1, <2>2
  <2>. QED
    BY <2>6, <2>7, <2>8 DEF Position
<1>. QED
  BY <1>1, <1>2, <1>3, <1>4 DEF ModInv

(* A file that holds a before the offset p; one that holds the anchor       *)
(* before it and the first e cells of the buffer behind it; and what such a *)
(* file holds before p + e.                                                 *)
Before(f, a, p) == \A i \in 1 .. Len(a) : f[p - Len(a) + i] = a[i]

Around(f, p, e) == Before(f, anchor, p) /\ \A i \in 1 .. e : f[p + i] = buffer[i]

Moves(b, e) ==
    \A f, p : p \in Nat /\ Len(anchor) <= p /\ Around(f, p, e) => Before(f, b, p + e)

LEMMA AnchorPlace ==
    ASSUME anchor \in Contents, buffer \in Contents, NEW e \in Nat, e >= 1, e <= Len(buffer),
           NEW s \in Contents, Len(s) = Len(anchor) + e,
           \A i \in 1 .. Len(anchor) : s[i] = anchor[i],
           \A i \in 1 .. e : s[Len(anchor) + i] = buffer[i],
           NEW b \in Contents, Len(b) >= 1, Len(b) <= Len(s),
           \A i \in 1 .. Len(b) : b[i] = s[Len(s) - Len(b) + i]
    PROVE  /\ b[Len(b)] = buffer[e]
           /\ Moves(b, e)
<1>0. Len(anchor) \in Nat /\ Len(b) \in Nat /\ Len(s) \in Nat
  BY CellFact
<1>1. b[Len(b)] = buffer[e]
  <2>1. Len(s) - Len(b) + Len(b) = Len(anchor) + e /\ Len(b) \in 1 .. Len(b) /\ e \in 1 .. e
    BY <1>0
  <2>2. b[Len(b)] = s[Len(anchor) + e]
    BY <2>1
  <2>. QED
    BY <2>1, <2>2
<1>2. ASSUME NEW f, NEW p, p \in Nat, Len(anchor) <= p, Around(f, p, e)
      PROVE  Before(f, b, p + e)
  <2>1. ASSUME NEW i \in 1 .. Len(b)
        PROVE  f[(p + e) - Len(b) + i] = b[i]
    <3>. PICK j : j = Len(s) - Len(b) + i
      OBVIOUS
    <3>1. /\ j \in Int /\ 1 <= j /\ j <= Len(anchor) + e
          /\ (p + e) - Len(b) + i = p - Len(anchor) + j
      BY <1>0, <1>2
    <3>2. b[i] = s[j]
      OBVIOUS
    <3>3. CASE j <= Len(anchor)
      <4>1. j \in 1 .. Len(anchor)
        BY <1>0, <3>1, <3>3
      <4>2. s[j] = anchor[j] /\ f[p - Len(anchor) + j] = anchor[j]
        BY <1>2, <4>1 DEF Around, Before
      <4>. QED
        BY <3>1, <3>2, <4>2
    <3>4. CASE j > Len(anchor)
      <4>. PICK h : h = j - Len(anchor)
        OBVIOUS
      <4>1. h \in 1 .. e /\ j = Len(anchor) + h /\ p - Len(anchor) + j = p + h
        BY <1>0, <1>2, <3>1, <3>4
      <4>2. s[j] = buffer[h] /\ f[p + h] = buffer[h]
        BY <1>2, <4>1 DEF Around
      <4>. QED
        BY <3>1, <3>2, <4>1, <4>2
    <3>. QED
      BY <1>0, <3>1, <3>3, <3>4
  <2>. QED
    BY <2>1, Zenon DEF Before
<1>3. Moves(b, e)
  BY <1>2, Zenon DEF Moves
<1>. QED
  BY <1>1, <1>3

LEMMA NextAnchor ==
    ASSUME anchor \in Contents, buffer \in Contents, NEW e \in Nat, e >= 1, e <= Len(buffer)
    PROVE  \E b \in Contents :
              /\ b = LastCells(anchor \o SubSeq(buffer, 1, e))
              /\ Len(b) <= AnchorCells /\ Len(b) <= Len(anchor) + e
              /\ Len(b) \in Nat /\ Len(b) >= 1 /\ b[Len(b)] = buffer[e]
              /\ Moves(b, e)
<1>0. Len(anchor) \in Nat /\ Len(buffer) \in Nat
  BY CellFact
<1>1. /\ SubSeq(buffer, 1, e) \in Contents /\ Len(SubSeq(buffer, 1, e)) = e
      /\ \A i \in 1 .. e : SubSeq(buffer, 1, e)[i] = buffer[i]
  BY FirstPart
<1>2. \E t \in Contents : t = SubSeq(buffer, 1, e) /\ Len(t) = e /\ \A i \in 1 .. e : t[i] = buffer[i]
  BY <1>1
<1>. PICK t \in Contents : t = SubSeq(buffer, 1, e) /\ Len(t) = e /\ \A i \in 1 .. e : t[i] = buffer[i]
  BY <1>2
<1>3. /\ anchor \o t \in Contents /\ Len(anchor \o t) = Len(anchor) + Len(t)
      /\ \A i \in 1 .. Len(anchor) : (anchor \o t)[i] = anchor[i]
      /\ \A i \in 1 .. Len(t) : (anchor \o t)[Len(anchor) + i] = t[i]
  BY AddMany
<1>4. /\ LastCells(anchor \o t) \in Contents
      /\ Len(LastCells(anchor \o t)) <= AnchorCells
      /\ Len(LastCells(anchor \o t)) <= Len(anchor \o t)
      /\ anchor \o t # <<>> => Len(LastCells(anchor \o t)) >= 1
      /\ \A i \in 1 .. Len(LastCells(anchor \o t)) :
            LastCells(anchor \o t)[i] = (anchor \o t)[Len(anchor \o t) - Len(LastCells(anchor \o t)) + i]
  BY <1>3, LastCellsFact
<1>5. anchor \o t # <<>>
  BY <1>0, <1>3, NoneEnds
<1>6. \E s, b \in Contents :
         /\ b = LastCells(anchor \o SubSeq(buffer, 1, e))
         /\ Len(s) = Len(anchor) + e
         /\ \A i \in 1 .. Len(anchor) : s[i] = anchor[i]
         /\ \A i \in 1 .. e : s[Len(anchor) + i] = buffer[i]
         /\ Len(b) >= 1 /\ Len(b) <= Len(s) /\ Len(b) <= AnchorCells
         /\ \A i \in 1 .. Len(b) : b[i] = s[Len(s) - Len(b) + i]
  <2>1. \A i \in 1 .. e : (anchor \o t)[Len(anchor) + i] = buffer[i]
    BY <1>3
  <2>2. LastCells(anchor \o t) = LastCells(anchor \o SubSeq(buffer, 1, e))
    OBVIOUS
  <2>3. anchor \o t \in Contents /\ Len(anchor \o t) = Len(anchor) + e
        /\ \A i \in 1 .. Len(anchor) : (anchor \o t)[i] = anchor[i]
    BY <1>3
  <2>. HIDE DEF LastCells
  <2>. QED
    BY <1>4, <1>5, <2>1, <2>2, <2>3, Zenon
<1>p. ASSUME NEW s \in Contents, NEW b \in Contents,
             Len(s) = Len(anchor) + e, Len(b) >= 1, Len(b) <= Len(s),
             \A i \in 1 .. Len(anchor) : s[i] = anchor[i],
             \A i \in 1 .. e : s[Len(anchor) + i] = buffer[i],
             \A i \in 1 .. Len(b) : b[i] = s[Len(s) - Len(b) + i]
      PROVE  /\ b[Len(b)] = buffer[e]
             /\ Moves(b, e)
  BY <1>p, AnchorPlace, Zenon
<1>. PICK s \in Contents, b \in Contents :
         /\ b = LastCells(anchor \o SubSeq(buffer, 1, e))
         /\ Len(s) = Len(anchor) + e
         /\ \A i \in 1 .. Len(anchor) : s[i] = anchor[i]
         /\ \A i \in 1 .. e : s[Len(anchor) + i] = buffer[i]
         /\ Len(b) >= 1 /\ Len(b) <= Len(s) /\ Len(b) <= AnchorCells
         /\ \A i \in 1 .. Len(b) : b[i] = s[Len(s) - Len(b) + i]
  BY <1>6, Zenon
<1>7. /\ b[Len(b)] = buffer[e]
      /\ Moves(b, e)
  BY <1>p, Zenon
<1>8. Len(b) \in Nat /\ Len(b) <= Len(anchor) + e
  BY CellFact
<1>. QED
  BY <1>7, <1>8, Zenon

(* What is left of the buffer behind the line.                              *)
LEMMA RestOfBuffer ==
    ASSUME buffer \in Contents, InOrder(buffer), NEW e \in Nat, e <= Len(buffer)
    PROVE  \A g : g = SubSeq(buffer, e + 1, Len(buffer)) =>
              /\ g \in Contents
              /\ Len(g) = Len(buffer) - e /\ \A i \in 1 .. Len(g) : g[i] = buffer[e + i]
              /\ \A n \in Ends(g) : e + n \in Ends(buffer) /\ g[n] = buffer[e + n]
              /\ \A n \in Ends(buffer) : n > e => n - e \in Ends(g) /\ g[n - e] = buffer[n]
              /\ Ended(g) \subseteq Ended(buffer) /\ InOrder(g)
<1>0. Len(buffer) \in Nat /\ Len(buffer) <= Len(buffer)
  BY CellFact
<1>1. ASSUME NEW g \in Contents, Len(g) = Len(buffer) - e,
             \A i \in 1 .. Len(g) : g[i] = buffer[e + i]
      PROVE  /\ \A n \in Ends(g) : e + n \in Ends(buffer) /\ g[n] = buffer[e + n]
             /\ \A n \in Ends(buffer) : n > e => n - e \in Ends(g) /\ g[n - e] = buffer[n]
             /\ Ended(g) \subseteq Ended(buffer) /\ InOrder(g)
  <2>1. Behind(g, buffer, e)
    BY <1>0, <1>1 DEF Behind
  <2>. QED
    BY <2>1, RestFact
<1>2. /\ SubSeq(buffer, e + 1, Len(buffer)) \in Contents
      /\ Len(SubSeq(buffer, e + 1, Len(buffer))) = IF e <= Len(buffer) THEN Len(buffer) - e ELSE 0
      /\ \A i \in 1 .. Len(buffer) - e : SubSeq(buffer, e + 1, Len(buffer))[i] = buffer[e + i]
  BY <1>0, PartFact
<1>3. /\ Len(SubSeq(buffer, e + 1, Len(buffer))) = Len(buffer) - e
      /\ \A i \in 1 .. Len(SubSeq(buffer, e + 1, Len(buffer))) :
            SubSeq(buffer, e + 1, Len(buffer))[i] = buffer[e + i]
  BY <1>0, <1>2
<1>4. SubSeq(buffer, e + 1, Len(buffer)) \in Contents
  BY <1>2
<1>5. \A g \in Contents :
         Len(g) = Len(buffer) - e /\ (\A i \in 1 .. Len(g) : g[i] = buffer[e + i]) =>
            /\ \A n \in Ends(g) : e + n \in Ends(buffer) /\ g[n] = buffer[e + n]
            /\ \A n \in Ends(buffer) : n > e => n - e \in Ends(g) /\ g[n - e] = buffer[n]
            /\ Ended(g) \subseteq Ended(buffer) /\ InOrder(g)
  BY <1>1
<1>. HIDE DEF InOrder, Ended, Ends
<1>. QED
  BY <1>3, <1>4, <1>5, Zenon

(* A line is consumed.                                                      *)
LEMMA ConsumeStep ==
    ASSUME RelayInv, ModInv, ConsumeLine
    PROVE  ModInv'
<1>. PICK e, a : e = LineEnd /\ a = buffer[LineEnd][1]
  OBVIOUS
<1>m. ModType /\ Position /\ Buffered /\ Turned /\ Once
  BY DEF ModInv
<1>u. /\ first' = first /\ next' = next /\ skipped' = skipped /\ inbox' = inbox
      /\ rotated' = rotated /\ rotations' = rotations /\ lines' = lines /\ carries' = carries
      /\ poll' = poll /\ review' = review /\ launches' = launches
      /\ blocked' \in BOOLEAN /\ read' = Append(read, a)
      /\ pos' = pos + e /\ serial' = serial + e
      /\ anchor' = LastCells(anchor \o SubSeq(buffer, 1, e))
      /\ buffer' = SubSeq(buffer, e + 1, Len(buffer)) /\ LineEnds # {}
      /\ \/ handled' = Append(handled, carries[a]) /\ Opens(carries[a])
         \/ handled' = handled
      /\ poll \in {"current", "draining"}
  BY DEF ConsumeLine, relaySide
<1>n. /\ next \in Nat /\ rotations \in Nat /\ pos \in Nat /\ Index \in Nat /\ first \in Nat
      /\ Len(read) \in Nat /\ DOMAIN read = 1 .. Len(read)
      /\ Len(anchor) \in Nat /\ Len(anchor) <= pos
      /\ Len(buffer) \in Nat /\ DOMAIN buffer = 1 .. Len(buffer)
      /\ buffer \in Contents /\ anchor \in Contents
      /\ \A k \in DOMAIN read : read[k] \in Nat
  BY <1>m, ModBasics, ModFiles DEF ModType
<1>l. Lined' = Lined
  BY <1>u DEF Lined
<1>f. /\ Ended(Cells(inbox)) \subseteq Nat /\ Ended(Cells(rotated)) \subseteq Nat /\ Lined \subseteq Nat
      /\ Len(lines) \in Nat /\ DOMAIN lines = 1 .. Len(lines)
      /\ \A k \in DOMAIN lines : lines[k] \in Lined /\ lines[k] \in Nat
      /\ \A j, k \in DOMAIN lines : j < k => lines[j] < lines[k]
  BY ModFiles
<1>e. /\ e \in 1 .. Len(buffer) /\ EndsLine(buffer[e]) /\ \A n \in Ends(buffer) : e <= n
  BY <1>n, <1>u, FirstEnd
<1>a. e \in Ends(buffer) /\ a \in Ended(buffer) /\ a \in Lined /\ a \in Appends /\ a \in Nat
      /\ a <= Len(carries) /\ e \in Nat /\ e >= 1
  <2>1. e \in Ends(buffer) /\ a \in Ended(buffer)
    BY <1>e, <1>n, EndsFact
  <2>2. e \in Nat /\ e >= 1 /\ e \in DOMAIN buffer
    BY <1>e, <1>n
  <2>3. a \in Appends /\ a \in Nat
    BY <1>n, <2>2, CellFact
  <2>. QED
    BY <1>m, <2>1, <2>2, <2>3 DEF Buffered
<1>y. /\ \A k \in DOMAIN read : read[k] < a
      /\ ~ skipped => \A k \in DOMAIN lines :
                         /\ k <= Index => lines[k] < a
                         /\ k > Index /\ lines[k] < a => lines[k] \in Ended(buffer)
      /\ next < rotations => \A z \in Ended(Cells(inbox)) : a < z
      /\ next < rotations - 1 => \A z \in Ended(Cells(rotated)) : a < z
  BY <1>a, <1>m DEF Buffered
<1>v. \A y \in Ended(buffer) : a <= y
  <2>1. ASSUME NEW n \in Ends(buffer)
        PROVE  a <= buffer[n][1]
    <3>1. n \in Nat /\ buffer[n][1] \in Nat /\ (n = e \/ e < n)
      <4>1. n \in Nat /\ n \in DOMAIN buffer /\ e <= n
        BY <1>e, <1>n, EndsFact
      <4>. QED
        BY <1>a, <1>n, <4>1, CellFact
    <3>2. n = e => buffer[n][1] = a
      OBVIOUS
    <3>3. e < n => a < buffer[n][1]
      BY <1>a, <1>m DEF Buffered, InOrder
    <3>. QED
      BY <1>a, <3>1, <3>2, <3>3
  <2>. QED
    BY <1>n, <2>1, EndsFact
<1>g. /\ buffer' \in Contents /\ Len(buffer') = Len(buffer) - e
      /\ (\A i \in 1 .. Len(buffer') : buffer'[i] = buffer[e + i])
      /\ DOMAIN buffer' = 1 .. Len(buffer')
      /\ \A n \in Ends(buffer') : e + n \in Ends(buffer) /\ buffer'[n] = buffer[e + n]
      /\ \A n \in Ends(buffer) : n > e => n - e \in Ends(buffer') /\ buffer'[n - e] = buffer[n]
      /\ Ended(buffer') \subseteq Ended(buffer) /\ InOrder(buffer')
  <2>1. e \in Nat /\ e <= Len(buffer) /\ buffer \in Contents /\ InOrder(buffer)
    BY <1>e, <1>m, <1>n DEF Buffered
  <2>. DEFINE g == SubSeq(buffer, e + 1, Len(buffer))
  <2>2. buffer' = g
    BY <1>u
  <2>3. /\ g \in Contents
        /\ Len(g) = Len(buffer) - e /\ \A i \in 1 .. Len(g) : g[i] = buffer[e + i]
        /\ \A n \in Ends(g) : e + n \in Ends(buffer) /\ g[n] = buffer[e + n]
        /\ \A n \in Ends(buffer) : n > e => n - e \in Ends(g) /\ g[n - e] = buffer[n]
        /\ Ended(g) \subseteq Ended(buffer) /\ InOrder(g)
    BY <2>1, RestOfBuffer, Zenon
  <2>. HIDE DEF g
  <2>4. /\ buffer' \in Contents /\ Len(buffer') = Len(buffer) - e
        /\ (\A i \in 1 .. Len(buffer') : buffer'[i] = buffer[e + i])
        /\ \A n \in Ends(buffer') : e + n \in Ends(buffer) /\ buffer'[n] = buffer[e + n]
        /\ \A n \in Ends(buffer) : n > e => n - e \in Ends(buffer') /\ buffer'[n - e] = buffer[n]
        /\ Ended(buffer') \subseteq Ended(buffer) /\ InOrder(buffer')
    BY <2>2, <2>3
  <2>5. DOMAIN buffer' = 1 .. Len(buffer')
    BY <2>4, CellFact
  <2>. QED
    BY <2>4, <2>5, Zenon
<1>b. \A y \in Ended(buffer') : y \in Nat /\ a < y
  <2>1. ASSUME NEW n \in Ends(buffer')
        PROVE  buffer'[n][1] \in Nat /\ a < buffer'[n][1]
    <3>1. e + n \in Ends(buffer) /\ buffer'[n] = buffer[e + n] /\ n \in Nat /\ n >= 1
          /\ buffer'[n][1] \in Nat
      BY <1>g, EndsFact, CellFact
    <3>2. e < e + n
      BY <1>a, <3>1
    <3>. QED
      BY <1>a, <1>m, <3>1, <3>2 DEF Buffered, InOrder
  <2>. QED
    BY <1>g, <2>1, EndsFact
<1>d. \A y \in Ended(buffer) : y # a => y \in Ended(buffer')
  <2>1. ASSUME NEW n \in Ends(buffer), buffer[n][1] # a
        PROVE  buffer[n][1] \in Ended(buffer')
    <3>1. n > e
      <4>1. n \in Nat /\ e <= n /\ n # e
        BY <1>e, <1>n, <2>1, EndsFact
      <4>. QED
        BY <1>a, <4>1
    <3>2. n - e \in Ends(buffer') /\ buffer'[n - e] = buffer[n]
      BY <1>g, <3>1
    <3>. QED
      BY <1>g, <3>2, EndsFact
  <2>2. \A y \in Ended(buffer) : \E n \in Ends(buffer) : y = buffer[n][1]
    BY <1>n, EndsFact
  <2>. QED
    BY <2>1, <2>2
<1>s. /\ anchor' \in Contents /\ Len(anchor') <= AnchorCells /\ Len(anchor') <= Len(anchor) + e
      /\ Len(anchor') \in Nat /\ Len(anchor') >= 1 /\ anchor'[Len(anchor')] = buffer[e]
      /\ Moves(anchor', e)
  <2>1. anchor \in Contents /\ buffer \in Contents /\ e \in Nat /\ e >= 1 /\ e <= Len(buffer)
    BY <1>a, <1>e, <1>n
  <2>2. anchor' = LastCells(anchor \o SubSeq(buffer, 1, e))
    BY <1>u
  <2>3. \E b \in Contents :
           /\ b = LastCells(anchor \o SubSeq(buffer, 1, e))
           /\ Len(b) <= AnchorCells /\ Len(b) <= Len(anchor) + e
           /\ Len(b) \in Nat /\ Len(b) >= 1 /\ b[Len(b)] = buffer[e]
           /\ Moves(b, e)
    BY <2>1, NextAnchor, Zenon
  <2>. QED
    BY <2>2, <2>3
<1>p. Passed' = a /\ EndsLine(anchor'[Len(anchor')]) /\ pos' > 0 /\ pos' \in Nat
      /\ Len(anchor') \in 1 .. pos' /\ ~ (pos' = 0)
  <2>1. Passed' = buffer[e][1]
    BY <1>s DEF Passed
  <2>2. pos' = pos + e /\ pos + e > 0 /\ pos + e \in Nat /\ Len(anchor') <= pos + e
    BY <1>a, <1>n, <1>s, <1>u
  <2>. QED
    BY <1>e, <1>s, <2>1, <2>2
<1>w. ASSUME NEW f \in Contents \cup {NoFile}, Copies(f), pos > 0 => Anchored(f)
      PROVE  /\ f # NoFile /\ pos' <= Len(f)
             /\ \A i \in 1 .. Len(anchor') : f[pos' - Len(anchor') + i] = anchor'[i]
             /\ \A n \in Ends(buffer') :
                   /\ pos' + n <= Len(f)
                   /\ \A i \in 1 .. n : f[pos' + i] = buffer'[i]
  <2>1. f # NoFile /\ pos + e <= Len(f) /\ \A i \in 1 .. e : f[pos + i] = buffer[i]
    BY <1>a, <1>w DEF Copies
  <2>2. \A i \in 1 .. Len(anchor) : f[pos - Len(anchor) + i] = anchor[i]
    <3>1. CASE pos > 0
      BY <1>w, <3>1 DEF Anchored
    <3>2. CASE pos = 0
      <4>1. \A i \in 1 .. Len(anchor) : FALSE
        BY <1>n, <3>2
      <4>. QED
        BY <4>1
    <3>. QED
      BY <1>n, <3>1, <3>2
  <2>3. Before(f, anchor', pos + e)
    <3>1. pos \in Nat /\ Len(anchor) <= pos
      BY <1>n
    <3>2. Around(f, pos, e)
      BY <2>1, <2>2, Zenon DEF Around, Before
    <3>. QED
      BY <1>s, <3>1, <3>2, Zenon DEF Moves
  <2>4. ASSUME NEW n \in Ends(buffer')
        PROVE  /\ pos + e + n <= Len(f)
               /\ \A i \in 1 .. n : f[pos + e + i] = buffer'[i]
    <3>1. e + n \in Ends(buffer) /\ n \in 1 .. Len(buffer') /\ n \in Nat
      BY <1>g, EndsFact
    <3>2. pos + (e + n) <= Len(f) /\ \A i \in 1 .. e + n : f[pos + i] = buffer[i]
      BY <1>w, <3>1 DEF Copies
    <3>3. ASSUME NEW i \in 1 .. n
          PROVE  f[pos + e + i] = buffer'[i]
      <4>1. e + i \in 1 .. e + n /\ pos + (e + i) = pos + e + i
        BY <1>a, <1>n, <3>1
      <4>2. i \in 1 .. Len(buffer')
        <5>1. Len(buffer') \in Nat
          BY <1>g, CellFact
        <5>. QED
          BY <3>1, <5>1
      <4>3. buffer'[i] = buffer[e + i]
        BY <1>g, <4>2
      <4>. QED
        BY <3>2, <4>1, <4>3
    <3>4. pos + (e + n) = pos + e + n
      BY <1>a, <1>n, <3>1
    <3>. QED
      BY <3>2, <3>3, <3>4
  <2>5. pos' = pos + e
    BY <1>u
  <2>6. pos' <= Len(f)
    BY <2>1, <2>5
  <2>8. \A i \in 1 .. Len(anchor') : f[pos' - Len(anchor') + i] = anchor'[i]
    <3>1. Before(f, anchor', pos')
      BY <2>3, <2>5
    <3>. QED
      BY <3>1, Zenon DEF Before
  <2>7. \A n \in Ends(buffer') :
           /\ pos' + n <= Len(f)
           /\ \A i \in 1 .. n : f[pos' + i] = buffer'[i]
    BY <2>4, <2>5
  <2>. QED
    BY <2>1, <2>6, <2>7, <2>8, Zenon
<1>r. /\ Len(read') = Len(read) + 1 /\ read'[Len(read) + 1] = a /\ read' \in Seq(Appends)
      /\ DOMAIN read' = 1 .. Len(read) + 1 /\ Index' = Index + 1
      /\ \A k \in 1 .. Len(read) : read'[k] = read[k]
  <2>1. /\ read' \in Seq(Appends) /\ Len(read') = Len(read) + 1 /\ read'[Len(read) + 1] = a
        /\ \A k \in 1 .. Len(read) : read'[k] = read[k]
    BY <1>a, <1>m, <1>u, AppendProperties DEF ModType
  <2>2. DOMAIN read' = 1 .. Len(read) + 1
    BY <2>1, LenProperties
  <2>3. Index' = Index + 1
    <3>1. Index' = first + (Len(read) + 1)
      BY <1>u, <2>1 DEF Index
    <3>. QED
      BY <1>n, <3>1 DEF Index
  <2>. QED
    BY <2>1, <2>2, <2>3
<1>i. ASSUME ~ skipped
      PROVE  Index + 1 \in DOMAIN lines /\ lines[Index + 1] = a
  <2>. PICK j \in DOMAIN lines : a = lines[j]
    BY <1>a DEF Lined
  <2>1. j \in Nat /\ j <= Len(lines) /\ j > Index
    <3>1. j <= Index => a < a
      BY <1>i, <1>y
    <3>2. ~ (a < a)
      BY <1>a
    <3>3. j \in Nat /\ j <= Len(lines)
      BY <1>f
    <3>. QED
      BY <1>n, <3>1, <3>2, <3>3
  <2>2. Index + 1 \in DOMAIN lines
    BY <1>f, <1>n, <2>1
  <2>3. ASSUME j # Index + 1
        PROVE  FALSE
    <3>1. Index + 1 < j /\ Index + 1 > Index
      BY <1>n, <2>1, <2>3
    <3>2. lines[Index + 1] < a
      BY <1>f, <2>2, <3>1
    <3>3. lines[Index + 1] \in Ended(buffer)
      BY <1>i, <1>y, <2>2, <3>1, <3>2
    <3>4. a <= lines[Index + 1]
      BY <1>v, <3>3
    <3>5. lines[Index + 1] \in Nat
      BY <1>f, <2>2
    <3>. QED
      BY <1>a, <3>2, <3>4, <3>5
  <2>. QED
    BY <2>2, <2>3
<1>h. /\ inbox \in Contents \cup {NoFile} /\ rotated \in Contents \cup {NoFile}
      /\ next = rotations => Copies(inbox) /\ (pos > 0 => Anchored(inbox))
      /\ next = rotations - 1 => Copies(rotated) /\ (pos > 0 => Anchored(rotated))
  BY <1>m DEF RelayInv, RelayType, Buffered, Position
<1>1. ModType'
  <2>1. handled' \in Seq(Appends)
    <3>1. carries[a] \in Appends
      BY <1>a, CarriesFact DEF RelayInv, Appends
    <3>2. handled \in Seq(Appends)
      BY <1>m DEF ModType
    <3>3. Append(handled, carries[a]) \in Seq(Appends)
      BY <3>1, <3>2, AppendProperties
    <3>4. handled' = Append(handled, carries[a]) \/ handled' = handled
      BY <1>u
    <3>. QED
      BY <3>2, <3>3, <3>4, Zenon
  <2>2. serial + e \in Nat
    BY <1>a, <1>m DEF ModType
  <2>3. pos' \in Nat /\ anchor' \in Contents /\ Len(anchor') <= AnchorCells
        /\ buffer' \in Contents /\ read' \in Seq(Appends)
    BY <1>p, <1>s, <1>g, <1>r
  <2>4. serial' \in Nat
    BY <1>u, <2>2
  <2>. QED
    BY <1>m, <1>u, <2>1, <2>3, <2>4 DEF ModType
<1>2. Once'
  <2>1. CASE handled' = handled
    BY <1>m, <2>1 DEF Once
  <2>2. CASE handled' = Append(handled, carries[a]) /\ Opens(carries[a])
    <3>1. carries[a] \in Appends
      BY <1>a, CarriesFact DEF RelayInv, Appends
    <3>2. /\ handled' \in Seq(Appends) /\ Len(handled') = Len(handled) + 1
          /\ handled'[Len(handled) + 1] = carries[a]
          /\ \A k \in 1 .. Len(handled) : handled'[k] = handled[k]
          /\ Len(handled) \in Nat /\ DOMAIN handled = 1 .. Len(handled)
      BY <1>m, <2>2, <3>1, AppendProperties, LenProperties DEF ModType
    <3>3. DOMAIN handled' = 1 .. Len(handled) + 1
      BY <3>2, LenProperties
    <3>4. \A k \in 1 .. Len(handled) : handled[k] # carries[a]
      BY <2>2, <3>2 DEF Opens
    <3>5. \A j, k \in 1 .. Len(handled) : j # k => handled[j] # handled[k]
      BY <1>m, <3>2 DEF Once
    <3>6. \A k \in 1 .. Len(handled) + 1 : k \in 1 .. Len(handled) \/ k = Len(handled) + 1
      BY <3>2
    <3>. QED
      BY <3>2, <3>3, <3>4, <3>5, <3>6 DEF Once
  <2>. QED
    BY <1>u, <2>1, <2>2
<1>3. Turned'
  <2>1. poll' = poll /\ next' = next /\ rotations' = rotations /\ rotated' = rotated /\ pos' = pos + e
    BY <1>u
  <2>2. poll \notin {"rotated", "start"}
    BY <1>u
  <2>3. ASSUME poll = "draining", next = rotations - 1
        PROVE  /\ Len(buffer') = Len(rotated) - (pos + e)
               /\ \A i \in DOMAIN buffer' : rotated[pos + e + i] = buffer'[i]
    <3>1. Len(buffer) = Len(rotated) - pos /\ \A i \in DOMAIN buffer : rotated[pos + i] = buffer[i]
      BY <1>m, <2>3 DEF Turned
    <3>2. Len(rotated) \in Nat
      <4>1. rotated \in Contents
        BY <1>a, <1>h, <2>3 DEF Copies
      <4>. QED
        BY <4>1, CellFact
    <3>3. Len(buffer') = Len(rotated) - (pos + e)
      BY <1>a, <1>g, <1>n, <3>1, <3>2
    <3>4. ASSUME NEW i \in DOMAIN buffer'
          PROVE  rotated[pos + e + i] = buffer'[i]
      <4>1. i \in 1 .. Len(buffer') /\ i \in Nat /\ Len(buffer') = Len(buffer) - e
        BY <1>g
      <4>2. e + i \in 1 .. Len(buffer) /\ pos + (e + i) = pos + e + i
        BY <1>a, <1>n, <4>1
      <4>3. buffer'[i] = buffer[e + i]
        BY <1>g, <4>1
      <4>. QED
        BY <1>n, <3>1, <4>2, <4>3
    <3>. QED
      BY <3>3, <3>4
  <2>4. poll = "draining" => next < rotations
    BY <1>m DEF Turned
  <2>. QED
    BY <1>p, <2>1, <2>2, <2>3, <2>4 DEF Turned
<1>4. Position'
  <2>1. next <= rotations /\ \A k \in DOMAIN read' : read'[k] \in Lined /\ read'[k] <= a
    <3>1. \A k \in DOMAIN read : read[k] \in Lined
      BY <1>m DEF Position
    <3>2. \A k \in 1 .. Len(read) + 1 : k \in 1 .. Len(read) \/ k = Len(read) + 1
      BY <1>n
    <3>3. \A k \in 1 .. Len(read) : read[k] <= a
      BY <1>a, <1>n, <1>y
    <3>4. a <= a
      BY <1>a
    <3>. QED
      BY <1>a, <1>m, <1>n, <1>r, <3>1, <3>2, <3>3, <3>4 DEF Position
  <2>2. \A j, k \in DOMAIN read' : j < k => read'[j] < read'[k]
    <3>1. ASSUME NEW j \in 1 .. Len(read) + 1, NEW k \in 1 .. Len(read) + 1, j < k
          PROVE  read'[j] < read'[k]
      <4>1. j \in 1 .. Len(read) /\ (k \in 1 .. Len(read) \/ k = Len(read) + 1)
        BY <1>n, <3>1
      <4>2. CASE k \in 1 .. Len(read)
        BY <1>m, <1>n, <1>r, <3>1, <4>1, <4>2 DEF Position
      <4>3. CASE k = Len(read) + 1
        BY <1>n, <1>r, <1>y, <4>1, <4>3
      <4>. QED
        BY <4>1, <4>2, <4>3
    <3>. QED
      BY <1>r, <3>1
  <2>3. ~ skipped => \A k \in DOMAIN read' : read'[k] = lines[first + k]
    <3>1. ASSUME ~ skipped, NEW k \in 1 .. Len(read) + 1
          PROVE  read'[k] = lines[first + k]
      <4>1. CASE k \in 1 .. Len(read)
        BY <1>m, <1>n, <1>r, <3>1, <4>1 DEF Position
      <4>2. CASE k = Len(read) + 1
        <5>1. first + k = Index + 1
          BY <1>n, <4>2 DEF Index
        <5>. QED
          BY <1>i, <1>r, <3>1, <4>2, <5>1
      <4>. QED
        BY <1>n, <4>1, <4>2
    <3>. QED
      BY <1>r, <3>1
  <2>4. ~ skipped => Index + 1 <= Len(lines) /\ Index + 1 > 0 /\ a = lines[Index + 1]
    BY <1>f, <1>i, <1>n
  <2>5. (next = rotations => Anchored(inbox)') /\ (next = rotations - 1 => Anchored(rotated)')
    <3>1. ASSUME next = rotations
          PROVE  Anchored(inbox)'
      BY <1>h, <1>u, <1>w, <3>1 DEF Anchored
    <3>2. ASSUME next = rotations - 1
          PROVE  Anchored(rotated)'
      BY SMTT(30), <1>h, <1>u, <1>w, <3>2 DEF Anchored
    <3>. QED
      BY <3>1, <3>2
  <2>6. /\ next' <= rotations' /\ (~ skipped' => Index' <= Len(lines'))
        /\ \A j, k \in DOMAIN read' : j < k => read'[j] < read'[k]
        /\ \A k \in DOMAIN read' : read'[k] \in Lined'
        /\ ~ skipped' => \A k \in DOMAIN read' : read'[k] = lines'[first' + k]
    BY <1>l, <1>r, <1>u, <2>1, <2>2, <2>3, <2>4
  <2>7. /\ Len(anchor') \in 1 .. pos' /\ EndsLine(anchor'[Len(anchor')])
        /\ Passed' \in Lined' /\ \A k \in DOMAIN read' : read'[k] <= Passed'
        /\ ~ skipped' => Index' > 0 /\ Passed' = lines'[Index']
    BY <1>a, <1>l, <1>p, <1>r, <1>u, <2>1, <2>4
  <2>8. /\ next' < rotations' => \A y \in Ended(Cells(inbox')) : Passed' < y
        /\ next' < rotations' - 1 => \A y \in Ended(Cells(rotated')) : Passed' < y
        /\ next' = rotations' => Anchored(inbox)'
        /\ next' = rotations' - 1 => Anchored(rotated)'
    BY <1>p, <1>u, <1>y, <2>5
  <2>9. ~ (pos' = 0)
    BY <1>p
  <2>. QED
    BY <2>6, <2>7, <2>8, <2>9 DEF Position
<1>5. Buffered'
  <2>1. \A n \in DOMAIN buffer' : buffer'[n][1] <= Len(carries)
    <3>1. ASSUME NEW n \in DOMAIN buffer'
          PROVE  e + n \in DOMAIN buffer /\ buffer'[n] = buffer[e + n]
      <4>1. n \in 1 .. Len(buffer') /\ Len(buffer') = Len(buffer) - e
        BY <1>g
      <4>2. n \in Nat /\ 1 <= n /\ n <= Len(buffer) - e
        BY <1>a, <1>n, <4>1
      <4>3. e + n \in 1 .. Len(buffer)
        BY <1>a, <1>n, <4>2
      <4>4. buffer'[n] = buffer[e + n]
        BY <1>g, <4>1
      <4>. QED
        BY <1>n, <4>3, <4>4
    <3>. QED
      BY <1>m, <3>1 DEF Buffered
  <2>2. ASSUME NEW y \in Ended(buffer')
        PROVE  /\ \A k \in DOMAIN read' : read'[k] < y
               /\ a < y
               /\ ~ skipped => \A k \in DOMAIN lines :
                                /\ k <= Index + 1 => lines[k] < y
                                /\ k > Index + 1 /\ lines[k] < y => lines[k] \in Ended(buffer')
               /\ next < rotations => \A z \in Ended(Cells(inbox)) : y < z
               /\ next < rotations - 1 => \A z \in Ended(Cells(rotated)) : y < z
    <3>1. y \in Nat /\ a < y /\ y \in Ended(buffer)
      BY <1>b, <1>g
    <3>2. /\ \A k \in DOMAIN read : read[k] < y
          /\ ~ skipped => \A k \in DOMAIN lines :
                            /\ k <= Index => lines[k] < y
                            /\ k > Index /\ lines[k] < y => lines[k] \in Ended(buffer)
          /\ next < rotations => \A z \in Ended(Cells(inbox)) : y < z
          /\ next < rotations - 1 => \A z \in Ended(Cells(rotated)) : y < z
      BY <1>m, <3>1 DEF Buffered
    <3>3. \A k \in DOMAIN read' : read'[k] < y
      <4>1. \A k \in 1 .. Len(read) + 1 : k \in 1 .. Len(read) \/ k = Len(read) + 1
        BY <1>n
      <4>. QED
        BY <1>n, <1>r, <3>1, <3>2, <4>1
    <3>4. ASSUME ~ skipped, NEW k \in DOMAIN lines
          PROVE  /\ k <= Index + 1 => lines[k] < y
                 /\ k > Index + 1 /\ lines[k] < y => lines[k] \in Ended(buffer')
      <4>1. Index + 1 \in DOMAIN lines /\ lines[Index + 1] = a
        BY <1>i, <3>4
      <4>2. k \in Nat
        BY <1>f
      <4>3. ASSUME k <= Index + 1
            PROVE  lines[k] < y
        <5>1. k <= Index \/ k = Index + 1
          BY <1>n, <4>2, <4>3
        <5>. QED
          BY <3>1, <3>2, <3>4, <4>1, <5>1
      <4>4. ASSUME k > Index + 1, lines[k] < y
            PROVE  lines[k] \in Ended(buffer')
        <5>1. k > Index /\ Index + 1 < k
          BY <1>n, <4>2, <4>4
        <5>2. lines[k] \in Ended(buffer)
          BY <3>2, <3>4, <4>4, <5>1
        <5>3. a < lines[k] /\ lines[k] \in Nat
          BY <1>f, <4>1, <5>1
        <5>4. lines[k] # a
          BY <1>a, <5>3
        <5>. QED
          BY <1>d, <5>2, <5>4
      <4>. QED
        BY <4>3, <4>4
    <3>. QED
      BY <3>1, <3>2, <3>3, <3>4
  <2>3. (next = rotations => Copies(inbox)') /\ (next = rotations - 1 => Copies(rotated)')
    <3>1. ASSUME next = rotations
          PROVE  Copies(inbox)'
      BY <1>h, <1>u, <1>w, <3>1 DEF Copies
    <3>2. ASSUME next = rotations - 1
          PROVE  Copies(rotated)'
      BY <1>h, <1>u, <1>w, <3>2 DEF Copies
    <3>. QED
      BY <3>1, <3>2
  <2>4. InOrder(buffer') /\ Ended(buffer') \subseteq Lined
    BY <1>g, <1>m DEF Buffered
  <2>5. poll' \in {"current", "draining"}
    BY <1>u
  <2>. QED
    BY <1>l, <1>p, <1>r, <1>u, <2>1, <2>2, <2>3, <2>4, <2>5 DEF Buffered
<1>. QED
  BY <1>1, <1>2, <1>3, <1>4, <1>5 DEF ModInv

----------------------------------------------------------------------------
(* Every step keeps the invariant.                                          *)
LEMMA Initial ==
    ASSUME Init
    PROVE  IInv
<1>1. /\ \A x : x \in DOMAIN <<>> => FALSE
      /\ \A S : <<>> \in Seq(S)
      /\ Len(<<>>) = 0
  <2>1. \A S : <<>> \in Seq(S)
    BY EmptySeq
  <2>2. DOMAIN <<>> = 1 .. Len(<<>>) /\ Len(<<>>) = 0
    BY EmptySeq, LenProperties
  <2>. QED
    BY <2>1, <2>2
<1>2. /\ inbox = NoFile /\ rotated = NoFile /\ slot = NoFile /\ writer = "idle"
      /\ carries = <<>> /\ acked = {} /\ lines = <<>> /\ rotations = 0
      /\ pos = 0 /\ anchor = <<>> /\ poll = "idle" /\ buffer = <<>> /\ blocked = FALSE
      /\ serial = 0 /\ review = NotLanded
      /\ handled = <<>> /\ launches = 0 /\ read = <<>> /\ first = 0 /\ next = 0
      /\ skipped = FALSE
  BY DEF Init
<1>3. Cells(inbox) = <<>> /\ Cells(rotated) = <<>>
  BY <1>2 DEF Cells
<1>4. Lined = {}
  <2>1. \A x \in Lined : FALSE
    BY <1>1, <1>2 DEF Lined
  <2>. QED
    BY <2>1
<1>5. RelayType
  <2>1. <<>> \in Seq(Appends) /\ 0 <= MaxAppends
    BY <1>1, LimitsAssumption
  <2>. QED
    BY <1>1, <1>2, <2>1 DEF RelayType
<1>6. Numbered /\ Handle /\ Renamed
  <2>1. Numbered
    BY <1>1, <1>2, <1>3 DEF Numbered
  <2>2. Handle
    BY <1>2 DEF Handle
  <2>3. Renamed
    BY <1>1, <1>2, <1>3 DEF Renamed
  <2>. QED
    BY <2>1, <2>2, <2>3
<1>7. Sections /\ Ahead
  <2>1. \A j, k \in DOMAIN lines : FALSE
    BY <1>1, <1>2
  <2>2. Sections
    BY <1>3, <1>4, <2>1, NoneEnds DEF Sections
  <2>3. Ahead
    BY <1>1, <1>2, <1>3, <1>4 DEF Ahead
  <2>. QED
    BY <2>2, <2>3
<1>8. ModType
  <2>1. NotLanded \in Review
    BY DEF NotLanded, Review
  <2>2. 0 \in 0 .. MaxLaunches /\ 0 <= AnchorCells
    BY LimitsAssumption, AnchorAssumption
  <2>. QED
    BY <1>1, <1>2, <2>1, <2>2, NoneEnds DEF ModType
<1>9. Position
  <2>1. Index = 0 /\ ~ (pos > 0)
    BY <1>1, <1>2 DEF Index
  <2>2. {lines[k] : k \in Index + 1 .. Len(lines)} = {}
    <3>1. \A k \in Index + 1 .. Len(lines) : FALSE
      BY <1>1, <1>2, <2>1
    <3>. QED
      BY <3>1
  <2>3. Ended(Cells(inbox)) = {}
    BY <1>3, NoneEnds
  <2>. QED
    BY <1>1, <1>2, <2>1, <2>2, <2>3 DEF Position
<1>10. Buffered /\ Turned /\ Once
  <2>1. Ends(buffer) = {} /\ Ended(buffer) = {} /\ InOrder(buffer)
    BY <1>2, NoneEnds
  <2>2. \A n \in DOMAIN buffer : FALSE
    BY <1>1, <1>2
  <2>3. Buffered
    BY <1>2, <2>1, <2>2 DEF Buffered, Copies
  <2>4. Turned
    BY <1>2 DEF Turned
  <2>5. Once
    BY <1>1, <1>2 DEF Once
  <2>. QED
    BY <2>3, <2>4, <2>5
<1>. QED
  BY <1>5, <1>6, <1>7, <1>8, <1>9, <1>10 DEF IInv, RelayInv, ModInv

LEMMA Preserved ==
    ASSUME IInv, [Next]_vars
    PROVE  IInv'
<1>1. RelayInv /\ ModInv /\ launches \in Nat
  BY DEF IInv, ModInv, ModType
<1>2. CASE RelayNext
  <2>1. RelayInv' /\ (Rotate \/ Grows)
    BY <1>1, <1>2, RelayStep
  <2>2. UNCHANGED modSide
    BY <1>2 DEF RelayNext, BeginAppend, Reopen, Open, OpenFails, Rotate, WriteRecord,
                WriteFails, RollBack, RemoveEmpty, CrashRelay
  <2>. QED
    BY <1>1, <2>1, <2>2, GrowMod, RotateMod DEF IInv
<1>3. CASE PollStep
  <2>1. UNCHANGED relaySide
    BY <1>3 DEF PollStep, PollCurrent, PollRotated, PollStart, ConsumeLine, StopPoll, EndPoll,
                Unblock, CompareHead, CountRotated, CountInbox, Counting
  <2>2. RelayInv'
    BY <1>1, <2>1, OtherStep
  <2>3. CASE PollCurrent \/ PollRotated \/ PollStart
    BY <1>1, <2>2, <2>3, PollCurrentStep, PollRotatedStep, PollStartStep DEF IInv
  <2>4. CASE ConsumeLine \/ EndPoll
    BY <1>1, <2>2, <2>4, ConsumeStep, EndPollStep DEF IInv
  <2>5. CASE StopPoll \/ Unblock \/ CompareHead \/ CountRotated \/ CountInbox
    BY <1>1, <2>2, <2>5, PauseSteps DEF IInv
  <2>. QED
    BY <1>3, <2>3, <2>4, <2>5 DEF PollStep
<1>4. CASE LandReview
  <2>1. UNCHANGED relaySide
    BY <1>4 DEF LandReview, Counting
  <2>. QED
    BY <1>1, <1>4, <2>1, OtherStep, PauseSteps DEF IInv
<1>5. CASE Launch
  <2>1. UNCHANGED relaySide
    BY <1>5 DEF Launch
  <2>. QED
    BY <1>1, <1>5, <2>1, OtherStep, LaunchStep DEF IInv
<1>6. CASE UNCHANGED vars
  <2>1. UNCHANGED relaySide /\ UNCHANGED modSide
    BY <1>6 DEF vars
  <2>2. RelayInv'
    BY <1>1, <2>1, OtherStep
  <2>3. Grows
    <3>1. /\ rotated' = rotated /\ rotations' = rotations /\ carries' = carries
          /\ lines' = lines /\ inbox' = inbox
      BY <2>1 DEF relaySide
    <3>2. Len(carries) <= Len(carries)
      BY <1>1, CarriesFact DEF RelayInv
    <3>3. Same(Cells(inbox), Cells(inbox))
      BY <1>1, SameFact, ModFiles
    <3>. QED
      BY <3>1, <3>2, <3>3 DEF Grows
  <2>. QED
    BY <1>1, <2>1, <2>2, <2>3, GrowMod DEF IInv
<1>. QED
  BY <1>2, <1>3, <1>4, <1>5, <1>6 DEF Next

LEMMA Typed ==
    ASSUME IInv
    PROVE  TypeOK
<1>1. RelayType /\ Renamed /\ ModType
  BY DEF IInv, RelayInv, ModInv
<1>2. rotations \in 0 .. MaxAppends
  <2>1. Len(carries) \in Nat /\ MaxAppends \in Nat /\ rotations \in Nat
        /\ rotations <= Len(carries) /\ Len(carries) <= MaxAppends
    BY <1>1, CarriesFact DEF RelayType, Renamed
  <2>. QED
    BY <2>1
<1>. QED
  BY <1>1, <1>2 DEF TypeOK, RelayType, ModType

(* IInv holds throughout.                                                   *)
LEMMA Invariant == Spec => []IInv
<1>1. Init => IInv
  BY Initial
<1>2. IInv /\ [Next]_vars => IInv'
  BY Preserved
<1>. QED
  BY <1>1, <1>2, PTL DEF Spec

LEMMA SectionFact ==
    ASSUME NEW S, NEW s, NEW p \in Nat, NEW q \in Nat, \A i \in p + 1 .. p + q : s[i] \in S
    PROVE  /\ SubSeq(s, p + 1, p + q) \in Seq(S) /\ Len(SubSeq(s, p + 1, p + q)) = q
           /\ \A k \in 1 .. q : SubSeq(s, p + 1, p + q)[k] = s[p + k]
<1>. DEFINE m == p + 1
            n == p + q
<1>1. m \in Int /\ n \in Int /\ \A i \in m .. n : s[i] \in S
  OBVIOUS
<1>2. (IF m <= n THEN n - m + 1 ELSE 0) = q /\ n - m + 1 = q /\ \A k \in 1 .. q : m + k - 1 = p + k
  OBVIOUS
<1>. HIDE DEF m, n
<1>3. /\ SubSeq(s, m, n) \in Seq(S) /\ Len(SubSeq(s, m, n)) = IF m <= n THEN n - m + 1 ELSE 0
      /\ \A k \in 1 .. n - m + 1 : SubSeq(s, m, n)[k] = s[m + k - 1]
  BY <1>1, SubSeqProperties
<1>4. /\ SubSeq(s, m, n) \in Seq(S) /\ Len(SubSeq(s, m, n)) = q
      /\ \A k \in 1 .. q : SubSeq(s, m, n)[k] = s[p + k]
  BY <1>2, <1>3
<1>. QED
  BY <1>4 DEF m, n

(* What the mod reads is the part of the lines that follows the launch.     *)
LEMMA Section ==
    ASSUME IInv
    PROVE  ReadsInOrder
<1>1. RelayInv /\ ModType /\ Position
  BY DEF IInv, ModInv
<1>2. \A j, k \in DOMAIN read : j < k => read[j] < read[k]
  BY <1>1 DEF Position
<1>3. ASSUME ~ skipped
      PROVE  read = SubSeq(lines, first + 1, first + Len(read))
  <2>1. /\ first \in Nat /\ Len(read) \in Nat /\ DOMAIN read = 1 .. Len(read)
        /\ read \in Seq(Appends)
    BY <1>1, ModBasics DEF ModType
  <2>2. Len(lines) \in Nat /\ lines \in Seq(Appends)
    BY <1>1, ModFiles DEF RelayInv, RelayType
  <2>3. first + Len(read) <= Len(lines) /\ \A k \in 1 .. Len(read) : read[k] = lines[first + k]
    BY <1>1, <1>3, <2>1 DEF Position, Index
  <2>4. \A k \in first + 1 .. first + Len(read) : lines[k] \in Appends
    <3>1. \A k \in first + 1 .. first + Len(read) : k \in 1 .. Len(lines)
      BY <2>1, <2>2, <2>3
    <3>. QED
      BY <2>2, <3>1, ElementOfSeq
  <2>. DEFINE part == SubSeq(lines, first + 1, first + Len(read))
  <2>5. /\ part \in Seq(Appends) /\ Len(part) = Len(read)
        /\ \A k \in 1 .. Len(read) : part[k] = lines[first + k]
    <3>1. first \in Nat /\ Len(read) \in Nat
      BY <2>1
    <3>. HIDE DEF Appends
    <3>. QED
      BY <2>4, <3>1, SectionFact
  <2>. HIDE DEF part
  <2>6. \A k \in 1 .. Len(read) : part[k] = read[k]
    BY <2>3, <2>5
  <2>7. part = read
    BY <2>1, <2>5, <2>6, SeqEqual
  <2>. QED
    BY <2>7 DEF part
<1>. QED
  BY <1>2, <1>3 DEF ReadsInOrder

(* The mod reads the lines one after the other, none twice, and leaves none *)
(* out unless it begins a file that is not the next: whatever the relay     *)
(* takes back, ends with a newline or renames between two of its looks      *)
(* (poll_inbox, append_record).                                             *)
THEOREM InOrderRead == Spec => []ReadsInOrder
BY Invariant, Section, PTL

(* A record appended twice, because the first append was not known to have  *)
(* succeeded, is handed over once (TX.open).                                *)
THEOREM OnceHandled == Spec => []HandledOnce
<1>1. IInv => HandledOnce
  BY Typed DEF IInv, ModInv, Once, HandledOnce
<1>. QED
  BY <1>1, Invariant, PTL

(* The mod gives a file up, with the lines in it, only after two renames:   *)
(* one rename between its looks costs nothing ("ipc_inbox_rotation_lost").  *)
THEOREM TwoRotations == Spec => LostByTwoRotations
<1>1. IInv /\ [Next]_vars => [PollRotated /\ pos' = 0 => rotations >= next + 2]_vars
  BY PollRotatedStep DEF IInv
<1>. QED
  BY <1>1, Invariant, PTL DEF Spec, LostByTwoRotations

----------------------------------------------------------------------------
(* The mark of a review.                                                    *)

(* A line is two cells, and the second of them its newline.                 *)
Even(n) == \E i \in Nat : n = 2 * i
Paired(c) == \A n \in DOMAIN c : EndsLine(c[n]) <=> Even(n)

(* The first b lines were in files that are gone, the next r are in .1, the *)
(* last q in the inbox; a torn record may follow them.                      *)
Laid(b, r, q) ==
    /\ b + r + q = Len(lines)
    /\ Len(Cells(rotated)) = 2 * r /\ Len(Cells(inbox)) \in {2 * q, 2 * q + 1}
    /\ \A i \in 1 .. r : Cells(rotated)[2 * i][1] = lines[b + i]
    /\ \A i \in 1 .. q : /\ Cells(inbox)[2 * i - 1][1] = lines[b + r + i]
                         /\ Cells(inbox)[2 * i][1] = lines[b + r + i]

Layout ==
    /\ Paired(Cells(inbox)) /\ Paired(Cells(rotated))
    /\ \E b, r, q \in Nat : Laid(b, r, q)

(* What was on disk when the review landed is older than what is appended   *)
(* after it.                                                                *)
Older == \A a \in review.before :
            a <= Len(carries) /\ (writer \in {"opening", "open"} => a < Len(carries))

(* What the mod has counted before it sets the mark: as far as the inbox    *)
(* went when the review landed, or what is left of .1.                      *)
Measured ==
    /\ poll = "sized" =>
          /\ \A n \in DOMAIN Cells(inbox) :
                ~ EndsLine(Cells(inbox)[n]) /\ Cells(inbox)[n][1] \in review.before =>
                    n <= review.unread + pos
          /\ next = rotations => \/ review.after = Appends \/ review.unread + pos = 0
                                 \/ review.unread + pos \in Ends(Cells(inbox))
    /\ poll \in {"moved", "counted"} => pos > 0 /\ next < rotations
    /\ poll = "counted" =>
          /\ review.unread >= 0
          /\ next = rotations - 1 => review.unread = Len(rotated) - pos

(* The mod has come as far as line J: what it reads next is later, and the  *)
(* lines behind J that were on disk when the review landed are below the    *)
(* mark, whichever of them it skips.                                        *)
Reached(J) ==
    \A k \in 1 .. J :
        /\ \A y \in Ended(buffer) : lines[k] < y
        /\ pos = 0 \/ next < rotations => \A y \in Ended(Cells(inbox)) : lines[k] < y
        /\ pos > 0 /\ next >= rotations - 1 => lines[k] <= Passed

Below(J) ==
    /\ \A k \in J + 1 .. Len(lines) :
          lines[k] \in review.before => serial + 2 * (k - 1 - J) < review.mark
    /\ \A n \in DOMAIN Cells(inbox) :
          n = Len(Cells(inbox)) /\ ~ EndsLine(Cells(inbox)[n])
              /\ Cells(inbox)[n][1] \in review.before =>
          serial + 2 * (Len(lines) - J) < review.mark

Due == review.mark # NoMark => \E J \in 0 .. Len(lines) : Reached(J) /\ Below(J)

(* The file of the mod is gone, and it has nothing left of it.              *)
Doomed ==
    /\ poll \notin {"current", "draining"}
    /\ next < rotations - 1 \/ (pos = 0 /\ next < rotations)

(* The mark is not beyond the lines there were when it was set.             *)
Within(L) ==
    /\ \A k \in 1 .. L : lines[k] \in review.after
    /\ review.mark <= 2 * (L - first)

Following ==
    review.mark # NoMark /\ ~ skipped /\ ~ Doomed =>
        review.after = Appends \/ \E L \in 0 .. Len(lines) : Within(L)

MarkInv ==
    /\ Layout /\ Paired(buffer) /\ serial = 2 * Len(read)
    /\ Older /\ Measured /\ Due /\ Following

LEMMA EvenFact ==
    /\ \A q \in Nat : Even(2 * q) /\ ~ Even(2 * q + 1) /\ Even(2 * q + 2)
    /\ \A n \in Nat : Even(n) \/ Even(n + 1)
    /\ \A p \in Nat, n \in Nat : Even(2 * p + n) <=> Even(n)
<1>1. \A q \in Nat : Even(2 * q) /\ ~ Even(2 * q + 1) /\ Even(2 * q + 2)
  <2>. TAKE q \in Nat
  <2>1. Even(2 * q)
    BY DEF Even
  <2>2. ~ Even(2 * q + 1)
    <3>1. \A i \in Nat : 2 * q + 1 # 2 * i
      OBVIOUS
    <3>. QED
      BY <3>1 DEF Even
  <2>3. Even(2 * q + 2)
    <3>1. q + 1 \in Nat /\ 2 * q + 2 = 2 * (q + 1)
      OBVIOUS
    <3>. QED
      BY <3>1 DEF Even
  <2>. QED
    BY <2>1, <2>2, <2>3
<1>2. \A n \in Nat : Even(n) \/ Even(n + 1)
  <2>. DEFINE S == {n \in Nat : Even(n) \/ Even(n + 1)}
  <2>1. 0 \in S
    <3>1. 0 \in Nat /\ 0 = 2 * 0
      OBVIOUS
    <3>. QED
      BY <3>1 DEF Even
  <2>2. ASSUME NEW n \in Nat, n \in S
        PROVE  n + 1 \in S
    <3>1. Even(n) => Even((n + 1) + 1)
      <4>1. \A i \in Nat : n = 2 * i => i + 1 \in Nat /\ (n + 1) + 1 = 2 * (i + 1)
        OBVIOUS
      <4>. QED
        BY <4>1 DEF Even
    <3>. QED
      BY <2>2, <3>1
  <2>3. Nat \subseteq S
    <3>. HIDE DEF S
    <3>. QED
      BY <2>1, <2>2, InductionFact
  <2>. QED
    BY <2>3
<1>3. \A p \in Nat, n \in Nat : Even(2 * p + n) <=> Even(n)
  <2>. TAKE p \in Nat, n \in Nat
  <2>1. \A i \in Nat : n = 2 * i => p + i \in Nat /\ 2 * p + n = 2 * (p + i)
    OBVIOUS
  <2>2. \A i \in Nat : 2 * p + n = 2 * i => i - p \in Nat /\ n = 2 * (i - p)
    OBVIOUS
  <2>. QED
    BY <2>1, <2>2 DEF Even
<1>. QED
  BY <1>1, <1>2, <1>3

(* Where the lines of a file end.                                           *)
LEMMA EvenEnds ==
    ASSUME NEW c \in Contents, Paired(c), NEW q \in Nat, Len(c) \in {2 * q, 2 * q + 1}
    PROVE  /\ \A i \in 1 .. q : 2 * i \in Ends(c) /\ 2 * i - 1 \in DOMAIN c /\ ~ EndsLine(c[2 * i - 1])
           /\ \A n \in Ends(c) : \E i \in 1 .. q : n = 2 * i
           /\ Len(c) = 2 * q + 1 => ~ EndsLine(c[Len(c)])
           /\ \A n \in DOMAIN c : EndsLine(c[n]) \/ \E i \in 1 .. q + 1 : n = 2 * i - 1
           /\ (Len(c) = 2 * q <=> c = <<>> \/ EndsLine(c[Len(c)]))
<1>1. DOMAIN c = 1 .. Len(c) /\ Len(c) \in Nat /\ \A n : n \in Ends(c) <=> n \in 1 .. Len(c) /\ EndsLine(c[n])
  BY CellFact, EndsFact
<1>2. \A n \in 1 .. Len(c) : EndsLine(c[n]) <=> Even(n)
  BY <1>1 DEF Paired
<1>3. ASSUME NEW i \in 1 .. q
      PROVE  2 * i \in Ends(c) /\ 2 * i - 1 \in DOMAIN c /\ ~ EndsLine(c[2 * i - 1])
  <2>1. 2 * i \in 1 .. Len(c) /\ 2 * i - 1 \in 1 .. Len(c) /\ i - 1 \in Nat /\ i \in Nat
        /\ 2 * i - 1 = 2 * (i - 1) + 1
    OBVIOUS
  <2>2. Even(2 * i) /\ ~ Even(2 * i - 1)
    BY <2>1, EvenFact
  <2>. QED
    BY <1>1, <1>2, <2>1, <2>2
<1>4. \A n \in Ends(c) : \E i \in 1 .. q : n = 2 * i
  <2>. TAKE n \in Ends(c)
  <2>1. n \in 1 .. Len(c) /\ Even(n)
    BY <1>1, <1>2
  <2>. PICK i \in Nat : n = 2 * i
    BY <2>1 DEF Even
  <2>2. i \in 1 .. q
    BY <2>1
  <2>. QED
    BY <2>2
<1>5. Len(c) = 2 * q + 1 => ~ EndsLine(c[Len(c)])
  <2>1. Len(c) = 2 * q + 1 => Len(c) \in 1 .. Len(c) /\ ~ Even(Len(c))
    BY EvenFact
  <2>. QED
    BY <1>2, <2>1
<1>6. \A n \in DOMAIN c : EndsLine(c[n]) \/ \E i \in 1 .. q + 1 : n = 2 * i - 1
  <2>. TAKE n \in DOMAIN c
  <2>1. CASE ~ Even(n)
    <3>1. n \in 1 .. Len(c) /\ n \in Nat
      <4>1. n \in 1 .. Len(c)
        BY <1>1
      <4>. QED
        BY <4>1
    <3>2. Even(n + 1)
      BY <2>1, <3>1, EvenFact
    <3>. PICK i \in Nat : n + 1 = 2 * i
      BY <3>2 DEF Even
    <3>3. i \in 1 .. q + 1 /\ n = 2 * i - 1
      BY <3>1
    <3>. QED
      BY <3>3
  <2>. QED
    BY <1>1, <1>2, <2>1
<1>7. Len(c) = 2 * q <=> c = <<>> \/ EndsLine(c[Len(c)])
  <2>1. Len(c) = 2 * q /\ Len(c) > 0 => Len(c) \in 1 .. Len(c) /\ Even(Len(c))
    BY <1>1, EvenFact
  <2>2. Len(c) = 0 => c = <<>>
    BY EmptySeq DEF Contents
  <2>3. c = <<>> => Len(c) = 0 /\ Len(c) = 2 * q
    BY NoneEnds
  <2>4. Len(c) = 2 * q => c = <<>> \/ EndsLine(c[Len(c)])
    BY <1>1, <1>2, <2>1, <2>2
  <2>5. EndsLine(c[Len(c)]) => Len(c) = 2 * q
    BY <1>5
  <2>. QED
    BY <2>3, <2>4, <2>5
<1>. QED
  BY <1>3, <1>4, <1>5, <1>6, <1>7

(* Behind the q lines of a file comes a cell, or a line.                    *)
LEMMA PairedNext ==
    ASSUME NEW c \in Contents, Paired(c), NEW d \in Contents, NEW q \in Nat,
           2 * q <= Len(c), 2 * q <= Len(d), Len(d) <= 2 * q + 2,
           \A i \in 1 .. 2 * q : d[i] = c[i],
           Len(d) > 2 * q => ~ EndsLine(d[2 * q + 1]),
           Len(d) = 2 * q + 2 => EndsLine(d[2 * q + 2])
    PROVE  Paired(d)
<1>1. DOMAIN c = 1 .. Len(c) /\ Len(c) \in Nat /\ DOMAIN d = 1 .. Len(d) /\ Len(d) \in Nat
  BY CellFact
<1>2. SUFFICES ASSUME NEW n \in 1 .. Len(d)
               PROVE  EndsLine(d[n]) <=> Even(n)
  BY <1>1 DEF Paired
<1>3. n \in 1 .. 2 * q \/ n = 2 * q + 1 \/ n = 2 * q + 2
  <2>1. \A L \in Nat : L <= 2 * q + 2 =>
            \A m \in 1 .. L : m \in 1 .. 2 * q \/ m = 2 * q + 1 \/ m = 2 * q + 2
    OBVIOUS
  <2>. QED
    BY <1>1, <2>1
<1>4. CASE n \in 1 .. 2 * q
  <2>1. \A L \in Nat : 2 * q <= L => \A m \in 1 .. 2 * q : m \in 1 .. L
    OBVIOUS
  <2>2. n \in DOMAIN c
    BY <1>1, <1>4, <2>1
  <2>. QED
    BY <1>4, <2>2 DEF Paired
<1>5. CASE n = 2 * q + 1
  <2>1. \A L \in Nat : 2 * q + 1 \in 1 .. L => L > 2 * q
    OBVIOUS
  <2>2. ~ EndsLine(d[n])
    BY <1>1, <1>5, <2>1
  <2>. QED
    BY <1>5, <2>2, EvenFact
<1>6. CASE n = 2 * q + 2
  <2>1. \A L \in Nat : L <= 2 * q + 2 /\ 2 * q + 2 \in 1 .. L => L = 2 * q + 2
    OBVIOUS
  <2>2. EndsLine(d[n])
    BY <1>1, <1>6, <2>1
  <2>. QED
    BY <1>6, <2>2, EvenFact
<1>. QED
  BY <1>3, <1>4, <1>5, <1>6

LEMMA LaidSame ==
    ASSUME NEW b \in Nat, NEW r \in Nat, NEW q \in Nat, Laid(b, r, q),
           Cells(rotated') = Cells(rotated), lines' = lines,
           Len(Cells(inbox')) \in {2 * q, 2 * q + 1},
           \A i \in 1 .. 2 * q : Cells(inbox')[i] = Cells(inbox)[i]
    PROVE  Laid(b, r, q)'
<1>1. \A i \in 1 .. q : 2 * i - 1 \in 1 .. 2 * q /\ 2 * i \in 1 .. 2 * q
  OBVIOUS
<1>2. \A i \in 1 .. q : /\ Cells(inbox')[2 * i - 1][1] = lines[b + r + i]
                        /\ Cells(inbox')[2 * i][1] = lines[b + r + i]
  BY <1>1 DEF Laid
<1>. QED
  BY <1>2 DEF Laid

LEMMA LaidMore ==
    ASSUME NEW b \in Nat, NEW r \in Nat, NEW q \in Nat, Laid(b, r, q),
           Cells(rotated') = Cells(rotated), lines \in Seq(Appends),
           NEW a \in Appends, lines' = Append(lines, a),
           Len(Cells(inbox')) = 2 * q + 2,
           \A i \in 1 .. 2 * q : Cells(inbox')[i] = Cells(inbox)[i],
           Cells(inbox')[2 * q + 1][1] = a, Cells(inbox')[2 * q + 2][1] = a
    PROVE  Laid(b, r, q + 1)'
<1>. DEFINE d == Cells(inbox')
<1>1. /\ Len(lines') = Len(lines) + 1 /\ lines'[Len(lines) + 1] = a /\ Len(lines) \in Nat
      /\ \A k \in 1 .. Len(lines) : lines'[k] = lines[k]
  BY AppendedLine, LinedFact
<1>2. b + r + q = Len(lines)
  BY DEF Laid
<1>3. ASSUME NEW i \in 1 .. q
      PROVE  d[2 * i - 1][1] = lines'[b + r + i] /\ d[2 * i][1] = lines'[b + r + i]
  <2>1. 2 * i - 1 \in 1 .. 2 * q /\ 2 * i \in 1 .. 2 * q /\ b + r + i \in 1 .. Len(lines)
    BY <1>2
  <2>2. Cells(inbox)[2 * i - 1][1] = lines[b + r + i] /\ Cells(inbox)[2 * i][1] = lines[b + r + i]
    BY DEF Laid
  <2>. QED
    BY <1>1, <2>1, <2>2
<1>4. /\ b + r + (q + 1) = Len(lines) + 1
      /\ 2 * (q + 1) - 1 = 2 * q + 1 /\ 2 * (q + 1) = 2 * q + 2
      /\ \A i \in 1 .. q + 1 : i \in 1 .. q \/ i = q + 1
  <2>1. \A N \in Nat : b + r + q = N => b + r + (q + 1) = N + 1
    OBVIOUS
  <2>2. b + r + (q + 1) = Len(lines) + 1
    BY <1>1, <1>2, <2>1
  <2>3. /\ 2 * (q + 1) - 1 = 2 * q + 1 /\ 2 * (q + 1) = 2 * q + 2
        /\ \A i \in 1 .. q + 1 : i \in 1 .. q \/ i = q + 1
    OBVIOUS
  <2>. QED
    BY <2>2, <2>3
<1>5. \A i \in 1 .. r : Cells(rotated')[2 * i][1] = lines'[b + i]
  <2>. TAKE i \in 1 .. r
  <2>1. b + i \in 1 .. Len(lines)
    BY <1>2
  <2>2. Cells(rotated)[2 * i][1] = lines[b + i]
    BY DEF Laid
  <2>. QED
    BY <1>1, <2>1, <2>2
<1>6. \A i \in 1 .. q + 1 : d[2 * i - 1][1] = lines'[b + r + i] /\ d[2 * i][1] = lines'[b + r + i]
  <2>1. d[2 * (q + 1) - 1][1] = lines'[b + r + (q + 1)] /\ d[2 * (q + 1)][1] = lines'[b + r + (q + 1)]
    BY <1>1, <1>4
  <2>. QED
    BY <1>3, <1>4, <2>1
<1>7. Len(Cells(rotated')) = 2 * r /\ Len(d) \in {2 * (q + 1), 2 * (q + 1) + 1}
      /\ b + r + (q + 1) = Len(lines')
  BY <1>1, <1>4 DEF Laid
<1>. QED
  BY <1>5, <1>6, <1>7 DEF Laid

(* The cells and the line that come with a step are those of the append     *)
(* under way, or the line is that of a torn record.                         *)
TornAt(c, a) == \E n \in DOMAIN c : n = Len(c) /\ ~ EndsLine(c[n]) /\ c[n][1] = a
New ==
    /\ \A n \in DOMAIN Cells(inbox') :
          ~ EndsLine(Cells(inbox')[n]) =>
              \/ n \in DOMAIN Cells(inbox) /\ Cells(inbox')[n] = Cells(inbox)[n]
              \/ writer = "open" /\ Cells(inbox')[n][1] = Len(carries)
    /\ \/ lines' = lines
       \/ \E a \in Appends :
             /\ lines' = Append(lines, a)
             /\ TornAt(Cells(inbox), a) \/ (writer = "open" /\ a = Len(carries))

(* The layout of the files, as one step may find it.                        *)
LEMMA LayoutFact ==
    ASSUME RelayInv, Layout
    PROVE  \E b, r, q \in Nat :
              /\ Laid(b, r, q) /\ b + r + q = Len(lines)
              /\ Len(Cells(rotated)) = 2 * r /\ Len(Cells(inbox)) \in {2 * q, 2 * q + 1}
              /\ (Len(Cells(inbox)) = 2 * q <=>
                     Cells(inbox) = <<>> \/ EndsLine(Cells(inbox)[Len(Cells(inbox))]))
<1>. PICK b \in Nat, r \in Nat, q \in Nat : Laid(b, r, q)
  BY DEF Layout
<1>1. Cells(inbox) \in Contents /\ Paired(Cells(inbox))
  BY ModFiles DEF Layout
<1>2. /\ b + r + q = Len(lines)
      /\ Len(Cells(rotated)) = 2 * r /\ Len(Cells(inbox)) \in {2 * q, 2 * q + 1}
  BY DEF Laid
<1>3. Len(Cells(inbox)) = 2 * q <=>
          Cells(inbox) = <<>> \/ EndsLine(Cells(inbox)[Len(Cells(inbox))])
  BY <1>1, <1>2, EvenEnds
<1>. QED
  BY <1>2, <1>3

(* Steps that leave the files alone.                                        *)
LEMMA LayoutStays ==
    ASSUME RelayInv, Layout, Cells(inbox') = Cells(inbox), Cells(rotated') = Cells(rotated),
           lines' = lines
    PROVE  Layout' /\ New
<1>1. Paired(Cells(inbox')) /\ Paired(Cells(rotated'))
  BY DEF Layout
<1>2. \E b, r, q \in Nat : Laid(b, r, q)'
  <2>. PICK b \in Nat, r \in Nat, q \in Nat : Laid(b, r, q)
    BY DEF Layout
  <2>1. Len(Cells(inbox')) \in {2 * q, 2 * q + 1}
    BY DEF Laid
  <2>2. \A i \in 1 .. 2 * q : Cells(inbox')[i] = Cells(inbox)[i]
    OBVIOUS
  <2>3. Laid(b, r, q)'
    BY <2>1, <2>2, LaidSame
  <2>. QED
    BY <2>3
<1>3. New
  BY DEF New
<1>. QED
  BY <1>1, <1>2, <1>3 DEF Layout

LEMMA LayoutNext ==
    ASSUME Layout, Cells(rotated') = Cells(rotated), Paired(Cells(inbox')),
           NEW b \in Nat, NEW r \in Nat, NEW q \in Nat, Laid(b, r, q)'
    PROVE  Layout'
<1>1. Paired(Cells(rotated'))
  BY DEF Layout
<1>2. \E x, y, z \in Nat : Laid(x, y, z)'
  OBVIOUS
<1>. QED
  BY <1>1, <1>2 DEF Layout

LEMMA QuietLayout ==
    ASSUME RelayInv, Layout,
           BeginAppend \/ Reopen \/ OpenFails \/ CrashRelay \/ RemoveEmpty
    PROVE  Layout' /\ New
<1>1. rotated' = rotated /\ lines' = lines
  BY DEF BeginAppend, Reopen, OpenFails, CrashRelay, RemoveEmpty
<1>2. Cells(inbox') = Cells(inbox)
  <2>1. CASE RemoveEmpty
    <3>1. inbox = <<>> /\ inbox' \in {NoFile, inbox}
      BY <2>1 DEF RemoveEmpty, RelayInv, Handle
    <3>. QED
      BY <3>1 DEF Cells
  <2>2. CASE BeginAppend \/ Reopen \/ OpenFails \/ CrashRelay
    <3>1. inbox' = inbox
      BY <2>2 DEF BeginAppend, Reopen, OpenFails, CrashRelay
    <3>. QED
      BY <3>1
  <2>. QED
    BY <2>1, <2>2
<1>3. Cells(rotated') = Cells(rotated)
  BY <1>1
<1>. QED
  BY <1>1, <1>2, <1>3, LayoutStays

LEMMA OpenLayout ==
    ASSUME RelayInv, Layout, RelayType', Open
    PROVE  Layout' /\ New
<1>. PICK c, d : c = Cells(inbox) /\ d = Closed(c)
  OBVIOUS
<1>1. /\ rotated' = rotated /\ inbox' = d
      /\ lines' = (IF d = c THEN lines ELSE Append(lines, c[Len(c)][1]))
  BY DEF Open, Cells, Last
<1>2. c \in Contents /\ d \in Contents /\ d # NoFile
  BY ModFiles, ClosedFact, NoFileAssumption DEF RelayInv, RelayType
<1>3. Cells(inbox') = d /\ Cells(rotated') = Cells(rotated)
  BY <1>1, <1>2 DEF Cells
<1>4. CASE d = c
  BY <1>1, <1>3, <1>4, LayoutStays
<1>5. CASE d # c
  <2>. PICK b \in Nat, r \in Nat, q \in Nat :
              /\ Laid(b, r, q)
              /\ Len(c) \in {2 * q, 2 * q + 1} /\ (Len(c) = 2 * q <=> c = <<>> \/ EndsLine(c[Len(c)]))
    BY LayoutFact
  <2>. PICK a : a = c[Len(c)][1]
    OBVIOUS
  <2>1. /\ c # <<>> /\ Len(c) \in DOMAIN c /\ ~ EndsLine(c[Len(c)])
        /\ Len(d) = Len(c) + 1 /\ d[Len(c) + 1] = Newline(a)
        /\ \A i \in 1 .. Len(c) : d[i] = c[i]
    <3>1. \/ Closed(c) = c
          \/ /\ c # <<>> /\ Closed(c) # c /\ Len(c) \in DOMAIN c /\ ~ EndsLine(c[Len(c)])
             /\ Len(Closed(c)) = Len(c) + 1
             /\ \A i \in 1 .. Len(c) : Closed(c)[i] = c[i]
             /\ Closed(c)[Len(c) + 1] = Newline(c[Len(c)][1])
      BY Zenon, <1>2, ClosedFact
    <3>2. Closed(c) # c
      BY <1>5
    <3>. QED
      BY <3>1, <3>2
  <2>2. Len(c) = 2 * q + 1
    BY <2>1
  <2>3. a \in Appends /\ Newline(a)[1] = a /\ EndsLine(Newline(a))
    BY <1>2, <2>1, CellFact DEF Newline, EndsLine
  <2>4. /\ Len(d) = 2 * q + 2 /\ 2 * q <= Len(c) /\ 2 * q <= Len(d) /\ Len(d) <= 2 * q + 2
        /\ d[2 * q + 2] = Newline(a) /\ d[2 * q + 1] = c[Len(c)]
    BY <2>1, <2>2
  <2>5. \A i \in 1 .. 2 * q : d[i] = c[i]
    BY <2>1, <2>2
  <2>6. ~ EndsLine(d[2 * q + 1]) /\ EndsLine(d[2 * q + 2])
        /\ d[2 * q + 1][1] = a /\ d[2 * q + 2][1] = a
    BY <2>1, <2>3, <2>4
  <2>7. Paired(c)
    BY DEF Layout
  <2>8. Paired(d)
    BY <1>2, <2>4, <2>5, <2>6, <2>7, PairedNext
  <2>9. lines' = Append(lines, a) /\ lines \in Seq(Appends)
    BY <1>1, <1>5 DEF RelayInv, RelayType
  <2>10. Laid(b, r, q + 1)'
    BY <1>3, <2>3, <2>4, <2>5, <2>6, <2>9, LaidMore
  <2>11. Layout'
    <3>1. q + 1 \in Nat
      OBVIOUS
    <3>. QED
      BY <1>3, <2>8, <2>10, <3>1 DEF Layout
  <2>12. TornAt(c, a)
    BY <2>1 DEF TornAt
  <2>13. \A n \in DOMAIN d : ~ EndsLine(d[n]) => n \in DOMAIN c /\ d[n] = c[n]
    <3>1. DOMAIN d = 1 .. Len(d) /\ DOMAIN c = 1 .. Len(c)
      BY <1>2, CellFact
    <3>2. \A n \in 1 .. Len(d) : n \in 1 .. Len(c) \/ n = 2 * q + 2
      BY <2>2, <2>4
    <3>. QED
      BY <2>1, <2>6, <3>1, <3>2
  <2>14. New
    BY <1>3, <2>3, <2>9, <2>12, <2>13 DEF New
  <2>. QED
    BY <2>11, <2>14
<1>. QED
  BY <1>4, <1>5

LEMMA WriteLayout ==
    ASSUME RelayInv, Layout, WriteRecord \/ WriteFails
    PROVE  Layout' /\ New
<1>. PICK c, a, d : c = inbox /\ a = Len(carries) /\ d = inbox'
  OBVIOUS
<1>1. writer = "open" /\ rotated' = rotated
  BY DEF WriteRecord, WriteFails
<1>2. /\ c \in Contents /\ Cells(inbox) = c /\ slot = Len(c) /\ Len(c) \in Nat
      /\ carries # <<>> /\ (slot > 0 => EndsLine(c[slot]))
  BY <1>1, OpenInbox
<1>3. a \in Appends /\ a \in Nat /\ a = This
  BY <1>2, CarriesFact DEF RelayInv, This
<1>4. /\ Text(a) \in Cell /\ Half(a) \in Cell /\ Newline(a) \in Cell
      /\ ~ EndsLine(Text(a)) /\ ~ EndsLine(Half(a)) /\ EndsLine(Newline(a))
      /\ Text(a)[1] = a /\ Half(a)[1] = a /\ Newline(a)[1] = a
  BY <1>3 DEF Text, Half, Newline, Cell, EndsLine
<1>. PICK b \in Nat, r \in Nat, q \in Nat :
            /\ Laid(b, r, q)
            /\ Len(c) \in {2 * q, 2 * q + 1} /\ (Len(c) = 2 * q <=> c = <<>> \/ EndsLine(c[Len(c)]))
  BY <1>2, LayoutFact
<1>5. Len(c) = 2 * q
  <2>1. Len(c) = 0 => c = <<>>
    BY <1>2, EmptySeq DEF Contents
  <2>. QED
    BY <1>2, <2>1
<1>6. Paired(c) /\ lines \in Seq(Appends) /\ DOMAIN c = 1 .. Len(c)
  BY <1>2, CellFact DEF Layout, RelayInv, RelayType
<1>. HIDE DEF Appends
<1>7. ASSUME NEW s \in Contents, d = c \o s, NEW m \in {0, 1, 2}, Len(s) = m,
             m > 0 => ~ EndsLine(s[1]) /\ s[1][1] = a,
             m = 2 => EndsLine(s[2]) /\ s[2][1] = a,
             m = 2 => lines' = Append(lines, a), m # 2 => lines' = lines
      PROVE  Layout' /\ New
  <2>1. /\ d \in Contents /\ Len(d) = 2 * q + m
        /\ \A i \in 1 .. Len(c) : d[i] = c[i]
        /\ \A i \in 1 .. m : d[2 * q + i] = s[i]
    <3>2. /\ c \o s \in Contents /\ Len(c \o s) = Len(c) + Len(s)
          /\ \A i \in 1 .. Len(c) : (c \o s)[i] = c[i]
          /\ \A i \in 1 .. Len(s) : (c \o s)[Len(c) + i] = s[i]
      BY Zenon, <1>2, AddMany
    <3>1. /\ d \in Contents /\ Len(d) = Len(c) + Len(s)
          /\ \A i \in 1 .. Len(c) : d[i] = c[i]
          /\ \A i \in 1 .. Len(s) : d[Len(c) + i] = s[i]
      BY <1>7, <3>2
    <3>. QED
      BY <1>5, <1>7, <3>1
  <2>2. d # NoFile /\ Cells(inbox') = d /\ Cells(rotated') = Cells(rotated)
    BY <1>1, <2>1, NoFileAssumption DEF Cells
  <2>3. /\ m > 0 => d[2 * q + 1] = s[1]
        /\ m = 2 => d[2 * q + 2] = s[2]
    <3>1. m > 0 => 1 \in 1 .. m
      BY <1>7
    <3>2. m = 2 => 2 \in 1 .. m
      BY <1>7
    <3>. QED
      BY <1>5, <2>1, <3>1, <3>2
  <2>4. Len(d) = 2 * q + m /\ \A i \in 1 .. 2 * q : d[i] = c[i]
    BY <1>5, <2>1
  <2>5. /\ 2 * q <= Len(c) /\ 2 * q <= Len(d) /\ Len(d) <= 2 * q + 2
        /\ (Len(d) > 2 * q => m > 0) /\ (Len(d) = 2 * q + 2 => m = 2)
    BY <1>5, <1>7, <2>4
  <2>6. /\ Len(d) > 2 * q => ~ EndsLine(d[2 * q + 1])
        /\ Len(d) = 2 * q + 2 => EndsLine(d[2 * q + 2])
    BY <1>7, <2>3, <2>5
  <2>7. Paired(d)
    BY <1>2, <1>6, <2>1, <2>4, <2>5, <2>6, PairedNext
  <2>8. ASSUME m = 2
        PROVE  Layout'
    <3>1. Len(d) = 2 * q + 2
      BY <2>4, <2>8
    <3>4. d[2 * q + 1][1] = a /\ d[2 * q + 2][1] = a /\ lines' = Append(lines, a)
      <4>1. m > 0
        BY <2>8
      <4>. QED
        BY <1>7, <2>3, <2>8, <4>1
    <3>2. Laid(b, r, q + 1)'
      BY <1>2, <1>3, <1>6, <2>2, <2>4, <3>1, <3>4, LaidMore
    <3>3. q + 1 \in Nat
      OBVIOUS
    <3>. QED
      BY <2>2, <2>7, <3>2, <3>3, LayoutNext
  <2>9. ASSUME m # 2
        PROVE  Layout'
    <3>1. Len(d) \in {2 * q, 2 * q + 1} /\ lines' = lines
      BY <1>7, <2>4, <2>9
    <3>2. Laid(b, r, q)'
      BY <1>2, <2>2, <2>4, <3>1, LaidSame
    <3>. QED
      BY <2>2, <2>7, <3>2, LayoutNext
  <2>10. Layout'
    BY <2>8, <2>9
  <2>11. \A n \in DOMAIN d : ~ EndsLine(d[n]) =>
              (n \in DOMAIN c /\ d[n] = c[n]) \/ d[n][1] = a
    <3>1. DOMAIN d = 1 .. Len(d)
      BY <2>1, CellFact
    <3>2. \A n \in 1 .. Len(d) : n \in 1 .. Len(c) \/ n = 2 * q + 1 \/ n = 2 * q + 2
      BY <1>5, <1>7, <2>4
    <3>3. \A n \in 1 .. Len(d) : (n = 2 * q + 1 => m > 0) /\ (n = 2 * q + 2 => m = 2)
      BY <1>7, <2>4
    <3>4. \A n \in 1 .. Len(d) : n = 2 * q + 1 => d[n][1] = a
      BY <1>7, <2>3, <3>3
    <3>5. \A n \in 1 .. Len(d) : n = 2 * q + 2 => EndsLine(d[n])
      BY <1>7, <2>3, <3>3
    <3>. QED
      BY <1>6, <2>1, <3>1, <3>2, <3>4, <3>5
  <2>12. New
    BY <1>1, <1>2, <1>3, <1>7, <2>2, <2>11 DEF New
  <2>. QED
    BY <2>10, <2>12
<1>8. CASE WriteRecord
  <2>1. d = c \o <<Text(a), Newline(a)>> /\ lines' = Append(lines, a)
    BY <1>3, <1>8 DEF WriteRecord
  <2>2. /\ <<Text(a), Newline(a)>> \in Contents /\ Len(<<Text(a), Newline(a)>>) = 2
        /\ <<Text(a), Newline(a)>>[1] = Text(a) /\ <<Text(a), Newline(a)>>[2] = Newline(a)
    BY <1>4 DEF Contents
  <2>. QED
    BY <1>4, <1>7, <2>1, <2>2
<1>9. CASE WriteFails
  <2>1. lines' = lines
    BY <1>9 DEF WriteFails
  <2>. PICK part : part \in {<<>>, <<Half(This)>>, <<Text(This)>>} /\ d = c \o part
    BY <1>9 DEF WriteFails
  <2>2. CASE part = <<>>
    <3>. PICK m \in {0, 1, 2} : m = 0
      OBVIOUS
    <3>1. part \in Contents /\ Len(part) = m
      BY <2>2, NoneEnds
    <3>2. ~ (m > 0) /\ m # 2
      OBVIOUS
    <3>. QED
      BY Zenon, <1>7, <2>1, <3>1, <3>2
  <2>3. ASSUME NEW x \in {Text(a), Half(a)}, part = <<x>>
        PROVE  Layout' /\ New
    <3>1. x \in Cell /\ ~ EndsLine(x) /\ x[1] = a
      BY <1>4
    <3>2. part \in Contents /\ Len(part) = 1 /\ part[1] = x
      BY <2>3, <3>1 DEF Contents
    <3>. PICK m \in {0, 1, 2} : m = 1
      OBVIOUS
    <3>3. m # 2 /\ Len(part) = m
      BY <3>2
    <3>4. ~ EndsLine(part[1]) /\ part[1][1] = a
      BY <3>1, <3>2
    <3>. QED
      BY Zenon, <1>7, <2>1, <3>2, <3>3, <3>4
  <2>. QED
    BY <1>3, <2>2, <2>3
<1>. QED
  BY <1>8, <1>9

LEMMA RollBackLayout ==
    ASSUME RelayInv, Layout, RollBack
    PROVE  Layout' /\ New
<1>. PICK c, d : c = inbox /\ d = inbox'
  OBVIOUS
<1>1. /\ rotated' = rotated /\ writer = "torn" /\ lines' = lines
      /\ d = SubSeq(c, 1, slot) \/ d = c
  BY DEF RollBack
<1>2. /\ c # NoFile /\ slot \in 0 .. Len(c) /\ (slot > 0 => EndsLine(c[slot]))
      /\ \A n \in DOMAIN c : n > slot => ~ EndsLine(c[n])
  BY <1>1 DEF RelayInv, Handle
<1>3. c \in Contents /\ Cells(inbox) = c /\ Len(c) \in Nat /\ DOMAIN c = 1 .. Len(c)
  <2>1. c \in Contents /\ Cells(inbox) = c
    BY <1>2, CellsFact DEF RelayInv, RelayType
  <2>. QED
    BY <2>1, CellFact
<1>4. CASE d = c
  <2>1. Cells(inbox') = Cells(inbox) /\ Cells(rotated') = Cells(rotated)
    BY <1>1, <1>4
  <2>. QED
    BY <1>1, <2>1, LayoutStays
<1>5. CASE d = SubSeq(c, 1, slot)
  <2>. PICK b \in Nat, r \in Nat, q \in Nat :
              Laid(b, r, q) /\ Len(c) \in {2 * q, 2 * q + 1}
    BY <1>3, LayoutFact
  <2>12. \A L \in Nat : \A s \in 0 .. L : s \in Nat /\ s <= L
    OBVIOUS
  <2>. PICK m \in Nat : m = slot /\ m <= Len(c)
    BY <1>2, <1>3, <2>12
  <2>1. Paired(c) /\ m <= Len(c)
    BY <1>3 DEF Layout
  <2>2. m = 2 * q
    <3>1. /\ \A i \in 1 .. q : 2 * i \in Ends(c)
          /\ \A n \in Ends(c) : \E i \in 1 .. q : n = 2 * i
      BY <1>3, <2>1, EvenEnds
    <3>2. \A n : n \in Ends(c) <=> n \in 1 .. Len(c) /\ EndsLine(c[n])
      BY <1>3, EndsFact
    <3>3. q > 0 => 2 * q <= m
      <4>1. q > 0 => q \in 1 .. q
        OBVIOUS
      <4>2. q > 0 => 2 * q \in 1 .. Len(c) /\ EndsLine(c[2 * q])
        BY <3>1, <3>2, <4>1
      <4>3. q > 0 => ~ (2 * q > m)
        BY <1>2, <1>3, <4>2
      <4>. QED
        BY <4>3
    <3>4. m > 0 => m <= 2 * q
      <4>4. \A L \in Nat : m > 0 /\ m <= L => m \in 1 .. L
        OBVIOUS
      <4>1. m > 0 => m \in 1 .. Len(c)
        BY <1>3, <2>1, <4>4
      <4>2. m > 0 => m \in Ends(c)
        BY <1>2, <3>2, <4>1
      <4>3. m > 0 => \E i \in 1 .. q : m = 2 * i
        BY <3>1, <4>2
      <4>. QED
        BY <4>3
    <3>. QED
      BY <3>3, <3>4
  <2>3. /\ d \in Contents /\ Len(d) = m /\ \A i \in 1 .. m : d[i] = c[i]
    <3>1. d = SubSeq(c, 1, m)
      BY <1>5
    <3>2. /\ SubSeq(c, 1, m) \in Contents /\ Len(SubSeq(c, 1, m)) = m
          /\ \A i \in 1 .. m : SubSeq(c, 1, m)[i] = c[i]
      BY ZenonT(30), <1>3, <2>1, FirstPart
    <3>. QED
      BY <3>1, <3>2
  <2>4. Cells(inbox') = d /\ Cells(rotated') = Cells(rotated)
    BY <1>1, <2>3, NoFileAssumption DEF Cells
  <2>5. /\ 2 * q <= Len(c) /\ 2 * q <= Len(d) /\ Len(d) <= 2 * q + 2
        /\ ~ (Len(d) > 2 * q) /\ Len(d) # 2 * q + 2 /\ Len(d) = 2 * q
    <3>1. 2 * q <= Len(c) /\ Len(d) = 2 * q
      BY <2>1, <2>2, <2>3
    <3>. QED
      BY <3>1
  <2>6. \A i \in 1 .. 2 * q : d[i] = c[i]
    BY <2>2, <2>3
  <2>7. Paired(d)
    BY <1>3, <2>1, <2>3, <2>5, <2>6, PairedNext
  <2>8. Laid(b, r, q)'
    BY <1>1, <1>3, <2>4, <2>5, <2>6, LaidSame
  <2>9. Layout'
    BY <2>4, <2>7, <2>8, LayoutNext
  <2>10. \A n \in DOMAIN d : n \in DOMAIN c /\ d[n] = c[n]
    <3>2. \A L \in Nat : m <= L => \A n \in 1 .. m : n \in 1 .. L
      OBVIOUS
    <3>1. DOMAIN d = 1 .. m /\ \A n \in 1 .. m : n \in 1 .. Len(c)
      BY <1>3, <2>1, <2>3, <3>2, CellFact
    <3>. QED
      BY <1>3, <2>3, <3>1
  <2>11. New
    BY <1>1, <1>3, <2>4, <2>10 DEF New
  <2>. QED
    BY <2>9, <2>11
<1>. QED
  BY <1>1, <1>4, <1>5

LEMMA RotateLayout ==
    ASSUME RelayInv, Layout, Rotate
    PROVE  Layout'
<1>1. /\ writer = "open" /\ rotated' = inbox /\ inbox' = NoFile /\ lines' = lines
  BY DEF Rotate
<1>2. /\ inbox \in Contents /\ Cells(inbox) = inbox /\ slot = Len(inbox) /\ Len(inbox) \in Nat
      /\ slot > 0 => EndsLine(inbox[slot])
  BY <1>1, OpenInbox
<1>. PICK b \in Nat, r \in Nat, q \in Nat :
            /\ Laid(b, r, q) /\ b + r + q = Len(lines)
            /\ (Len(inbox) = 2 * q <=> inbox = <<>> \/ EndsLine(inbox[Len(inbox)]))
  BY <1>2, LayoutFact
<1>3. Len(inbox) = 2 * q
  <2>1. Len(inbox) = 0 => inbox = <<>>
    BY <1>2, EmptySeq DEF Contents
  <2>. QED
    BY <1>2, <2>1
<1>4. Cells(inbox') = <<>> /\ Cells(rotated') = inbox
  BY <1>1, <1>2 DEF Cells
<1>5. Paired(<<>>) /\ Paired(inbox)
  BY <1>2 DEF Paired, Layout
<1>6. Laid(b + r, q, 0)'
  <2>1. (b + r) + q + 0 = Len(lines) /\ Len(Cells(inbox')) \in {2 * 0, 2 * 0 + 1}
    BY <1>4, NoneEnds
  <2>2. \A i \in 1 .. q : Cells(rotated')[2 * i][1] = lines'[(b + r) + i]
    BY <1>1, <1>2, <1>4 DEF Laid
  <2>3. Len(Cells(rotated')) = 2 * q
    BY <1>3, <1>4
  <2>. QED
    BY <1>1, <2>1, <2>2, <2>3 DEF Laid
<1>7. b + r \in Nat /\ 0 \in Nat
  OBVIOUS
<1>8. \E x, y, z \in Nat : Laid(x, y, z)'
  BY <1>6, <1>7
<1>. QED
  BY <1>4, <1>5, <1>8 DEF Layout

LEMMA LayoutStep ==
    ASSUME RelayInv, Layout, RelayInv', RelayNext
    PROVE  Layout' /\ (Rotate \/ New)
<1>1. RelayType'
  BY DEF RelayInv
<1>2. CASE BeginAppend \/ Reopen \/ OpenFails \/ CrashRelay \/ RemoveEmpty
  BY <1>2, QuietLayout
<1>3. CASE Open
  BY <1>1, <1>3, OpenLayout
<1>4. CASE WriteRecord \/ WriteFails
  BY <1>4, WriteLayout
<1>5. CASE RollBack
  BY <1>5, RollBackLayout
<1>6. CASE Rotate
  BY <1>6, RotateLayout
<1>. QED
  BY <1>2, <1>3, <1>4, <1>5, <1>6 DEF RelayNext

----------------------------------------------------------------------------
(* The relay writes, and the mark stays what it means.                      *)
LEMMA ReviewFact ==
    ASSUME ModType
    PROVE  /\ review.unread \in Int /\ review.mark \in Int /\ serial \in Nat
           /\ review.before \subseteq Appends /\ review.before \subseteq Nat
           /\ review.after \subseteq Appends
<1>1. review \in Review /\ serial \in Nat
  BY DEF ModType
<1>2. /\ review.unread \in Int /\ review.mark \in Nat \cup {NoMark}
      /\ review.before \in SUBSET Appends /\ review.after \in SUBSET Appends
  BY <1>1 DEF Review
<1>3. NoMark \in Int /\ Appends \subseteq Nat
  BY LimitsAssumption DEF NoMark, Appends
<1>4. review.mark \in Int
  BY <1>2, <1>3
<1>5. review.before \subseteq Appends /\ review.after \subseteq Appends
  BY <1>2
<1>. HIDE DEF Appends
<1>6. review.before \subseteq Nat
  BY <1>3, <1>5
<1>. QED
  BY <1>1, <1>2, <1>4, <1>5, <1>6

LEMMA OlderRelay ==
    ASSUME RelayInv, ModType, Older, RelayNext
    PROVE  Older'
<1>1. review' = review
  BY DEF RelayNext, BeginAppend, Reopen, Open, OpenFails, Rotate, WriteRecord,
         WriteFails, RollBack, RemoveEmpty, CrashRelay, modSide, reviewing
<1>2. Len(carries) \in Nat
  BY CarriesFact DEF RelayInv
<1>3. CASE BeginAppend
  <2>1. Len(carries') = Len(carries) + 1
    BY <1>3 DEF BeginAppend, RelayInv, RelayType
  <2>2. \A a \in review.before : a < Len(carries')
    BY <1>2, <2>1, ReviewFact DEF Older
  <2>3. \A a \in review.before : a <= Len(carries')
    BY <1>2, <2>1, <2>2, ReviewFact
  <2>. QED
    BY <1>1, <2>2, <2>3 DEF Older
<1>4. CASE ~ BeginAppend
  <2>1. /\ carries' = carries
        /\ writer' \in {"opening", "open"} => writer \in {"opening", "open"}
    BY <1>4 DEF RelayNext, Reopen, Open, OpenFails, Rotate, WriteRecord,
                WriteFails, RollBack, RemoveEmpty, CrashRelay
  <2>. QED
    BY <1>1, <2>1 DEF Older
<1>. QED
  BY <1>3, <1>4

(* What is new in the inbox was not on disk when the review landed.         *)
LEMMA NewFact ==
    ASSUME RelayInv, RelayInv', ModType, Older, New
    PROVE  /\ \A n \in DOMAIN Cells(inbox') :
                 ~ EndsLine(Cells(inbox')[n]) /\ Cells(inbox')[n][1] \in review.before =>
                     n \in DOMAIN Cells(inbox) /\ Cells(inbox')[n] = Cells(inbox)[n]
           /\ \/ lines' = lines
              \/ \E a \in Appends :
                    /\ lines' = Append(lines, a)
                    /\ a \in review.before => TornAt(Cells(inbox), a)
<1>1. writer = "open" => Len(carries) \notin review.before
  <2>1. Len(carries) \in Nat
    BY CarriesFact DEF RelayInv
  <2>2. writer = "open" => \A a \in review.before : a < Len(carries)
    BY DEF Older
  <2>. QED
    BY <2>1, <2>2
<1>. QED
  BY <1>1 DEF New

(* The torn record of the inbox is that of before the step, or a new one.   *)
LEMMA TornStays ==
    ASSUME RelayInv, RelayInv', Layout, Keeps(Cells(inbox), Cells(inbox')),
           NEW n \in DOMAIN Cells(inbox'), n = Len(Cells(inbox')),
           ~ EndsLine(Cells(inbox')[n]), n \in DOMAIN Cells(inbox),
           Cells(inbox')[n] = Cells(inbox)[n]
    PROVE  n = Len(Cells(inbox))
<1>. PICK c, d : c = Cells(inbox) /\ d = Cells(inbox')
  OBVIOUS
<1>1. /\ c \in Contents /\ DOMAIN c = 1 .. Len(c) /\ Len(c) \in Nat
      /\ d \in Contents /\ DOMAIN d = 1 .. Len(d) /\ Len(d) \in Nat /\ Paired(c)
  <2>1. c \in Contents /\ d \in Contents
    BY CellsFact DEF RelayInv, RelayType
  <2>. QED
    BY <2>1, CellFact DEF Layout
<1>2. n \in 1 .. Len(c) /\ ~ EndsLine(c[n])
  BY <1>1
<1>3. SUFFICES ASSUME n # Len(c)
               PROVE  FALSE
  OBVIOUS
<1>4. n \in Nat /\ n + 1 \in 1 .. Len(c)
  <2>1. \A L \in Nat : \A m \in 1 .. L : m # L => m \in Nat /\ m + 1 \in 1 .. L
    OBVIOUS
  <2>. QED
    BY <1>1, <1>2, <1>3, <2>1
<1>5. ~ Even(n)
  BY <1>1, <1>2 DEF Paired
<1>6. Even(n + 1)
  BY <1>4, <1>5, EvenFact
<1>7. n + 1 \in Ends(c)
  BY <1>1, <1>4, <1>6, EndsFact DEF Paired
<1>8. n + 1 <= Len(d)
  BY <1>7 DEF Keeps
<1>. QED
  BY <1>4, <1>8

LEMMA MeasuredRelay ==
    ASSUME RelayInv, ModInv, Older, Measured, RelayInv', UNCHANGED modSide,
           Rotate \/ (New /\ Grows)
    PROVE  Measured'
<1>1. pos' = pos /\ poll' = poll /\ next' = next /\ review' = review
  BY DEF modSide, reviewing
<1>2. next \in Nat /\ rotations \in Nat /\ next <= rotations
  BY ModFiles DEF ModInv, ModType, Position
<1>3. CASE Rotate
  <2>1. rotations' = rotations + 1 /\ inbox' = NoFile
    BY <1>3 DEF Rotate
  <2>2. Cells(inbox') = <<>> /\ DOMAIN Cells(inbox') = {} /\ next' # rotations'
    BY <1>1, <1>2, <2>1 DEF Cells
  <2>3. next < rotations => next < rotations' /\ next # rotations' - 1
    BY <1>2, <2>1
  <2>. QED
    BY <1>1, <2>2, <2>3 DEF Measured
<1>4. CASE New /\ Grows
  <2>1. /\ rotated' = rotated /\ rotations' = rotations
        /\ Keeps(Cells(inbox), Cells(inbox'))
    BY <1>4, GrowLines
  <2>2. Cells(inbox) \in Contents /\ Cells(inbox') \in Contents
    BY CellsFact DEF RelayInv, RelayType
  <2>3. Ends(Cells(inbox)) \subseteq Ends(Cells(inbox'))
    BY <2>1, <2>2, KeepsFact
  <2>4. \A n \in DOMAIN Cells(inbox') :
            ~ EndsLine(Cells(inbox')[n]) /\ Cells(inbox')[n][1] \in review.before =>
                n \in DOMAIN Cells(inbox) /\ Cells(inbox')[n] = Cells(inbox)[n]
    BY <1>4, NewFact DEF ModInv
  <2>. QED
    BY <1>1, <2>1, <2>3, <2>4 DEF Measured
<1>. QED
  BY <1>3, <1>4

LEMMA FollowingRelay ==
    ASSUME RelayInv, ModInv, Following, RelayInv', UNCHANGED modSide, Rotate \/ Grows
    PROVE  Following'
<1>1. /\ pos' = pos /\ poll' = poll /\ next' = next /\ review' = review /\ skipped' = skipped
      /\ first' = first
  BY DEF modSide, reviewing
<1>2. next \in Nat /\ rotations \in Nat /\ next <= rotations
  BY ModFiles DEF ModInv, ModType, Position
<1>3. /\ Len(lines) \in Nat /\ Len(lines') \in Nat /\ Len(lines) <= Len(lines')
      /\ (\A k \in 1 .. Len(lines) : lines'[k] = lines[k])
      /\ rotations' >= rotations /\ rotations' \in Nat
  <2>1. CASE Rotate
    <3>1. lines' = lines /\ rotations' = rotations + 1
      BY <2>1 DEF Rotate
    <3>. QED
      BY <1>2, <3>1, ModFiles
  <2>2. CASE Grows
    <3>1. /\ Len(lines) <= Len(lines') /\ Len(lines') \in Nat /\ rotations' = rotations
          /\ \A k \in 1 .. Len(lines) : lines'[k] = lines[k]
      BY <2>2, GrowLines
    <3>. QED
      BY <1>2, <3>1, ModFiles
  <2>. QED
    BY <2>1, <2>2
<1>4. Doomed => Doomed'
  <2>1. \A i, j, k \in Nat : j <= k => (i < j => i < k) /\ (i < j - 1 => i < k - 1)
    OBVIOUS
  <2>2. rotations <= rotations'
    BY <1>2, <1>3
  <2>3. (next < rotations => next < rotations') /\ (next < rotations - 1 => next < rotations' - 1)
    BY <1>2, <1>3, <2>1, <2>2
  <2>. QED
    BY <1>1, <2>3 DEF Doomed
<1>5. ASSUME NEW L \in 0 .. Len(lines), Within(L)
      PROVE  L \in 0 .. Len(lines') /\ Within(L)'
  <2>1. L \in 0 .. Len(lines') /\ \A k \in 1 .. L : k \in 1 .. Len(lines)
    BY <1>3
  <2>2. \A k \in 1 .. L : lines'[k] = lines[k]
    BY <1>3, <2>1
  <2>. QED
    BY <1>1, <1>5, <2>1, <2>2 DEF Within
<1>. QED
  BY <1>1, <1>4, <1>5 DEF Following

(* A line that is added makes the inbox longer.                             *)
LEMMA SameLength ==
    ASSUME RelayInv, RelayInv', Layout, Layout', Grows, Len(Cells(inbox')) = Len(Cells(inbox))
    PROVE  lines' = lines
<1>. PICK c, d : c = Cells(inbox) /\ d = Cells(inbox')
  OBVIOUS
<1>1. c \in Contents /\ d \in Contents /\ Paired(c) /\ Paired(d) /\ Len(d) = Len(c)
  BY CellsFact DEF RelayInv, RelayType, Layout
<1>2. DOMAIN d = DOMAIN c
  BY <1>1, CellFact
<1>3. Ends(d) = Ends(c)
  BY <1>1, <1>2 DEF Ends, Paired
<1>4. SUFFICES ASSUME NEW a \in Appends, Adds(c, d, a)
               PROVE  FALSE
  BY DEF Grows
<1>. PICK e \in Ends(d) : \A n \in Ends(c) : n < e
  BY <1>4 DEF Adds
<1>5. e \in Nat /\ e < e
  BY <1>1, <1>3, EndsFact
<1>. QED
  BY <1>5

LEMMA DueRelay ==
    ASSUME RelayInv, ModInv, Layout, Older, Due, RelayInv', Layout', UNCHANGED modSide,
           Rotate \/ (New /\ Grows)
    PROVE  Due'
<1>1. /\ pos' = pos /\ anchor' = anchor /\ buffer' = buffer /\ next' = next
      /\ review' = review /\ serial' = serial
  BY DEF modSide, reviewing
<1>2. SUFFICES ASSUME review.mark # NoMark
               PROVE  Due'
  BY <1>1 DEF Due
<1>. PICK J \in 0 .. Len(lines) : Reached(J) /\ Below(J)
  BY <1>2 DEF Due
<1>3. /\ Len(lines) \in Nat /\ rotations \in Nat /\ next \in Nat /\ J \in Nat /\ J <= Len(lines)
      /\ \A k \in 1 .. J : k \in 1 .. Len(lines) /\ lines[k] \in Lined
      /\ serial \in Nat /\ review.mark \in Int
  <2>1. Len(lines) \in Nat /\ DOMAIN lines = 1 .. Len(lines) /\ rotations \in Nat
        /\ \A k \in DOMAIN lines : lines[k] \in Lined
    BY ModFiles
  <2>2. J \in Nat /\ J <= Len(lines) /\ \A k \in 1 .. J : k \in 1 .. Len(lines)
    BY <2>1
  <2>3. next \in Nat /\ serial \in Nat /\ review.mark \in Int
    BY ReviewFact DEF ModInv, ModType
  <2>. QED
    BY <2>1, <2>2, <2>3
<1>4. CASE Rotate
  <2>1. lines' = lines /\ rotations' = rotations + 1 /\ inbox' = NoFile
    BY <1>4 DEF Rotate
  <2>2. Cells(inbox') = <<>> /\ DOMAIN Cells(inbox') = {} /\ Ended(Cells(inbox')) = {}
    BY <2>1, NoneEnds DEF Cells
  <2>3. next >= rotations' - 1 => next >= rotations - 1
    BY <1>3, <2>1
  <2>4. Reached(J)'
    BY <1>1, <2>1, <2>2, <2>3 DEF Reached, Passed
  <2>5. Below(J)'
    BY <1>1, <2>1, <2>2 DEF Below
  <2>. QED
    BY <2>1, <2>4, <2>5 DEF Due
<1>5. CASE New /\ Grows
  <2>1. /\ Len(lines) <= Len(lines') /\ Len(lines') \in Nat /\ rotations' = rotations
        /\ \A k \in 1 .. Len(lines) : lines'[k] = lines[k]
        /\ \A y \in Ended(Cells(inbox')) : y \in Ended(Cells(inbox)) \/ \A x \in Lined : x < y
        /\ Keeps(Cells(inbox), Cells(inbox'))
    BY <1>5, GrowLines
  <2>2. Reached(J)'
    <3>1. \A k \in 1 .. J : lines'[k] = lines[k]
      BY <1>3, <2>1
    <3>2. \A k \in 1 .. J : (pos = 0 \/ next < rotations) =>
              \A y \in Ended(Cells(inbox')) : lines[k] < y
      BY <1>3, <2>1 DEF Reached
    <3>. QED
      BY <1>1, <2>1, <3>1, <3>2 DEF Reached, Passed
  <2>3. /\ \A n \in DOMAIN Cells(inbox') :
              ~ EndsLine(Cells(inbox')[n]) /\ Cells(inbox')[n][1] \in review.before =>
                  n \in DOMAIN Cells(inbox) /\ Cells(inbox')[n] = Cells(inbox)[n]
        /\ \/ lines' = lines
           \/ \E a \in Appends :
                 /\ lines' = Append(lines, a)
                 /\ a \in review.before => TornAt(Cells(inbox), a)
    BY <1>5, NewFact DEF ModInv
  <2>4. ASSUME NEW k \in J + 1 .. Len(lines'), lines'[k] \in review.before
        PROVE  serial + 2 * (k - 1 - J) < review.mark
    <3>1. CASE k <= Len(lines)
      <4>1. k \in J + 1 .. Len(lines) /\ k \in 1 .. Len(lines)
        BY <1>3, <3>1
      <4>. QED
        BY <2>1, <2>4, <4>1 DEF Below
    <3>2. CASE ~ (k <= Len(lines))
      <4>1. lines' # lines
        BY <1>3, <2>1, <3>2
      <4>. PICK a \in Appends : lines' = Append(lines, a) /\ (a \in review.before => TornAt(Cells(inbox), a))
        BY <2>3, <4>1
      <4>2. Len(lines') = Len(lines) + 1 /\ lines'[Len(lines) + 1] = a
        BY AppendedLine DEF RelayInv, RelayType
      <4>3. k = Len(lines) + 1
        BY <1>3, <2>1, <3>2, <4>2
      <4>4. TornAt(Cells(inbox), a) /\ a \in review.before
        BY <2>4, <4>2, <4>3
      <4>5. serial + 2 * (Len(lines) - J) < review.mark
        BY <4>4 DEF TornAt, Below
      <4>6. k - 1 - J = Len(lines) - J
        BY <1>3, <4>3
      <4>. QED
        BY <4>5, <4>6
    <3>. QED
      BY <3>1, <3>2
  <2>5. ASSUME NEW n \in DOMAIN Cells(inbox'), n = Len(Cells(inbox')),
               ~ EndsLine(Cells(inbox')[n]), Cells(inbox')[n][1] \in review.before
        PROVE  serial + 2 * (Len(lines') - J) < review.mark
    <3>1. n \in DOMAIN Cells(inbox) /\ Cells(inbox')[n] = Cells(inbox)[n]
      BY <2>3, <2>5
    <3>2. n = Len(Cells(inbox))
      BY <2>1, <2>5, <3>1, TornStays
    <3>3. lines' = lines
      BY <1>5, <2>5, <3>2, SameLength
    <3>4. serial + 2 * (Len(lines) - J) < review.mark
      BY <2>5, <3>1, <3>2 DEF Below
    <3>. QED
      BY <3>3, <3>4
  <2>6. Below(J)'
    BY <1>1, <2>4, <2>5 DEF Below
  <2>7. J \in 0 .. Len(lines')
    BY <1>3, <2>1
  <2>. QED
    BY <2>2, <2>6, <2>7 DEF Due
<1>. QED
  BY <1>4, <1>5

LEMMA MarkRelay ==
    ASSUME IInv, MarkInv, RelayNext, RelayInv'
    PROVE  MarkInv'
<1>1. RelayInv /\ ModInv /\ ModType /\ launches \in Nat /\ Layout /\ Older
  BY DEF IInv, ModInv, ModType, MarkInv
<1>2. Rotate \/ Grows
  BY <1>1, RelayStep
<1>3. Layout' /\ (Rotate \/ New)
  BY <1>1, LayoutStep
<1>4. UNCHANGED modSide
  BY DEF RelayNext, BeginAppend, Reopen, Open, OpenFails, Rotate, WriteRecord,
         WriteFails, RollBack, RemoveEmpty, CrashRelay
<1>5. Paired(buffer)' /\ serial' = 2 * Len(read')
  BY <1>4 DEF modSide, reviewing, MarkInv, Paired
<1>6. Older'
  BY <1>1, OlderRelay
<1>7. Measured'
  BY <1>1, <1>2, <1>3, <1>4, MeasuredRelay DEF MarkInv
<1>8. Due'
  BY <1>1, <1>2, <1>3, <1>4, DueRelay DEF MarkInv
<1>9. Following'
  BY <1>1, <1>2, <1>4, FollowingRelay DEF MarkInv
<1>. QED
  BY <1>3, <1>5, <1>6, <1>7, <1>8, <1>9 DEF MarkInv

----------------------------------------------------------------------------
(* The mod reads, and the mark stays what it means.                         *)
LEMMA PairedRest ==
    ASSUME NEW f \in Contents, Paired(f), NEW p \in Nat, Even(p), NEW g, Behind(g, f, p)
    PROVE  Paired(g)
<1>1. /\ g \in Contents /\ p <= Len(f) /\ Len(g) = Len(f) - p
      /\ \A i \in 1 .. Len(g) : g[i] = f[p + i]
  BY DEF Behind
<1>2. DOMAIN f = 1 .. Len(f) /\ Len(f) \in Nat /\ DOMAIN g = 1 .. Len(g) /\ Len(g) \in Nat
  BY <1>1, CellFact
<1>3. SUFFICES ASSUME NEW n \in 1 .. Len(g)
               PROVE  EndsLine(g[n]) <=> Even(n)
  BY <1>2 DEF Paired
<1>4. n \in Nat /\ p + n \in 1 .. Len(f)
  <2>1. \A L, M \in Nat : M = L - p => \A m \in 1 .. M : m \in Nat /\ p + m \in 1 .. L
    OBVIOUS
  <2>. QED
    BY <1>1, <1>2, <2>1
<1>5. EndsLine(f[p + n]) <=> Even(p + n)
  BY <1>2, <1>4 DEF Paired
<1>. PICK i \in Nat : p = 2 * i
  BY DEF Even
<1>6. Even(p + n) <=> Even(n)
  BY <1>4, EvenFact
<1>. QED
  BY <1>1, <1>5, <1>6

(* The position is behind a line of the file it is in.                      *)
LEMMA EvenPosition ==
    ASSUME RelayInv, ModInv, Layout, pos > 0, NEW f \in {inbox, rotated}, Anchored(f)
    PROVE  /\ f \in Contents /\ Cells(f) = f /\ Paired(f)
           /\ pos \in Ends(f) /\ Even(pos) /\ f[pos][1] = Passed /\ Passed \in Ended(f)
           /\ pos <= Len(f) /\ Behind(Rest(f), f, pos)
<1>1. f # NoFile /\ pos <= Len(f)
  BY DEF Anchored
<1>2. f \in Contents /\ Cells(f) = f
  BY <1>1, CellsFact DEF RelayInv, RelayType
<1>3. Paired(f)
  BY <1>2 DEF Layout
<1>4. pos \in Ends(f) /\ f[pos][1] = Passed /\ Passed \in Ended(f)
  BY <1>2, AnchoredEnd DEF ModInv
<1>5. Even(pos)
  BY <1>3, <1>4 DEF Paired, Ends
<1>6. Behind(Rest(f), f, pos)
  BY <1>1, <1>2, RestPart DEF ModInv, ModType, Behind
<1>. QED
  BY <1>1, <1>2, <1>3, <1>4, <1>5, <1>6

LEMMA LayoutUnchanged ==
    ASSUME Layout, UNCHANGED relaySide
    PROVE  Layout'
<1>1. inbox' = inbox /\ rotated' = rotated /\ lines' = lines
  BY DEF relaySide
<1>2. \E b, r, q \in Nat : Laid(b, r, q)'
  <2>. PICK b \in Nat, r \in Nat, q \in Nat : Laid(b, r, q)
    BY DEF Layout
  <2>1. Laid(b, r, q)'
    BY <1>1 DEF Laid
  <2>. QED
    BY <2>1
<1>. QED
  BY <1>1, <1>2 DEF Layout

(* Steps of the mod that consume nothing.                                   *)
LEMMA ReadsNothing ==
    ASSUME MarkInv, UNCHANGED relaySide, review' = review, serial' = serial, read' = read,
           first' = first, poll' \notin {"sized", "moved", "counted"}, Paired(buffer'),
           \A J \in 0 .. Len(lines) : Reached(J) => Reached(J)',
           Doomed => Doomed' \/ skipped', skipped => skipped'
    PROVE  MarkInv'
<1>1. /\ inbox' = inbox /\ rotated' = rotated /\ lines' = lines /\ rotations' = rotations
      /\ carries' = carries /\ writer' = writer
  BY DEF relaySide
<1>2. Layout'
  BY LayoutUnchanged DEF MarkInv
<1>3. Older' /\ Measured'
  BY <1>1 DEF MarkInv, Older, Measured
<1>4. Due'
  <2>1. \A J \in 0 .. Len(lines) : Below(J) => Below(J)'
    BY <1>1 DEF Below
  <2>. QED
    BY <1>1, <2>1 DEF MarkInv, Due
<1>5. Following'
  <2>1. \A L \in 0 .. Len(lines) : Within(L) => Within(L)'
    BY <1>1 DEF Within
  <2>. QED
    BY <1>1, <2>1 DEF MarkInv, Following
<1>. QED
  BY <1>2, <1>3, <1>4, <1>5 DEF MarkInv

LEMMA BeginMark ==
    ASSUME RelayInv, ModInv, MarkInv, BeginsInbox
    PROVE  MarkInv'
<1>1. /\ pos = 0 /\ inbox # NoFile /\ pos' = 0 /\ buffer' = inbox /\ poll' = "current"
      /\ next' = rotations /\ skipped' = (skipped \/ rotations # next)
      /\ UNCHANGED relaySide /\ review' = review /\ serial' = serial /\ read' = read
      /\ first' = first
  BY DEF BeginsInbox, reviewing
<1>2. Cells(inbox) = inbox /\ Paired(buffer')
  BY <1>1, CellsFact DEF RelayInv, RelayType, MarkInv, Layout
<1>3. inbox' = inbox /\ lines' = lines /\ rotations' = rotations
  BY <1>1 DEF relaySide
<1>4. ASSUME NEW J \in 0 .. Len(lines), Reached(J)
      PROVE  Reached(J)'
  <2>1. \A k \in 1 .. J : \A y \in Ended(Cells(inbox)) : lines[k] < y
    BY <1>1, <1>4 DEF Reached
  <2>. QED
    BY <1>1, <1>2, <1>3, <2>1 DEF Reached
<1>5. Doomed => skipped'
  <2>1. Doomed => next # rotations
    <3>1. next \in Nat /\ rotations \in Nat
      BY ModFiles DEF ModInv, ModType
    <3>. QED
      BY <1>1, <3>1 DEF Doomed
  <2>. QED
    BY <1>1, <2>1
<1>6. skipped => skipped'
  BY <1>1
<1>. QED
  BY <1>1, <1>2, <1>4, <1>5, <1>6, ReadsNothing

LEMMA PollCurrentMark ==
    ASSUME RelayInv, ModInv, MarkInv, PollCurrent
    PROVE  MarkInv'
<1>1. CASE pos = 0 /\ inbox # NoFile
  <2>1. BeginsInbox
    BY <1>1 DEF PollCurrent, BeginsInbox
  <2>. QED
    BY <2>1, BeginMark
<1>2. CASE pos > 0 /\ Continues(inbox)
  <2>1. /\ UNCHANGED relaySide /\ review' = review /\ serial' = serial /\ read' = read
        /\ first' = first /\ poll' = "current" /\ buffer' = Rest(inbox)
        /\ pos' = pos /\ anchor' = anchor /\ next' = next /\ skipped' = skipped
        /\ inbox' = inbox /\ lines' = lines /\ rotations' = rotations
    BY <1>2 DEF PollCurrent, reviewing, relaySide, ModInv, ModType
  <2>2. Anchored(inbox) /\ next = rotations
    BY <1>2, OwnInbox
  <2>3. inbox \in Contents /\ Cells(inbox) = inbox /\ Paired(inbox) /\ Even(pos)
        /\ Behind(Rest(inbox), inbox, pos) /\ Passed \in Ended(inbox) /\ pos \in Nat
    BY <1>2, <2>2, EvenPosition DEF MarkInv, ModInv, ModType
  <2>4. Paired(buffer')
    BY <2>1, <2>3, PairedRest
  <2>5. \A y \in Ended(buffer') : Passed < y /\ Passed \in Nat /\ y \in Nat
    <3>1. InOrder(inbox) /\ ModType /\ Position
      BY <2>3 DEF RelayInv, Sections, ModInv
    <3>2. \A y \in Ended(Rest(inbox)) : Passed < y
      BY <1>2, <2>2, <2>3, <3>1, RestBehind
    <3>3. Ended(Rest(inbox)) \subseteq Nat /\ Ended(inbox) \subseteq Nat
      BY <2>3, EndsFact DEF Behind
    <3>. QED
      BY <2>1, <2>3, <3>2, <3>3
  <2>6. ASSUME NEW J \in 0 .. Len(lines), Reached(J)
        PROVE  Reached(J)'
    <3>1. \A k \in 1 .. J : lines[k] <= Passed
      <4>1. next >= rotations - 1
        BY <2>2, ModFiles
      <4>. QED
        BY <1>2, <2>6, <4>1 DEF Reached
    <3>2. \A k \in 1 .. J : lines[k] \in Nat
      BY ModFiles
    <3>3. \A k \in 1 .. J : \A y \in Ended(buffer') : lines[k] < y
      <4>1. \A x, y, z \in Nat : x <= y /\ y < z => x < z
        OBVIOUS
      <4>. QED
        BY <2>5, <3>1, <3>2, <4>1
    <3>. QED
      BY <2>1, <2>6, <3>3 DEF Reached, Passed
  <2>7. ~ Doomed
    <3>1. rotations \in Nat
      BY ModFiles
    <3>. QED
      BY <1>2, <2>2, <3>1 DEF Doomed
  <2>. QED
    BY <2>1, <2>4, <2>6, <2>7, ReadsNothing
<1>3. CASE pos > 0 /\ ~ Continues(inbox)
  <2>1. /\ UNCHANGED relaySide /\ review' = review /\ serial' = serial /\ read' = read
        /\ first' = first /\ poll' = "rotated" /\ buffer' = buffer
        /\ pos' = pos /\ anchor' = anchor /\ next' = next /\ skipped' = skipped
        /\ inbox' = inbox /\ lines' = lines /\ rotations' = rotations
    BY <1>3 DEF PollCurrent, reviewing, relaySide, ModInv, ModType
  <2>2. \A J \in 0 .. Len(lines) : Reached(J) => Reached(J)'
    BY <2>1 DEF Reached, Passed
  <2>3. Paired(buffer')
    BY <2>1 DEF MarkInv
  <2>4. Doomed => Doomed'
    BY <2>1 DEF Doomed
  <2>. QED
    BY <2>1, <2>2, <2>3, <2>4, ReadsNothing
<1>. QED
  BY <1>1, <1>2, <1>3 DEF PollCurrent

LEMMA PollRotatedMark ==
    ASSUME RelayInv, ModInv, MarkInv, PollRotated
    PROVE  MarkInv'
<1>1. /\ UNCHANGED relaySide /\ review' = review /\ serial' = serial /\ read' = read
      /\ first' = first /\ next' = next /\ skipped' = skipped
      /\ inbox' = inbox /\ lines' = lines /\ rotations' = rotations /\ poll = "rotated"
  BY DEF PollRotated, reviewing, relaySide
<1>2. pos > 0 /\ next < rotations /\ next \in Nat /\ rotations \in Nat /\ pos \in Nat
  BY <1>1, ModFiles DEF ModInv, Turned, ModType
<1>3. CASE Continues(rotated)
  <2>1. poll' = "draining" /\ buffer' = Rest(rotated) /\ pos' = pos /\ anchor' = anchor
    BY <1>3 DEF PollRotated
  <2>2. Anchored(rotated) /\ next = rotations - 1
    BY <1>2, <1>3, OwnInbox
  <2>3. rotated \in Contents /\ Cells(rotated) = rotated /\ Paired(rotated) /\ Even(pos)
        /\ Behind(Rest(rotated), rotated, pos) /\ Passed \in Ended(rotated)
    BY <1>2, <2>2, EvenPosition DEF MarkInv
  <2>4. Paired(buffer')
    BY <1>2, <2>1, <2>3, PairedRest
  <2>5. \A y \in Ended(buffer') : Passed < y /\ Passed \in Nat /\ y \in Nat
    <3>1. InOrder(rotated) /\ ModType /\ Position
      BY <2>3 DEF RelayInv, Sections, ModInv
    <3>2. \A y \in Ended(Rest(rotated)) : Passed < y
      BY <1>2, <2>2, <2>3, <3>1, RestBehind
    <3>3. Ended(Rest(rotated)) \subseteq Nat /\ Ended(rotated) \subseteq Nat
      BY <2>3, EndsFact DEF Behind
    <3>. QED
      BY <2>1, <2>3, <3>2, <3>3
  <2>6. ASSUME NEW J \in 0 .. Len(lines), Reached(J)
        PROVE  Reached(J)'
    <3>1. \A k \in 1 .. J : lines[k] <= Passed
      <4>1. next >= rotations - 1
        BY <1>2, <2>2
      <4>. QED
        BY <1>2, <2>6, <4>1 DEF Reached
    <3>2. \A k \in 1 .. J : lines[k] \in Nat
      BY ModFiles
    <3>3. \A k \in 1 .. J : \A y \in Ended(buffer') : lines[k] < y
      <4>1. \A x, y, z \in Nat : x <= y /\ y < z => x < z
        OBVIOUS
      <4>. QED
        BY <2>5, <3>1, <3>2, <4>1
    <3>. QED
      BY <1>1, <2>1, <2>6, <3>3 DEF Reached, Passed
  <2>7. ~ Doomed
    BY <1>2, <2>2 DEF Doomed
  <2>. QED
    BY <1>1, <2>1, <2>4, <2>6, <2>7, ReadsNothing
<1>4. CASE ~ Continues(rotated)
  <2>1. poll' = "start" /\ buffer' = buffer /\ pos' = 0
    BY <1>4 DEF PollRotated
  <2>2. ASSUME NEW J \in 0 .. Len(lines), Reached(J)
        PROVE  Reached(J)'
    BY <1>1, <1>2, <2>1, <2>2 DEF Reached
  <2>3. Paired(buffer')
    BY <2>1 DEF MarkInv
  <2>4. Doomed'
    BY <1>1, <1>2, <2>1 DEF Doomed
  <2>. QED
    BY <1>1, <2>1, <2>2, <2>3, <2>4, ReadsNothing
<1>. QED
  BY <1>3, <1>4

LEMMA PollStartMark ==
    ASSUME RelayInv, ModInv, MarkInv, PollStart
    PROVE  MarkInv'
<1>1. CASE inbox = NoFile
  <2>1. /\ UNCHANGED relaySide /\ review' = review /\ serial' = serial /\ read' = read
        /\ first' = first /\ next' = next /\ skipped' = skipped /\ pos' = pos
        /\ anchor' = anchor /\ buffer' = buffer /\ poll' = "idle" /\ poll = "start"
        /\ inbox' = inbox /\ lines' = lines /\ rotations' = rotations
    BY <1>1 DEF PollStart, reviewing, relaySide
  <2>2. \A J \in 0 .. Len(lines) : Reached(J) => Reached(J)'
    BY <2>1 DEF Reached, Passed
  <2>3. Paired(buffer') /\ (Doomed => Doomed')
    BY <2>1 DEF MarkInv, Doomed
  <2>. QED
    BY <2>1, <2>2, <2>3, ReadsNothing
<1>2. CASE inbox # NoFile
  <2>1. BeginsInbox
    BY <1>2 DEF PollStart, BeginsInbox, ModInv, Turned
  <2>. QED
    BY <2>1, BeginMark
<1>. QED
  BY <1>1, <1>2

LEMMA NothingPaired == Paired(<<>>)
BY DEF Paired

LEMMA PauseMark ==
    ASSUME RelayInv, ModInv, MarkInv, StopPoll \/ EndPoll \/ Unblock
    PROVE  MarkInv'
<1>1. /\ UNCHANGED relaySide /\ review' = review /\ serial' = serial /\ read' = read
      /\ first' = first /\ skipped' = skipped
      /\ inbox' = inbox /\ lines' = lines /\ rotations' = rotations
      /\ poll' \notin {"sized", "moved", "counted"}
  BY DEF StopPoll, EndPoll, Unblock, reviewing, relaySide
<1>2. CASE EndPoll /\ poll = "draining"
  <2>1. pos' = 0 /\ buffer' = <<>> /\ next < rotations
    BY <1>2 DEF EndPoll, ModInv, Turned
  <2>2. Ended(buffer') = {}
    BY <2>1, NoneEnds
  <2>3. ASSUME NEW J \in 0 .. Len(lines), Reached(J)
        PROVE  Reached(J)'
    BY <1>1, <2>1, <2>2, <2>3 DEF Reached
  <2>4. Paired(buffer') /\ ~ Doomed
    BY <1>2, <2>1, NothingPaired DEF Doomed
  <2>. QED
    BY <1>1, <2>3, <2>4, ReadsNothing
<1>3. CASE StopPoll \/ Unblock \/ (EndPoll /\ poll # "draining")
  <2>1. /\ pos' = pos /\ anchor' = anchor /\ next' = next
        /\ buffer' = <<>> \/ buffer' = buffer
    BY <1>3 DEF StopPoll, EndPoll, Unblock
  <2>2. Ended(buffer') \subseteq Ended(buffer)
    BY <2>1, NoneEnds
  <2>3. ASSUME NEW J \in 0 .. Len(lines), Reached(J)
        PROVE  Reached(J)'
    BY <1>1, <2>1, <2>2, <2>3 DEF Reached, Passed
  <2>4. Paired(buffer')
    BY <2>1, NothingPaired DEF MarkInv
  <2>5. Doomed => Doomed'
    <3>1. Doomed => Unblock /\ poll = "idle"
      BY <1>3 DEF Doomed, StopPoll, EndPoll, Unblock
    <3>2. Unblock => poll' = poll
      BY DEF Unblock
    <3>. QED
      BY <1>1, <2>1, <3>1, <3>2 DEF Doomed
  <2>. QED
    BY <1>1, <2>3, <2>4, <2>5, ReadsNothing
<1>. QED
  BY <1>2, <1>3

(* A line is two cells of the buffer.                                       *)
LEMMA LineOfTwo ==
    ASSUME ModType, Paired(buffer), LineEnds # {}
    PROVE  LineEnd = 2 /\ 2 \in Ends(buffer)
<1>1. buffer \in Contents /\ DOMAIN buffer = 1 .. Len(buffer) /\ Len(buffer) \in Nat
  BY CellFact DEF ModType
<1>2. /\ LineEnd \in 1 .. Len(buffer) /\ EndsLine(buffer[LineEnd])
      /\ \A n \in Ends(buffer) : LineEnd <= n
  BY <1>1, FirstEnd
<1>. PICK e \in 1 .. Len(buffer) : e = LineEnd
  BY <1>2
<1>3. Even(e)
  BY <1>1, <1>2 DEF Paired
<1>. PICK i \in Nat : e = 2 * i
  BY <1>3 DEF Even
<1>4. 2 \in 1 .. Len(buffer) /\ e >= 2
  <2>1. \A L \in Nat : 2 * i \in 1 .. L => 2 \in 1 .. L /\ 2 * i >= 2
    OBVIOUS
  <2>2. 2 * i \in 1 .. Len(buffer)
    OBVIOUS
  <2>3. 2 \in 1 .. Len(buffer) /\ 2 * i >= 2
    BY <1>1, <2>1, <2>2
  <2>. QED
    BY <2>3
<1>5. Even(2)
  <2>1. 1 \in Nat /\ 2 = 2 * 1
    OBVIOUS
  <2>. QED
    BY <2>1 DEF Even
<1>6. 2 \in Ends(buffer)
  BY <1>1, <1>4, <1>5, EndsFact DEF Paired
<1>7. e <= 2
  BY <1>2, <1>6
<1>. QED
  BY <1>4, <1>6, <1>7

LEMMA ConsumeMark ==
    ASSUME RelayInv, ModInv, MarkInv, ConsumeLine
    PROVE  MarkInv'
<1>. PICK a : a = buffer[2][1]
  OBVIOUS
<1>1. ModType /\ Position /\ Buffered /\ Paired(buffer) /\ LineEnds # {}
  BY DEF ModInv, MarkInv, ConsumeLine
<1>2. LineEnd = 2 /\ 2 \in Ends(buffer)
  BY <1>1, LineOfTwo
<1>3. /\ UNCHANGED relaySide /\ review' = review /\ first' = first /\ next' = next
      /\ skipped' = skipped /\ poll' = poll /\ poll \in {"current", "draining"}
      /\ inbox' = inbox /\ lines' = lines /\ rotations' = rotations
      /\ carries' = carries /\ writer' = writer
      /\ read' = Append(read, a) /\ pos' = pos + 2 /\ serial' = serial + 2
      /\ anchor' = LastCells(anchor \o SubSeq(buffer, 1, 2))
      /\ buffer' = SubSeq(buffer, 2 + 1, Len(buffer))
  BY <1>2 DEF ConsumeLine, reviewing, relaySide
<1>4. /\ buffer \in Contents /\ anchor \in Contents /\ InOrder(buffer) /\ 2 <= Len(buffer)
      /\ 2 \in Nat /\ 2 >= 1
  BY <1>1, <1>2, EndsFact DEF ModType, Buffered
<1>5. Passed' = a
  <2>. PICK b \in Contents : b = LastCells(anchor \o SubSeq(buffer, 1, 2)) /\ b[Len(b)] = buffer[2]
    BY <1>4, NextAnchor
  <2>. QED
    BY <1>3 DEF Passed
<1>6. /\ Behind(buffer', buffer, 2)
      /\ \A n \in Ends(buffer') : 2 + n \in Ends(buffer) /\ buffer'[n] = buffer[2 + n]
      /\ buffer' \in Contents
  <2>1. \A g : g = SubSeq(buffer, 2 + 1, Len(buffer)) => Behind(g, buffer, 2)
    <3>. TAKE g
    <3>. HAVE g = SubSeq(buffer, 2 + 1, Len(buffer))
    <3>1. 2 \in Nat /\ Len(buffer) \in Nat /\ Len(buffer) <= Len(buffer) /\ 2 <= Len(buffer)
      BY <1>4, CellFact
    <3>. DEFINE s == SubSeq(buffer, 2 + 1, Len(buffer))
    <3>2. /\ s \in Contents
          /\ Len(s) = IF 2 <= Len(buffer) THEN Len(buffer) - 2 ELSE 0
          /\ \A i \in 1 .. Len(buffer) - 2 : s[i] = buffer[2 + i]
      BY Zenon, <1>4, <3>1, PartFact
    <3>3. g = s
      OBVIOUS
    <3>. HIDE DEF s
    <3>4. Len(s) = Len(buffer) - 2 /\ s \in Contents /\ \A i \in 1 .. Len(s) : s[i] = buffer[2 + i]
      BY <3>1, <3>2
    <3>. QED
      BY <3>1, <3>3, <3>4 DEF Behind
  <2>2. Behind(buffer', buffer, 2)
    BY <1>3, <2>1
  <2>3. \A n \in Ends(buffer') : 2 + n \in Ends(buffer) /\ buffer'[n] = buffer[2 + n]
    BY <1>4, <2>2, RestFact
  <2>. QED
    BY <2>2, <2>3 DEF Behind
<1>7. Paired(buffer')
  <2>1. Even(2)
    <3>1. 1 \in Nat /\ 2 = 2 * 1
      OBVIOUS
    <3>. QED
      BY <3>1 DEF Even
  <2>. QED
    BY <1>1, <1>4, <1>6, <2>1, PairedRest
<1>8. \A y \in Ended(buffer') : a < y
  <2>. TAKE y \in Ended(buffer')
  <2>. PICK n \in Ends(buffer') : y = buffer'[n][1]
    BY <1>6, EndsFact
  <2>1. n \in Nat /\ n >= 1 /\ 2 < 2 + n
    <3>1. n \in 1 .. Len(buffer')
      BY <1>6, EndsFact
    <3>. QED
      BY <3>1
  <2>2. 2 + n \in Ends(buffer) /\ y = buffer[2 + n][1]
    BY <1>6
  <2>. QED
    BY <1>2, <1>4, <2>1, <2>2 DEF InOrder
<1>9. serial \in Nat /\ serial = 2 * Len(read) /\ review.mark \in Int /\ pos \in Nat
  BY <1>1, ReviewFact DEF MarkInv, ModType
<1>10. serial' = 2 * Len(read')
  <2>1. Len(read') = Len(read) + 1 /\ Len(read) \in Nat
    BY <1>1, <1>3 DEF ModType
  <2>. QED
    BY <1>3, <1>9, <2>1
<1>11. Layout'
  BY <1>3, LayoutUnchanged DEF MarkInv
<1>12. Older' /\ Measured'
  BY <1>3 DEF MarkInv, Older, Measured
<1>13. Following'
  <2>1. \A L \in 0 .. Len(lines) : Within(L) => Within(L)'
    BY <1>3 DEF Within
  <2>2. ~ Doomed
    BY <1>3 DEF Doomed
  <2>. QED
    BY <1>3, <2>1, <2>2 DEF MarkInv, Following
<1>14. Due'
  <2>1. SUFFICES ASSUME review.mark # NoMark
                 PROVE  Due'
    BY <1>3 DEF Due
  <2>. PICK J \in 0 .. Len(lines) : Reached(J) /\ Below(J)
    BY <2>1 DEF MarkInv, Due
  <2>2. a \in Ended(buffer) /\ a \in Lined
    BY <1>1, <1>2, <1>4, EndsFact DEF Buffered
  <2>3. /\ Len(lines) \in Nat /\ DOMAIN lines = 1 .. Len(lines)
        /\ \A k \in 1 .. Len(lines) : lines[k] \in Nat
        /\ \A j, k \in 1 .. Len(lines) : j < k => lines[j] < lines[k]
    BY ModFiles
  <2>. PICK K \in 1 .. Len(lines) : a = lines[K]
    BY <2>2, <2>3 DEF Lined
  <2>4. J \in Nat /\ K \in Nat /\ J < K
    <3>1. J \in Nat /\ K \in Nat /\ (~ (J < K) => K \in 1 .. J)
      BY <2>3
    <3>2. K \in 1 .. J => a < a
      BY <2>2 DEF Reached
    <3>3. a \in Nat
      BY <2>3
    <3>. QED
      BY <3>1, <3>2, <3>3
  <2>5. Reached(K)'
    <3>1. \A k \in 1 .. K : lines[k] \in Nat /\ lines[k] <= a
      <4>. TAKE k \in 1 .. K
      <4>1. k \in 1 .. Len(lines) /\ (k = K \/ k < K)
        BY <2>3
      <4>. QED
        BY <2>3, <4>1
    <3>2. \A y \in Ended(buffer') : y \in Nat
      BY <1>6, EndsFact
    <3>3. next < rotations => \A z \in Ended(Cells(inbox)) : a < z /\ z \in Nat
      BY <1>1, <2>2, ModFiles DEF Buffered
    <3>4. \A x, y, z \in Nat : x <= y /\ y < z => x < z
      OBVIOUS
    <3>5. a \in Nat
      BY <2>3
    <3>6. \A k \in 1 .. K : /\ \A y \in Ended(buffer') : lines[k] < y
                            /\ next < rotations => \A y \in Ended(Cells(inbox)) : lines[k] < y
      BY <1>8, <3>1, <3>2, <3>3, <3>4, <3>5
    <3>7. pos' # 0
      BY <1>3, <1>9
    <3>. QED
      BY <1>3, <1>5, <3>1, <3>6, <3>7 DEF Reached
  <2>6. \A k \in Int : k >= K => serial' + 2 * (k - K) <= serial + 2 * (k - J)
    BY <1>3, <1>9, <2>4
  <2>7. Below(K)'
    <3>1. ASSUME NEW k \in K + 1 .. Len(lines), lines[k] \in review.before
          PROVE  serial' + 2 * (k - 1 - K) < review.mark
      <4>1. k \in J + 1 .. Len(lines) /\ k - 1 >= K /\ k - 1 \in Int
        BY <2>3, <2>4
      <4>2. serial + 2 * (k - 1 - J) < review.mark
        BY <3>1, <4>1 DEF Below
      <4>3. serial' + 2 * (k - 1 - K) <= serial + 2 * (k - 1 - J)
        BY <2>6, <4>1
      <4>4. \A x, y, z \in Int : x <= y /\ y < z => x < z
        OBVIOUS
      <4>5. serial' + 2 * (k - 1 - K) \in Int /\ serial + 2 * (k - 1 - J) \in Int
        BY <1>3, <1>9, <2>4, <4>1
      <4>. QED
        BY <1>9, <4>2, <4>3, <4>4, <4>5
    <3>2. ASSUME serial + 2 * (Len(lines) - J) < review.mark
          PROVE  serial' + 2 * (Len(lines) - K) < review.mark
      <4>1. Len(lines) >= K /\ Len(lines) \in Int
        BY <2>3
      <4>2. serial' + 2 * (Len(lines) - K) <= serial + 2 * (Len(lines) - J)
        BY <2>6, <4>1
      <4>4. \A x, y, z \in Int : x <= y /\ y < z => x < z
        OBVIOUS
      <4>5. serial' + 2 * (Len(lines) - K) \in Int /\ serial + 2 * (Len(lines) - J) \in Int
        BY <1>3, <1>9, <2>4, <4>1
      <4>. QED
        BY <1>9, <3>2, <4>2, <4>4, <4>5
    <3>. QED
      BY <1>3, <3>1, <3>2 DEF Below
  <2>8. K \in 0 .. Len(lines')
    BY <1>3, <2>3
  <2>. QED
    BY <2>5, <2>7, <2>8 DEF Due
<1>. QED
  BY <1>7, <1>10, <1>11, <1>12, <1>13, <1>14 DEF MarkInv

----------------------------------------------------------------------------
(* The mod counts, and sets the mark.                                       *)
LEMMA OnDiskFact ==
    ASSUME RelayInv
    PROVE  /\ Lined \subseteq OnDisk
           /\ \A a \in OnDisk : a \in Lined \/ \E n \in DOMAIN Cells(inbox) : a = Cells(inbox)[n][1]
<1>1. ToSet(lines) = Lined
  BY DEF ToSet, Lined
<1>2. inbox # NoFile => Cells(inbox) = inbox
  BY DEF Cells
<1>. QED
  BY <1>1, <1>2 DEF OnDisk, ToSet

LEMMA BlurredFact ==
    ASSUME RelayInv
    PROVE  /\ Size(inbox) = Len(Cells(inbox))
           /\ \/ Blurred = Appends
              \/ Cells(inbox) = <<>>
              \/ EndsLine(Cells(inbox)[Len(Cells(inbox))])
<1>1. CASE inbox = NoFile
  BY <1>1, NoneEnds DEF Size, Cells
<1>2. CASE inbox # NoFile
  BY <1>2 DEF Size, Cells, Blurred, Last
<1>. QED
  BY <1>1, <1>2

(* The append under way is not on disk yet.                                 *)
LEMMA OlderThanNext ==
    ASSUME RelayInv, Layout, NEW a \in OnDisk
    PROVE  a <= Len(carries) /\ (writer \in {"opening", "open"} => a < Len(carries))
<1>. PICK c : c = Cells(inbox)
  OBVIOUS
<1>1. c \in Contents /\ DOMAIN c = 1 .. Len(c) /\ Len(c) \in Nat /\ Paired(c)
  BY ModFiles, CellFact DEF Layout
<1>2. CASE a \in Lined
  BY <1>2, LinedBounded DEF RelayInv, Ahead
<1>3. CASE a \notin Lined
  <2>. PICK n \in DOMAIN c : a = c[n][1]
    BY <1>3, OnDiskFact
  <2>1. a <= Len(carries)
    BY DEF RelayInv, Numbered
  <2>2. ~ EndsLine(c[n])
    <3>1. EndsLine(c[n]) => a \in Ended(c)
      BY <1>1, EndsFact
    <3>. QED
      BY <1>3, <3>1 DEF RelayInv, Sections
  <2>3. n = Len(c)
    <3>. PICK b \in Nat, r \in Nat, q \in Nat :
                Laid(b, r, q) /\ b + r + q = Len(lines) /\ Len(c) \in {2 * q, 2 * q + 1}
      BY LayoutFact
    <3>4. \A m \in DOMAIN c : EndsLine(c[m]) \/ \E i \in 1 .. q + 1 : m = 2 * i - 1
      BY <1>1, EvenEnds
    <3>. PICK i \in 1 .. q + 1 : n = 2 * i - 1
      BY <2>2, <3>4
    <3>1. i \notin 1 .. q
      <4>1. ASSUME i \in 1 .. q
            PROVE  FALSE
        <5>1. a = lines[b + r + i]
          BY <4>1 DEF Laid
        <5>2. b + r + i \in 1 .. Len(lines)
          BY <4>1
        <5>. QED
          BY <1>3, <5>1, <5>2, ModFiles
      <4>. QED
        BY <4>1
    <3>2. n = 2 * q + 1
      BY <3>1
    <3>3. \A L \in Nat : L \in {2 * q, 2 * q + 1} /\ n \in 1 .. L => n = L
      BY <3>2
    <3>. QED
      BY <1>1, <3>3
  <2>4. writer # "open"
    <3>1. writer = "open" => slot = Len(c) /\ (slot > 0 => EndsLine(c[slot]))
      BY OpenInbox
    <3>2. Len(c) > 0
      BY <1>1, <2>3
    <3>. QED
      BY <2>2, <2>3, <3>1, <3>2
  <2>5. writer = "opening" => a < Len(carries)
    BY <2>2, <2>3 DEF RelayInv, Ahead
  <2>. QED
    BY <2>1, <2>4, <2>5
<1>. QED
  BY <1>2, <1>3

LEMMA LandMark ==
    ASSUME RelayInv, ModInv, MarkInv, LandReview
    PROVE  MarkInv'
<1>1. UNCHANGED Counting /\ review = NotLanded /\ poll' = "sized"
      /\ review' = [review EXCEPT !.unread = Size(inbox) - pos, !.before = OnDisk,
                                 !.after = Blurred]
  BY DEF LandReview
<1>2. /\ review'.mark = NoMark /\ review'.unread = Size(inbox) - pos
      /\ review'.before = OnDisk /\ review'.after = Blurred
  BY <1>1 DEF NotLanded
<1>3. /\ UNCHANGED relaySide /\ inbox' = inbox /\ pos' = pos /\ next' = next
      /\ carries' = carries /\ writer' = writer /\ rotations' = rotations
      /\ buffer' = buffer /\ serial' = serial /\ read' = read
  BY <1>1 DEF Counting, relaySide
<1>4. Layout'
  BY <1>3, LayoutUnchanged DEF MarkInv
<1>5. Older'
  BY <1>2, <1>3, OlderThanNext DEF MarkInv, Older
<1>6. Measured'
  <2>. PICK c : c = Cells(inbox)
    OBVIOUS
  <2>1. c \in Contents /\ DOMAIN c = 1 .. Len(c) /\ Len(c) \in Nat /\ pos \in Nat
    BY ModFiles, CellFact DEF ModInv, ModType
  <2>2. review'.unread + pos = Len(c)
    BY <1>2, <2>1, BlurredFact
  <2>3. \A n \in DOMAIN c : n <= Len(c)
    BY <2>1
  <2>4. Blurred = Appends \/ Len(c) = 0 \/ Len(c) \in Ends(c)
    <3>1. c = <<>> => Len(c) = 0
      BY NoneEnds
    <3>2. Len(c) # 0 /\ EndsLine(c[Len(c)]) => Len(c) \in Ends(c)
      <4>1. \A L \in Nat : L # 0 => L \in 1 .. L
        OBVIOUS
      <4>2. Len(c) # 0 => Len(c) \in 1 .. Len(c)
        BY <2>1, <4>1
      <4>. QED
        BY <2>1, <4>2, EndsFact
    <3>. QED
      BY <3>1, <3>2, BlurredFact
  <2>. QED
    BY <1>1, <1>2, <1>3, <2>2, <2>3, <2>4 DEF Measured
<1>7. Due' /\ Following'
  BY <1>2 DEF Due, Following
<1>. QED
  BY <1>3, <1>4, <1>5, <1>6, <1>7 DEF MarkInv

(* Steps of the count before the mark.                                      *)
LEMMA CountMark ==
    ASSUME MarkInv, UNCHANGED Counting, review'.mark = review.mark,
           review'.before = review.before, review'.after = review.after,
           poll' \notin {"current", "draining"}, Measured'
    PROVE  MarkInv'
<1>1. /\ UNCHANGED relaySide /\ inbox' = inbox /\ pos' = pos /\ next' = next
      /\ carries' = carries /\ writer' = writer /\ rotations' = rotations
      /\ buffer' = buffer /\ serial' = serial /\ read' = read /\ lines' = lines
      /\ anchor' = anchor /\ skipped' = skipped /\ first' = first
  BY DEF Counting, relaySide
<1>2. Layout'
  BY <1>1, LayoutUnchanged DEF MarkInv
<1>3. Older'
  BY <1>1 DEF MarkInv, Older
<1>4. Due'
  <2>1. \A J \in 0 .. Len(lines) : Reached(J) /\ Below(J) => Reached(J)' /\ Below(J)'
    BY <1>1 DEF Reached, Below, Passed
  <2>. QED
    BY <1>1, <2>1 DEF MarkInv, Due
<1>5. Following'
  <2>1. \A L \in 0 .. Len(lines) : Within(L) => Within(L)'
    BY <1>1 DEF Within
  <2>2. Doomed => Doomed'
    BY <1>1 DEF Doomed
  <2>. QED
    BY <1>1, <2>1, <2>2 DEF MarkInv, Following
<1>. QED
  BY <1>1, <1>2, <1>3, <1>4, <1>5 DEF MarkInv

LEMMA CountRotatedMark ==
    ASSUME RelayInv, ModInv, MarkInv, CountRotated
    PROVE  MarkInv'
<1>1. UNCHANGED Counting /\ poll = "moved" /\ poll' = "counted"
      /\ review' = [review EXCEPT !.unread = RotatedRest]
  BY DEF CountRotated
<1>2. /\ review'.mark = review.mark /\ review'.unread = RotatedRest
      /\ review'.before = review.before /\ review'.after = review.after
  <2>1. review \in Review
    BY DEF ModInv, ModType
  <2>. QED
    BY <1>1, <2>1 DEF Review
<1>3. pos' = pos /\ next' = next /\ rotations' = rotations /\ rotated' = rotated
  BY <1>1 DEF Counting, relaySide
<1>4. pos > 0 /\ next < rotations /\ pos \in Nat
  BY <1>1 DEF MarkInv, Measured, ModInv, ModType
<1>5. RotatedRest >= 0
  <2>1. Size(rotated) \in Nat
    <3>1. rotated # NoFile => Len(rotated) \in Nat
      BY CellsFact, CellFact DEF RelayInv, RelayType
    <3>. QED
      BY <3>1 DEF Size
  <2>. QED
    BY <1>4, <2>1 DEF RotatedRest
<1>6. next = rotations - 1 => RotatedRest = Len(rotated) - pos
  <2>1. SUFFICES ASSUME next = rotations - 1
                 PROVE  RotatedRest = Len(rotated) - pos
    OBVIOUS
  <2>2. Anchored(rotated)
    BY <1>4, <2>1 DEF ModInv, Position
  <2>3. rotated # NoFile /\ pos <= Len(rotated) /\ Len(rotated) \in Nat
    <3>1. rotated \in Contents /\ pos <= Len(rotated)
      BY <1>4, <2>2, EvenPosition DEF MarkInv
    <3>. QED
      BY <3>1, CellFact, NoFileAssumption
  <2>4. Size(rotated) = Len(rotated)
    BY <2>3 DEF Size
  <2>5. \A L \in Nat : pos <= L => (IF L > pos THEN L - pos ELSE 0) = L - pos
    BY <1>4
  <2>. QED
    BY <2>3, <2>4, <2>5 DEF RotatedRest
<1>7. Measured'
  BY <1>1, <1>2, <1>3, <1>4, <1>5, <1>6 DEF Measured
<1>. QED
  BY <1>1, <1>2, <1>7, CountMark

(* The mark is set: the lines below it, and those it is not beyond.         *)
LEMMA MarkSet ==
    ASSUME RelayInv, ModInv, MarkInv, UNCHANGED Counting, poll' = "idle", NEW m \in Int,
           review'.mark = m, review'.before = review.before,
           review'.after = review.after \cup (OnDisk \cup Blurred),
           review'.after \subseteq Appends,
           NEW J \in 0 .. Len(lines), Reached(J),
           \A k \in J + 1 .. Len(lines) :
              lines[k] \in review.before => serial + 2 * (k - 1 - J) < m,
           \A n \in DOMAIN Cells(inbox) :
              n = Len(Cells(inbox)) /\ ~ EndsLine(Cells(inbox)[n])
                  /\ Cells(inbox)[n][1] \in review.before =>
              serial + 2 * (Len(lines) - J) < m,
           ~ skipped /\ next >= rotations - 1 /\ (pos = 0 => next >= rotations) =>
              review.after = Appends \/ Blurred = Appends \/ m <= 2 * (Len(lines) - first)
    PROVE  MarkInv'
<1>1. /\ UNCHANGED relaySide /\ inbox' = inbox /\ pos' = pos /\ next' = next
      /\ carries' = carries /\ writer' = writer /\ rotations' = rotations
      /\ buffer' = buffer /\ serial' = serial /\ read' = read /\ lines' = lines
      /\ anchor' = anchor /\ skipped' = skipped /\ first' = first
  BY DEF Counting, relaySide
<1>2. Layout'
  BY <1>1, LayoutUnchanged DEF MarkInv
<1>3. Older' /\ Measured'
  BY <1>1 DEF MarkInv, Older, Measured
<1>4. Due'
  <2>1. Reached(J)'
    BY <1>1 DEF Reached, Passed
  <2>2. Below(J)'
    BY <1>1 DEF Below
  <2>. QED
    BY <1>1, <2>1, <2>2 DEF Due
<1>5. Following'
  <2>1. SUFFICES ASSUME ~ skipped, ~ Doomed'
                 PROVE  review'.after = Appends \/ \E L \in 0 .. Len(lines') : Within(L)'
    BY <1>1 DEF Following
  <2>2. next >= rotations - 1 /\ (pos = 0 => next >= rotations)
    <3>1. next \in Nat /\ rotations \in Nat
      BY ModFiles DEF ModInv, ModType
    <3>. QED
      BY <1>1, <2>1, <3>1 DEF Doomed
  <2>3. CASE review.after = Appends \/ Blurred = Appends
    <3>1. Appends \subseteq review'.after
      BY <2>3
    <3>. QED
      BY <3>1
  <2>4. CASE m <= 2 * (Len(lines) - first)
    <3>1. \A k \in 1 .. Len(lines) : lines[k] \in review'.after
      BY OnDiskFact, ModFiles
    <3>2. Within(Len(lines))'
      BY <1>1, <2>4, <3>1 DEF Within
    <3>3. Len(lines) \in 0 .. Len(lines')
      BY <1>1, ModFiles
    <3>. QED
      BY <3>2, <3>3
  <2>. QED
    BY <2>1, <2>2, <2>3, <2>4
<1>. QED
  BY <1>1, <1>2, <1>3, <1>4, <1>5 DEF MarkInv

(* What setting the mark writes.                                            *)
LEMMA SetMarkFact ==
    ASSUME RelayInv, ModInv, NEW u \in Int, SetMark(u)
    PROVE  /\ poll' = "idle"
           /\ review'.mark = serial + (IF u > 0 THEN u ELSE 0) /\ review'.mark \in Int
           /\ review'.before = review.before
           /\ review'.after = review.after \cup (OnDisk \cup Blurred)
           /\ review'.after \subseteq Appends
<1>1. review \in Review /\ serial \in Nat /\ review.after \subseteq Appends
  BY ReviewFact DEF ModInv, ModType
<1>2. /\ poll' = "idle"
      /\ review' = [review EXCEPT !.mark = serial + (IF u > 0 THEN u ELSE 0),
                                 !.unread = 0,
                                 !.after = @ \cup OnDisk \cup Blurred]
  BY DEF SetMark
<1>3. /\ review'.mark = serial + (IF u > 0 THEN u ELSE 0)
      /\ review'.before = review.before
      /\ review'.after = (review.after \cup OnDisk) \cup Blurred
  BY <1>1, <1>2 DEF Review
<1>4. serial + (IF u > 0 THEN u ELSE 0) \in Int
  BY <1>1
<1>5. OnDisk \subseteq Appends /\ Blurred \subseteq Appends
  <2>1. \A n \in DOMAIN Cells(inbox) : Cells(inbox)[n][1] \in Appends
    BY ModFiles, CellFact
  <2>2. Lined \subseteq Appends
    BY LinedFact DEF RelayInv, RelayType
  <2>3. OnDisk \subseteq Appends
    BY <2>1, <2>2, OnDiskFact
  <2>4. Blurred \subseteq Appends
    BY DEF Blurred
  <2>. QED
    BY <2>3, <2>4
<1>6. review'.after = review.after \cup (OnDisk \cup Blurred)
  BY <1>3
<1>. HIDE DEF Appends
<1>7. review'.after \subseteq Appends
  BY <1>1, <1>5, <1>6
<1>. QED
  BY <1>2, <1>3, <1>4, <1>6, <1>7

LEMMA LaunchMark ==
    ASSUME MarkInv, Launch
    PROVE  MarkInv'
<1>1. /\ UNCHANGED relaySide /\ review' = NotLanded /\ serial' = 0 /\ read' = <<>>
      /\ buffer' = <<>> /\ poll' = "idle"
  BY DEF Launch
<1>2. review'.mark = NoMark /\ review'.before = {}
  BY <1>1 DEF NotLanded
<1>3. serial' = 2 * Len(read')
  <2>1. Len(<<>>) = 0
    OBVIOUS
  <2>. QED
    BY <1>1, <2>1
<1>4. Layout' /\ Paired(buffer')
  BY <1>1, LayoutUnchanged, NothingPaired DEF MarkInv
<1>5. Older' /\ Measured' /\ Due' /\ Following'
  BY <1>1, <1>2 DEF Older, Measured, Due, Following
<1>. QED
  BY <1>3, <1>4, <1>5 DEF MarkInv

(* Nothing is left to read but the inbox from its beginning.                *)
LEMMA ReachedFront ==
    ASSUME RelayInv, ModInv, Layout, buffer = <<>>, pos = 0 \/ next < rotations - 1,
           NEW b \in Nat, NEW r \in Nat, NEW q \in Nat, Laid(b, r, q)
    PROVE  Reached(b + r)
<1>. PICK c : c = Cells(inbox)
  OBVIOUS
<1>1. c \in Contents /\ Paired(c) /\ Len(c) \in {2 * q, 2 * q + 1} /\ b + r + q = Len(lines)
  BY ModFiles DEF Layout, Laid
<1>2. \A n \in Ends(c) : \E i \in 1 .. q : n = 2 * i
  BY <1>1, EvenEnds
<1>3. ASSUME NEW k \in 1 .. b + r, NEW y \in Ended(c)
      PROVE  lines[k] < y
  <2>. PICK n \in Ends(c) : y = c[n][1]
    BY <1>1, EndsFact
  <2>. PICK i \in 1 .. q : n = 2 * i
    BY <1>2
  <2>1. y = lines[b + r + i]
    BY DEF Laid
  <2>2. k \in 1 .. Len(lines) /\ b + r + i \in 1 .. Len(lines) /\ k < b + r + i
    BY <1>1
  <2>. QED
    BY <2>1, <2>2, ModFiles
<1>4. Ended(buffer) = {}
  BY NoneEnds
<1>5. next >= rotations - 1 => ~ (next < rotations - 1)
  BY ModFiles DEF ModInv, ModType
<1>. QED
  BY <1>3, <1>4, <1>5 DEF Reached

(* The mod has read its file up to line j.                                  *)
LEMMA ReachedLine ==
    ASSUME RelayInv, ModInv, buffer = <<>>, pos > 0, NEW j \in 1 .. Len(lines),
           Passed = lines[j]
    PROVE  Reached(j)
<1>1. \A k \in 1 .. j : lines[k] \in Nat /\ lines[k] <= Passed
  <2>. TAKE k \in 1 .. j
  <2>1. Len(lines) \in Nat
    BY ModFiles
  <2>2. k \in 1 .. Len(lines) /\ (k = j \/ k < j)
    BY <2>1
  <2>3. k < j => lines[k] < lines[j]
    BY <2>2, ModFiles
  <2>4. lines[k] \in Nat /\ lines[j] \in Nat
    BY <2>2, ModFiles
  <2>. QED
    BY <2>2, <2>3, <2>4
<1>2. next < rotations => \A y \in Ended(Cells(inbox)) : Passed < y
  BY DEF ModInv, Position
<1>3. \A y \in Ended(Cells(inbox)) : y \in Nat
  BY ModFiles
<1>4. Passed \in Nat /\ pos # 0
  BY ModFiles
<1>5. \A x, y, z \in Nat : x <= y /\ y < z => x < z
  OBVIOUS
<1>6. \A k \in 1 .. j : next < rotations => \A y \in Ended(Cells(inbox)) : lines[k] < y
  BY <1>1, <1>2, <1>3, <1>4, <1>5
<1>7. Ended(buffer) = {}
  BY NoneEnds
<1>. QED
  BY <1>1, <1>4, <1>6, <1>7 DEF Reached

(* The number of the line passed, in a file that holds it.                  *)
LEMMA PassedLine ==
    ASSUME RelayInv, ModInv, NEW j \in 1 .. Len(lines), pos > 0, Passed = lines[j], ~ skipped
    PROVE  Index = j
<1>1. Index \in Nat /\ Index > 0 /\ Index <= Len(lines) /\ lines[Index] = lines[j]
  BY ModBasics DEF ModInv, Position
<1>2. Len(lines) \in Nat /\ \A k, l \in 1 .. Len(lines) : k < l => lines[k] < lines[l]
  BY ModFiles
<1>3. Index \in 1 .. Len(lines) /\ j \in Nat
  BY <1>1, <1>2
<1>4. lines[j] \in Nat
  BY <1>2, ModFiles
<1>5. ~ (lines[j] < lines[j])
  BY <1>4
<1>6. ~ (Index < j) /\ ~ (j < Index)
  BY <1>1, <1>2, <1>3, <1>5
<1>. QED
  BY <1>3, <1>6

(* Before the first line of the inbox, when the mod is at its front.        *)
LEMMA FrontLine ==
    ASSUME RelayInv, ModInv, Layout, pos = 0, next = rotations, ~ skipped,
           NEW b \in Nat, NEW r \in Nat, NEW q \in Nat, Laid(b, r, q)
    PROVE  Index <= b + r
<1>. PICK c : c = Cells(inbox)
  OBVIOUS
<1>1. c \in Contents /\ Paired(c) /\ Len(c) \in {2 * q, 2 * q + 1} /\ b + r + q = Len(lines)
  BY ModFiles DEF Layout, Laid
<1>2. Index \in Nat /\ Index <= Len(lines) /\ Ended(c) = {lines[k] : k \in Index + 1 .. Len(lines)}
  BY ModBasics DEF ModInv, Position
<1>3. CASE q = 0
  BY <1>1, <1>2, <1>3
<1>4. CASE q > 0
  <2>1. 1 \in 1 .. q
    BY <1>4
  <2>2. 2 * 1 \in Ends(c) /\ c[2 * 1][1] = lines[b + r + 1]
    <3>1. 2 * 1 \in Ends(c)
      BY <1>1, <2>1, EvenEnds
    <3>. QED
      BY <2>1, <3>1 DEF Laid
  <2>3. lines[b + r + 1] \in Ended(c)
    BY <1>1, <2>2, EndsFact
  <2>. PICK k \in Index + 1 .. Len(lines) : lines[b + r + 1] = lines[k]
    BY <1>2, <2>3
  <2>4. Len(lines) \in Nat /\ k \in 1 .. Len(lines) /\ b + r + 1 \in 1 .. Len(lines)
    BY <1>1, <1>2, <1>4
  <2>5. /\ k < b + r + 1 => lines[k] < lines[b + r + 1]
        /\ k > b + r + 1 => lines[b + r + 1] < lines[k]
        /\ lines[k] \in Nat
    BY <2>4, ModFiles
  <2>6. k = b + r + 1
    BY <2>4, <2>5
  <2>. QED
    BY <1>2, <2>6
<1>. QED
  BY <1>3, <1>4

(* Lengths, lines and marks.                                                *)
LEMMA SizeFact ==
    ASSUME NEW p \in Nat, NEW i \in Nat, NEW u \in Int, u + 2 * p = 2 * i
    PROVE  /\ u = 2 * (i - p)
           /\ \A b, r, q, k \in Nat : i <= q /\ k <= b + r + p => k + (i - p) <= b + r + q
  OBVIOUS

(* Where the mod stands, when the size was that of the file it reads.       *)
LEMMA Standing ==
    ASSUME RelayInv, ModInv, Layout, buffer = <<>>, pos = 0 \/ Continues(inbox),
           NEW b \in Nat, NEW r \in Nat, NEW q \in Nat, Laid(b, r, q)
    PROVE  \E p \in 0 .. q : /\ pos = 2 * p /\ Reached(b + r + p)
                             /\ pos > 0 => next = rotations
                             /\ ~ skipped /\ next = rotations => Index <= b + r + p
<1>1. pos \in Nat
  BY DEF ModInv, ModType
<1>2. CASE pos = 0
  <2>1. 0 \in 0 .. q /\ pos = 2 * 0 /\ b + r + 0 = b + r /\ ~ (pos > 0)
    BY <1>2
  <2>2. Reached(b + r)
    BY <1>2, ReachedFront
  <2>3. ~ skipped /\ next = rotations => Index <= b + r
    BY <1>2, FrontLine
  <2>. QED
    BY <2>1, <2>2, <2>3
<1>3. CASE pos > 0
  <2>1. Anchored(inbox) /\ next = rotations
    BY <1>1, <1>3, OwnInbox
  <2>2. /\ inbox \in Contents /\ Cells(inbox) = inbox /\ Paired(inbox)
        /\ pos \in Ends(inbox) /\ inbox[pos][1] = Passed
    BY <1>3, <2>1, EvenPosition
  <2>3. Len(inbox) \in {2 * q, 2 * q + 1} /\ b + r + q = Len(lines)
    BY <2>2 DEF Laid
  <2>4. \A n \in Ends(inbox) : \E i \in 1 .. q : n = 2 * i
    BY <2>2, <2>3, EvenEnds
  <2>. PICK p \in 1 .. q : pos = 2 * p
    BY <2>2, <2>4
  <2>5. Passed = lines[b + r + p]
    BY <2>2 DEF Laid
  <2>6. b + r + p \in 1 .. Len(lines) /\ p \in 0 .. q
    BY <2>3
  <2>7. Reached(b + r + p)
    BY <1>3, <2>5, <2>6, ReachedLine
  <2>8. ~ skipped => Index = b + r + p
    BY <1>3, <2>5, <2>6, PassedLine
  <2>9. ~ skipped => Index <= b + r + p
    BY <2>6, <2>8
  <2>. QED
    BY <2>1, <2>6, <2>7, <2>9
<1>. QED
  BY <1>1, <1>2, <1>3

LEMMA CompareMark ==
    ASSUME RelayInv, ModInv, MarkInv, CompareHead
    PROVE  MarkInv'
<1>1. UNCHANGED Counting /\ poll = "sized"
  BY DEF CompareHead
<1>2. CASE ~ (pos = 0 \/ Continues(inbox))
  <2>1. poll' = "moved" /\ review' = review
    BY <1>2 DEF CompareHead
  <2>2. pos > 0 /\ next < rotations
    <3>1. pos \in Nat /\ pos # 0 /\ next \in Nat /\ rotations \in Nat /\ next <= rotations
      BY <1>2, ModFiles DEF ModInv, ModType, Position
    <3>2. next # rotations
      BY <1>2, <3>1, OwnInbox
    <3>. QED
      BY <3>1, <3>2
  <2>3. Measured'
    BY <1>1, <2>1, <2>2 DEF Measured, Counting, relaySide
  <2>. QED
    BY <1>1, <2>1, <2>3, CountMark
<1>3. CASE pos = 0 \/ Continues(inbox)
  <2>. PICK u \in Int : u = review.unread
    BY ReviewFact DEF ModInv
  <2>1. SetMark(u)
    BY <1>3 DEF CompareHead
  <2>2. /\ poll' = "idle"
        /\ review'.mark = serial + (IF u > 0 THEN u ELSE 0) /\ review'.mark \in Int
        /\ review'.before = review.before
        /\ review'.after = review.after \cup (OnDisk \cup Blurred)
        /\ review'.after \subseteq Appends
    BY <2>1, SetMarkFact
  <2>. PICK m \in Int : m = review'.mark
    BY <2>2
  <2>. PICK c : c = Cells(inbox)
    OBVIOUS
  <2>. PICK b \in Nat, r \in Nat, q \in Nat : Laid(b, r, q)
    BY DEF MarkInv, Layout
  <2>3. buffer = <<>> /\ Layout
    BY <1>1 DEF ModInv, Buffered, MarkInv
  <2>. PICK p \in 0 .. q : /\ pos = 2 * p /\ Reached(b + r + p)
                           /\ pos > 0 => next = rotations
                           /\ ~ skipped /\ next = rotations => Index <= b + r + p
    BY <1>3, <2>3, Standing
  <2>4. c \in Contents /\ Paired(c) /\ Len(c) \in {2 * q, 2 * q + 1} /\ b + r + q = Len(lines)
        /\ DOMAIN c = 1 .. Len(c) /\ Len(c) \in Nat
    BY ModFiles, CellFact DEF MarkInv, Layout, Laid
  <2>5. /\ \A n \in DOMAIN c : ~ EndsLine(c[n]) /\ c[n][1] \in review.before => n <= u + pos
        /\ next = rotations => review.after = Appends \/ u + pos = 0 \/ u + pos \in Ends(c)
    BY <1>1 DEF MarkInv, Measured
  <2>6. /\ \A i \in 1 .. q : 2 * i - 1 \in DOMAIN c /\ ~ EndsLine(c[2 * i - 1])
        /\ \A n \in Ends(c) : \E i \in 1 .. q : n = 2 * i
        /\ Len(c) = 2 * q + 1 => ~ EndsLine(c[Len(c)])
        /\ (Len(c) = 2 * q <=> c = <<>> \/ EndsLine(c[Len(c)]))
    BY <2>4, EvenEnds
  <2>11. b + r + q = Len(lines)
    BY <2>4
  <2>. PICK N \in Nat : N = b + r + q
    OBVIOUS
  <2>12. N = Len(lines)
    BY <2>11
  <2>. PICK J \in Nat : J = b + r + p /\ J <= N
    OBVIOUS
  <2>7. serial \in Nat /\ (u > 0 => m = serial + u) /\ (~ (u > 0) => m = serial)
    BY <2>2, ReviewFact DEF ModInv
  <2>8. ASSUME NEW k \in J + 1 .. N, lines[k] \in review.before
        PROVE  serial + 2 * (k - 1 - J) < m
    <3>. PICK i \in 1 .. q : i = k - b - r /\ i > p
      OBVIOUS
    <3>1. c[2 * i - 1][1] = lines[k]
      <4>1. b + r + i = k
        OBVIOUS
      <4>2. c[2 * i - 1][1] = lines[b + r + i]
        BY DEF Laid
      <4>. QED
        BY <4>1, <4>2
    <3>2. 2 * i - 1 <= u + 2 * p
      BY <2>5, <2>6, <2>8, <3>1
    <3>3. u > 0 /\ k - 1 - J = i - 1 - p
      BY <3>2
    <3>4. 2 * (i - 1 - p) < u
      BY <3>2
    <3>. QED
      BY <2>7, <3>3, <3>4
  <2>9. ASSUME NEW n \in DOMAIN c, n = Len(c), ~ EndsLine(c[n]), c[n][1] \in review.before
        PROVE  serial + 2 * (N - J) < m
    <3>1. Len(c) = 2 * q + 1
      <4>1. c # <<>>
        BY <2>9, NoneEnds, <2>4
      <4>. QED
        BY <2>4, <2>6, <2>9, <4>1
    <3>2. 2 * q + 1 <= u + 2 * p
      BY <2>5, <2>9, <3>1
    <3>3. u > 0 /\ N - J = q - p
      BY <3>2
    <3>4. 2 * (q - p) < u
      BY <3>2
    <3>. QED
      BY <2>7, <3>3, <3>4
  <2>10. ASSUME ~ skipped, next >= rotations - 1, pos = 0 => next >= rotations
         PROVE  review.after = Appends \/ Blurred = Appends \/ m <= 2 * (N - first)
    <3>1. next = rotations
      <4>1. next \in Nat /\ rotations \in Nat /\ next <= rotations /\ pos \in Nat
        BY ModFiles DEF ModInv, ModType, Position
      <4>. QED
        BY <2>10, <4>1
    <3>. PICK f \in Nat, l \in Nat : f = first /\ l = Len(read)
      BY ModBasics DEF ModInv
    <3>2. f + l <= b + r + p /\ serial = 2 * l
      BY <2>10, <3>1 DEF Index, MarkInv
    <3>3. serial <= 2 * (N - f)
      BY <3>2
    <3>4. CASE ~ (u > 0)
      BY <2>7, <3>3, <3>4
    <3>5. CASE u > 0 /\ u + pos \in Ends(c)
      <4>. PICK i \in 1 .. q : u + pos = 2 * i
        BY <2>6, <3>5
      <4>3. u + 2 * p = 2 * i /\ i \in Nat /\ p \in Nat /\ i <= q
        OBVIOUS
      <4>4. /\ u = 2 * (i - p)
            /\ \A x, y, z, k \in Nat : i <= z /\ k <= x + y + p => k + (i - p) <= x + y + z
        BY <4>3, SizeFact
      <4>5. f + l \in Nat /\ f + l <= b + r + p
        BY <3>2
      <4>1. f + l + (i - p) <= N /\ u = 2 * (i - p)
        BY <4>3, <4>4, <4>5
      <4>2. serial + u <= 2 * (N - f)
        BY <3>2, <4>1
      <4>. QED
        BY <2>7, <3>5, <4>2
    <3>6. u + pos = 0 => ~ (u > 0)
      OBVIOUS
    <3>. QED
      BY <2>5, <3>1, <3>4, <3>5, <3>6
  <2>. QED
    <3>1. J \in 0 .. Len(lines)
      BY <2>12
    <3>. QED
      BY <1>1, <2>2, <2>8, <2>9, <2>10, <2>12, <3>1, MarkSet
<1>. QED
  BY <1>2, <1>3

(* Where the mod stands, when the inbox is a file after the one it reads.   *)
LEMMA Behindhand ==
    ASSUME RelayInv, ModInv, MarkInv, poll = "counted",
           NEW b \in Nat, NEW r \in Nat, NEW q \in Nat, Laid(b, r, q)
    PROVE  \E J \in Nat : /\ J <= b + r /\ Reached(J) /\ 2 * (b + r - J) <= review.unread
                          /\ ~ skipped /\ next = rotations - 1 =>
                                Index = J /\ 2 * (b + r - J) = review.unread
<1>. PICK u \in Int : u = review.unread
  BY ReviewFact DEF ModInv
<1>1. /\ pos \in Nat /\ next \in Nat /\ rotations \in Nat
      /\ buffer = <<>> /\ Layout /\ pos > 0 /\ next < rotations /\ u >= 0
      /\ next = rotations - 1 => u = Len(rotated) - pos
  BY ModFiles DEF ModInv, ModType, Buffered, MarkInv, Measured
<1>2. CASE next = rotations - 1
  <2>1. Anchored(rotated)
    BY <1>1, <1>2 DEF ModInv, Position
  <2>2. /\ rotated \in Contents /\ Cells(rotated) = rotated /\ Paired(rotated)
        /\ pos \in Ends(rotated) /\ rotated[pos][1] = Passed
    BY <1>1, <2>1, EvenPosition
  <2>3. Len(rotated) = 2 * r /\ b + r + q = Len(lines)
    BY <2>2 DEF Laid
  <2>4. \A n \in Ends(rotated) : \E i \in 1 .. r : n = 2 * i
    <3>1. Len(rotated) \in {2 * r, 2 * r + 1}
      BY <2>3
    <3>. QED
      BY <2>2, <3>1, EvenEnds
  <2>. PICK p \in 1 .. r : pos = 2 * p
    BY <2>2, <2>4
  <2>5. Passed = lines[b + p]
    BY <2>2 DEF Laid
  <2>6. b + p \in 1 .. Len(lines) /\ b + p \in Nat /\ b + p <= b + r
    BY <2>3
  <2>7. Reached(b + p)
    BY <1>1, <2>5, <2>6, ReachedLine
  <2>8. ~ skipped => Index = b + p
    BY <1>1, <2>5, <2>6, PassedLine
  <2>9. 2 * (b + r - (b + p)) = u
    BY <1>1, <1>2, <2>3
  <2>10. 2 * (b + r - (b + p)) <= u
    BY <2>9
  <2>. QED
    BY <2>6, <2>7, <2>8, <2>9, <2>10
<1>3. CASE next # rotations - 1
  <2>1. next < rotations - 1
    BY <1>1, <1>3
  <2>2. Reached(b + r)
    BY <1>1, <2>1, ReachedFront
  <2>3. b + r \in Nat /\ b + r <= b + r /\ 2 * (b + r - (b + r)) <= u
    BY <1>1
  <2>. QED
    BY <1>3, <2>2, <2>3
<1>. QED
  BY <1>2, <1>3

LEMMA CountInboxMark ==
    ASSUME RelayInv, ModInv, MarkInv, CountInbox
    PROVE  MarkInv'
<1>1. UNCHANGED Counting /\ poll = "counted"
  BY DEF CountInbox
<1>. PICK c : c = Cells(inbox)
  OBVIOUS
<1>. PICK u \in Int : u = review.unread
  BY ReviewFact DEF ModInv
<1>2. /\ pos > 0 /\ next < rotations /\ u >= 0
      /\ next = rotations - 1 => u = Len(rotated) - pos
  BY <1>1 DEF MarkInv, Measured
<1>3. buffer = <<>> /\ Layout
  BY <1>1 DEF ModInv, Buffered, MarkInv
<1>4. c \in Contents /\ Paired(c) /\ DOMAIN c = 1 .. Len(c) /\ Len(c) \in Nat /\ Size(inbox) = Len(c)
  BY <1>3, ModFiles, CellFact, BlurredFact DEF Layout
<1>. PICK s \in Nat : s = Len(c)
  BY <1>4
<1>5. u + s \in Int /\ SetMark(u + s)
  BY <1>4 DEF CountInbox
<1>6. /\ poll' = "idle"
      /\ review'.mark = serial + (IF u + s > 0 THEN u + s ELSE 0) /\ review'.mark \in Int
      /\ review'.before = review.before
      /\ review'.after = review.after \cup (OnDisk \cup Blurred)
      /\ review'.after \subseteq Appends
  BY <1>5, SetMarkFact
<1>. PICK m \in Int : m = review'.mark
  BY <1>6
<1>7. serial \in Nat /\ m = serial + u + s
  BY <1>2, <1>6, ReviewFact DEF ModInv
<1>12. PICK b \in Nat, r \in Nat, q \in Nat :
            /\ Laid(b, r, q) /\ b + r + q = Len(lines) /\ s \in {2 * q, 2 * q + 1}
            /\ (s = 2 * q <=> c = <<>> \/ EndsLine(c[Len(c)]))
  BY <1>3, LayoutFact
<1>. PICK N \in Nat : N = b + r + q
  OBVIOUS
<1>8. N = Len(lines)
  BY <1>12
<1>13. PICK J \in Nat : /\ J <= b + r /\ Reached(J) /\ 2 * (b + r - J) <= u
                        /\ ~ skipped /\ next = rotations - 1 =>
                              Index = J /\ 2 * (b + r - J) = u
  BY <1>1, <1>12, Behindhand
<1>14. J <= b + r /\ 2 * (b + r - J) <= u /\ s \in {2 * q, 2 * q + 1}
  BY <1>12, <1>13
<1>. PICK S \in Nat : S = serial
  BY <1>7
<1>15. m = S + u + s
  BY <1>7
<1>16. /\ \A k \in J + 1 .. N : S + 2 * (k - 1 - J) < m
       /\ s = 2 * q + 1 => S + 2 * (N - J) < m
       /\ s = 2 * q /\ 2 * (b + r - J) = u => m = S + 2 * (N - J)
  <2>1. N = b + r + q
    OBVIOUS
  <2>2. ASSUME NEW k \in J + 1 .. N
        PROVE  S + 2 * (k - 1 - J) < m
    BY ONLY <2>1, <1>14, <1>15, <2>2, b \in Nat, r \in Nat, q \in Nat, J \in Nat, u \in Int,
         s \in Nat, N \in Nat, S \in Nat, m \in Int
  <2>3. s = 2 * q + 1 => S + 2 * (N - J) < m
    BY <2>1, <1>14, <1>15
  <2>4. s = 2 * q /\ 2 * (b + r - J) = u => m = S + 2 * (N - J)
    BY <2>1, <1>15
  <2>. QED
    BY <2>2, <2>3, <2>4
<1>9. ASSUME NEW k \in J + 1 .. N
      PROVE  serial + 2 * (k - 1 - J) < m
  BY <1>16
<1>10. ASSUME NEW n \in DOMAIN c, n = Len(c), ~ EndsLine(c[n])
       PROVE  serial + 2 * (N - J) < m
  <2>1. c # <<>>
    BY <1>4, <1>10, NoneEnds
  <2>2. s = 2 * q + 1
    BY <1>10, <1>12, <2>1
  <2>. QED
    BY <1>16, <2>2
<1>11. ASSUME ~ skipped, next >= rotations - 1
       PROVE  review.after = Appends \/ Blurred = Appends \/ m <= 2 * (N - first)
  <2>1. next = rotations - 1
    <3>1. next \in Nat /\ rotations \in Nat
      BY ModFiles DEF ModInv, ModType
    <3>. QED
      BY <1>2, <1>11, <3>1
  <2>. PICK f \in Nat, l \in Nat : f = first /\ l = Len(read)
    BY ModBasics DEF ModInv
  <2>2. f + l = J /\ 2 * (b + r - J) = u /\ serial = 2 * l
    BY <1>11, <1>13, <2>1 DEF Index, MarkInv
  <2>3. CASE s = 2 * q
    <3>1. m = S + 2 * (N - J)
      BY <1>16, <2>2, <2>3
    <3>2. S = 2 * l /\ f + l = J => S + 2 * (N - J) = 2 * (N - f)
      OBVIOUS
    <3>3. m = 2 * (N - f)
      BY <2>2, <3>1, <3>2
    <3>4. m <= m
      OBVIOUS
    <3>. QED
      BY <3>3, <3>4
  <2>4. CASE s # 2 * q
    BY <1>12, <2>4, BlurredFact
  <2>. QED
    BY <2>3, <2>4
<1>17. J \in 0 .. Len(lines)
  BY <1>8, <1>12, <1>13
<1>. QED
  BY <1>1, <1>6, <1>8, <1>9, <1>10, <1>11, <1>13, <1>17, MarkSet

----------------------------------------------------------------------------
LEMMA MarkInitial ==
    ASSUME Init
    PROVE  MarkInv
<1>1. /\ inbox = NoFile /\ rotated = NoFile /\ lines = <<>> /\ buffer = <<>> /\ serial = 0
      /\ read = <<>> /\ review = NotLanded /\ poll = "idle"
  BY DEF Init
<1>2. review.mark = NoMark /\ review.before = {}
  BY <1>1 DEF NotLanded
<1>3. Cells(inbox) = <<>> /\ Cells(rotated) = <<>> /\ Len(<<>>) = 0
  BY <1>1 DEF Cells
<1>4. Laid(0, 0, 0)
  BY <1>1, <1>3 DEF Laid
<1>5. Layout
  <2>1. 0 \in Nat
    OBVIOUS
  <2>. QED
    BY <1>3, <1>4, <2>1, NothingPaired DEF Layout
<1>6. Paired(buffer) /\ serial = 2 * Len(read)
  BY <1>1, <1>3, NothingPaired
<1>7. Older /\ Measured /\ Due /\ Following
  BY <1>1, <1>2 DEF Older, Measured, Due, Following
<1>. QED
  BY <1>5, <1>6, <1>7 DEF MarkInv

LEMMA MarkPreserved ==
    ASSUME IInv, MarkInv, [Next]_vars
    PROVE  MarkInv'
<1>1. RelayInv /\ ModInv /\ launches \in Nat
  BY DEF IInv, ModInv, ModType
<1>2. CASE RelayNext
  <2>1. RelayInv'
    BY <1>1, <1>2, RelayStep
  <2>. QED
    BY <1>2, <2>1, MarkRelay
<1>3. CASE PollCurrent \/ PollRotated \/ PollStart
  BY <1>1, <1>3, PollCurrentMark, PollRotatedMark, PollStartMark
<1>4. CASE ConsumeLine
  BY <1>1, <1>4, ConsumeMark
<1>5. CASE StopPoll \/ EndPoll \/ Unblock
  BY <1>1, <1>5, PauseMark
<1>6. CASE CompareHead \/ CountRotated \/ CountInbox
  BY <1>1, <1>6, CompareMark, CountRotatedMark, CountInboxMark
<1>7. CASE LandReview
  BY <1>1, <1>7, LandMark
<1>8. CASE Launch
  BY <1>8, LaunchMark
<1>9. CASE UNCHANGED vars
  <2>1. /\ UNCHANGED relaySide /\ review' = review /\ serial' = serial /\ read' = read
        /\ buffer' = buffer /\ pos' = pos /\ next' = next /\ poll' = poll
        /\ anchor' = anchor /\ skipped' = skipped /\ first' = first
    BY <1>9 DEF vars, modSide, reviewing
  <2>2. /\ inbox' = inbox /\ lines' = lines /\ rotations' = rotations /\ carries' = carries
        /\ writer' = writer /\ rotated' = rotated
    BY <2>1 DEF relaySide
  <2>3. Layout' /\ Paired(buffer') /\ serial' = 2 * Len(read')
    BY <2>1, LayoutUnchanged DEF MarkInv
  <2>4. Older' /\ Measured'
    BY <2>1, <2>2 DEF MarkInv, Older, Measured
  <2>5. \A J \in 0 .. Len(lines) : Reached(J) /\ Below(J) => Reached(J)' /\ Below(J)'
    BY <2>1, <2>2 DEF Reached, Below, Passed
  <2>6. Due'
    BY <2>1, <2>2, <2>5 DEF MarkInv, Due
  <2>7. Following'
    BY <2>1, <2>2 DEF MarkInv, Following, Doomed, Within
  <2>. QED
    BY <2>3, <2>4, <2>6, <2>7 DEF MarkInv
<1>. QED
  BY <1>2, <1>3, <1>4, <1>5, <1>6, <1>7, <1>8, <1>9 DEF Next, PollStep

(* The line that is consumed, against what was on disk when the review      *)
(* landed and when the mark was set.                                        *)
LEMMA AnswerStep ==
    ASSUME IInv, MarkInv, ConsumeLine, IInv', NEW a \in Appends, read' = Append(read, a),
           review.mark # NoMark
    PROVE  /\ Answers => a \notin review.before
           /\ a \notin review.after /\ ~ Overtaken => Answers
<1>1. RelayInv /\ ModInv /\ ModType /\ Buffered /\ Paired(buffer) /\ LineEnds # {}
  BY DEF IInv, ModInv, MarkInv, ConsumeLine
<1>2. /\ Len(lines) \in Nat /\ DOMAIN lines = 1 .. Len(lines)
      /\ \A k \in 1 .. Len(lines) : lines[k] \in Nat
  BY <1>1, ModFiles
<1>3. /\ serial \in Nat /\ review.mark \in Int /\ serial = 2 * Len(read) /\ Len(read) \in Nat
      /\ first \in Nat /\ read \in Seq(Appends)
  BY <1>1, ReviewFact, ModBasics DEF MarkInv, ModInv, ModType
<1>4. Answers <=> serial >= review.mark
  BY DEF Answers
<1>5. a = buffer[2][1]
  <2>1. read' = Append(read, buffer[2][1])
    BY <1>1, LineOfTwo DEF ConsumeLine
  <2>2. Append(read, a)[Len(read) + 1] = a
    BY <1>3
  <2>3. buffer[2][1] \in Appends
    <3>1. buffer \in Contents /\ 2 \in DOMAIN buffer
      BY <1>1, LineOfTwo, EndsFact, CellFact DEF ModType
    <3>. QED
      BY <3>1, CellFact
  <2>4. Append(read, buffer[2][1])[Len(read) + 1] = buffer[2][1]
    BY <1>3, <2>3
  <2>. QED
    BY <2>1, <2>2, <2>4
<1>6. a \in Ended(buffer) /\ a \in Lined
  BY <1>1, <1>5, LineOfTwo, EndsFact DEF ModType, Buffered
<1>7. ASSUME Answers, a \in review.before
      PROVE  FALSE
  <2>. PICK J \in 0 .. Len(lines) : Reached(J) /\ Below(J)
    BY DEF MarkInv, Due
  <2>. PICK k \in 1 .. Len(lines) : a = lines[k]
    BY <1>2, <1>6 DEF Lined
  <2>1. k \notin 1 .. J
    <3>1. k \in 1 .. J => a < a
      BY <1>6 DEF Reached
    <3>2. a \in Nat
      BY <1>2
    <3>. QED
      BY <3>1, <3>2
  <2>2. k \in J + 1 .. Len(lines) /\ k - 1 - J \in Nat
    <3>1. J \in Nat /\ k \in Nat /\ J < k
      BY <1>2, <2>1
    <3>. QED
      BY <1>2, <3>1
  <2>3. serial + 2 * (k - 1 - J) < review.mark
    BY <1>7, <2>2 DEF Below
  <2>4. \A d \in Nat, s, m \in Int : s + 2 * d < m => ~ (s >= m)
    OBVIOUS
  <2>. QED
    BY <1>3, <1>4, <1>7, <2>2, <2>3, <2>4
<1>8. ASSUME a \notin review.after, ~ Overtaken
      PROVE  Answers
  <2>1. ~ skipped /\ ~ Doomed /\ review.after # Appends
    BY <1>8 DEF Overtaken, Doomed, ConsumeLine
  <2>. PICK L \in 0 .. Len(lines) : Within(L)
    BY <2>1 DEF MarkInv, Following
  <2>2. a = lines[first + Len(read) + 1] /\ first + Len(read) + 1 <= Len(lines)
    <3>1. skipped' = skipped /\ first' = first /\ lines' = lines
      BY DEF ConsumeLine, relaySide
    <3>2. Len(read') = Len(read) + 1 /\ read'[Len(read) + 1] = a
      BY <1>3
    <3>3. first' + Len(read') <= Len(lines') /\ \A k \in DOMAIN read' : read'[k] = lines'[first' + k]
      BY <2>1, <3>1 DEF IInv, ModInv, Position, Index
    <3>4. Len(read) + 1 \in DOMAIN read'
      BY <1>3
    <3>. QED
      BY <1>3, <3>1, <3>2, <3>3, <3>4
  <2>. PICK f \in Nat, l \in Nat, N \in Nat : f = first /\ l = Len(read) /\ N = Len(lines)
    BY <1>2, <1>3
  <2>3. ~ (f + l + 1 \in 1 .. L)
    <3>1. \A k \in 1 .. L : lines[k] \in review.after
      BY DEF Within
    <3>. QED
      BY <1>8, <2>2, <3>1
  <2>4. L <= f + l
    BY <2>3
  <2>5. review.mark <= 2 * (L - f) /\ 2 * (L - f) <= 2 * l
    <3>1. review.mark <= 2 * (L - f)
      BY DEF Within
    <3>. QED
      BY <2>4, <3>1
  <2>6. 2 * l = serial /\ 2 * (L - f) \in Int
    BY <1>3
  <2>. QED
    BY <1>3, <1>4, <2>5, <2>6
<1>. QED
  BY <1>7, <1>8

(* Only a line that is consumed is added to what was read.                  *)
LEMMA OnlyConsumed ==
    ASSUME IInv, [Next]_vars, NEW a \in Appends, read' = Append(read, a)
    PROVE  ConsumeLine
<1>1. read \in Seq(Appends) /\ Len(read) \in Nat
  BY DEF IInv, ModInv, ModType
<1>2. read' # read /\ read' # <<>>
  <2>1. Len(read') = Len(read) + 1
    BY <1>1
  <2>2. Len(read) + 1 # Len(read) /\ Len(read) + 1 # 0 /\ Len(<<>>) = 0
    BY <1>1
  <2>. QED
    BY <2>1, <2>2
<1>3. ~ (RelayNext \/ LandReview \/ CompareHead \/ CountRotated \/ CountInbox)
  BY <1>2 DEF RelayNext, BeginAppend, Reopen, Open, OpenFails, Rotate, WriteRecord, WriteFails,
              RollBack, RemoveEmpty, CrashRelay, modSide, LandReview, CompareHead,
              CountRotated, CountInbox, Counting
<1>4. ~ (PollCurrent \/ PollRotated \/ PollStart \/ StopPoll \/ EndPoll \/ Unblock)
  BY <1>2 DEF PollCurrent, PollRotated, PollStart, StopPoll, EndPoll, Unblock
<1>5. ~ Launch /\ ~ UNCHANGED vars
  BY <1>2 DEF Launch, vars, modSide
<1>. QED
  BY <1>3, <1>4, <1>5 DEF Next, PollStep

(* An action that the mod takes as the answer to a review was appended      *)
(* after the review landed, and one that came later is taken, over renames  *)
(* and torn records between the looks of the mod (mark_inbox_on_landing,    *)
(* _inbox_present).                                                         *)
THEOREM AnswersAfterReview == Spec => AnswersFollowReview
<1>1. Init => IInv /\ MarkInv
  BY Initial, MarkInitial
<1>2. IInv /\ MarkInv /\ [Next]_vars => (IInv /\ MarkInv)'
  BY Preserved, MarkPreserved
<1>3. IInv /\ MarkInv /\ [Next]_vars =>
          [\A a \in Appends : read' = Append(read, a) /\ review.mark # NoMark =>
              /\ Answers => a \notin review.before
              /\ a \notin review.after /\ ~ Overtaken => Answers]_vars
  BY Preserved, OnlyConsumed, AnswerStep
<1>. QED
  BY <1>1, <1>2, <1>3, PTL DEF Spec, AnswersFollowReview
=============================================================================
