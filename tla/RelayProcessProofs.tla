-------------------------- MODULE RelayProcessProofs -------------------------
(***************************************************************************)
(* Proofs about RelayProcess, for every number of relays, directories,     *)
(* environments and marker files: a number given to a session is found     *)
(* again whatever the power leaves, every session has a number larger than *)
(* all before it, and the relay reads the directory of the running game.   *)
(***************************************************************************)
EXTENDS RelayProcess, NumberFacts

(* A marker of d is at least n, and no task but those of E is about to      *)
(* remove it for it could not be secured.                                   *)
Holds(d, n, E) ==
    \E m \in Markers(d) :
        /\ m >= n
        /\ \A q \in Relays \ E : dir[q] = d /\ At(q, "write") => task[q].next # m

(* The number a task has made a marker for stays covered, by that marker or *)
(* the larger one of a task that was faster.                                *)
Marked ==
    \A p \in Relays : task[p].stage \in {"write", "remove"} => Holds(dir[p], task[p].next, {p})

(* So does the number given last, on unix also in what the power may leave. *)
Lasting ==
    \A d \in Dirs : given[d] # 0 =>
        /\ Holds(d, given[d], {})
        /\ env.unix => \A content \in disk[d].left : \E m \in content : m >= given[d]

(* The number a session is about to get is larger than the last one given:  *)
(* only the process that has the lease is given one.                        *)
Fresher ==
    \A p \in Relays : main[p] = "opening" /\ task[p].stage \in {"create", "write", "remove"} =>
        task[p].next > given[dir[p]]

OneLease ==
    \A p, q \in Relays :
        main[p] \in Holding /\ main[q] \in Holding /\ dir[p] = dir[q] => p = q

Placed ==
    \A p \in Relays :
        /\ main[p] # "off" => dir[p] \in Dirs
        /\ main[p] = "off" => task[p] = Idle

(* A game whose variable names a directory runs there.                      *)
Chosen == game # None => Value(env.game) \in {None, game}

IInv == TypeOK /\ Placed /\ OneLease /\ Marked /\ Lasting /\ Fresher /\ Chosen

----------------------------------------------------------------------------
LEMMA Basics ==
    ASSUME TypeOK, Placed
    PROVE  /\ Numbers \subseteq Nat
           /\ \A p \in Relays :
                 /\ task[p] \in [stage : Stages, next : Numbers]
                 /\ task[p].next \in Nat /\ task[p].stage \in Stages
                 /\ task[p].stage # "idle" => main[p] # "off" /\ dir[p] \in Dirs
           /\ \A d \in Dirs :
                 /\ given[d] \in Nat /\ Markers(d) \subseteq Numbers
                 /\ disk[d] \in [now : SUBSET Numbers, left : SUBSET SUBSET Numbers]
<1>1. Numbers \subseteq Nat
  BY DEF Numbers
<1>2. ASSUME NEW p \in Relays
      PROVE  /\ task[p] \in [stage : Stages, next : Numbers]
             /\ task[p].next \in Numbers /\ task[p].stage \in Stages
             /\ task[p].stage # "idle" => main[p] # "off" /\ dir[p] \in Dirs
  <2>1. task[p] \in [stage : Stages, next : Numbers]
    BY DEF TypeOK
  <2>. QED
    BY <2>1 DEF Placed, Idle
<1>3. ASSUME NEW d \in Dirs
      PROVE  /\ given[d] \in Numbers /\ Markers(d) \subseteq Numbers
             /\ disk[d] \in [now : SUBSET Numbers, left : SUBSET SUBSET Numbers]
  <2>1. disk[d] \in [now : SUBSET Numbers, left : SUBSET SUBSET Numbers] /\ given[d] \in Numbers
    BY DEF TypeOK
  <2>. QED
    BY <2>1 DEF Markers
<1>. QED
  BY <1>1, <1>2, <1>3

(* What the disk becomes when an entry is made or removed.                  *)
LEMMA WriteFact ==
    ASSUME TypeOK, Placed, NEW d \in Dirs, NEW markers \in SUBSET Numbers, Write(d, markers)
    PROVE  /\ disk' \in [Dirs -> [now : SUBSET Numbers, left : SUBSET SUBSET Numbers]]
           /\ Markers(d)' = markers /\ disk'[d].left = disk[d].left \cup {markers}
           /\ \A e \in Dirs \ {d} : disk'[e] = disk[e] /\ Markers(e)' = Markers(e)
<1>1. disk[d] \in [now : SUBSET Numbers, left : SUBSET SUBSET Numbers]
  BY Basics
<1>2. disk' = [disk EXCEPT ![d] = [now |-> markers, left |-> disk[d].left \cup {markers}]]
  BY DEF Write
<1>3. disk \in [Dirs -> [now : SUBSET Numbers, left : SUBSET SUBSET Numbers]]
  BY DEF TypeOK
<1>. QED
  BY <1>1, <1>2, <1>3 DEF Markers

LEMMA SyncFact ==
    ASSUME TypeOK, Placed, NEW d \in Dirs, Sync(d)
    PROVE  /\ disk' \in [Dirs -> [now : SUBSET Numbers, left : SUBSET SUBSET Numbers]]
           /\ Markers(d)' = Markers(d)
           /\ disk'[d].left = IF env.unix THEN {Markers(d)} ELSE disk[d].left
           /\ \A e \in Dirs \ {d} : disk'[e] = disk[e] /\ Markers(e)' = Markers(e)
<1>1. disk[d] \in [now : SUBSET Numbers, left : SUBSET SUBSET Numbers]
  BY Basics
<1>2. disk \in [Dirs -> [now : SUBSET Numbers, left : SUBSET SUBSET Numbers]]
  BY DEF TypeOK
<1>3. CASE env.unix
  <2>1. disk' = [disk EXCEPT ![d] = [now |-> disk[d].now, left |-> {disk[d].now}]]
    BY <1>3 DEF Sync, Synced
  <2>. QED
    BY <1>1, <1>2, <1>3, <2>1 DEF Markers
<1>4. CASE ~ env.unix
  BY <1>2, <1>4 DEF Sync, Markers
<1>. QED
  BY <1>3, <1>4

(* What a loss of power leaves.                                             *)
LEMMA PowerFact ==
    ASSUME TypeOK, Placed, LosePower
    PROVE  /\ disk' \in [Dirs -> [now : SUBSET Numbers, left : SUBSET SUBSET Numbers]]
           /\ \A d \in Dirs : Markers(d)' \in disk[d].left /\ disk'[d].left = {Markers(d)'}
<1>1. PICK content \in [Dirs -> UNION {disk[d].left : d \in Dirs}] :
           /\ \A d \in Dirs : content[d] \in disk[d].left
           /\ disk' = [d \in Dirs |-> Synced(content[d])]
  BY DEF LosePower
<1>2. ASSUME NEW d \in Dirs
      PROVE  /\ content[d] \in disk[d].left /\ content[d] \in SUBSET Numbers
             /\ disk'[d] = [now |-> content[d], left |-> {content[d]}]
  <2>1. disk[d] \in [now : SUBSET Numbers, left : SUBSET SUBSET Numbers]
    BY Basics
  <2>. QED
    BY <1>1, <2>1 DEF Synced
<1>3. disk' \in [Dirs -> [now : SUBSET Numbers, left : SUBSET SUBSET Numbers]]
  BY <1>1, <1>2 DEF Synced
<1>. QED
  BY <1>2, <1>3 DEF Markers

(* The number after the largest: larger than every marker.                  *)
LEMMA ScanFact ==
    ASSUME TypeOK, Placed, NEW d \in Dirs
    PROVE  /\ Max(Markers(d) \cup {0}) + 1 \in Nat
           /\ \A m \in Markers(d) : m < Max(Markers(d) \cup {0}) + 1
           /\ Max(Markers(d) \cup {0}) + 1 > 0
<1>1. MaxSession \in Nat /\ Markers(d) \cup {0} \in SUBSET (0 .. MaxSession)
  BY Basics, BoundsAssumption DEF Numbers
<1>2. /\ Max(Markers(d) \cup {0}) \in Markers(d) \cup {0}
      /\ \A y \in Markers(d) \cup {0} : y <= Max(Markers(d) \cup {0})
  BY <1>1, MaxFact
<1>. QED
  BY <1>1, <1>2

----------------------------------------------------------------------------
(* The types *)

LEMMA ValueFact ==
    ASSUME TypeOK
    PROVE  marker' \in [Roots -> Values] \/ ~ (\E w \in BOOLEAN : LaunchGame(w))
<1>. SUFFICES ASSUME NEW w \in BOOLEAN, LaunchGame(w)
              PROVE  marker' \in [Roots -> Values]
  OBVIOUS
<1>1. GameDir \in Values /\ marker \in [Roots -> Values]
  BY DEF LaunchGame, Values, TypeOK
<1>. QED
  BY <1>1 DEF LaunchGame

LEMMA OffFact ==
    ASSUME TypeOK, NEW ps \in SUBSET Relays, Off(ps)
    PROVE  /\ main' \in [Relays -> {"off", "serving", "opening", "session", "leaving"}]
           /\ dir' \in [Relays -> Dirs \cup {None}]
           /\ task' \in [Relays -> [stage : Stages, next : Numbers]]
<1>1. Idle \in [stage : Stages, next : Numbers]
  BY BoundsAssumption DEF Idle, Stages, Numbers
<1>. QED
  BY <1>1 DEF TypeOK, Off

(* A task that fails, or goes to another stage.                             *)
LEMMA TaskFact ==
    ASSUME TypeOK, NEW p \in Relays
    PROVE  /\ \A stage \in Stages : Stage(p, stage) =>
                 /\ task' = [task EXCEPT ![p] = [stage |-> stage, next |-> task[p].next]]
                 /\ task' \in [Relays -> [stage : Stages, next : Numbers]]
           /\ Failed(p) =>
                 /\ task' = [task EXCEPT ![p] = Idle]
                 /\ task' \in [Relays -> [stage : Stages, next : Numbers]]
                 /\ main' \in [Relays -> {"off", "serving", "opening", "session", "leaving"}]
<1>1. /\ task \in [Relays -> [stage : Stages, next : Numbers]]
      /\ task[p] \in [stage : Stages, next : Numbers]
      /\ main \in [Relays -> {"off", "serving", "opening", "session", "leaving"}]
  BY DEF TypeOK
<1>2. Idle \in [stage : Stages, next : Numbers]
  BY BoundsAssumption DEF Idle, Stages, Numbers
<1>3. ASSUME NEW stage \in Stages, Stage(p, stage)
      PROVE  /\ task' = [task EXCEPT ![p] = [stage |-> stage, next |-> task[p].next]]
             /\ task' \in [Relays -> [stage : Stages, next : Numbers]]
  <2>1. [task[p] EXCEPT !.stage = stage] = [stage |-> stage, next |-> task[p].next]
    BY <1>1
  <2>2. task' = [task EXCEPT ![p] = [task[p] EXCEPT !.stage = stage]]
    BY <1>3 DEF Stage
  <2>. QED
    BY <1>1, <2>1, <2>2
<1>4. ASSUME Failed(p)
      PROVE  /\ task' = [task EXCEPT ![p] = Idle]
             /\ task' \in [Relays -> [stage : Stages, next : Numbers]]
             /\ main' \in [Relays -> {"off", "serving", "opening", "session", "leaving"}]
  BY <1>1, <1>2, <1>4 DEF Failed
<1>. QED
  BY <1>3, <1>4

LEMMA TypeStep ==
    ASSUME TypeOK, Placed, [Next]_vars
    PROVE  TypeOK'
<1>0. "scan" \in Stages /\ "write" \in Stages /\ "remove" \in Stages /\ "create" \in Stages
  BY DEF Stages
<1>1. CASE \E w \in BOOLEAN : LaunchGame(w)
  BY <1>1, ValueFact DEF LaunchGame, TypeOK
<1>2. CASE QuitGame \/ UNCHANGED vars
  BY <1>2 DEF QuitGame, vars, TypeOK
<1>3. CASE LosePower
  <2>1. given' \in [Dirs -> Numbers]
    BY <1>3, BoundsAssumption DEF LosePower, TypeOK, Numbers
  <2>. QED
    BY <1>3, <2>1, PowerFact, OffFact DEF LosePower, TypeOK
<1>4. ASSUME NEW p \in Relays, LaunchRelay(p) \/ EndSession(p) \/ Leave(p)
      PROVE  TypeOK'
  <2>1. main' \in [Relays -> {"off", "serving", "opening", "session", "leaving"}]
    BY <1>4 DEF LaunchRelay, EndSession, Leave, TypeOK
  <2>2. dir' \in [Relays -> Dirs \cup {None}]
    BY <1>4 DEF LaunchRelay, EndSession, Leave, TypeOK
  <2>. QED
    BY <1>4, <2>1, <2>2 DEF LaunchRelay, EndSession, Leave, config, TypeOK
<1>5. ASSUME NEW p \in Relays, Exit(p) \/ Crash(p)
      PROVE  TypeOK'
  BY <1>5, OffFact DEF Exit, Crash, config, TypeOK
<1>6. ASSUME NEW p \in Relays, OpenSession(p)
      PROVE  TypeOK'
  <2>1. Stage(p, "scan") /\ task' \in [Relays -> [stage : Stages, next : Numbers]]
    BY <1>0, <1>6, TaskFact DEF OpenSession, Stage
  <2>. QED
    BY <1>6, <2>1 DEF OpenSession, config, TypeOK
<1>7. ASSUME NEW p \in Relays, Scan(p)
      PROVE  TypeOK'
  <2>. DEFINE next == Max(Markers(dir[p]) \cup {0}) + 1
  <2>1. IF Exhausted(next) THEN Failed(p)
        ELSE task' = [task EXCEPT ![p] = [stage |-> "create", next |-> next]] /\ UNCHANGED main
    BY <1>7 DEF Scan
  <2>2. CASE Exhausted(next)
    BY <1>7, <2>1, <2>2, TaskFact DEF Scan, config, TypeOK
  <2>3. CASE ~ Exhausted(next)
    <3>. HIDE DEF next
    <3>1. [stage |-> "create", next |-> next] \in [stage : Stages, next : Numbers]
      BY <1>0, <2>3 DEF Exhausted
    <3>. QED
      BY <1>7, <2>1, <2>3, <3>1 DEF Scan, config, TypeOK
  <2>. QED
    BY <2>2, <2>3
<1>8. ASSUME NEW p \in Relays, Create(p)
      PROVE  TypeOK'
  <2>1. dir[p] \in Dirs /\ task[p].next \in Numbers
    BY <1>8, Basics DEF Create, At
  <2>2. CASE task[p].next \in Markers(dir[p])
    BY <1>0, <1>8, <2>2, TaskFact DEF Create, Taken, config, TypeOK
  <2>3. CASE task[p].next \notin Markers(dir[p])
    <3>1. Stage(p, "write") /\ Write(dir[p], Markers(dir[p]) \cup {task[p].next})
      BY <1>8, <2>3 DEF Create
    <3>2. Markers(dir[p]) \cup {task[p].next} \in SUBSET Numbers
      BY <2>1, Basics
    <3>3. disk' \in [Dirs -> [now : SUBSET Numbers, left : SUBSET SUBSET Numbers]]
      BY <2>1, <3>1, <3>2, WriteFact
    <3>. QED
      BY <1>0, <1>8, <3>1, <3>3, TaskFact DEF Create, config, TypeOK
  <2>. QED
    BY <2>2, <2>3
<1>9. ASSUME NEW p \in Relays, CreateUnsecured(p)
      PROVE  TypeOK'
  <2>1. dir[p] \in Dirs
    BY <1>9, Basics DEF CreateUnsecured, At
  <2>2. Markers(dir[p]) \ {task[p].next} \in SUBSET Numbers
    BY <2>1, Basics
  <2>3. disk' \in [Dirs -> [now : SUBSET Numbers, left : SUBSET SUBSET Numbers]]
    BY <1>9, <2>1, <2>2, WriteFact DEF CreateUnsecured
  <2>. QED
    BY <1>9, <2>3, TaskFact DEF CreateUnsecured, config, TypeOK
<1>10. ASSUME NEW p \in Relays, WriteMarker(p) \/ TaskFails(p)
       PROVE  TypeOK'
  BY <1>0, <1>10, TaskFact DEF WriteMarker, TaskFails, config, TypeOK
<1>11. ASSUME NEW p \in Relays, RemoveOlder(p)
       PROVE  TypeOK'
  <2>1. dir[p] \in Dirs
    BY <1>11, Basics DEF RemoveOlder, At
  <2>2. PICK m \in Older(p) : Write(dir[p], Markers(dir[p]) \ {m})
    BY <1>11 DEF RemoveOlder
  <2>3. Markers(dir[p]) \ {m} \in SUBSET Numbers
    BY <2>1, Basics
  <2>4. disk' \in [Dirs -> [now : SUBSET Numbers, left : SUBSET SUBSET Numbers]]
    BY <2>1, <2>2, <2>3, WriteFact
  <2>. QED
    BY <1>11, <2>4 DEF RemoveOlder, config, TypeOK
<1>12. ASSUME NEW p \in Relays, GiveNumber(p)
       PROVE  TypeOK'
  <2>1. dir[p] \in Dirs /\ task[p].next \in Numbers
    BY <1>12, Basics DEF GiveNumber, At
  <2>2. disk' \in [Dirs -> [now : SUBSET Numbers, left : SUBSET SUBSET Numbers]]
    BY <1>12, <2>1, SyncFact DEF GiveNumber
  <2>3. Idle \in [stage : Stages, next : Numbers]
    BY BoundsAssumption DEF Idle, Stages, Numbers
  <2>4. task' \in [Relays -> [stage : Stages, next : Numbers]]
    BY <1>12, <2>3 DEF GiveNumber, TypeOK
  <2>5. /\ main' \in [Relays -> {"off", "serving", "opening", "session", "leaving"}]
        /\ given' \in [Dirs -> Numbers]
    BY ZenonT(30), <1>12, <2>1 DEF GiveNumber, TypeOK
  <2>. QED
    BY <1>12, <2>2, <2>4, <2>5 DEF GiveNumber, config, TypeOK
<1>. QED
  BY <1>1, <1>2, <1>3, <1>4, <1>5, <1>6, <1>7, <1>8, <1>9, <1>10, <1>11, <1>12
  DEF Next, TaskWorks

----------------------------------------------------------------------------
(* The lease *)

(* What a step may do to the processes and their numbers.                   *)
ProcessShape(p) ==
    \/ LaunchRelay(p) /\ UNCHANGED <<task, given>>
    \/ /\ main[p] = "serving" /\ main' = [main EXCEPT ![p] = "opening"]
       /\ task[p] = Idle /\ task' = [task EXCEPT ![p] = [stage |-> "scan", next |-> 0]]
       /\ UNCHANGED <<dir, given>>
    \/ /\ main' \in {[main EXCEPT ![p] = "serving"], [main EXCEPT ![p] = "leaving"]}
       /\ main[p] \in Holding /\ UNCHANGED <<dir, task, given>>
    \/ Off({p}) /\ UNCHANGED given
    \/ /\ task[p].stage # "idle" /\ UNCHANGED <<dir, given>>
       /\ \/ Failed(p)
          \/ /\ UNCHANGED main
             /\ \/ UNCHANGED task
                \/ \E stage \in {"scan", "write", "remove"} :
                      /\ stage = "scan" \/ task[p].stage \in {"create", "write"}
                      /\ task' = [task EXCEPT ![p] = [stage |-> stage, next |-> task[p].next]]
                \/ \E next \in Numbers :
                      /\ next = Max(Markers(dir[p]) \cup {0}) + 1
                      /\ task' = [task EXCEPT ![p] = [stage |-> "create", next |-> next]]
    \/ /\ task[p].stage # "idle" /\ task' = [task EXCEPT ![p] = Idle]
       /\ UNCHANGED <<dir, main, given>>
    \/ /\ task[p].stage = "remove" /\ task' = [task EXCEPT ![p] = Idle]
       /\ main[p] = "opening" /\ main' = [main EXCEPT ![p] = "session"]
       /\ given' = [given EXCEPT ![dir[p]] = task[p].next] /\ UNCHANGED dir

LEMMA StepShape ==
    ASSUME TypeOK, Placed, [Next]_vars
    PROVE  \/ UNCHANGED <<main, dir, task, given>>
           \/ Off(Relays)
           \/ \E p \in Relays : ProcessShape(p)
<1>0. "scan" \in Stages /\ "write" \in Stages /\ "remove" \in Stages
  BY DEF Stages
<1>1. CASE (\E w \in BOOLEAN : LaunchGame(w)) \/ QuitGame \/ UNCHANGED vars
  BY <1>1 DEF LaunchGame, QuitGame, vars
<1>2. CASE LosePower
  BY <1>2 DEF LosePower
<1>3. ASSUME NEW p \in Relays, LaunchRelay(p) \/ EndSession(p) \/ Leave(p)
      PROVE  ProcessShape(p)
  BY <1>3 DEF LaunchRelay, EndSession, Leave, Holding, ProcessShape
<1>4. ASSUME NEW p \in Relays, Exit(p) \/ Crash(p)
      PROVE  ProcessShape(p)
  BY <1>4 DEF Exit, Crash, ProcessShape
<1>5. ASSUME NEW p \in Relays, OpenSession(p)
      PROVE  ProcessShape(p)
  <2>1. Stage(p, "scan") /\ task[p] = Idle /\ Idle.next = 0
    BY <1>5 DEF OpenSession, Stage, Idle
  <2>2. task' = [task EXCEPT ![p] = [stage |-> "scan", next |-> 0]]
    BY <1>0, <2>1, TaskFact
  <2>. QED
    BY <1>5, <2>1, <2>2 DEF OpenSession, ProcessShape
<1>6. ASSUME NEW p \in Relays, Scan(p)
      PROVE  ProcessShape(p)
  <2>1. task[p].stage = "scan"
    BY <1>6 DEF Scan, At
  <2>. QED
    BY <1>6, <2>1 DEF Scan, ProcessShape, Exhausted
<1>7. ASSUME NEW p \in Relays, Create(p)
      PROVE  ProcessShape(p)
  <2>1. task[p].stage = "create" /\ (Stage(p, "scan") \/ Stage(p, "write"))
    BY <1>7 DEF Create, At, Taken
  <2>2. \/ task' = [task EXCEPT ![p] = [stage |-> "scan", next |-> task[p].next]]
        \/ task' = [task EXCEPT ![p] = [stage |-> "write", next |-> task[p].next]]
    BY <1>0, <2>1, TaskFact
  <2>. QED
    BY <1>7, <2>1, <2>2 DEF Create, ProcessShape
<1>8. ASSUME NEW p \in Relays, WriteMarker(p)
      PROVE  ProcessShape(p)
  <2>1. task[p].stage = "write" /\ Stage(p, "remove")
    BY <1>8 DEF WriteMarker, At
  <2>2. task' = [task EXCEPT ![p] = [stage |-> "remove", next |-> task[p].next]]
    BY <1>0, <2>1, TaskFact
  <2>. QED
    BY <1>8, <2>1, <2>2 DEF WriteMarker, ProcessShape
<1>9. ASSUME NEW p \in Relays, CreateUnsecured(p) \/ TaskFails(p)
      PROVE  ProcessShape(p)
  BY <1>9 DEF CreateUnsecured, TaskFails, At, ProcessShape
<1>10. ASSUME NEW p \in Relays, RemoveOlder(p)
       PROVE  ProcessShape(p)
  BY <1>10 DEF RemoveOlder, At, ProcessShape
<1>11. ASSUME NEW p \in Relays, GiveNumber(p)
       PROVE  ProcessShape(p)
  BY <1>11 DEF GiveNumber, At, ProcessShape
<1>. QED
  BY <1>1, <1>2, <1>3, <1>4, <1>5, <1>6, <1>7, <1>8, <1>9, <1>10, <1>11 DEF Next, TaskWorks

LEMMA LeaseStep ==
    ASSUME TypeOK, Placed, OneLease, [Next]_vars
    PROVE  Placed' /\ OneLease'
<1>. /\ dir \in [Relays -> Dirs \cup {None}] /\ task \in [Relays -> [stage : Stages, next : Numbers]]
     /\ main \in [Relays -> {"off", "serving", "opening", "session", "leaving"}]
  BY DEF TypeOK
<1>1. CASE UNCHANGED <<main, dir, task, given>>
  BY <1>1 DEF Placed, OneLease
<1>2. CASE Off(Relays)
  BY <1>2 DEF Off, Placed, OneLease, Holding
<1>3. ASSUME NEW p \in Relays, ProcessShape(p)
      PROVE  Placed' /\ OneLease'
  <2>1. CASE LaunchRelay(p) /\ UNCHANGED <<task, given>>
    BY <2>1 DEF LaunchRelay, Leased, Placed, OneLease, Holding
  <2>2. CASE /\ main[p] = "serving" /\ main' = [main EXCEPT ![p] = "opening"]
             /\ task[p] = Idle /\ task' = [task EXCEPT ![p] = [stage |-> "scan", next |-> 0]]
             /\ UNCHANGED <<dir, given>>
    BY <2>2 DEF Placed, OneLease, Holding
  <2>3. CASE /\ main' \in {[main EXCEPT ![p] = "serving"], [main EXCEPT ![p] = "leaving"]}
             /\ main[p] \in Holding /\ UNCHANGED <<dir, task, given>>
    BY <2>3 DEF Placed, OneLease, Holding
  <2>4. CASE Off({p})
    BY <2>4 DEF Off, Placed, OneLease, Holding
  <2>5. CASE task[p].stage # "idle" /\ UNCHANGED dir /\ ~ Off({p})
    <3>1. main[p] # "off"
      BY <2>5 DEF Placed, Idle
    <3>2. \A q \in Relays \ {p} : task'[q] = task[q] /\ main'[q] = main[q]
      BY <1>3, <2>5, <3>1 DEF ProcessShape, LaunchRelay, Failed
    <3>3. main'[p] = main[p] \/ (main[p] \in Holding /\ main'[p] # "off")
      BY <1>3, <2>5, <3>1 DEF ProcessShape, LaunchRelay, Failed, Holding
    <3>4. Placed'
      BY <2>5, <3>1, <3>2, <3>3 DEF Placed, Holding
    <3>5. OneLease'
      BY <2>5, <3>2, <3>3 DEF OneLease
    <3>. QED
      BY <3>4, <3>5
  <2>. QED
    BY <1>3, <2>1, <2>2, <2>3, <2>4, <2>5 DEF ProcessShape
<1>. QED
  BY <1>1, <1>2, <1>3, StepShape

LEMMA FresherStep ==
    ASSUME IInv, [Next]_vars
    PROVE  Fresher'
<1>. TypeOK /\ Placed /\ OneLease /\ Lasting /\ Fresher
  BY DEF IInv
<1>. /\ dir \in [Relays -> Dirs \cup {None}] /\ task \in [Relays -> [stage : Stages, next : Numbers]]
     /\ main \in [Relays -> {"off", "serving", "opening", "session", "leaving"}]
     /\ given \in [Dirs -> Numbers]
  BY DEF TypeOK
<1>1. CASE UNCHANGED <<main, dir, task, given>>
  BY <1>1 DEF Fresher
<1>2. CASE Off(Relays)
  BY <1>2 DEF Off, Fresher
<1>3. ASSUME NEW p \in Relays, ProcessShape(p)
      PROVE  Fresher'
  <2>1. CASE LaunchRelay(p) /\ UNCHANGED <<task, given>>
    BY <2>1 DEF LaunchRelay, Fresher
  <2>2. CASE /\ main[p] = "serving" /\ main' = [main EXCEPT ![p] = "opening"]
             /\ task[p] = Idle /\ task' = [task EXCEPT ![p] = [stage |-> "scan", next |-> 0]]
             /\ UNCHANGED <<dir, given>>
    BY <2>2 DEF Fresher
  <2>3. CASE /\ main' \in {[main EXCEPT ![p] = "serving"], [main EXCEPT ![p] = "leaving"]}
             /\ main[p] \in Holding /\ UNCHANGED <<dir, task, given>>
    BY <2>3 DEF Fresher
  <2>4. CASE Off({p}) /\ UNCHANGED given
    BY <2>4 DEF Off, Fresher
  <2>5. CASE Failed(p) /\ UNCHANGED <<dir, given>>
    BY <2>5 DEF Failed, Idle, Fresher
  <2>6. CASE UNCHANGED <<main, task, dir, given>>
    BY <2>6 DEF Fresher
  <2>7. ASSUME NEW stage \in {"scan", "write", "remove"},
               stage = "scan" \/ task[p].stage \in {"create", "write"},
               task' = [task EXCEPT ![p] = [stage |-> stage, next |-> task[p].next]],
               UNCHANGED <<main, dir, given>>
        PROVE  Fresher'
    BY <2>7 DEF Fresher
  <2>8. ASSUME NEW next \in Numbers, next = Max(Markers(dir[p]) \cup {0}) + 1,
               task' = [task EXCEPT ![p] = [stage |-> "create", next |-> next]],
               task[p].stage # "idle", UNCHANGED <<main, dir, given>>
        PROVE  Fresher'
    <3>1. dir[p] \in Dirs
      BY <2>8, Basics
    <3>2. given[dir[p]] \in Nat /\ Markers(dir[p]) \subseteq Nat /\ next \in Nat
      BY <3>1, Basics
    <3>3. next > 0 /\ \A m \in Markers(dir[p]) : m < next
      BY <2>8, <3>1, ScanFact
    <3>4. given[dir[p]] # 0 => \E m \in Markers(dir[p]) : m >= given[dir[p]]
      BY <3>1 DEF Lasting, Holds
    <3>5. next > given[dir[p]]
      BY <3>2, <3>3, <3>4
    <3>. QED
      BY <2>8, <3>5 DEF Fresher
  <2>9. CASE task' = [task EXCEPT ![p] = Idle] /\ UNCHANGED <<dir, main, given>>
    BY <2>9 DEF Idle, Fresher
  <2>10. CASE /\ task[p].stage = "remove" /\ task' = [task EXCEPT ![p] = Idle]
              /\ main[p] = "opening" /\ main' = [main EXCEPT ![p] = "session"]
              /\ given' = [given EXCEPT ![dir[p]] = task[p].next] /\ UNCHANGED dir
    <3>1. ASSUME NEW q \in Relays, main'[q] = "opening",
                 task'[q].stage \in {"create", "write", "remove"}
          PROVE  /\ task'[q] = task[q] /\ main[q] = "opening" /\ q # p
                 /\ dir[q] \in Dirs /\ dir[q] # dir[p]
      <4>1. q # p /\ main[q] = "opening" /\ task'[q] = task[q]
        BY <2>10, <3>1 DEF Idle
      <4>. QED
        BY <2>10, <3>1, <4>1, Basics DEF OneLease, Holding
    <3>2. dir[p] \in Dirs
      BY <2>10, Basics
    <3>. QED
      BY <2>10, <3>1, <3>2 DEF Fresher
  <2>. QED
    BY <1>3, <2>1, <2>2, <2>3, <2>4, <2>5, <2>6, <2>7, <2>8, <2>9, <2>10 DEF ProcessShape
<1>. QED
  BY <1>1, <1>2, <1>3, StepShape

LEMMA ChosenStep ==
    ASSUME TypeOK, Chosen, [Next]_vars
    PROVE  Chosen'
<1>1. ASSUME NEW w \in BOOLEAN, LaunchGame(w)
      PROVE  Chosen'
  BY <1>1 DEF LaunchGame, GameDir, OrElse, Chosen, Value
<1>2. CASE QuitGame \/ LosePower
  BY <1>2 DEF QuitGame, LosePower, Chosen
<1>3. CASE UNCHANGED <<env, game>>
  BY <1>3 DEF Chosen, Value
<1>4. ASSUME NEW p \in Relays,
             \/ LaunchRelay(p) \/ OpenSession(p) \/ EndSession(p) \/ Leave(p) \/ Exit(p)
             \/ Crash(p) \/ TaskWorks(p) \/ TaskFails(p) \/ CreateUnsecured(p)
      PROVE  UNCHANGED <<env, game>>
  BY <1>4 DEF LaunchRelay, OpenSession, EndSession, Leave, Exit, Crash, TaskWorks, TaskFails,
              CreateUnsecured, Scan, Create, WriteMarker, RemoveOlder, GiveNumber, config
<1>. QED
  BY <1>1, <1>2, <1>3, <1>4 DEF Next, vars

----------------------------------------------------------------------------
(* The markers *)

(* The ways the markers of a directory and the tasks that may take one back *)
(* change together, for a process p whose task is at work.                  *)
MarkerShape(p) ==
    \/ /\ At(p, "create") /\ task[p].next \notin Markers(dir[p])
       /\ Write(dir[p], Markers(dir[p]) \cup {task[p].next})
       /\ task' = [task EXCEPT ![p] = [stage |-> "write", next |-> task[p].next]]
       /\ UNCHANGED <<dir, given>>
    \/ /\ At(p, "write") /\ Write(dir[p], Markers(dir[p]) \ {task[p].next})
       /\ task' = [task EXCEPT ![p] = Idle] /\ UNCHANGED <<dir, given>>
    \/ /\ At(p, "remove") /\ \E m \in Older(p) : Write(dir[p], Markers(dir[p]) \ {m})
       /\ UNCHANGED <<task, dir, given>>
    \/ /\ At(p, "remove") /\ Sync(dir[p]) /\ task' = [task EXCEPT ![p] = Idle]
       /\ UNCHANGED dir
       /\ given' \in {given, [given EXCEPT ![dir[p]] = task[p].next]}

(* The other steps make no task endanger a marker, and change none.          *)
Quiet ==
    /\ UNCHANGED <<disk, given>>
    /\ \A q \in Relays : task'[q].stage \in {"write", "remove"} =>
          /\ task'[q].next = task[q].next /\ dir'[q] = dir[q]
          /\ task[q].stage \in {"write", "remove"}
          /\ task'[q].stage = "write" => task[q].stage = "write"

LEMMA MarkerSteps ==
    ASSUME TypeOK, Placed, [Next]_vars
    PROVE  Quiet \/ LosePower \/ \E p \in Relays : MarkerShape(p)
<1>. /\ dir \in [Relays -> Dirs \cup {None}] /\ task \in [Relays -> [stage : Stages, next : Numbers]]
  BY DEF TypeOK
<1>0. "scan" \in Stages /\ "write" \in Stages /\ "remove" \in Stages /\ Idle.stage = "idle"
  BY DEF Stages, Idle
<1>1. CASE (\E w \in BOOLEAN : LaunchGame(w)) \/ QuitGame \/ UNCHANGED vars
  BY <1>1 DEF LaunchGame, QuitGame, vars, Quiet
<1>3. ASSUME NEW p \in Relays, EndSession(p) \/ Leave(p)
      PROVE  Quiet
  BY <1>3 DEF EndSession, Leave, Quiet
<1>4. ASSUME NEW p \in Relays, LaunchRelay(p)
      PROVE  Quiet
  <2>1. task[p].stage = "idle"
    BY <1>0, <1>4 DEF LaunchRelay, Placed
  <2>2. \A q \in Relays \ {p} : dir'[q] = dir[q]
    BY <1>4 DEF LaunchRelay
  <2>. QED
    BY <1>4, <2>1, <2>2 DEF LaunchRelay, Quiet
<1>5. ASSUME NEW p \in Relays, Exit(p) \/ Crash(p)
      PROVE  Quiet
  BY <1>0, <1>5 DEF Exit, Crash, Off, Quiet
<1>6. ASSUME NEW p \in Relays, OpenSession(p)
      PROVE  Quiet
  <2>1. task' = [task EXCEPT ![p] = [stage |-> "scan", next |-> task[p].next]]
    BY <1>0, <1>6, TaskFact DEF OpenSession, Stage
  <2>. QED
    BY <1>6, <2>1 DEF OpenSession, Quiet
<1>7. ASSUME NEW p \in Relays, Scan(p)
      PROVE  Quiet
  <2>1. \/ task' = [task EXCEPT ![p] = Idle]
        \/ \E next \in Numbers : task' = [task EXCEPT ![p] = [stage |-> "create", next |-> next]]
    BY <1>7 DEF Scan, Failed, Exhausted
  <2>. QED
    BY <1>0, <1>7, <2>1 DEF Scan, Quiet
<1>8. ASSUME NEW p \in Relays, Create(p)
      PROVE  Quiet \/ MarkerShape(p)
  <2>1. CASE task[p].next \in Markers(dir[p])
    <3>1. task' = [task EXCEPT ![p] = [stage |-> "scan", next |-> task[p].next]]
      BY <1>0, <1>8, <2>1, TaskFact DEF Create, Taken
    <3>. QED
      BY <1>8, <2>1, <3>1 DEF Create, Quiet
  <2>2. CASE task[p].next \notin Markers(dir[p])
    <3>1. task' = [task EXCEPT ![p] = [stage |-> "write", next |-> task[p].next]]
      BY <1>0, <1>8, <2>2, TaskFact DEF Create
    <3>. QED
      BY <1>8, <2>2, <3>1 DEF Create, MarkerShape
  <2>. QED
    BY <2>1, <2>2
<1>9. ASSUME NEW p \in Relays, WriteMarker(p)
      PROVE  Quiet
  <2>1. task' = [task EXCEPT ![p] = [stage |-> "remove", next |-> task[p].next]]
    BY <1>0, <1>9, TaskFact DEF WriteMarker
  <2>. QED
    BY <1>9, <2>1 DEF WriteMarker, At, Quiet
<1>10. ASSUME NEW p \in Relays, TaskFails(p)
       PROVE  Quiet
  BY <1>0, <1>10 DEF TaskFails, Failed, Quiet
<1>11. ASSUME NEW p \in Relays, CreateUnsecured(p) \/ RemoveOlder(p) \/ GiveNumber(p)
       PROVE  MarkerShape(p)
  BY <1>11 DEF CreateUnsecured, RemoveOlder, GiveNumber, Failed, MarkerShape
<1>. QED
  BY <1>1, <1>3, <1>4, <1>5, <1>6, <1>7, <1>8, <1>9, <1>10, <1>11 DEF Next, TaskWorks

(* A number stays covered, unless a task that may take its marker does so.  *)
LEMMA HoldsKept ==
    ASSUME IInv, NEW d \in Dirs, NEW n \in Nat, NEW E \in SUBSET Relays, Holds(d, n, E),
           Quiet \/ \E p \in Relays : MarkerShape(p) /\ (At(p, "write") => p \notin E)
    PROVE  Holds(d, n, E)'
<1>. /\ dir \in [Relays -> Dirs \cup {None}] /\ task \in [Relays -> [stage : Stages, next : Numbers]]
     /\ TypeOK /\ Placed /\ Marked
  BY DEF IInv, TypeOK
<1>0. Idle.stage = "idle" /\ Markers(d) \subseteq Nat
  BY Basics DEF Idle
<1>1. PICK m \in Markers(d) :
        /\ m >= n
        /\ \A q \in Relays \ E : dir[q] = d /\ At(q, "write") => task[q].next # m
  BY DEF Holds
<1>2. CASE Quiet
  BY <1>1, <1>2 DEF Quiet, Holds, Markers, At
<1>3. ASSUME NEW p \in Relays, MarkerShape(p), At(p, "write") => p \notin E
      PROVE  Holds(d, n, E)'
  <2>0. dir[p] \in Dirs /\ UNCHANGED dir /\ task[p].next \in Nat
    BY <1>3, Basics DEF MarkerShape, At
  <2>1. ASSUME NEW x \in Markers(d),
               x \in Markers(d)', x >= n,
               \A q \in Relays \ E : dir[q] = d /\ At(q, "write")' => task'[q].next # x
        PROVE  Holds(d, n, E)'
    BY <2>0, <2>1 DEF Holds
  <2>2. CASE /\ At(p, "create") /\ task[p].next \notin Markers(dir[p])
             /\ Write(dir[p], Markers(dir[p]) \cup {task[p].next})
             /\ task' = [task EXCEPT ![p] = [stage |-> "write", next |-> task[p].next]]
    <3>1. Markers(dir[p]) \cup {task[p].next} \in SUBSET Numbers
      BY <2>0, Basics
    <3>2. m \in Markers(d)'
      BY <2>0, <2>2, <3>1, WriteFact
    <3>3. \A q \in Relays \ E : dir[q] = d /\ At(q, "write")' => task'[q].next # m
      BY <1>1, <2>2 DEF At
    <3>. QED
      BY <1>1, <2>1, <3>2, <3>3
  <2>3. CASE /\ At(p, "write") /\ Write(dir[p], Markers(dir[p]) \ {task[p].next})
             /\ task' = [task EXCEPT ![p] = Idle]
    <3>1. Markers(dir[p]) \ {task[p].next} \in SUBSET Numbers
      BY <2>0, Basics
    <3>2. m \in Markers(d)'
      BY <1>1, <1>3, <2>0, <2>3, <3>1, WriteFact
    <3>3. \A q \in Relays \ E : dir[q] = d /\ At(q, "write")' => task'[q].next # m
      BY <1>0, <1>1, <2>3 DEF At
    <3>. QED
      BY <1>1, <2>1, <3>2, <3>3
  <2>4. CASE /\ At(p, "remove") /\ \E o \in Older(p) : Write(dir[p], Markers(dir[p]) \ {o})
             /\ UNCHANGED task
    <3>1. PICK o \in Older(p) : Write(dir[p], Markers(dir[p]) \ {o})
      BY <2>4
    <3>2. Markers(dir[p]) \ {o} \in SUBSET Numbers
      BY <2>0, Basics
    <3>3. \A x \in Markers(d) : dir[p] # d \/ x # o => x \in Markers(d)'
      BY <2>0, <3>1, <3>2, WriteFact
    <3>4. CASE dir[p] # d \/ m # o
      BY <1>1, <2>1, <2>4, <3>3, <3>4 DEF At
    <3>5. CASE dir[p] = d /\ m = o
      <4>1. m < task[p].next
        BY <3>5 DEF Older
      <4>2. PICK x \in Markers(d) :
              /\ x >= task[p].next
              /\ \A q \in Relays \ {p} : dir[q] = d /\ At(q, "write") => task[q].next # x
        BY <2>4, <3>5 DEF Marked, Holds, At
      <4>3. x # o /\ x >= n
        BY <1>0, <1>1, <2>0, <3>5, <4>1, <4>2
      <4>4. \A q \in Relays \ E : dir[q] = d /\ At(q, "write")' => task'[q].next # x
        BY <2>4, <4>2 DEF At
      <4>. QED
        BY <2>1, <3>3, <4>3, <4>4
    <3>. QED
      BY <3>4, <3>5
  <2>5. CASE At(p, "remove") /\ Sync(dir[p]) /\ task' = [task EXCEPT ![p] = Idle]
    <3>1. m \in Markers(d)'
      BY <2>0, <2>5, SyncFact
    <3>2. \A q \in Relays \ E : dir[q] = d /\ At(q, "write")' => task'[q].next # m
      BY <1>0, <1>1, <2>5 DEF At
    <3>. QED
      BY <1>1, <2>1, <3>1, <3>2
  <2>. QED
    BY <1>3, <2>2, <2>3, <2>4, <2>5 DEF MarkerShape
<1>. QED
  BY <1>2, <1>3

LEMMA MarkedStep ==
    ASSUME IInv, [Next]_vars
    PROVE  Marked'
<1>. /\ dir \in [Relays -> Dirs \cup {None}] /\ task \in [Relays -> [stage : Stages, next : Numbers]]
     /\ TypeOK /\ Placed /\ Marked
  BY DEF IInv, TypeOK
<1>0. Idle.stage = "idle"
  BY DEF Idle
<1>1. CASE LosePower
  BY <1>0, <1>1 DEF LosePower, Off, Marked
<1>2. ASSUME NEW p \in Relays, task[p].stage \in {"write", "remove"},
             task'[p].next = task[p].next, dir'[p] = dir[p],
             Quiet \/ \E q \in Relays : MarkerShape(q) /\ (At(q, "write") => q \notin {p})
      PROVE  Holds(dir[p], task[p].next, {p})'
  <2>1. PICK d \in Dirs, n \in Nat : d = dir[p] /\ n = task[p].next
    BY <1>2, Basics
  <2>2. Holds(d, n, {p})
    BY <1>2, <2>1 DEF Marked
  <2>3. {p} \in SUBSET Relays
    OBVIOUS
  <2>4. Holds(d, n, {p})'
    BY <1>2, <2>2, <2>3, HoldsKept
  <2>. QED
    BY <1>2, <2>1, <2>4 DEF Holds
<1>3. CASE Quiet
  <2>. SUFFICES ASSUME NEW p \in Relays, task'[p].stage \in {"write", "remove"}
                PROVE  Holds(dir[p], task[p].next, {p})'
    BY DEF Marked
  <2>. QED
    BY <1>2, <1>3 DEF Quiet
<1>4. ASSUME NEW q \in Relays, MarkerShape(q)
      PROVE  Marked'
  <2>. SUFFICES ASSUME NEW p \in Relays, task'[p].stage \in {"write", "remove"}
                PROVE  Holds(dir[p], task[p].next, {p})'
    BY DEF Marked
  <2>0. dir[q] \in Dirs /\ UNCHANGED dir /\ task[q].next \in Nat
    BY <1>4, Basics DEF MarkerShape, At
  <2>1. CASE p # q
    <3>1. task'[p] = task[p]
      BY <1>4, <2>1 DEF MarkerShape
    <3>. QED
      BY <1>2, <1>4, <2>0, <2>1, <3>1
  <2>2. CASE p = q /\ UNCHANGED task /\ At(q, "remove")
    BY <1>2, <1>4, <2>0, <2>2 DEF At
  <2>3. CASE /\ p = q /\ At(p, "create") /\ task[p].next \notin Markers(dir[p])
             /\ Write(dir[p], Markers(dir[p]) \cup {task[p].next})
             /\ task' = [task EXCEPT ![p] = [stage |-> "write", next |-> task[p].next]]
    <3>1. Markers(dir[p]) \cup {task[p].next} \in SUBSET Numbers
      BY <2>0, <2>3, Basics
    <3>2. Markers(dir[p])' = Markers(dir[p]) \cup {task[p].next}
      <4>1. disk'[dir[p]].now = Markers(dir[p]) \cup {task[p].next}
        BY <2>0, <2>3, <3>1, WriteFact DEF Markers
      <4>. QED
        BY <2>0, <4>1 DEF Markers
    <3>3. task'[p].next = task[p].next /\ task[p].next \in Markers(dir[p])'
      BY <2>3, <3>2
    <3>4. CASE \A r \in Relays \ {p} : dir'[r] = dir'[p] /\ At(r, "write")' => task'[r].next # task[p].next
      BY <2>0, <2>3, <3>3, <3>4 DEF Holds
    <3>5. ASSUME NEW r \in Relays \ {p}, dir'[r] = dir'[p], At(r, "write")',
                 task'[r].next = task[p].next
          PROVE  Holds(dir[p], task[p].next, {p})'
      <4>1. /\ dir[r] = dir[p] /\ task[r].stage = "write" /\ task[r].next = task[p].next
        BY <2>0, <2>3, <3>5 DEF At
      <4>2. PICK m \in Markers(dir[p]) :
              /\ m >= task[p].next
              /\ \A s \in Relays \ {r} : dir[s] = dir[p] /\ At(s, "write") => task[s].next # m
        BY <4>1 DEF Marked, Holds
      <4>3. m # task[p].next
        BY <2>3, <4>2
      <4>4. \A s \in Relays \ {p} : dir'[s] = dir'[p] /\ At(s, "write")' => task'[s].next # m
        BY <2>0, <2>3, <4>1, <4>2, <4>3 DEF At
      <4>5. m \in Markers(dir[p])'
        BY <3>2, <4>2
      <4>. QED
        BY <2>3, <3>3, <4>2, <4>4, <4>5 DEF Holds
    <3>. QED
      BY <3>4, <3>5
  <2>. QED
    BY <1>0, <1>4, <2>1, <2>2, <2>3 DEF MarkerShape
<1>. QED
  BY <1>1, <1>3, <1>4, MarkerSteps

(* What the power may leave is what was left before, or a new content that  *)
(* still has the number's marker; a sync leaves only the last.              *)
LEMMA LeftFact ==
    ASSUME TypeOK, Placed, NEW d \in Dirs, NEW p \in Relays, MarkerShape(p)
    PROVE  \A content \in disk'[d].left : content \in disk[d].left \/ content = Markers(d)'
<1>1. dir[p] \in Dirs /\ task[p].next \in Numbers
  <2>1. task[p].stage # "idle"
    BY DEF MarkerShape, At
  <2>. QED
    BY <2>1, Basics
<1>2. ASSUME NEW markers \in SUBSET Numbers, Write(dir[p], markers)
      PROVE  \A content \in disk'[d].left : content \in disk[d].left \/ content = Markers(d)'
  <2>1. CASE d = dir[p]
    BY <1>1, <1>2, <2>1, WriteFact
  <2>2. CASE d # dir[p]
    BY <1>1, <1>2, <2>2, WriteFact
  <2>. QED
    BY <2>1, <2>2
<1>3. CASE Sync(dir[p])
  <2>1. CASE d = dir[p]
    <3>1. disk'[d].left \in {{Markers(d)}, disk[d].left} /\ Markers(d)' = Markers(d)
      BY <1>1, <1>3, <2>1, SyncFact
    <3>. QED
      BY <3>1
  <2>2. CASE d # dir[p]
    BY <1>1, <1>3, <2>2, SyncFact
  <2>. QED
    BY <2>1, <2>2
<1>4. \/ Sync(dir[p])
      \/ \E markers \in SUBSET Numbers : Write(dir[p], markers)
  <2>1. Markers(dir[p]) \subseteq Numbers
    BY <1>1, Basics
  <2>2. \A m : Markers(dir[p]) \ {m} \in SUBSET Numbers
    BY <2>1
  <2>3. Markers(dir[p]) \cup {task[p].next} \in SUBSET Numbers
    BY <1>1, <2>1
  <2>. QED
    BY <2>2, <2>3 DEF MarkerShape
<1>. QED
  BY <1>2, <1>3, <1>4

(* No step changes the machine.                                             *)
LEMMA SameMachine == [Next]_vars => UNCHANGED env
BY DEF Next, LaunchGame, QuitGame, LosePower, LaunchRelay, OpenSession, EndSession, Leave, Exit,
       Crash, TaskWorks, TaskFails, CreateUnsecured, Scan, Create, WriteMarker, RemoveOlder,
       GiveNumber, config, vars

LEMMA LastingStep ==
    ASSUME IInv, [Next]_vars
    PROVE  Lasting'
<1>. /\ dir \in [Relays -> Dirs \cup {None}] /\ task \in [Relays -> [stage : Stages, next : Numbers]]
     /\ TypeOK /\ Placed /\ Marked /\ Lasting /\ given \in [Dirs -> Numbers]
  BY DEF IInv, TypeOK
<1>. Idle.stage = "idle" /\ {} \in SUBSET Relays
  BY DEF Idle
<1>. SUFFICES ASSUME NEW d \in Dirs, given'[d] # 0
              PROVE  /\ Holds(d, given[d], {})'
                     /\ env.unix =>
                          \A content \in disk'[d].left : \E m \in content : m >= given'[d]
  BY SameMachine DEF Lasting
<1>0. given[d] \in Nat
  BY Basics
<1>1. CASE LosePower
  <2>0. env.unix
    BY <1>1 DEF LosePower
  <2>1. /\ Markers(d)' \in disk[d].left /\ disk'[d].left = {Markers(d)'} /\ given'[d] = given[d]
    BY <1>1, <2>0, PowerFact DEF LosePower
  <2>2. \A q \in Relays : ~ At(q, "write")'
    BY <1>1 DEF LosePower, Off, At
  <2>3. \E m \in Markers(d)' : m >= given'[d]
    BY <2>0, <2>1 DEF Lasting
  <2>. QED
    BY <2>1, <2>2, <2>3 DEF Holds
<1>2. ASSUME given'[d] = given[d], Quiet \/ \E p \in Relays : MarkerShape(p)
      PROVE  /\ Holds(d, given[d], {})'
             /\ env.unix => \A content \in disk'[d].left : \E m \in content : m >= given'[d]
  <2>1. /\ Holds(d, given[d], {})
        /\ env.unix => \A content \in disk[d].left : \E m \in content : m >= given[d]
    BY <1>2 DEF Lasting
  <2>2. PICK n \in Nat : n = given[d]
    BY <1>0
  <2>3. Holds(d, n, {})'
    BY <1>2, <2>1, <2>2, HoldsKept
  <2>4. Holds(d, given[d], {})' /\ \E m \in Markers(d)' : m >= given[d]
    BY <1>2, <2>2, <2>3 DEF Holds
  <2>5. \A content \in disk'[d].left : content \in disk[d].left \/ content = Markers(d)'
    BY <1>2, LeftFact DEF Quiet
  <2>. QED
    BY <1>2, <2>1, <2>4, <2>5
<1>3. ASSUME NEW p \in Relays, MarkerShape(p), given'[d] # given[d]
      PROVE  /\ Holds(d, given[d], {})'
             /\ env.unix => \A content \in disk'[d].left : \E m \in content : m >= given'[d]
  <2>1. /\ At(p, "remove") /\ Sync(dir[p]) /\ task' = [task EXCEPT ![p] = Idle]
        /\ UNCHANGED dir /\ given' = [given EXCEPT ![dir[p]] = task[p].next]
    BY <1>3 DEF MarkerShape
  <2>2. d = dir[p] /\ given'[d] = task[p].next
    BY <1>3, <2>1
  <2>3. PICK m \in Markers(d) :
          /\ m >= task[p].next
          /\ \A q \in Relays \ {p} : dir[q] = d /\ At(q, "write") => task[q].next # m
    BY <2>1, <2>2 DEF Marked, Holds, At
  <2>4. Markers(d)' = Markers(d) /\ (env.unix => disk'[d].left = {Markers(d)})
    BY <2>1, <2>2, SyncFact
  <2>5. \A q \in Relays \ {} : dir'[q] = d /\ At(q, "write")' => task'[q].next # m
    BY <2>1, <2>3 DEF At
  <2>. QED
    BY <2>2, <2>3, <2>4, <2>5 DEF Holds
<1>4. CASE Quiet
  BY <1>2, <1>4 DEF Quiet
<1>. QED
  BY <1>1, <1>2, <1>3, <1>4, MarkerSteps

----------------------------------------------------------------------------
LEMMA Initially ==
    ASSUME Init
    PROVE  IInv
<1>1. PICK e \in Environments :
        /\ env = [relay |-> e.relay, game |-> e.game, appdata |-> e.appdata, unix |-> e.unix]
        /\ marker = e.marker
  BY DEF Init
<1>2. e \in [relay : Values, game : Values, appdata : BOOLEAN, unix : BOOLEAN,
              marker : [Roots -> Values]]
  BY ConfigAssumption
<1>3. /\ env \in [relay : Values, game : Values, appdata : BOOLEAN, unix : BOOLEAN]
      /\ marker \in [Roots -> Values]
  BY <1>1, <1>2
<1>4. Idle \in [stage : Stages, next : Numbers] /\ 0 \in Numbers /\ Idle.stage = "idle"
  BY BoundsAssumption DEF Idle, Stages, Numbers
<1>5. TypeOK
  <2>1. disk \in [Dirs -> [now : SUBSET Numbers, left : SUBSET SUBSET Numbers]]
    BY DEF Init
  <2>. QED
    BY <1>3, <1>4, <2>1 DEF Init, TypeOK
<1>6. Placed /\ OneLease /\ Chosen
  BY DEF Init, Placed, OneLease, Chosen, Holding
<1>7. Marked /\ Lasting /\ Fresher
  BY <1>4 DEF Init, Marked, Lasting, Fresher
<1>. QED
  BY <1>5, <1>6, <1>7 DEF IInv

LEMMA Inductive ==
    ASSUME IInv, [Next]_vars
    PROVE  IInv'
<1>1. TypeOK /\ Placed /\ OneLease /\ Chosen
  BY DEF IInv
<1>. QED
  BY <1>1, TypeStep, LeaseStep, FresherStep, ChosenStep, MarkedStep, LastingStep DEF IInv

LEMMA Invariant == Spec => []IInv
<1>1. Init => IInv
  BY Initially
<1>2. IInv /\ [Next]_vars => IInv'
  BY Inductive
<1>. QED
  BY <1>1, <1>2, PTL DEF Spec

(* In a directory the number given last, or a larger one, is found again;   *)
(* on unix in whatever the power may leave of it (next_transport_session,   *)
(* sync_parent_directory).                                                  *)
THEOREM NumbersFound == Spec => []NumbersKept
<1>1. IInv => NumbersKept
  BY DEF IInv, Lasting, Holds, NumbersKept
<1>. QED
  BY <1>1, Invariant, PTL

(* No two sessions of a directory ever have the same number, and a later    *)
(* one has the larger, over crashes, tasks that outlive the lease of their  *)
(* process and, on unix, losses of power; on Windows the numbers are told   *)
(* apart from one loss of power to the next (controls.rs, lease.rs).        *)
THEOREM NumbersFresh == Spec => FreshNumbers
<1>1. ASSUME IInv, [Next]_vars, NEW p \in Relays, main[p] = "opening", main'[p] = "session"
      PROVE  given'[dir[p]] > given[dir[p]]
  <2>. /\ main \in [Relays -> {"off", "serving", "opening", "session", "leaving"}]
       /\ given \in [Dirs -> Numbers] /\ TypeOK /\ Placed /\ Fresher
    BY <1>1 DEF IInv, TypeOK
  <2>1. dir[p] \in Dirs
    BY <1>1 DEF Placed
  <2>2. ~ UNCHANGED main /\ ~ Off(Relays)
    BY <1>1 DEF Off
  <2>3. PICK q \in Relays : ProcessShape(q)
    BY <1>1, <2>2, StepShape
  <2>4. /\ task[q].stage = "remove" /\ main' = [main EXCEPT ![q] = "session"]
        /\ given' = [given EXCEPT ![dir[q]] = task[q].next]
    BY <1>1, <2>2, <2>3 DEF ProcessShape, LaunchRelay, Off, Failed
  <2>5. q = p
    BY <1>1, <2>4
  <2>. QED
    BY <1>1, <2>1, <2>4, <2>5 DEF Fresher
<1>2. IInv /\ [Next]_vars =>
        [\A p \in Relays : main[p] = "opening" /\ main'[p] = "session" =>
             given'[dir[p]] > given[dir[p]]]_vars
  BY <1>1
<1>. QED
  BY <1>2, Invariant, PTL DEF Spec, FreshNumbers

(* Files that all say one thing say what one of them says.                  *)
LEMMA UniqueFact ==
    ASSUME NEW r \in Roots, Value(marker[r]) \in Dirs, UniqueMarker(Roots) # Invalid
    PROVE  UniqueMarker(Roots) = Value(marker[r])
<1>. DEFINE f == [q \in Roots |-> Value(marker[q])]
            all == {Value(marker[q]) : q \in Roots}
            found == all \ {None}
<1>1. IsFiniteSet(all)
  <2>1. f \in Surjection(Roots, all)
    BY DEF Surjection
  <2>. HIDE DEF f, all
  <2>. QED
    BY <2>1, FS_Surjection, ConfigAssumption
<1>2. IsFiniteSet(found)
  <2>. HIDE DEF all
  <2>. QED
    BY <1>1, FS_Subset
<1>3. Value(marker[r]) \in found
  BY ConfigAssumption
<1>4. UniqueMarker(Roots) = CASE found = {} -> None
                              [] Cardinality(found) = 1 -> CHOOSE v \in found : TRUE
                              [] OTHER -> Invalid
  BY DEF UniqueMarker
<1>. HIDE DEF found, all, f
<1>5. Cardinality(found) = 1
  BY <1>3, <1>4
<1>6. PICK x : found = {x}
  BY <1>2, <1>5, FS_Singleton
<1>7. UniqueMarker(Roots) = CHOOSE v \in found : TRUE
  BY <1>3, <1>4, <1>5
<1>. QED
  BY <1>3, <1>6, <1>7

(* A relay that starts while the game runs reads the directory of the game  *)
(* (config.rs, mod_paths.lua).                                              *)
THEOREM OneDirectory == Spec => SameDirectory
<1>1. ASSUME IInv, [Next]_vars, NEW p \in Relays,
             main[p] = "off", main'[p] = "serving", game # None, env.relay = env.game,
             env.appdata, game \in {Value(env.game), marker[Installed]}
      PROVE  dir'[p] = game
  <2>. /\ main \in [Relays -> {"off", "serving", "opening", "session", "leaving"}]
       /\ dir \in [Relays -> Dirs \cup {None}] /\ game \in Dirs /\ TypeOK /\ Placed /\ Chosen
    BY <1>1 DEF IInv, TypeOK
  <2>0. /\ None \notin Dirs /\ Empty \notin Dirs /\ Invalid \notin Dirs /\ Installed \in Roots
        /\ Invalid # None
    BY ConfigAssumption DEF None, Invalid
  <2>1. ~ UNCHANGED main /\ ~ Off(Relays)
    BY <1>1 DEF Off
  <2>2. PICK q \in Relays : ProcessShape(q)
    BY <1>1, <2>1, StepShape
  <2>3. LaunchRelay(q)
    <3>1. CASE /\ main[q] = "serving" /\ main' = [main EXCEPT ![q] = "opening"]
      BY <1>1, <3>1
    <3>2. CASE /\ main' \in {[main EXCEPT ![q] = "serving"], [main EXCEPT ![q] = "leaving"]}
               /\ main[q] \in Holding
      BY <1>1, <3>2 DEF Holding
    <3>3. CASE Off({q})
      BY <1>1, <3>3 DEF Off
    <3>4. CASE Failed(q)
      BY <1>1, <3>4 DEF Failed
    <3>5. CASE main[q] = "opening" /\ main' = [main EXCEPT ![q] = "session"]
      BY <1>1, <3>5
    <3>. QED
      BY <2>1, <2>2, <3>1, <3>2, <3>3, <3>4, <3>5 DEF ProcessShape
  <2>4. q = p /\ RelayDir \in Dirs /\ dir'[p] = RelayDir
    BY <1>1, <2>3 DEF LaunchRelay
  <2>5. CASE Value(env.relay) # None
    BY <1>1, <2>4, <2>5 DEF Chosen, RelayDir, OrElse
  <2>6. CASE Value(env.relay) = None
    <3>1. Value(marker[Installed]) = game
      BY <1>1, <2>0, <2>6 DEF Value
    <3>2. RelayDir = OrElse(UniqueMarker(Roots), Fallback)
      BY <1>1, <2>6 DEF RelayDir, OrElse, MarkerRoots
    <3>3. UniqueMarker(Roots) # Invalid
      BY <2>0, <2>4, <3>2 DEF OrElse
    <3>4. UniqueMarker(Roots) = game
      BY <2>0, <3>1, <3>3, UniqueFact
    <3>. QED
      BY <2>0, <2>4, <3>2, <3>4 DEF OrElse
  <2>. QED
    BY <2>5, <2>6
<1>2. IInv /\ [Next]_vars =>
        [\A p \in Relays :
           (/\ main[p] = "off" /\ main'[p] = "serving" /\ game # None
            /\ env.relay = env.game /\ env.appdata
            /\ game \in {Value(env.game), marker[Installed]})
           => dir'[p] = game]_vars
  BY <1>1
<1>. QED
  BY <1>2, Invariant, PTL DEF Spec, SameDirectory
==============================================================================
