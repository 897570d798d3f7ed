---------------------------- MODULE RelayProcess ----------------------------
(***************************************************************************)
(* The relay as processes of one machine: where a launched relay finds the *)
(* directory of the two files (config.rs), the lease of that directory     *)
(* (lease.rs) and the number each session takes from the markers in it     *)
(* (controls.rs, next_transport_session).                                  *)
(*                                                                         *)
(* A number is taken by a blocking task, a step at a time. A process that  *)
(* is told to stop waits for its task only so long: the lease is given up  *)
(* when main returns, the task goes on until the process is gone. The      *)
(* power may fail between any two steps.                                   *)
(*                                                                         *)
(* A relay built for unix syncs the directory of its files; one built for  *)
(* Windows does not (cursor.rs, sync_parent_directory): there, nothing is  *)
(* shown of the numbers over a loss of power.                              *)
(***************************************************************************)
EXTENDS Naturals, FiniteSets, FiniteSetsExt

CONSTANTS
    Relays,         \* relay processes
    Dirs,           \* directories for the two files
    Default,        \* the one below APPDATA
    Environments,   \* environments a machine may have
    Roots,          \* places of a marker file the relay looks into
    Installed,      \* the one the mod looks into: the installed mod
    MaxSession      \* the largest number (u64::MAX)

None == "none"
Invalid == "invalid"
Empty == "empty"

(* What NEURO_IPC_DIR or a marker file may hold. *)
Values == Dirs \cup {None, Empty, Invalid}

ASSUME ConfigAssumption ==
    /\ Default \in Dirs /\ Installed \in Roots /\ IsFiniteSet(Roots)
    /\ Dirs \cap {None, Empty, Invalid} = {}
    /\ Environments \subseteq
           [relay : Values, game : Values, appdata : BOOLEAN, unix : BOOLEAN,
            marker : [Roots -> Values]]
ASSUME BoundsAssumption == MaxSession \in Nat

VARIABLES
    env,      \* NEURO_IPC_DIR of either program, whether APPDATA is a usable path,
              \* and whether the relay is built for unix
    marker,   \* root -> what its neuro_ipc_dir.txt holds
    game,     \* the directory of the running game, None without one
    main,     \* relay -> where main is
    dir,      \* relay -> its directory
    task,     \* relay -> the blocking task that takes a number
    disk,     \* directory -> the markers in it, and what a loss of power may leave
    given     \* directory -> the number given last, where it is to last (history)

vars == <<env, marker, game, main, dir, task, disk, given>>
config == <<env, marker, game>>

Numbers == 0 .. MaxSession

Stages == {"idle", "scan", "create", "write", "remove"}

TypeOK ==
    /\ env \in [relay : Values, game : Values, appdata : BOOLEAN, unix : BOOLEAN]
    /\ marker \in [Roots -> Values]
    /\ game \in Dirs \cup {None}
    /\ main \in [Relays -> {"off", "serving", "opening", "session", "leaving"}]
    /\ dir \in [Relays -> Dirs \cup {None}]
    /\ task \in [Relays -> [stage : Stages, next : Numbers]]
    /\ disk \in [Dirs -> [now : SUBSET Numbers, left : SUBSET SUBSET Numbers]]
    /\ given \in [Dirs -> Numbers]

Idle == [stage |-> "idle", next |-> 0]

Init ==
    /\ \E e \in Environments :
           /\ env = [relay |-> e.relay, game |-> e.game, appdata |-> e.appdata, unix |-> e.unix]
           /\ marker = e.marker
    /\ game = None
    /\ main = [p \in Relays |-> "off"] /\ dir = [p \in Relays |-> None]
    /\ task = [p \in Relays |-> Idle]
    /\ disk = [d \in Dirs |-> [now |-> {}, left |-> {{}}]] /\ given = [d \in Dirs |-> 0]

----------------------------------------------------------------------------
(* Where the files are *)

(* The outcomes of a search: nothing found, an error, or a directory. *)
Value(raw) == IF raw = Empty THEN None ELSE raw

(* Fault: the files are not compared. *)
UniqueMarker_Any(roots) ==
    LET found == {Value(marker[r]) : r \in roots} \ {None}
    IN  IF found = {} THEN None ELSE CHOOSE v \in found : v # marker[Installed] \/ found = {v}

(* unique_marker: two files may not say different things. *)
UniqueMarker(roots) ==
    LET found == {Value(marker[r]) : r \in roots} \ {None}
    IN  CASE found = {} -> None
          [] Cardinality(found) = 1 -> CHOOSE v \in found : TRUE
          [] OTHER -> Invalid

(* The installed mod is found below APPDATA only. *)
MarkerRoots == IF env.appdata THEN Roots ELSE Roots \ {Installed}

Fallback == IF env.appdata THEN Default ELSE None

(* The next place is asked only when this one names nothing. *)
OrElse(found, next) == IF found = None THEN next ELSE found

RelayDir == OrElse(Value(env.relay), OrElse(UniqueMarker(MarkerRoots), Fallback))

GameDir == OrElse(Value(env.game), OrElse(Value(marker[Installed]), Fallback))

(* setup_neuro_bridge: a directory taken by default is written down, if the *)
(* file can be written. The mod asks for no directory twice.               *)
LaunchGame(written) ==
    /\ game = None /\ GameDir \in Dirs
    /\ game' = GameDir
    /\ marker' = IF Value(env.game) = None /\ Value(marker[Installed]) = None /\ written
                 THEN [marker EXCEPT ![Installed] = GameDir] ELSE marker
    /\ UNCHANGED <<env, main, dir, task, disk, given>>

QuitGame ==
    /\ game # None /\ game' = None
    /\ UNCHANGED <<env, marker, main, dir, task, disk, given>>

----------------------------------------------------------------------------
(* A relay process *)

Holding == {"serving", "opening", "session"}

(* Fault: the lease is not waited for. *)
Leased_Never(d) == FALSE

Leased(d) == \E p \in Relays : dir[p] = d /\ main[p] \in Holding

(* A relay without a directory, or with a leased one, exits at once. *)
LaunchRelay(p) ==
    /\ main[p] = "off" /\ RelayDir \in Dirs /\ ~ Leased(RelayDir)
    /\ main' = [main EXCEPT ![p] = "serving"]
    /\ dir' = [dir EXCEPT ![p] = RelayDir]
    /\ UNCHANGED <<config, task, disk, given>>

(* open_transport_session, and again RECONNECT_INTERVAL_SECS later. *)
OpenSession(p) ==
    /\ main[p] = "serving" /\ task[p] = Idle
    /\ main' = [main EXCEPT ![p] = "opening"]
    /\ task' = [task EXCEPT ![p].stage = "scan"]
    /\ UNCHANGED <<config, dir, disk, given>>

EndSession(p) ==
    /\ main[p] = "session"
    /\ main' = [main EXCEPT ![p] = "serving"]
    /\ UNCHANGED <<config, dir, task, disk, given>>

(* The stop signal: the session ends, or SHUTDOWN_GRACE_SECS are over. Main *)
(* returns and closes the lease; the runtime still waits for the task.     *)
Leave(p) ==
    /\ main[p] \in Holding
    /\ main' = [main EXCEPT ![p] = "leaving"]
    /\ UNCHANGED <<config, dir, task, disk, given>>

Off(ps) ==
    /\ main' = [p \in Relays |-> IF p \in ps THEN "off" ELSE main[p]]
    /\ dir' = [p \in Relays |-> IF p \in ps THEN None ELSE dir[p]]
    /\ task' = [p \in Relays |-> IF p \in ps THEN Idle ELSE task[p]]

Exit(p) ==
    /\ main[p] = "leaving" /\ task[p] = Idle
    /\ Off({p})
    /\ UNCHANGED <<config, disk, given>>

Crash(p) ==
    /\ main[p] # "off"
    /\ Off({p})
    /\ UNCHANGED <<config, disk, given>>

Synced(markers) == [now |-> markers, left |-> {markers}]

(* The steps since a directory was last synced are kept up to one of them, *)
(* in the order they were done. A number given by a relay that syncs no    *)
(* directory is not made to last: its history ends here.                   *)
LosePower ==
    /\ Off(Relays) /\ game' = None
    /\ \E content \in [Dirs -> UNION {disk[d].left : d \in Dirs}] :
           /\ \A d \in Dirs : content[d] \in disk[d].left
           /\ disk' = [d \in Dirs |-> Synced(content[d])]
    /\ given' = IF env.unix THEN given ELSE [d \in Dirs |-> 0]
    /\ UNCHANGED <<env, marker>>

----------------------------------------------------------------------------
(* next_transport_session, the blocking task *)

Markers(d) == disk[d].now

Write(d, markers) ==
    disk' = [disk EXCEPT ![d] = [now |-> markers, left |-> @.left \cup {markers}]]

Stage(p, stage) == task' = [task EXCEPT ![p].stage = stage]

(* The task ends with an error: the session is tried again later. *)
Failed(p) ==
    /\ task' = [task EXCEPT ![p] = Idle]
    /\ main' = [main EXCEPT ![p] = IF @ = "opening" THEN "serving" ELSE @]

At(p, stage) == task[p].stage = stage

(* checked_add, at the width of the number. *)
Exhausted(next) == next \notin Numbers

(* The largest number there is, and one more. *)
Scan(p) ==
    /\ At(p, "scan")
    /\ LET next == Max(Markers(dir[p]) \cup {0}) + 1
       IN  IF Exhausted(next)
           THEN Failed(p)
           ELSE task' = [task EXCEPT ![p] = [stage |-> "create", next |-> next]]
                /\ UNCHANGED main
    /\ UNCHANGED <<config, dir, disk, given>>

(* Fault: the number is kept and tried again. *)
Taken_Again(p) == UNCHANGED task

(* create_new: somebody else was faster, the directory is looked at again. *)
Taken(p) == Stage(p, "scan")

Create(p) ==
    /\ At(p, "create")
    /\ LET markers == Markers(dir[p])
       IN  IF task[p].next \in markers
           THEN Taken(p) /\ UNCHANGED disk
           ELSE Stage(p, "write") /\ Write(dir[p], markers \cup {task[p].next})
    /\ UNCHANGED <<config, main, dir, given>>

(* The marker could not be made secure, and is removed. *)
CreateUnsecured(p) ==
    /\ At(p, "write") /\ Failed(p)
    /\ Write(dir[p], Markers(dir[p]) \ {task[p].next})
    /\ UNCHANGED <<config, dir, given>>

WriteMarker(p) ==
    /\ At(p, "write") /\ Stage(p, "remove")
    /\ UNCHANGED <<config, main, dir, disk, given>>

Older(p) == {m \in Markers(dir[p]) : m < task[p].next}

(* Each may stay: a scan or a removal that fails is not an error. *)
RemoveOlder(p) ==
    /\ At(p, "remove")
    /\ \E m \in Older(p) : Write(dir[p], Markers(dir[p]) \ {m})
    /\ UNCHANGED <<config, main, dir, task, given>>

(* Fault: the number is given before it is durable. *)
Sync_Never(d) == UNCHANGED disk

(* sync_parent_directory: outside unix it does nothing. *)
Sync(d) ==
    IF env.unix THEN disk' = [disk EXCEPT ![d] = Synced(@.now)] ELSE UNCHANGED disk

(* The directory is synced with what is left, where it is, and the number  *)
(* given to the session that waits, unless nobody does.                    *)
GiveNumber(p) ==
    /\ At(p, "remove") /\ Sync(dir[p])
    /\ task' = [task EXCEPT ![p] = Idle]
    /\ IF main[p] = "opening"
       THEN /\ main' = [main EXCEPT ![p] = "session"]
            /\ given' = [given EXCEPT ![dir[p]] = task[p].next]
       ELSE UNCHANGED <<main, given>>
    /\ UNCHANGED <<config, dir>>

(* A write, the sync of the file or of the directory fails. *)
TaskFails(p) ==
    /\ task[p].stage \in {"create", "write", "remove"} /\ Failed(p)
    /\ UNCHANGED <<config, dir, disk, given>>

----------------------------------------------------------------------------
TaskWorks(p) ==
    \/ Scan(p) \/ Create(p) \/ WriteMarker(p) \/ RemoveOlder(p) \/ GiveNumber(p)

Next ==
    \/ \E written \in BOOLEAN : LaunchGame(written)
    \/ QuitGame \/ LosePower
    \/ \E p \in Relays :
           \/ LaunchRelay(p) \/ OpenSession(p) \/ EndSession(p)
           \/ Leave(p) \/ Exit(p) \/ Crash(p)
           \/ TaskWorks(p) \/ TaskFails(p) \/ CreateUnsecured(p)

(* A blocking task runs, whatever becomes of the session it works for. *)
Fairness == \A p \in Relays : WF_vars(TaskWorks(p))

Spec == Init /\ [][Next]_vars /\ Fairness

----------------------------------------------------------------------------
(* A session has a number that no session of this directory ever had, over *)
(* crashes and the tasks of processes that have given up the lease, and on *)
(* unix over losses of power; on Windows, that none had since the last     *)
(* loss of power (next_transport_session, sync_parent_directory). The mod  *)
(* and the outbox tell the connections apart by nothing else.              *)
FreshNumbers ==
    [][\A p \in Relays : main[p] = "opening" /\ main'[p] = "session" =>
           given'[dir[p]] > given[dir[p]]]_vars

(* A marker in a directory is as large as every number given there: no     *)
(* step of any task takes the last one away. On unix there is one in       *)
(* whatever the power may leave: no number is given before its marker      *)
(* would be found again (next_transport_session, sync_parent_directory).   *)
NumbersKept ==
    /\ TypeOK
    /\ \A d \in Dirs : given[d] # 0 =>
          /\ \E m \in Markers(d) : m >= given[d]
          /\ env.unix => \A content \in disk[d].left : \E m \in content : m >= given[d]

(* A relay started while the game runs reads the directory of the game, or *)
(* does not start: both have the same NEURO_IPC_DIR, the mod is installed  *)
(* below APPDATA, and it wrote its directory down (config.rs, mod_paths.lua)*)
SameDirectory ==
    [][\A p \in Relays :
           (/\ main[p] = "off" /\ main'[p] = "serving" /\ game # None
            /\ env.relay = env.game /\ env.appdata
            /\ game \in {Value(env.game), marker[Installed]})
           => dir'[p] = game]_vars

(* The search for a free number ends: two tasks do not take each other's   *)
(* numbers for ever, unless one makes and removes its marker for ever.     *)
TaskEnds ==
    <>[][\A p \in Relays : ~ CreateUnsecured(p)]_vars =>
        \A p \in Relays : task[p] # Idle ~> task[p] = Idle
============================================================================
