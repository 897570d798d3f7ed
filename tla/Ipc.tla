-------------------------------- MODULE Ipc --------------------------------
(***************************************************************************)
(* The two files through which the Lua mod and the Rust relay talk.        *)
(*                                                                         *)
(* outbox  what the mod appends and the relay reads: one record per line.  *)
(* inbox   what the relay appends and the mod reads.                       *)
(*                                                                         *)
(* A position in the outbox is the number of complete records before it,   *)
(* which stands for the byte offset of the code: the record at index p     *)
(* starts at offset p - 1 and ends at offset p.                            *)
(***************************************************************************)
EXTENDS Integers, Sequences

CONSTANTS
    ActionIds,    \* the ids Neuro gives to its actions, and the action names
    Games,        \* the game names a startup may carry
    NoGame,       \* the absence of a game: an unparsable record
    NoId,         \* the absence of an id
    MaxOutbox,    \* bound: records the mod writes
    MaxSessions   \* bound: transport sessions the relay opens

VARIABLES outbox, inbox

ASSUME NoGameAssumption == NoGame \notin Games
ASSUME NoIdAssumption == NoId \notin ActionIds
ASSUME BoundsAssumption == MaxOutbox \in Nat /\ MaxSessions \in Nat

(* The commands of the outbox. "tag" is the control record                 *)
(* neuro-bridge/startup_answer, "junk" a line that is not a usable record: *)
(* oversized, not UTF-8 or not JSON.                                       *)
Kinds == {"startup", "tag", "register", "unregister", "force", "context",
          "result", "junk"}

(* The commands a startup supersedes.                                      *)
ClearedKinds == {"startup", "register", "unregister", "force", "result"}

Positions == 0 .. MaxOutbox
Sessions == 0 .. MaxSessions

Record == [kind : Kinds, game : Games \cup {NoGame},
           id : ActionIds \cup {NoId}, session : Sessions]

(* Constructors of the records of the outbox. A registration or its        *)
(* withdrawal (Catalogue) names one action.                                *)
Startup(g) == [kind |-> "startup", game |-> g, id |-> NoId, session |-> 0]
Tag(g, s) == [kind |-> "tag", game |-> g, id |-> NoId, session |-> s]
Result(g, i) == [kind |-> "result", game |-> g, id |-> i, session |-> 0]
Catalogue(k, g, n) == [kind |-> k, game |-> g, id |-> n, session |-> 0]
Plain(k, g) == [kind |-> k, game |-> g, id |-> NoId, session |-> 0]
Junk == Plain("junk", NoGame)

(* The inbox: a request to register again, or an action. The session of an *)
(* action is not in the file: it says which connection brought the action. *)
InboxRecord == [kind : {"reregister", "action"}, id : ActionIds \cup {NoId},
                session : Sessions]
Reregister(s) == [kind |-> "reregister", id |-> NoId, session |-> s]
ActionLine(i, s) == [kind |-> "action", id |-> i, session |-> s]
============================================================================
