-------------------------- MODULE ContextDelivery --------------------------
(***************************************************************************)
(* What the model has been told beside its forces: the guide and the       *)
(* glossary of each ante, and the events of the game (context_delivery.lua *)
(* with its callers in window.lua, orchestrator.lua and bridge_init.lua).  *)
(* A context waits while the relay reconnects or the human has paused the  *)
(* model, is given up after so many refusals, and is remembered when it    *)
(* was accepted, so that it is not said twice.                             *)
(*                                                                         *)
(* One game thread runs it; a frame is any number of these steps. A bridge *)
(* that is neither paused nor reconnecting takes every context, if only    *)
(* into its fifo.                                                          *)
(***************************************************************************)
EXTENDS Naturals, SequencesExt, FiniteSetsExt

CONSTANTS
    Events,        \* what may happen in the game, an occurrence each
    Scopes,        \* the antes of the runs
    Outside,       \* the scope of the menus
    MaxAttempts,   \* MAX_ATTEMPTS
    MaxPending,    \* PENDING_MEMORY_MAX
    MaxRules,      \* MEMORY_MAX.rule
    MaxTransient   \* MEMORY_MAX.transient

ASSUME ScopeAssumption == Outside \in Scopes
ASSUME BoundsAssumption ==
    /\ MaxAttempts \in Nat \ {0, 1}
    /\ {MaxPending, MaxRules, MaxTransient} \subseteq Nat \ {0}

Guide(s) == <<"guide", s>>
Glossary(s) == <<"glossary", s>>
Event(e) == <<"event", e>>

Contexts == {Guide(s) : s \in Scopes} \cup {Glossary(s) : s \in Scopes} \cup {Event(e) : e \in Events}

(* The orders in which accepted contexts are forgotten again: none for the *)
(* guide, which is essential.                                              *)
Memory == [rule |-> MaxRules, transient |-> MaxTransient]
Classes == DOMAIN Memory
Class(id) == CASE id[1] = "event"    -> "transient"
               [] id[1] = "glossary" -> "rule"
               [] id[1] = "guide"    -> "none"
Essential(id) == Class(id) = "none"

VARIABLES
    init,     \* "none", "started" (_startup_complete) or "complete" (_bridge_init_complete)
    paused,   \* llm_paused
    scope,    \* rules_scope
    ctx,      \* the tables of context_delivery
    forced    \* scopes of the forces sent (history)

vars == <<init, paused, scope, ctx, forced>>

(* The tables, and as history the number of contexts of its class accepted *)
(* since a context was, as far as the memory reaches, and those accepted   *)
(* although the memory reached them.                                       *)
Never == MaxRules + MaxTransient + 1
Tables == [pending   : Seq([id : Contexts, attempts : 0 .. MaxAttempts - 1]),
           delivered : SUBSET Contexts,
           orders    : [Classes -> Seq(Contexts)],
           retry     : BOOLEAN,      \* guide_retry_pending
           guided    : BOOLEAN,      \* guide_delivered
           age       : [Contexts -> 0 .. Never],
           twice     : SUBSET Contexts]

TypeOK ==
    /\ init \in {"none", "started", "complete"} /\ paused \in BOOLEAN /\ scope \in Scopes
    /\ ctx \in Tables
    /\ forced \subseteq Scopes

Init ==
    /\ init = "none" /\ paused = FALSE /\ scope = Outside
    /\ ctx = [pending |-> <<>>, delivered |-> {}, orders |-> [c \in Classes |-> <<>>],
              retry |-> TRUE, guided |-> FALSE,
              age |-> [id \in Contexts |-> Never], twice |-> {}]
    /\ forced = {}

----------------------------------------------------------------------------
(* The tables *)

(* F(x), of which TLC evaluates x once. *)
With(x, F(_)) == CHOOSE y \in {F(v) : v \in {x}} : TRUE

Pending(d, id) == \E n \in DOMAIN d.pending : d.pending[n].id = id

Place(d, id) == CHOOSE n \in DOMAIN d.pending : d.pending[n].id = id

(* remove_pending *)
Without(d, id) == RemoveAt(d.pending, Place(d, id))

(* Fault: a full memory takes nothing new. *)
Remember_Full(memory, id) ==
    LET c == Class(id)
    IN  IF Essential(id) THEN [memory EXCEPT !.delivered = @ \cup {id}]
        ELSE IF Len(memory.orders[c]) < Memory[c]
        THEN [delivered |-> memory.delivered \cup {id},
              orders |-> [memory.orders EXCEPT ![c] = Append(@, id)]]
        ELSE memory

(* remember: the oldest of a class is forgotten when the class is full. *)
Remember(memory, id) ==
    LET c == Class(id)
        all == Append(memory.orders[c], id)
        over == Len(all) > Memory[c]
    IN  IF Essential(id) THEN [memory EXCEPT !.delivered = @ \cup {id}]
        ELSE [delivered |-> (memory.delivered \cup {id}) \ (IF over THEN {Head(all)} ELSE {}),
              orders |-> [memory.orders EXCEPT ![c] = IF over THEN Tail(all) ELSE all]]

(* History: everything of the class is one older. *)
Older(age, id) ==
    [x \in Contexts |->
        CASE x = id -> 0
          [] x # id /\ ~ Essential(x) /\ Class(x) = Class(id) /\ age[x] < Memory[Class(x)] -> age[x] + 1
          [] OTHER -> age[x]]

Remembered(age, id) == age[id] # Never /\ (Essential(id) \/ age[id] < Memory[Class(id)])

Commit(d, id) ==
    LET memory == Remember([delivered |-> d.delivered, orders |-> d.orders], id)
    IN  [d EXCEPT !.guided = @ \/ Essential(id),
                  !.delivered = memory.delivered, !.orders = memory.orders,
                  !.pending = Without(d, id),
                  !.twice = IF Remembered(d.age, id) THEN @ \cup {id} ELSE @,
                  !.age = Older(@, id)]

(* evict_pending_overflow: one entry is added at a time, so one at most is *)
(* over; the guides are kept whatever their number.                        *)
Evict(d) ==
    LET plain == {n \in DOMAIN d.pending : ~ Essential(d.pending[n].id)}
    IN  IF Len(d.pending) > MaxPending /\ plain # {}
        THEN [d EXCEPT !.pending = RemoveAt(@, Min(plain))] ELSE d

Enter(d, id, attempts) ==
    Evict([d EXCEPT !.pending = Append(@, [id |-> id, attempts |-> attempts])])

(* revive_essential_guide, once for a connection: it is entered again, and *)
(* refused for the first time at once.                                     *)
Revive(d, id) ==
    IF Essential(id) /\ d.retry THEN Enter([d EXCEPT !.retry = FALSE], id, 1) ELSE d

(* fail_attempt *)
Fail(d, id) ==
    LET n == Place(d, id)
    IN  IF d.pending[n].attempts + 1 < MaxAttempts
        THEN [d EXCEPT !.pending[n].attempts = @ + 1]
        ELSE Revive([d EXCEPT !.pending = Without(d, id)], id)

(* attempt: a bridge whose startup is under way is not tried (startup_     *)
(* admitted), a paused one refuses (send_context).                         *)
Attempt(d, id) ==
    IF init # "complete" THEN d
    ELSE IF paused THEN Fail(d, id) ELSE Commit(d, id)

(* An entry that is gone meanwhile, or was not let in, is not tried. *)
Try(d, id) == IF Pending(d, id) THEN Attempt(d, id) ELSE d

(* enqueue *)
Offer(d, id) ==
    IF id \in d.delivered THEN d
    ELSE With(IF Pending(d, id) THEN d ELSE Enter(d, id, 0), LAMBDA e : Try(e, id))

(* step: the entries of now, in their order. *)
Tried(d) ==
    LET after[n \in 0 .. Len(d.pending)] ==
            IF n = 0 THEN d ELSE With(after[n - 1], LAMBDA e : Try(e, d.pending[n].id))
    IN  after[Len(d.pending)]

(* Fault: what waits is dropped with the connection. *)
OpenEpoch_Forgets(d) ==
    [d EXCEPT !.pending = <<>>, !.retry = TRUE]

(* open_transport_epoch *)
OpenEpoch(d) ==
    [d EXCEPT !.pending = [n \in DOMAIN @ |-> [@[n] EXCEPT !.attempts = 0]], !.retry = TRUE]

(* reset_transport *)
Reset(d) ==
    [OpenEpoch(d) EXCEPT !.guided = FALSE, !.delivered = {}, !.orders = [c \in Classes |-> <<>>],
                         !.age = [id \in Contexts |-> Never], !.twice = {}]

----------------------------------------------------------------------------
(* The bridge *)

(* setup_neuro_bridge, of which the catalogue may have to be tried again. *)
StartUp ==
    /\ init = "none" /\ init' = "started"
    /\ ctx' = Reset(ctx) /\ forced' = {}
    /\ UNCHANGED <<paused, scope>>

CatalogueRegistered ==
    /\ init = "started" /\ init' = "complete"
    /\ UNCHANGED <<paused, scope, ctx, forced>>

(* handle_transport_reconnect: what was accepted stays so. *)
Reconnect ==
    /\ init # "none" /\ init' = "started"
    /\ ctx' = OpenEpoch(ctx)
    /\ UNCHANGED <<paused, scope, forced>>

TogglePause ==
    /\ paused' = ~ paused
    /\ UNCHANGED <<init, scope, ctx, forced>>

----------------------------------------------------------------------------
(* The callers *)

(* Fault: the guide is not offered again when it was given up once. *)
Rules_Once(d) == IF d.retry THEN Offer(d, Guide(scope)) ELSE d

(* emit_rules *)
Rules(d) == Offer(d, Guide(scope))

(* A run begins, goes on to an ante, or is left for the menus. *)
EnterScope(s) ==
    /\ init # "none" /\ s # scope /\ scope' = s
    /\ UNCHANGED <<init, paused, ctx, forced>>

(* A new state gets its rules, if the transport takes lines. *)
ScreenChanges ==
    /\ init # "none"
    /\ ctx' = Rules(ctx)
    /\ UNCHANGED <<init, paused, scope, forced>>

(* An event, reported once or again. *)
Happen(e) ==
    /\ init # "none"
    /\ ctx' = Offer(ctx, Event(e))
    /\ UNCHANGED <<init, paused, scope, forced>>

StepFrame ==
    /\ init # "none" /\ ctx.pending # <<>>
    /\ ctx' = Tried(ctx)
    /\ UNCHANGED <<init, paused, scope, forced>>

(* Fault: the glossary need not be accepted. *)
Explained_Offered(d, id) == id \in d.delivered \/ Pending(d, id)

(* What rule() returns: accepted now or before. *)
Explained(d, id) == id \in d.delivered

(* arm, unless the transport is full before it comes to the rules: the     *)
(* glossary after them may no longer fit, and the force may be refused.    *)
Arm(room, sent) ==
    /\ init # "none" /\ ~ paused
    /\ \E ruled \in {Rules(ctx)} :
          IF ruled.guided /\ room
          THEN \E asked \in {Offer(ruled, Glossary(scope))} :
                  /\ ctx' = asked
                  /\ forced' = IF sent /\ Explained(asked, Glossary(scope))
                               THEN forced \cup {scope} ELSE forced
          ELSE ctx' = ruled /\ UNCHANGED forced
    /\ UNCHANGED <<init, paused, scope>>

Next ==
    \/ StartUp \/ CatalogueRegistered \/ Reconnect \/ TogglePause \/ StepFrame
    \/ \E s \in Scopes : EnterScope(s)
    \/ ScreenChanges
    \/ \E e \in Events : Happen(e)
    \/ \E room, sent \in BOOLEAN : Arm(room, sent)

(* The frames go on, and with them the deliveries and, on a screen that    *)
(* waits for a decision, the window; the disk takes lines. Delivers is     *)
(* WF_vars(StepFrame), with what enables it written out.                   *)
Delivers ==
    []<>(ctx.pending = <<>> \/ init # "complete") \/ []<><<StepFrame>>_vars
Fairness == Delivers /\ WF_vars(Arm(TRUE, TRUE))

Spec == Init /\ [][Next]_vars /\ Fairness

----------------------------------------------------------------------------
(* No context is told twice in a startup: the guide of an ante never, the  *)
(* others only after as many newer ones of their class as the memory holds *)
(* (remember, commit, reconnect_transport).                                *)
ToldOnce == TypeOK /\ ctx.twice = {}

(* A force goes out only when a guide and the glossary of its own ante     *)
(* have, over reconnects, pauses and a transport that fills up in between; *)
(* the guide may be that of an earlier ante (essential_ready).             *)
RulesFirst ==
    \A s \in forced :
        /\ ctx.age[Glossary(s)] # Never
        /\ \E t \in Scopes : ctx.age[Guide(t)] # Never

(* While nobody pauses the model and the queue is never full, what waits   *)
(* is told in the end, whatever number of reconnects it waits through.     *)
EventsTold ==
    /\ []~paused
    /\ [](Len(ctx.pending) < MaxPending)
    /\ <>[](init = "complete")
    => \A e \in Events : Pending(ctx, Event(e)) ~> ctx.age[Event(e)] # Never

(* A pause of any length does not silence the mod: when it is over and the *)
(* startup answered, the scope the game is in gets its force, although the *)
(* guide may have been given up twice (fail_attempt, essential_ready).     *)
ForcesResume ==
    \A s \in Scopes :
        <>[](init = "complete" /\ ~ paused /\ scope = s) => <>(s \in forced)
============================================================================
