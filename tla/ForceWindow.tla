------------------------------ MODULE ForceWindow ------------------------------
(***************************************************************************)
(* The decision the mod asks for: window.lua (arm, withdraw, catalogue),   *)
(* execute.lua (answer, admit, the one job), bridge.lua (the registered    *)
(* names, the force lock, the owed results) and the verdict of             *)
(* validate.lua, with the server they speak to.                            *)
(*                                                                         *)
(* One game thread runs the mod, so a handler is one step; a line sent     *)
(* reaches the server in order, so the server's state is that of the lines *)
(* sent. An action may have left the server at any time before it arrives. *)
(*                                                                         *)
(* Bridge:send queues whatever fits a line of 1 MiB. The unregister of     *)
(* names and the result of an id that came over the relay always do (a     *)
(* longer result is replaced), so they are never refused. A catalogue and  *)
(* a force carry schemas and texts of any length: each refusal of one      *)
(* spends a unit of MaxRefused.                                            *)
(***************************************************************************)
EXTENDS Naturals, FiniteSets

CONSTANTS
    Names,         \* the actions of the registry
    Group,         \* disposable_group: what a disposable action takes off with it
    Reusable,      \* REUSABLE: decisions that stay registered; the rest are tools
    NoScreen,      \* a transitional state, or no screen known
    OnScreen,      \* screen_action_set: the actions of each screen
    Situations,    \* what the game may show: screen, usable and unsure actions
    Ids,           \* action ids of the server
    None,          \* no window, no job
    MaxRefused     \* bound: catalogues and forces refused

Disposable == DOMAIN Group
Decisions == Disposable \cup Reusable

ASSUME NamesAssumption ==
    /\ Decisions \subseteq Names
    /\ \A n \in Disposable : n \in Group[n] /\ Group[n] \subseteq Names
    /\ \A screen \in DOMAIN OnScreen : OnScreen[screen] \subseteq Names
ASSUME SituationsAssumption ==
    \A g \in Situations :
        /\ g.screen \in DOMAIN OnScreen \cup {NoScreen}
        /\ g.usable \subseteq IF g.screen = NoScreen THEN {} ELSE OnScreen[g.screen]
        /\ g.unsure \subseteq Names \ g.usable
ASSUME BoundAssumption == MaxRefused \in Nat

VARIABLES
    game,       \* what the game shows
    paused,     \* llm_paused
    bridge,     \* the tables of bridge.lua and window.lua
    server,     \* the names registered on the connection and the open force
    job,        \* the accepted action: staged or verifying
    used,       \* ids of earlier connections
    accepted,   \* history: ids whose result said the action was accepted
    denied,     \* history: ids told that nothing was executed
    ran         \* history: ids whose action was executed

vars == <<game, paused, bridge, server, job, used, accepted, denied, ran>>

Screens == DOMAIN OnScreen \cup {NoScreen}
Window == [screen : Screens, names : SUBSET Names]
Owed == [id : Ids, name : Names, own : BOOLEAN]
Job == [id : Ids, screen : Screens, phase : {"staged", "verifying"}]

ASSUME NoneAssumption == None \notin Window \cup Job

Tables == [registered : SUBSET Names, live : SUBSET Names, held : SUBSET Names, heldOn : Screens,
           screen : Screens, wanted : SUBSET Names, lock : BOOLEAN,
           window : Window \cup {None}, owed : SUBSET Owed,
           answered : SUBSET Ids, pending : BOOLEAN, refused : 0 .. MaxRefused]
Server == [names : SUBSET Names, force : SUBSET Names]

TypeOK ==
    /\ game \in Situations /\ paused \in BOOLEAN
    /\ bridge \in Tables /\ server \in Server
    /\ job \in Job \cup {None}
    /\ {used, accepted, denied, ran} \subseteq SUBSET Ids
    /\ \A o, p \in bridge.owed : o.id = p.id => o = p
    /\ \A o \in bridge.owed : o.id \notin bridge.answered /\ (o.own => bridge.window # None)

----------------------------------------------------------------------------
(* The server: a force ends with the success of one of its actions or when *)
(* one of them is unregistered.                                            *)

Registers(s, N) == [s EXCEPT !.names = @ \cup N]
Unregisters(s, N) ==
    [names |-> s.names \ N, force |-> IF s.force \cap N = {} THEN s.force ELSE {}]
Succeeds(s, name) == [s EXCEPT !.force = IF name \in @ THEN {} ELSE @]

----------------------------------------------------------------------------
(* What a handler is built of. Each operator takes the tables b and the    *)
(* server s; it is its outcome [ok, b, s], or the set of its outcomes when *)
(* what it sends may be refused.                                           *)

Done(b, s) == [ok |-> TRUE, b |-> b, s |-> s]
Refused(b, s) ==
    IF b.refused < MaxRefused
    THEN {[ok |-> FALSE, b |-> [b EXCEPT !.refused = @ + 1], s |-> s]} ELSE {}

(* unregister, as withdraw_actions (hold) or retire_actions *)
Unregister(b, s, N, hold) ==
    Done([b EXCEPT !.registered = @ \ N, !.live = @ \ N,
                   !.held = IF hold THEN @ \cup N ELSE @],
         Unregisters(s, N))

(* finish: an ended window is nobody's own, and the lock is released. *)
Finish(b) ==
    IF b.window = None THEN b
    ELSE [b EXCEPT !.window = None, !.lock = FALSE,
                   !.owed = {[o EXCEPT !.own = FALSE] : o \in @}]

(* withdraw: the names offered are unregistered, and the window ends. *)
Withdraw(b, s) ==
    IF b.window = None THEN Done(b, s)
    ELSE [Unregister(b, s, b.window.names, TRUE) EXCEPT !.b = Finish(@)]

(* Fault: only the action's own group is taken off. *)
Withdrawal_GroupOnly(b, name, group) == group

(* withdrawal: what a success of name takes off, so that the server drops  *)
(* an open force the action crossed.                                       *)
Withdrawal(b, name, group) ==
    IF b.window = None THEN group
    ELSE LET off == group \cup (b.window.names \cap Disposable)
         IN  IF off \cap b.window.names = {} /\ name \in Reusable
             THEN off \cup {name} ELSE off

(* register_catalogue: what is usable on the screen and not held there,    *)
(* and what is offered, is registered; then the rest is retired.           *)
CatalogueScreen(b, g) == IF g.screen = NoScreen THEN b.screen ELSE g.screen
Wanted(b, g, offer) ==
    LET screen == CatalogueScreen(b, g)
        kept == IF g.screen = NoScreen /\ screen # NoScreen THEN Names ELSE g.unsure
        inSet == IF screen = NoScreen THEN Names ELSE OnScreen[screen]
    IN  offer \cup (inSet \cap ((g.usable \ kept) \cup (b.wanted \cap kept)))

(* Fault: what an answer took off is not held back on its screen. *)
Held_Never(b, g) == {}

Held(b, g) == IF b.heldOn = CatalogueScreen(b, g) THEN b.held ELSE {}

Catalogue(b, s, g, offered) ==
    LET offer == IF offered = {} /\ b.window # None THEN b.window.names ELSE offered
        held == Held(b, g)
        want == Wanted(b, g, offer)
        fresh == (want \ (held \ offer)) \ b.registered
        noted == [b EXCEPT !.held = held, !.heldOn = CatalogueScreen(b, g),
                           !.screen = CatalogueScreen(b, g), !.wanted = want]
        sent == [noted EXCEPT !.registered = @ \cup fresh, !.live = @ \cup b.registered \cup fresh]
    IN  (IF fresh = {} THEN {} ELSE Refused(noted, s))
        \cup {[Unregister(sent, Registers(s, fresh), b.registered \ want, FALSE)
                  EXCEPT !.b.held = @ \ offer]}

(* Fault: an answered id stays owed. *)
Settled_StaysOwed(b, id) == [b EXCEPT !.answered = @ \cup {id}]

(* TX.store *)
Settled(b, id) ==
    [b EXCEPT !.answered = @ \cup {id}, !.owed = {o \in @ : o.id # id}]

(* send_action_result and on_result: the result settles the id and, a       *)
(* success, ends the window.                                               *)
Deliver(b, s, id, name, success, own) ==
    LET settled == Settled(b, id)
    IN  Done(IF success /\ own THEN Finish(settled) ELSE settled,
             IF success THEN Succeeds(s, name) ELSE s)

(* Execute.answer: what a success takes off is unregistered before the     *)
(* result.                                                                 *)
Answer(b, s, id, name, success, group, own) ==
    LET off == IF success /\ own THEN Withdrawal(b, name, group) ELSE {}
        u == Unregister(b, s, off, TRUE)
    IN  Deliver(u.b, u.s, id, name, success, own)

----------------------------------------------------------------------------
(* The actions *)

OwedIds == {o.id : o \in bridge.owed}
Take(r) == bridge' = r.b /\ server' = r.s

Init ==
    /\ game \in Situations /\ paused = FALSE
    /\ bridge = [registered |-> {}, live |-> {}, held |-> {}, heldOn |-> NoScreen,
                 screen |-> NoScreen, wanted |-> {}, lock |-> FALSE, window |-> None,
                 owed |-> {}, answered |-> {}, pending |-> TRUE, refused |-> 0]
    /\ server = [names |-> {}, force |-> {}]
    /\ job = None
    /\ used = {} /\ accepted = {} /\ denied = {} /\ ran = {}

GameMoves ==
    /\ game' \in Situations \ {game}
    /\ UNCHANGED <<paused, bridge, server, job, used, accepted, denied, ran>>

(* Window.step with a window: leaving its screen withdraws it; and, unless *)
(* paused, a decision that was not legal when it opened, or sooner or later *)
(* the time since it was sent or refused.                                  *)
StepWindow ==
    /\ bridge.window # None
    /\ game.screen # bridge.window.screen \/ ~ paused
    /\ Take(Withdraw(bridge, server))
    /\ UNCHANGED <<game, paused, job, used, accepted, denied, ran>>

(* The router offers all that is usable but no decision still settling. A  *)
(* disposable is among it: only the shop has a decision that is none, and   *)
(* what settles the shop's leave, a lock of the controller, settles both.   *)
Offers == {S \in {game.usable \ settling : settling \in SUBSET (game.usable \cap Decisions)} :
              S \cap Disposable # {}}

Armable == bridge.window = None /\ ~ paused /\ job = None /\ bridge.owed = {}

(* force_actions and what arm makes of it: no force while one is open, and *)
(* none that names what is not registered; one not sent ends its window.   *)
ForceActions(b, s, offer) ==
    IF b.lock \/ ~ (offer \subseteq b.registered) THEN {Done([b EXCEPT !.lock = FALSE], s)}
    ELSE {Done([b EXCEPT !.lock = TRUE,
                         !.window = [screen |-> game.screen, names |-> offer]],
               [s EXCEPT !.force = offer])}
         \cup Refused(b, s)

(* arm: the catalogue with what is offered, then the force. *)
Arm ==
    /\ Armable
    /\ \E offer \in Offers : \E r \in Catalogue(bridge, server, game, offer) :
          IF r.ok THEN \E f \in ForceActions(r.b, r.s, offer) : Take(f) ELSE Take(r)
    /\ UNCHANGED <<game, paused, job, used, accepted, denied, ran>>

(* validate: may the action be accepted, and with which success refused.   *)
Waits(name) == bridge.window # None /\ name \in bridge.window.names
Acceptable(name) ==
    /\ name \in bridge.live /\ ~ paused /\ job = None
    /\ name \in game.usable
Refusals(name) ==
    CASE name \notin bridge.live                  -> {FALSE}
      [] name \in bridge.live /\ paused           -> {TRUE}
      [] name \in bridge.live /\ ~ paused /\ (job # None \/ game.screen = NoScreen) ->
            {Waits(name)}
      [] OTHER -> IF name \in OnScreen[game.screen] THEN BOOLEAN ELSE {FALSE, Waits(name)}

GroupOf(name) == IF name \in Disposable THEN Group[name] ELSE {}

(* Fault: only an id still owed is known, not one that was answered. *)
New_OnlyOwed(id) == id \notin used \cup OwedIds

(* TX.open refuses an id received before on the connection.                *)
New(id) == id \notin used \cup bridge.answered \cup OwedIds
Opened(id, name) ==
    [bridge EXCEPT !.owed = @ \cup {[id |-> id, name |-> name, own |-> bridge.window # None]}]

(* admit: the result goes out before the action runs. *)
Accept(id, name) ==
    /\ New(id) /\ Acceptable(name)
    /\ Take(Answer(Opened(id, name), server, id, name, TRUE, GroupOf(name), TRUE))
    /\ job' = [id |-> id, screen |-> game.screen, phase |-> "staged"]
    /\ accepted' = accepted \cup {id}
    /\ UNCHANGED <<game, paused, used, denied, ran>>

(* refuse; or the handler raised and crashed reports an internal error. *)
Refuse(id, name) ==
    /\ New(id)
    /\ \E success \in Refusals(name) \cup {FALSE} :
          Take(Answer(Opened(id, name), server, id, name, success, {}, TRUE))
    /\ denied' = denied \cup {id}
    /\ UNCHANGED <<game, paused, job, used, accepted, ran>>

(* The handler raised and so did its report: the id stays owed. *)
Stall(id, name) ==
    /\ New(id)
    /\ bridge' = Opened(id, name)
    /\ UNCHANGED <<game, paused, server, job, used, accepted, denied, ran>>

(* answer_owed_results: an owed result is a success that says nothing was  *)
(* executed. It is never refused, so it is never given up either.          *)
PayOwed(o) ==
    /\ o \in bridge.owed
    /\ Take(Answer(bridge, server, o.id, o.name, TRUE, {}, o.own))
    /\ denied' = denied \cup {o.id}
    /\ UNCHANGED <<game, paused, job, used, accepted, ran>>

(* Execute.step: a staged job runs on the screen it was accepted on, or is *)
(* aborted; its effect is settled later or at once.                        *)
RunJob ==
    /\ job # None /\ job.phase = "staged" /\ job.screen = game.screen
    /\ ran' = ran \cup {job.id}
    /\ job' \in {None, [job EXCEPT !.phase = "verifying"]}
    /\ UNCHANGED <<game, paused, bridge, server, used, accepted, denied>>
EndJob ==
    /\ job # None /\ job' = None
    /\ UNCHANGED <<game, paused, bridge, server, used, accepted, denied, ran>>

(* hook_run_reset: the force is withdrawn; the new generation aborts the    *)
(* job.                                                                    *)
RunReset ==
    /\ Take(Withdraw(bridge, server)) /\ job' = None
    /\ UNCHANGED <<game, paused, used, accepted, denied, ran>>

(* Fault: the names of the old connection count as registered on the new. *)
Fresh_KeepsNames(b) ==
    Finish([b EXCEPT !.held = {}, !.lock = FALSE, !.owed = {}, !.answered = {}])

(* send_startup, reset_transport_state and the new generation.             *)
Fresh(b) ==
    Finish([b EXCEPT !.registered = {}, !.held = {}, !.lock = FALSE,
                     !.owed = {}, !.answered = {}])

TryCatalogue(b, s) ==
    \E r \in Catalogue(b, s, game, {}) :
        bridge' = [r.b EXCEPT !.pending = ~ r.ok] /\ server' = r.s

(* handle_transport_reconnect: a startup begins the new connection anew.   *)
Reconnect ==
    /\ TryCatalogue(Fresh(bridge), [names |-> {}, force |-> {}])
    /\ job' = None
    /\ used' = used \cup bridge.answered \cup OwedIds
    /\ UNCHANGED <<game, paused, accepted, denied, ran>>
RetryCatalogue ==
    /\ bridge.pending
    /\ TryCatalogue(bridge, server)
    /\ UNCHANGED <<game, paused, job, used, accepted, denied, ran>>

(* The panel: opening it pauses, closing it supersedes the open force. The  *)
(* confirmation mode and a character named late supersede it too.          *)
Pause ==
    /\ ~ paused /\ paused' = TRUE
    /\ UNCHANGED <<game, bridge, server, job, used, accepted, denied, ran>>
Supersede ==
    /\ paused' \in {FALSE, paused}
    /\ paused \/ bridge.window # None
    /\ Take(Withdraw(bridge, server))
    /\ UNCHANGED <<game, job, used, accepted, denied, ran>>

Frame == Arm \/ StepWindow
JobStep == RunJob \/ EndJob
Receive ==
    \E id \in Ids, name \in Names : Accept(id, name) \/ Refuse(id, name) \/ Stall(id, name)
Pay == \E o \in bridge.owed : PayOwed(o)

Next ==
    \/ GameMoves \/ Frame \/ Receive \/ Pay \/ JobStep
    \/ RunReset \/ Reconnect \/ RetryCatalogue \/ Pause \/ Supersede

Spec == Init /\ [][Next]_vars

(* The frames of the game go on. *)
Fairness == WF_vars(Frame) /\ WF_vars(JobStep) /\ WF_vars(Pay)
FairSpec == Spec /\ Fairness
----------------------------------------------------------------------------
(* The server never has a force open that the mod does not know of: the    *)
(* next one could not be refused or would cross it (_force_open).          *)
NoOverlap ==
    server.force # {} =>
        /\ bridge.lock /\ bridge.window # None
        /\ server.force = bridge.window.names

(* What the mod takes for registered is what the server has, and the       *)
(* validation never treats a registered name as unknown.                   *)
MirrorExact ==
    TypeOK /\ bridge.registered = server.names /\ bridge.registered \subseteq bridge.live

(* An action that was refused, or reported as never executed past the      *)
(* deadline, is never executed; and none is executed that was not reported *)
(* accepted first.                                                         *)
Truthful == ran \subseteq accepted /\ ran \cap denied = {}

(* When the result that accepts a disposable action is out, its group and  *)
(* the disposables of the open force are off (README.md:23-27 of the SDK). *)
(* What an answer or a withdrawal took off stays off on that screen: only a *)
(* force that offers it, or a new connection, brings it back.              *)
WithdrawnForGood ==
    [][ /\ \A id \in Ids, n \in Disposable :
             Accept(id, n) /\ accepted' # accepted =>
                 server'.names \cap
                     (Group[n] \cup IF bridge.window = None THEN {}
                                    ELSE bridge.window.names \cap Disposable) = {}
        /\ \A n \in bridge.held \ bridge.registered :
             n \in bridge'.registered =>
                 \/ bridge'.heldOn # bridge.heldOn
                 \/ bridge'.window # None /\ n \in bridge'.window.names
                 \/ Arm /\ bridge'.window = None    \* the force that offers it was refused
                 \/ Reconnect ]_vars

(* While the game waits for a decision the mod keeps asking: no owed       *)
(* result, job, lost window or held name silences it for good.             *)
Asks == <>[](~ paused /\ game.usable \cap Disposable # {}) => []<>(server.force # {})
================================================================================
