-------------------------- MODULE ForceWindowProofs --------------------------
(***************************************************************************)
(* Proofs about ForceWindow, for every registry, screen, situation and     *)
(* number of ids and refused frames: what the mod takes for registered is  *)
(* what the server has, its answers are true, it knows of every open       *)
(* force, and what was taken off stays off. A handler is a composition of  *)
(* operators on the tables and the server; each has a lemma, and the       *)
(* actions follow from them.                                               *)
(***************************************************************************)
EXTENDS ForceWindow, TLAPS

(* The parts of the invariant that speak of the tables and the server: they *)
(* hold between the calls a handler makes as well as between the handlers.  *)
OwedOnce(b) ==
    /\ \A o, p \in b.owed : o.id = p.id => o = p
    /\ \A o \in b.owed : o.id \notin b.answered /\ (o.own => b.window # None)
Exact(b, s) == b.registered = s.names /\ b.registered \subseteq b.live
Offering(b) == b.window # None => b.window.names \cap Disposable # {}
Sound(b, s) ==
    b \in Tables /\ s \in Server /\ OwedOnce(b) /\ Exact(b, s) /\ Offering(b)
Known(b, s) ==
    s.force # {} => b.lock /\ b.window # None /\ s.force = b.window.names

(* The ids of owed results, and what all but an answer leaves alone.        *)
IdsOwed(b) == {o.id : o \in b.owed}
SameIds(b, c) == c.answered = b.answered /\ IdsOwed(c) = IdsOwed(b)

Outcome == [ok : BOOLEAN, b : Tables, s : Server]

(* What is accepted or denied was answered, and nothing is both.            *)
Accounted ==
    /\ accepted \cup denied \subseteq used \cup bridge.answered
    /\ accepted \cap denied = {} /\ ran \subseteq accepted
    /\ used \cap OwedIds = {}
    /\ job # None => job.id \in accepted

IInv == TypeOK /\ Sound(bridge, server) /\ Accounted

----------------------------------------------------------------------------
(* The outcomes of the operators *)

LEMMA NamesFact ==
    /\ Disposable \subseteq Names /\ Reusable \subseteq Names
    /\ \A n \in Disposable : n \in Group[n] /\ Group[n] \subseteq Names
BY NamesAssumption DEF Decisions

LEMMA RefusedOutcome ==
    ASSUME NEW b \in Tables, NEW s \in Server, NEW r \in Refused(b, s)
    PROVE  /\ r \in Outcome /\ ~ r.ok /\ r.s = s
           /\ r.b = [b EXCEPT !.refused = @ + 1]
<1>1. r = [ok |-> FALSE, b |-> [b EXCEPT !.refused = @ + 1], s |-> s] /\ b.refused < MaxRefused
  BY DEF Refused
<1>2. b.refused + 1 \in 0 .. MaxRefused
  BY <1>1, BoundAssumption DEF Tables
<1>3. [b EXCEPT !.refused = @ + 1] \in Tables
  BY <1>2 DEF Tables
<1>. QED
  BY <1>1, <1>3 DEF Outcome

(* A refused frame changes nothing that the invariant speaks of.            *)
LEMMA RefusedSound ==
    ASSUME NEW b, NEW s, Sound(b, s), NEW r \in Refused(b, s)
    PROVE  /\ r \in Outcome /\ ~ r.ok /\ r.s = s
           /\ Sound(r.b, s) /\ (Known(b, s) => Known(r.b, s)) /\ SameIds(b, r.b)
           /\ r.b = [b EXCEPT !.refused = @ + 1]
<1>. b \in Tables /\ s \in Server
  BY DEF Sound
<1>1. r \in Outcome /\ ~ r.ok /\ r.s = s /\ r.b = [b EXCEPT !.refused = @ + 1]
  BY RefusedOutcome
<1>2. r.b \in Tables
  BY <1>1 DEF Outcome
<1>3. /\ r.b.registered = b.registered /\ r.b.live = b.live /\ r.b.window = b.window
      /\ r.b.owed = b.owed /\ r.b.answered = b.answered /\ r.b.lock = b.lock
  BY <1>1 DEF Tables
<1>. QED
  BY <1>1, <1>2, <1>3 DEF Sound, OwedOnce, Exact, Offering, Known, SameIds, IdsOwed

(* The names are off on both sides, and a force of one of them is over.     *)
TakenOff(b, s, N, r) ==
    /\ r \in Outcome /\ Sound(r.b, r.s) /\ (Known(b, s) => Known(r.b, r.s))
    /\ SameIds(b, r.b) /\ r.b.window = b.window /\ r.b.heldOn = b.heldOn
    /\ r.b.registered \subseteq b.registered
    /\ r.ok /\ r.s = Unregisters(s, N)

LEMMA UnregisterSound ==
    ASSUME NEW b, NEW s, Sound(b, s), NEW N \in SUBSET Names, NEW hold \in BOOLEAN
    PROVE  TakenOff(b, s, N, Unregister(b, s, N, hold))
<1>. DEFINE after == [b EXCEPT !.registered = @ \ N, !.live = @ \ N,
                               !.held = IF hold THEN @ \cup N ELSE @]
            r == Unregister(b, s, N, hold)
<1>. b \in Tables /\ s \in Server
  BY DEF Sound
<1>1. after \in Tables
  BY DEF Tables
<1>2. /\ after.registered = b.registered \ N /\ after.live = b.live \ N
      /\ after.window = b.window /\ after.owed = b.owed /\ after.answered = b.answered
      /\ after.lock = b.lock /\ after.heldOn = b.heldOn
  BY DEF Tables
<1>3. /\ Unregisters(s, N) \in Server /\ Unregisters(s, N).names = s.names \ N
      /\ Unregisters(s, N).force \in {s.force, {}}
  BY DEF Server, Unregisters
<1>4. r = [ok |-> TRUE, b |-> after, s |-> Unregisters(s, N)]
  BY DEF Unregister, Done
<1>. HIDE DEF after, r
<1>5. r \in Outcome /\ r.ok /\ r.b = after /\ r.s = Unregisters(s, N)
  BY <1>1, <1>3, <1>4 DEF Outcome
<1>6. Sound(after, Unregisters(s, N))
  BY <1>1, <1>2, <1>3 DEF Sound, OwedOnce, Exact, Offering
<1>7. Known(b, s) => Known(after, Unregisters(s, N))
  BY <1>2, <1>3 DEF Known
<1>8. SameIds(b, after)
  BY <1>2 DEF SameIds, IdsOwed
<1>9. TakenOff(b, s, N, r)
  BY <1>2, <1>5, <1>6, <1>7, <1>8 DEF TakenOff
<1>. QED
  BY <1>9 DEF r

(* An ended window: nothing else changes, and no owed result is its own.    *)
LEMMA FinishSound ==
    ASSUME NEW b, NEW s, Sound(b, s)
    PROVE  /\ Sound(Finish(b), s) /\ SameIds(b, Finish(b)) /\ Finish(b) \in Tables
           /\ Finish(b).window = None
           /\ Finish(b).held = b.held /\ Finish(b).heldOn = b.heldOn
           /\ Finish(b).registered = b.registered
           /\ s.force = {} => Known(Finish(b), s)
<1>. b \in Tables
  BY DEF Sound
<1>1. CASE b.window = None
  BY <1>1 DEF Finish, Sound, SameIds, Known
<1>2. CASE b.window # None
  <2>. DEFINE owed == {[o EXCEPT !.own = FALSE] : o \in b.owed}
              c == [b EXCEPT !.window = None, !.lock = FALSE, !.owed = owed]
  <2>1. Finish(b) = c
    BY <1>2 DEF Finish
  <2>2. ASSUME NEW o \in b.owed
        PROVE  /\ [o EXCEPT !.own = FALSE] \in Owed /\ [o EXCEPT !.own = FALSE].id = o.id
               /\ ~ [o EXCEPT !.own = FALSE].own
    <3>1. o \in Owed
      BY DEF Tables
    <3>. QED
      BY <3>1 DEF Owed
  <2>3. owed \in SUBSET Owed /\ {o.id : o \in owed} = {o.id : o \in b.owed}
    <3>1. owed \in SUBSET Owed
      BY <2>2
    <3>2. ASSUME NEW o \in b.owed
          PROVE  \E q \in owed : q.id = o.id
      <4>1. [o EXCEPT !.own = FALSE] \in owed /\ [o EXCEPT !.own = FALSE].id = o.id
        BY <2>2
      <4>. QED
        BY <4>1
    <3>3. \A q \in owed : \E o \in b.owed : q.id = o.id
      BY <2>2
    <3>. HIDE DEF owed
    <3>. QED
      BY <3>1, <3>2, <3>3
  <2>4. /\ c.window = None /\ c.lock = FALSE /\ c.owed = owed /\ c.registered = b.registered
        /\ c.live = b.live /\ c.answered = b.answered /\ c.held = b.held /\ c.heldOn = b.heldOn
    BY DEF Tables
  <2>5. c \in Tables
    BY <2>3 DEF Tables
  <2>6. OwedOnce(c)
    <3>1. ASSUME NEW o \in owed, NEW q \in owed, o.id = q.id
          PROVE  o = q
      <4>1. PICK x \in b.owed : o = [x EXCEPT !.own = FALSE]
        OBVIOUS
      <4>2. PICK y \in b.owed : q = [y EXCEPT !.own = FALSE]
        OBVIOUS
      <4>3. x.id = y.id
        BY <2>2, <3>1, <4>1, <4>2
      <4>4. x = y
        BY <4>3 DEF Sound, OwedOnce
      <4>. QED
        BY <4>1, <4>2, <4>4
    <3>2. ASSUME NEW o \in owed
          PROVE  o.id \notin b.answered /\ ~ o.own
      <4>1. PICK x \in b.owed : o = [x EXCEPT !.own = FALSE]
        OBVIOUS
      <4>2. x.id \notin b.answered
        BY DEF Sound, OwedOnce
      <4>. QED
        BY <2>2, <4>1, <4>2
    <3>. QED
      BY <2>4, <3>1, <3>2 DEF OwedOnce
  <2>7. Exact(c, s) /\ Offering(c) /\ (s.force = {} => Known(c, s)) /\ SameIds(b, c)
    BY <2>3, <2>4 DEF Sound, Exact, Offering, Known, SameIds, IdsOwed
  <2>. QED
    BY <2>1, <2>4, <2>5, <2>6, <2>7 DEF Sound
<1>. QED
  BY <1>1, <1>2

(* A withdrawal ends the window and its force.                              *)
LEMMA WithdrawSound ==
    ASSUME NEW b, NEW s, Sound(b, s)
    PROVE  LET r == Withdraw(b, s)
           IN  /\ r \in Outcome /\ Sound(r.b, r.s) /\ SameIds(b, r.b)
               /\ (Known(b, s) => Known(r.b, r.s)) /\ r.b.registered \subseteq b.registered
<1>. DEFINE r == Withdraw(b, s)
            Goal == /\ r \in Outcome /\ Sound(r.b, r.s) /\ SameIds(b, r.b)
                    /\ (Known(b, s) => Known(r.b, r.s)) /\ r.b.registered \subseteq b.registered
<1>. SUFFICES Goal
  OBVIOUS
<1>. b \in Tables /\ s \in Server
  BY DEF Sound
<1>1. CASE b.window = None
  <2>1. r = [ok |-> TRUE, b |-> b, s |-> s]
    BY <1>1 DEF Withdraw, Done
  <2>. QED
    BY <2>1 DEF Outcome, SameIds
<1>2. CASE b.window # None
  <2>. DEFINE N == b.window.names
              hold == TRUE
              u == Unregister(b, s, N, hold)
  <2>1. N \in SUBSET Names /\ hold \in BOOLEAN
    BY <1>2 DEF Tables, Window
  <2>2. r = [u EXCEPT !.b = Finish(@)]
    BY <1>2 DEF Withdraw
  <2>. HIDE DEF N, hold, r
  <2>a. TakenOff(b, s, N, u)
    BY <2>1, UnregisterSound
  <2>. HIDE DEF u
  <2>3. /\ u \in Outcome /\ Sound(u.b, u.s) /\ SameIds(b, u.b)
        /\ u.b.registered \subseteq b.registered /\ u.s = Unregisters(s, N)
    BY <2>a DEF TakenOff
  <2>4. /\ Sound(Finish(u.b), u.s) /\ SameIds(u.b, Finish(u.b)) /\ Finish(u.b) \in Tables
        /\ Finish(u.b).registered = u.b.registered
        /\ u.s.force = {} => Known(Finish(u.b), u.s)
    BY <2>3, FinishSound
  <2>5. r = [ok |-> u.ok, b |-> Finish(u.b), s |-> u.s] /\ u.s \in Server /\ u.ok \in BOOLEAN
    BY <2>2, <2>3 DEF Outcome
  <2>6. Known(b, s) => u.s.force = {}
    BY <1>2, <2>3 DEF Known, Unregisters, N
  <2>. QED
    BY <2>3, <2>4, <2>5, <2>6 DEF SameIds, Outcome
<1>. QED
  BY <1>1, <1>2

(* An answer with a window takes one of its names off.                      *)
LEMMA WithdrawalFact ==
    ASSUME NEW b, NEW s, Sound(b, s), NEW name \in Names, NEW group \in SUBSET Names
    PROVE  /\ Withdrawal(b, name, group) \in SUBSET Names
           /\ group \subseteq Withdrawal(b, name, group)
           /\ b.window # None =>
                  /\ b.window.names \cap Disposable \subseteq Withdrawal(b, name, group)
                  /\ b.window.names \cap Withdrawal(b, name, group) # {}
<1>1. CASE b.window = None
  BY <1>1 DEF Withdrawal
<1>2. CASE b.window # None
  <2>1. b.window.names \in SUBSET Names /\ b.window.names \cap Disposable # {}
    BY <1>2 DEF Sound, Tables, Window, Offering
  <2>. QED
    BY <1>2, <2>1 DEF Withdrawal
<1>. QED
  BY <1>1, <1>2

LEMMA ScreenFact ==
    ASSUME NEW b \in Tables, NEW g \in Situations, NEW offer \in SUBSET Names
    PROVE  CatalogueScreen(b, g) \in Screens /\ Wanted(b, g, offer) \in SUBSET Names
<1>1. CatalogueScreen(b, g) \in Screens
  BY SituationsAssumption DEF CatalogueScreen, Tables, Screens
<1>2. (IF CatalogueScreen(b, g) = NoScreen THEN Names ELSE OnScreen[CatalogueScreen(b, g)])
          \in SUBSET Names
  BY <1>1, NamesAssumption DEF Screens
<1>. QED
  BY <1>1, <1>2 DEF Wanted

(* A catalogue registers names on both sides, none of them held unless it   *)
(* is offered, and takes none of the open force.                            *)
Offered(b, offered) == IF offered = {} /\ b.window # None THEN b.window.names ELSE offered

LEMMA CatalogueSound ==
    ASSUME NEW b, NEW s, Sound(b, s), NEW g \in Situations, NEW offered \in SUBSET Names,
           NEW r \in Catalogue(b, s, g, offered)
    PROVE  /\ r \in Outcome /\ Sound(r.b, r.s) /\ (Known(b, s) => Known(r.b, r.s))
           /\ SameIds(b, r.b) /\ r.b.window = b.window
           /\ r.b.heldOn = CatalogueScreen(b, g)
           /\ \A n \in r.b.registered : n \in b.registered \/ n \notin Held(b, g)
                                          \/ n \in Offered(b, offered)
<1>. DEFINE offer == Offered(b, offered)
            screen == CatalogueScreen(b, g)
            held == Held(b, g)
            want == Wanted(b, g, offer)
            fresh == (want \ (held \ offer)) \ b.registered
            noted == [b EXCEPT !.held = held, !.heldOn = screen, !.screen = screen, !.wanted = want]
            sent == [noted EXCEPT !.registered = @ \cup fresh,
                                  !.live = @ \cup b.registered \cup fresh]
<1>. b \in Tables /\ s \in Server
  BY DEF Sound
<1>1. offer \in SUBSET Names
  BY DEF Offered, Tables, Window
<1>2. screen \in Screens /\ want \in SUBSET Names
  BY <1>1, ScreenFact
<1>3. held \in SUBSET Names
  BY DEF Held, Tables
<1>4. fresh \in SUBSET Names
  BY <1>2
<1>. HIDE DEF offer, screen, held, want, fresh
<1>5. /\ noted \in Tables /\ noted.held = held /\ noted.heldOn = screen
      /\ noted.registered = b.registered /\ noted.live = b.live /\ noted.window = b.window
      /\ noted.owed = b.owed /\ noted.answered = b.answered /\ noted.lock = b.lock
  BY <1>2, <1>3 DEF Tables
<1>. HIDE DEF noted
<1>6. /\ sent \in Tables /\ sent.heldOn = screen
      /\ sent.registered = b.registered \cup fresh
      /\ sent.live = b.live \cup b.registered \cup fresh /\ sent.window = b.window
      /\ sent.owed = b.owed /\ sent.answered = b.answered /\ sent.lock = b.lock
  BY <1>4, <1>5 DEF Tables
<1>. HIDE DEF sent
<1>7. Sound(noted, s) /\ SameIds(b, noted) /\ (Known(b, s) => Known(noted, s))
  BY <1>5 DEF Sound, OwedOnce, Exact, Offering, Known, SameIds, IdsOwed
<1>8. /\ Registers(s, fresh) \in Server /\ Registers(s, fresh).names = s.names \cup fresh
      /\ Registers(s, fresh).force = s.force
  BY <1>4 DEF Registers, Server
<1>9. /\ Sound(sent, Registers(s, fresh)) /\ SameIds(b, sent)
      /\ Known(b, s) => Known(sent, Registers(s, fresh))
  BY <1>6, <1>8 DEF Sound, OwedOnce, Exact, Offering, Known, SameIds, IdsOwed
<1>10. \A n \in fresh : n \notin held \/ n \in offer
  BY DEF fresh
<1>11. CASE r \in Refused(noted, s)
  <2>1. /\ r \in Outcome /\ r.s = s /\ Sound(r.b, s)
        /\ (Known(noted, s) => Known(r.b, s)) /\ SameIds(noted, r.b)
        /\ r.b = [noted EXCEPT !.refused = @ + 1]
    BY <1>7, <1>11, RefusedSound
  <2>2. r.b.window = b.window /\ r.b.heldOn = screen /\ r.b.registered = b.registered
    BY <1>5, <2>1 DEF Tables
  <2>. QED
    BY <1>7, <2>1, <2>2 DEF SameIds, screen
<1>12. CASE r = [Unregister(sent, Registers(s, fresh), b.registered \ want, FALSE)
                    EXCEPT !.b.held = @ \ offer]
  <2>1. b.registered \ want \in SUBSET Names /\ FALSE \in BOOLEAN
    BY DEF Tables
  <2>. DEFINE N == b.registered \ want
              hold == FALSE
              u == Unregister(sent, Registers(s, fresh), N, hold)
              c == [u.b EXCEPT !.held = @ \ offer]
  <2>2. r = [u EXCEPT !.b.held = @ \ offer]
    BY <1>12
  <2>. HIDE DEF N, hold
  <2>a. TakenOff(sent, Registers(s, fresh), N, u)
    <3>1. N \in SUBSET Names /\ hold \in BOOLEAN
      BY <2>1 DEF N, hold
    <3>. QED
      BY <1>9, <3>1, UnregisterSound
  <2>. HIDE DEF u
  <2>3. /\ u \in Outcome /\ Sound(u.b, u.s)
        /\ (Known(sent, Registers(s, fresh)) => Known(u.b, u.s))
        /\ SameIds(sent, u.b) /\ u.b.window = sent.window /\ u.b.heldOn = sent.heldOn
        /\ u.b.registered \subseteq sent.registered
    BY <2>a DEF TakenOff
  <2>4. r = [ok |-> u.ok, b |-> c, s |-> u.s] /\ u.s \in Server /\ u.b \in Tables
    BY <2>2, <2>3 DEF Outcome
  <2>5. /\ c \in Tables /\ c.registered = u.b.registered /\ c.live = u.b.live
        /\ c.window = u.b.window /\ c.owed = u.b.owed /\ c.answered = u.b.answered
        /\ c.lock = u.b.lock /\ c.heldOn = u.b.heldOn
    BY <2>4 DEF Tables
  <2>. HIDE DEF c
  <2>6. Sound(c, u.s) /\ SameIds(u.b, c) /\ (Known(u.b, u.s) => Known(c, u.s))
    BY <2>3, <2>5 DEF Sound, OwedOnce, Exact, Offering, Known, SameIds, IdsOwed
  <2>7. /\ r \in Outcome /\ r.b = c /\ r.s = u.s
    BY <2>3, <2>4, <2>5 DEF Outcome
  <2>8. r.b.registered \subseteq b.registered \cup fresh /\ r.b.heldOn = screen /\ r.b.window = b.window
    BY <1>6, <2>3, <2>5, <2>7
  <2>9. Sound(r.b, r.s) /\ (Known(b, s) => Known(r.b, r.s)) /\ SameIds(b, r.b)
    BY <1>9, <2>3, <2>6, <2>7 DEF SameIds
  <2>. QED
    BY <1>10, <2>7, <2>8, <2>9 DEF screen, held, offer
<1>13. \/ r \in Refused(noted, s)
       \/ r = [Unregister(sent, Registers(s, fresh), b.registered \ want, FALSE)
                  EXCEPT !.b.held = @ \ offer]
  BY DEF Catalogue, Offered, offer, screen, held, want, fresh, noted, sent
<1>. QED
  BY <1>11, <1>12, <1>13

LEMMA SettledSound ==
    ASSUME NEW b, NEW s, Sound(b, s), NEW id \in Ids
    PROVE  /\ Sound(Settled(b, id), s) /\ (Known(b, s) => Known(Settled(b, id), s))
           /\ Settled(b, id).answered = b.answered \cup {id}
           /\ IdsOwed(Settled(b, id)) \subseteq IdsOwed(b)
           /\ Settled(b, id).registered = b.registered
           /\ Settled(b, id).window = b.window
<1>. DEFINE c == [b EXCEPT !.answered = @ \cup {id}, !.owed = {o \in @ : o.id # id}]
<1>. b \in Tables
  BY DEF Sound
<1>1. /\ c \in Tables /\ c.answered = b.answered \cup {id}
      /\ c.owed = {o \in b.owed : o.id # id}
      /\ c.registered = b.registered /\ c.live = b.live /\ c.window = b.window
      /\ c.lock = b.lock
  BY DEF Tables
<1>2. Settled(b, id) = c
  BY DEF Settled
<1>. HIDE DEF c
<1>. QED
  BY <1>1, <1>2 DEF Sound, OwedOnce, Exact, Offering, Known, IdsOwed

(* A result settles its id.                                                 *)
LEMMA DeliverSound ==
    ASSUME NEW b, NEW s, Sound(b, s), NEW id \in Ids, NEW name \in Names,
           NEW success \in BOOLEAN, NEW own \in BOOLEAN
    PROVE  LET r == Deliver(b, s, id, name, success, own)
           IN  /\ Sound(r.b, r.s)
               /\ Known(b, s) /\ (success /\ own => s.force = {}) => Known(r.b, r.s)
               /\ r.b.answered = b.answered \cup {id} /\ IdsOwed(r.b) \subseteq IdsOwed(b)
               /\ r.b.registered = b.registered /\ r.s.names = s.names
<1>. DEFINE c == Settled(b, id)
            t == IF success THEN Succeeds(s, name) ELSE s
            r == Deliver(b, s, id, name, success, own)
            Goal == /\ Sound(r.b, r.s)
                    /\ Known(b, s) /\ (success /\ own => s.force = {}) => Known(r.b, r.s)
                    /\ r.b.answered = b.answered \cup {id} /\ IdsOwed(r.b) \subseteq IdsOwed(b)
                    /\ r.b.registered = b.registered /\ r.s.names = s.names
<1>. SUFFICES Goal
  OBVIOUS
<1>. b \in Tables /\ s \in Server
  BY DEF Sound
<1>1. t \in Server /\ t.names = s.names /\ t.force \in {s.force, {}}
  BY DEF Succeeds, Server
<1>2. /\ Sound(c, s) /\ (Known(b, s) => Known(c, s))
      /\ c.answered = b.answered \cup {id} /\ IdsOwed(c) \subseteq IdsOwed(b)
      /\ c.registered = b.registered
  BY SettledSound
<1>3. r.b = (IF success /\ own THEN Finish(c) ELSE c) /\ r.s = t
  BY DEF Deliver, Done
<1>. HIDE DEF c, t, r
<1>4. Sound(c, t) /\ (Known(b, s) => Known(c, t))
  BY <1>1, <1>2 DEF Sound, Exact, Known
<1>5. /\ Sound(Finish(c), t) /\ SameIds(c, Finish(c))
      /\ Finish(c).registered = c.registered
      /\ t.force = {} => Known(Finish(c), t)
  BY <1>4, FinishSound
<1>6. CASE success /\ own
  <2>1. r.b = Finish(c) /\ r.s = t
    BY <1>3, <1>6
  <2>. QED
    BY <1>1, <1>2, <1>5, <1>6, <2>1 DEF SameIds
<1>7. CASE ~ (success /\ own)
  <2>1. r.b = c /\ r.s = t
    BY <1>3, <1>7
  <2>. QED
    BY <1>1, <1>2, <1>4, <2>1
<1>. QED
  BY <1>6, <1>7

(* An answer, with what a success of its own window takes off.              *)
Answered(b, s, id, off, a) ==
    /\ Sound(a.b, a.s) /\ (Known(b, s) => Known(a.b, a.s))
    /\ a.b.answered = b.answered \cup {id} /\ IdsOwed(a.b) \subseteq IdsOwed(b)
    /\ a.b.registered \subseteq b.registered /\ a.s.names \cap off = {}

LEMMA AnswerSound ==
    ASSUME NEW b, NEW s, Sound(b, s), NEW id \in Ids, NEW name \in Names,
           NEW success \in BOOLEAN, NEW group \in SUBSET Names, NEW own \in BOOLEAN
    PROVE  Answered(b, s, id, IF success /\ own THEN Withdrawal(b, name, group) ELSE {},
                    Answer(b, s, id, name, success, group, own))
<1>. DEFINE off == IF success /\ own THEN Withdrawal(b, name, group) ELSE {}
            hold == TRUE
            u == Unregister(b, s, off, hold)
            r == Deliver(u.b, u.s, id, name, success, own)
<1>1. off \in SUBSET Names /\ hold \in BOOLEAN
  BY WithdrawalFact
<1>2. Answer(b, s, id, name, success, group, own) = r
  BY DEF Answer
<1>3. success /\ own => off = Withdrawal(b, name, group)
  OBVIOUS
<1>. HIDE DEF off, hold
<1>a. TakenOff(b, s, off, u)
  BY <1>1, UnregisterSound
<1>. HIDE DEF u
<1>4. /\ u \in Outcome /\ Sound(u.b, u.s) /\ (Known(b, s) => Known(u.b, u.s))
      /\ SameIds(b, u.b) /\ u.b.registered \subseteq b.registered /\ u.s = Unregisters(s, off)
  BY <1>a DEF TakenOff
<1>5. Known(b, s) /\ success /\ own => u.s.force = {}
  <2>. SUFFICES ASSUME Known(b, s), success, own, s.force # {} PROVE u.s.force = {}
    BY <1>4 DEF Unregisters
  <2>1. s.force \cap off # {}
    BY <1>3, WithdrawalFact DEF Known
  <2>. QED
    BY <1>4, <2>1 DEF Unregisters
<1>6. /\ Sound(r.b, r.s)
      /\ Known(u.b, u.s) /\ (success /\ own => u.s.force = {}) => Known(r.b, r.s)
      /\ r.b.answered = u.b.answered \cup {id} /\ IdsOwed(r.b) \subseteq IdsOwed(u.b)
      /\ r.b.registered = u.b.registered /\ r.s.names = u.s.names
  BY <1>4, DeliverSound
<1>. HIDE DEF r
<1>7. r.s.names \cap off = {}
  BY <1>4, <1>6 DEF Unregisters
<1>8. Answered(b, s, id, off, r)
  BY <1>4, <1>5, <1>6, <1>7 DEF Answered, SameIds
<1>. QED
  BY <1>2, <1>8 DEF off

(* A force that is sent is the window's, and nobody else's is open.         *)
LEMMA ForceSound ==
    ASSUME TypeOK, NEW b, NEW s, Sound(b, s), b.window = None, NEW offer \in SUBSET Names,
           offer \cap Disposable # {}, NEW r \in ForceActions(b, s, offer)
    PROVE  /\ r \in Outcome /\ Sound(r.b, r.s) /\ (Known(b, s) => Known(r.b, r.s))
           /\ SameIds(b, r.b) /\ r.b.registered = b.registered /\ r.b.heldOn = b.heldOn
           /\ r.b.window # None => r.b.window.names = offer
<1>. DEFINE free == [b EXCEPT !.lock = FALSE]
            window == [screen |-> game.screen, names |-> offer]
            c == [b EXCEPT !.lock = TRUE, !.window = window]
            t == [s EXCEPT !.force = offer]
<1>. b \in Tables /\ s \in Server
  BY DEF Sound
<1>1. window \in Window /\ window # None /\ window.names = offer
  <2>1. game.screen \in Screens
    BY SituationsAssumption DEF TypeOK, Screens
  <2>. QED
    BY <2>1, NoneAssumption DEF Window
<1>. HIDE DEF window
<1>2. /\ c \in Tables /\ c.lock = TRUE /\ c.window = window /\ c.registered = b.registered
      /\ c.live = b.live /\ c.owed = b.owed /\ c.answered = b.answered /\ c.heldOn = b.heldOn
  BY <1>1 DEF Tables
<1>3. /\ free \in Tables /\ free.window = b.window /\ free.registered = b.registered
      /\ free.live = b.live /\ free.owed = b.owed /\ free.answered = b.answered
      /\ free.heldOn = b.heldOn
  BY DEF Tables
<1>4. t \in Server /\ t.names = s.names /\ t.force = offer
  BY DEF Server
<1>. HIDE DEF c, free, t
<1>5. CASE r = Done(free, s)
  BY <1>3, <1>5 DEF Done, Outcome, Sound, OwedOnce, Exact, Offering, Known, SameIds, IdsOwed
<1>6. CASE r = Done(c, t)
  <2>1. r = [ok |-> TRUE, b |-> c, s |-> t]
    BY <1>6 DEF Done
  <2>2. Sound(c, t) /\ Known(c, t) /\ SameIds(b, c)
    BY <1>1, <1>2, <1>4 DEF Sound, OwedOnce, Exact, Offering, Known, SameIds, IdsOwed
  <2>. QED
    BY <1>1, <1>2, <1>4, <2>1, <2>2 DEF Outcome
<1>7. CASE r \in Refused(b, s)
  <2>1. /\ r \in Outcome /\ r.s = s /\ Sound(r.b, s) /\ (Known(b, s) => Known(r.b, s))
        /\ SameIds(b, r.b) /\ r.b = [b EXCEPT !.refused = @ + 1]
    BY <1>7, RefusedSound
  <2>2. r.b.window = b.window /\ r.b.registered = b.registered /\ r.b.heldOn = b.heldOn
    BY <2>1 DEF Tables
  <2>. QED
    BY <2>1, <2>2
<1>8. r = Done(free, s) \/ r = Done(c, t) \/ r \in Refused(b, s)
  BY DEF ForceActions, free, c, t, window
<1>. QED
  BY <1>5, <1>6, <1>7, <1>8

(* A new connection starts from nothing.                                    *)
LEMMA FreshSound ==
    ASSUME NEW b, NEW s, Sound(b, s)
    PROVE  LET f == Fresh(b) t == [names |-> {}, force |-> {}]
           IN  /\ Sound(f, t) /\ Known(f, t) /\ f.answered = {} /\ IdsOwed(f) = {}
               /\ f.registered = {} /\ f.window = None
<1>. DEFINE c == [b EXCEPT !.registered = {}, !.held = {}, !.lock = FALSE,
                           !.owed = {}, !.answered = {}]
            t == [names |-> {}, force |-> {}]
<1>1. b \in Tables
  BY DEF Sound
<1>2. /\ c \in Tables /\ c.registered = {} /\ c.live = b.live /\ c.window = b.window
      /\ c.owed = {} /\ c.answered = {}
  BY <1>1 DEF Tables
<1>3. Fresh(b) = Finish(c)
  BY DEF Fresh
<1>4. t \in Server /\ t.names = {} /\ t.force = {}
  BY DEF Server
<1>. HIDE DEF c, t
<1>5. Sound(c, t)
  BY <1>2, <1>4 DEF Sound, OwedOnce, Exact, Offering
<1>6. /\ Sound(Finish(c), t) /\ SameIds(c, Finish(c)) /\ Finish(c).window = None
      /\ Finish(c).registered = c.registered /\ Known(Finish(c), t)
  BY <1>4, <1>5, FinishSound
<1>7. IdsOwed(c) = {}
  BY <1>2 DEF IdsOwed
<1>8. /\ Sound(Fresh(b), t) /\ Known(Fresh(b), t) /\ Fresh(b).answered = {}
      /\ IdsOwed(Fresh(b)) = {} /\ Fresh(b).registered = {} /\ Fresh(b).window = None
  BY <1>2, <1>3, <1>6, <1>7 DEF SameIds
<1>. QED
  BY <1>8 DEF t

(* An id is owed once it is open.                                           *)
LEMMA OpenedSound ==
    ASSUME IInv, NEW id \in Ids, NEW name \in Names, New(id)
    PROVE  LET b == Opened(id, name)
           IN  /\ Sound(b, server) /\ (Known(bridge, server) => Known(b, server))
               /\ b.answered = bridge.answered /\ IdsOwed(b) = OwedIds \cup {id}
               /\ b.window = bridge.window /\ b.registered = bridge.registered
<1>. DEFINE new == [id |-> id, name |-> name, own |-> bridge.window # None]
            b == Opened(id, name)
<1>1. bridge \in Tables /\ Sound(bridge, server)
  BY DEF IInv, TypeOK
<1>2. new \in Owed /\ new.id = id /\ (new.own => bridge.window # None)
  BY DEF Owed
<1>. HIDE DEF new
<1>3. b = [bridge EXCEPT !.owed = @ \cup {new}]
  BY DEF Opened, new
<1>4. /\ b \in Tables /\ b.owed = bridge.owed \cup {new} /\ b.answered = bridge.answered
      /\ b.window = bridge.window /\ b.registered = bridge.registered
      /\ b.live = bridge.live /\ b.lock = bridge.lock
  BY <1>1, <1>2, <1>3 DEF Tables
<1>. HIDE DEF b
<1>5. id \notin bridge.answered /\ \A o \in bridge.owed : o.id # id
  BY DEF New, OwedIds
<1>6. OwedOnce(b)
  BY <1>1, <1>2, <1>4, <1>5 DEF Sound, OwedOnce
<1>7. IdsOwed(b) = OwedIds \cup {id}
  BY <1>2, <1>4 DEF IdsOwed, OwedIds
<1>8. Sound(b, server) /\ (Known(bridge, server) => Known(b, server))
  BY <1>1, <1>4, <1>6 DEF Sound, Exact, Offering, Known
<1>. QED
  BY <1>4, <1>7, <1>8 DEF b

(* A catalogue of its own notes whether it has to be sent again.            *)
LEMMA TryCatalogueSound ==
    ASSUME TypeOK, NEW b, NEW s, Sound(b, s), TryCatalogue(b, s)
    PROVE  /\ Sound(bridge', server') /\ (Known(b, s) => Known(bridge', server'))
           /\ SameIds(b, bridge') /\ bridge'.window = b.window
           /\ bridge'.heldOn = CatalogueScreen(b, game)
           /\ \A n \in bridge'.registered :
                  n \in b.registered \/ n \notin Held(b, game) \/ n \in Offered(b, {})
<1>1. PICK r \in Catalogue(b, s, game, {}) :
          bridge' = [r.b EXCEPT !.pending = ~ r.ok] /\ server' = r.s
  BY DEF TryCatalogue
<1>2. game \in Situations /\ {} \in SUBSET Names
  BY DEF TypeOK
<1>3. /\ r \in Outcome /\ Sound(r.b, r.s) /\ (Known(b, s) => Known(r.b, r.s))
      /\ SameIds(b, r.b) /\ r.b.window = b.window
      /\ r.b.heldOn = CatalogueScreen(b, game)
      /\ \A n \in r.b.registered :
             n \in b.registered \/ n \notin Held(b, game) \/ n \in Offered(b, {})
  BY <1>1, <1>2, CatalogueSound
<1>4. /\ bridge' \in Tables /\ bridge'.registered = r.b.registered /\ bridge'.live = r.b.live
      /\ bridge'.window = r.b.window /\ bridge'.owed = r.b.owed
      /\ bridge'.answered = r.b.answered /\ bridge'.lock = r.b.lock
      /\ bridge'.heldOn = r.b.heldOn
  BY <1>1, <1>3 DEF Outcome, Tables
<1>. QED
  BY <1>1, <1>3, <1>4 DEF Sound, OwedOnce, Exact, Offering, Known, SameIds, IdsOwed

----------------------------------------------------------------------------
(* The actions *)

Kept == Sound(bridge', server') /\ (Known(bridge, server) => Known(bridge', server'))

Types ==
    /\ game \in Situations /\ paused \in BOOLEAN
    /\ bridge \in Tables /\ server \in Server /\ job \in Job \cup {None}
    /\ used \subseteq Ids /\ accepted \subseteq Ids /\ denied \subseteq Ids /\ ran \subseteq Ids

(* The parts of the invariant, one by one. *)
LEMMA Parts == IInv <=> Types /\ Sound(bridge, server) /\ Accounted
BY DEF IInv, TypeOK, Types, Sound, OwedOnce

(* No id is answered or owed anew: the accounts stay.                       *)
LEMMA AccountKept ==
    ASSUME Accounted, SameIds(bridge, bridge'), UNCHANGED <<used, accepted, denied, ran>>,
           job' = None \/ (job # None /\ job' # None /\ job'.id = job.id)
    PROVE  Accounted'
BY DEF Accounted, SameIds, IdsOwed, OwedIds

LEMMA SameIdsSelf == SameIds(bridge, bridge)
BY DEF SameIds

LEMMA WithdrawStep ==
    ASSUME IInv, Take(Withdraw(bridge, server))
    PROVE  Kept /\ SameIds(bridge, bridge') /\ bridge'.registered \subseteq bridge.registered
BY Parts, WithdrawSound DEF Kept, Take

LEMMA ArmStep ==
    ASSUME IInv, Arm
    PROVE  /\ Kept /\ SameIds(bridge, bridge')
           /\ \E offer \in SUBSET Names :
                 /\ bridge'.window # None => bridge'.window.names = offer
                 /\ bridge'.heldOn = CatalogueScreen(bridge, game)
                 /\ \A n \in bridge'.registered :
                       n \in bridge.registered \/ n \notin Held(bridge, game) \/ n \in offer
<1>1. PICK offer \in Offers : \E r \in Catalogue(bridge, server, game, offer) :
          IF r.ok THEN \E f \in ForceActions(r.b, r.s, offer) : Take(f) ELSE Take(r)
  BY DEF Arm
<1>2. PICK r \in Catalogue(bridge, server, game, offer) :
          IF r.ok THEN \E f \in ForceActions(r.b, r.s, offer) : Take(f) ELSE Take(r)
  BY <1>1
<1>3. game \in Situations /\ Sound(bridge, server) /\ bridge.window = None
  BY Parts DEF Types, Arm, Armable
<1>4. game.usable \in SUBSET Names
  BY <1>3, SituationsAssumption, NamesAssumption
<1>5. offer \in SUBSET Names /\ offer \cap Disposable # {}
  BY <1>4 DEF Offers
<1>6. /\ r \in Outcome /\ Sound(r.b, r.s) /\ (Known(bridge, server) => Known(r.b, r.s))
      /\ SameIds(bridge, r.b) /\ r.b.window = None
      /\ r.b.heldOn = CatalogueScreen(bridge, game)
      /\ \A n \in r.b.registered :
             n \in bridge.registered \/ n \notin Held(bridge, game) \/ n \in offer
  BY <1>2, <1>3, <1>5, CatalogueSound DEF Offered
<1>7. CASE ~ r.ok
  BY <1>2, <1>5, <1>6, <1>7 DEF Take, Kept
<1>8. CASE r.ok
  <2>1. PICK f \in ForceActions(r.b, r.s, offer) : bridge' = f.b /\ server' = f.s
    BY <1>2, <1>8 DEF Take
  <2>2. TypeOK
    BY DEF IInv
  <2>3. /\ Sound(f.b, f.s) /\ (Known(r.b, r.s) => Known(f.b, f.s))
        /\ SameIds(r.b, f.b) /\ f.b.registered = r.b.registered /\ f.b.heldOn = r.b.heldOn
        /\ f.b.window # None => f.b.window.names = offer
    BY <1>5, <1>6, <2>1, <2>2, ForceSound
  <2>4. SameIds(bridge, f.b)
    BY <1>6, <2>3 DEF SameIds
  <2>. QED
    BY <1>5, <1>6, <2>1, <2>3, <2>4 DEF Kept
<1>. QED
  BY <1>7, <1>8

(* What a handler that opens id and answers it leaves.                      *)
LEMMA NewAnswer ==
    ASSUME IInv, NEW id \in Ids, NEW name \in Names, New(id),
           NEW success \in BOOLEAN, NEW group \in SUBSET Names, NEW own \in BOOLEAN,
           Take(Answer(Opened(id, name), server, id, name, success, group, own))
    PROVE  /\ Kept
           /\ bridge'.answered = bridge.answered \cup {id} /\ OwedIds' \subseteq OwedIds \cup {id}
           /\ bridge'.registered \subseteq bridge.registered
           /\ success /\ own =>
                  server'.names \cap Withdrawal(Opened(id, name), name, group) = {}
<1>. DEFINE b == Opened(id, name)
            a == Answer(b, server, id, name, success, group, own)
<1>1. /\ Sound(b, server) /\ (Known(bridge, server) => Known(b, server))
      /\ b.answered = bridge.answered /\ IdsOwed(b) = OwedIds \cup {id}
      /\ b.window = bridge.window /\ b.registered = bridge.registered
  BY OpenedSound
<1>2. bridge' = a.b /\ server' = a.s
  BY DEF Take
<1>. DEFINE off == IF success /\ own THEN Withdrawal(b, name, group) ELSE {}
<1>. HIDE DEF b
<1>3. Answered(b, server, id, off, a)
  BY <1>1, AnswerSound
<1>4. success /\ own => off = Withdrawal(b, name, group)
  OBVIOUS
<1>. HIDE DEF a, off
<1>. QED
  BY <1>1, <1>2, <1>3, <1>4 DEF Answered, Kept, IdsOwed, OwedIds, b

LEMMA AcceptStep ==
    ASSUME IInv, NEW id \in Ids, NEW name \in Names, Accept(id, name)
    PROVE  /\ Kept /\ Types' /\ Accounted' /\ bridge'.registered \subseteq bridge.registered
           /\ server'.names \cap Withdrawal(Opened(id, name), name, GroupOf(name)) = {}
<1>. DEFINE yes == TRUE
<1>1. /\ New(id) /\ Take(Answer(Opened(id, name), server, id, name, yes, GroupOf(name), yes))
      /\ job' = [id |-> id, screen |-> game.screen, phase |-> "staged"]
      /\ accepted' = accepted \cup {id}
      /\ UNCHANGED <<game, paused, used, denied, ran>>
  BY DEF Accept
<1>2. GroupOf(name) \in SUBSET Names /\ yes \in BOOLEAN /\ yes
  BY NamesFact DEF GroupOf
<1>. HIDE DEF yes
<1>3. /\ Kept
      /\ bridge'.answered = bridge.answered \cup {id} /\ OwedIds' \subseteq OwedIds \cup {id}
      /\ bridge'.registered \subseteq bridge.registered
      /\ server'.names \cap Withdrawal(Opened(id, name), name, GroupOf(name)) = {}
  BY <1>1, <1>2, NewAnswer
<1>4. /\ Types /\ Accounted /\ game.screen \in Screens
      /\ id \notin used \cup bridge.answered \cup OwedIds
  BY Parts, <1>1, SituationsAssumption DEF Types, Screens, New
<1>5. job' \in Job /\ job'.id = id
  BY <1>1, <1>4 DEF Job
<1>6. bridge' \in Tables /\ server' \in Server
  BY <1>3 DEF Kept, Sound
<1>7. Types'
  BY <1>1, <1>4, <1>5, <1>6 DEF Types
<1>8. Accounted'
  BY <1>1, <1>3, <1>4, <1>5 DEF Accounted
<1>. QED
  BY <1>3, <1>7, <1>8

LEMMA RefuseStep ==
    ASSUME IInv, NEW id \in Ids, NEW name \in Names, Refuse(id, name)
    PROVE  Kept /\ Types' /\ Accounted' /\ bridge'.registered \subseteq bridge.registered
<1>. DEFINE yes == TRUE
            none == {}
<1>1. PICK success \in Refusals(name) \cup {FALSE} :
          Take(Answer(Opened(id, name), server, id, name, success, none, yes))
  BY DEF Refuse
<1>2. success \in BOOLEAN /\ yes \in BOOLEAN /\ none \in SUBSET Names
  <2>1. Waits(name) \in BOOLEAN
    BY DEF Waits
  <2>. QED
    BY <2>1 DEF Refusals
<1>. HIDE DEF yes, none
<1>3. New(id) /\ denied' = denied \cup {id} /\ UNCHANGED <<game, paused, job, used, accepted, ran>>
  BY DEF Refuse
<1>4. /\ Kept
      /\ bridge'.answered = bridge.answered \cup {id} /\ OwedIds' \subseteq OwedIds \cup {id}
      /\ bridge'.registered \subseteq bridge.registered
  BY <1>1, <1>2, <1>3, NewAnswer
<1>5. Types /\ Accounted /\ id \notin used \cup bridge.answered \cup OwedIds
  BY Parts, <1>3 DEF New
<1>6. bridge' \in Tables /\ server' \in Server
  BY <1>4 DEF Kept, Sound
<1>7. Types' /\ Accounted'
  BY <1>3, <1>4, <1>5, <1>6 DEF Types, Accounted
<1>. QED
  BY <1>4, <1>7

LEMMA StallStep ==
    ASSUME IInv, NEW id \in Ids, NEW name \in Names, Stall(id, name)
    PROVE  Kept /\ Types' /\ Accounted' /\ bridge'.registered \subseteq bridge.registered
<1>1. /\ New(id) /\ bridge' = Opened(id, name)
      /\ UNCHANGED <<game, paused, server, job, used, accepted, denied, ran>>
  BY DEF Stall
<1>2. /\ Sound(bridge', server) /\ (Known(bridge, server) => Known(bridge', server))
      /\ bridge'.answered = bridge.answered /\ IdsOwed(bridge') = OwedIds \cup {id}
      /\ bridge'.registered = bridge.registered
  BY <1>1, OpenedSound
<1>3. Types /\ Accounted /\ id \notin used
  BY Parts, <1>1 DEF New
<1>4. bridge' \in Tables
  BY <1>2 DEF Sound
<1>5. Types' /\ Accounted'
  BY <1>1, <1>2, <1>3, <1>4 DEF Types, Accounted, IdsOwed, OwedIds
<1>. QED
  BY <1>1, <1>2, <1>5 DEF Kept

LEMMA PayOwedStep ==
    ASSUME IInv, NEW o \in bridge.owed, PayOwed(o)
    PROVE  Kept /\ Types' /\ Accounted' /\ bridge'.registered \subseteq bridge.registered
<1>. DEFINE yes == TRUE
            none == {}
            a == Answer(bridge, server, o.id, o.name, yes, none, o.own)
<1>1. /\ bridge' = a.b /\ server' = a.s /\ denied' = denied \cup {o.id}
      /\ UNCHANGED <<game, paused, job, used, accepted, ran>>
  BY DEF PayOwed, Take
<1>2. yes \in BOOLEAN /\ none \in SUBSET Names
  OBVIOUS
<1>. HIDE DEF yes, none
<1>3. Types /\ Sound(bridge, server) /\ Accounted
  BY Parts
<1>4. o.id \in Ids /\ o.name \in Names /\ o.own \in BOOLEAN
  <2>1. o \in Owed
    BY <1>3 DEF Types, Tables
  <2>. QED
    BY <2>1 DEF Owed
<1>5. o.id \in OwedIds /\ o.id \notin bridge.answered /\ o.id \notin used
  BY <1>3 DEF Sound, OwedOnce, OwedIds, Accounted
<1>6. /\ Sound(a.b, a.s) /\ (Known(bridge, server) => Known(a.b, a.s))
      /\ a.b.answered = bridge.answered \cup {o.id} /\ IdsOwed(a.b) \subseteq IdsOwed(bridge)
      /\ a.b.registered \subseteq bridge.registered
  <2>. DEFINE off == IF yes /\ o.own THEN Withdrawal(bridge, o.name, none) ELSE {}
  <2>1. Answered(bridge, server, o.id, off, a)
    BY <1>2, <1>3, <1>4, AnswerSound
  <2>. HIDE DEF a, off
  <2>. QED
    BY <2>1 DEF Answered
<1>. HIDE DEF a
<1>7. bridge' \in Tables /\ server' \in Server /\ Kept
  BY <1>1, <1>6 DEF Kept, Sound
<1>8. Types'
  BY <1>1, <1>3, <1>4, <1>7 DEF Types
<1>9. Accounted'
  BY <1>1, <1>3, <1>5, <1>6 DEF Accounted, IdsOwed, OwedIds
<1>. QED
  BY <1>1, <1>6, <1>7, <1>8, <1>9

LEMMA ReconnectStep ==
    ASSUME IInv, Reconnect
    PROVE  Sound(bridge', server') /\ Known(bridge', server') /\ Types' /\ Accounted'
<1>. DEFINE f == Fresh(bridge)
            t == [names |-> {}, force |-> {}]
<1>1. /\ Types /\ Sound(bridge, server) /\ Accounted /\ TypeOK
      /\ TryCatalogue(f, t) /\ job' = None /\ used' = used \cup bridge.answered \cup OwedIds
      /\ UNCHANGED <<game, paused, accepted, denied, ran>>
  BY Parts DEF Reconnect, IInv
<1>2. Sound(f, t) /\ Known(f, t) /\ f.answered = {} /\ IdsOwed(f) = {}
  BY <1>1, FreshSound
<1>. HIDE DEF f, t
<1>3. /\ Sound(bridge', server') /\ Known(bridge', server')
      /\ bridge'.answered = {} /\ IdsOwed(bridge') = {}
  BY <1>1, <1>2, TryCatalogueSound DEF SameIds
<1>4. OwedIds \subseteq Ids /\ bridge.answered \subseteq Ids
  BY <1>1 DEF Types, Tables, Owed, OwedIds
<1>5. bridge' \in Tables /\ server' \in Server
  BY <1>3 DEF Sound
<1>6. Types'
  BY <1>1, <1>4, <1>5 DEF Types
<1>7. Accounted'
  BY <1>1, <1>3 DEF Accounted, IdsOwed, OwedIds
<1>. QED
  BY <1>3, <1>6, <1>7

LEMMA RetryStep ==
    ASSUME IInv, RetryCatalogue
    PROVE  /\ Kept /\ SameIds(bridge, bridge') /\ bridge'.window = bridge.window
           /\ bridge'.heldOn = CatalogueScreen(bridge, game)
           /\ \A n \in bridge'.registered :
                  n \in bridge.registered \/ n \notin Held(bridge, game)
                      \/ n \in Offered(bridge, {})
BY TryCatalogueSound, Parts DEF RetryCatalogue, Kept, IInv

(* The frames of the handlers that answer nothing.                          *)
LEMMA QuietStep ==
    ASSUME IInv, Kept \/ UNCHANGED <<bridge, server>>, SameIds(bridge, bridge'),
           game' \in Situations, paused' \in BOOLEAN,
           UNCHANGED <<used, accepted, denied, ran>>, job' \in {job, None}
    PROVE  Sound(bridge', server') /\ Types' /\ Accounted'
<1>1. Types /\ Sound(bridge, server) /\ Accounted
  BY Parts
<1>2. Sound(bridge', server')
  BY <1>1 DEF Kept
<1>3. bridge' \in Tables /\ server' \in Server
  BY <1>2 DEF Sound
<1>4. Types'
  BY <1>1, <1>3 DEF Types
<1>. QED
  BY <1>1, <1>2, <1>4, AccountKept DEF Accounted, SameIds, IdsOwed, OwedIds

LEMMA JobStepKeeps ==
    ASSUME IInv, JobStep
    PROVE  Sound(bridge', server') /\ Types' /\ Accounted' /\ UNCHANGED <<bridge, server>>
<1>. Types /\ Sound(bridge, server) /\ Accounted
  BY Parts
<1>1. CASE RunJob
  <2>1. /\ job \in Job /\ ran' = ran \cup {job.id} /\ UNCHANGED <<bridge, server>>
        /\ job' \in {None, [job EXCEPT !.phase = "verifying"]}
        /\ UNCHANGED <<game, paused, used, accepted, denied>>
    BY <1>1 DEF RunJob, Types
  <2>2. /\ job.id \in Ids /\ [job EXCEPT !.phase = "verifying"] \in Job
        /\ [job EXCEPT !.phase = "verifying"].id = job.id
    BY <2>1 DEF Job
  <2>3. Types'
    BY <2>1, <2>2 DEF Types
  <2>4. job # None
    BY <1>1 DEF RunJob
  <2>5. Accounted'
    BY <2>1, <2>2, <2>4 DEF Accounted, OwedIds
  <2>. QED
    BY <2>1, <2>3, <2>5
<1>2. CASE EndJob
  BY <1>2, QuietStep, SameIdsSelf DEF EndJob, Types
<1>. QED
  BY <1>1, <1>2 DEF JobStep, EndJob

LEMMA InvariantStep ==
    ASSUME IInv, [Next]_vars
    PROVE  /\ IInv'
           /\ Known(bridge, server) => Known(bridge', server')
<1>. DEFINE Goal == /\ Sound(bridge', server') /\ Types' /\ Accounted'
                    /\ Known(bridge, server) => Known(bridge', server')
<1>. SUFFICES Goal
  <2>1. Goal => TypeOK'
    BY DEF TypeOK, Types, Sound, OwedOnce
  <2>. QED
    BY <2>1 DEF IInv
<1>. Types /\ Sound(bridge, server) /\ Accounted
  BY Parts
<1>q. ASSUME Kept \/ UNCHANGED <<bridge, server>>, SameIds(bridge, bridge'),
             game' \in Situations, paused' \in BOOLEAN,
             UNCHANGED <<used, accepted, denied, ran>>, job' \in {job, None}
      PROVE  Goal
  BY <1>q, QuietStep DEF Kept
<1>1. CASE GameMoves \/ Pause \/ UNCHANGED vars
  BY <1>1, <1>q, SameIdsSelf DEF GameMoves, Pause, vars, Types
<1>2. CASE Frame
  <2>1. CASE Arm
    <3>1. Kept /\ SameIds(bridge, bridge')
      BY <2>1, ArmStep
    <3>. QED
      BY <1>q, <2>1, <3>1 DEF Arm, Types
  <2>2. CASE StepWindow
    <3>1. Kept /\ SameIds(bridge, bridge')
      BY <2>2, WithdrawStep DEF StepWindow
    <3>. QED
      BY <1>q, <2>2, <3>1 DEF StepWindow, Types
  <2>. QED
    BY <1>2, <2>1, <2>2 DEF Frame
<1>3. CASE Receive
  BY <1>3, AcceptStep, RefuseStep, StallStep DEF Receive, Kept
<1>4. CASE Pay
  BY <1>4, PayOwedStep DEF Pay, Kept
<1>5. CASE JobStep
  BY <1>5, JobStepKeeps
<1>6. CASE RunReset
  <2>1. Kept /\ SameIds(bridge, bridge')
    BY <1>6, WithdrawStep DEF RunReset
  <2>. QED
    BY <1>q, <1>6, <2>1 DEF RunReset, Types
<1>7. CASE Reconnect
  BY <1>7, ReconnectStep
<1>8. CASE RetryCatalogue
  <2>1. Kept /\ SameIds(bridge, bridge')
    BY <1>8, RetryStep
  <2>. QED
    BY <1>q, <1>8, <2>1 DEF RetryCatalogue, Types
<1>9. CASE Supersede
  <2>1. Kept /\ SameIds(bridge, bridge')
    BY <1>9, WithdrawStep DEF Supersede
  <2>. QED
    BY <1>q, <1>9, <2>1 DEF Supersede, Types
<1>. QED
  BY <1>1, <1>2, <1>3, <1>4, <1>5, <1>6, <1>7, <1>8, <1>9 DEF Next

LEMMA InitInvariant == Init => IInv /\ Known(bridge, server)
<1>. SUFFICES ASSUME Init PROVE IInv /\ Known(bridge, server)
  OBVIOUS
<1>1. bridge \in Tables /\ server \in Server
  BY BoundAssumption DEF Init, Tables, Server, Screens
<1>2. bridge.owed = {} /\ bridge.window = None /\ bridge.registered = {} /\ bridge.answered = {}
  BY DEF Init
<1>3. server.names = {} /\ server.force = {}
  BY DEF Init
<1>4. Types
  BY <1>1 DEF Init, Types
<1>5. Sound(bridge, server) /\ Known(bridge, server)
  BY <1>1, <1>2, <1>3 DEF Sound, OwedOnce, Exact, Offering, Known
<1>6. Accounted
  BY <1>2 DEF Init, Accounted, OwedIds
<1>. QED
  BY <1>4, <1>5, <1>6, Parts

LEMMA Invariant == Spec => []IInv
<1>1. IInv /\ [Next]_vars => IInv'
  BY InvariantStep
<1>. QED
  BY <1>1, InitInvariant, PTL DEF Spec

----------------------------------------------------------------------------
(* What the mod takes for registered is what the server has, over refused   *)
(* catalogues, withdrawals, answers and new connections (bridge.lua:510-544, *)
(* 604-675, window.lua:78-90).                                              *)
THEOREM ExactMirror == Spec => []MirrorExact
<1>1. IInv => MirrorExact
  BY DEF IInv, MirrorExact, Sound, Exact
<1>. QED
  BY <1>1, Invariant, PTL

(* What was refused, or reported as never executed, is never executed, and  *)
(* nothing is executed that was not reported accepted (execute.lua:431-443, *)
(* bridge.lua:768-789).                                                     *)
THEOREM TruthfulAnswers == Spec => []Truthful
<1>1. IInv => Truthful
  BY DEF IInv, Truthful, Accounted
<1>. QED
  BY <1>1, Invariant, PTL

(* The mod knows of every force open at the server, so that the lock of     *)
(* bridge.lua:487 keeps the next one back (window.lua:78-106).              *)
THEOREM NoForceUnknown == Spec => []NoOverlap
<1>1. Known(bridge, server) <=> NoOverlap
  BY DEF Known, NoOverlap
<1>2. Init => IInv /\ NoOverlap
  BY <1>1, InitInvariant
<1>3. IInv /\ NoOverlap /\ [Next]_vars => (IInv /\ NoOverlap)'
  <2>. SUFFICES ASSUME IInv, NoOverlap, [Next]_vars PROVE IInv' /\ NoOverlap'
    OBVIOUS
  <2>1. IInv' /\ Known(bridge', server')
    BY <1>1, InvariantStep
  <2>. QED
    BY <2>1 DEF Known, NoOverlap
<1>. QED
  BY <1>2, <1>3, PTL DEF Spec

(* The result that accepts a disposable action finds its group and the      *)
(* disposables of the open force off, and only a force that offers it, a    *)
(* change of screen or a new connection brings a name back (window.lua:93,  *)
(* 161-165).                                                                *)
THEOREM OffForGood == Spec => WithdrawnForGood
<1>. DEFINE Pays == \A id \in Ids, n \in Disposable :
                Accept(id, n) /\ accepted' # accepted =>
                    server'.names \cap
                        (Group[n] \cup IF bridge.window = None THEN {}
                                       ELSE bridge.window.names \cap Disposable) = {}
            Stays == \A n \in bridge.held \ bridge.registered :
                n \in bridge'.registered =>
                    \/ bridge'.heldOn # bridge.heldOn
                    \/ bridge'.window # None /\ n \in bridge'.window.names
                    \/ Arm /\ bridge'.window = None
                    \/ Reconnect
<1>1. ASSUME IInv, NEW id \in Ids, NEW n \in Disposable, Accept(id, n), accepted' # accepted
      PROVE  server'.names \cap
                 (Group[n] \cup IF bridge.window = None THEN {}
                                ELSE bridge.window.names \cap Disposable) = {}
  <2>. DEFINE b == Opened(id, n)
  <2>1. n \in Names /\ GroupOf(n) = Group[n] /\ Group[n] \in SUBSET Names
    BY NamesFact DEF GroupOf
  <2>2. server'.names \cap Withdrawal(b, n, Group[n]) = {}
    BY <1>1, <2>1, AcceptStep
  <2>3. Sound(b, server) /\ b.window = bridge.window
    BY <1>1, <2>1, OpenedSound DEF Accept
  <2>. HIDE DEF b
  <2>4. /\ Group[n] \subseteq Withdrawal(b, n, Group[n])
        /\ b.window # None => b.window.names \cap Disposable \subseteq Withdrawal(b, n, Group[n])
    BY <2>1, <2>3, WithdrawalFact
  <2>. QED
    BY <2>2, <2>3, <2>4
<1>2. ASSUME IInv, [Next]_vars, NEW n \in bridge.held \ bridge.registered, n \in bridge'.registered
      PROVE  \/ bridge'.heldOn # bridge.heldOn
             \/ bridge'.window # None /\ n \in bridge'.window.names
             \/ Arm /\ bridge'.window = None
             \/ Reconnect
  <2>1. ASSUME bridge'.registered \subseteq bridge.registered
        PROVE  FALSE
    BY <1>2, <2>1
  <2>2. ASSUME bridge' = bridge
        PROVE  FALSE
    BY <1>2, <2>2
  <2>3. CASE GameMoves \/ Pause \/ JobStep \/ UNCHANGED vars
    BY <2>2, <2>3 DEF GameMoves, Pause, JobStep, RunJob, EndJob, vars
  <2>4. CASE StepWindow \/ Supersede
    BY <1>2, <2>1, <2>4, WithdrawStep DEF StepWindow, Supersede
  <2>5. CASE Receive \/ Pay \/ RunReset
    BY <1>2, <2>1, <2>5, AcceptStep, RefuseStep, StallStep, PayOwedStep, WithdrawStep
       DEF Receive, Pay, RunReset
  <2>6. CASE Arm
    <3>1. PICK offer \in SUBSET Names :
             /\ bridge'.window # None => bridge'.window.names = offer
             /\ bridge'.heldOn = CatalogueScreen(bridge, game)
             /\ \A m \in bridge'.registered :
                   m \in bridge.registered \/ m \notin Held(bridge, game) \/ m \in offer
      BY <1>2, <2>6, ArmStep
    <3>. QED
      BY <1>2, <2>6, <3>1 DEF Held
  <2>7. CASE RetryCatalogue
    <3>1. /\ bridge'.window = bridge.window
          /\ bridge'.heldOn = CatalogueScreen(bridge, game)
          /\ n \in bridge.registered \/ n \notin Held(bridge, game) \/ n \in Offered(bridge, {})
      BY <1>2, <2>7, RetryStep
    <3>. QED
      BY <1>2, <3>1 DEF Held, Offered
  <2>. QED
    BY <1>2, <2>3, <2>4, <2>5, <2>6, <2>7 DEF Next, Frame
<1>3. IInv /\ [Next]_vars => [Pays /\ Stays]_vars
  BY <1>1, <1>2
<1>. QED
  BY <1>3, Invariant, PTL DEF Spec, WithdrawnForGood
==============================================================================
