------------------------ MODULE ContextDeliveryProofs ------------------------
(***************************************************************************)
(* Nothing is told twice and no force goes out before its rules, for every *)
(* set of events and antes and every bound on memory, queue and attempts.  *)
(***************************************************************************)
EXTENDS ContextDelivery, NumberFacts, SequenceTheorems

(* The memory, class by class *)

Entry == [id : Contexts, attempts : 0 .. MaxAttempts - 1]

LEMMA MemoryFact ==
    /\ Classes = {"rule", "transient"} /\ Never \in Nat
    /\ \A c \in Classes : Memory[c] \in Nat /\ 0 < Memory[c] /\ Memory[c] < Never
<1>1. MaxRules \in Nat \ {0} /\ MaxTransient \in Nat \ {0}
  BY BoundsAssumption
<1>2. Classes = {"rule", "transient"} /\ Memory["rule"] = MaxRules /\ Memory["transient"] = MaxTransient
  BY DEF Classes, Memory
<1>. QED
  BY <1>1, <1>2 DEF Never

LEMMA ContextFact ==
    /\ \A id \in Contexts : Class(id) \in Classes \cup {"none"} /\ (Essential(id) <=> Class(id) \notin Classes)
    /\ \A s \in Scopes : /\ Guide(s) \in Contexts /\ Essential(Guide(s))
                         /\ Glossary(s) \in Contexts /\ ~ Essential(Glossary(s))
    /\ \A e \in Events : Event(e) \in Contexts /\ ~ Essential(Event(e))
    /\ \A id \in Contexts : Essential(id) => \E s \in Scopes : id = Guide(s)
<1>1. Classes = {"rule", "transient"}
  BY MemoryFact
<1>2. \A s \in Scopes : Guide(s) \in Contexts /\ Class(Guide(s)) = "none"
  BY DEF Guide, Contexts, Class
<1>3. \A s \in Scopes : Glossary(s) \in Contexts /\ Class(Glossary(s)) = "rule"
  BY DEF Glossary, Contexts, Class
<1>4. \A e \in Events : Event(e) \in Contexts /\ Class(Event(e)) = "transient"
  BY DEF Event, Contexts, Class
<1>5. \A id \in Contexts : \/ \E s \in Scopes : id = Guide(s)
                           \/ \E s \in Scopes : id = Glossary(s)
                           \/ \E e \in Events : id = Event(e)
  BY DEF Contexts
<1>6. "none" \notin Classes /\ "rule" # "none" /\ "transient" # "none"
  BY <1>1
<1>. QED
  BY <1>1, <1>2, <1>3, <1>4, <1>5, <1>6, Zenon DEF Essential

(* What is true of the tables between two calls: a context waits once, not  *)
(* after it was accepted; an order holds the last contexts of its class     *)
(* that were accepted, the oldest first; and delivered is what the orders  *)
(* hold and the guides.                                                    *)
Waiting(pending, delivered) ==
    /\ \A m, n \in DOMAIN pending : pending[m].id = pending[n].id => m = n
    /\ \A n \in DOMAIN pending : pending[n].id \notin delivered

Aged(orders, age) ==
    \A c \in Classes :
        /\ Len(orders[c]) <= Memory[c]
        /\ \A n \in DOMAIN orders[c] :
              Class(orders[c][n]) = c /\ age[orders[c][n]] = Len(orders[c]) - n

Known(orders, age) ==
    \A id \in Contexts : ~ Essential(id) /\ age[id] < Memory[Class(id)] =>
        \E n \in DOMAIN orders[Class(id)] : orders[Class(id)][n] = id

InOrder(orders, id) == \E n \in DOMAIN orders[Class(id)] : orders[Class(id)][n] = id

Retained(delivered, orders, age) ==
    \A id \in Contexts :
        id \in delivered <=> IF Essential(id) THEN age[id] # Never ELSE InOrder(orders, id)

Memorised(D, orders, age) ==
    /\ D \in SUBSET Contexts /\ orders \in [Classes -> Seq(Contexts)] /\ age \in [Contexts -> 0 .. Never]
    /\ Aged(orders, age) /\ Known(orders, age) /\ Retained(D, orders, age)

Guided(guided, age) == guided => \E t \in Scopes : age[Guide(t)] # Never

Good(d) ==
    /\ d \in Tables /\ Waiting(d.pending, d.delivered) /\ Memorised(d.delivered, d.orders, d.age)
    /\ Guided(d.guided, d.age) /\ d.twice = {}

(* Nothing that was told becomes untold.                                    *)
Keeps(age, older) == \A id \in Contexts : age[id] # Never => older[id] # Never

Better(d, e) == Good(e) /\ Keeps(d.age, e.age)

IInv == TypeOK /\ Good(ctx) /\ RulesFirst

(* The queue of what waits *)

LEMMA RemovedFact ==
    ASSUME NEW p \in Seq(Entry), NEW i \in DOMAIN p
    PROVE  /\ RemoveAt(p, i) \in Seq(Entry)
           /\ DOMAIN RemoveAt(p, i) = 1 .. Len(p) - 1
           /\ \A n \in 1 .. Len(p) - 1 : RemoveAt(p, i)[n] = p[IF n < i THEN n ELSE n + 1]
<1>. DEFINE a == SubSeq(p, 1, i - 1)
            b == SubSeq(p, i + 1, Len(p))
<1>1. Len(p) \in Nat /\ DOMAIN p = 1 .. Len(p) /\ i \in 1 .. Len(p)
  BY LenProperties
<1>2. \A n \in 1 .. Len(p) : p[n] \in Entry
  BY <1>1, ElementOfSeq
<1>3. /\ a \in Seq(Entry) /\ Len(a) = i - 1
      /\ \A n \in 1 .. i - 1 : a[n] = p[n]
  <2>1. 1 \in Int /\ i - 1 \in Int /\ \A n \in 1 .. i - 1 : p[n] \in Entry
    BY <1>1, <1>2
  <2>. HIDE DEF a
  <2>2. /\ a \in Seq(Entry) /\ Len(a) = IF 1 <= i - 1 THEN (i - 1) - 1 + 1 ELSE 0
        /\ \A n \in 1 .. (i - 1) - 1 + 1 : a[n] = p[1 + n - 1]
    BY <2>1, SubSeqProperties DEF a
  <2>. QED
    BY <1>1, <2>2
<1>4. /\ b \in Seq(Entry) /\ Len(b) = Len(p) - i
      /\ \A n \in 1 .. Len(p) - i : b[n] = p[i + n]
  <2>0. i + 1 \in Int /\ Len(p) \in Int
    BY <1>1
  <2>. PICK m \in Int, k \in Int : m = i + 1 /\ k = Len(p)
    BY <2>0, Zenon
  <2>1. \A n \in m .. k : p[n] \in Entry
    BY <1>1, <1>2
  <2>. HIDE DEF b
  <2>2. b = SubSeq(p, m, k)
    BY DEF b
  <2>3. /\ b \in Seq(Entry) /\ Len(b) = IF m <= k THEN k - m + 1 ELSE 0
        /\ \A n \in 1 .. k - m + 1 : b[n] = p[m + n - 1]
    BY <2>1, <2>2, SubSeqProperties
  <2>4. k - m + 1 = Len(p) - i /\ (m <= k \/ Len(p) - i = 0) /\ \A n \in 1 .. Len(p) - i : m + n - 1 = i + n
    BY <1>1
  <2>. QED
    BY <2>3, <2>4
<1>5. RemoveAt(p, i) = a \o b
  BY DEF RemoveAt
<1>. HIDE DEF a, b
<1>6. /\ a \o b \in Seq(Entry) /\ Len(a \o b) = Len(a) + Len(b)
      /\ \A n \in 1 .. Len(a) + Len(b) : (a \o b)[n] = IF n <= Len(a) THEN a[n] ELSE b[n - Len(a)]
  BY <1>3, <1>4, ConcatProperties
<1>. DEFINE r == a \o b
<1>. HIDE DEF r
<1>7. r \in Seq(Entry) /\ Len(r) = Len(p) - 1 /\ DOMAIN r = 1 .. Len(p) - 1
  <2>1. r \in Seq(Entry) /\ Len(r) = Len(p) - 1
    BY <1>1, <1>3, <1>4, <1>6 DEF r
  <2>. QED
    BY <2>1, LenProperties
<1>8. ASSUME NEW n \in 1 .. Len(p) - 1
      PROVE  r[n] = p[IF n < i THEN n ELSE n + 1]
  <2>0. r[n] = IF n <= i - 1 THEN a[n] ELSE b[n - (i - 1)]
    <3>1. n \in 1 .. Len(a) + Len(b)
      BY <1>1, <1>3, <1>4
    <3>. QED
      BY <1>3, <1>6, <3>1 DEF r
  <2>1. CASE n < i
    <3>1. n \in 1 .. i - 1 /\ n <= i - 1
      BY <1>1, <2>1
    <3>. QED
      BY <1>3, <2>0, <2>1, <3>1
  <2>2. CASE ~ (n < i)
    <3>1. ~ (n <= i - 1) /\ n - (i - 1) \in 1 .. Len(p) - i /\ i + (n - (i - 1)) = n + 1
      BY <1>1, <2>2
    <3>. QED
      BY <1>4, <2>0, <2>2, <3>1
  <2>. QED
    BY <2>1, <2>2
<1>. QED
  BY <1>5, <1>7, <1>8 DEF r

(* What is taken out waits no longer, and the others wait as they did.      *)
LEMMA RemovedWaiting ==
    ASSUME NEW p \in Seq(Entry), NEW D, Waiting(p, D), NEW i \in DOMAIN p
    PROVE  /\ RemoveAt(p, i) \in Seq(Entry) /\ Waiting(RemoveAt(p, i), D)
           /\ \A n \in DOMAIN RemoveAt(p, i) : RemoveAt(p, i)[n].id # p[i].id
<1>. DEFINE r == RemoveAt(p, i)
            From(n) == IF n < i THEN n ELSE n + 1
<1>1. Len(p) \in Nat /\ DOMAIN p = 1 .. Len(p) /\ i \in 1 .. Len(p)
  BY LenProperties
<1>2. r \in Seq(Entry) /\ DOMAIN r = 1 .. Len(p) - 1 /\ \A n \in DOMAIN r : r[n] = p[From(n)]
  BY RemovedFact
<1>3. \A n \in DOMAIN r : From(n) \in DOMAIN p /\ From(n) # i
  BY <1>1, <1>2
<1>4. \A m, n \in DOMAIN r : From(m) = From(n) => m = n
  BY <1>1, <1>2
<1>. HIDE DEF r, From
<1>5. \A m, n \in DOMAIN r : r[m].id = r[n].id => m = n
  <2>. TAKE m, n \in DOMAIN r
  <2>1. /\ r[m] = p[From(m)] /\ From(m) \in DOMAIN p
        /\ r[n] = p[From(n)] /\ From(n) \in DOMAIN p
    BY <1>2, <1>3, Zenon
  <2>2. r[m].id = r[n].id => From(m) = From(n)
    BY <2>1, Zenon DEF Waiting
  <2>. QED
    BY <1>4, <2>2, Zenon
<1>6. \A n \in DOMAIN r : r[n].id \notin D /\ r[n].id # p[i].id
  BY <1>2, <1>3, Zenon DEF Waiting
<1>. QED
  BY <1>2, <1>5, <1>6, Zenon DEF r, Waiting

LEMMA AddedWaiting ==
    ASSUME NEW p \in Seq(Entry), NEW D, Waiting(p, D), NEW e \in Entry,
           \A n \in DOMAIN p : p[n].id # e.id, e.id \notin D
    PROVE  Append(p, e) \in Seq(Entry) /\ Waiting(Append(p, e), D)
<1>. DEFINE r == Append(p, e)
<1>1. Len(p) \in Nat /\ DOMAIN p = 1 .. Len(p)
  BY LenProperties
<1>2. r \in Seq(Entry) /\ Len(r) = Len(p) + 1 /\ (\A n \in 1 .. Len(p) : r[n] = p[n]) /\ r[Len(p) + 1] = e
  BY AppendProperties
<1>3. DOMAIN r = 1 .. Len(p) + 1
  BY <1>2, LenProperties
<1>. HIDE DEF r
<1>4. \A n \in DOMAIN r : (n \in DOMAIN p /\ r[n] = p[n]) \/ (n = Len(p) + 1 /\ r[n] = e)
  <2>1. \A n \in 1 .. Len(p) + 1 : n \in 1 .. Len(p) \/ n = Len(p) + 1
    BY <1>1
  <2>. QED
    BY <1>1, <1>2, <1>3, <2>1
<1>5. \A m, n \in DOMAIN r : r[m].id = r[n].id => m = n
  BY <1>4, Zenon DEF Waiting
<1>6. \A n \in DOMAIN r : r[n].id \notin D
  BY <1>4, Zenon DEF Waiting
<1>. QED
  BY <1>2, <1>5, <1>6, Zenon DEF r, Waiting

(* The entries may be counted anew: it is their contexts that matter.       *)
LEMMA SameWaiting ==
    ASSUME NEW p \in Seq(Entry), NEW q \in Seq(Entry), NEW D, Waiting(p, D), DOMAIN q = DOMAIN p,
           \A n \in DOMAIN p : q[n].id = p[n].id
    PROVE  Waiting(q, D)
  BY Zenon DEF Waiting

LEMMA PlaceFact ==
    ASSUME NEW d, NEW id, Pending(d, id)
    PROVE  Place(d, id) \in DOMAIN d.pending /\ d.pending[Place(d, id)].id = id
  BY Zenon DEF Pending, Place

(* remember: the order takes the context at its end, and drops the oldest   *)
(* one, none of the memory or one, when it was full.                        *)
LEMMA OrderFact ==
    ASSUME NEW o \in Seq(Contexts), NEW id \in Contexts, NEW M \in Nat, 0 < M, Len(o) <= M,
           NEW over \in BOOLEAN, over <=> Len(Append(o, id)) > M,
           NEW q, q = IF over THEN Tail(Append(o, id)) ELSE Append(o, id)
    PROVE  \E k \in {0, 1} :
              /\ over <=> k = 1
              /\ k = 1 => Len(o) = M /\ Head(Append(o, id)) = o[1]
              /\ k = 0 => Len(o) < M
              /\ q \in Seq(Contexts) /\ Len(q) = Len(o) + 1 - k /\ DOMAIN q = 1 .. Len(o) + 1 - k
              /\ \A n \in DOMAIN q : q[n] = IF n + k = Len(o) + 1 THEN id ELSE o[n + k]
<1>. DEFINE all == Append(o, id)
<1>1. Len(o) \in Nat /\ DOMAIN o = 1 .. Len(o)
  BY LenProperties
<1>2. /\ all \in Seq(Contexts) /\ all # <<>> /\ Len(all) = Len(o) + 1
      /\ (\A n \in 1 .. Len(o) : all[n] = o[n]) /\ all[Len(o) + 1] = id
  BY AppendProperties
<1>h. q = (IF over THEN Tail(all) ELSE all) /\ (over <=> Len(all) > M)
  OBVIOUS
<1>. HIDE DEF all
<1>3. \A n \in 1 .. Len(o) + 1 : all[n] = IF n = Len(o) + 1 THEN id ELSE o[n]
  BY <1>1, <1>2
<1>4. CASE over
  <2>1. Len(o) = M /\ q = Tail(all)
    <3>1. q = Tail(all) /\ Len(all) > M
      BY <1>4, <1>h, Zenon
    <3>2. \A a \in Nat : a <= M /\ a + 1 > M => a = M
      OBVIOUS
    <3>. QED
      BY <1>1, <1>2, <3>1, <3>2
  <2>2. /\ Tail(all) \in Seq(Contexts) /\ Len(Tail(all)) = Len(all) - 1
        /\ \A n \in 1 .. Len(Tail(all)) : Tail(all)[n] = all[n + 1]
    BY <1>2, HeadTailProperties
  <2>3. q \in Seq(Contexts) /\ Len(q) = Len(o) /\ DOMAIN q = 1 .. Len(o) + 1 - 1 /\ Len(o) + 1 - 1 = Len(o)
    <3>1. q \in Seq(Contexts) /\ Len(q) = Len(o)
      BY <1>1, <1>2, <2>1, <2>2
    <3>2. DOMAIN q = 1 .. Len(q)
      BY <3>1, LenProperties
    <3>3. Len(o) + 1 - 1 = Len(o)
      BY <1>1
    <3>. QED
      BY <3>1, <3>2, <3>3, Zenon
  <2>4. \A n \in 1 .. Len(o) : q[n] = all[n + 1] /\ n + 1 \in 1 .. Len(o) + 1
    BY <1>1, <1>2, <2>1, <2>2
  <2>5. \A n \in DOMAIN q : q[n] = IF n + 1 = Len(o) + 1 THEN id ELSE o[n + 1]
    <3>1. \A n \in 1 .. Len(o) : q[n] = IF n + 1 = Len(o) + 1 THEN id ELSE o[n + 1]
      <4>. TAKE n \in 1 .. Len(o)
      <4>1. q[n] = all[n + 1] /\ n + 1 \in 1 .. Len(o) + 1
        BY <2>4, Zenon
      <4>2. all[n + 1] = IF n + 1 = Len(o) + 1 THEN id ELSE o[n + 1]
        BY <1>3, <4>1, Zenon
      <4>. QED
        BY <4>1, <4>2, Zenon
    <3>. QED
      BY <2>3, <3>1, Zenon
  <2>6. Head(all) = o[1]
    <3>1. o # <<>>
      BY <1>1, <2>1
    <3>2. Head(all) = IF o = <<>> THEN id ELSE Head(o)
      BY HeadTailAppend DEF all
    <3>. QED
      BY <3>1, <3>2
  <2>. QED
    BY <1>4, <2>1, <2>3, <2>5, <2>6 DEF all
<1>5. CASE ~ over
  <2>1. Len(o) < M /\ q = all
    BY <1>1, <1>2, <1>5, <1>h
  <2>2. Len(q) = Len(o) + 1 - 0 /\ DOMAIN q = 1 .. Len(o) + 1 - 0 /\ Len(o) + 1 - 0 = Len(o) + 1
    <3>1. Len(q) = Len(o) + 1 /\ q \in Seq(Contexts)
      BY <1>2, <2>1
    <3>. QED
      BY <1>1, <3>1, LenProperties
  <2>3. \A n \in DOMAIN q : q[n] = IF n + 0 = Len(o) + 1 THEN id ELSE o[n + 0]
    <3>1. \A n \in 1 .. Len(o) + 1 : n + 0 = n
      BY <1>1
    <3>. QED
      BY <1>3, <2>1, <2>2, <3>1
  <2>. QED
    BY <1>2, <1>5, <2>1, <2>2, <2>3
<1>. QED
  BY <1>4, <1>5

(* What is true of the memory of a class after it took a context that it did *)
(* not hold.                                                                *)
LEMMA OlderFact ==
    ASSUME NEW age \in [Contexts -> 0 .. Never], NEW id \in Contexts
    PROVE  LET older == Older(age, id)
           IN  /\ older \in [Contexts -> 0 .. Never] /\ older[id] = 0 /\ Never # 0
               /\ \A x \in Contexts \ {id} :
                     Essential(x) \/ Class(x) # Class(id) => older[x] = age[x]
               /\ \A x \in Contexts \ {id} :
                     ~ Essential(x) /\ Class(x) = Class(id) =>
                        older[x] = IF age[x] < Memory[Class(x)] THEN age[x] + 1 ELSE age[x]
               /\ Keeps(age, older)
<1>. DEFINE older == Older(age, id)
<1>1. Never \in Nat /\ Never # 0 /\ \A c \in Classes : Memory[c] \in Nat /\ Memory[c] < Never
  <2>1. Never \in Nat /\ \A c \in Classes : Memory[c] \in Nat /\ 0 < Memory[c] /\ Memory[c] < Never
    BY MemoryFact
  <2>2. "rule" \in Classes
    BY MemoryFact
  <2>. QED
    BY <2>1, <2>2
<1>2. \A x \in Contexts :
        /\ x = id => older[x] = 0
        /\ x # id /\ ~ Essential(x) /\ Class(x) = Class(id) /\ age[x] < Memory[Class(x)] => older[x] = age[x] + 1
        /\ x # id /\ ~ (~ Essential(x) /\ Class(x) = Class(id) /\ age[x] < Memory[Class(x)]) => older[x] = age[x]
  <2>. TAKE x \in Contexts
  <2>1. older[x] = CASE x = id -> 0
          [] x # id /\ ~ Essential(x) /\ Class(x) = Class(id) /\ age[x] < Memory[Class(x)] -> age[x] + 1
          [] OTHER -> age[x]
    BY DEF Older
  <2>. HIDE DEF older
  <2>. QED
    BY <2>1
<1>3. older = [x \in Contexts |-> older[x]]
  BY DEF Older
<1>. HIDE DEF older
<1>4. ASSUME NEW x \in Contexts
      PROVE  older[x] \in 0 .. Never /\ (age[x] # Never => older[x] # Never)
  <2>1. ~ Essential(x) => Memory[Class(x)] \in Nat /\ Memory[Class(x)] < Never
    <3>1. ~ Essential(x) => Class(x) \in Classes
      BY ContextFact
    <3>. QED
      BY <1>1, <3>1
  <2>2. age[x] \in 0 .. Never
    OBVIOUS
  <2>. QED
    BY <1>1, <1>2, <2>1, <2>2
<1>5. older \in [Contexts -> 0 .. Never] /\ Keeps(age, older)
  BY <1>3, <1>4 DEF Keeps
<1>6. \A x \in Contexts \ {id} :
         /\ Essential(x) \/ Class(x) # Class(id) => older[x] = age[x]
         /\ ~ Essential(x) /\ Class(x) = Class(id) =>
              older[x] = IF age[x] < Memory[Class(x)] THEN age[x] + 1 ELSE age[x]
  BY <1>2
<1>. QED
  BY <1>1, <1>2, <1>5, <1>6 DEF older

LEMMA ForgottenFact ==
    ASSUME NEW D, NEW orders, NEW age, Memorised(D, orders, age), NEW id \in Contexts, id \notin D
    PROVE  ~ Remembered(age, id)
<1>1. CASE Essential(id)
  BY <1>1, Zenon DEF Memorised, Retained, Remembered
<1>2. CASE ~ Essential(id)
  <2>1. ~ InOrder(orders, id)
    BY <1>2, Zenon DEF Memorised, Retained
  <2>2. ~ (age[id] < Memory[Class(id)])
    BY <1>2, <2>1, Zenon DEF Memorised, Known, InOrder
  <2>. QED
    BY <1>2, <2>2, Zenon DEF Remembered
<1>. QED
  BY <1>1, <1>2

LEMMA RememberEssential ==
    ASSUME NEW D, NEW orders, NEW age, Memorised(D, orders, age), NEW id \in Contexts, Essential(id)
    PROVE  LET m == Remember([delivered |-> D, orders |-> orders], id)
           IN  Memorised(m.delivered, m.orders, Older(age, id)) /\ m.delivered = D \cup {id}
<1>. DEFINE older == Older(age, id)
<1>1. /\ Remember([delivered |-> D, orders |-> orders], id).delivered = D \cup {id}
      /\ Remember([delivered |-> D, orders |-> orders], id).orders = orders
  BY DEF Remember
<1>2. age \in [Contexts -> 0 .. Never] /\ Never \in Nat
  BY MemoryFact DEF Memorised
<1>3. Class(id) \notin Classes
  BY ContextFact
<1>4. older \in [Contexts -> 0 .. Never] /\ older[id] = 0 /\ Never # 0
  BY <1>2, OlderFact
<1>5. \A x \in Contexts \ {id} : older[x] = age[x]
  <2>. TAKE x \in Contexts \ {id}
  <2>1. CASE Essential(x)
    BY <1>2, <2>1, OlderFact
  <2>2. CASE ~ Essential(x)
    <3>1. Class(x) \in Classes /\ Class(x) # Class(id)
      BY <1>3, <2>2, ContextFact
    <3>. QED
      BY <1>2, <3>1, OlderFact
  <2>. QED
    BY <2>1, <2>2
<1>. HIDE DEF older
<1>6. \A x \in Contexts : ~ Essential(x) => older[x] = age[x]
  BY <1>5
<1>7. Aged(orders, older)
  <2>. SUFFICES ASSUME NEW c \in Classes
                PROVE  /\ Len(orders[c]) <= Memory[c]
                       /\ \A n \in DOMAIN orders[c] :
                             Class(orders[c][n]) = c /\ older[orders[c][n]] = Len(orders[c]) - n
    BY DEF Aged
  <2>1. /\ Len(orders[c]) <= Memory[c]
        /\ \A n \in DOMAIN orders[c] :
              Class(orders[c][n]) = c /\ age[orders[c][n]] = Len(orders[c]) - n
    BY DEF Memorised, Aged
  <2>2. \A n \in DOMAIN orders[c] : orders[c][n] \in Contexts
    <3>1. orders[c] \in Seq(Contexts)
      BY DEF Memorised
    <3>. QED
      BY <3>1, ElementOfSeq, LenProperties
  <2>3. \A n \in DOMAIN orders[c] : ~ Essential(orders[c][n])
    BY <2>1, <2>2, ContextFact
  <2>. QED
    BY <1>6, <2>1, <2>2, <2>3
<1>8. Known(orders, older)
  BY <1>6, Zenon DEF Memorised, Known
<1>9. Retained(D \cup {id}, orders, older)
  <2>. SUFFICES ASSUME NEW x \in Contexts
                PROVE  x \in D \cup {id} <=> IF Essential(x) THEN older[x] # Never ELSE InOrder(orders, x)
    BY Zenon DEF Retained
  <2>1. x \in D <=> IF Essential(x) THEN age[x] # Never ELSE InOrder(orders, x)
    BY Zenon DEF Memorised, Retained
  <2>2. x # id => older[x] = age[x]
    BY <1>5
  <2>. QED
    BY <1>4, <2>1, <2>2
<1>10. D \cup {id} \in SUBSET Contexts /\ orders \in [Classes -> Seq(Contexts)]
  BY DEF Memorised
<1>. QED
  BY <1>1, <1>4, <1>7, <1>8, <1>9, <1>10, Zenon DEF Memorised, older

LEMMA RememberClass ==
    ASSUME NEW D, NEW orders, NEW age, Memorised(D, orders, age),
           NEW id \in Contexts, id \notin D, ~ Essential(id)
    PROVE  LET m == Remember([delivered |-> D, orders |-> orders], id)
           IN  Memorised(m.delivered, m.orders, Older(age, id)) /\ m.delivered \subseteq D \cup {id}
<1>. DEFINE c == Class(id)
            o == orders[c]
            M == Memory[c]
            all == Append(o, id)
            over == Len(all) > M
            q == IF over THEN Tail(all) ELSE all
            D2 == (D \cup {id}) \ (IF over THEN {Head(all)} ELSE {})
            orders2 == [orders EXCEPT ![c] = q]
            older == Older(age, id)
            m == Remember([delivered |-> D, orders |-> orders], id)
<1>1. m.delivered = D2 /\ m.orders = orders2
  BY DEF Remember
<1>2. c \in Classes /\ M \in Nat /\ 0 < M
  <2>1. c \in Classes
    BY ContextFact
  <2>. QED
    BY <2>1, MemoryFact
<1>3. /\ D \in SUBSET Contexts /\ orders \in [Classes -> Seq(Contexts)] /\ age \in [Contexts -> 0 .. Never]
      /\ o \in Seq(Contexts)
  BY <1>2 DEF Memorised
<1>4. Len(o) <= M /\ \A n \in DOMAIN o : Class(o[n]) = c /\ age[o[n]] = Len(o) - n
  BY <1>2 DEF Memorised, Aged
<1>5. PICK k \in {0, 1} :
         /\ over <=> k = 1
         /\ k = 1 => Len(o) = M /\ Head(all) = o[1]
         /\ k = 0 => Len(o) < M
         /\ q \in Seq(Contexts) /\ Len(q) = Len(o) + 1 - k /\ DOMAIN q = 1 .. Len(o) + 1 - k
         /\ \A n \in DOMAIN q : q[n] = IF n + k = Len(o) + 1 THEN id ELSE o[n + k]
  <2>1. over \in BOOLEAN /\ (over <=> Len(Append(o, id)) > M) /\ q = IF over THEN Tail(Append(o, id)) ELSE Append(o, id)
    OBVIOUS
  <2>. HIDE DEF q, over, o, M
  <2>2. Len(o) <= M
    BY <1>4
  <2>3. \E k \in {0, 1} :
         /\ over <=> k = 1
         /\ k = 1 => Len(o) = M /\ Head(Append(o, id)) = o[1]
         /\ k = 0 => Len(o) < M
         /\ q \in Seq(Contexts) /\ Len(q) = Len(o) + 1 - k /\ DOMAIN q = 1 .. Len(o) + 1 - k
         /\ \A n \in DOMAIN q : q[n] = IF n + k = Len(o) + 1 THEN id ELSE o[n + k]
    <3>1. o \in Seq(Contexts) /\ M \in Nat /\ 0 < M
      BY <1>2, <1>3
    <3>. QED
      BY <2>1, <2>2, <3>1, OrderFact
  <2>. QED
    BY <2>3
<1>6. Len(o) \in Nat /\ DOMAIN o = 1 .. Len(o) /\ \A n \in 1 .. Len(o) : o[n] \in Contexts /\ ~ Essential(o[n])
  <2>1. Len(o) \in Nat /\ DOMAIN o = 1 .. Len(o) /\ \A n \in 1 .. Len(o) : o[n] \in Contexts
    BY <1>3, LenProperties, ElementOfSeq
  <2>. QED
    BY <1>2, <1>4, <2>1, ContextFact
<1>7. ~ InOrder(orders, id)
  BY Zenon DEF Memorised, Retained
<1>8. \A n \in 1 .. Len(o) : o[n] # id
  BY <1>6, <1>7 DEF InOrder
<1>9. /\ older \in [Contexts -> 0 .. Never] /\ older[id] = 0
      /\ \A x \in Contexts \ {id} : Essential(x) \/ Class(x) # c => older[x] = age[x]
      /\ \A x \in Contexts \ {id} :
            ~ Essential(x) /\ Class(x) = c => older[x] = IF age[x] < M THEN age[x] + 1 ELSE age[x]
  <2>1. /\ older \in [Contexts -> 0 .. Never] /\ older[id] = 0
        /\ \A x \in Contexts \ {id} : Essential(x) \/ Class(x) # Class(id) => older[x] = age[x]
        /\ \A x \in Contexts \ {id} :
              ~ Essential(x) /\ Class(x) = Class(id) =>
                 older[x] = IF age[x] < Memory[Class(x)] THEN age[x] + 1 ELSE age[x]
    BY <1>3, OlderFact
  <2>. QED
    BY <2>1
<1>10. orders2 \in [Classes -> Seq(Contexts)] /\ orders2[c] = q /\ \A b \in Classes \ {c} : orders2[b] = orders[b]
  BY <1>2, <1>3, <1>5
<1>11. D2 = (D \cup {id}) \ (IF k = 1 THEN {o[1]} ELSE {})
  BY <1>5
<1>. HIDE DEF c, o, M, all, over, q, D2, orders2, older, m
<1>12. \A n \in 1 .. Len(o) : older[o[n]] = Len(o) + 1 - n
  <2>. TAKE n \in 1 .. Len(o)
  <2>1. age[o[n]] = Len(o) - n /\ Len(o) - n < M /\ Class(o[n]) = c
    BY <1>2, <1>4, <1>6
  <2>2. o[n] \in Contexts \ {id} /\ ~ Essential(o[n])
    BY <1>6, <1>8
  <2>3. older[o[n]] = age[o[n]] + 1
    BY <1>9, <2>1, <2>2
  <2>. QED
    BY <1>6, <2>1, <2>3
<1>13. \A n \in DOMAIN q : Class(q[n]) = c /\ older[q[n]] = Len(q) - n
  <2>. TAKE n \in DOMAIN q
  <2>0. n \in 1 .. Len(o) + 1 - k /\ Len(q) = Len(o) + 1 - k
    BY <1>5
  <2>1. CASE n + k = Len(o) + 1
    <3>1. q[n] = id /\ Len(q) - n = 0
      BY <1>5, <1>6, <2>0, <2>1
    <3>. QED
      BY <1>9, <3>1 DEF c
  <2>2. CASE n + k # Len(o) + 1
    <3>1. n + k \in 1 .. Len(o) /\ Len(o) + 1 - (n + k) = Len(q) - n
      BY <1>6, <2>0, <2>2
    <3>2. q[n] = o[n + k]
      BY <1>5, <2>2
    <3>. QED
      BY <1>4, <1>6, <1>12, <3>1, <3>2
  <2>. QED
    BY <2>1, <2>2
<1>14. Aged(orders2, older)
  <2>. SUFFICES ASSUME NEW b \in Classes
                PROVE  /\ Len(orders2[b]) <= Memory[b]
                       /\ \A n \in DOMAIN orders2[b] :
                             Class(orders2[b][n]) = b /\ older[orders2[b][n]] = Len(orders2[b]) - n
    BY Zenon DEF Aged
  <2>1. CASE b = c
    <3>1. Len(q) <= M
      <4>1. \A L \in Nat : (k = 1 => L = M) /\ (k = 0 => L < M) => L + 1 - k <= M
        BY <1>2
      <4>2. (k = 1 => Len(o) = M) /\ (k = 0 => Len(o) < M) /\ Len(q) = Len(o) + 1 - k
        BY <1>5
      <4>. QED
        BY <1>6, <4>1, <4>2, Zenon
    <3>. QED
      BY <1>10, <1>13, <2>1, <3>1, Zenon DEF M
  <2>2. CASE b # c
    <3>1. orders2[b] = orders[b]
      BY <1>10, <2>2
    <3>2. /\ Len(orders[b]) <= Memory[b]
          /\ \A n \in DOMAIN orders[b] : Class(orders[b][n]) = b /\ age[orders[b][n]] = Len(orders[b]) - n
      BY Zenon DEF Memorised, Aged
    <3>3. \A n \in DOMAIN orders[b] : orders[b][n] \in Contexts
      <4>1. orders[b] \in Seq(Contexts)
        BY <1>3
      <4>. QED
        BY <4>1, ElementOfSeq, LenProperties
    <3>4. \A n \in DOMAIN orders[b] : older[orders[b][n]] = age[orders[b][n]]
      <4>. TAKE n \in DOMAIN orders[b]
      <4>1. Class(orders[b][n]) # c /\ orders[b][n] \in Contexts
        BY <2>2, <3>2, <3>3, Zenon
      <4>2. orders[b][n] # id
        BY <4>1, Zenon DEF c
      <4>. QED
        BY <1>9, <4>1, <4>2
    <3>. QED
      BY <3>1, <3>2, <3>4
  <2>. QED
    BY <2>1, <2>2
<1>15. /\ \A n \in 1 .. Len(o) : n > k => n - k \in DOMAIN q /\ q[n - k] = o[n]
       /\ Len(q) \in DOMAIN q /\ q[Len(q)] = id
  <2>1. ASSUME NEW n \in 1 .. Len(o), n > k
        PROVE  n - k \in DOMAIN q /\ q[n - k] = o[n]
    <3>1. n - k \in 1 .. Len(o) + 1 - k /\ (n - k) + k = n /\ n # Len(o) + 1
      BY <1>6, <2>1
    <3>2. n - k \in DOMAIN q
      BY <1>5, <3>1, Zenon
    <3>3. q[n - k] = IF (n - k) + k = Len(o) + 1 THEN id ELSE o[(n - k) + k]
      BY <1>5, <3>2, Zenon
    <3>. QED
      BY <3>1, <3>2, <3>3, Zenon
  <2>2. Len(q) \in 1 .. Len(o) + 1 - k /\ Len(q) + k = Len(o) + 1
    <3>1. \A L \in Nat : (k = 1 => L = M) => L + 1 - k \in 1 .. L + 1 - k /\ L + 1 - k + k = L + 1
      BY <1>2
    <3>2. k = 1 => Len(o) = M
      BY <1>5
    <3>3. Len(q) = Len(o) + 1 - k
      BY <1>5
    <3>. QED
      BY <1>6, <3>1, <3>2, <3>3, Zenon
  <2>. QED
    BY <1>5, <2>1, <2>2
<1>16. ASSUME NEW n \in 1 .. Len(o), older[o[n]] < M
       PROVE  n > k
  <2>1. Len(o) + 1 - n < M
    BY <1>12, <1>16
  <2>2. \A L, a \in Nat : L + 1 - a < M /\ a > 0 /\ (k = 1 => L = M) => a > k
    BY <1>2
  <2>3. (k = 1 => Len(o) = M) /\ n \in Nat /\ n > 0
    BY <1>5
  <2>. QED
    BY <1>6, <2>1, <2>2, <2>3, Zenon
<1>17. ASSUME NEW x \in Contexts, ~ Essential(x), Class(x) # c
       PROVE  older[x] = age[x] /\ orders2[Class(x)] = orders[Class(x)] /\ x # id
  <2>1. x # id
    BY <1>17 DEF c
  <2>2. Class(x) \in Classes
    BY <1>17, ContextFact
  <2>. QED
    BY <1>9, <1>10, <1>17, <2>1, <2>2
<1>18. Known(orders2, older)
  <2>. SUFFICES ASSUME NEW x \in Contexts, ~ Essential(x), older[x] < Memory[Class(x)]
                PROVE  \E n \in DOMAIN orders2[Class(x)] : orders2[Class(x)][n] = x
    BY Zenon DEF Known
  <2>1. CASE Class(x) # c
    <3>1. older[x] = age[x] /\ orders2[Class(x)] = orders[Class(x)]
      BY <1>17, <2>1
    <3>2. age[x] < Memory[Class(x)]
      BY <3>1
    <3>. QED
      BY <3>1, <3>2, Zenon DEF Memorised, Known
  <2>2. CASE Class(x) = c /\ x = id
    BY <1>10, <1>15, <2>2, Zenon
  <2>3. CASE Class(x) = c /\ x # id
    <3>1. older[x] < M /\ age[x] \in Nat
      BY <1>3, <2>3 DEF M
    <3>2. older[x] = IF age[x] < M THEN age[x] + 1 ELSE age[x]
      BY <1>9, <2>3
    <3>3. age[x] < M
      BY <1>2, <3>1, <3>2
    <3>4. \E n \in DOMAIN o : o[n] = x
      BY <2>3, <3>3, Zenon DEF Memorised, Known, o, M
    <3>5. PICK n \in 1 .. Len(o) : o[n] = x
      BY <1>6, <3>4, Zenon
    <3>6. n > k
      BY <1>16, <3>1, <3>5
    <3>. QED
      BY <1>10, <1>15, <2>3, <3>5, <3>6, Zenon
  <2>. QED
    BY <2>1, <2>2, <2>3
<1>19. ASSUME NEW x \in Contexts, x # id, Essential(x) \/ Class(x) # c
       PROVE  x \in D2 <=> x \in D
  <2>1. k = 1 => 1 \in 1 .. Len(o)
    BY <1>2, <1>5, <1>6
  <2>2. k = 1 => o[1] # x
    BY <1>4, <1>6, <1>19, <2>1
  <2>. QED
    BY <1>11, <1>19, <2>2
<1>20. Retained(D2, orders2, older)
  <2>. SUFFICES ASSUME NEW x \in Contexts
                PROVE  x \in D2 <=> IF Essential(x) THEN older[x] # Never ELSE InOrder(orders2, x)
    BY Zenon DEF Retained
  <2>0. x \in D <=> IF Essential(x) THEN age[x] # Never ELSE InOrder(orders, x)
    BY Zenon DEF Memorised, Retained
  <2>1. CASE Essential(x)
    <3>1. x # id
      BY <2>1
    <3>. QED
      BY <1>9, <1>19, <2>0, <2>1, <3>1
  <2>2. CASE ~ Essential(x) /\ Class(x) # c
    <3>1. InOrder(orders2, x) <=> InOrder(orders, x)
      BY <1>17, <2>2, Zenon DEF InOrder
    <3>2. x # id
      BY <1>17, <2>2
    <3>. QED
      BY <1>19, <2>0, <2>2, <3>1, <3>2, Zenon
  <2>3. CASE ~ Essential(x) /\ x = id
    <3>1. InOrder(orders2, x)
      BY <1>10, <1>15, <2>3, Zenon DEF InOrder, c
    <3>2. k = 1 => o[1] # id
      <4>1. k = 1 => 1 \in 1 .. Len(o)
        BY <1>2, <1>5, <1>6
      <4>. QED
        BY <1>8, <4>1
    <3>3. x \in D2
      BY <1>11, <2>3, <3>2
    <3>. QED
      BY <2>3, <3>1, <3>3, Zenon
  <2>4. CASE ~ Essential(x) /\ Class(x) = c /\ x # id
    <3>1. x \in D <=> \E n \in 1 .. Len(o) : o[n] = x
      BY <1>6, <2>0, <2>4, Zenon DEF InOrder, o
    <3>2. InOrder(orders2, x) <=> \E n \in DOMAIN q : q[n] = x
      BY <1>10, <2>4, Zenon DEF InOrder
    <3>3. ASSUME x \in D2
          PROVE  \E n \in DOMAIN q : q[n] = x
      <4>1. x \in D /\ (k = 1 => x # o[1])
        BY <1>11, <2>4, <3>3
      <4>2. PICK n \in 1 .. Len(o) : o[n] = x
        BY <3>1, <4>1
      <4>3. n > k
        BY <1>6, <4>1, <4>2
      <4>. QED
        BY <1>15, <4>2, <4>3, Zenon
    <3>4. ASSUME NEW n \in DOMAIN q, q[n] = x
          PROVE  x \in D2
      <4>1. n + k # Len(o) + 1 /\ o[n + k] = x
        BY <1>5, <2>4, <3>4
      <4>2. n + k \in 1 .. Len(o)
        BY <1>5, <1>6, <4>1
      <4>3. x \in D
        BY <3>1, <4>1, <4>2
      <4>4. k = 1 => o[1] # x
        <5>. SUFFICES ASSUME k = 1, o[1] = x PROVE FALSE
          OBVIOUS
        <5>1. 1 \in 1 .. Len(o)
          BY <1>6, <4>2
        <5>2. older[x] = Len(o) + 1 - 1 /\ older[x] = Len(o) + 1 - (n + k)
          BY <1>12, <4>1, <4>2, <5>1
        <5>3. n \in Nat /\ n >= 1
          BY <1>5, <1>6
        <5>. QED
          BY <1>6, <5>2, <5>3
      <4>. QED
        BY <1>11, <4>3, <4>4
    <3>. QED
      BY <2>4, <3>2, <3>3, <3>4, Zenon
  <2>. QED
    BY <2>1, <2>2, <2>3, <2>4
<1>21. D2 \in SUBSET Contexts /\ D2 \subseteq D \cup {id}
  BY <1>3, <1>11
<1>. QED
  BY <1>1, <1>9, <1>10, <1>14, <1>18, <1>20, <1>21, Zenon DEF Memorised, older, m

----------------------------------------------------------------------------
(* The operations on the tables *)

LEMMA TablesFact ==
    ASSUME NEW d, d \in Tables
    PROVE  /\ d.pending \in Seq(Entry) /\ d.delivered \in SUBSET Contexts /\ d.orders \in [Classes -> Seq(Contexts)]
           /\ d.retry \in BOOLEAN /\ d.guided \in BOOLEAN /\ d.age \in [Contexts -> 0 .. Never]
           /\ d.twice \in SUBSET Contexts
           /\ \A n \in DOMAIN d.pending : d.pending[n] \in Entry
                 /\ d.pending[n].id \in Contexts /\ d.pending[n].attempts \in 0 .. MaxAttempts - 1
<1>1. /\ d.pending \in Seq(Entry) /\ d.delivered \in SUBSET Contexts /\ d.orders \in [Classes -> Seq(Contexts)]
      /\ d.retry \in BOOLEAN /\ d.guided \in BOOLEAN /\ d.age \in [Contexts -> 0 .. Never]
      /\ d.twice \in SUBSET Contexts
  BY DEF Tables, Entry
<1>2. \A n \in DOMAIN d.pending : d.pending[n] \in Entry
  BY <1>1, ElementOfSeq, LenProperties
<1>3. \A e \in Entry : e.id \in Contexts /\ e.attempts \in 0 .. MaxAttempts - 1
  BY DEF Entry
<1>. QED
  BY <1>1, <1>2, <1>3, Zenon

LEMMA KeepsFact ==
    /\ \A age : Keeps(age, age)
    /\ \A d, e, f : Better(d, e) /\ Better(e, f) => Better(d, f)
    /\ \A d : Good(d) => Better(d, d)
  BY Zenon DEF Keeps, Better

(* The memory is as it was.                                                 *)
Queued(d, e) ==
    /\ e \in Tables /\ e.delivered = d.delivered /\ e.orders = d.orders /\ e.age = d.age
    /\ e.twice = d.twice /\ e.guided = d.guided

LEMMA QueuedFact ==
    ASSUME NEW d, Good(d), NEW e, Queued(d, e), Waiting(e.pending, d.delivered)
    PROVE  Better(d, e)
<1>1. Good(e)
  BY Zenon DEF Good, Queued
<1>. QED
  BY <1>1, KeepsFact, Zenon DEF Better, Queued

LEMMA ReplacedFact ==
    ASSUME NEW d, d \in Tables, NEW p \in Seq(Entry), NEW b \in BOOLEAN
    PROVE  /\ Queued(d, [d EXCEPT !.pending = p]) /\ [d EXCEPT !.pending = p].pending = p
           /\ [d EXCEPT !.pending = p].retry = d.retry
           /\ Queued(d, [d EXCEPT !.retry = b]) /\ [d EXCEPT !.retry = b].pending = d.pending
  BY DEF Tables, Queued, Entry

LEMMA RetriedFact ==
    ASSUME NEW d, d \in Tables, NEW p \in Seq(Entry)
    PROVE  /\ Queued(d, [d EXCEPT !.pending = p, !.retry = TRUE])
           /\ [d EXCEPT !.pending = p, !.retry = TRUE].pending = p
  BY DEF Tables, Queued, Entry

LEMMA EvictFact ==
    ASSUME NEW d, d \in Tables, NEW D, Waiting(d.pending, D)
    PROVE  Queued(d, Evict(d)) /\ Waiting(Evict(d).pending, D)
<1>. DEFINE plain == {n \in DOMAIN d.pending : ~ Essential(d.pending[n].id)}
<1>1. d.pending \in Seq(Entry) /\ DOMAIN d.pending = 1 .. Len(d.pending)
  BY TablesFact, LenProperties
<1>2. CASE Len(d.pending) > MaxPending /\ plain # {}
  <2>. DEFINE e == [d EXCEPT !.pending = RemoveAt(d.pending, Min(plain))]
  <2>1. Evict(d) = e
    BY <1>2 DEF Evict
  <2>2. Min(plain) \in DOMAIN d.pending
    <3>1. plain \in SUBSET Nat
      BY <1>1
    <3>. HIDE DEF plain
    <3>2. \E x \in plain : \A y \in plain : x <= y
      BY <1>2, <3>1, LeastFact
    <3>3. Min(plain) \in plain
      BY <3>2 DEF Min
    <3>. QED
      BY <3>3 DEF plain
  <2>. HIDE DEF plain
  <2>3. RemoveAt(d.pending, Min(plain)) \in Seq(Entry) /\ Waiting(RemoveAt(d.pending, Min(plain)), D)
    BY <1>1, <2>2, RemovedWaiting
  <2>4. Queued(d, e) /\ e.pending = RemoveAt(d.pending, Min(plain))
    BY <2>3, ReplacedFact
  <2>. QED
    BY <2>1, <2>3, <2>4, Zenon
<1>3. CASE ~ (Len(d.pending) > MaxPending /\ plain # {})
  <2>1. Evict(d) = d
    BY <1>3 DEF Evict
  <2>. QED
    BY <2>1 DEF Queued
<1>. QED
  BY <1>2, <1>3

LEMMA EnterFact ==
    ASSUME NEW d, d \in Tables, NEW D, Waiting(d.pending, D),
           NEW id \in Contexts, ~ Pending(d, id), id \notin D, NEW k \in 0 .. MaxAttempts - 1
    PROVE  Queued(d, Enter(d, id, k)) /\ Waiting(Enter(d, id, k).pending, D)
<1>. DEFINE entry == [id |-> id, attempts |-> k]
            e == [d EXCEPT !.pending = Append(d.pending, entry)]
<1>1. Enter(d, id, k) = Evict(e)
  BY DEF Enter
<1>2. entry \in Entry /\ entry.id = id
  BY DEF Entry
<1>3. d.pending \in Seq(Entry) /\ \A n \in DOMAIN d.pending : d.pending[n].id # id
  BY TablesFact DEF Pending
<1>. HIDE DEF entry
<1>4. Append(d.pending, entry) \in Seq(Entry) /\ Waiting(Append(d.pending, entry), D)
  BY <1>2, <1>3, AddedWaiting
<1>5. Queued(d, e) /\ e.pending = Append(d.pending, entry)
  BY <1>4, ReplacedFact
<1>. HIDE DEF e
<1>6. Queued(e, Evict(e)) /\ Waiting(Evict(e).pending, D)
  <2>1. e \in Tables /\ Waiting(e.pending, D)
    BY <1>4, <1>5, Zenon DEF Queued
  <2>. QED
    BY <2>1, EvictFact
<1>. QED
  BY <1>1, <1>5, <1>6, Zenon DEF Queued

LEMMA PlacedFact ==
    ASSUME NEW d, d \in Tables, NEW D, Waiting(d.pending, D), NEW id, Pending(d, id)
    PROVE  /\ id \in Contexts /\ id \notin D
           /\ Without(d, id) \in Seq(Entry) /\ Waiting(Without(d, id), D)
           /\ \A n \in DOMAIN Without(d, id) : Without(d, id)[n].id # id
<1>1. Place(d, id) \in DOMAIN d.pending /\ d.pending[Place(d, id)].id = id
  BY PlaceFact
<1>2. d.pending \in Seq(Entry) /\ id \in Contexts
  BY <1>1, TablesFact
<1>3. id \notin D
  BY <1>1, Zenon DEF Waiting
<1>. QED
  BY <1>1, <1>2, <1>3, RemovedWaiting DEF Without

LEMMA CommitFact ==
    ASSUME NEW d, Good(d), NEW id, Pending(d, id)
    PROVE  Better(d, Commit(d, id))
<1>. DEFINE m == Remember([delivered |-> d.delivered, orders |-> d.orders], id)
            older == Older(d.age, id)
            rest == Without(d, id)
            e == Commit(d, id)
<1>1. d \in Tables /\ Waiting(d.pending, d.delivered) /\ Memorised(d.delivered, d.orders, d.age)
      /\ Guided(d.guided, d.age) /\ d.twice = {}
  BY Zenon DEF Good
<1>2. /\ id \in Contexts /\ id \notin d.delivered
      /\ rest \in Seq(Entry) /\ Waiting(rest, d.delivered) /\ \A n \in DOMAIN rest : rest[n].id # id
  BY <1>1, PlacedFact
<1>3. ~ Remembered(d.age, id)
  BY <1>1, <1>2, ForgottenFact
<1>4. Memorised(m.delivered, m.orders, older) /\ m.delivered \subseteq d.delivered \cup {id}
  <2>1. CASE Essential(id)
    <3>1. Memorised(m.delivered, m.orders, older) /\ m.delivered = d.delivered \cup {id}
      BY <1>1, <1>2, <2>1, RememberEssential
    <3>. QED
      BY <3>1
  <2>2. CASE ~ Essential(id)
    BY <1>1, <1>2, <2>2, RememberClass
  <2>. QED
    BY <2>1, <2>2
<1>5. d.age \in [Contexts -> 0 .. Never] /\ d.guided \in BOOLEAN /\ d.retry \in BOOLEAN
  BY <1>1, TablesFact
<1>6. Keeps(d.age, older) /\ older[id] = 0 /\ Never # 0
  BY <1>2, <1>5, OlderFact
<1>7. /\ e = [d EXCEPT !.guided = d.guided \/ Essential(id), !.delivered = m.delivered, !.orders = m.orders,
                       !.pending = rest, !.twice = d.twice, !.age = older]
  <2>1. e = [d EXCEPT !.guided = d.guided \/ Essential(id), !.delivered = m.delivered, !.orders = m.orders,
                       !.pending = rest, !.twice = IF Remembered(d.age, id) THEN d.twice \cup {id} ELSE d.twice,
                       !.age = older]
    BY DEF Commit
  <2>. QED
    BY <1>3, <2>1
<1>8. /\ m.delivered \in SUBSET Contexts /\ m.orders \in [Classes -> Seq(Contexts)]
      /\ older \in [Contexts -> 0 .. Never]
  BY <1>4, Zenon DEF Memorised
<1>9. (d.guided \/ Essential(id)) \in BOOLEAN
  BY DEF Essential
<1>. HIDE DEF m, older, rest, e
<1>10. /\ e \in Tables /\ e.guided = (d.guided \/ Essential(id)) /\ e.delivered = m.delivered /\ e.orders = m.orders
       /\ e.pending = rest /\ e.twice = d.twice /\ e.age = older
  BY <1>1, <1>2, <1>5, <1>7, <1>8, <1>9 DEF Tables, Entry
<1>11. Waiting(rest, m.delivered)
  BY <1>2, <1>4 DEF Waiting
<1>12. Guided(d.guided \/ Essential(id), older)
  <2>1. CASE Essential(id)
    <3>1. PICK s \in Scopes : id = Guide(s)
      BY <1>2, <2>1, ContextFact
    <3>. QED
      BY <1>6, <3>1 DEF Guided
  <2>2. CASE ~ Essential(id)
    <3>1. \A t \in Scopes : Guide(t) \in Contexts
      BY ContextFact
    <3>. QED
      BY <1>1, <1>6, <2>2, <3>1, Zenon DEF Guided, Keeps
  <2>. QED
    BY <2>1, <2>2
<1>13. Good(e)
  BY <1>1, <1>4, <1>10, <1>11, <1>12, Zenon DEF Good
<1>. QED
  BY <1>6, <1>10, <1>13, Zenon DEF Better, e

LEMMA AttemptsFact ==
    0 \in 0 .. MaxAttempts - 1 /\ 1 \in 0 .. MaxAttempts - 1 /\ MaxAttempts \in Nat
  BY BoundsAssumption

LEMMA ReviveFact ==
    ASSUME NEW d, Good(d), NEW id \in Contexts, ~ Pending(d, id), id \notin d.delivered
    PROVE  Better(d, Revive(d, id))
<1>. DEFINE c == [d EXCEPT !.retry = FALSE]
<1>1. d \in Tables /\ Waiting(d.pending, d.delivered)
  BY Zenon DEF Good
<1>2. CASE Essential(id) /\ d.retry
  <2>1. Revive(d, id) = Enter(c, id, 1)
    BY <1>2 DEF Revive
  <2>2. Queued(d, c) /\ c.pending = d.pending
    <3>1. d.pending \in Seq(Entry) /\ FALSE \in BOOLEAN
      BY <1>1, TablesFact
    <3>. QED
      BY <1>1, <3>1, ReplacedFact
  <2>. HIDE DEF c
  <2>3. c \in Tables /\ Waiting(c.pending, d.delivered) /\ ~ Pending(c, id)
    BY <1>1, <2>2, Zenon DEF Queued, Pending
  <2>4. Queued(c, Enter(c, id, 1)) /\ Waiting(Enter(c, id, 1).pending, d.delivered)
    BY <2>3, AttemptsFact, EnterFact
  <2>5. Queued(d, Enter(c, id, 1))
    BY <2>2, <2>4, Zenon DEF Queued
  <2>. QED
    BY <2>1, <2>4, <2>5, QueuedFact
<1>3. CASE ~ (Essential(id) /\ d.retry)
  <2>1. Revive(d, id) = d
    BY <1>3 DEF Revive
  <2>. QED
    BY <2>1, KeepsFact
<1>. QED
  BY <1>2, <1>3

LEMMA FailFact ==
    ASSUME NEW d, Good(d), NEW id, Pending(d, id)
    PROVE  Better(d, Fail(d, id))
<1>. DEFINE n == Place(d, id)
            c == [d EXCEPT !.pending = Without(d, id)]
            a == d.pending[n].attempts + 1
            p == [d.pending EXCEPT ![n] = [d.pending[n] EXCEPT !.attempts = a]]
<1>1. d \in Tables /\ Waiting(d.pending, d.delivered)
  BY Zenon DEF Good
<1>2. n \in DOMAIN d.pending
  BY PlaceFact
<1>3. /\ id \in Contexts /\ id \notin d.delivered
      /\ Without(d, id) \in Seq(Entry) /\ Waiting(Without(d, id), d.delivered)
      /\ \A i \in DOMAIN Without(d, id) : Without(d, id)[i].id # id
  BY <1>1, PlacedFact
<1>4. /\ d.pending \in Seq(Entry)
      /\ d.pending[n] \in Entry /\ d.pending[n].id \in Contexts /\ d.pending[n].attempts \in 0 .. MaxAttempts - 1
  BY <1>1, <1>2, TablesFact
<1>5. CASE a < MaxAttempts
  <2>1. Fail(d, id) = [d EXCEPT !.pending = p]
    BY <1>5 DEF Fail
  <2>2. a \in 0 .. MaxAttempts - 1
    BY <1>4, <1>5, AttemptsFact
  <2>3. [d.pending[n] EXCEPT !.attempts = a] \in Entry /\ [d.pending[n] EXCEPT !.attempts = a].id = d.pending[n].id
    <3>. HIDE DEF a
    <3>. QED
      BY <1>4, <2>2 DEF Entry
  <2>4. p \in Seq(Entry) /\ DOMAIN p = DOMAIN d.pending /\ \A i \in DOMAIN d.pending : p[i].id = d.pending[i].id
    <3>. DEFINE entry == [d.pending[n] EXCEPT !.attempts = a]
    <3>1. entry \in Entry /\ entry.id = d.pending[n].id
      BY <2>3
    <3>. HIDE DEF entry
    <3>2. p = [d.pending EXCEPT ![n] = entry]
      BY DEF entry
    <3>3. [d.pending EXCEPT ![n] = entry] \in Seq(Entry)
      <4>1. n \in 1 .. Len(d.pending)
        BY <1>2, <1>4, LenProperties
      <4>. QED
        BY <1>4, <3>1, <4>1, ExceptSeq
    <3>4. DOMAIN p = DOMAIN d.pending /\ \A i \in DOMAIN d.pending : p[i] = IF i = n THEN entry ELSE d.pending[i]
      BY <1>2, <3>2, Zenon
    <3>. QED
      BY <3>1, <3>2, <3>3, <3>4
  <2>. HIDE DEF p
  <2>5. Queued(d, [d EXCEPT !.pending = p]) /\ [d EXCEPT !.pending = p].pending = p
    BY <1>1, <2>4, ReplacedFact
  <2>6. Waiting(p, d.delivered)
    BY <1>1, <1>4, <2>4, SameWaiting
  <2>. QED
    BY <2>1, <2>5, <2>6, QueuedFact
<1>6. CASE ~ (a < MaxAttempts)
  <2>1. Fail(d, id) = Revive(c, id)
    BY <1>6 DEF Fail
  <2>2. Queued(d, c) /\ c.pending = Without(d, id)
    BY <1>1, <1>3, ReplacedFact
  <2>. HIDE DEF c
  <2>3. Better(d, c)
    BY <1>3, <2>2, QueuedFact
  <2>4. Good(c) /\ ~ Pending(c, id) /\ id \notin c.delivered
    BY <1>3, <2>2, <2>3, Zenon DEF Better, Pending, Queued
  <2>5. Better(c, Revive(c, id))
    BY <1>3, <2>4, ReviveFact
  <2>. QED
    BY <2>1, <2>3, <2>5, KeepsFact
<1>. QED
  BY <1>5, <1>6

LEMMA TryFact ==
    ASSUME NEW d, Good(d), NEW id
    PROVE  Better(d, Try(d, id))
<1>1. CASE ~ Pending(d, id) \/ init # "complete"
  <2>1. Try(d, id) = d
    BY <1>1 DEF Try, Attempt
  <2>. QED
    BY <2>1, KeepsFact
<1>2. CASE Pending(d, id) /\ init = "complete" /\ paused
  <2>1. Try(d, id) = Fail(d, id)
    BY <1>2 DEF Try, Attempt
  <2>. QED
    BY <1>2, <2>1, FailFact
<1>3. CASE Pending(d, id) /\ init = "complete" /\ ~ paused
  <2>1. Try(d, id) = Commit(d, id)
    BY <1>3 DEF Try, Attempt
  <2>. QED
    BY <1>3, <2>1, CommitFact
<1>. QED
  BY <1>1, <1>2, <1>3

(* A context that was accepted is offered in vain.                          *)
LEMMA OfferFact ==
    ASSUME NEW d, Good(d), NEW id \in Contexts
    PROVE  Better(d, Offer(d, id))
<1>. DEFINE c == IF Pending(d, id) THEN d ELSE Enter(d, id, 0)
<1>1. CASE id \in d.delivered
  <2>1. Offer(d, id) = d
    BY <1>1 DEF Offer
  <2>. QED
    BY <2>1, KeepsFact
<1>2. CASE id \notin d.delivered
  <2>1. Better(d, c)
    <3>1. d \in Tables /\ Waiting(d.pending, d.delivered)
      BY Zenon DEF Good
    <3>2. CASE ~ Pending(d, id)
      <4>1. Queued(d, Enter(d, id, 0)) /\ Waiting(Enter(d, id, 0).pending, d.delivered)
        BY <1>2, <3>1, <3>2, AttemptsFact, EnterFact
      <4>2. Better(d, Enter(d, id, 0))
        BY <4>1, QueuedFact
      <4>. QED
        BY <3>2, <4>2
    <3>3. CASE Pending(d, id)
      BY <3>3, KeepsFact
    <3>. QED
      BY <3>2, <3>3
  <2>2. Offer(d, id) = With(c, LAMBDA e : Try(e, id))
    BY <1>2 DEF Offer
  <2>. HIDE DEF c
  <2>3. With(c, LAMBDA e : Try(e, id)) = Try(c, id)
    BY DEF With
  <2>4. Better(c, Try(c, id))
    BY <2>1, TryFact, Zenon DEF Better
  <2>. QED
    BY <2>1, <2>2, <2>3, <2>4, KeepsFact
<1>. QED
  BY <1>1, <1>2

LEMMA TriedFact ==
    ASSUME NEW d, Good(d)
    PROVE  Better(d, Tried(d))
<1>. DEFINE N == Len(d.pending)
            Entered(i, x) == With(x, LAMBDA e : Try(e, d.pending[i].id))
            Part(m, g) == \A i \in 0 .. m : g[i] = IF i = 0 THEN d ELSE Entered(i, g[i - 1])
            T == {m \in Nat : m <= N => \E g : Part(m, g)}
            after == CHOOSE f : f = [n \in 0 .. N |-> IF n = 0 THEN d ELSE Entered(n, f[n - 1])]
<1>0. Tried(d) = after[N]
  BY DEF Tried
<1>w. \A i, x : Entered(i, x) = Try(x, d.pending[i].id)
  BY DEF With
<1>1. N \in Nat
  <2>1. d.pending \in Seq(Entry)
    BY TablesFact, Zenon DEF Good
  <2>. QED
    BY <2>1, LenProperties
<1>. HIDE DEF N, Entered
<1>2. 0 \in T
  <2>. DEFINE g == [i \in 0 .. 0 |-> d]
  <2>1. Part(0, g)
    OBVIOUS
  <2>. QED
    BY <2>1
<1>3. ASSUME NEW m \in Nat, m \in T
      PROVE  m + 1 \in T
  <2>. SUFFICES ASSUME m + 1 <= N
                PROVE  \E g : Part(m + 1, g)
    OBVIOUS
  <2>. PICK g : Part(m, g)
    BY <1>1, <1>3
  <2>. DEFINE h == [i \in 0 .. m + 1 |-> IF i <= m THEN g[i] ELSE Entered(i, g[m])]
  <2>1. Part(m + 1, h)
    <3>. SUFFICES ASSUME NEW i \in 0 .. m + 1
                  PROVE  h[i] = IF i = 0 THEN d ELSE Entered(i, h[i - 1])
      OBVIOUS
    <3>1. CASE i <= m
      <4>1. i \in 0 .. m /\ h[i] = g[i] /\ (i # 0 => i - 1 \in 0 .. m + 1 /\ i - 1 <= m /\ h[i - 1] = g[i - 1])
        BY <3>1
      <4>2. g[i] = IF i = 0 THEN d ELSE Entered(i, g[i - 1])
        BY <4>1
      <4>. QED
        BY <4>1, <4>2
    <3>2. CASE i = m + 1
      <4>1. i # 0 /\ ~ (i <= m) /\ m \in 0 .. m + 1 /\ m <= m /\ i - 1 = m
        BY <3>2
      <4>2. h[i] = Entered(i, g[m]) /\ h[m] = g[m]
        BY <4>1
      <4>. QED
        BY <4>1, <4>2, Zenon
    <3>3. i <= m \/ i = m + 1
      OBVIOUS
    <3>. QED
      BY <3>1, <3>2, <3>3
  <2>. QED
    BY <2>1
<1>4. N \in T
  <2>. HIDE DEF T
  <2>. QED
    BY <1>1, <1>2, <1>3, InductionFact
<1>5. \E f : f = [n \in 0 .. N |-> IF n = 0 THEN d ELSE Entered(n, f[n - 1])]
  <2>. PICK g : Part(N, g)
    BY <1>1, <1>4
  <2>. DEFINE f == [n \in 0 .. N |-> g[n]]
  <2>1. f = [n \in 0 .. N |-> IF n = 0 THEN d ELSE Entered(n, f[n - 1])]
    <3>1. \A n \in 0 .. N : g[n] = IF n = 0 THEN d ELSE Entered(n, f[n - 1])
      <4>. TAKE n \in 0 .. N
      <4>1. n # 0 => n - 1 \in 0 .. N /\ f[n - 1] = g[n - 1]
        BY <1>1
      <4>2. g[n] = IF n = 0 THEN d ELSE Entered(n, g[n - 1])
        OBVIOUS
      <4>. QED
        BY <4>1, <4>2
    <3>. QED
      BY <3>1
  <2>. QED
    BY <2>1
<1>6. after = [n \in 0 .. N |-> IF n = 0 THEN d ELSE Entered(n, after[n - 1])]
  BY <1>5
<1>. HIDE DEF after
<1>7. after[0] = d /\ \A n \in 0 .. N : n # 0 => after[n] = Try(after[n - 1], d.pending[n].id)
  <2>1. \A n \in 0 .. N : after[n] = IF n = 0 THEN d ELSE Entered(n, after[n - 1])
    BY <1>6
  <2>2. 0 \in 0 .. N
    BY <1>1
  <2>. QED
    BY <1>w, <2>1, <2>2
<1>. DEFINE S == {m \in Nat : m <= N => Better(d, after[m])}
<1>8. 0 \in S
  <2>1. Better(d, d)
    BY KeepsFact
  <2>. QED
    BY <1>7, <2>1
<1>9. ASSUME NEW m \in Nat, m \in S
      PROVE  m + 1 \in S
  <2>. SUFFICES ASSUME m + 1 <= N
                PROVE  Better(d, after[m + 1])
    OBVIOUS
  <2>1. m <= N /\ m + 1 \in 0 .. N /\ m + 1 # 0 /\ (m + 1) - 1 = m
    BY <1>1
  <2>2. Better(d, after[m])
    BY <1>9, <2>1
  <2>3. after[m + 1] = Try(after[m], d.pending[m + 1].id)
    BY <1>7, <2>1
  <2>4. Better(after[m], Try(after[m], d.pending[m + 1].id))
    BY <2>2, TryFact, Zenon DEF Better
  <2>. QED
    BY <2>2, <2>3, <2>4, KeepsFact
<1>10. N \in S
  <2>. HIDE DEF S
  <2>. QED
    BY <1>1, <1>8, <1>9, InductionFact
<1>. QED
  BY <1>0, <1>1, <1>10

LEMMA OpenEpochFact ==
    ASSUME NEW d, Good(d)
    PROVE  Better(d, OpenEpoch(d))
<1>. DEFINE p == [n \in DOMAIN d.pending |-> [d.pending[n] EXCEPT !.attempts = 0]]
<1>1. d \in Tables /\ Waiting(d.pending, d.delivered)
  BY Zenon DEF Good
<1>2. OpenEpoch(d) = [d EXCEPT !.pending = p, !.retry = TRUE]
  BY DEF OpenEpoch
<1>3. d.pending \in Seq(Entry) /\ \A n \in DOMAIN d.pending : d.pending[n] \in Entry
  BY <1>1, TablesFact
<1>4. DOMAIN d.pending = 1 .. Len(d.pending) /\ Len(d.pending) \in Nat
  BY <1>3, LenProperties
<1>5. \A e \in Entry : [e EXCEPT !.attempts = 0] \in Entry /\ [e EXCEPT !.attempts = 0].id = e.id
  BY AttemptsFact DEF Entry
<1>6. \A n \in DOMAIN d.pending : p[n] \in Entry /\ p[n].id = d.pending[n].id
  BY <1>3, <1>5
<1>7. DOMAIN p = DOMAIN d.pending /\ p = [n \in DOMAIN d.pending |-> p[n]]
  OBVIOUS
<1>. HIDE DEF p
<1>8. p \in [1 .. Len(d.pending) -> Entry]
  BY <1>4, <1>6, <1>7
<1>9. p \in Seq(Entry)
  BY <1>4, <1>8, IsASeq
<1>10. Waiting(p, d.delivered)
  BY <1>1, <1>3, <1>6, <1>7, <1>9, SameWaiting
<1>11. Queued(d, [d EXCEPT !.pending = p, !.retry = TRUE]) /\ [d EXCEPT !.pending = p, !.retry = TRUE].pending = p
  BY <1>1, <1>9, RetriedFact, Zenon
<1>. QED
  BY <1>2, <1>10, <1>11, QueuedFact

LEMMA EmptyMemory ==
    Memorised({}, [c \in Classes |-> <<>>], [id \in Contexts |-> Never])
<1>. DEFINE none == [c \in Classes |-> <<>>]
            never == [id \in Contexts |-> Never]
<1>1. Never \in Nat /\ \A b \in Classes : Memory[b] \in Nat /\ Memory[b] < Never
  BY MemoryFact
<1>2. none \in [Classes -> Seq(Contexts)] /\ never \in [Contexts -> 0 .. Never]
  BY <1>1
<1>3. Aged(none, never)
  <2>1. \A b \in Classes : Len(none[b]) = 0 /\ DOMAIN none[b] = {}
    OBVIOUS
  <2>. QED
    BY <1>1, <2>1 DEF Aged
<1>4. Known(none, never)
  <2>1. \A id \in Contexts : ~ Essential(id) => ~ (never[id] < Memory[Class(id)])
    <3>. SUFFICES ASSUME NEW id \in Contexts, ~ Essential(id), never[id] < Memory[Class(id)]
                  PROVE  FALSE
      OBVIOUS
    <3>1. Class(id) \in Classes
      BY ContextFact
    <3>. QED
      BY <1>1, <3>1
  <2>. QED
    BY <2>1, Zenon DEF Known
<1>5. Retained({}, none, never)
  <2>1. \A id \in Contexts : ~ Essential(id) => ~ InOrder(none, id)
    <3>. TAKE id \in Contexts
    <3>1. ~ Essential(id) => Class(id) \in Classes
      BY ContextFact
    <3>. QED
      BY <3>1 DEF InOrder
  <2>. QED
    BY <2>1 DEF Retained
<1>. QED
  BY <1>2, <1>3, <1>4, <1>5 DEF Memorised

LEMMA ResetFact ==
    ASSUME NEW d, Good(d)
    PROVE  Good(Reset(d))
<1>. DEFINE none == [c \in Classes |-> <<>>]
            never == [id \in Contexts |-> Never]
            c == OpenEpoch(d)
            e == Reset(d)
<1>1. Better(d, c)
  BY OpenEpochFact
<1>2. e = [c EXCEPT !.guided = FALSE, !.delivered = {}, !.orders = none, !.age = never, !.twice = {}]
  BY DEF Reset
<1>. HIDE DEF c, e
<1>3. c \in Tables /\ Waiting(c.pending, c.delivered)
  BY <1>1, Zenon DEF Better, Good
<1>4. Memorised({}, none, never)
  BY EmptyMemory
<1>. HIDE DEF none, never
<1>5. /\ e \in Tables /\ e.guided = FALSE /\ e.delivered = {} /\ e.orders = none /\ e.age = never /\ e.twice = {}
      /\ e.pending = c.pending
  <2>1. none \in [Classes -> Seq(Contexts)] /\ never \in [Contexts -> 0 .. Never]
    BY <1>4, Zenon DEF Memorised
  <2>. QED
    BY <1>2, <1>3, <2>1 DEF Tables
<1>6. Waiting(c.pending, {})
  BY <1>3, Zenon DEF Waiting
<1>. QED
  BY <1>4, <1>5, <1>6, Zenon DEF Good, Guided, e

LEMMA AcceptedFact ==
    ASSUME NEW d, Good(d), NEW id \in Contexts, id \in d.delivered
    PROVE  d.age[id] # Never
<1>1. Memorised(d.delivered, d.orders, d.age)
  BY Zenon DEF Good
<1>2. IF Essential(id) THEN d.age[id] # Never ELSE InOrder(d.orders, id)
  BY <1>1, Zenon DEF Memorised, Retained
<1>3. CASE ~ Essential(id)
  <2>1. PICK n \in DOMAIN d.orders[Class(id)] : d.orders[Class(id)][n] = id
    BY <1>2, <1>3, Zenon DEF InOrder
  <2>2. Class(id) \in Classes
    BY <1>3, ContextFact
  <2>3. Len(d.orders[Class(id)]) <= Memory[Class(id)] /\ d.age[id] = Len(d.orders[Class(id)]) - n
    BY <1>1, <2>1, <2>2, Zenon DEF Memorised, Aged
  <2>4. Len(d.orders[Class(id)]) \in Nat /\ n \in 1 .. Len(d.orders[Class(id)])
    <3>1. d.orders[Class(id)] \in Seq(Contexts)
      BY <1>1, <2>2 DEF Memorised
    <3>. QED
      BY <2>1, <3>1, LenProperties
  <2>5. Memory[Class(id)] \in Nat /\ Memory[Class(id)] < Never /\ Never \in Nat
    BY <2>2, MemoryFact
  <2>6. \A L, M \in Nat : \A a \in 1 .. L : L <= M /\ M < Never => L - a # Never
    BY <2>5
  <2>. QED
    BY <2>3, <2>4, <2>5, <2>6, Zenon
<1>. QED
  BY <1>2, <1>3

----------------------------------------------------------------------------
(* The steps *)

LEMMA InitInv == Init => IInv
<1>. SUFFICES ASSUME Init PROVE IInv
  OBVIOUS
<1>. DEFINE none == [c \in Classes |-> <<>>]
            never == [id \in Contexts |-> Never]
<1>1. /\ ctx = [pending |-> <<>>, delivered |-> {}, orders |-> none, retry |-> TRUE, guided |-> FALSE,
                age |-> never, twice |-> {}]
      /\ init = "none" /\ paused = FALSE /\ scope = Outside /\ forced = {}
  BY DEF Init
<1>2. Memorised({}, none, never)
  BY EmptyMemory
<1>. HIDE DEF none, never
<1>3. ctx \in Tables /\ Waiting(<<>>, {})
  <2>1. none \in [Classes -> Seq(Contexts)] /\ never \in [Contexts -> 0 .. Never]
    BY <1>2, Zenon DEF Memorised
  <2>. QED
    BY <1>1, <2>1 DEF Tables, Waiting
<1>4. Good(ctx)
  BY <1>1, <1>2, <1>3 DEF Good, Guided
<1>. QED
  BY <1>1, <1>3, <1>4, ScopeAssumption DEF IInv, TypeOK, RulesFirst

(* A force has no rules to lose: what was told stays told.                  *)
LEMMA StepFact ==
    ASSUME IInv, Better(ctx, ctx'), forced' = forced, init' \in {"none", "started", "complete"},
           paused' \in BOOLEAN, scope' \in Scopes
    PROVE  IInv'
<1>1. Good(ctx')
  BY Zenon DEF Better
<1>2. TypeOK'
  BY <1>1, Zenon DEF IInv, TypeOK, Good
<1>3. RulesFirst'
  <2>1. \A s \in Scopes : Guide(s) \in Contexts /\ Glossary(s) \in Contexts
    BY ContextFact
  <2>2. forced \subseteq Scopes
    BY DEF IInv, TypeOK
  <2>3. \A id \in Contexts : ctx.age[id] # Never => ctx'.age[id] # Never
    BY Zenon DEF Better, Keeps
  <2>4. \A s \in forced : ctx.age[Glossary(s)] # Never /\ \E t \in Scopes : ctx.age[Guide(t)] # Never
    BY Zenon DEF IInv, RulesFirst
  <2>5. \A s \in forced : ctx'.age[Glossary(s)] # Never /\ \E t \in Scopes : ctx'.age[Guide(t)] # Never
    BY <2>1, <2>2, <2>3, <2>4
  <2>. QED
    BY <2>5 DEF RulesFirst
<1>. QED
  BY <1>1, <1>2, <1>3 DEF IInv

LEMMA StartUpInv == ASSUME IInv, StartUp PROVE IInv'
<1>1. Good(ctx')
  BY ResetFact DEF IInv, StartUp
<1>. QED
  BY <1>1 DEF IInv, StartUp, TypeOK, RulesFirst, Good

LEMMA ReconnectInv == ASSUME IInv, Reconnect PROVE IInv'
<1>1. Better(ctx, ctx')
  BY OpenEpochFact DEF IInv, Reconnect
<1>. QED
  BY <1>1, StepFact DEF IInv, TypeOK, Reconnect

LEMMA CatalogueRegisteredInv == ASSUME IInv, CatalogueRegistered PROVE IInv'
<1>1. Better(ctx, ctx')
  BY KeepsFact DEF IInv, CatalogueRegistered
<1>. QED
  BY <1>1, StepFact DEF IInv, TypeOK, CatalogueRegistered

LEMMA TogglePauseInv == ASSUME IInv, TogglePause PROVE IInv'
<1>1. Better(ctx, ctx')
  BY KeepsFact DEF IInv, TogglePause
<1>. QED
  BY <1>1, StepFact DEF IInv, TypeOK, TogglePause

LEMMA EnterScopeInv == ASSUME IInv, NEW s \in Scopes, EnterScope(s) PROVE IInv'
<1>1. Better(ctx, ctx')
  BY KeepsFact DEF IInv, EnterScope
<1>. QED
  BY <1>1, StepFact DEF IInv, TypeOK, EnterScope

LEMMA RulesFact ==
    ASSUME IInv
    PROVE  Better(ctx, Rules(ctx)) /\ scope \in Scopes /\ Glossary(scope) \in Contexts
<1>1. scope \in Scopes /\ Good(ctx)
  BY DEF IInv, TypeOK
<1>2. Guide(scope) \in Contexts /\ Glossary(scope) \in Contexts
  BY <1>1, ContextFact
<1>. QED
  BY <1>1, <1>2, OfferFact DEF Rules

LEMMA ScreenChangesInv == ASSUME IInv, ScreenChanges PROVE IInv'
<1>1. Better(ctx, ctx')
  BY RulesFact DEF ScreenChanges
<1>. QED
  BY <1>1, StepFact DEF IInv, TypeOK, ScreenChanges

LEMMA HappenInv == ASSUME IInv, NEW e \in Events, Happen(e) PROVE IInv'
<1>1. Event(e) \in Contexts
  BY ContextFact
<1>2. Better(ctx, ctx')
  BY <1>1, OfferFact DEF IInv, Happen
<1>. QED
  BY <1>2, StepFact DEF IInv, TypeOK, Happen

LEMMA StepFrameInv == ASSUME IInv, StepFrame PROVE IInv'
<1>1. Better(ctx, ctx')
  BY TriedFact DEF IInv, StepFrame
<1>. QED
  BY <1>1, StepFact DEF IInv, TypeOK, StepFrame

(* arm: the guide was accepted before the glossary was offered, and the      *)
(* glossary before the force went out.                                      *)
LEMMA ArmInv == ASSUME IInv, NEW room, NEW sent, Arm(room, sent) PROVE IInv'
<1>. DEFINE ruled == Rules(ctx)
            asked == Offer(ruled, Glossary(scope))
<1>1. Better(ctx, ruled) /\ scope \in Scopes /\ Glossary(scope) \in Contexts
  BY RulesFact
<1>2. Better(ruled, asked) /\ Better(ctx, asked)
  <2>1. Better(ruled, asked)
    BY <1>1, OfferFact DEF Better
  <2>. QED
    BY <1>1, <2>1, KeepsFact
<1>3. UNCHANGED <<init, paused, scope>> /\
      \/ ctx' = ruled /\ forced' = forced
      \/ ctx' = asked /\ forced' = forced
      \/ ctx' = asked /\ forced' = forced \cup {scope} /\ ruled.guided /\ Explained(asked, Glossary(scope))
  BY DEF Arm
<1>. HIDE DEF ruled, asked
<1>4. CASE forced' = forced
  <2>1. Better(ctx, ctx')
    BY <1>1, <1>2, <1>3
  <2>. QED
    BY <1>3, <1>4, <2>1, StepFact DEF IInv, TypeOK
<1>5. CASE ctx' = asked /\ forced' = forced \cup {scope} /\ ruled.guided /\ Explained(asked, Glossary(scope))
  <2>1. Good(asked) /\ Good(ruled)
    BY <1>1, <1>2 DEF Better
  <2>2. asked.age[Glossary(scope)] # Never
    BY <1>1, <1>5, <2>1, AcceptedFact DEF Explained
  <2>3. \A s \in Scopes : Guide(s) \in Contexts /\ Glossary(s) \in Contexts
    BY ContextFact
  <2>4. \E t \in Scopes : asked.age[Guide(t)] # Never
    <3>1. \E t \in Scopes : ruled.age[Guide(t)] # Never
      BY <1>5, <2>1, Zenon DEF Good, Guided
    <3>2. Keeps(ruled.age, asked.age)
      BY <1>2, Zenon DEF Better
    <3>. QED
      BY <2>3, <3>1, <3>2, Zenon DEF Keeps
  <2>5. \A s \in forced : asked.age[Glossary(s)] # Never
    <3>1. \A s \in forced : s \in Scopes /\ ctx.age[Glossary(s)] # Never
      BY DEF IInv, TypeOK, RulesFirst
    <3>2. Keeps(ctx.age, asked.age)
      BY <1>2, Zenon DEF Better
    <3>. QED
      BY <2>3, <3>1, <3>2, Zenon DEF Keeps
  <2>6. RulesFirst'
    <3>1. \A s \in forced' : asked.age[Glossary(s)] # Never /\ \E t \in Scopes : asked.age[Guide(t)] # Never
      BY <1>5, <2>2, <2>4, <2>5
    <3>. QED
      BY <1>5, <3>1 DEF RulesFirst
  <2>7. TypeOK'
    BY <1>1, <1>3, <1>5, <2>1 DEF IInv, TypeOK, Good
  <2>. QED
    BY <1>5, <2>1, <2>6, <2>7 DEF IInv
<1>. QED
  BY <1>3, <1>4, <1>5

LEMMA StutterInv == ASSUME IInv, UNCHANGED vars PROVE IInv'
<1>1. Better(ctx, ctx')
  BY KeepsFact DEF IInv, vars
<1>. QED
  BY <1>1, StepFact DEF IInv, TypeOK, vars

----------------------------------------------------------------------------
(* The tables are in order in every reachable state: one waiting entry for  *)
(* a context, none for one that was accepted, and a memory that is the last *)
(* of what was accepted.                                                    *)
THEOREM Invariant == Spec => []IInv
<1>1. IInv /\ [Next]_vars => IInv'
  BY StartUpInv, CatalogueRegisteredInv, ReconnectInv, TogglePauseInv, StepFrameInv, EnterScopeInv,
     ScreenChangesInv, HappenInv, ArmInv, StutterInv DEF Next
<1>. QED
  BY InitInv, <1>1, PTL DEF Spec

(* No context is told twice in a startup, unless its class has meanwhile    *)
(* had as many newer ones as the memory holds (remember, commit).           *)
THEOREM OnceOnly == Spec => []ToldOnce
<1>1. IInv => ToldOnce
  BY DEF IInv, Good, ToldOnce
<1>. QED
  BY <1>1, Invariant, PTL

(* No force goes out before a guide and the glossary of its ante have       *)
(* (arm, essential_ready).                                                  *)
THEOREM RulesBeforeForces == Spec => []RulesFirst
<1>1. IInv => RulesFirst
  BY DEF IInv
<1>. QED
  BY <1>1, Invariant, PTL
==============================================================================
