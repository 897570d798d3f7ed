-------------------------- MODULE QueueBudgetProofs --------------------------
(***************************************************************************)
(* The bytes reserved are those of the lines on their way, and the lines   *)
(* on their way are those read and not handled, for every file, budget and *)
(* room of the lanes.                                                      *)
(***************************************************************************)
EXTENDS QueueBudget, NumberFacts, SequenceTheorems

(* Sums over a sequence of numbers *)

Sums(f, sizes) == f = [n \in 0 .. Len(sizes) |-> IF n = 0 THEN 0 ELSE f[n - 1] + sizes[n]]

(* The sum of which Total speaks exists.                                    *)
LEMMA TotalSums ==
    ASSUME NEW sizes \in Seq(Nat)
    PROVE  \E f : Sums(f, sizes) /\ Total(sizes) = f[Len(sizes)]
<1>. DEFINE N == Len(sizes)
            Part(m, g) == \A i \in 0 .. m : g[i] = IF i = 0 THEN 0 ELSE g[i - 1] + sizes[i]
            T == {m \in Nat : m <= N => \E g : Part(m, g)}
<1>1. N \in Nat
  BY LenProperties
<1>2. 0 \in T
  <2>. DEFINE g == [i \in 0 .. 0 |-> 0]
  <2>1. Part(0, g)
    OBVIOUS
  <2>. QED
    BY <2>1
<1>3. ASSUME NEW m \in Nat, m \in T
      PROVE  m + 1 \in T
  <2>. SUFFICES ASSUME m + 1 <= N
                PROVE  \E g : Part(m + 1, g)
    OBVIOUS
  <2>. PICK g : Part(m, g)
    BY <1>1, <1>3
  <2>. DEFINE h == [i \in 0 .. m + 1 |-> IF i <= m THEN g[i] ELSE g[m] + sizes[i]]
  <2>1. Part(m + 1, h)
    <3>. SUFFICES ASSUME NEW i \in 0 .. m + 1
                  PROVE  h[i] = IF i = 0 THEN 0 ELSE h[i - 1] + sizes[i]
      OBVIOUS
    <3>1. CASE i <= m
      <4>1. i \in 0 .. m /\ h[i] = g[i] /\ (i # 0 => i - 1 \in 0 .. m + 1 /\ i - 1 <= m /\ h[i - 1] = g[i - 1])
        BY <3>1
      <4>2. g[i] = IF i = 0 THEN 0 ELSE g[i - 1] + sizes[i]
        BY <4>1
      <4>. QED
        BY <4>1, <4>2
    <3>2. CASE i = m + 1
      BY <3>2
    <3>. QED
      BY <3>1, <3>2
  <2>. QED
    BY <2>1
<1>4. N \in T
  <2>. HIDE DEF T
  <2>. QED
    BY <1>1, <1>2, <1>3, InductionFact
<1>5. \E f : f = [n \in 0 .. Len(sizes) |-> IF n = 0 THEN 0 ELSE f[n - 1] + sizes[n]]
  <2>. PICK g : Part(N, g)
    BY <1>1, <1>4
  <2>. DEFINE f == [n \in 0 .. N |-> g[n]]
  <2>1. f = [n \in 0 .. N |-> IF n = 0 THEN 0 ELSE f[n - 1] + sizes[n]]
    <3>1. \A n \in 0 .. N : g[n] = IF n = 0 THEN 0 ELSE f[n - 1] + sizes[n]
      <4>. TAKE n \in 0 .. N
      <4>1. n # 0 => n - 1 \in 0 .. N /\ f[n - 1] = g[n - 1]
        BY <1>1
      <4>. QED
        BY <4>1
    <3>. QED
      BY <3>1
  <2>. QED
    BY <2>1
<1>. DEFINE sum == CHOOSE f : f = [n \in 0 .. Len(sizes) |-> IF n = 0 THEN 0 ELSE f[n - 1] + sizes[n]]
<1>6. Sums(sum, sizes)
  BY <1>5 DEF Sums
<1>7. Total(sizes) = sum[Len(sizes)]
  BY DEF Total
<1>. QED
  BY <1>6, <1>7

LEMMA SumsFact ==
    ASSUME NEW sizes \in Seq(Nat), NEW f, Sums(f, sizes)
    PROVE  /\ f[0] = 0
           /\ \A n \in 1 .. Len(sizes) : f[n] = f[n - 1] + sizes[n]
           /\ \A n \in 0 .. Len(sizes) : f[n] \in Nat
<1>. DEFINE N == Len(sizes)
            T == {m \in Nat : m <= N => f[m] \in Nat}
<1>1. N \in Nat /\ \A n \in 1 .. N : sizes[n] \in Nat
  BY LenProperties, ElementOfSeq
<1>2. f[0] = 0 /\ \A n \in 1 .. N : f[n] = f[n - 1] + sizes[n]
  BY <1>1 DEF Sums
<1>3. 0 \in T
  BY <1>2
<1>4. ASSUME NEW m \in Nat, m \in T
      PROVE  m + 1 \in T
  <2>. SUFFICES ASSUME m + 1 <= N PROVE f[m + 1] \in Nat
    OBVIOUS
  <2>. PICK j \in 1 .. N : j = m + 1
    BY <1>1
  <2>1. f[j] = f[m] + sizes[j] /\ f[m] \in Nat /\ sizes[j] \in Nat
    BY <1>1, <1>2, <1>4
  <2>. QED
    BY <2>1
<1>5. Nat \subseteq T
  <2>. HIDE DEF T
  <2>. QED
    BY <1>3, <1>4, InductionFact
<1>. QED
  BY <1>1, <1>2, <1>5

LEMMA TotalNat ==
    ASSUME NEW sizes \in Seq(Nat)
    PROVE  Total(sizes) \in Nat
<1>. PICK f : Sums(f, sizes) /\ Total(sizes) = f[Len(sizes)]
  BY TotalSums
<1>. QED
  BY SumsFact, LenProperties

LEMMA TotalEmpty == Total(<<>>) = 0
<1>1. <<>> \in Seq(Nat) /\ Len(<<>>) = 0
  OBVIOUS
<1>. PICK f : Sums(f, <<>>) /\ Total(<<>>) = f[Len(<<>>)]
  BY <1>1, TotalSums
<1>. QED
  BY <1>1, SumsFact

LEMMA TotalAppend ==
    ASSUME NEW sizes \in Seq(Nat), NEW b \in Nat
    PROVE  Total(Append(sizes, b)) = Total(sizes) + b
<1>. DEFINE N == Len(sizes)
            all == Append(sizes, b)
<1>1. /\ N \in Nat /\ all \in Seq(Nat) /\ Len(all) = N + 1
      /\ all[N + 1] = b /\ \A n \in 1 .. N : all[n] = sizes[n]
  OBVIOUS
<1>. HIDE DEF all
<1>. PICK f : Sums(f, sizes) /\ Total(sizes) = f[N]
  BY TotalSums
<1>. PICK g : Sums(g, all) /\ Total(all) = g[N + 1]
  BY <1>1, TotalSums
<1>2. /\ f[0] = 0 /\ (\A n \in 1 .. N : f[n] = f[n - 1] + sizes[n])
      /\ g[0] = 0 /\ (\A n \in 1 .. N + 1 : g[n] = g[n - 1] + all[n])
  <2>1. f[0] = 0 /\ \A n \in 1 .. N : f[n] = f[n - 1] + sizes[n]
    BY SumsFact
  <2>2. g[0] = 0 /\ \A n \in 1 .. Len(all) : g[n] = g[n - 1] + all[n]
    BY <1>1, SumsFact
  <2>. QED
    BY <1>1, <2>1, <2>2
<1>. DEFINE T == {m \in Nat : m <= N => f[m] = g[m]}
<1>3. 0 \in T
  BY <1>2
<1>4. ASSUME NEW m \in Nat, m \in T
      PROVE  m + 1 \in T
  <2>. SUFFICES ASSUME m + 1 <= N PROVE f[m + 1] = g[m + 1]
    OBVIOUS
  <2>. PICK j \in 1 .. N : j = m + 1
    BY <1>1
  <2>1. j - 1 = m /\ j \in 1 .. N + 1 /\ f[m] = g[m] /\ all[j] = sizes[j]
    BY <1>1, <1>4
  <2>2. f[j] = f[j - 1] + sizes[j] /\ g[j] = g[j - 1] + all[j]
    BY <1>2, <2>1
  <2>. QED
    BY <2>1, <2>2
<1>5. Nat \subseteq T
  <2>. HIDE DEF T
  <2>. QED
    BY <1>3, <1>4, InductionFact
<1>6. f[N] = g[N] /\ g[N + 1] = g[N] + b
  <2>1. f[N] = g[N]
    BY <1>1, <1>5
  <2>. PICK j \in 1 .. N + 1 : j = N + 1
    BY <1>1
  <2>2. g[j] = g[j - 1] + all[j] /\ j - 1 = N
    BY <1>1, <1>2
  <2>. QED
    BY <1>1, <2>1, <2>2
<1>. QED
  BY <1>6 DEF all

LEMMA TotalTail ==
    ASSUME NEW sizes \in Seq(Nat), sizes # <<>>
    PROVE  Total(sizes) = Head(sizes) + Total(Tail(sizes))
<1>. DEFINE N == Len(sizes)
            rest == Tail(sizes)
<1>1. /\ N \in Nat \ {0} /\ rest \in Seq(Nat) /\ Len(rest) = N - 1
      /\ Head(sizes) = sizes[1] /\ sizes[1] \in Nat /\ \A n \in 1 .. N - 1 : rest[n] = sizes[n + 1]
  BY HeadTailProperties, EmptySeq, LenProperties, ElementOfSeq
<1>. HIDE DEF rest
<1>. PICK f : Sums(f, sizes) /\ Total(sizes) = f[N]
  BY TotalSums
<1>. PICK g : Sums(g, rest) /\ Total(rest) = g[N - 1]
  BY <1>1, TotalSums
<1>2. /\ f[0] = 0 /\ (\A n \in 1 .. N : f[n] = f[n - 1] + sizes[n])
      /\ g[0] = 0 /\ (\A n \in 1 .. N - 1 : g[n] = g[n - 1] + rest[n])
      /\ \A n \in 0 .. N - 1 : g[n] \in Nat
  <2>1. f[0] = 0 /\ \A n \in 1 .. N : f[n] = f[n - 1] + sizes[n]
    BY SumsFact
  <2>2. /\ g[0] = 0 /\ \A n \in 1 .. Len(rest) : g[n] = g[n - 1] + rest[n]
        /\ \A n \in 0 .. Len(rest) : g[n] \in Nat
    BY <1>1, SumsFact
  <2>. QED
    BY <1>1, <2>1, <2>2
<1>. DEFINE T == {m \in Nat : m + 1 <= N => f[m + 1] = sizes[1] + g[m]}
<1>3. 0 \in T
  <2>. PICK j \in 1 .. N : j = 1
    BY <1>1
  <2>1. f[j] = f[j - 1] + sizes[j] /\ j - 1 = 0
    BY <1>2
  <2>. QED
    BY <1>1, <1>2, <2>1
<1>4. ASSUME NEW m \in Nat, m \in T
      PROVE  m + 1 \in T
  <2>. SUFFICES ASSUME m + 2 <= N PROVE f[m + 2] = sizes[1] + g[m + 1]
    OBVIOUS
  <2>. PICK j \in 1 .. N - 1 : j = m + 1
    BY <1>1
  <2>. PICK k \in 1 .. N : k = m + 2
    BY <1>1
  <2>1. j - 1 = m /\ k - 1 = m + 1 /\ j + 1 = k /\ m \in 0 .. N - 1
    BY <1>1
  <2>2. f[k] = f[k - 1] + sizes[k] /\ g[j] = g[j - 1] + rest[j] /\ rest[j] = sizes[k]
    BY <1>1, <1>2, <2>1
  <2>3. f[m + 1] = sizes[1] + g[m] /\ g[m] \in Nat
    BY <1>1, <1>2, <1>4, <2>1
  <2>4. sizes[k] \in Nat
    BY ElementOfSeq
  <2>5. f[k] = f[m + 1] + sizes[k] /\ g[j] = g[m] + sizes[k]
    BY <2>1, <2>2
  <2>6. f[k] = sizes[1] + g[j]
    <3>1. \A b, c \in Nat : (sizes[1] + b) + c = sizes[1] + (b + c)
      BY <1>1
    <3>2. f[k] = (sizes[1] + g[m]) + sizes[k]
      BY <2>3, <2>5, Zenon
    <3>3. (sizes[1] + g[m]) + sizes[k] = sizes[1] + (g[m] + sizes[k])
      BY <2>3, <2>4, <3>1, Zenon
    <3>. QED
      BY <2>5, <3>2, <3>3, Zenon
  <2>7. f[m + 2] = f[k] /\ g[m + 1] = g[j]
    OBVIOUS
  <2>. QED
    BY <2>6, <2>7
<1>5. Nat \subseteq T
  <2>. HIDE DEF T
  <2>. QED
    BY <1>3, <1>4, InductionFact
<1>6. f[N] = sizes[1] + g[N - 1]
  <2>1. N - 1 \in Nat
    BY <1>1
  <2>2. N - 1 \in T
    BY <1>5, <2>1
  <2>. QED
    BY <1>1, <2>1, <2>2
<1>. QED
  BY <1>1, <1>6 DEF rest

----------------------------------------------------------------------------
(* Items and what they hold *)

Size(box, item) == IF item.pos = 0 THEN 0 ELSE box[item.pos].bytes
Sizes(box, items) == [n \in DOMAIN items |-> Size(box, items[n])]
HeldIn(box, items) == Total(Sizes(box, items))
Placed(box, items) == \A n \in DOMAIN items : items[n].pos \in 1 .. Len(box)

LEMMA SizeFact ==
    ASSUME NEW box \in Seq(Lines), NEW item \in Item, item.pos <= Len(box)
    PROVE  Size(box, item) \in 0 .. MaxBytes
<1>1. MaxBytes \in Nat /\ MaxLines \in Nat
  BY RoomAssumption
<1>2. CASE item.pos = 0
  BY <1>1, <1>2 DEF Size
<1>3. CASE item.pos # 0
  <2>1. item.pos \in 1 .. Len(box)
    BY <1>1, <1>3 DEF Item, Positions
  <2>2. box[item.pos] \in Lines
    BY <2>1, ElementOfSeq
  <2>3. box[item.pos].bytes \in 0 .. MaxBytes
    BY <2>2, LinesAssumption
  <2>. QED
    BY <1>3, <2>3 DEF Size
<1>. QED
  BY <1>2, <1>3

LEMMA SizesFact ==
    ASSUME NEW box \in Seq(Lines), NEW items \in Seq(Item), Placed(box, items)
    PROVE  /\ Sizes(box, items) \in Seq(Nat) /\ Len(Sizes(box, items)) = Len(items)
           /\ \A n \in 1 .. Len(items) : Sizes(box, items)[n] = Size(box, items[n])
<1>1. DOMAIN items = 1 .. Len(items) /\ Len(items) \in Nat
  BY LenProperties
<1>2. \A n \in 1 .. Len(items) : Size(box, items[n]) \in Nat
  <2>. TAKE n \in 1 .. Len(items)
  <2>1. items[n] \in Item /\ items[n].pos <= Len(box)
    BY <1>1, ElementOfSeq, LenProperties DEF Placed
  <2>2. Size(box, items[n]) \in 0 .. MaxBytes
    BY <2>1, SizeFact
  <2>. QED
    BY <2>2, RoomAssumption
<1>3. Sizes(box, items) = [n \in 1 .. Len(items) |-> Size(box, items[n])]
  BY <1>1 DEF Sizes
<1>. QED
  BY <1>1, <1>2, <1>3

LEMMA HeldNat ==
    ASSUME NEW box \in Seq(Lines), NEW items \in Seq(Item), Placed(box, items)
    PROVE  HeldIn(box, items) \in Nat
BY SizesFact, TotalNat DEF HeldIn

LEMMA HeldEmpty ==
    ASSUME NEW box
    PROVE  HeldIn(box, <<>>) = 0
<1>1. Sizes(box, <<>>) = <<>>
  BY DEF Sizes
<1>. QED
  BY <1>1, TotalEmpty DEF HeldIn

LEMMA HeldAppend ==
    ASSUME NEW box \in Seq(Lines), NEW items \in Seq(Item), Placed(box, items),
           NEW item \in Item, item.pos \in 1 .. Len(box)
    PROVE  /\ Placed(box, Append(items, item))
           /\ HeldIn(box, Append(items, item)) = HeldIn(box, items) + Size(box, item)
<1>1. /\ Append(items, item) \in Seq(Item) /\ Len(Append(items, item)) = Len(items) + 1
      /\ Append(items, item)[Len(items) + 1] = item /\ Len(items) \in Nat
      /\ \A n \in 1 .. Len(items) : Append(items, item)[n] = items[n]
      /\ DOMAIN items = 1 .. Len(items)
      /\ DOMAIN Append(items, item) = 1 .. Len(items) + 1
  BY LenProperties
<1>2. Placed(box, Append(items, item))
  <2>. SUFFICES ASSUME NEW n \in 1 .. Len(items) + 1
                PROVE  Append(items, item)[n].pos \in 1 .. Len(box)
    BY <1>1 DEF Placed
  <2>1. CASE n \in 1 .. Len(items)
    BY <1>1, <2>1 DEF Placed
  <2>2. CASE n = Len(items) + 1
    BY <1>1, <2>2
  <2>. QED
    BY <1>1, <2>1, <2>2
<1>3. Size(box, item) \in Nat
  <2>1. item.pos <= Len(box)
    BY LenProperties
  <2>2. Size(box, item) \in 0 .. MaxBytes
    BY <2>1, SizeFact
  <2>. QED
    BY <2>2, RoomAssumption
<1>4. /\ Sizes(box, items) \in Seq(Nat) /\ Len(Sizes(box, items)) = Len(items)
      /\ \A n \in 1 .. Len(items) : Sizes(box, items)[n] = Size(box, items[n])
  BY SizesFact
<1>5. /\ Sizes(box, Append(items, item)) \in Seq(Nat)
      /\ Len(Sizes(box, Append(items, item))) = Len(items) + 1
      /\ \A n \in 1 .. Len(items) + 1 :
            Sizes(box, Append(items, item))[n] = Size(box, Append(items, item)[n])
  BY <1>1, <1>2, SizesFact
<1>6. Sizes(box, Append(items, item)) = Append(Sizes(box, items), Size(box, item))
  <2>. DEFINE s == Sizes(box, Append(items, item))
              t == Append(Sizes(box, items), Size(box, item))
  <2>1. s \in Seq(Nat) /\ t \in Seq(Nat) /\ Len(s) = Len(t) /\ Len(s) = Len(items) + 1
    BY <1>3, <1>4, <1>5
  <2>2. ASSUME NEW n \in 1 .. Len(s)
        PROVE  s[n] = t[n]
    <3>1. CASE n \in 1 .. Len(items)
      <4>1. s[n] = Size(box, items[n])
        BY <1>1, <1>5, <3>1
      <4>2. t[n] = Sizes(box, items)[n]
        BY <1>3, <1>4, <3>1
      <4>. QED
        BY <1>4, <3>1, <4>1, <4>2
    <3>2. CASE n = Len(items) + 1
      <4>1. s[n] = Size(box, item)
        BY <1>1, <1>5, <3>2
      <4>2. t[n] = Size(box, item)
        BY <1>3, <1>4, <3>2
      <4>. QED
        BY <4>1, <4>2
    <3>3. n \in 1 .. Len(items) \/ n = Len(items) + 1
      BY <1>1, <2>1
    <3>. QED
      BY <3>1, <3>2, <3>3
  <2>. HIDE DEF s, t
  <2>3. s = t
    BY <2>1, <2>2, SeqEqual
  <2>. QED
    BY <2>3 DEF s, t
<1>7. Total(Append(Sizes(box, items), Size(box, item))) = Total(Sizes(box, items)) + Size(box, item)
  BY <1>3, <1>4, TotalAppend
<1>. QED
  BY <1>2, <1>6, <1>7 DEF HeldIn

LEMMA HeldTail ==
    ASSUME NEW box \in Seq(Lines), NEW items \in Seq(Item), Placed(box, items), items # <<>>
    PROVE  /\ Placed(box, Tail(items)) /\ Head(items) \in Item /\ Head(items).pos \in 1 .. Len(box)
           /\ HeldIn(box, items) = Size(box, Head(items)) + HeldIn(box, Tail(items))
<1>1. /\ Tail(items) \in Seq(Item) /\ Len(Tail(items)) = Len(items) - 1 /\ Len(items) \in Nat \ {0}
      /\ Head(items) = items[1] /\ \A n \in 1 .. Len(items) - 1 : Tail(items)[n] = items[n + 1]
      /\ DOMAIN items = 1 .. Len(items) /\ DOMAIN Tail(items) = 1 .. Len(items) - 1
  <2>1. /\ Tail(items) \in Seq(Item) /\ Len(Tail(items)) = Len(items) - 1
        /\ \A n \in 1 .. Len(Tail(items)) : Tail(items)[n] = items[n + 1]
    BY HeadTailProperties
  <2>. QED
    BY <2>1, EmptySeq, LenProperties
<1>2. Placed(box, Tail(items))
  BY <1>1 DEF Placed
<1>3. Head(items) \in Item /\ Head(items).pos \in 1 .. Len(box)
  BY <1>1, ElementOfSeq DEF Placed
<1>4. /\ Sizes(box, items) \in Seq(Nat) /\ Len(Sizes(box, items)) = Len(items)
      /\ \A n \in 1 .. Len(items) : Sizes(box, items)[n] = Size(box, items[n])
  BY SizesFact
<1>5. /\ Sizes(box, Tail(items)) \in Seq(Nat) /\ Len(Sizes(box, Tail(items))) = Len(items) - 1
      /\ \A n \in 1 .. Len(items) - 1 : Sizes(box, Tail(items))[n] = Size(box, Tail(items)[n])
  BY <1>1, <1>2, SizesFact
<1>6. Sizes(box, items) # <<>>
  BY <1>1, <1>4, EmptySeq
<1>7. Sizes(box, Tail(items)) = Tail(Sizes(box, items))
  <2>. DEFINE s == Sizes(box, Tail(items))
              t == Tail(Sizes(box, items))
  <2>1. /\ s \in Seq(Nat) /\ t \in Seq(Nat) /\ Len(s) = Len(t) /\ Len(s) = Len(items) - 1
        /\ \A n \in 1 .. Len(items) - 1 : t[n] = Sizes(box, items)[n + 1]
    BY <1>4, <1>5, <1>6, HeadTailProperties
  <2>2. ASSUME NEW n \in 1 .. Len(s)
        PROVE  s[n] = t[n]
    <3>0. Len(s) = Len(items) - 1 /\ Len(items) \in Nat
      BY <1>1, <2>1
    <3>1. n \in 1 .. Len(items) - 1 /\ n + 1 \in 1 .. Len(items)
      BY <3>0
    <3>. QED
      BY <1>1, <1>4, <1>5, <2>1, <3>1
  <2>. HIDE DEF s, t
  <2>3. s = t
    BY <2>1, <2>2, SeqEqual
  <2>. QED
    BY <2>3 DEF s, t
<1>8. Head(Sizes(box, items)) = Size(box, Head(items))
  <2>1. Head(Sizes(box, items)) = Sizes(box, items)[1]
    BY <1>4, <1>6
  <2>2. 1 \in 1 .. Len(items)
    BY <1>1
  <2>. QED
    BY <1>1, <1>4, <2>1, <2>2
<1>9. Total(Sizes(box, items)) = Head(Sizes(box, items)) + Total(Tail(Sizes(box, items)))
  BY <1>4, <1>6, TotalTail
<1>. QED
  BY <1>2, <1>3, <1>7, <1>8, <1>9 DEF HeldIn

(* A line more in the file changes nothing of what is held.                 *)
LEMMA HeldKept ==
    ASSUME NEW box \in Seq(Lines), NEW line \in Lines, NEW items \in Seq(Item), Placed(box, items)
    PROVE  /\ Placed(Append(box, line), items)
           /\ HeldIn(Append(box, line), items) = HeldIn(box, items)
<1>1. /\ Len(Append(box, line)) = Len(box) + 1 /\ Len(box) \in Nat
      /\ \A n \in 1 .. Len(box) : Append(box, line)[n] = box[n]
  BY LenProperties
<1>2. Placed(Append(box, line), items)
  BY <1>1 DEF Placed
<1>3. ASSUME NEW n \in DOMAIN items
      PROVE  Size(Append(box, line), items[n]) = Size(box, items[n])
  <2>1. items[n].pos \in 1 .. Len(box)
    BY DEF Placed
  <2>. QED
    BY <1>1, <2>1 DEF Size
<1>4. Sizes(Append(box, line), items) = Sizes(box, items)
  BY <1>3 DEF Sizes
<1>. QED
  BY <1>2, <1>4 DEF HeldIn

----------------------------------------------------------------------------
(* The inductive invariant *)

Laden == {"admit", "await", "parked", "send"}

(* Where the tasks are says what they hold, and all they hold is of lines   *)
(* of the file.                                                            *)
Shape ==
    /\ tailer.pc \in Laden <=> tailer.batch # <<>>
    /\ Placed(outbox, lanes.startup) /\ Placed(outbox, lanes.outbox)
    /\ Placed(outbox, tailer.batch) /\ consumer.item.pos <= Len(outbox)
    /\ tailer.read <= Len(outbox) /\ tailer.probe <= Len(outbox)
    /\ \A n \in DOMAIN lanes.startup : lanes.startup[n].hoisted
    /\ consumer.pc \in {"next", "recv", "ended"} => consumer.item = NoItem
    /\ consumer.pc \in {"busy", "told"} => consumer.item.pos # 0
    /\ consumer.pc = "told" => consumer.item.hoisted

Accounts ==
    used = HeldIn(outbox, lanes.startup) + HeldIn(outbox, lanes.outbox)
             + Size(outbox, consumer.item) + Reserved

Line(p) == [pos |-> p, hoisted |-> FALSE]
InLine(items, from) == \A n \in DOMAIN items : items[n] = Line(from + n)
OnHand == IF consumer.item.pos = 0 \/ consumer.item.hoisted THEN 0 ELSE 1

(* LinesInOrder, for each of the places where a line may be.                *)
Lined ==
    /\ Hoisting => Len(tailer.batch) = 1
    /\ OnHand = 1 => consumer.item = Line(handled + 1)
    /\ InLine(lanes.outbox, handled + OnHand)
    /\ ~ Hoisting => InLine(tailer.batch, handled + OnHand + Len(lanes.outbox))
    /\ tailer.read = handled + OnHand + Len(lanes.outbox)
                       + (IF Hoisting THEN 0 ELSE Len(tailer.batch))

IInv == TypeOK /\ Shape /\ (Alive => Accounts /\ Lined)

LEMMA Numbers == /\ MaxBytes \in Nat \ {0} /\ MaxLines \in Nat /\ Chunk \in Nat \ {0}
                 /\ Positions = 0 .. MaxLines /\ Gone = -1
BY RoomAssumption DEF Positions, Gone

(* What EndTurn leaves alone.                                               *)
LEMMA EndTurnFact ==
    ASSUME healthy \in BOOLEAN, NEW t \in Tailer
    PROVE  /\ EndTurn(t) \in Tailer /\ EndTurn(t).pc \in {"sleep", "drain"}
           /\ EndTurn(t).batch = t.batch /\ EndTurn(t).read = t.read /\ EndTurn(t).probe = t.probe
<1>1. CASE t.caught
  BY <1>1 DEF EndTurn, Tailer
<1>2. CASE ~ t.caught
  BY <1>2 DEF EndTurn, Tailer
<1>. QED
  BY <1>1, <1>2

LEMMA TypeFacts ==
    ASSUME TypeOK
    PROVE  /\ outbox \in Seq(Lines) /\ Len(outbox) \in 0 .. MaxLines
           /\ tailer \in Tailer /\ tailer.batch \in Seq(Item) /\ consumer \in Consumer
           /\ lanes \in [startup : Seq(Item), outbox : Seq(Item)]
           /\ lanes.startup \in Seq(Item) /\ lanes.outbox \in Seq(Item)
           /\ used \in 0 .. MaxBytes /\ handled \in 0 .. MaxLines /\ tailer.read \in 0 .. MaxLines
           /\ consumer.item \in Item /\ healthy \in BOOLEAN
<1>1. outbox \in Seq(Lines) /\ Len(outbox) \in 0 .. MaxLines
  BY LenProperties, Numbers DEF TypeOK
<1>2. /\ tailer \in Tailer /\ consumer \in Consumer /\ used \in 0 .. MaxBytes
      /\ handled \in 0 .. MaxLines /\ healthy \in BOOLEAN
      /\ lanes \in [startup : Seq(Item), outbox : Seq(Item)]
  BY Numbers DEF TypeOK
<1>. QED
  BY <1>1, <1>2, Numbers DEF Tailer, Consumer

LEMMA ItemFact ==
    /\ NoItem \in Item
    /\ \A item \in Item : item.pos \in Nat /\ item.pos \in Positions /\ item.hoisted \in BOOLEAN
    /\ \A p \in Positions : \A h \in BOOLEAN : [pos |-> p, hoisted |-> h] \in Item
BY Numbers DEF Item, NoItem

(* A step that moves no line and reserves and releases nothing.             *)
LEMMA QuietStep ==
    ASSUME IInv, TypeOK',
           outbox' = outbox, used' = used, lanes' = lanes, handled' = handled,
           tailer'.batch = tailer.batch, tailer'.read = tailer.read,
           tailer'.pc \in Laden <=> tailer.pc \in Laden,
           tailer'.pc = "send" <=> tailer.pc = "send",
           tailer'.probe <= Len(outbox), consumer'.item = consumer.item,
           consumer'.pc \in {"next", "recv", "ended"} => consumer.item = NoItem,
           consumer'.pc \in {"busy", "told"} => consumer.item.pos # 0,
           consumer'.pc = "told" => consumer.item.hoisted,
           Alive' => Alive
    PROVE  IInv'
<1>1. Shape'
  BY DEF IInv, Shape
<1>2. (Reserved' = Reserved) /\ (Hoisting' <=> Hoisting) /\ (OnHand' = OnHand)
  <2>1. Reserved' = Reserved
    BY DEF Reserved, Bytes
  <2>2. Hoisting' <=> Hoisting
    BY DEF Hoisting
  <2>3. OnHand' = OnHand
    BY DEF OnHand
  <2>. QED
    BY <2>1, <2>2, <2>3
<1>3. Accounts => Accounts'
  BY <1>2 DEF Accounts
<1>4. Lined => Lined'
  BY <1>2 DEF Lined
<1>. QED
  BY <1>1, <1>3, <1>4 DEF IInv

LEMMA AppendStep ==
    ASSUME IInv, TypeOK', NEW line \in Lines, AppendLine(line)
    PROVE  IInv'
<1>1. outbox \in Seq(Lines) /\ consumer.item \in Item /\ outbox' = Append(outbox, line)
  BY TypeFacts DEF IInv, AppendLine
<1>2. UNCHANGED <<tailer, used, lanes, consumer, handled>>
  BY DEF AppendLine
<1>3. Len(outbox') = Len(outbox) + 1 /\ Len(outbox) \in Nat
  BY <1>1, LenProperties
<1>4. /\ Placed(outbox', lanes.startup) /\ HeldIn(outbox', lanes.startup) = HeldIn(outbox, lanes.startup)
      /\ Placed(outbox', lanes.outbox) /\ HeldIn(outbox', lanes.outbox) = HeldIn(outbox, lanes.outbox)
      /\ Placed(outbox', tailer.batch)
  <2>1. /\ lanes.startup \in Seq(Item) /\ lanes.outbox \in Seq(Item) /\ tailer.batch \in Seq(Item)
        /\ Placed(outbox, lanes.startup) /\ Placed(outbox, lanes.outbox) /\ Placed(outbox, tailer.batch)
    BY TypeFacts DEF IInv, Shape
  <2>. QED
    BY <1>1, <2>1, HeldKept
<1>5. \A item \in Item : item.pos <= Len(outbox) => Size(outbox', item) = Size(outbox, item)
  <2>. TAKE item \in Item
  <2>1. item.pos \in Nat
    BY ItemFact
  <2>. QED
    BY <1>1, <1>3, <2>1 DEF Size
<1>6. Shape'
  <2>1. tailer.read \in Nat /\ tailer.probe \in Int /\ consumer.item.pos \in Nat
    BY Numbers, TypeFacts, ItemFact DEF IInv, Tailer
  <2>. QED
    BY <1>2, <1>3, <1>4, <2>1 DEF IInv, Shape
<1>7. Reserved' = Reserved
  <2>1. CASE tailer.pc = "send"
    <3>1. /\ tailer.batch \in Seq(Item) /\ tailer.batch # <<>> /\ Placed(outbox, tailer.batch)
      BY <2>1, TypeFacts DEF IInv, Shape, Laden
    <3>2. Head(tailer.batch) \in Item /\ Head(tailer.batch).pos \in 1 .. Len(outbox)
      BY <1>1, <3>1, HeldTail
    <3>3. Size(outbox', Head(tailer.batch)) = Size(outbox, Head(tailer.batch))
      BY <1>3, <1>5, <3>2
    <3>4. /\ Reserved = Size(outbox, Head(tailer.batch))
          /\ Reserved' = Size(outbox', Head(tailer'.batch))
      BY <1>2, <2>1 DEF Reserved, Bytes, Size
    <3>. QED
      BY <1>2, <3>3, <3>4
  <2>2. CASE tailer.pc # "send"
    BY <1>2, <2>2 DEF Reserved
  <2>. QED
    BY <2>1, <2>2
<1>8. Accounts => Accounts'
  <2>1. Size(outbox', consumer.item) = Size(outbox, consumer.item)
    BY <1>1, <1>5 DEF IInv, Shape
  <2>. QED
    BY <1>2, <1>4, <1>7, <2>1 DEF Accounts
<1>9. Lined => Lined'
  BY <1>2 DEF Lined, Hoisting, OnHand
<1>. QED
  BY <1>2, <1>6, <1>8, <1>9 DEF IInv, Alive

(* The end of the session: nobody counts any more.                          *)
LEMMA EndStep ==
    ASSUME IInv, TypeOK', End
    PROVE  IInv'
<1>1. consumer' = [pc |-> "ended", item |-> NoItem] /\ UNCHANGED <<outbox, tailer, lanes>>
  BY DEF End
<1>2. Shape'
  <2>1. consumer'.item.pos = 0 /\ Len(outbox) \in Nat
    BY <1>1, TypeFacts DEF IInv, NoItem
  <2>. QED
    BY <1>1, <2>1 DEF IInv, Shape
<1>. QED
  BY <1>1, <1>2 DEF IInv, Alive

(* A read of one line or more by the ordered reader.                        *)
LEMMA BatchStep ==
    ASSUME IInv, TypeOK', At("read"), NEW to \in tailer.read + 1 .. Len(outbox),
           UNCHANGED <<outbox, used, lanes, consumer, handled>>,
           tailer'.pc = "admit", tailer'.read = to, tailer'.probe = Gone,
           tailer'.batch = [n \in 1 .. to - tailer.read |->
                              [pos |-> tailer.read + n, hoisted |-> FALSE]]
    PROVE  IInv'
<1>1. tailer.read \in Nat /\ to \in Nat /\ to <= Len(outbox) /\ Len(outbox) \in Nat /\ to > tailer.read
  BY TypeFacts DEF IInv
<1>. DEFINE len == to - tailer.read
<1>2. len \in Nat \ {0}
  BY <1>1
<1>3. /\ tailer'.batch = [n \in 1 .. len |-> Line(tailer.read + n)]
      /\ DOMAIN (tailer'.batch) = 1 .. len /\ Len(tailer'.batch) = len
      /\ \A n \in 1 .. len : tailer'.batch[n] = Line(tailer.read + n)
  BY <1>2 DEF Line
<1>4. tailer.pc = "read" /\ tailer.batch = <<>> /\ ~ Hoisting /\ Len(tailer.batch) = 0
  BY DEF At, IInv, Shape, Laden, Hoisting
<1>5. ~ Hoisting' /\ OnHand' = OnHand
  <2>1. \A n \in 1 .. len : tailer'.batch[n].hoisted = FALSE
    BY <1>3 DEF Line
  <2>2. ~ Hoisting'
    BY <1>3, <2>1 DEF Hoisting
  <2>. QED
    BY <2>2 DEF OnHand
<1>6. Shape'
  <2>1. Placed(outbox', tailer'.batch)
    BY <1>1, <1>2, <1>3 DEF Placed, Line
  <2>2. tailer'.batch # <<>>
    BY <1>2, <1>3
  <2>3. tailer'.probe <= Len(outbox)
    BY <1>1, Numbers
  <2>. QED
    BY <1>1, <2>1, <2>2, <2>3 DEF IInv, Shape, Laden
<1>7. Accounts => Accounts'
  BY <1>4 DEF Accounts, Reserved
<1>8. Lined => Lined'
  <2>. SUFFICES ASSUME Lined PROVE Lined'
    OBVIOUS
  <2>1. tailer.read = handled + OnHand + Len(lanes.outbox)
    <3>1. OnHand \in {0, 1} /\ handled \in Nat /\ Len(lanes.outbox) \in Nat
      BY TypeFacts, LenProperties DEF IInv, OnHand
    <3>. QED
      BY <1>4, <3>1 DEF Lined
  <2>2. InLine(tailer'.batch, tailer.read)
    BY <1>3 DEF InLine
  <2>3. tailer'.read = tailer.read + Len(tailer'.batch)
    BY <1>1, <1>3
  <2>. QED
    BY <1>5, <2>1, <2>2, <2>3 DEF Lined
<1>. QED
  BY <1>6, <1>7, <1>8 DEF IInv, Alive

(* The startup found ahead of the ordered reader.                           *)
LEMMA HoistStep ==
    ASSUME IInv, TypeOK', At("read"), NEW p \in 1 .. Len(outbox),
           UNCHANGED <<outbox, used, lanes, consumer, handled>>,
           tailer' = Hoisted(tailer, p)
    PROVE  IInv'
<1>1. Len(outbox) \in Nat /\ tailer \in Tailer
  BY TypeFacts DEF IInv
<1>2. /\ tailer'.pc = "admit" /\ tailer'.probe = Gone /\ tailer'.read = tailer.read
      /\ tailer'.batch = <<[pos |-> p, hoisted |-> TRUE]>>
  BY <1>1 DEF Hoisted, Tailer
<1>3. /\ DOMAIN (tailer'.batch) = {1} /\ Len(tailer'.batch) = 1 /\ tailer'.batch # <<>>
      /\ tailer'.batch[1] = [pos |-> p, hoisted |-> TRUE]
  BY <1>2
<1>4. tailer.pc = "read" /\ tailer.batch = <<>> /\ ~ Hoisting /\ Len(tailer.batch) = 0
  BY DEF At, IInv, Shape, Laden, Hoisting
<1>5. Hoisting' /\ OnHand' = OnHand
  <2>1. Hoisting'
    BY <1>3 DEF Hoisting
  <2>. QED
    BY <2>1 DEF OnHand
<1>6. Shape'
  <2>1. Placed(outbox', tailer'.batch)
    BY <1>3 DEF Placed
  <2>2. tailer'.probe <= Len(outbox)
    BY <1>1, <1>2, Numbers
  <2>. QED
    BY <1>2, <1>3, <2>1, <2>2 DEF IInv, Shape, Laden
<1>7. Accounts => Accounts'
  BY <1>2, <1>4 DEF Accounts, Reserved
<1>8. Lined => Lined'
  BY <1>2, <1>3, <1>4, <1>5 DEF Lined
<1>. QED
  BY <1>6, <1>7, <1>8 DEF IInv, Alive

(* The first item of a batch and the bytes it takes.                        *)
LEMMA FirstOfBatch ==
    ASSUME IInv, tailer.pc \in Laden
    PROVE  /\ tailer.batch # <<>> /\ Head(tailer.batch) \in Item /\ Head(tailer.batch) = tailer.batch[1]
           /\ Head(tailer.batch).pos \in 1 .. Len(outbox)
           /\ Bytes(Head(tailer.batch)) = Size(outbox, Head(tailer.batch))
           /\ Bytes(Head(tailer.batch)) \in 0 .. MaxBytes
           /\ Tail(tailer.batch) \in Seq(Item) /\ Len(Tail(tailer.batch)) = Len(tailer.batch) - 1
           /\ Len(tailer.batch) \in Nat \ {0} /\ DOMAIN tailer.batch = 1 .. Len(tailer.batch)
           /\ Placed(outbox, Tail(tailer.batch))
           /\ \A n \in 1 .. Len(tailer.batch) - 1 : Tail(tailer.batch)[n] = tailer.batch[n + 1]
<1>1. /\ outbox \in Seq(Lines) /\ tailer.batch \in Seq(Item) /\ tailer.batch # <<>>
      /\ Placed(outbox, tailer.batch)
  BY TypeFacts DEF IInv, Shape
<1>2. Head(tailer.batch) \in Item /\ Head(tailer.batch).pos \in 1 .. Len(outbox)
      /\ Placed(outbox, Tail(tailer.batch))
  BY <1>1, HeldTail
<1>3. Size(outbox, Head(tailer.batch)) \in 0 .. MaxBytes
  <2>1. Head(tailer.batch).pos <= Len(outbox)
    BY <1>1, <1>2, LenProperties
  <2>. QED
    BY <1>1, <1>2, <2>1, SizeFact
<1>4. Bytes(Head(tailer.batch)) = Size(outbox, Head(tailer.batch))
  BY DEF Bytes, Size
<1>5. /\ Tail(tailer.batch) \in Seq(Item) /\ Len(Tail(tailer.batch)) = Len(tailer.batch) - 1
      /\ \A n \in 1 .. Len(Tail(tailer.batch)) : Tail(tailer.batch)[n] = tailer.batch[n + 1]
  BY <1>1, HeadTailProperties
<1>6. /\ Head(tailer.batch) = tailer.batch[1] /\ Len(tailer.batch) \in Nat \ {0}
      /\ DOMAIN tailer.batch = 1 .. Len(tailer.batch)
  BY <1>1, EmptySeq, LenProperties
<1>. QED
  BY <1>1, <1>2, <1>3, <1>4, <1>5, <1>6

LEMMA AdmitStep ==
    ASSUME IInv, TypeOK', Admit
    PROVE  IInv'
<1>1. /\ tailer.pc = "admit" /\ Alive /\ tailer \in Tailer
      /\ UNCHANGED <<outbox, lanes, consumer, handled>>
  BY TypeFacts DEF Admit, At, IInv
<1>2. CASE used' = used /\ tailer' = [tailer EXCEPT !.pc = "await"]
  <2>1. /\ tailer'.pc = "await" /\ tailer'.batch = tailer.batch /\ tailer'.read = tailer.read
        /\ tailer'.probe = tailer.probe
    BY <1>1, <1>2 DEF Tailer
  <2>. QED
    BY <1>1, <1>2, <2>1, QuietStep DEF Laden, IInv, Shape, Alive
<1>3. CASE used' = used + Bytes(Head(tailer.batch)) /\ tailer' = [tailer EXCEPT !.pc = "send"]
  <2>1. /\ tailer'.pc = "send" /\ tailer'.batch = tailer.batch /\ tailer'.read = tailer.read
        /\ tailer'.probe = tailer.probe
    BY <1>1, <1>3 DEF Tailer
  <2>2. Shape'
    BY <1>1, <2>1 DEF IInv, Shape, Laden
  <2>3. Accounts'
    <3>1. Reserved = 0 /\ Reserved' = Bytes(Head(tailer.batch))
      BY <1>1, <2>1 DEF Reserved, Bytes
    <3>2. Accounts
      BY <1>1 DEF IInv
    <3>3. /\ HeldIn(outbox, lanes.startup) \in Nat /\ HeldIn(outbox, lanes.outbox) \in Nat
          /\ Size(outbox, consumer.item) \in Nat
      <4>1. /\ outbox \in Seq(Lines) /\ lanes.startup \in Seq(Item) /\ lanes.outbox \in Seq(Item)
            /\ consumer.item \in Item
        BY TypeFacts DEF IInv
      <4>2. Placed(outbox, lanes.startup) /\ Placed(outbox, lanes.outbox) /\ consumer.item.pos <= Len(outbox)
        BY DEF IInv, Shape
      <4>3. Size(outbox, consumer.item) \in 0 .. MaxBytes
        BY <4>1, <4>2, SizeFact
      <4>. QED
        BY <4>1, <4>2, <4>3, HeldNat, Numbers
    <3>4. Bytes(Head(tailer.batch)) \in Nat
      BY <1>1, FirstOfBatch, Numbers DEF Laden
    <3>. QED
      BY <1>1, <1>3, <3>1, <3>2, <3>3, <3>4 DEF Accounts
  <2>4. Lined'
    <3>1. Lined
      BY <1>1 DEF IInv
    <3>. QED
      BY <1>1, <2>1, <3>1 DEF Lined, Hoisting, OnHand
  <2>. QED
    BY <2>2, <2>3, <2>4 DEF IInv
<1>. QED
  BY <1>2, <1>3 DEF Admit

(* What the lanes and the consumer hold are numbers.                        *)
LEMMA HeldNumbers ==
    ASSUME IInv
    PROVE  /\ HeldIn(outbox, lanes.startup) \in Nat /\ HeldIn(outbox, lanes.outbox) \in Nat
           /\ Size(outbox, consumer.item) \in 0 .. MaxBytes
           /\ Reserved \in Nat
<1>1. /\ outbox \in Seq(Lines) /\ lanes.startup \in Seq(Item) /\ lanes.outbox \in Seq(Item)
      /\ consumer.item \in Item
  BY TypeFacts DEF IInv
<1>2. Placed(outbox, lanes.startup) /\ Placed(outbox, lanes.outbox) /\ consumer.item.pos <= Len(outbox)
  BY DEF IInv, Shape
<1>3. Size(outbox, consumer.item) \in 0 .. MaxBytes
  BY <1>1, <1>2, SizeFact
<1>4. Reserved \in Nat
  <2>1. CASE tailer.pc = "send"
    <3>1. Bytes(Head(tailer.batch)) \in 0 .. MaxBytes
      BY <2>1, FirstOfBatch DEF Laden
    <3>. QED
      BY <2>1, <3>1, Numbers DEF Reserved
  <2>2. CASE tailer.pc # "send"
    BY <2>2 DEF Reserved
  <2>. QED
    BY <2>1, <2>2
<1>. QED
  BY <1>1, <1>2, <1>3, <1>4, HeldNat

(* The item that is sent, and the tailer without it.                        *)
LEMMA SendFact ==
    ASSUME IInv, Send
    PROVE  /\ tailer.pc = "send" /\ Alive
           /\ tailer'.batch = Tail(tailer.batch) /\ tailer'.read = tailer.read
           /\ tailer'.probe = tailer.probe /\ tailer' \in Tailer
           /\ tailer'.pc # "send" /\ (tailer'.pc \in Laden <=> tailer'.batch # <<>>)
           /\ UNCHANGED <<outbox, used, consumer, handled>>
<1>. DEFINE rest == [tailer EXCEPT !.batch = Tail(@)]
<1>1. /\ tailer.pc = "send" /\ Alive /\ tailer \in Tailer /\ healthy \in BOOLEAN
      /\ UNCHANGED <<outbox, used, consumer, handled>>
  BY TypeFacts DEF Send, At, IInv
<1>2. Tail(tailer.batch) \in Seq(Item)
  BY <1>1, FirstOfBatch DEF Laden
<1>3. /\ rest \in Tailer /\ rest.batch = Tail(tailer.batch) /\ rest.read = tailer.read
      /\ rest.probe = tailer.probe
  BY <1>1, <1>2 DEF Tailer
<1>4. tailer' = IF rest.batch = <<>> THEN EndTurn(rest) ELSE [rest EXCEPT !.pc = "admit"]
  BY DEF Send
<1>. HIDE DEF rest
<1>5. CASE rest.batch = <<>>
  <2>1. /\ tailer' \in Tailer /\ tailer'.pc \in {"sleep", "drain"} /\ tailer'.batch = rest.batch
        /\ tailer'.read = rest.read /\ tailer'.probe = rest.probe
    BY <1>1, <1>3, <1>4, <1>5, EndTurnFact
  <2>. QED
    BY <1>1, <1>3, <1>5, <2>1 DEF Laden
<1>6. CASE rest.batch # <<>>
  <2>1. /\ tailer' \in Tailer /\ tailer'.pc = "admit" /\ tailer'.batch = rest.batch
        /\ tailer'.read = rest.read /\ tailer'.probe = rest.probe
    BY <1>3, <1>4, <1>6 DEF Tailer
  <2>. QED
    BY <1>1, <1>3, <1>6, <2>1 DEF Laden
<1>. QED
  BY <1>5, <1>6

LEMMA SendStartupOn ==
    ASSUME IInv, TypeOK', Send, Head(tailer.batch).hoisted
    PROVE  IInv'
<1>. DEFINE item == Head(tailer.batch)
<1>1. /\ tailer.pc = "send" /\ Alive
      /\ tailer'.batch = Tail(tailer.batch) /\ tailer'.read = tailer.read
      /\ tailer'.probe = tailer.probe
      /\ tailer'.pc # "send" /\ (tailer'.pc \in Laden <=> tailer'.batch # <<>>)
      /\ UNCHANGED <<outbox, used, consumer, handled>>
  BY SendFact
<1>2. lanes.startup = <<>> /\ lanes' = [lanes EXCEPT !.startup = <<item>>]
  BY DEF Send
<1>3. lanes'.startup = <<item>> /\ lanes'.outbox = lanes.outbox
  BY <1>2, TypeFacts DEF IInv
<1>4. /\ item \in Item /\ item = tailer.batch[1] /\ item.pos \in 1 .. Len(outbox)
      /\ Bytes(item) = Size(outbox, item) /\ Len(tailer.batch) \in Nat \ {0}
      /\ DOMAIN tailer.batch = 1 .. Len(tailer.batch)
      /\ Tail(tailer.batch) \in Seq(Item) /\ Len(Tail(tailer.batch)) = Len(tailer.batch) - 1
      /\ Bytes(item) \in Nat /\ Placed(outbox, Tail(tailer.batch))
  BY <1>1, FirstOfBatch, Numbers DEF Laden
<1>5. item.hoisted
  OBVIOUS
<1>. HIDE DEF item
<1>6. Shape'
  <2>1. DOMAIN (<<item>>) = {1} /\ <<item>>[1] = item
    OBVIOUS
  <2>2. Placed(outbox, <<item>>) /\ \A n \in DOMAIN (<<item>>) : <<item>>[n].hoisted
    BY <1>4, <1>5, <2>1 DEF Placed
  <2>. QED
    BY <1>1, <1>3, <1>4, <2>2 DEF IInv, Shape
<1>7. Accounts'
  <2>1. Accounts /\ Reserved = Size(outbox, item) /\ Reserved' = 0
    <3>1. Reserved = Bytes(Head(tailer.batch)) /\ Reserved' = 0
      BY <1>1 DEF Reserved
    <3>. QED
      BY <1>1, <1>4, <3>1 DEF IInv, item
  <2>2. HeldIn(outbox, <<item>>) = Size(outbox, item)
    <3>1. outbox \in Seq(Lines) /\ <<>> \in Seq(Item) /\ Placed(outbox, <<>>)
      BY TypeFacts DEF IInv, Placed
    <3>2. Append(<<>>, item) = <<item>>
      OBVIOUS
    <3>3. HeldIn(outbox, Append(<<>>, item)) = HeldIn(outbox, <<>>) + Size(outbox, item)
      BY <1>4, <3>1, HeldAppend
    <3>. QED
      BY <1>4, <3>2, <3>3, HeldEmpty
  <2>3. HeldIn(outbox, lanes.startup) = 0
    BY <1>2, HeldEmpty
  <2>4. /\ HeldIn(outbox, lanes.outbox) \in Nat /\ Size(outbox, consumer.item) \in Nat
        /\ Size(outbox, item) \in Nat
    BY <1>4, HeldNumbers, Numbers
  <2>5. used' = HeldIn(outbox', lanes'.startup) + HeldIn(outbox', lanes'.outbox)
                  + Size(outbox', consumer'.item) + Reserved'
    BY <1>1, <1>3, <2>1, <2>2, <2>3, <2>4 DEF Accounts
  <2>. QED
    BY <2>5 DEF Accounts
<1>8. Lined'
  <2>1. Lined /\ Hoisting
    BY <1>1, <1>4, <1>5 DEF IInv, Hoisting
  <2>2. Len(tailer.batch) = 1
    BY <2>1 DEF Lined
  <2>3. Tail(tailer.batch) = <<>> /\ Len(<<>>) = 0
    <3>1. Len(Tail(tailer.batch)) = 0 /\ Tail(tailer.batch) \in Seq(Item)
      BY <1>4, <2>2
    <3>. QED
      BY <3>1, EmptySeq
  <2>4. ~ Hoisting' /\ OnHand' = OnHand
    BY <1>1, <2>3 DEF Hoisting, OnHand
  <2>5. InLine(<<>>, handled + OnHand + Len(lanes.outbox))
    BY DEF InLine
  <2>. QED
    BY <1>1, <1>3, <2>1, <2>3, <2>4, <2>5 DEF Lined
<1>. QED
  BY <1>6, <1>7, <1>8 DEF IInv

LEMMA SendLineOn ==
    ASSUME IInv, TypeOK', Send, ~ Head(tailer.batch).hoisted
    PROVE  IInv'
<1>. DEFINE item == Head(tailer.batch)
            rest == Tail(tailer.batch)
            queue == Append(lanes.outbox, item)
<1>1. /\ tailer.pc = "send" /\ Alive
      /\ tailer'.batch = rest /\ tailer'.read = tailer.read
      /\ tailer'.probe = tailer.probe
      /\ tailer'.pc # "send" /\ (tailer'.pc \in Laden <=> tailer'.batch # <<>>)
      /\ UNCHANGED <<outbox, used, consumer, handled>>
  BY SendFact
<1>2. lanes'.startup = lanes.startup /\ lanes'.outbox = queue
  <2>1. lanes' = [lanes EXCEPT !.outbox = Append(@, item)]
    BY DEF Send
  <2>. QED
    BY <2>1, TypeFacts DEF IInv
<1>3. /\ item \in Item /\ item = tailer.batch[1] /\ item.pos \in 1 .. Len(outbox)
      /\ Bytes(item) = Size(outbox, item) /\ Len(tailer.batch) \in Nat \ {0}
      /\ DOMAIN tailer.batch = 1 .. Len(tailer.batch)
      /\ rest \in Seq(Item) /\ Len(rest) = Len(tailer.batch) - 1
      /\ Bytes(item) \in Nat /\ Placed(outbox, rest)
      /\ \A n \in 1 .. Len(tailer.batch) - 1 : rest[n] = tailer.batch[n + 1]
  BY <1>1, FirstOfBatch, Numbers DEF Laden
<1>4. ~ item.hoisted
  OBVIOUS
<1>5. /\ outbox \in Seq(Lines) /\ lanes.outbox \in Seq(Item) /\ Placed(outbox, lanes.outbox)
      /\ handled \in Nat /\ OnHand \in {0, 1}
  BY TypeFacts DEF IInv, Shape, OnHand
<1>6. Placed(outbox, queue) /\ HeldIn(outbox, queue) = HeldIn(outbox, lanes.outbox) + Size(outbox, item)
  BY <1>3, <1>5, HeldAppend
<1>7. /\ Len(queue) = Len(lanes.outbox) + 1 /\ DOMAIN queue = 1 .. Len(lanes.outbox) + 1
      /\ Len(lanes.outbox) \in Nat /\ DOMAIN lanes.outbox = 1 .. Len(lanes.outbox)
      /\ DOMAIN rest = 1 .. Len(tailer.batch) - 1
      /\ queue[Len(lanes.outbox) + 1] = item
      /\ \A n \in 1 .. Len(lanes.outbox) : queue[n] = lanes.outbox[n]
  BY <1>3, <1>5, LenProperties
<1>8. Lined /\ Accounts
  BY <1>1 DEF IInv
<1>9. Reserved = Size(outbox, item) /\ Reserved' = 0
  <2>1. Reserved = Bytes(Head(tailer.batch)) /\ Reserved' = 0
    BY <1>1 DEF Reserved
  <2>. QED
    BY <1>3, <2>1
<1>. HIDE DEF item, rest, queue
<1>10. Shape'
  BY <1>1, <1>2, <1>3, <1>6 DEF IInv, Shape
<1>11. Accounts'
  <2>1. /\ HeldIn(outbox, lanes.startup) \in Nat /\ HeldIn(outbox, lanes.outbox) \in Nat
        /\ Size(outbox, consumer.item) \in Nat /\ Size(outbox, item) \in Nat
    BY <1>3, HeldNumbers, Numbers
  <2>2. used' = HeldIn(outbox', lanes'.startup) + HeldIn(outbox', lanes'.outbox)
                  + Size(outbox', consumer'.item) + Reserved'
    BY <1>1, <1>2, <1>6, <1>8, <1>9, <2>1 DEF Accounts
  <2>. QED
    BY <2>2 DEF Accounts
<1>12. ~ Hoisting
  <2>1. ASSUME Hoisting PROVE FALSE
    <3>1. Len(tailer.batch) = 1
      BY <1>8, <2>1 DEF Lined
    <3>2. tailer.batch[1].hoisted
      BY <1>3, <2>1, <3>1 DEF Hoisting
    <3>. QED
      BY <1>3, <1>4, <3>2
  <2>. QED
    BY <2>1
<1>13. ~ Hoisting' /\ OnHand' = OnHand
  <2>1. \A n \in DOMAIN rest : ~ rest[n].hoisted
    <3>. TAKE n \in DOMAIN rest
    <3>1. n + 1 \in DOMAIN tailer.batch /\ rest[n] = tailer.batch[n + 1]
      BY <1>3, <1>7
    <3>. QED
      BY <1>12, <3>1 DEF Hoisting
  <2>. QED
    BY <1>1, <2>1 DEF Hoisting, OnHand
<1>14. Lined'
  <2>. DEFINE len == Len(lanes.outbox)
              base == handled + OnHand
  <2>0. base \in Nat /\ len \in Nat
    BY <1>5, <1>7
  <2>1. InLine(lanes.outbox, base) /\ InLine(tailer.batch, base + len)
    BY <1>8, <1>12 DEF Lined
  <2>2. InLine(queue, base)
    <3>. SUFFICES ASSUME NEW n \in DOMAIN queue PROVE queue[n] = Line(base + n)
      BY DEF InLine
    <3>1. CASE n \in 1 .. len
      BY <1>7, <2>1, <3>1 DEF InLine
    <3>2. CASE n = len + 1
      <4>1. 1 \in DOMAIN tailer.batch
        BY <1>3
      <4>2. tailer.batch[1] = Line(base + len + 1)
        BY <2>1, <4>1 DEF InLine
      <4>3. base + len + 1 = base + n
        BY <2>0, <3>2
      <4>. QED
        BY <1>3, <1>7, <3>2, <4>2, <4>3
    <3>. QED
      BY <1>7, <3>1, <3>2
  <2>3. InLine(rest, base + (len + 1))
    <3>. SUFFICES ASSUME NEW n \in DOMAIN rest PROVE rest[n] = Line(base + (len + 1) + n)
      BY DEF InLine
    <3>0. n \in 1 .. Len(tailer.batch) - 1 /\ Len(tailer.batch) \in Nat
      BY <1>3, <1>7
    <3>1. n \in Nat /\ n + 1 \in DOMAIN tailer.batch /\ rest[n] = tailer.batch[n + 1]
      <4>1. n \in Nat /\ n + 1 \in 1 .. Len(tailer.batch)
        BY <3>0
      <4>. QED
        BY <1>3, <3>0, <4>1
    <3>2. tailer.batch[n + 1] = Line(base + len + (n + 1))
      BY <2>1, <3>1 DEF InLine
    <3>3. base + len + (n + 1) = base + (len + 1) + n
      BY <2>0, <3>1
    <3>. QED
      BY <3>1, <3>2, <3>3
  <2>4. tailer.read = base + len + Len(tailer.batch)
    BY <1>8, <1>12 DEF Lined
  <2>5. tailer.read = base + (len + 1) + Len(rest)
    <3>1. Len(tailer.batch) \in Nat /\ Len(rest) = Len(tailer.batch) - 1
      BY <1>3
    <3>2. \A a, b, c \in Nat : a + b + c = a + (b + 1) + (c - 1)
      OBVIOUS
    <3>3. base + len + Len(tailer.batch) = base + (len + 1) + (Len(tailer.batch) - 1)
      BY <2>0, <3>1, <3>2, Zenon
    <3>. QED
      BY <2>4, <3>1, <3>3, Zenon
  <2>6. OnHand = 1 => consumer.item = Line(handled + 1)
    BY <1>8 DEF Lined
  <2>7. Len(queue) = len + 1
    BY <1>7
  <2>. QED
    BY <1>1, <1>2, <1>13, <2>2, <2>3, <2>5, <2>6, <2>7 DEF Lined
<1>. QED
  BY <1>10, <1>11, <1>14 DEF IInv

(* The consumer takes the first item of a lane.                             *)
LEMMA ReceiveStartup ==
    ASSUME IInv, TypeOK', Receive, ~ onWire
    PROVE  IInv'
<1>. DEFINE item == Head(lanes.startup)
<1>1. /\ consumer.pc = "recv" /\ lanes.startup # <<>> /\ Alive
      /\ consumer'.pc = "busy" /\ consumer'.item = item
      /\ UNCHANGED <<outbox, tailer, used, handled>>
  BY DEF Receive, Listened, Alive
<1>2. lanes'.startup = Tail(lanes.startup) /\ lanes'.outbox = lanes.outbox
  BY TypeFacts DEF IInv, Receive
<1>3. /\ outbox \in Seq(Lines) /\ lanes.startup \in Seq(Item) /\ Placed(outbox, lanes.startup)
      /\ \A n \in DOMAIN lanes.startup : lanes.startup[n].hoisted
      /\ consumer.item = NoItem /\ Accounts /\ Lined
  BY <1>1, TypeFacts DEF IInv, Shape
<1>4. /\ Placed(outbox, Tail(lanes.startup)) /\ item \in Item /\ item.pos \in 1 .. Len(outbox)
      /\ HeldIn(outbox, lanes.startup) = Size(outbox, item) + HeldIn(outbox, Tail(lanes.startup))
  BY <1>1, <1>3, HeldTail
<1>5. /\ Tail(lanes.startup) \in Seq(Item) /\ Len(Tail(lanes.startup)) = Len(lanes.startup) - 1
      /\ \A n \in 1 .. Len(Tail(lanes.startup)) : Tail(lanes.startup)[n] = lanes.startup[n + 1]
      /\ item = lanes.startup[1] /\ Len(lanes.startup) \in Nat \ {0}
      /\ DOMAIN lanes.startup = 1 .. Len(lanes.startup)
      /\ DOMAIN Tail(lanes.startup) = 1 .. Len(lanes.startup) - 1
  <2>1. /\ Tail(lanes.startup) \in Seq(Item) /\ Len(Tail(lanes.startup)) = Len(lanes.startup) - 1
        /\ \A n \in 1 .. Len(Tail(lanes.startup)) : Tail(lanes.startup)[n] = lanes.startup[n + 1]
    BY <1>1, <1>3, HeadTailProperties
  <2>2. item = lanes.startup[1] /\ Len(lanes.startup) \in Nat \ {0}
        /\ DOMAIN lanes.startup = 1 .. Len(lanes.startup)
    BY <1>1, <1>3, EmptySeq, LenProperties
  <2>3. DOMAIN Tail(lanes.startup) = 1 .. Len(lanes.startup) - 1
    BY <2>1, LenProperties
  <2>. QED
    BY <2>1, <2>2, <2>3
<1>6. item.hoisted
  BY <1>3, <1>5
<1>. HIDE DEF item
<1>7. Shape'
  <2>1. \A n \in DOMAIN Tail(lanes.startup) : Tail(lanes.startup)[n].hoisted
    BY <1>3, <1>5
  <2>2. consumer'.item.pos \in 1 .. Len(outbox) /\ Len(outbox) \in Nat
    BY <1>1, <1>3, <1>4, LenProperties
  <2>3. consumer'.item.pos <= Len(outbox) /\ consumer'.item.pos # 0
    BY <2>2
  <2>. QED
    BY <1>1, <1>2, <1>4, <2>1, <2>3 DEF IInv, Shape
<1>8. Reserved' = Reserved /\ (Hoisting' <=> Hoisting) /\ OnHand' = 0 /\ OnHand = 0
  <2>1. OnHand' = 0 /\ OnHand = 0
    BY <1>1, <1>3, <1>6 DEF OnHand, NoItem
  <2>2. Reserved' = Reserved /\ (Hoisting' <=> Hoisting)
    BY <1>1 DEF Reserved, Bytes, Hoisting
  <2>. QED
    BY <2>1, <2>2
<1>9. Accounts'
  <2>1. Size(outbox, consumer.item) = 0
    BY <1>3 DEF Size, NoItem
  <2>2. /\ HeldIn(outbox, Tail(lanes.startup)) \in Nat /\ HeldIn(outbox, lanes.outbox) \in Nat
        /\ Size(outbox, item) \in Nat /\ Reserved \in Nat
    <3>1. HeldIn(outbox, Tail(lanes.startup)) \in Nat
      BY <1>3, <1>4, <1>5, HeldNat
    <3>2. item.pos <= Len(outbox)
      BY <1>3, <1>4, LenProperties
    <3>3. Size(outbox, item) \in 0 .. MaxBytes
      BY <1>3, <1>4, <3>2, SizeFact
    <3>. QED
      BY <3>1, <3>3, HeldNumbers, Numbers
  <2>3. used' = HeldIn(outbox', lanes'.startup) + HeldIn(outbox', lanes'.outbox)
                  + Size(outbox', consumer'.item) + Reserved'
    BY <1>1, <1>2, <1>3, <1>4, <1>8, <2>1, <2>2 DEF Accounts
  <2>. QED
    BY <2>3 DEF Accounts
<1>10. Lined'
  BY <1>1, <1>2, <1>3, <1>8 DEF Lined
<1>. QED
  BY <1>7, <1>9, <1>10 DEF IInv

LEMMA ReceiveLine ==
    ASSUME IInv, TypeOK', Receive, onWire
    PROVE  IInv'
<1>. DEFINE item == Head(lanes.outbox)
            rest == Tail(lanes.outbox)
<1>1. /\ consumer.pc = "recv" /\ lanes.outbox # <<>> /\ Alive
      /\ consumer'.pc = "busy" /\ consumer'.item = item
      /\ UNCHANGED <<outbox, tailer, used, handled>>
  BY DEF Receive, Listened, Alive
<1>2. lanes'.startup = lanes.startup /\ lanes'.outbox = rest
  BY TypeFacts DEF IInv, Receive
<1>3. /\ outbox \in Seq(Lines) /\ lanes.outbox \in Seq(Item) /\ Placed(outbox, lanes.outbox)
      /\ consumer.item = NoItem /\ Accounts /\ Lined /\ handled \in Nat
  BY <1>1, TypeFacts DEF IInv, Shape
<1>4. /\ Placed(outbox, rest) /\ item \in Item /\ item.pos \in 1 .. Len(outbox)
      /\ HeldIn(outbox, lanes.outbox) = Size(outbox, item) + HeldIn(outbox, rest)
  BY <1>1, <1>3, HeldTail
<1>5. /\ rest \in Seq(Item) /\ Len(rest) = Len(lanes.outbox) - 1
      /\ item = lanes.outbox[1] /\ Len(lanes.outbox) \in Nat \ {0}
      /\ DOMAIN lanes.outbox = 1 .. Len(lanes.outbox)
      /\ DOMAIN rest = 1 .. Len(lanes.outbox) - 1
      /\ \A n \in 1 .. Len(lanes.outbox) - 1 : rest[n] = lanes.outbox[n + 1]
  <2>1. /\ rest \in Seq(Item) /\ Len(rest) = Len(lanes.outbox) - 1
        /\ \A n \in 1 .. Len(rest) : rest[n] = lanes.outbox[n + 1]
    BY <1>1, <1>3, HeadTailProperties
  <2>2. item = lanes.outbox[1] /\ Len(lanes.outbox) \in Nat \ {0}
        /\ DOMAIN lanes.outbox = 1 .. Len(lanes.outbox)
    BY <1>1, <1>3, EmptySeq, LenProperties
  <2>3. DOMAIN rest = 1 .. Len(lanes.outbox) - 1
    BY <2>1, LenProperties
  <2>. QED
    BY <2>1, <2>2, <2>3
<1>. HIDE DEF item, rest
<1>6. OnHand = 0 /\ item = Line(handled + 1)
  <2>1. OnHand = 0
    BY <1>3 DEF OnHand, NoItem
  <2>2. 1 \in DOMAIN lanes.outbox /\ InLine(lanes.outbox, handled + OnHand)
    BY <1>3, <1>5 DEF Lined
  <2>3. item = Line(handled + OnHand + 1)
    BY <1>5, <2>2 DEF InLine
  <2>. QED
    BY <1>3, <2>1, <2>3
<1>7. Shape'
  <2>1. consumer'.item.pos \in 1 .. Len(outbox) /\ Len(outbox) \in Nat
    BY <1>1, <1>3, <1>4, LenProperties
  <2>2. consumer'.item.pos <= Len(outbox) /\ consumer'.item.pos # 0
    BY <2>1
  <2>. QED
    BY <1>1, <1>2, <1>4, <2>2 DEF IInv, Shape
<1>8. Reserved' = Reserved /\ (Hoisting' <=> Hoisting) /\ OnHand' = 1
  <2>1. OnHand' = 1
    <3>1. item.pos # 0 /\ ~ item.hoisted
      BY <1>3, <1>6 DEF Line
    <3>. QED
      BY <1>1, <3>1 DEF OnHand
  <2>2. Reserved' = Reserved /\ (Hoisting' <=> Hoisting)
    BY <1>1 DEF Reserved, Bytes, Hoisting
  <2>. QED
    BY <2>1, <2>2
<1>9. Accounts'
  <2>1. Size(outbox, consumer.item) = 0
    BY <1>3 DEF Size, NoItem
  <2>2. /\ HeldIn(outbox, rest) \in Nat /\ HeldIn(outbox, lanes.startup) \in Nat
        /\ Size(outbox, item) \in Nat /\ Reserved \in Nat
    <3>1. HeldIn(outbox, rest) \in Nat
      BY <1>3, <1>4, <1>5, HeldNat
    <3>2. item.pos <= Len(outbox)
      BY <1>3, <1>4, LenProperties
    <3>3. Size(outbox, item) \in 0 .. MaxBytes
      BY <1>3, <1>4, <3>2, SizeFact
    <3>. QED
      BY <3>1, <3>3, HeldNumbers, Numbers
  <2>3. used' = HeldIn(outbox', lanes'.startup) + HeldIn(outbox', lanes'.outbox)
                  + Size(outbox', consumer'.item) + Reserved'
    BY <1>1, <1>2, <1>3, <1>4, <1>8, <2>1, <2>2 DEF Accounts
  <2>. QED
    BY <2>3 DEF Accounts
<1>10. Lined'
  <2>. DEFINE len == Len(lanes.outbox)
  <2>1. InLine(rest, handled + 1)
    <3>. SUFFICES ASSUME NEW n \in DOMAIN rest PROVE rest[n] = Line(handled + 1 + n)
      BY DEF InLine
    <3>1. n \in Nat /\ n + 1 \in DOMAIN lanes.outbox /\ rest[n] = lanes.outbox[n + 1]
      BY <1>5
    <3>2. lanes.outbox[n + 1] = Line(handled + OnHand + (n + 1))
      BY <1>3, <3>1 DEF Lined, InLine
    <3>3. handled + OnHand + (n + 1) = handled + 1 + n
      BY <1>3, <1>6, <3>1
    <3>. QED
      BY <3>1, <3>2, <3>3
  <2>2. handled + OnHand + len = handled + 1 + Len(rest)
    <3>1. OnHand = 0 /\ handled \in Nat /\ len \in Nat /\ Len(rest) = len - 1
      BY <1>3, <1>5, <1>6
    <3>2. \A h, l \in Nat : h + 0 + l = h + 1 + (l - 1)
      OBVIOUS
    <3>3. handled + 0 + len = handled + 1 + (len - 1)
      BY <3>1, <3>2, Zenon
    <3>. QED
      BY <3>1, <3>3, Zenon
  <2>3. /\ Hoisting => Len(tailer.batch) = 1
        /\ ~ Hoisting => InLine(tailer.batch, handled + OnHand + len)
        /\ tailer.read = handled + OnHand + len + (IF Hoisting THEN 0 ELSE Len(tailer.batch))
    BY <1>3 DEF Lined
  <2>4. /\ ~ Hoisting => InLine(tailer.batch, handled + 1 + Len(rest))
        /\ tailer.read = handled + 1 + Len(rest) + (IF Hoisting THEN 0 ELSE Len(tailer.batch))
    BY <2>2, <2>3
  <2>. HIDE DEF len
  <2>. QED
    BY <1>1, <1>2, <1>6, <1>8, <2>1, <2>3, <2>4 DEF Lined
<1>. QED
  BY <1>7, <1>9, <1>10 DEF IInv

(* The item the consumer is done with gives its bytes back.                 *)
LEMMA ReleaseFact ==
    ASSUME IInv, Alive, used' = Released(consumer.item), consumer'.item = NoItem,
           UNCHANGED <<outbox, tailer, lanes>>
    PROVE  Accounts' /\ used' \in 0 .. MaxBytes
<1>1. Accounts
  BY DEF IInv
<1>2. used' = used - Size(outbox, consumer.item)
  BY DEF Released, Bytes, Size
<1>3. Size(outbox', consumer'.item) = 0
  BY DEF Size, NoItem
<1>4. Reserved' = Reserved
  BY DEF Reserved, Bytes
<1>5. /\ HeldIn(outbox, lanes.startup) \in Nat /\ HeldIn(outbox, lanes.outbox) \in Nat
      /\ Size(outbox, consumer.item) \in Nat /\ Reserved \in Nat /\ used \in 0 .. MaxBytes
  BY HeldNumbers, Numbers, TypeFacts DEF IInv
<1>6. used' = HeldIn(outbox, lanes.startup) + HeldIn(outbox, lanes.outbox) + 0 + Reserved
  BY <1>1, <1>2, <1>5 DEF Accounts
<1>7. Accounts'
  BY <1>3, <1>4, <1>6 DEF Accounts
<1>8. used' \in 0 .. MaxBytes
  BY <1>2, <1>5, <1>6, Numbers
<1>. QED
  BY <1>7, <1>8

LEMMA FinishStartupStep ==
    ASSUME IInv, TypeOK', FinishStartup
    PROVE  IInv'
<1>1. /\ consumer.pc = "told" /\ Alive /\ used' = Released(consumer.item)
      /\ consumer' = [pc |-> "next", item |-> NoItem] /\ consumer'.item = NoItem
      /\ consumer'.pc = "next"
      /\ UNCHANGED <<outbox, tailer, lanes, handled>>
  BY DEF FinishStartup, Alive
<1>2. Accounts'
  BY <1>1, ReleaseFact
<1>3. OnHand = 0 /\ OnHand' = 0
  BY <1>1 DEF IInv, Shape, OnHand, NoItem
<1>4. Lined'
  <2>1. Lined
    BY <1>1 DEF IInv
  <2>. QED
    BY <1>1, <1>3, <2>1 DEF Lined, Hoisting
<1>5. Shape'
  <2>1. consumer'.item.pos = 0 /\ Len(outbox) \in Nat
    BY <1>1, TypeFacts DEF IInv, NoItem
  <2>. QED
    BY <1>1, <2>1 DEF IInv, Shape
<1>. QED
  BY <1>2, <1>4, <1>5 DEF IInv

LEMMA FinishLineStep ==
    ASSUME IInv, TypeOK', FinishLine
    PROVE  IInv'
<1>1. /\ consumer.pc = "busy" /\ Alive /\ ~ consumer.item.hoisted
      /\ used' = Released(consumer.item) /\ handled' = consumer.item.pos
      /\ consumer' = [pc |-> "next", item |-> NoItem] /\ consumer'.item = NoItem
      /\ consumer'.pc = "next"
      /\ UNCHANGED <<outbox, tailer, lanes>>
  BY DEF FinishLine, Alive
<1>2. Accounts'
  BY <1>1, ReleaseFact
<1>3. Lined /\ OnHand = 1 /\ OnHand' = 0 /\ handled \in Nat
  <2>1. Lined /\ handled \in Nat
    BY <1>1, TypeFacts DEF IInv
  <2>2. OnHand = 1 /\ OnHand' = 0
    BY <1>1 DEF IInv, Shape, OnHand, NoItem
  <2>. QED
    BY <2>1, <2>2
<1>4. handled' = handled + 1 /\ handled' + OnHand' = handled + OnHand
  <2>1. consumer.item = Line(handled + 1)
    BY <1>3 DEF Lined
  <2>2. consumer.item.pos = handled + 1
    BY <2>1 DEF Line
  <2>. QED
    BY <1>1, <1>3, <2>2
<1>5. Lined'
  <2>1. /\ InLine(lanes.outbox, handled + OnHand)
        /\ ~ Hoisting => InLine(tailer.batch, handled + OnHand + Len(lanes.outbox))
        /\ tailer.read = handled + OnHand + Len(lanes.outbox) + (IF Hoisting THEN 0 ELSE Len(tailer.batch))
        /\ Hoisting => Len(tailer.batch) = 1
    BY <1>3 DEF Lined
  <2>2. Hoisting' <=> Hoisting
    BY <1>1 DEF Hoisting
  <2>3. /\ InLine(lanes.outbox, handled' + OnHand')
        /\ ~ Hoisting => InLine(tailer.batch, handled' + OnHand' + Len(lanes.outbox))
        /\ tailer.read = handled' + OnHand' + Len(lanes.outbox) + (IF Hoisting THEN 0 ELSE Len(tailer.batch))
    BY <1>4, <2>1
  <2>4. OnHand' # 1
    BY <1>3
  <2>. QED
    BY <1>1, <2>1, <2>2, <2>3, <2>4 DEF Lined
<1>6. Shape'
  <2>1. consumer'.item.pos = 0 /\ Len(outbox) \in Nat
    BY <1>1, TypeFacts DEF IInv, NoItem
  <2>. QED
    BY <1>1, <2>1 DEF IInv, Shape
<1>. QED
  BY <1>2, <1>5, <1>6 DEF IInv

----------------------------------------------------------------------------
(* Types *)

(* What the actions of the tailer do to its record.                         *)
LEMMA MinTwo ==
    ASSUME NEW a \in Nat, NEW b \in Nat
    PROVE  Min({a, b}) \in {a, b} /\ Min({a, b}) <= a /\ Min({a, b}) <= b
<1>1. CASE a <= b
  BY <1>1 DEF Min
<1>2. CASE b <= a
  BY <1>2 DEF Min
<1>. QED
  BY <1>1, <1>2

LEMMA MinFact ==
    ASSUME NEW S \in SUBSET Nat, S # {}
    PROVE  Min(S) \in S
BY LeastFact DEF Min

LEMMA ReadToFact ==
    ASSUME TypeOK, NEW from \in Nat, from <= Len(outbox)
    PROVE  ReadTo(from) \in from .. Len(outbox) /\ ReadTo(from) \in Positions
<1>1. Len(outbox) \in 0 .. MaxLines /\ from + Chunk \in Nat /\ from <= from + Chunk
  BY TypeFacts, Numbers
<1>2. ReadTo(from) \in {from + Chunk, Len(outbox)} /\ ReadTo(from) <= Len(outbox)
  <2>1. Len(outbox) \in Nat
    BY <1>1
  <2>. QED
    BY <1>1, <2>1, MinTwo DEF ReadTo
<1>. QED
  BY <1>1, <1>2, Numbers

(* A step of the tailer, or of what only moves its wakeups.                 *)
LEMMA TailerType ==
    ASSUME TypeOK, tailer' \in Tailer, UNCHANGED <<outbox, lanes, onWire, consumer, handled>>,
           events' \subseteq {"write", "read"}, watch' \in 0 .. MaxWatch, healthy' \in BOOLEAN,
           used' \in 0 .. MaxBytes, permit' \in BOOLEAN
    PROVE  TypeOK'
BY DEF TypeOK

LEMMA AccessedType ==
    ASSUME TypeOK, Accessed
    PROVE  events' \subseteq {"write", "read"}
BY DEF TypeOK, Accessed

LEMMA TrySendType ==
    ASSUME TypeOK, TrySend
    PROVE  watch' \in 0 .. MaxWatch
BY RoomAssumption DEF TypeOK, TrySend

----------------------------------------------------------------------------
(* The steps that move no line *)

LEMMA WatcherStep ==
    ASSUME IInv, (\E kind \in events : WatcherDelivers(kind)) \/ WatcherDies
    PROVE  IInv'
<1>1. TypeOK /\ tailer \in Tailer
  BY DEF IInv, TypeOK
<1>2. UNCHANGED <<outbox, tailer, used, permit, lanes, onWire, consumer, handled>>
  BY DEF WatcherDelivers, WatcherDies
<1>3. TypeOK'
  <2>1. events' \subseteq {"write", "read"} /\ healthy' \in BOOLEAN
    BY <1>1 DEF TypeOK, WatcherDelivers, WatcherDies
  <2>2. watch' \in 0 .. MaxWatch
    BY <1>1, TrySendType DEF TypeOK, WatcherDelivers, WatcherDies
  <2>. QED
    BY <1>1, <1>2, <2>1, <2>2 DEF TypeOK
<1>. QED
  BY <1>2, <1>3, QuietStep DEF IInv, Shape, Alive

LEMMA AppendLineStep ==
    ASSUME IInv, NEW line \in Lines, AppendLine(line)
    PROVE  IInv'
<1>1. TypeOK'
  <2>1. outbox' \in Seq(Lines) /\ Len(outbox') <= MaxLines
    <3>1. outbox \in Seq(Lines) /\ Len(outbox) \in Nat
      BY LenProperties DEF IInv, TypeOK
    <3>2. outbox' = Append(outbox, line) /\ Len(outbox) < MaxLines
      BY DEF AppendLine
    <3>3. Append(outbox, line) \in Seq(Lines) /\ Len(Append(outbox, line)) = Len(outbox) + 1
      BY <3>1
    <3>. QED
      BY <3>1, <3>2, <3>3, Numbers
  <2>2. events' \subseteq {"write", "read"}
    BY DEF IInv, TypeOK, AppendLine
  <2>. QED
    BY <2>1, <2>2 DEF IInv, TypeOK, AppendLine
<1>. QED
  BY <1>1, AppendStep

(* A step of the tailer that keeps its batch.                               *)
LEMMA TurnStep ==
    ASSUME IInv, UNCHANGED <<outbox, used, lanes, onWire, consumer, handled>>,
           tailer' \in Tailer, tailer'.batch = tailer.batch, tailer'.read = tailer.read,
           tailer'.pc \in Laden <=> tailer.pc \in Laden,
           tailer'.pc = "send" <=> tailer.pc = "send",
           tailer'.probe <= Len(outbox),
           events' \subseteq {"write", "read"}, watch' \in 0 .. MaxWatch,
           healthy' = healthy, permit' \in BOOLEAN
    PROVE  IInv'
<1>1. TypeOK'
  BY TailerType DEF IInv, TypeOK
<1>. QED
  BY <1>1, QuietStep DEF IInv, Shape, Alive

LEMMA WakeStep ==
    ASSUME IInv, Drain \/ ReadFails \/ AwaitRelease \/ WakeByEvent \/ WakeByTimer
    PROVE  IInv'
<1>1. /\ tailer \in Tailer /\ tailer.probe <= Len(outbox)
      /\ events \subseteq {"write", "read"} /\ watch \in 0 .. MaxWatch /\ permit \in BOOLEAN
  BY DEF IInv, TypeOK, Shape
<1>2. CASE Drain
  <2>1. tailer.pc = "drain" /\ tailer' = [tailer EXCEPT !.pc = "read"] /\ watch' = 0
        /\ UNCHANGED <<outbox, events, healthy, used, permit, lanes, onWire, consumer, handled>>
    BY <1>2 DEF Drain, At
  <2>2. /\ tailer' \in Tailer /\ tailer'.batch = tailer.batch /\ tailer'.read = tailer.read
        /\ tailer'.probe = tailer.probe /\ tailer'.pc = "read"
    BY <1>1, <2>1 DEF Tailer
  <2>3. 0 \in 0 .. MaxWatch
    BY RoomAssumption
  <2>. QED
    BY <1>1, <2>1, <2>2, <2>3, TurnStep DEF Laden
<1>3. CASE ReadFails
  <2>1. tailer.pc = "read" /\ tailer' = [tailer EXCEPT !.pc = "dead"]
        /\ UNCHANGED <<outbox, events, watch, healthy, used, permit, lanes, onWire, consumer, handled>>
    BY <1>3 DEF ReadFails, At
  <2>2. /\ tailer' \in Tailer /\ tailer'.batch = tailer.batch /\ tailer'.read = tailer.read
        /\ tailer'.probe = tailer.probe /\ tailer'.pc = "dead"
    BY <1>1, <2>1 DEF Tailer
  <2>. QED
    BY <1>1, <2>1, <2>2, TurnStep DEF Laden
<1>4. CASE AwaitRelease
  <2>1. tailer.pc \in {"await", "parked"}
        /\ UNCHANGED <<outbox, events, watch, healthy, used, lanes, onWire, consumer, handled>>
    BY <1>4 DEF AwaitRelease, At
  <2>2. \E pc \in {"admit", "parked"} : tailer' = [tailer EXCEPT !.pc = pc]
    BY <1>4 DEF AwaitRelease
  <2>3. permit' \in BOOLEAN
    BY <1>1, <1>4 DEF AwaitRelease
  <2>4. /\ tailer' \in Tailer /\ tailer'.batch = tailer.batch /\ tailer'.read = tailer.read
        /\ tailer'.probe = tailer.probe /\ tailer'.pc \in {"admit", "parked"}
    BY <1>1, <2>2 DEF Tailer
  <2>. QED
    BY <1>1, <2>1, <2>3, <2>4, TurnStep DEF Laden
<1>5. CASE WakeByEvent \/ WakeByTimer
  <2>1. tailer.pc = "sleep" /\ tailer' = [tailer EXCEPT !.pc = "drain"]
        /\ UNCHANGED <<outbox, events, healthy, used, permit, lanes, onWire, consumer, handled>>
    BY <1>5 DEF WakeByEvent, WakeByTimer, At
  <2>2. watch' \in 0 .. MaxWatch
    BY <1>1, <1>5, RoomAssumption DEF WakeByEvent, WakeByTimer
  <2>3. /\ tailer' \in Tailer /\ tailer'.batch = tailer.batch /\ tailer'.read = tailer.read
        /\ tailer'.probe = tailer.probe /\ tailer'.pc = "drain"
    BY <1>1, <2>1 DEF Tailer
  <2>. QED
    BY <1>1, <2>1, <2>2, <2>3, TurnStep DEF Laden
<1>. QED
  BY <1>2, <1>3, <1>4, <1>5

(* A turn of the tailer that ends with nothing to queue.                    *)
LEMMA IdleTurn ==
    ASSUME IInv, tailer.pc = "read", NEW t \in Tailer, tailer' = EndTurn(t),
           t.batch = tailer.batch, t.read = tailer.read, t.probe <= Len(outbox),
           UNCHANGED <<outbox, used, lanes, onWire, consumer, handled, watch, healthy, permit>>,
           events' \subseteq {"write", "read"}
    PROVE  IInv'
<1>1. healthy \in BOOLEAN /\ watch \in 0 .. MaxWatch /\ permit \in BOOLEAN
  BY DEF IInv, TypeOK
<1>2. /\ tailer' \in Tailer /\ tailer'.pc \in {"sleep", "drain"}
      /\ tailer'.batch = t.batch /\ tailer'.read = t.read /\ tailer'.probe = t.probe
  BY <1>1, EndTurnFact
<1>. QED
  BY <1>1, <1>2, TurnStep DEF Laden

LEMMA ReadStep ==
    ASSUME IInv, ReadOrdered \/ ReadAhead \/ ReadNothing
    PROVE  IInv'
<1>1. /\ tailer.pc = "read" /\ At("read") /\ TypeOK /\ tailer \in Tailer
      /\ tailer.batch = <<>> /\ Len(outbox) \in Nat
      /\ tailer.probe \in Positions \cup {Gone} /\ tailer.probe <= Len(outbox)
      /\ tailer.read \in Positions /\ tailer.read <= Len(outbox)
      /\ events \subseteq {"write", "read"}
      /\ UNCHANGED <<outbox, used, lanes, onWire, consumer, handled, watch, healthy, permit>>
      /\ watch \in 0 .. MaxWatch /\ permit \in BOOLEAN /\ healthy \in BOOLEAN
  <2>1. tailer.pc = "read" /\ At("read")
        /\ UNCHANGED <<outbox, used, lanes, onWire, consumer, handled, watch, healthy, permit>>
    BY DEF ReadOrdered, ReadAhead, ReadNothing, At
  <2>2. TypeOK /\ tailer \in Tailer /\ Len(outbox) \in Nat
        /\ watch \in 0 .. MaxWatch /\ permit \in BOOLEAN /\ healthy \in BOOLEAN
        /\ events \subseteq {"write", "read"}
    BY TypeFacts DEF IInv, TypeOK
  <2>. QED
    BY <2>1, <2>2 DEF IInv, Shape, Laden, Tailer
<1>2. CASE ReadOrdered
  <2>. DEFINE to == ReadTo(tailer.read)
              lines == [n \in 1 .. to - tailer.read |-> [pos |-> tailer.read + n, hoisted |-> FALSE]]
              t == [tailer EXCEPT !.probe = Gone, !.read = to, !.caught = (to = Len(outbox)),
                                  !.batch = lines]
  <2>1. /\ tailer.read \in Nat /\ to \in tailer.read .. Len(outbox) /\ to \in Positions
        /\ events' \subseteq {"write", "read"}
    <3>1. tailer.read \in Nat
      BY <1>1, Numbers
    <3>2. Accessed
      BY <1>2 DEF ReadOrdered
    <3>. QED
      BY <1>1, <3>1, <3>2, ReadToFact, AccessedType
  <2>2. lines \in Seq(Item)
    <3>1. to - tailer.read \in Nat
      BY <2>1
    <3>2. \A n \in 1 .. to - tailer.read : [pos |-> tailer.read + n, hoisted |-> FALSE] \in Item
      <4>. TAKE n \in 1 .. to - tailer.read
      <4>1. tailer.read + n \in Positions
        BY <2>1, Numbers
      <4>2. FALSE \in BOOLEAN
        OBVIOUS
      <4>. QED
        BY <4>1, ItemFact
    <3>. QED
      BY <3>1, <3>2
  <2>3. tailer' = IF t.batch = <<>> THEN EndTurn(t) ELSE [t EXCEPT !.pc = "admit"]
    BY <1>2 DEF ReadOrdered
  <2>4. t.batch = lines /\ t.read = to /\ t.probe = Gone /\ t \in Tailer /\ t.pc = tailer.pc
    <3>. HIDE DEF lines, to
    <3>. QED
      BY <1>1, <2>1, <2>2 DEF Tailer
  <2>5. CASE to = tailer.read
    <3>1. lines = <<>>
      <4>1. 1 .. to - tailer.read = {}
        BY <2>1, <2>5
      <4>. QED
        BY <4>1
    <3>2. Gone <= Len(outbox)
      BY <1>1, Numbers
    <3>. HIDE DEF t, lines, to
    <3>3. tailer' = EndTurn(t) /\ t.batch = tailer.batch /\ t.read = tailer.read /\ t.probe <= Len(outbox)
      BY <1>1, <2>3, <2>4, <2>5, <3>1, <3>2
    <3>. QED
      BY <1>1, <2>1, <2>4, <3>3, IdleTurn
  <2>6. CASE to # tailer.read
    <3>1. to \in tailer.read + 1 .. Len(outbox)
      BY <1>1, <2>1, <2>6
    <3>2. lines # <<>>
      <4>1. 1 \in DOMAIN lines
        BY <2>1, <3>1
      <4>. HIDE DEF lines
      <4>. QED
        BY <4>1
    <3>3. /\ tailer'.batch = lines /\ tailer'.read = to /\ tailer'.probe = Gone
          /\ tailer'.pc = "admit" /\ tailer' \in Tailer
      <4>. HIDE DEF lines, to, t
      <4>. QED
        BY <2>3, <2>4, <3>2 DEF Tailer
    <3>4. TypeOK'
      <4>. HIDE DEF lines, to, t
      <4>. QED
        BY <1>1, <2>1, <3>3, TailerType DEF TypeOK
    <3>5. tailer'.batch = [n \in 1 .. to - tailer.read |-> [pos |-> tailer.read + n, hoisted |-> FALSE]]
      BY <3>3
    <3>. HIDE DEF lines, to, t
    <3>. QED
      BY <1>1, <3>1, <3>3, <3>4, <3>5, BatchStep
  <2>. QED
    BY <2>5, <2>6
<1>3. CASE ReadAhead
  <2>. DEFINE to == ReadTo(tailer.probe)
              found == {p \in tailer.probe + 1 .. to : outbox[p].startup}
              t == [tailer EXCEPT !.probe = to, !.caught = (to = Len(outbox))]
  <2>1. /\ tailer.probe \in Nat /\ to \in tailer.probe .. Len(outbox) /\ to \in Positions
        /\ events' \subseteq {"write", "read"}
    <3>1. tailer.probe \in Nat /\ Accessed
      BY <1>1, <1>3, Numbers DEF ReadAhead
    <3>. QED
      BY <1>1, <3>1, ReadToFact, AccessedType
  <2>2. tailer' = IF found # {} THEN Hoisted(tailer, Min(found)) ELSE EndTurn(t)
    BY <1>3 DEF ReadAhead
  <2>3. CASE found # {}
    <3>1. found \subseteq Nat /\ found \subseteq 1 .. Len(outbox)
      BY <1>1, <2>1
    <3>. DEFINE p == Min(found)
    <3>2. p \in 1 .. Len(outbox) /\ p \in Positions
      <4>. HIDE DEF found
      <4>1. p \in found
        BY <2>3, <3>1, MinFact
      <4>2. Len(outbox) <= MaxLines /\ MaxLines \in Nat
        BY <1>1, Numbers DEF TypeOK
      <4>3. p \in 1 .. Len(outbox)
        BY <3>1, <4>1
      <4>. HIDE DEF p
      <4>4. p \in 0 .. MaxLines
        BY <1>1, <4>2, <4>3
      <4>. QED
        BY <4>3, <4>4, Numbers
    <3>3. tailer' = Hoisted(tailer, p)
      BY <2>2, <2>3
    <3>. HIDE DEF p, found, t
    <3>4. tailer' \in Tailer
      <4>1. [pos |-> p, hoisted |-> TRUE] \in Item
        BY <3>2 DEF Item
      <4>2. <<[pos |-> p, hoisted |-> TRUE]>> \in Seq(Item)
        BY <4>1
      <4>. QED
        BY <1>1, <3>3, <4>2 DEF Hoisted, Tailer
    <3>5. TypeOK'
      BY <1>1, <2>1, <3>4, TailerType DEF TypeOK
    <3>. QED
      BY <1>1, <3>2, <3>3, <3>5, HoistStep
  <2>4. CASE found = {}
    <3>1. tailer' = EndTurn(t)
      BY <2>2, <2>4
    <3>. HIDE DEF found, to
    <3>2. t \in Tailer /\ t.batch = tailer.batch /\ t.read = tailer.read /\ t.probe = to
      BY <1>1, <2>1 DEF Tailer
    <3>3. t.probe <= Len(outbox)
      BY <1>1, <2>1, <3>2
    <3>. HIDE DEF t
    <3>. QED
      BY <1>1, <2>1, <3>1, <3>2, <3>3, IdleTurn
  <2>. QED
    BY <2>3, <2>4
<1>4. CASE ReadNothing
  <2>. DEFINE t == [tailer EXCEPT !.caught = TRUE]
  <2>1. tailer' = EndTurn(t) /\ events' = events
    BY <1>4 DEF ReadNothing
  <2>2. /\ t \in Tailer /\ t.batch = tailer.batch /\ t.read = tailer.read
        /\ t.probe = tailer.probe
    BY <1>1 DEF Tailer
  <2>. HIDE DEF t
  <2>. QED
    BY <1>1, <2>1, <2>2, IdleTurn
<1>. QED
  BY <1>2, <1>3, <1>4

LEMMA AdmitWhole ==
    ASSUME IInv, Admit
    PROVE  IInv'
<1>1. /\ tailer.pc = "admit" /\ tailer \in Tailer /\ TypeOK /\ Alive
      /\ UNCHANGED <<outbox, events, watch, healthy, permit, lanes, onWire, consumer, handled>>
      /\ used \in 0 .. MaxBytes
  BY TypeFacts DEF IInv, Admit, At
<1>2. tailer' \in Tailer
  <2>1. \E pc \in {"send", "await"} : tailer' = [tailer EXCEPT !.pc = pc]
    BY DEF Admit
  <2>. QED
    BY <1>1, <2>1 DEF Tailer
<1>3. used' \in 0 .. MaxBytes
  <2>1. Bytes(Head(tailer.batch)) \in 0 .. MaxBytes
    BY <1>1, FirstOfBatch DEF Laden
  <2>2. \/ used' = used
        \/ used' = used + Bytes(Head(tailer.batch))
             /\ (used + Bytes(Head(tailer.batch)) <= MaxBytes \/ Bytes(Head(tailer.batch)) = 0)
    BY DEF Admit, Fits
  <2>. QED
    BY <1>1, <2>1, <2>2, Numbers
<1>4. TypeOK'
  BY <1>1, <1>2, <1>3, TailerType DEF TypeOK
<1>. QED
  BY <1>4, AdmitStep

LEMMA SendWhole ==
    ASSUME IInv, Send
    PROVE  IInv'
<1>1. /\ TypeOK /\ tailer.pc = "send" /\ tailer' \in Tailer
      /\ UNCHANGED <<outbox, events, watch, healthy, used, permit, onWire, consumer, handled>>
  BY SendFact DEF IInv, Send
<1>2. /\ lanes \in [startup : Seq(Item), outbox : Seq(Item)] /\ Head(tailer.batch) \in Item
      /\ Len(lanes.startup) <= 1 /\ Len(lanes.outbox) <= MaxQueued
      /\ lanes.outbox \in Seq(Item)
  BY <1>1, TypeFacts, FirstOfBatch DEF Laden, TypeOK
<1>3. lanes' \in [startup : Seq(Item), outbox : Seq(Item)]
      /\ Len(lanes'.startup) <= 1 /\ Len(lanes'.outbox) <= MaxQueued
  <2>. DEFINE item == Head(tailer.batch)
  <2>1. item \in Item
    BY <1>2
  <2>2. \/ lanes' = [lanes EXCEPT !.startup = <<item>>]
        \/ Len(lanes.outbox) < MaxQueued /\ lanes' = [lanes EXCEPT !.outbox = Append(@, item)]
    BY DEF Send
  <2>. HIDE DEF item
  <2>3. CASE lanes' = [lanes EXCEPT !.startup = <<item>>]
    <3>1. <<item>> \in Seq(Item) /\ Len(<<item>>) = 1
      BY <2>1
    <3>2. lanes'.startup = <<item>> /\ lanes'.outbox = lanes.outbox
      BY <1>2, <2>3
    <3>3. lanes' \in [startup : Seq(Item), outbox : Seq(Item)]
      BY <1>2, <2>3, <3>1
    <3>4. Len(lanes'.startup) = 1 /\ Len(lanes'.outbox) = Len(lanes.outbox)
      BY <3>1, <3>2, Zenon
    <3>. QED
      BY <1>2, <3>3, <3>4
  <2>4. CASE Len(lanes.outbox) < MaxQueued /\ lanes' = [lanes EXCEPT !.outbox = Append(@, item)]
    <3>1. Append(lanes.outbox, item) \in Seq(Item) /\ Len(Append(lanes.outbox, item)) = Len(lanes.outbox) + 1
          /\ Len(lanes.outbox) \in Nat
      BY <1>2, <2>1, LenProperties
    <3>2. lanes'.startup = lanes.startup /\ lanes'.outbox = Append(lanes.outbox, item)
      BY <1>2, <2>4
    <3>3. Len(Append(lanes.outbox, item)) <= MaxQueued
      BY <2>4, <3>1, RoomAssumption
    <3>. QED
      BY <1>2, <2>4, <3>1, <3>2, <3>3
  <2>. QED
    BY <2>2, <2>3, <2>4
<1>4. TypeOK'
  BY <1>1, <1>3 DEF TypeOK
<1>. QED
  BY <1>4, SendStartupOn, SendLineOn

LEMMA ReceiveWhole ==
    ASSUME IInv, Receive
    PROVE  IInv'
<1>1. /\ TypeOK /\ Listened # <<>>
      /\ consumer' = [pc |-> "busy", item |-> Head(Listened)]
      /\ lanes' = IF onWire THEN [lanes EXCEPT !.outbox = Tail(@)] ELSE [lanes EXCEPT !.startup = Tail(@)]
      /\ UNCHANGED <<outbox, events, watch, healthy, tailer, used, permit, onWire, handled>>
  BY DEF IInv, Receive
<1>2. /\ lanes \in [startup : Seq(Item), outbox : Seq(Item)]
      /\ lanes.startup \in Seq(Item) /\ lanes.outbox \in Seq(Item)
      /\ Len(lanes.startup) <= 1 /\ Len(lanes.outbox) <= MaxQueued
      /\ Listened \in Seq(Item)
  BY <1>1, TypeFacts DEF TypeOK, Listened
<1>3. Head(Listened) \in Item /\ Tail(Listened) \in Seq(Item) /\ Len(Tail(Listened)) = Len(Listened) - 1
      /\ Len(Listened) \in Nat
  BY <1>1, <1>2, HeadTailProperties, LenProperties
<1>4. consumer' \in Consumer
  BY <1>1, <1>3 DEF Consumer
<1>5. lanes' \in [startup : Seq(Item), outbox : Seq(Item)]
      /\ Len(lanes'.startup) <= 1 /\ Len(lanes'.outbox) <= MaxQueued
  <2>1. CASE onWire
    <3>1. Listened = lanes.outbox
      BY <2>1 DEF Listened
    <3>2. lanes'.startup = lanes.startup /\ lanes'.outbox = Tail(lanes.outbox)
      BY <1>1, <1>2, <2>1
    <3>3. lanes' \in [startup : Seq(Item), outbox : Seq(Item)]
      BY <1>1, <1>2, <1>3, <2>1, <3>1
    <3>4. Len(lanes'.startup) = Len(lanes.startup) /\ Len(lanes'.outbox) = Len(lanes.outbox) - 1
          /\ Len(lanes.outbox) \in Nat
      BY <1>3, <3>1, <3>2
    <3>. QED
      BY <1>2, <3>3, <3>4, RoomAssumption
  <2>2. CASE ~ onWire
    <3>1. Listened = lanes.startup
      BY <2>2 DEF Listened
    <3>2. lanes'.outbox = lanes.outbox /\ lanes'.startup = Tail(lanes.startup)
      BY <1>1, <1>2, <2>2
    <3>. QED
      BY <1>1, <1>2, <1>3, <2>2, <3>1, <3>2
  <2>. QED
    BY <2>1, <2>2
<1>6. TypeOK'
  BY <1>1, <1>4, <1>5 DEF TypeOK
<1>. QED
  BY <1>6, ReceiveStartup, ReceiveLine

LEMMA FinishWhole ==
    ASSUME IInv, FinishStartup \/ FinishLine
    PROVE  IInv'
<1>1. /\ TypeOK /\ Alive /\ used' = Released(consumer.item)
      /\ consumer' = [pc |-> "next", item |-> NoItem] /\ consumer'.item = NoItem
      /\ UNCHANGED <<outbox, events, healthy, tailer, permit, lanes, onWire>>
      /\ TrySend \/ watch' = watch
      /\ handled' = handled \/ handled' = consumer.item.pos
  BY DEF IInv, FinishStartup, FinishLine, TellTailer, Alive
<1>2. used' \in 0 .. MaxBytes
  BY <1>1, ReleaseFact
<1>3. consumer' \in Consumer
  BY <1>1, ItemFact DEF Consumer
<1>4. handled' \in Positions
  <2>1. consumer.item \in Item /\ handled \in Positions
    BY <1>1, TypeFacts DEF TypeOK
  <2>. QED
    BY <1>1, <2>1, ItemFact
<1>5. watch' \in 0 .. MaxWatch
  BY <1>1, TrySendType DEF TypeOK
<1>6. TypeOK'
  BY <1>1, <1>2, <1>3, <1>4, <1>5 DEF TypeOK
<1>. QED
  BY <1>6, FinishStartupStep, FinishLineStep

(* The consumer goes on to another step of its loop with the same item.     *)
LEMMA ConsumerStep ==
    ASSUME IInv, CallNext \/ SendStartup \/ TimeOut \/ RetryCursor
    PROVE  IInv'
<1>1. /\ TypeOK /\ consumer \in Consumer /\ Alive
      /\ UNCHANGED <<outbox, events, watch, healthy, tailer, used, lanes, handled>>
      /\ \E pc \in {"next", "recv", "told"} : consumer' = [consumer EXCEPT !.pc = pc]
  BY DEF IInv, TypeOK, CallNext, SendStartup, TimeOut, RetryCursor, Alive
<1>2. consumer' \in Consumer /\ consumer'.item = consumer.item
  BY <1>1 DEF Consumer
<1>3. permit' \in BOOLEAN /\ onWire' \in BOOLEAN
  BY <1>1 DEF TypeOK, CallNext, SendStartup, TimeOut, RetryCursor, Notify
<1>4. TypeOK'
  BY <1>1, <1>2, <1>3 DEF TypeOK
<1>5. /\ consumer'.pc \in {"next", "recv", "ended"} => consumer.item = NoItem
      /\ consumer'.pc \in {"busy", "told"} => consumer.item.pos # 0
      /\ consumer'.pc = "told" => consumer.item.hoisted
  <2>1. CASE SendStartup
    <3>1. consumer.pc = "busy" /\ consumer.item.hoisted /\ consumer'.pc = "told"
      BY <1>1, <2>1 DEF SendStartup, Consumer
    <3>. QED
      BY <3>1 DEF IInv, Shape
  <2>2. CASE CallNext \/ TimeOut \/ RetryCursor
    <3>1. consumer.pc \in {"next", "recv"} /\ consumer'.pc \in {"next", "recv"}
      BY <1>1, <2>2 DEF CallNext, TimeOut, RetryCursor, Consumer
    <3>. QED
      BY <3>1 DEF IInv, Shape
  <2>. QED
    BY <2>1, <2>2
<1>6. tailer.probe <= Len(outbox)
  BY DEF IInv, Shape
<1>. QED
  BY <1>1, <1>2, <1>4, <1>5, <1>6, QuietStep

LEMMA EndWhole ==
    ASSUME IInv, LanesClosed \/ EndSession
    PROVE  IInv'
<1>1. TypeOK /\ End
  BY DEF IInv, LanesClosed, EndSession
<1>2. consumer' \in Consumer
  BY <1>1, ItemFact DEF End, Consumer
<1>3. TypeOK'
  BY <1>1, <1>2 DEF TypeOK, End
<1>. QED
  BY <1>1, <1>3, EndStep

----------------------------------------------------------------------------
LEMMA InitInvariant ==
    ASSUME Init
    PROVE  IInv
<1>1. TypeOK
  <2>1. <<>> \in Seq(Lines) /\ <<>> \in Seq(Item) /\ Len(<<>>) = 0
    OBVIOUS
  <2>2. 0 \in Positions /\ 0 \in 0 .. MaxBytes /\ 0 \in 0 .. MaxWatch
    BY Numbers, RoomAssumption
  <2>3. tailer \in Tailer
    BY <2>1, <2>2 DEF Init, Tailer
  <2>4. consumer \in Consumer
    BY ItemFact DEF Init, Consumer
  <2>5. /\ lanes \in [startup : Seq(Item), outbox : Seq(Item)] /\ lanes.startup = <<>> /\ lanes.outbox = <<>>
        /\ outbox = <<>>
    BY <2>1 DEF Init
  <2>6. 0 <= MaxLines /\ 0 <= 1 /\ 0 <= MaxQueued
    BY RoomAssumption
  <2>7. /\ outbox \in Seq(Lines) /\ Len(outbox) <= MaxLines
        /\ Len(lanes.startup) <= 1 /\ Len(lanes.outbox) <= MaxQueued
    BY <2>1, <2>5, <2>6, Zenon
  <2>8. /\ events \subseteq {"write", "read"} /\ watch \in 0 .. MaxWatch /\ healthy \in BOOLEAN
        /\ used \in 0 .. MaxBytes /\ permit \in BOOLEAN /\ onWire \in BOOLEAN /\ handled \in Positions
    BY <2>2 DEF Init
  <2>. QED
    BY <2>3, <2>4, <2>5, <2>7, <2>8 DEF TypeOK
<1>2. Shape
  BY DEF Init, Shape, Laden, Placed, NoItem
<1>3. Accounts
  <2>1. HeldIn(outbox, lanes.startup) = 0 /\ HeldIn(outbox, lanes.outbox) = 0
    BY HeldEmpty DEF Init
  <2>2. Size(outbox, consumer.item) = 0 /\ Reserved = 0 /\ used = 0
    BY DEF Init, Size, NoItem, Reserved
  <2>. QED
    BY <2>1, <2>2 DEF Accounts
<1>4. Lined
  BY DEF Init, Lined, InLine, OnHand, NoItem, Hoisting
<1>. QED
  BY <1>1, <1>2, <1>3, <1>4 DEF IInv

LEMMA NextInvariant ==
    ASSUME IInv, [Next]_vars
    PROVE  IInv'
<1>1. CASE UNCHANGED vars
  <2>1. TypeOK'
    BY <1>1 DEF IInv, TypeOK, vars
  <2>. QED
    BY <1>1, <2>1, QuietStep DEF vars, IInv, Shape, Alive
<1>2. CASE \E line \in Lines : AppendLine(line)
  BY <1>2, AppendLineStep
<1>3. CASE (\E kind \in events : WatcherDelivers(kind)) \/ WatcherDies
  BY <1>3, WatcherStep
<1>4. CASE Drain \/ ReadFails \/ AwaitRelease \/ WakeByEvent \/ WakeByTimer
  BY <1>4, WakeStep
<1>5. CASE ReadOrdered \/ ReadAhead \/ ReadNothing
  BY <1>5, ReadStep
<1>6. CASE Admit
  BY <1>6, AdmitWhole
<1>7. CASE Send
  BY <1>7, SendWhole
<1>8. CASE Receive
  BY <1>8, ReceiveWhole
<1>9. CASE FinishStartup \/ FinishLine
  BY <1>9, FinishWhole
<1>10. CASE CallNext \/ SendStartup \/ TimeOut \/ RetryCursor
  BY <1>10, ConsumerStep
<1>11. CASE LanesClosed \/ EndSession
  BY <1>11, EndWhole
<1>. QED
  BY <1>1, <1>2, <1>3, <1>4, <1>5, <1>6, <1>7, <1>8, <1>9, <1>10, <1>11
     DEF Next, TailerWorks, ConsumerWorks

THEOREM Invariant == Spec => []IInv
<1>1. Init => IInv
  BY InitInvariant
<1>2. IInv /\ [Next]_vars => IInv'
  BY NextInvariant
<1>. QED
  BY <1>1, <1>2, PTL DEF Spec

(* What is reserved is what the lines on their way hold, and no more than  *)
(* the budget, whatever the order in which tailer and consumer reserve,    *)
(* wait, send and drop (queue.rs: admit, reserve, Drop).                   *)
THEOREM ExactBudget == Spec => []BudgetExact
<1>1. IInv => BudgetExact
  <2>. SUFFICES ASSUME IInv PROVE BudgetExact
    OBVIOUS
  <2>1. /\ Held(lanes.startup) = HeldIn(outbox, lanes.startup)
        /\ Held(lanes.outbox) = HeldIn(outbox, lanes.outbox)
        /\ Bytes(consumer.item) = Size(outbox, consumer.item)
    BY DEF Held, HeldIn, Sizes, Size, Bytes
  <2>. QED
    BY <2>1 DEF IInv, Accounts, BudgetExact
<1>. QED
  BY <1>1, Invariant, PTL

LEMMA WayLines ==
    ASSUME NEW s \in Seq(Item), NEW t \in Seq(Item), NEW from \in Nat,
           InLine(s, from), InLine(t, from + Len(s))
    PROVE  s \o t \in Seq(Item) /\ Len(s \o t) = Len(s) + Len(t) /\ InLine(s \o t, from)
<1>1. /\ s \o t \in Seq(Item) /\ Len(s \o t) = Len(s) + Len(t)
      /\ \A i \in 1 .. Len(s) + Len(t) : (s \o t)[i] = IF i <= Len(s) THEN s[i] ELSE t[i - Len(s)]
  BY ConcatProperties
<1>2. /\ DOMAIN s = 1 .. Len(s) /\ DOMAIN t = 1 .. Len(t) /\ Len(s) \in Nat /\ Len(t) \in Nat
      /\ DOMAIN (s \o t) = 1 .. Len(s) + Len(t)
  BY <1>1, LenProperties
<1>3. ASSUME NEW n \in 1 .. Len(s) + Len(t)
      PROVE  (s \o t)[n] = Line(from + n)
  <2>1. CASE n <= Len(s)
    BY <1>1, <1>2, <2>1 DEF InLine
  <2>2. CASE n > Len(s)
    <3>1. n - Len(s) \in DOMAIN t /\ (s \o t)[n] = t[n - Len(s)]
      BY <1>1, <1>2, <2>2
    <3>2. t[n - Len(s)] = Line(from + Len(s) + (n - Len(s)))
      BY <3>1 DEF InLine
    <3>3. from + Len(s) + (n - Len(s)) = from + n
      BY <1>2
    <3>. QED
      BY <3>1, <3>2, <3>3
  <2>. QED
    BY <1>2, <2>1, <2>2
<1>. QED
  BY <1>1, <1>2, <1>3 DEF InLine

(* No line is lost, doubled or passed by another between the reader and the *)
(* consumer, although the startup goes ahead in a lane of its own           *)
(* (tailer_task, forward_in_order, Lanes::next).                           *)
THEOREM InOrder == Spec => []LinesInOrder
<1>1. IInv => LinesInOrder
  <2>. SUFFICES ASSUME IInv, Alive
                PROVE  /\ Hoisting => Len(tailer.batch) = 1
                       /\ Len(Way) = tailer.read - handled
                       /\ \A n \in DOMAIN Way : Way[n] = [pos |-> handled + n, hoisted |-> FALSE]
    BY DEF LinesInOrder
  <2>. DEFINE first == IF consumer.item.pos = 0 \/ consumer.item.hoisted THEN <<>> ELSE <<consumer.item>>
              last == IF Hoisting THEN <<>> ELSE tailer.batch
  <2>1. Lined /\ handled \in Nat /\ lanes.outbox \in Seq(Item) /\ tailer.batch \in Seq(Item)
        /\ consumer.item \in Item
    BY TypeFacts DEF IInv
  <2>2. first \in Seq(Item) /\ Len(first) = OnHand /\ OnHand \in Nat /\ InLine(first, handled)
    <3>1. CASE consumer.item.pos = 0 \/ consumer.item.hoisted
      <4>1. first = <<>> /\ OnHand = 0
        BY <3>1 DEF OnHand
      <4>. HIDE DEF first
      <4>. QED
        BY <4>1 DEF InLine
    <3>2. CASE ~ (consumer.item.pos = 0 \/ consumer.item.hoisted)
      <4>1. first = <<consumer.item>> /\ OnHand = 1
        BY <3>2 DEF OnHand
      <4>2. consumer.item = Line(handled + 1)
        BY <2>1, <4>1 DEF Lined
      <4>3. /\ DOMAIN (<<consumer.item>>) = {1} /\ <<consumer.item>>[1] = consumer.item
            /\ <<consumer.item>> \in Seq(Item) /\ Len(<<consumer.item>>) = 1
        BY <2>1
      <4>. HIDE DEF first
      <4>. QED
        BY <4>1, <4>2, <4>3 DEF InLine
    <3>. QED
      BY <3>1, <3>2
  <2>3. /\ last \in Seq(Item) /\ InLine(last, handled + (OnHand + Len(lanes.outbox)))
        /\ tailer.read = handled + (OnHand + Len(lanes.outbox) + Len(last))
        /\ Len(last) \in Nat
    <3>0. Len(lanes.outbox) \in Nat /\ Len(tailer.batch) \in Nat
          /\ handled + (OnHand + Len(lanes.outbox)) = handled + OnHand + Len(lanes.outbox)
      <4>1. Len(lanes.outbox) \in Nat /\ Len(tailer.batch) \in Nat
        BY <2>1, LenProperties
      <4>2. handled \in Nat /\ OnHand \in Nat
        BY <2>1, <2>2
      <4>3. \A c \in Nat : handled + (OnHand + c) = handled + OnHand + c
        BY <4>2
      <4>. QED
        BY <4>1, <4>3, Zenon
    <3>1. CASE Hoisting
      <4>1. last = <<>> /\ Len(<<>>) = 0 /\ <<>> \in Seq(Item)
        BY <3>1
      <4>2. tailer.read = handled + OnHand + Len(lanes.outbox) + 0
        BY <2>1, <3>1 DEF Lined
      <4>3. InLine(<<>>, handled + (OnHand + Len(lanes.outbox)))
        BY DEF InLine
      <4>. HIDE DEF last
      <4>4. handled \in Nat /\ OnHand \in Nat
        BY <2>1, <2>2
      <4>5. \A c \in Nat : handled + OnHand + c + 0 = handled + (OnHand + c + 0) /\ 0 \in Nat
        BY <4>4
      <4>6. handled + OnHand + Len(lanes.outbox) + 0 = handled + (OnHand + Len(lanes.outbox) + 0) /\ 0 \in Nat
        BY <3>0, <4>5, Zenon
      <4>. QED
        BY <4>1, <4>2, <4>3, <4>6, Zenon
    <3>2. CASE ~ Hoisting
      <4>1. last = tailer.batch
        BY <3>2
      <4>2. /\ tailer.read = handled + OnHand + Len(lanes.outbox) + Len(tailer.batch)
            /\ InLine(tailer.batch, handled + OnHand + Len(lanes.outbox))
        BY <2>1, <3>2 DEF Lined
      <4>. HIDE DEF last
      <4>3. handled \in Nat /\ OnHand \in Nat
        BY <2>1, <2>2
      <4>4. \A c, d \in Nat : handled + OnHand + c + d = handled + (OnHand + c + d)
        BY <4>3
      <4>5. handled + OnHand + Len(lanes.outbox) + Len(tailer.batch)
              = handled + (OnHand + Len(lanes.outbox) + Len(tailer.batch))
        <5>1. Len(lanes.outbox) \in Nat /\ Len(tailer.batch) \in Nat
          BY <3>0
        <5>. QED
          BY <4>4, <5>1, Zenon
      <4>. QED
        BY <2>1, <3>0, <4>1, <4>2, <4>5, Zenon
    <3>. QED
      BY <3>1, <3>2
  <2>. HIDE DEF first, last
  <2>4. InLine(lanes.outbox, handled + Len(first))
    BY <2>1, <2>2 DEF Lined
  <2>5. /\ first \o lanes.outbox \in Seq(Item)
        /\ Len(first \o lanes.outbox) = OnHand + Len(lanes.outbox)
        /\ InLine(first \o lanes.outbox, handled)
    <3>1. /\ first \o lanes.outbox \in Seq(Item)
          /\ Len(first \o lanes.outbox) = Len(first) + Len(lanes.outbox)
          /\ InLine(first \o lanes.outbox, handled)
      BY <2>1, <2>2, <2>4, WayLines
    <3>. QED
      BY <2>2, <3>1
  <2>6. /\ Len((first \o lanes.outbox) \o last) = OnHand + Len(lanes.outbox) + Len(last)
        /\ InLine((first \o lanes.outbox) \o last, handled)
    <3>1. InLine(last, handled + Len(first \o lanes.outbox))
      BY <2>3, <2>5
    <3>2. /\ Len((first \o lanes.outbox) \o last) = Len(first \o lanes.outbox) + Len(last)
          /\ InLine((first \o lanes.outbox) \o last, handled)
      BY <2>1, <2>3, <2>5, <3>1, WayLines
    <3>. QED
      BY <2>5, <3>2
  <2>7. Way = (first \o lanes.outbox) \o last
    BY DEF Way, first, last
  <2>8. Len(Way) = tailer.read - handled
    <3>1. Len(lanes.outbox) \in Nat /\ OnHand + Len(lanes.outbox) + Len(last) \in Nat
      BY <2>1, <2>2, <2>3, LenProperties
    <3>. QED
      BY <2>1, <2>3, <2>6, <2>7, <3>1
  <2>9. Hoisting => Len(tailer.batch) = 1
    BY <2>1 DEF Lined
  <2>. QED
    BY <2>6, <2>7, <2>8, <2>9 DEF InLine, Line
<1>. QED
  BY <1>1, Invariant, PTL
==============================================================================
