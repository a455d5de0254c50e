-------------------------- MODULE MicroBatcherProofs -------------------------
(***************************************************************************)
(* The batcher, for any number of items, keys and sizes: its types, its    *)
(* counters, that the lane loop does not sleep too long, and that it       *)
(* implements BatchBuffer.                                                 *)
(*                                                                         *)
(* The counters are sums over sequences; what such a sum is of an item     *)
(* more or of a batch less are inductions over sequences, made through     *)
(* sets of numbers (NatSetInduction).  NeverOversleeps needs to know that  *)
(* when take_ready() finds nothing there is nothing to find                *)
(* (NoneSelected), and that the age of a group stands for the wait of each *)
(* of its items, however often it has lost its front (WaitInv).            *)
(***************************************************************************)
EXTENDS MicroBatcher, SequenceTheorems, FiniteSetTheorems, WellFoundedInduction, TLAPS

-----------------------------------------------------------------------------
(* ---- induction, and what the recursive function computes ---- *)

\* A set that contains 0, and with each number the next, contains them all.
LEMMA NatSetInduction ==
  ASSUME NEW S, 0 \in S, \A n \in Nat : n \in S => n + 1 \in S
  PROVE  Nat \subseteq S
<1> DEFINE T == {n \in Nat : n \notin S}
<1> SUFFICES ASSUME T # {} PROVE FALSE
  OBVIOUS
<1>1. T \subseteq Nat
  OBVIOUS
<1> HIDE DEF T
<1>2. PICK x \in T : \A y \in T : ~ (<<y, x>> \in OpToRel(<, Nat))
  BY <1>1, WFMin, NatLessThanWellFounded
<1>3. x \in Nat /\ x # 0
  BY DEF T
<1>4. x - 1 \in Nat /\ x - 1 < x
  BY <1>3
<1>5. x - 1 \notin T
  BY <1>2, <1>3, <1>4 DEF OpToRel
<1>6. QED
  BY <1>3, <1>4, <1>5 DEF T

\* f[n] is the sum over the first n items of s.
Sums(f, s, n) == f = [m \in 0 .. n |-> IF m = 0 THEN 0 ELSE f[m - 1] + SizeOf[s[m]]]

\* The recursion of Total has a solution, ...
LEMMA SumsExist ==
  ASSUME NEW s
  PROVE  \A n \in Nat : \E f : Sums(f, s, n)
<1> DEFINE S == {n \in Nat : \E f : Sums(f, s, n)}
<1>1. 0 \in S
  <2> DEFINE f == [m \in 0 .. 0 |-> 0]
  <2>1. f = [m \in 0 .. 0 |-> IF m = 0 THEN 0 ELSE f[m - 1] + SizeOf[s[m]]]
    OBVIOUS
  <2> HIDE DEF f
  <2>2. Sums(f, s, 0)
    BY <2>1 DEF Sums
  <2>3. QED
    BY <2>2
<1>2. ASSUME NEW n \in Nat, n \in S
      PROVE  n + 1 \in S
  <2>1. PICK f : Sums(f, s, n)
    BY <1>2
  <2> DEFINE g == [m \in 0 .. n + 1 |->
                     IF m <= n THEN f[m] ELSE f[m - 1] + SizeOf[s[m]]]
  <2>2. ASSUME NEW m \in 0 .. n + 1
        PROVE  g[m] = IF m = 0 THEN 0 ELSE g[m - 1] + SizeOf[s[m]]
    <3>1. CASE m <= n
      <4>1. m \in 0 .. n /\ (m # 0 => m - 1 \in 0 .. n + 1 /\ m - 1 <= n)
        BY <3>1
      <4>2. f[m] = IF m = 0 THEN 0 ELSE f[m - 1] + SizeOf[s[m]]
        BY <2>1, <4>1 DEF Sums
      <4>3. QED
        BY <4>1, <4>2
    <3>2. CASE m = n + 1
      <4>1. m # 0 /\ m - 1 \in 0 .. n + 1 /\ m - 1 <= n /\ ~(m <= n)
        BY <3>2
      <4>2. QED
        BY <4>1
    <3>3. QED
      BY <3>1, <3>2
  <2>3. g = [m \in 0 .. n + 1 |-> IF m = 0 THEN 0 ELSE g[m - 1] + SizeOf[s[m]]]
    BY <2>2
  <2> HIDE DEF g
  <2>4. Sums(g, s, n + 1)
    BY <2>3 DEF Sums
  <2>5. QED
    BY <2>4
<1> HIDE DEF S
<1>3. Nat \subseteq S
  BY <1>1, <1>2, NatSetInduction
<1>4. QED
  BY <1>3 DEF S

\* ... and Total takes its last value.
LEMMA TotalIs ==
  ASSUME NEW s, Len(s) \in Nat
  PROVE  \E f : Sums(f, s, Len(s)) /\ Total(s) = f[Len(s)]
<1> DEFINE f == CHOOSE f : f = [m \in 0 .. Len(s) |->
                                  IF m = 0 THEN 0 ELSE f[m - 1] + SizeOf[s[m]]]
<1>1. Sums(f, s, Len(s))
  BY SumsExist DEF Sums
<1>2. Total(s) = f[Len(s)]
  BY DEF Total
<1>3. QED
  BY <1>1, <1>2

\* The sum over a concatenation, up to its items: the sums over the parts.
LEMMA SumsOfConcat ==
  ASSUME NEW s \in Seq(Items), NEW t \in Seq(Items),
         NEW f, Sums(f, s, Len(s)), NEW g, Sums(g, t, Len(t)),
         NEW h, Sums(h, s \o t, Len(s) + Len(t))
  PROVE  /\ f[Len(s)] \in Nat /\ g[Len(t)] \in Nat
         /\ h[Len(s) + Len(t)] = f[Len(s)] + g[Len(t)]
<1> DEFINE a == Len(s)
           b == Len(t)
           u == s \o t
<1>1. /\ a \in Nat /\ b \in Nat
      /\ \A m \in 1 .. a : u[m] = s[m] /\ SizeOf[s[m]] \in Nat
      /\ \A m \in 1 .. b : u[a + m] = t[m] /\ SizeOf[t[m]] \in Nat
  <2>1. a \in Nat /\ b \in Nat
    BY LenProperties
  <2>2. \A i \in 1 .. a + b : u[i] = IF i <= a THEN s[i] ELSE t[i - a]
    BY ConcatProperties
  <2>3. \A m \in 1 .. a : u[m] = s[m]
    BY <2>1, <2>2
  <2>4. ASSUME NEW m \in 1 .. b
        PROVE  u[a + m] = t[m]
    <3>1. a + m \in 1 .. a + b /\ ~(a + m <= a) /\ (a + m) - a = m
      BY <2>1
    <3>2. QED
      BY <2>2, <3>1
  <2>5. (\A m \in 1 .. a : s[m] \in Items) /\ (\A m \in 1 .. b : t[m] \in Items)
    BY ElementOfSeq
  <2>6. QED
    BY <2>1, <2>3, <2>4, <2>5, BatcherAssumption
<1>2. /\ \A m \in 0 .. a : f[m] = IF m = 0 THEN 0 ELSE f[m - 1] + SizeOf[s[m]]
      /\ \A m \in 0 .. b : g[m] = IF m = 0 THEN 0 ELSE g[m - 1] + SizeOf[t[m]]
      /\ \A m \in 0 .. a + b : h[m] = IF m = 0 THEN 0 ELSE h[m - 1] + SizeOf[u[m]]
  BY DEF Sums
<1> HIDE DEF a, b, u
<1>3. \A m \in 0 .. a : f[m] \in Nat /\ h[m] = f[m]
  <2> DEFINE S == {m \in Nat : m \in 0 .. a => f[m] \in Nat /\ h[m] = f[m]}
  <2>1. 0 \in S
    BY <1>1, <1>2
  <2>2. ASSUME NEW m \in Nat, m \in S
        PROVE  m + 1 \in S
    <3> SUFFICES ASSUME m + 1 \in 0 .. a
                 PROVE  f[m + 1] \in Nat /\ h[m + 1] = f[m + 1]
      OBVIOUS
    <3>1. /\ m \in 0 .. a /\ m + 1 \in 1 .. a /\ m + 1 \in 0 .. a + b
          /\ (m + 1) - 1 = m /\ m + 1 # 0
      BY <1>1
    <3>2. f[m] \in Nat /\ h[m] = f[m]
      BY <2>2, <3>1
    <3>3. f[m + 1] = f[m] + SizeOf[s[m + 1]] /\ h[m + 1] = h[m] + SizeOf[u[m + 1]]
      BY <1>2, <3>1
    <3>4. SizeOf[s[m + 1]] \in Nat /\ u[m + 1] = s[m + 1]
      BY <1>1, <3>1
    <3>5. QED
      BY <3>2, <3>3, <3>4
  <2> HIDE DEF S
  <2>3. Nat \subseteq S
    BY <2>1, <2>2, NatSetInduction
  <2>4. QED
    BY <1>1, <2>3 DEF S
<1>4. \A m \in 0 .. b : g[m] \in Nat /\ h[a + m] = f[a] + g[m]
  <2> DEFINE S == {m \in Nat : m \in 0 .. b => g[m] \in Nat /\ h[a + m] = f[a] + g[m]}
  <2>1. 0 \in S
    <3>1. g[0] = 0 /\ a + 0 = a /\ h[a] = f[a] /\ f[a] \in Nat
      BY <1>1, <1>2, <1>3
    <3>2. QED
      BY <3>1
  <2>2. ASSUME NEW m \in Nat, m \in S
        PROVE  m + 1 \in S
    <3> SUFFICES ASSUME m + 1 \in 0 .. b
                 PROVE  g[m + 1] \in Nat /\ h[a + (m + 1)] = f[a] + g[m + 1]
      OBVIOUS
    <3>1. /\ m \in 0 .. b /\ m + 1 \in 1 .. b /\ (m + 1) - 1 = m /\ m + 1 # 0
          /\ a + (m + 1) \in 0 .. a + b /\ (a + (m + 1)) - 1 = a + m /\ a + (m + 1) # 0
      BY <1>1
    <3>2. g[m] \in Nat /\ h[a + m] = f[a] + g[m]
      BY <2>2, <3>1
    <3>3. g[m + 1] = g[m] + SizeOf[t[m + 1]]
      BY <1>2, <3>1
    <3>4. h[a + (m + 1)] = h[a + m] + SizeOf[u[a + (m + 1)]]
      BY <1>2, <3>1
    <3>5. SizeOf[t[m + 1]] \in Nat /\ u[a + (m + 1)] = t[m + 1]
      BY <1>1, <3>1
    <3>6. f[a] \in Nat
      BY <1>1, <1>3
    <3>7. QED
      BY <3>2, <3>3, <3>4, <3>5, <3>6
  <2> HIDE DEF S
  <2>3. Nat \subseteq S
    BY <2>1, <2>2, NatSetInduction
  <2>4. QED
    BY <1>1, <2>3 DEF S
<1>5. QED
  BY <1>1, <1>3, <1>4 DEF a, b

LEMMA TotalOfConcat ==
  ASSUME NEW s \in Seq(Items), NEW t \in Seq(Items)
  PROVE  /\ Total(s) \in Nat /\ Total(t) \in Nat
         /\ Total(s \o t) = Total(s) + Total(t)
<1>1. Len(s) \in Nat /\ Len(t) \in Nat /\ Len(s \o t) = Len(s) + Len(t)
  BY LenProperties, ConcatProperties
<1>2. PICK f : Sums(f, s, Len(s)) /\ Total(s) = f[Len(s)]
  BY <1>1, TotalIs
<1>3. PICK g : Sums(g, t, Len(t)) /\ Total(t) = g[Len(t)]
  BY <1>1, TotalIs
<1>4. PICK h : Sums(h, s \o t, Len(s) + Len(t)) /\ Total(s \o t) = h[Len(s) + Len(t)]
  <2>1. Len(s \o t) \in Nat
    BY <1>1
  <2>2. QED
    BY <1>1, <2>1, TotalIs
<1>5. QED
  BY <1>2, <1>3, <1>4, SumsOfConcat

LEMMA TotalOfFew ==
  /\ Total(<<>>) = 0
  /\ \A i \in Items : Total(<<i>>) = SizeOf[i] /\ SizeOf[i] \in Nat \ {0}
<1>1. Total(<<>>) = 0
  <2>1. PICK f : Sums(f, <<>>, 0) /\ Total(<<>>) = f[0]
    <3>1. Len(<<>>) = 0
      OBVIOUS
    <3>2. QED
      BY <3>1, TotalIs
  <2>2. f[0] = 0
    BY <2>1 DEF Sums
  <2>3. QED
    BY <2>1, <2>2
<1>2. ASSUME NEW i \in Items
      PROVE  Total(<<i>>) = SizeOf[i] /\ SizeOf[i] \in Nat \ {0}
  <2>1. Len(<<i>>) = 1 /\ <<i>>[1] = i
    OBVIOUS
  <2>2. PICK f : Sums(f, <<i>>, 1) /\ Total(<<i>>) = f[1]
    BY <2>1, TotalIs
  <2>3. f[0] = 0
    BY <2>2 DEF Sums
  <2>4. f[1] = f[1 - 1] + SizeOf[<<i>>[1]]
    BY <2>2 DEF Sums
  <2>5. QED
    BY <2>1, <2>2, <2>3, <2>4, BatcherAssumption
<1>3. QED
  BY <1>1, <1>2

\* What a batch takes and what it leaves add up to what there was.
LEMMA SplitTotal ==
  ASSUME NEW s \in Seq(Items), NEW n \in 1 .. Len(s)
  PROVE  /\ SubSeq(s, 1, n) \in Seq(Items) /\ SubSeq(s, n + 1, Len(s)) \in Seq(Items)
         /\ SubSeq(s, 1, n) # <<>>
         /\ ToSet(SubSeq(s, n + 1, Len(s))) \subseteq ToSet(s)
         /\ Total(s) = Total(SubSeq(s, 1, n)) + Total(SubSeq(s, n + 1, Len(s)))
         /\ Total(SubSeq(s, 1, n)) \in Nat /\ Total(SubSeq(s, n + 1, Len(s))) \in Nat
<1> DEFINE u == SubSeq(s, 1, n)
           v == SubSeq(s, n + 1, Len(s))
<1>1. /\ Len(s) \in Nat /\ n \in Nat /\ n >= 1 /\ n <= Len(s)
      /\ \A i \in 1 .. Len(s) : s[i] \in Items
      /\ DOMAIN s = 1 .. Len(s)
  BY LenProperties, ElementOfSeq
<1>2. u \in Seq(Items) /\ Len(u) = n
  <2>1. \A i \in 1 .. n : s[i] \in Items
    BY <1>1
  <2>2. u \in Seq(Items) /\ Len(u) = IF 1 <= n THEN n - 1 + 1 ELSE 0
    BY <1>1, <2>1, SubSeqProperties
  <2>3. QED
    BY <1>1, <2>2
<1>3. /\ v \in Seq(Items)
      /\ DOMAIN v = 1 .. Len(s) - n
      /\ \A i \in 1 .. Len(s) - n : v[i] = s[n + i]
  <2>1. \A i \in n + 1 .. Len(s) : s[i] \in Items
    BY <1>1
  <2>2. n + 1 \in Int /\ Len(s) \in Int /\ Len(s) - (n + 1) + 1 = Len(s) - n
    BY <1>1
  <2>3. /\ v \in Seq(Items)
        /\ Len(v) = IF n + 1 <= Len(s) THEN Len(s) - (n + 1) + 1 ELSE 0
        /\ \A i \in 1 .. Len(s) - (n + 1) + 1 : v[i] = s[(n + 1) + i - 1]
    BY <2>1, <2>2, SubSeqProperties
  <2>4. DOMAIN v = 1 .. Len(v)
    BY <2>3, LenProperties
  <2> HIDE DEF v
  <2>5. Len(v) = Len(s) - n
    <3> DEFINE l == Len(s)
    <3>1. l \in Nat /\ n \in Nat /\ n <= l /\ Len(v) = IF n + 1 <= l THEN l - (n + 1) + 1 ELSE 0
      BY <1>1, <2>3
    <3> HIDE DEF l
    <3>2. Len(v) = l - n
      BY <3>1
    <3>3. QED
      BY <3>2 DEF l
  <2>6. ASSUME NEW i \in 1 .. Len(s) - n
        PROVE  v[i] = s[n + i]
    <3>1. (n + 1) + i - 1 = n + i
      BY <1>1
    <3>2. QED
      BY <2>2, <2>3, <3>1
  <2>7. QED
    BY <2>3, <2>4, <2>5, <2>6
<1>4. u \o v = s
  <2>1. u \o v = SubSeq(s, 1, Len(s))
    <3>1. 1 \in 1 .. Len(s) + 1 /\ n \in 1 - 1 .. Len(s) /\ Len(s) \in n .. Len(s)
      BY <1>1
    <3>2. QED
      BY <3>1, ConcatAdjacentSubSeq
  <2>2. QED
    BY <2>1, SubSeqFull
<1> HIDE DEF u, v
<1>5. u # <<>>
  <2>1. Len(u) # 0
    BY <1>1, <1>2
  <2>2. QED
    BY <2>1
<1>6. ToSet(v) \subseteq ToSet(s)
  <2>1. ASSUME NEW i \in 1 .. Len(s) - n
        PROVE  n + i \in 1 .. Len(s)
    BY <1>1
  <2>2. QED
    BY <1>1, <1>3, <2>1 DEF ToSet
<1>7. Total(u) \in Nat /\ Total(v) \in Nat /\ Total(s) = Total(u) + Total(v)
  BY <1>2, <1>3, <1>4, TotalOfConcat
<1>8. QED
  BY <1>2, <1>3, <1>5, <1>6, <1>7 DEF u, v

\* _pop() takes an item at least, and no more than fit.
LEMMA TakenFits ==
  ASSUME NEW s \in Seq(Items), s # <<>>
  PROVE  Taken(s) \in 1 .. Len(s) /\ Fits(s, Taken(s))
<1> DEFINE l == Len(s)
           Stops(n) == Fits(s, n) /\ (n = l \/ ~Fits(s, n + 1))
           S == {n \in Nat : n \in 1 .. l => (\E m \in 1 .. n : Stops(m)) \/ Fits(s, n)}
<1>1. l \in Nat /\ l # 0
  BY EmptySeq, LenProperties
<1>2. 0 \in S
  OBVIOUS
<1>3. Fits(s, 1)
  BY DEF Fits
<1> HIDE DEF l
<1>4. ASSUME NEW n \in Nat, n \in S
      PROVE  n + 1 \in S
  <2> SUFFICES ASSUME n + 1 \in 1 .. l
               PROVE  (\E m \in 1 .. n + 1 : Stops(m)) \/ Fits(s, n + 1)
    OBVIOUS
  <2>1. CASE n = 0
    BY <1>3, <2>1
  <2>2. CASE n # 0
    <3>1. n \in 1 .. l /\ 1 .. n \subseteq 1 .. n + 1 /\ n \in 1 .. n + 1
      BY <1>1, <2>2
    <3>2. (\E m \in 1 .. n : Stops(m)) \/ Fits(s, n)
      BY <1>4, <3>1
    <3>3. QED
      BY <3>1, <3>2
  <2>3. QED
    BY <2>1, <2>2
<1> HIDE DEF S
<1>5. l \in S
  BY <1>1, <1>2, <1>4, NatSetInduction
<1>6. l \in 1 .. l
  BY <1>1
<1>7. \E m \in 1 .. l : Stops(m)
  BY <1>5, <1>6 DEF S
<1>8. QED
  BY <1>7 DEF Taken, l

-----------------------------------------------------------------------------
(* ---- the order of the dict ---- *)

\* A key at the end of the order.
LEMMA KeyAppended ==
  ASSUME NEW s \in Seq(Keys), IsInjective(s), NEW k \in Keys, k \notin ToSet(s)
  PROVE  /\ Append(s, k) \in Seq(Keys) /\ IsInjective(Append(s, k))
         /\ ToSet(Append(s, k)) = ToSet(s) \cup {k}
<1> DEFINE t == Append(s, k)
           n == Len(s)
<1>1. n \in Nat /\ DOMAIN s = 1 .. n
  BY LenProperties
<1>2. /\ t \in Seq(Keys) /\ Len(t) = n + 1
      /\ \A i \in 1 .. n : t[i] = s[i]
      /\ t[n + 1] = k
  BY AppendProperties
<1>3. DOMAIN t = 1 .. n + 1
  BY <1>2, LenProperties
<1> HIDE DEF t, n
<1>4. 1 .. n + 1 = 1 .. n \cup {n + 1}
  BY <1>1
<1>5. IsInjective(t)
  BY <1>1, <1>2, <1>3, <1>4 DEF IsInjective, ToSet
<1>6. ToSet(t) = ToSet(s) \cup {k}
  BY <1>1, <1>2, <1>3, <1>4 DEF ToSet
<1>7. QED
  BY <1>2, <1>5, <1>6 DEF t

\* The order without one of its keys.
LEMMA KeyRemoved ==
  ASSUME NEW s \in Seq(Keys), IsInjective(s), NEW p \in DOMAIN s
  PROVE  /\ RemoveAt(s, p) \in Seq(Keys) /\ IsInjective(RemoveAt(s, p))
         /\ ToSet(RemoveAt(s, p)) = ToSet(s) \ {s[p]}
<1> DEFINE n == Len(s)
           u == SubSeq(s, 1, p - 1)
           v == SubSeq(s, p + 1, n)
           t == u \o v
<1>1. n \in Nat /\ DOMAIN s = 1 .. n /\ p \in 1 .. n /\ \A i \in 1 .. n : s[i] \in Keys
  BY LenProperties, ElementOfSeq
<1>2. /\ u \in Seq(Keys) /\ Len(u) = p - 1
      /\ \A i \in 1 .. p - 1 : u[i] = s[i]
  <2>1. 1 \in Int /\ p - 1 \in Int /\ \A i \in 1 .. p - 1 : s[i] \in Keys
    BY <1>1
  <2>2. /\ u \in Seq(Keys) /\ Len(u) = IF 1 <= p - 1 THEN (p - 1) - 1 + 1 ELSE 0
        /\ \A i \in 1 .. (p - 1) - 1 + 1 : u[i] = s[1 + i - 1]
    BY <2>1, SubSeqProperties
  <2> HIDE DEF u
  <2>3. Len(u) = p - 1 /\ (p - 1) - 1 + 1 = p - 1
    BY <1>1, <2>2
  <2>4. ASSUME NEW i \in 1 .. p - 1
        PROVE  u[i] = s[i]
    <3>1. 1 + i - 1 = i
      OBVIOUS
    <3>2. QED
      BY <2>2, <2>3, <3>1
  <2>5. QED
    BY <2>2, <2>3, <2>4
<1>3. /\ v \in Seq(Keys) /\ Len(v) = n - p
      /\ \A i \in 1 .. n - p : v[i] = s[p + i]
  <2>1. p + 1 \in Int /\ n \in Int /\ \A i \in p + 1 .. n : s[i] \in Keys
    BY <1>1
  <2>2. /\ v \in Seq(Keys) /\ Len(v) = IF p + 1 <= n THEN n - (p + 1) + 1 ELSE 0
        /\ \A i \in 1 .. n - (p + 1) + 1 : v[i] = s[(p + 1) + i - 1]
    BY <2>1, SubSeqProperties
  <2> HIDE DEF v
  <2>3. Len(v) = n - p /\ n - (p + 1) + 1 = n - p
    BY <1>1, <2>2
  <2>4. ASSUME NEW i \in 1 .. n - p
        PROVE  v[i] = s[p + i]
    <3>1. (p + 1) + i - 1 = p + i
      BY <1>1
    <3>2. QED
      BY <2>2, <2>3, <3>1
  <2>5. QED
    BY <2>2, <2>3, <2>4
<1> HIDE DEF u, v, n
<1>4. /\ t \in Seq(Keys) /\ Len(t) = Len(u) + Len(v)
      /\ \A i \in 1 .. Len(u) + Len(v) : t[i] = IF i <= Len(u) THEN u[i] ELSE v[i - Len(u)]
  BY <1>2, <1>3, ConcatProperties
<1>5. /\ Len(t) = (p - 1) + (n - p)
      /\ \A i \in 1 .. (p - 1) + (n - p) : t[i] = IF i <= p - 1 THEN u[i] ELSE v[i - (p - 1)]
  <2> HIDE DEF t
  <2>1. QED
    BY <1>2, <1>3, <1>4
<1> HIDE DEF t
<1>6. DOMAIN t = 1 .. n - 1
  <2>1. DOMAIN t = 1 .. Len(t)
    BY <1>4, LenProperties
  <2>2. (p - 1) + (n - p) = n - 1
    BY <1>1
  <2>3. QED
    BY <1>5, <2>1, <2>2
<1>7. ASSUME NEW i \in 1 .. n - 1
      PROVE  t[i] = IF i < p THEN s[i] ELSE s[i + 1]
  <2>1. i \in 1 .. (p - 1) + (n - p)
    BY <1>1
  <2>2. CASE i < p
    <3>1. i \in 1 .. p - 1 /\ i <= p - 1
      BY <1>1, <2>2
    <3>2. QED
      BY <1>2, <1>5, <2>1, <2>2, <3>1
  <2>3. CASE ~(i < p)
    <3>1. i - (p - 1) \in 1 .. n - p /\ ~(i <= p - 1) /\ p + (i - (p - 1)) = i + 1
      BY <1>1, <2>3
    <3>2. t[i] = v[i - (p - 1)]
      BY <1>5, <2>1, <3>1
    <3>3. v[i - (p - 1)] = s[p + (i - (p - 1))]
      BY <1>3, <3>1
    <3>4. QED
      BY <2>3, <3>1, <3>2, <3>3
  <2>4. QED
    BY <2>2, <2>3
<1>8. IsInjective(t)
  <2> SUFFICES ASSUME NEW i \in 1 .. n - 1, NEW j \in 1 .. n - 1, t[i] = t[j]
               PROVE  i = j
    BY <1>6 DEF IsInjective
  <2>1. /\ i \in 1 .. n /\ i + 1 \in 1 .. n
        /\ j \in 1 .. n /\ j + 1 \in 1 .. n
    BY <1>1
  <2>2. \A x, y \in 1 .. n : s[x] = s[y] => x = y
    BY <1>1 DEF IsInjective
  <2>3. (IF i < p THEN i ELSE i + 1) = IF j < p THEN j ELSE j + 1
    BY <1>7, <2>1, <2>2
  <2>4. QED
    BY <1>1, <2>3
<1>9. ToSet(t) = ToSet(s) \ {s[p]}
  <2>1. ToSet(t) \subseteq ToSet(s) \ {s[p]}
    <3> SUFFICES ASSUME NEW i \in 1 .. n - 1
                 PROVE  t[i] \in ToSet(s) /\ t[i] # s[p]
      BY <1>6 DEF ToSet
    <3> DEFINE x == IF i < p THEN i ELSE i + 1
    <3>1. x \in 1 .. n /\ x # p /\ t[i] = s[x]
      BY <1>1, <1>7
    <3>2. QED
      BY <1>1, <3>1 DEF ToSet, IsInjective
  <2>2. ASSUME NEW x \in 1 .. n, s[x] # s[p]
        PROVE  s[x] \in ToSet(t)
    <3>1. CASE x < p
      <4>1. x \in 1 .. n - 1
        BY <1>1, <3>1
      <4>2. t[x] = s[x]
        BY <1>7, <3>1, <4>1
      <4>3. QED
        BY <1>6, <4>1, <4>2 DEF ToSet
    <3>2. CASE x > p
      <4>1. x - 1 \in 1 .. n - 1 /\ ~(x - 1 < p) /\ (x - 1) + 1 = x
        BY <1>1, <3>2
      <4>2. t[x - 1] = s[x]
        BY <1>7, <4>1
      <4>3. QED
        BY <1>6, <4>1, <4>2 DEF ToSet
    <3>3. x # p
      BY <2>2
    <3>4. QED
      BY <1>1, <3>1, <3>2, <3>3
  <2>3. ToSet(s) \ {s[p]} \subseteq ToSet(t)
    BY <1>1, <2>2 DEF ToSet
  <2>4. QED
    BY <2>1, <2>3
<1>10. RemoveAt(s, p) = t
  BY DEF RemoveAt, t, u, v, n
<1>11. QED
  BY <1>4, <1>8, <1>9, <1>10

-----------------------------------------------------------------------------
(* ---- the invariant ---- *)

\* The age of a group is no less than the wait of any of its items.
WaitInv == \A k \in Keys : \A i \in ToSet(items[k]) : waited[i] <= age[k]

\* A loop that sleeps without a wake-up under way has nothing to do before its
\* timer has run down.
SleepInv ==
  pc = "waiting" /\ ~changed =>
    \A k \in Present : ~Full(k) /\ timer <= Window /\ (timer > 0 => age[k] + timer <= Window)

\* A batch is out only while it is being processed, or after a stop.
BatchInv == pc \in {"polling", "waiting"} => batch = <<>>

BatcherInv == TypeOK /\ TextsCounted /\ WaitInv /\ SleepInv /\ BatchInv

-----------------------------------------------------------------------------
(* ---- _pop, take_ready and the clock ---- *)

\* The position of a key of the dict.
LEMMA PositionIs ==
  ASSUME TypeOK
  PROVE  /\ Len(order) \in Nat /\ DOMAIN order = 1 .. Len(order)
         /\ \A n \in DOMAIN order : order[n] \in Keys /\ Position(order[n]) = n
         /\ \A k \in Present : /\ k \in Keys /\ Position(k) \in DOMAIN order
                               /\ order[Position(k)] = k
<1>1. order \in Seq(Keys) /\ \A a, b \in DOMAIN order : order[a] = order[b] => a = b
  BY DEF TypeOK, IsInjective
<1>2. Len(order) \in Nat /\ DOMAIN order = 1 .. Len(order) /\ \A n \in DOMAIN order : order[n] \in Keys
  BY <1>1, LenProperties, ElementOfSeq
<1>3. ASSUME NEW k \in Present
      PROVE  k \in Keys /\ Position(k) \in DOMAIN order /\ order[Position(k)] = k
  <2>1. \E n \in DOMAIN order : order[n] = k
    BY DEF Present, ToSet
  <2>2. QED
    BY <1>2, <2>1 DEF Position
<1>4. ASSUME NEW n \in DOMAIN order
      PROVE  Position(order[n]) = n
  <2>1. order[n] \in Present
    BY DEF Present, ToSet
  <2>2. QED
    BY <1>1, <1>3, <2>1
<1>5. QED
  BY <1>2, <1>3, <1>4

\* What _pop() leaves behind.
LEMMA PopIs ==
  ASSUME TypeOK, TextsCounted, NEW k \in Present, Pop(k)
  PROVE  /\ k \in Keys /\ items[k] \in Seq(Items) /\ items[k] # <<>>
         /\ Taken(items[k]) \in 1 .. Len(items[k]) /\ Fits(items[k], Taken(items[k]))
         /\ batch' \in Seq(Items) /\ batch' # <<>>
         /\ items' \in [Keys -> Seq(Items)] /\ texts' \in [Keys -> Nat] /\ age' \in [Keys -> Nat]
         /\ order' \in Seq(Keys) /\ IsInjective(order')
         /\ \A m \in Keys : /\ m \in ToSet(order') <=> items'[m] # <<>>
                            /\ texts'[m] = Total(items'[m])
                            /\ ToSet(items'[m]) \subseteq ToSet(items[m])
                            /\ items'[m] # <<>> => age'[m] = age[m]
<1> DEFINE s == items[k]
           n == Taken(s)
           u == SubSeq(s, 1, n)
           v == SubSeq(s, n + 1, Len(s))
           p == Position(k)
<1>1. k \in Keys /\ p \in DOMAIN order /\ order[p] = k
  BY PositionIs
<1>2. s \in Seq(Items) /\ s # <<>>
  BY <1>1 DEF TypeOK
<1>3. n \in 1 .. Len(s) /\ Fits(s, n)
  BY <1>2, TakenFits
<1>4. /\ u \in Seq(Items) /\ v \in Seq(Items) /\ u # <<>> /\ ToSet(v) \subseteq ToSet(s)
      /\ Total(s) = Total(u) + Total(v) /\ Total(u) \in Nat /\ Total(v) \in Nat
  BY <1>2, <1>3, SplitTotal
<1>5. Leftovers(k) = v
  BY DEF Leftovers
<1>6. /\ batch' = u
      /\ items' = [items EXCEPT ![k] = v]
      /\ texts' = [texts EXCEPT ![k] = IF v = <<>> THEN 0 ELSE texts[k] - Total(u)]
      /\ age' = [age EXCEPT ![k] = IF v = <<>> THEN 0 ELSE age[k]]
      /\ order' = RemoveAt(order, p) \o (IF v = <<>> THEN <<>> ELSE <<k>>)
  BY <1>5 DEF Pop, TextsLeft, AgeLeft, Reinserted
<1>7. /\ items \in [Keys -> Seq(Items)] /\ texts \in [Keys -> Nat] /\ age \in [Keys -> Nat]
      /\ texts[k] = Total(s) /\ \A m \in Keys : texts[m] = Total(items[m])
      /\ \A m \in Keys : m \in Present <=> items[m] # <<>>
  BY <1>1 DEF TypeOK, TextsCounted
<1> HIDE DEF u, v, n, p
<1>8. (IF v = <<>> THEN 0 ELSE texts[k] - Total(u)) = Total(v)
  <2>1. CASE v = <<>>
    BY <2>1, TotalOfFew
  <2>2. CASE v # <<>>
    BY <1>4, <1>7, <2>2
  <2>3. QED
    BY <2>1, <2>2
<1>9. /\ items' \in [Keys -> Seq(Items)] /\ texts' \in [Keys -> Nat] /\ age' \in [Keys -> Nat]
      /\ items'[k] = v /\ \A m \in Keys \ {k} : items'[m] = items[m]
      /\ texts'[k] = Total(v) /\ \A m \in Keys \ {k} : texts'[m] = texts[m]
      /\ v # <<>> => age'[k] = age[k]
      /\ \A m \in Keys \ {k} : age'[m] = age[m]
  BY <1>1, <1>4, <1>6, <1>7, <1>8
<1>10. /\ order' \in Seq(Keys) /\ IsInjective(order')
       /\ ToSet(order') = IF v = <<>> THEN Present \ {k} ELSE Present
  <2> DEFINE r == RemoveAt(order, p)
  <2>1. r \in Seq(Keys) /\ IsInjective(r) /\ ToSet(r) = Present \ {k}
    BY <1>1, KeyRemoved DEF TypeOK, Present
  <2> HIDE DEF r
  <2>2. CASE v = <<>>
    <3>1. order' = r
      BY <1>6, <2>1, <2>2, ConcatEmptySeq DEF r
    <3>2. QED
      BY <2>1, <2>2, <3>1
  <2>3. CASE v # <<>>
    <3>1. order' = Append(r, k)
      BY <1>1, <1>6, <2>1, <2>3, AppendIsConcat DEF r
    <3>2. k \notin ToSet(r) /\ ToSet(r) \cup {k} = Present
      BY <2>1
    <3>3. Append(r, k) \in Seq(Keys) /\ IsInjective(Append(r, k)) /\ ToSet(Append(r, k)) = Present
      BY <1>1, <2>1, <3>2, KeyAppended
    <3>4. QED
      BY <2>3, <3>1, <3>3
  <2>4. QED
    BY <2>2, <2>3
<1>11. ASSUME NEW m \in Keys
       PROVE  /\ m \in ToSet(order') <=> items'[m] # <<>>
              /\ texts'[m] = Total(items'[m])
              /\ ToSet(items'[m]) \subseteq ToSet(items[m])
              /\ items'[m] # <<>> => age'[m] = age[m]
  <2>1. CASE m = k
    BY <1>4, <1>9, <1>10, <2>1
  <2>2. CASE m # k
    BY <1>7, <1>9, <1>10, <2>2
  <2>3. QED
    BY <2>1, <2>2
<1>12. QED
  BY <1>1, <1>2, <1>3, <1>4, <1>6, <1>9, <1>10, <1>11 DEF n

\* Among the first n groups of the dict, if some are full one is so first.
LEMMA FirstFull ==
  ASSUME TypeOK
  PROVE  \A n \in 0 .. Len(order) :
           \/ \A m \in 1 .. n : ~Full(order[m])
           \/ \E j \in 1 .. n : Full(order[j]) /\ \A m \in 1 .. n : Full(order[m]) => j <= m
<1> DEFINE l == Len(order)
           P(n) == \/ \A m \in 1 .. n : ~Full(order[m])
                   \/ \E j \in 1 .. n : /\ Full(order[j])
                                        /\ \A m \in 1 .. n : Full(order[m]) => j <= m
           S == {n \in Nat : n \in 0 .. l => P(n)}
<1>1. l \in Nat
  BY PositionIs
<1> HIDE DEF l
<1>2. 0 \in S
  OBVIOUS
<1>3. ASSUME NEW n \in Nat, n \in S
      PROVE  n + 1 \in S
  <2> SUFFICES ASSUME n + 1 \in 0 .. l
               PROVE  P(n + 1)
    OBVIOUS
  <2>1. P(n) /\ 1 .. n + 1 = 1 .. n \cup {n + 1}
    BY <1>1, <1>3
  <2>2. CASE \E j \in 1 .. n : Full(order[j]) /\ \A m \in 1 .. n : Full(order[m]) => j <= m
    <3>1. PICK j \in 1 .. n : Full(order[j]) /\ \A m \in 1 .. n : Full(order[m]) => j <= m
      BY <2>2
    <3>2. j \in 1 .. n + 1 /\ \A m \in 1 .. n + 1 : Full(order[m]) => j <= m
      BY <2>1, <3>1
    <3>3. QED
      BY <3>1, <3>2
  <2>3. CASE \A m \in 1 .. n : ~Full(order[m])
    <3>1. CASE Full(order[n + 1])
      <4>1. n + 1 \in 1 .. n + 1 /\ \A m \in 1 .. n + 1 : Full(order[m]) => n + 1 <= m
        BY <2>1, <2>3
      <4>2. QED
        BY <3>1, <4>1
    <3>2. CASE ~Full(order[n + 1])
      BY <2>1, <2>3, <3>2
    <3>3. QED
      BY <3>1, <3>2
  <2>4. QED
    BY <2>1, <2>2, <2>3
<1> HIDE DEF S
<1>4. Nat \subseteq S
  BY <1>2, <1>3, NatSetInduction
<1>5. QED
  BY <1>1, <1>4 DEF S, l

\* Among the first n groups one is the oldest, and the first of its age.
LEMMA FirstOldest ==
  ASSUME TypeOK
  PROVE  \A n \in 1 .. Len(order) :
           \E j \in 1 .. n : \A m \in 1 .. n :
             \/ age[order[m]] < age[order[j]]
             \/ age[order[m]] = age[order[j]] /\ j <= m
<1> DEFINE l == Len(order)
           a(m) == age[order[m]]
           Before(j, m) == a(m) < a(j) \/ (a(m) = a(j) /\ j <= m)
           S == {n \in Nat : n \in 1 .. l => \E j \in 1 .. n : \A m \in 1 .. n : Before(j, m)}
<1>1. l \in Nat /\ \A m \in 1 .. l : a(m) \in Nat
  BY PositionIs DEF TypeOK
<1> HIDE DEF l, a
<1>2. 0 \in S
  OBVIOUS
<1>3. ASSUME NEW n \in Nat, n \in S
      PROVE  n + 1 \in S
  <2> SUFFICES ASSUME n + 1 \in 1 .. l
               PROVE  \E j \in 1 .. n + 1 : \A m \in 1 .. n + 1 : Before(j, m)
    OBVIOUS
  <2>1. 1 .. n + 1 = 1 .. n \cup {n + 1} /\ a(n + 1) \in Nat
    BY <1>1
  <2>2. Before(n + 1, n + 1)
    BY <2>1
  <2>3. CASE n = 0
    <3>1. \A m \in 1 .. n + 1 : Before(n + 1, m)
      BY <2>2, <2>3
    <3>2. n + 1 \in 1 .. n + 1
      OBVIOUS
    <3>3. QED
      BY <3>1, <3>2
  <2>4. CASE n # 0
    <3>1. n \in 1 .. l /\ \A m \in 1 .. n : a(m) \in Nat
      BY <1>1, <2>4
    <3>2. PICK j \in 1 .. n : \A m \in 1 .. n : Before(j, m)
      BY <1>3, <3>1
    <3>3. CASE a(n + 1) <= a(j)
      <4>1. Before(j, n + 1)
        BY <2>1, <3>1, <3>3
      <4>2. j \in 1 .. n + 1 /\ \A m \in 1 .. n + 1 : Before(j, m)
        BY <2>1, <3>2, <4>1
      <4>3. QED
        BY <4>2
    <3>4. CASE ~(a(n + 1) <= a(j))
      <4>1. ASSUME NEW m \in 1 .. n
            PROVE  Before(n + 1, m)
        <5>1. a(m) <= a(j) /\ a(m) \in Nat /\ a(j) \in Nat
          BY <3>1, <3>2
        <5>2. QED
          BY <2>1, <3>4, <5>1
      <4>2. n + 1 \in 1 .. n + 1 /\ \A m \in 1 .. n + 1 : Before(n + 1, m)
        BY <2>1, <2>2, <4>1
      <4>3. QED
        BY <4>2
    <3>5. QED
      BY <3>3, <3>4
  <2>5. QED
    BY <2>3, <2>4
<1> HIDE DEF S
<1>4. Nat \subseteq S
  BY <1>2, <1>3, NatSetInduction
<1>5. \A n \in 1 .. l : n \in Nat
  BY <1>1
<1>6. QED
  BY <1>4, <1>5 DEF S, l, a

\* take_ready() returns nothing only when no group is full and none is due.
LEMMA NoneSelected ==
  ASSUME TypeOK, \A k \in Present : ~Selected(k)
  PROVE  \A k \in Present : ~Full(k) /\ ~Due(k)
<1> DEFINE l == Len(order)
<1>1. /\ l \in Nat /\ DOMAIN order = 1 .. l
      /\ \A n \in 1 .. l : order[n] \in Present /\ Position(order[n]) = n
      /\ \A k \in Present : Position(k) \in 1 .. l /\ order[Position(k)] = k
  BY PositionIs DEF Present, ToSet
<1> HIDE DEF l
<1>2. \A k \in Present : ~Full(k)
  <2>1. \/ \A m \in 1 .. l : ~Full(order[m])
        \/ \E j \in 1 .. l : Full(order[j]) /\ \A m \in 1 .. l : Full(order[m]) => j <= m
    <3>1. l \in 0 .. l
      BY <1>1
    <3>2. QED
      BY <3>1, FirstFull DEF l
  <2>2. ASSUME NEW j \in 1 .. l, Full(order[j]), \A m \in 1 .. l : Full(order[m]) => j <= m
        PROVE  FALSE
    <3>1. ASSUME NEW m \in Present \ {order[j]}, Full(m)
          PROVE  j < Position(m)
      <4>1. Position(m) \in 1 .. l /\ j <= Position(m) /\ Position(m) # j
        BY <1>1, <2>2, <3>1
      <4>2. QED
        BY <1>1, <4>1
    <3>2. Selected(order[j])
      BY <1>1, <2>2, <3>1 DEF Selected
    <3>3. QED
      BY <1>1, <3>2
  <2>3. QED
    BY <1>1, <2>1, <2>2
<1>3. \A k \in Present : ~Due(k)
  <2> SUFFICES ASSUME NEW k \in Present, Due(k)
               PROVE  FALSE
    OBVIOUS
  <2>1. l \in 1 .. l
    BY <1>1
  <2>2. PICK j \in 1 .. l : \A m \in 1 .. l :
               \/ age[order[m]] < age[order[j]]
               \/ age[order[m]] = age[order[j]] /\ j <= m
    BY <2>1, FirstOldest DEF l
  <2> DEFINE o == order[j]
  <2>3. /\ o \in Present /\ Position(o) = j /\ age[o] \in Nat
        /\ \A m \in Present : m \in Keys /\ age[m] \in Nat
    BY <1>1, PositionIs DEF TypeOK
  <2>4. \A m \in Present : age[m] < age[o] \/ (age[m] = age[o] /\ j <= Position(m))
    BY <1>1, <2>2
  <2> HIDE DEF o
  <2>5. Due(o)
    <3>1. age[k] \in Nat /\ age[o] \in Nat /\ age[k] <= age[o] /\ age[k] >= Window
      BY <2>3, <2>4 DEF Due
    <3>2. QED
      BY <3>1, BatcherAssumption DEF Due
  <2>6. ASSUME NEW m \in Present \ {o}
        PROVE  age[m] < age[o] \/ (age[m] = age[o] /\ Position(o) < Position(m))
    <3>1. Position(m) # j /\ Position(m) \in 1 .. l
      BY <1>1, <2>6 DEF o
    <3>2. QED
      BY <1>1, <2>3, <2>4, <3>1
  <2>7. Selected(o)
    BY <1>2, <2>5, <2>6 DEF Selected
  <2>8. QED
    BY <2>3, <2>7
<1>4. QED
  BY <1>2, <1>3

\* The timeout is what is left to the oldest group.
LEMMA TimeoutIs ==
  ASSUME TypeOK, \A k \in Present : ~Due(k)
  PROVE  /\ Timeout \in 0 .. NoTimer
         /\ \A k \in Present : Timeout <= Window /\ age[k] + Timeout <= Window
<1>1. CASE Present = {}
  BY <1>1, BatcherAssumption DEF Timeout, NoTimer
<1>2. CASE Present # {}
  <2> DEFINE ages == {age[k] : k \in Present}
             a == CHOOSE x \in ages : \A m \in Present : x >= age[m]
  <2>1. \E x \in ages : \A m \in Present : x >= age[m]
    <3> DEFINE l == Len(order)
    <3>1. /\ l \in Nat
          /\ \A n \in 1 .. l : order[n] \in Present
          /\ \A k \in Present : /\ Position(k) \in 1 .. l /\ order[Position(k)] = k
                               /\ age[k] \in Nat
      BY PositionIs DEF Present, ToSet, TypeOK
    <3> HIDE DEF l
    <3>2. l \in 1 .. l
      BY <1>2, <3>1
    <3>3. PICK j \in 1 .. l : \A m \in 1 .. l :
                 \/ age[order[m]] < age[order[j]]
                 \/ age[order[m]] = age[order[j]] /\ j <= m
      BY <3>2, FirstOldest DEF l
    <3>4. order[j] \in Present /\ age[order[j]] \in ages
      BY <3>1
    <3>5. \A m \in Present : age[order[j]] >= age[m]
      BY <3>1, <3>3, <3>4
    <3>6. QED
      BY <3>4, <3>5
  <2>2. a \in ages /\ \A m \in Present : a >= age[m]
    BY <2>1
  <2>3. Timeout = Window - a
    BY <1>2 DEF Timeout
  <2> HIDE DEF a
  <2>4. a \in Nat /\ a < Window /\ \A m \in Present : age[m] \in Nat
    <3>1. PICK k \in Present : a = age[k]
      BY <2>2
    <3>2. \A m \in Present : age[m] \in Nat
      BY PositionIs DEF TypeOK
    <3>3. QED
      BY <3>1, <3>2, BatcherAssumption DEF Due
  <2>5. QED
    BY <2>2, <2>3, <2>4, BatcherAssumption DEF NoTimer
<1>3. QED
  BY <1>1, <1>2

\* Compressing ages leaves those below the window alone, and the others at or
\* above it.
LEMMA CompressIs ==
  ASSUME TypeOK, NEW a \in [Keys -> Nat]
  PROVE  /\ Compress(a) \in [Keys -> Nat]
         /\ \A k \in Present : IF a[k] < Window THEN Compress(a)[k] = a[k]
                                                ELSE Compress(a)[k] >= Window
<1> DEFINE lower(k) == {n \in Present : a[n] >= Window /\ a[n] < a[k]}
           steps(k) == {a[m] : m \in lower(k)}
<1>1. ASSUME NEW k \in Keys
      PROVE  Cardinality(steps(k)) \in Nat
  <2>1. IsFiniteSet(Present)
    <3> DEFINE f == [n \in 1 .. Len(order) |-> order[n]]
    <3>1. Len(order) \in Nat /\ DOMAIN order = 1 .. Len(order)
      BY PositionIs
    <3>2. f \in Surjection(1 .. Len(order), Present)
      BY <3>1 DEF Surjection, Present, ToSet
    <3>3. IsFiniteSet(1 .. Len(order))
      BY <3>1, FS_Interval
    <3>4. QED
      BY <3>2, <3>3, FS_Surjection
  <2>2. IsFiniteSet(lower(k))
    BY <2>1, FS_Subset
  <2> DEFINE g == [m \in lower(k) |-> a[m]]
  <2>3. g \in Surjection(lower(k), steps(k))
    BY DEF Surjection
  <2>4. IsFiniteSet(steps(k))
    BY <2>2, <2>3, FS_Surjection
  <2>5. QED
    BY <2>4, FS_CardinalityType
<1>2. Compress(a) = [k \in Keys |-> IF k \notin Present THEN 0
                                   ELSE IF a[k] < Window THEN a[k]
                                   ELSE Window + Cardinality(steps(k))]
  BY DEF Compress
<1> HIDE DEF steps
<1>3. \A k \in Present : k \in Keys
  BY PositionIs
<1>4. QED
  BY <1>1, <1>2, <1>3, BatcherAssumption

-----------------------------------------------------------------------------
(* ---- one step ---- *)

LEMMA InitBatcherInv == Init => BatcherInv
<1> SUFFICES ASSUME Init
             PROVE  BatcherInv
  OBVIOUS
<1>1. order = <<>> /\ ToSet(<<>>) = {}
  BY DEF Init, ToSet
<1>2. TypeOK
  <2>1. order \in Seq(Keys) /\ IsInjective(order) /\ Present = {}
    BY <1>1 DEF Present, IsInjective
  <2>2. /\ items \in [Keys -> Seq(Items)] /\ batch \in Seq(Items)
        /\ \A k \in Keys : k \in Present <=> items[k] # <<>>
    BY <2>1 DEF Init
  <2>3. NoTimer \in 0 .. NoTimer /\ 0 \in 0 .. Window
    BY BatcherAssumption DEF NoTimer
  <2>4. QED
    BY <2>1, <2>2, <2>3 DEF Init, TypeOK
<1>3. TextsCounted
  BY TotalOfFew DEF Init, TextsCounted
<1>4. WaitInv /\ SleepInv /\ BatchInv
  BY <1>1 DEF Init, WaitInv, SleepInv, BatchInv
<1>5. QED
  BY <1>2, <1>3, <1>4 DEF BatcherInv

\* The elements of a sequence and one more.
LEMMA ItemAppended ==
  ASSUME NEW s \in Seq(Items), NEW i \in Items
  PROVE  /\ Append(s, i) \in Seq(Items) /\ Append(s, i) # <<>>
         /\ ToSet(Append(s, i)) = ToSet(s) \cup {i}
         /\ Total(Append(s, i)) = Total(s) + SizeOf[i] /\ Total(s) \in Nat
<1> DEFINE t == Append(s, i)
           n == Len(s)
<1>1. n \in Nat /\ DOMAIN s = 1 .. n
  BY LenProperties
<1>2. /\ t \in Seq(Items) /\ t # <<>> /\ Len(t) = n + 1
      /\ \A m \in 1 .. n : t[m] = s[m]
      /\ t[n + 1] = i
  BY AppendProperties
<1>3. DOMAIN t = 1 .. n + 1
  BY <1>2, LenProperties
<1>4. t = s \o <<i>> /\ <<i>> \in Seq(Items)
  BY AppendIsConcat
<1>5. Total(t) = Total(s) + SizeOf[i] /\ Total(s) \in Nat
  BY <1>4, TotalOfConcat, TotalOfFew
<1> HIDE DEF t, n
<1>6. 1 .. n + 1 = 1 .. n \cup {n + 1}
  BY <1>1
<1>7. ToSet(t) = ToSet(s) \cup {i}
  BY <1>1, <1>2, <1>3, <1>6 DEF ToSet
<1>8. QED
  BY <1>2, <1>5, <1>7 DEF t

LEMMA AddKeeps ==
  ASSUME BatcherInv, NEW i \in Items, Add(i)
  PROVE  BatcherInv'
<1> USE DEF BatcherInv
<1> DEFINE k == KeyOf[i]
           s == items[k]
<1>1. /\ order' = IF k \in Present THEN order ELSE Append(order, k)
      /\ items' = [items EXCEPT ![k] = Append(@, i)]
      /\ texts' = [texts EXCEPT ![k] = @ + SizeOf[i]]
      /\ waited' = [waited EXCEPT ![i] = 0]
      /\ changed' = TRUE /\ age' = age /\ pc' = pc /\ timer' = timer /\ batch' = batch
  BY DEF Add, Notify
<1>2. k \in Keys /\ SizeOf[i] \in Nat
  BY BatcherAssumption
<1>3. /\ items \in [Keys -> Seq(Items)] /\ texts \in [Keys -> Nat] /\ age \in [Keys -> Nat]
      /\ waited \in [Items -> 0 .. Window] /\ s \in Seq(Items)
  BY <1>2 DEF TypeOK
<1>4. /\ Append(s, i) \in Seq(Items) /\ Append(s, i) # <<>>
      /\ ToSet(Append(s, i)) = ToSet(s) \cup {i}
      /\ Total(Append(s, i)) = Total(s) + SizeOf[i] /\ Total(s) \in Nat
  BY <1>3, ItemAppended
<1>5. order' \in Seq(Keys) /\ IsInjective(order') /\ ToSet(order') = Present \cup {k}
  <2>1. CASE k \in Present
    BY <1>1, <2>1 DEF TypeOK, Present
  <2>2. CASE k \notin Present
    BY <1>1, <1>2, <2>2, KeyAppended DEF TypeOK, Present
  <2>3. QED
    BY <2>1, <2>2
<1>6. /\ items'[k] = Append(s, i) /\ \A m \in Keys \ {k} : items'[m] = items[m]
      /\ texts'[k] = texts[k] + SizeOf[i] /\ \A m \in Keys \ {k} : texts'[m] = texts[m]
      /\ items' \in [Keys -> Seq(Items)] /\ texts' \in [Keys -> Nat]
      /\ waited' \in [Items -> 0 .. Window] /\ waited'[i] = 0
      /\ \A j \in Items \ {i} : waited'[j] = waited[j]
  BY <1>1, <1>2, <1>3, <1>4, BatcherAssumption
<1> HIDE DEF s, k
<1>7. \A m \in Keys : m \in ToSet(order') <=> items'[m] # <<>>
  BY <1>2, <1>4, <1>5, <1>6 DEF TypeOK
<1>8. TypeOK'
  BY <1>1, <1>3, <1>5, <1>6, <1>7 DEF TypeOK, Present, IsInjective, ToSet
<1>9. TextsCounted'
  <2> SUFFICES ASSUME NEW m \in Keys
               PROVE  texts'[m] = Total(items'[m])
    BY DEF TextsCounted, Total
  <2>1. CASE m = k
    BY <1>2, <1>4, <1>6, <2>1 DEF TextsCounted, s
  <2>2. CASE m # k
    BY <1>6, <2>2 DEF TextsCounted
  <2>3. QED
    BY <2>1, <2>2
<1>10. WaitInv'
  <2> SUFFICES ASSUME NEW m \in Keys, NEW j \in ToSet(items'[m])
               PROVE  waited'[j] <= age[m]
    BY <1>1 DEF WaitInv, ToSet
  <2>1. CASE j = i
    BY <1>3, <1>6, <2>1
  <2>2. CASE j # i
    <3>1. j \in ToSet(items[m])
      BY <1>4, <1>6, <2>2 DEF s
    <3>2. j \in Items
      <4>1. items[m] \in Seq(Items)
        BY <1>3
      <4>2. QED
        BY <3>1, <4>1, LenProperties, ElementOfSeq DEF ToSet
    <3>3. QED
      BY <1>6, <2>2, <3>1, <3>2 DEF WaitInv
  <2>3. QED
    BY <2>1, <2>2
<1>11. SleepInv' /\ BatchInv'
  BY <1>1 DEF SleepInv, BatchInv
<1>12. QED
  BY <1>8, <1>9, <1>10, <1>11

\* Counters and items that stay as they are still agree.
LEMMA CountedStays ==
  ASSUME TextsCounted, items' = items, texts' = texts
  PROVE  TextsCounted'
BY DEF TextsCounted

\* _pop() keeps what there is to keep of the groups.
LEMMA PopKeeps ==
  ASSUME BatcherInv, NEW k \in Present, Pop(k), waited' = waited,
         changed' \in BOOLEAN, pc' \in {"busy", "stopped"}, timer' \in 0 .. NoTimer
  PROVE  BatcherInv'
<1>1. /\ batch' \in Seq(Items)
      /\ items' \in [Keys -> Seq(Items)] /\ texts' \in [Keys -> Nat] /\ age' \in [Keys -> Nat]
      /\ order' \in Seq(Keys) /\ IsInjective(order')
      /\ \A m \in Keys : /\ m \in ToSet(order') <=> items'[m] # <<>>
                         /\ texts'[m] = Total(items'[m])
                         /\ ToSet(items'[m]) \subseteq ToSet(items[m])
                         /\ items'[m] # <<>> => age'[m] = age[m]
  BY PopIs DEF BatcherInv
<1>2. TypeOK'
  BY <1>1 DEF BatcherInv, TypeOK, Present, IsInjective, ToSet
<1>3. TextsCounted'
  BY <1>1 DEF TextsCounted, Total
<1>4. WaitInv'
  <2> SUFFICES ASSUME NEW m \in Keys, NEW j \in ToSet(items'[m])
               PROVE  waited[j] <= age'[m]
    BY DEF WaitInv, ToSet
  <2>1. items'[m] # <<>>
    BY DEF ToSet
  <2>2. QED
    BY <1>1, <2>1 DEF BatcherInv, WaitInv
<1>5. SleepInv' /\ BatchInv'
  BY DEF SleepInv, BatchInv
<1>6. QED
  BY <1>2, <1>3, <1>4, <1>5 DEF BatcherInv

LEMMA NextBatchKeeps ==
  ASSUME BatcherInv, NextBatch
  PROVE  BatcherInv'
<1>1. CASE \E k \in Present : /\ Selected(k) /\ Pop(k)
                              /\ changed' = (Leftovers(k) # <<>>)
                              /\ pc' = "busy" /\ timer' = NoTimer
  <2>1. NoTimer \in 0 .. NoTimer /\ waited' = waited
    BY BatcherAssumption DEF NoTimer, NextBatch
  <2>2. QED
    BY <1>1, <2>1, PopKeeps
<1>2. CASE /\ \A k \in Present : ~Selected(k)
           /\ changed' = FALSE /\ pc' = "waiting" /\ timer' = Timeout
           /\ UNCHANGED <<groups, batch>>
  <2>1. /\ order' = order /\ items' = items /\ texts' = texts /\ age' = age
        /\ batch' = batch /\ waited' = waited /\ pc \in {"polling", "waiting"}
    BY <1>2 DEF NextBatch, groups
  <2>2. /\ \A k \in Present : ~Full(k) /\ ~Due(k)
        /\ Timeout \in 0 .. NoTimer
        /\ \A k \in Present : Timeout <= Window /\ age[k] + Timeout <= Window
    BY <1>2, NoneSelected, TimeoutIs DEF BatcherInv
  <2>3. TypeOK'
    BY <1>2, <2>1, <2>2 DEF BatcherInv, TypeOK, Present
  <2>4. TextsCounted' /\ WaitInv'
    BY <2>1, CountedStays DEF BatcherInv, WaitInv
  <2>5. SleepInv'
    BY <1>2, <2>1, <2>2 DEF SleepInv, Full, Present
  <2>6. BatchInv'
    BY <2>1 DEF BatcherInv, BatchInv
  <2>7. QED
    BY <2>3, <2>4, <2>5, <2>6 DEF BatcherInv
<1>3. QED
  BY <1>1, <1>2 DEF NextBatch

LEMMA DrainKeeps ==
  ASSUME BatcherInv, Drain
  PROVE  BatcherInv'
<1>1. pc = "stopped" /\ pc' = "stopped" /\ timer' = timer /\ waited' = waited
  BY DEF Drain
<1>2. CASE batch # <<>> /\ batch' = <<>> /\ UNCHANGED <<groups, changed>>
  <2>1. /\ order' = order /\ items' = items /\ texts' = texts /\ age' = age
        /\ changed' = changed /\ batch' \in Seq(Items)
    BY <1>2 DEF groups
  <2>2. TypeOK' /\ TextsCounted' /\ WaitInv' /\ SleepInv' /\ BatchInv'
    BY <1>1, <2>1, CountedStays DEF BatcherInv, TypeOK, Present, WaitInv, SleepInv, BatchInv
  <2>3. QED
    BY <2>2 DEF BatcherInv
<1>3. CASE /\ batch = <<>> /\ order # <<>> /\ Pop(Head(order))
           /\ changed' = (changed \/ Leftovers(Head(order)) # <<>>)
  <2>1. Head(order) \in Present
    <3>1. order \in Seq(Keys) /\ order # <<>>
      BY <1>3 DEF BatcherInv, TypeOK
    <3>2. 1 \in DOMAIN order /\ Head(order) = order[1]
      BY <3>1, EmptySeq, LenProperties
    <3>3. QED
      BY <3>2 DEF Present, ToSet
  <2>2. timer' \in 0 .. NoTimer
    BY <1>1 DEF BatcherInv, TypeOK
  <2>3. QED
    BY <1>1, <1>3, <2>1, <2>2, PopKeeps
<1>4. QED
  BY <1>2, <1>3 DEF Drain

LEMMA ProcessedOrCancelKeeps ==
  ASSUME BatcherInv, Processed \/ Cancel
  PROVE  BatcherInv'
<1>1. /\ order' = order /\ items' = items /\ texts' = texts /\ age' = age
      /\ changed' = changed /\ waited' = waited
      /\ pc' \in {"polling", "stopped"} /\ (pc' = "polling" => batch' = <<>>)
      /\ timer' \in {timer, NoTimer} /\ batch' \in {batch, <<>>}
  BY DEF Processed, Cancel, groups
<1>2. NoTimer \in 0 .. NoTimer
  BY BatcherAssumption DEF NoTimer
<1>3. TypeOK'
  <2>1. timer' \in 0 .. NoTimer /\ batch' \in Seq(Items)
    <3>1. timer \in 0 .. NoTimer /\ batch \in Seq(Items) /\ <<>> \in Seq(Items)
      BY DEF BatcherInv, TypeOK
    <3>2. QED
      BY <1>1, <1>2, <3>1
  <2>2. pc' \in {"polling", "waiting", "busy", "stopped"}
    BY <1>1
  <2>3. QED
    BY <1>1, <2>1, <2>2 DEF BatcherInv, TypeOK, Present
<1>4. TextsCounted' /\ WaitInv'
  BY <1>1, CountedStays DEF BatcherInv, WaitInv
<1>5. SleepInv' /\ BatchInv'
  BY <1>1 DEF SleepInv, BatchInv
<1>6. QED
  BY <1>3, <1>4, <1>5 DEF BatcherInv

LEMMA TickKeeps ==
  ASSUME BatcherInv, Tick
  PROVE  BatcherInv'
<1> USE DEF BatcherInv
<1> DEFINE a == [k \in Keys |-> age[k] + 1]
<1>1. /\ order' = order /\ items' = items /\ texts' = texts /\ changed' = changed
      /\ pc' = pc /\ batch' = batch
      /\ age' = Compress(a)
      /\ timer' = IF timer \in 1 .. Window THEN timer - 1 ELSE timer
      /\ waited' = [i \in Items |-> IF i \in Buffered /\ waited[i] < Window
                                     THEN waited[i] + 1 ELSE waited[i]]
  BY DEF Tick
<1>2. /\ age \in [Keys -> Nat] /\ a \in [Keys -> Nat] /\ \A k \in Keys : a[k] = age[k] + 1
      /\ timer \in 0 .. NoTimer /\ waited \in [Items -> 0 .. Window] /\ Window \in Nat
      /\ \A k \in Present : k \in Keys
  BY BatcherAssumption, PositionIs DEF TypeOK
<1>3. /\ age' \in [Keys -> Nat]
      /\ \A k \in Present : IF a[k] < Window THEN age'[k] = a[k] ELSE age'[k] >= Window
  BY <1>1, <1>2, CompressIs
<1> HIDE DEF a
<1>4. timer' \in 0 .. NoTimer /\ waited' \in [Items -> 0 .. Window]
  <2>1. timer' \in 0 .. NoTimer
    BY <1>1, <1>2 DEF NoTimer
  <2>2. \A i \in Items : waited[i] < Window => waited[i] + 1 \in 0 .. Window
    BY <1>2
  <2>3. QED
    BY <1>1, <1>2, <2>1, <2>2
<1>5. TypeOK'
  BY <1>1, <1>3, <1>4 DEF TypeOK, Present
<1>6. TextsCounted' /\ BatchInv'
  BY <1>1, CountedStays DEF BatchInv
<1>7. WaitInv'
  <2> SUFFICES ASSUME NEW k \in Keys, NEW i \in ToSet(items[k])
               PROVE  waited'[i] <= age'[k]
    BY <1>1 DEF WaitInv
  <2>1. i \in Items /\ k \in Present
    <3>1. items[k] \in Seq(Items) /\ items[k] # <<>>
      BY DEF TypeOK, ToSet
    <3>2. QED
      BY <3>1, LenProperties, ElementOfSeq DEF TypeOK, ToSet
  <2>2. waited[i] <= age[k] /\ waited[i] \in 0 .. Window /\ age[k] \in Nat /\ age'[k] \in Nat
    BY <1>2, <1>3, <2>1 DEF WaitInv
  <2>3. waited'[i] <= waited[i] + 1 /\ waited'[i] \in 0 .. Window
    BY <1>1, <1>2, <1>4, <2>1
  <2>4. QED
    BY <1>2, <1>3, <2>1, <2>2, <2>3
<1>8. SleepInv'
  <2> SUFFICES ASSUME pc = "waiting", ~changed, NEW k \in Present
               PROVE  ~Full(k) /\ timer' <= Window /\ (timer' > 0 => age'[k] + timer' <= Window)
    BY <1>1 DEF SleepInv, Full, Present
  <2>1. ~Full(k) /\ timer <= Window /\ (timer > 0 => age[k] + timer <= Window)
    BY DEF SleepInv
  <2>2. age[k] \in Nat /\ age'[k] \in Nat /\ a[k] = age[k] + 1
    BY <1>2, <1>3
  <2>3. CASE timer' > 0
    <3>1. timer \in 1 .. Window /\ timer' = timer - 1 /\ a[k] < Window
      BY <1>1, <1>2, <2>1, <2>2, <2>3
    <3>2. age'[k] = age[k] + 1
      BY <1>3, <2>2, <3>1
    <3>3. QED
      BY <1>2, <2>1, <2>2, <3>1, <3>2
  <2>4. CASE ~(timer' > 0)
    BY <1>1, <1>2, <2>1, <2>4
  <2>5. QED
    BY <2>3, <2>4
<1>9. QED
  BY <1>5, <1>6, <1>7, <1>8

-----------------------------------------------------------------------------
(* ---- the steps of BatchBuffer ---- *)

LEMMA TextsAreTotal ==
  ASSUME NEW s
  PROVE  Buffer!Texts(s) = Total(s)
BY DEF Buffer!Texts, Total

\* _pop() takes the front of one line, and no more than there is room for.
LEMMA PopTakes ==
  ASSUME BatcherInv, NEW k \in Present, Pop(k), batch = <<>>
  PROVE  Buffer!Take(k) /\ k \in Keys
<1> DEFINE s == items[k]
           n == Taken(s)
<1>1. k \in Keys /\ s \in Seq(Items) /\ n \in 1 .. Len(s) /\ Fits(s, n)
  BY PopIs DEF BatcherInv
<1>2. /\ batch' = SubSeq(s, 1, n)
      /\ items' = [items EXCEPT ![k] = SubSeq(s, n + 1, Len(s))]
  BY DEF Pop, Leftovers
<1>3. Len(batch') = 1 \/ Buffer!Texts(batch') <= MaxTexts
  <2>1. CASE n = 1
    <3>1. Len(s) \in Nat /\ \A i \in 1 .. n : s[i] \in Items
      BY <1>1, LenProperties, ElementOfSeq
    <3>2. Len(SubSeq(s, 1, n)) = IF 1 <= n THEN n - 1 + 1 ELSE 0
      BY <2>1, <3>1, SubSeqProperties
    <3>3. QED
      BY <1>2, <2>1, <3>2
  <2>2. CASE n # 1
    <3>1. Total(SubSeq(s, 1, n)) <= MaxTexts
      BY <1>1, <2>2 DEF Fits
    <3>2. QED
      BY <1>2, <3>1, TextsAreTotal
  <2>3. QED
    BY <2>1, <2>2
<1>4. QED
  BY <1>1, <1>2, <1>3 DEF Buffer!Take

\* Every step of the batcher is one of the buffer, or none.
LEMMA StepIsBuffers ==
  ASSUME BatcherInv, [Next]_vars
  PROVE  [Buffer!Next]_(Buffer!vars)
<1>1. ASSUME NEW i \in Items, Add(i)
      PROVE  Buffer!Next
  <2>1. \A k \in Keys : i \notin Buffer!ToSet(items[k])
    BY <1>1 DEF Add, Buffered, ToSet, Buffer!ToSet
  <2>2. i \notin Buffer!ToSet(batch)
    BY <1>1 DEF Add, ToSet, Buffer!ToSet
  <2>3. items' = [items EXCEPT ![KeyOf[i]] = Append(items[KeyOf[i]], i)]
    BY <1>1 DEF Add
  <2>4. batch' = batch
    BY <1>1 DEF Add
  <2>5. Buffer!Add(i)
    BY <2>1, <2>2, <2>3, <2>4 DEF Buffer!Add
  <2>6. QED
    BY <1>1, <2>5 DEF Buffer!Next
<1>2. CASE NextBatch
  <2>1. batch = <<>>
    BY <1>2 DEF NextBatch, BatcherInv, BatchInv
  <2>2. CASE \E k \in Present : Selected(k) /\ Pop(k)
    BY <2>1, <2>2, PopTakes DEF Buffer!Next
  <2>3. CASE UNCHANGED <<groups, batch>>
    BY <2>3 DEF groups, Buffer!vars
  <2>4. QED
    BY <1>2, <2>2, <2>3 DEF NextBatch
<1>3. CASE Processed
  <2>1. items' = items /\ batch' = <<>>
    BY <1>3 DEF Processed, groups
  <2>2. QED
    BY <2>1 DEF Buffer!Next, Buffer!Done, Buffer!vars
<1>4. CASE Cancel \/ Tick \/ UNCHANGED vars
  BY <1>4 DEF Cancel, Tick, vars, groups, Buffer!vars
<1>5. CASE Drain
  <2>1. CASE batch # <<>> /\ batch' = <<>> /\ UNCHANGED <<groups, changed>>
    BY <2>1 DEF groups, Buffer!Next, Buffer!Done
  <2>2. CASE batch = <<>> /\ order # <<>> /\ Pop(Head(order))
    <3>1. Head(order) \in Present
      <4>1. order \in Seq(Keys) /\ order # <<>>
        BY <2>2 DEF BatcherInv, TypeOK
      <4>2. 1 \in DOMAIN order /\ Head(order) = order[1]
        BY <4>1, EmptySeq, LenProperties
      <4>3. QED
        BY <4>2 DEF Present, ToSet
    <3>2. QED
      BY <2>2, <3>1, PopTakes DEF Buffer!Next
  <2>3. QED
    BY <1>5, <2>1, <2>2 DEF Drain
<1>6. QED
  BY <1>1, <1>2, <1>3, <1>4, <1>5 DEF Next

-----------------------------------------------------------------------------
(* ---- the theorems ---- *)

\* BatcherInv is inductive and so holds in every reachable state.
THEOREM BatcherInvariant == Spec => []BatcherInv
<1>1. BatcherInv /\ [Next]_vars => BatcherInv'
  <2> SUFFICES ASSUME BatcherInv, [Next]_vars
               PROVE  BatcherInv'
    OBVIOUS
  <2>1. CASE Next
    BY <2>1, AddKeeps, NextBatchKeeps, ProcessedOrCancelKeeps, DrainKeeps, TickKeeps DEF Next
  <2>2. CASE UNCHANGED vars
    <3>1. /\ order' = order /\ items' = items /\ texts' = texts /\ age' = age
          /\ changed' = changed /\ pc' = pc /\ timer' = timer /\ batch' = batch
          /\ waited' = waited
      BY <2>2 DEF vars, groups
    <3>2. TypeOK' /\ TextsCounted'
      BY <3>1, CountedStays DEF BatcherInv, TypeOK, Present
    <3>3. WaitInv' /\ SleepInv' /\ BatchInv'
      BY <3>1 DEF BatcherInv, WaitInv, SleepInv, BatchInv, Full, Present
    <3>4. QED
      BY <3>2, <3>3 DEF BatcherInv
  <2>3. QED
    BY <2>1, <2>2
<1>2. QED
  BY <1>1, InitBatcherInv, PTL DEF Spec

\* The variables of the batcher have their types, and a key is in the dict as
\* long as its group has items.
THEOREM BatcherTypes == Spec => []TypeOK
<1>1. BatcherInv => TypeOK
  BY DEF BatcherInv
<1>2. QED
  BY <1>1, BatcherInvariant, PTL

\* The counter of a group is the number of its texts.
THEOREM CountersAreRight == Spec => []TextsCounted
<1>1. BatcherInv => TextsCounted
  BY DEF BatcherInv
<1>2. QED
  BY <1>1, BatcherInvariant, PTL

\* A loop that only its timer will wake has no full group, and will be awake
\* before any item has waited longer than the window.
THEOREM WakesInTime == Spec => []NeverOversleeps
<1>1. BatcherInv => NeverOversleeps
  <2> SUFFICES ASSUME BatcherInv, pc = "waiting", ~changed
               PROVE  /\ \A k \in Keys : ~Full(k)
                      /\ \A i \in Buffered : timer <= Window /\ waited[i] + timer <= Window
    BY DEF NeverOversleeps
  <2>1. \A k \in Present : ~Full(k) /\ timer <= Window /\ (timer > 0 => age[k] + timer <= Window)
    BY DEF BatcherInv, SleepInv
  <2>2. ASSUME NEW k \in Keys
        PROVE  ~Full(k)
    <3>1. CASE k \in Present
      BY <2>1, <3>1
    <3>2. CASE k \notin Present
      <4>1. texts[k] = 0
        BY <3>2, TotalOfFew DEF BatcherInv, TypeOK, TextsCounted
      <4>2. QED
        BY <4>1, BatcherAssumption DEF Full
    <3>3. QED
      BY <3>1, <3>2
  <2>3. ASSUME NEW i \in Buffered
        PROVE  timer <= Window /\ waited[i] + timer <= Window
    <3>1. PICK k \in Keys : i \in ToSet(items[k])
      BY DEF Buffered
    <3>2. i \in Items /\ k \in Present
      BY <3>1 DEF Buffered, BatcherInv, TypeOK, ToSet
    <3>3. /\ waited[i] <= age[k] /\ waited[i] \in 0 .. Window /\ age[k] \in Nat
          /\ timer \in 0 .. NoTimer
      BY <3>1, <3>2 DEF BatcherInv, WaitInv, TypeOK
    <3>4. QED
      BY <2>1, <3>2, <3>3, BatcherAssumption DEF NoTimer
  <2>4. QED
    BY <2>2, <2>3
<1>2. QED
  BY <1>1, BatcherInvariant, PTL

\* The groups are lines that lose their front to batches of bounded size, one at
\* a time; through stops, drains and leftovers nothing is lost or doubled.
THEOREM BatcherImplementsBuffer == Spec => ImplementsBuffer
<1>1. Init => Buffer!Init
  BY DEF Init, Buffer!Init
<1>2. QED
  BY <1>1, BatcherInvariant, StepIsBuffers, PTL
     DEF Spec, ImplementsBuffer, Buffer!Spec
=============================================================================
