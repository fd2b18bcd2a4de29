------------------------ MODULE IngressTurns_proofs ------------------------
(* Proofs about the windows, the records and the conversations of            *)
(* ChannelIngress, for every value of its constants.                         *)
EXTENDS ChannelIngress_proofs, AgentSessionTurns_proofs, NaturalsInduction,
        WellFoundedInduction

-----------------------------------------------------------------------------
(* Without.                                                                  *)

\* A nonempty set of naturals has a least member.
LEMMA LeastNumber ==
  ASSUME NEW T \in SUBSET Nat, T # {}
  PROVE  \E m \in T : \A n \in T : m <= n
<1> DEFINE R == OpToRel(<, Nat)
<1>1. IsWellFoundedOn(R, Nat)
  BY NatLessThanWellFounded
<1>2. \A x, y \in Nat : x < y => <<x, y>> \in R
  BY DEF OpToRel
<1> HIDE DEF R
<1>3. \E m \in T : \A n \in T : <<n, m>> \notin R
  BY <1>1, WFMin
<1>4. PICK m \in T : \A n \in T : <<n, m>> \notin R
  BY <1>3
<1>5. \A n \in T : ~ (n < m)
  BY <1>2, <1>4
<1>6. m \in Nat /\ \A n \in T : n \in Nat
  OBVIOUS
<1>7. \A n \in T : m <= n
  BY <1>5, <1>6
<1> QED
  BY <1>7

\* What is left of the first n of w, when prev[n - 1] is left of the first n - 1.
Kept1(w, ids, prev, n) ==
  IF n = 0 THEN <<>>
  ELSE IF Id(w[n]) \in ids THEN prev[n - 1] ELSE Append(prev[n - 1], w[n])

IsRest(w, ids, f, m) == f = [n \in 0..m |-> Kept1(w, ids, f, n)]

\* The recursion of Without defines a function.
LEMMA RestExists ==
  ASSUME NEW w, NEW ids, NEW m \in Nat
  PROVE  \E f : IsRest(w, ids, f, m)
<1> DEFINE T == {n \in Nat : ~\E f : IsRest(w, ids, f, n)}
<1> SUFFICES ASSUME T # {} PROVE FALSE
  OBVIOUS
<1>1. PICK k \in T : \A n \in T : k <= n
  BY LeastNumber
<1>2. CASE k = 0
  <2> DEFINE f == [n \in 0..0 |-> <<>>]
  <2>1. \A n \in 0..0 : Kept1(w, ids, f, n) = <<>>
    BY DEF Kept1
  <2>2. IsRest(w, ids, f, 0)
    BY <2>1 DEF IsRest
  <2> QED
    BY <1>1, <1>2, <2>2
<1>3. CASE k # 0
  <2>1. k \in Nat /\ k - 1 \in Nat /\ ~(k <= k - 1)
    BY <1>1, <1>3
  <2>2. \E g : IsRest(w, ids, g, k - 1)
    BY <1>1, <2>1
  <2>3. PICK g : IsRest(w, ids, g, k - 1)
    BY <2>2
  <2> DEFINE f == [n \in 0..k |-> IF n = k THEN Kept1(w, ids, g, k) ELSE g[n]]
  <2>4. ASSUME NEW n \in 0..k PROVE f[n] = Kept1(w, ids, f, n)
    <3>1. n # 0 => n - 1 \in 0..(k - 1) /\ f[n - 1] = g[n - 1]
      BY <2>1
    <3>2. Kept1(w, ids, f, n) = Kept1(w, ids, g, n)
      BY <3>1 DEF Kept1
    <3>3. n # k => n \in 0..(k - 1) /\ g[n] = Kept1(w, ids, g, n)
      BY <2>1, <2>3 DEF IsRest
    <3> QED
      BY <3>2, <3>3
  <2>5. IsRest(w, ids, f, k)
    BY <2>4 DEF IsRest
  <2> QED
    BY <1>1, <2>5
<1> QED
  BY <1>2, <1>3

\* Without is the last value of such a function.
LEMMA WithoutIsRest ==
  ASSUME NEW w \in Seq(Mail), NEW ids
  PROVE  \E f : IsRest(w, ids, f, Len(w)) /\ Without(w, ids) = f[Len(w)]
<1> DEFINE f == CHOOSE g : IsRest(w, ids, g, Len(w))
<1>1. Len(w) \in Nat
  OBVIOUS
<1>2. \E g : IsRest(w, ids, g, Len(w))
  BY <1>1, RestExists
<1>3. IsRest(w, ids, f, Len(w))
  BY <1>2
<1>4. f = CHOOSE g : g = [n \in 0..Len(w) |-> IF n = 0 THEN <<>>
                                             ELSE IF Id(w[n]) \in ids THEN g[n - 1]
                                             ELSE Append(g[n - 1], w[n])]
  BY DEF IsRest, Kept1
<1>5. Without(w, ids) = f[Len(w)]
  BY <1>4 DEF Without
<1> QED
  BY <1>3, <1>5

\* No id comes twice.
DistinctIds(w) == \A i, j \in DOMAIN w : i < j => Id(w[i]) # Id(w[j])

\* What Without returns: deliveries of w, all but the excluded ids, each id as often as
\* before.
LEMMA WithoutFacts ==
  ASSUME NEW w \in Seq(Mail), NEW ids
  PROVE  /\ Without(w, ids) \in Seq(Mail)
         /\ \A i \in DOMAIN Without(w, ids) : \E j \in DOMAIN w : Without(w, ids)[i] = w[j]
         /\ Ids(Without(w, ids)) = Ids(w) \ ids
         /\ DistinctIds(w) => DistinctIds(Without(w, ids))
<1>1. PICK f : IsRest(w, ids, f, Len(w)) /\ Without(w, ids) = f[Len(w)]
  BY WithoutIsRest
<1>2. \A n \in 0..Len(w) : f[n] = Kept1(w, ids, f, n)
  BY <1>1 DEF IsRest
<1>3. Len(w) \in Nat /\ DOMAIN w = 1..Len(w) /\ \A i \in 1..Len(w) : w[i] \in Mail
  OBVIOUS
<1> DEFINE Good(n) ==
             /\ f[n] \in Seq(Mail)
             /\ \A i \in DOMAIN f[n] : \E j \in 1..n : f[n][i] = w[j]
             /\ \A j \in 1..n : Id(w[j]) \notin ids => \E i \in DOMAIN f[n] : f[n][i] = w[j]
             /\ \A i \in DOMAIN f[n] : Id(f[n][i]) \notin ids
             /\ DistinctIds(w) => DistinctIds(f[n])
           T == {n \in Nat : n <= Len(w) /\ ~Good(n)}
<1>4. \A n \in 0..Len(w) : Good(n)
  <2> SUFFICES ASSUME T # {} PROVE FALSE
    BY <1>3
  <2>1. PICK k \in T : \A n \in T : k <= n
    BY LeastNumber
  <2>2. k # 0
    <3>1. f[0] = <<>>
      BY <1>2, <1>3 DEF Kept1
    <3>2. Good(0)
      BY <3>1 DEF DistinctIds
    <3> QED
      BY <2>1, <3>2
  <2> DEFINE p == k - 1
  <2>3. /\ k \in 1..Len(w) /\ k \in Nat /\ p \in Nat /\ p <= Len(w) /\ ~(k <= p)
        /\ 1..k = 1..p \cup {k} /\ \A j \in 1..p : j \in 1..Len(w) /\ j < k
    BY <1>3, <2>1, <2>2
  <2>4. Good(p)
    BY <2>1, <2>3
  <2>5. f[k] = IF Id(w[k]) \in ids THEN f[p] ELSE Append(f[p], w[k])
    BY <1>2, <2>2, <2>3 DEF Kept1
  <2> HIDE DEF p
  <2>6. Good(k)
    <3>1. CASE Id(w[k]) \in ids
      <4>1. f[k] = f[p]
        BY <2>5, <3>1
      <4> QED
        BY <2>3, <2>4, <3>1, <4>1
    <3>2. CASE Id(w[k]) \notin ids
      <4> DEFINE g == f[p]
                 h == f[k]
      <4>1. g \in Seq(Mail) /\ h = Append(g, w[k]) /\ w[k] \in Mail
        BY <1>3, <2>3, <2>4, <2>5, <3>2
      <4>2. /\ h \in Seq(Mail) /\ Len(g) \in Nat /\ DOMAIN g = 1..Len(g)
            /\ DOMAIN h = DOMAIN g \cup {Len(g) + 1} /\ h[Len(g) + 1] = w[k]
            /\ \A i \in DOMAIN g : h[i] = g[i]
        BY <4>1
      <4>3. /\ \A i \in DOMAIN g : \E j \in 1..p : g[i] = w[j]
            /\ \A j \in 1..p : Id(w[j]) \notin ids => \E i \in DOMAIN g : g[i] = w[j]
            /\ \A i \in DOMAIN g : Id(g[i]) \notin ids
            /\ DistinctIds(w) => DistinctIds(g)
        BY <2>4
      <4> HIDE DEF g, h
      <4>4. \A i \in DOMAIN h : \E j \in 1..k : h[i] = w[j]
        BY <2>3, <4>2, <4>3
      <4>5. \A j \in 1..k : Id(w[j]) \notin ids => \E i \in DOMAIN h : h[i] = w[j]
        BY <2>3, <4>2, <4>3
      <4>6. \A i \in DOMAIN h : Id(h[i]) \notin ids
        BY <3>2, <4>2, <4>3
      <4>7. ASSUME DistinctIds(w) PROVE DistinctIds(h)
        <5>1. \A j \in 1..p : Id(w[j]) # Id(w[k])
          BY <1>3, <2>3, <4>7 DEF DistinctIds
        <5>2. \A i \in DOMAIN g : Id(g[i]) # Id(w[k])
          BY <4>3, <5>1
        <5> QED
          BY <4>2, <4>3, <4>7, <5>2 DEF DistinctIds
      <4> QED
        BY <4>2, <4>4, <4>5, <4>6, <4>7 DEF h
    <3> QED
      BY <3>1, <3>2
  <2> QED
    BY <2>1, <2>6
<1>5. Good(Len(w))
  <2> HIDE DEF Good
  <2>1. Len(w) \in 0..Len(w)
    BY <1>3
  <2> QED
    BY <1>4, <2>1
<1> DEFINE v == f[Len(w)]
<1>6. /\ v = Without(w, ids) /\ v \in Seq(Mail)
      /\ \A i \in DOMAIN v : \E j \in 1..Len(w) : v[i] = w[j]
      /\ \A j \in 1..Len(w) : Id(w[j]) \notin ids => \E i \in DOMAIN v : v[i] = w[j]
      /\ \A i \in DOMAIN v : Id(v[i]) \notin ids
      /\ DistinctIds(w) => DistinctIds(v)
  BY <1>1, <1>5
<1> HIDE DEF v
<1>7. Ids(v) = Ids(w) \ ids
  BY <1>3, <1>6 DEF Ids
<1> QED
  BY <1>3, <1>6, <1>7

-----------------------------------------------------------------------------
(* Windows, and what is written from them.                                   *)

\* What ages leave of a window.
LEMMA YoungerFacts ==
  ASSUME NEW w \in Seq(Mail), NEW n \in 0..Len(w)
  PROVE  /\ Younger(w, n) \in Seq(Mail) /\ Len(Younger(w, n)) = Len(w) - n
         /\ \A i \in DOMAIN Younger(w, n) : \E j \in DOMAIN w : Younger(w, n)[i] = w[j]
         /\ DistinctIds(w) => DistinctIds(Younger(w, n))
<1> DEFINE y == Younger(w, n)
<1>1. Len(w) \in Nat /\ n \in Nat /\ n <= Len(w) /\ DOMAIN w = 1..Len(w)
      /\ n + 1 \in 1..(Len(w) + 1)
  OBVIOUS
<1>2. /\ Len(y) = IF n + 1 <= Len(w) THEN Len(w) - (n + 1) + 1 ELSE 0
      /\ \A i \in 1..(Len(w) - (n + 1) + 1) : y[i] = w[n + 1 + i - 1]
  BY <1>1, SubSeqProperties DEF Younger
<1>3. y \in Seq(Mail)
  BY <1>1 DEF Younger
<1> HIDE DEF y
<1>4. Len(y) = Len(w) - n /\ 1..(Len(w) - (n + 1) + 1) = 1..Len(y)
  <2>1. Len(w) - (n + 1) + 1 = Len(w) - n
    BY <1>1
  <2>2. Len(y) = Len(w) - n
    <3>1. CASE n + 1 <= Len(w)
      BY <1>2, <2>1, <3>1
    <3>2. CASE ~(n + 1 <= Len(w))
      <4>1. Len(y) = 0
        BY <1>2, <3>2
      <4>2. \A a, b \in Nat : a <= b /\ ~(a + 1 <= b) => a = b /\ b - a = 0
        OBVIOUS
      <4> QED
        BY <1>1, <3>2, <4>1, <4>2
    <3> QED
      BY <3>1, <3>2
  <2> QED
    BY <2>1, <2>2
<1>5. ASSUME NEW i \in DOMAIN y
      PROVE  i \in Nat /\ n + i \in DOMAIN w /\ y[i] = w[n + i]
  <2>1. i \in 1..Len(y)
    BY <1>3
  <2>2. i \in Nat /\ n + i \in 1..Len(w) /\ n + 1 + i - 1 = n + i
    BY <1>1, <1>4, <2>1
  <2> QED
    BY <1>1, <1>2, <1>4, <2>1, <2>2
<1>6. ASSUME DistinctIds(w), NEW i \in DOMAIN y, NEW j \in DOMAIN y, i < j
      PROVE  Id(y[i]) # Id(y[j])
  <2>1. n + i < n + j
    BY <1>1, <1>5, <1>6
  <2> QED
    BY <1>5, <1>6, <2>1 DEF DistinctIds
<1>7. DistinctIds(w) => DistinctIds(y)
  BY <1>6 DEF DistinctIds
<1> QED
  BY <1>3, <1>4, <1>5, <1>7 DEF y

LEMMA IdsTyped ==
  ASSUME conf \in Setups
  PROVE  /\ \A d \in Mail : Id(d) \in Messages
         /\ \A w \in Seq(Mail) : Ids(w) \subseteq Messages
<1>1. \A d \in Mail : Id(d) \in Messages
  BY IngressAssumption DEF Id
<1> QED
  BY <1>1 DEF Ids

\* What a delivery that is pushed makes of the window of its session: it is in it, once,
\* and what had to go is counted as missed.
Pushed(d, fit) ==
  LET s == SessionOf[d]
  IN  /\ window' = [window EXCEPT ![s] = fit]
      /\ missed' = missed \cup (Ids(window[s]) \ Ids(fit))
      /\ Len(fit) <= MaxWindow
      /\ Id(d) \in Ids(fit)
      /\ \A i \in DOMAIN fit : fit[i] = d \/ \E j \in DOMAIN window[s] : fit[i] = window[s][j]
      /\ DistinctIds(window[s]) => DistinctIds(fit)

LEMMA PushFacts ==
  ASSUME IngressTypes, NEW d \in Mail, Push(d)
  PROVE  \E fit \in Seq(Mail) : Pushed(d, fit)
<1> DEFINE s == SessionOf[d]
           w == window[s]
<1>1. /\ w \in Seq(Mail) /\ Len(w) <= MaxWindow /\ MaxWindow \in Nat /\ MaxWindow > 0
      /\ Len(w) \in Nat
  BY Basics, IngressAssumption DEF IngressTypes
<1>2. PICK n \in 0..Len(w) :
        LET young == Younger(w, n)
            new   == IF Id(d) \in Ids(young) THEN young ELSE Append(young, d)
            fit   == IF Len(new) > MaxWindow THEN Tail(new) ELSE new
        IN /\ window' = [window EXCEPT ![s] = fit]
           /\ missed' = missed \cup (Ids(window[s]) \ Ids(fit))
  BY DEF Push
<1> DEFINE young == Younger(w, n)
           new   == IF Id(d) \in Ids(young) THEN young ELSE Append(young, d)
           fit   == IF Len(new) > MaxWindow THEN Tail(new) ELSE new
<1>3. /\ window' = [window EXCEPT ![s] = fit]
      /\ missed' = missed \cup (Ids(window[s]) \ Ids(fit))
  BY <1>2
<1>4. /\ young \in Seq(Mail) /\ Len(young) <= Len(w) /\ Len(young) \in Nat
      /\ \A i \in DOMAIN young : \E j \in DOMAIN w : young[i] = w[j]
      /\ DistinctIds(w) => DistinctIds(young)
  BY <1>1, YoungerFacts
<1> HIDE DEF young
<1>5. CASE Id(d) \in Ids(young)
  <2>1. new = young
    BY <1>5
  <2>2. fit = young
    BY <1>1, <1>4, <2>1
  <2>3. Len(young) <= MaxWindow
    BY <1>1, <1>4
  <2>4. /\ window' = [window EXCEPT ![s] = young]
        /\ missed' = missed \cup (Ids(window[s]) \ Ids(young))
    BY <1>3, <2>2
  <2>5. Pushed(d, young)
    BY <1>4, <1>5, <2>3, <2>4 DEF Pushed
  <2> QED
    BY <1>4, <2>5
<1>6. CASE Id(d) \notin Ids(young)
  <2>1. /\ new = Append(young, d) /\ new \in Seq(Mail) /\ Len(new) = Len(young) + 1
        /\ DOMAIN new = DOMAIN young \cup {Len(new)} /\ new[Len(new)] = d
        /\ DOMAIN new = 1..Len(new) /\ DOMAIN young = 1..Len(young)
        /\ \A i \in DOMAIN young : new[i] = young[i]
    BY <1>4, <1>6
  <2> HIDE DEF new
  <2>2. DistinctIds(w) => DistinctIds(new)
    BY <1>4, <1>6, <2>1 DEF DistinctIds, Ids
  <2>3. \A i \in DOMAIN new : new[i] = d \/ \E j \in DOMAIN w : new[i] = w[j]
    BY <1>4, <2>1
  <2>4. CASE ~(Len(new) > MaxWindow)
    <3>1. fit = new /\ Len(new) <= MaxWindow
      BY <1>1, <1>4, <2>1, <2>4
    <3>2. Id(d) \in Ids(new)
      BY <2>1 DEF Ids
    <3> QED
      BY <1>3, <2>1, <2>2, <2>3, <3>1, <3>2 DEF Pushed
  <2>5. CASE Len(new) > MaxWindow
    <3>1. /\ fit = Tail(new) /\ new # <<>> /\ Len(new) = MaxWindow + 1
      <4>1. fit = Tail(new)
        BY <2>5
      <4>2. Len(new) = MaxWindow + 1
        BY <1>1, <1>4, <2>1, <2>5
      <4>3. new # <<>>
        BY <1>1, <2>1, <4>2
      <4> QED
        BY <4>1, <4>2, <4>3
    <3> HIDE DEF fit
    <3>2. /\ fit \in Seq(Mail) /\ Len(fit) = MaxWindow /\ DOMAIN fit = 1..MaxWindow
          /\ \A i \in DOMAIN fit : fit[i] = new[i + 1]
      <4>1. /\ Tail(new) \in Seq(Mail) /\ Len(Tail(new)) = Len(new) - 1
            /\ \A i \in 1..(Len(new) - 1) : Tail(new)[i] = new[i + 1]
        BY <2>1, <3>1
      <4>2. Len(new) - 1 = MaxWindow
        BY <1>1, <3>1
      <4> QED
        BY <3>1, <4>1, <4>2
    <3>3. \A i \in DOMAIN fit : i \in Nat /\ i + 1 \in DOMAIN new /\ fit[i] = new[i + 1]
      <4>1. DOMAIN new = 1..(MaxWindow + 1) /\ MaxWindow \in Nat
        BY <1>1, <2>1, <3>1
      <4>2. \A i \in 1..MaxWindow : i \in Nat /\ i + 1 \in 1..(MaxWindow + 1)
        BY <4>1
      <4> QED
        BY <3>2, <4>1, <4>2
    <3>4. MaxWindow \in DOMAIN fit /\ fit[MaxWindow] = d
      <4>1. MaxWindow \in 1..MaxWindow
        BY <1>1
      <4>2. fit[MaxWindow] = new[MaxWindow + 1]
        BY <3>2, <4>1
      <4> QED
        BY <2>1, <3>1, <3>2, <4>1, <4>2
    <3>5. Id(d) \in Ids(fit)
      BY <3>4 DEF Ids
    <3>6. ASSUME DistinctIds(w), NEW i \in DOMAIN fit, NEW j \in DOMAIN fit, i < j
          PROVE  Id(fit[i]) # Id(fit[j])
      <4>1. i + 1 < j + 1
        BY <3>3, <3>6
      <4> QED
        BY <2>2, <3>3, <3>6, <4>1 DEF DistinctIds
    <3>7. DistinctIds(w) => DistinctIds(fit)
      BY <3>6 DEF DistinctIds
    <3>8. \A i \in DOMAIN fit : fit[i] = d \/ \E j \in DOMAIN w : fit[i] = w[j]
      BY <2>3, <3>3
    <3>9. Len(fit) <= MaxWindow
      BY <1>1, <3>2
    <3>10. Pushed(d, fit)
      BY <1>3, <3>5, <3>7, <3>8, <3>9 DEF Pushed
    <3> QED
      BY <3>2, <3>10
  <2> QED
    BY <2>4, <2>5
<1> QED
  BY <1>5, <1>6

\* A handler takes the window of its session, without its own message.
LEMMA TakeFacts ==
  ASSUME IngressTypes, NEW d \in Mail, Take(d)
  PROVE  \E v \in Seq(Mail) :
           /\ taken' = [taken EXCEPT ![d] = v]
           /\ \A i \in DOMAIN v : \E j \in DOMAIN window[SessionOf[d]] :
                v[i] = window[SessionOf[d]][j]
           /\ DistinctIds(window[SessionOf[d]]) => DistinctIds(v)
           /\ Ids(window[SessionOf[d]]) \subseteq Ids(v) \cup kept' \cup missed'
           /\ missed \subseteq missed' /\ missed' \subseteq missed \cup Ids(window[SessionOf[d]])
<1> DEFINE s == SessionOf[d]
           w == window[s]
<1>1. w \in Seq(Mail)
  BY Basics DEF IngressTypes
<1>2. PICK n \in 0..Len(w) :
        /\ taken' = [taken EXCEPT ![d] = Without(Younger(w, n), {Id(d)})]
        /\ missed' = missed \cup (Ids(w) \ Ids(Younger(w, n)))
  BY DEF Take
<1> DEFINE y == Younger(w, n)
           v == Without(y, {Id(d)})
<1>3. /\ y \in Seq(Mail)
      /\ \A i \in DOMAIN y : \E j \in DOMAIN w : y[i] = w[j]
      /\ DistinctIds(w) => DistinctIds(y)
  BY <1>1, YoungerFacts
<1> HIDE DEF y
<1>4. /\ v \in Seq(Mail)
      /\ \A i \in DOMAIN v : \E j \in DOMAIN y : v[i] = y[j]
      /\ Ids(v) = Ids(y) \ {Id(d)}
      /\ DistinctIds(y) => DistinctIds(v)
  BY <1>3, WithoutFacts
<1>5. /\ taken' = [taken EXCEPT ![d] = v] /\ missed' = missed \cup (Ids(w) \ Ids(y))
      /\ kept' = kept \cup {Id(d)}
  BY <1>2 DEF y, Take
<1> HIDE DEF v
<1>6. \A i \in DOMAIN v : \E j \in DOMAIN w : v[i] = w[j]
  BY <1>3, <1>4
<1>7. Ids(w) \subseteq Ids(v) \cup kept' \cup missed'
  BY <1>4, <1>5
<1> QED
  BY <1>3, <1>4, <1>5, <1>6, <1>7

Overheards(new, n) == [i \in 1..n |-> Turn("overheard", new[i])]

\* A conversation that overheard messages are appended to.
LEMMA OverheardsFacts ==
  ASSUME NEW t \in Seq(Turns), NEW new \in Seq(Mail), NEW n \in 0..Len(new)
  PROVE  LET u == t \o Overheards(new, n)
         IN  /\ u \in Seq(Turns) /\ Len(u) = Len(t) + n /\ Len(t) \in Nat
             /\ DOMAIN t = 1..Len(t) /\ DOMAIN u = 1..(Len(t) + n)
             /\ \A i \in 1..Len(t) : u[i] = t[i]
             /\ \A i \in DOMAIN u : i \notin 1..Len(t) =>
                  /\ i - Len(t) \in DOMAIN new
                  /\ u[i] = Turn("overheard", new[i - Len(t)])
<1> DEFINE o == Overheards(new, n)
           u == t \o o
<1>1. Len(new) \in Nat /\ n \in Nat /\ DOMAIN new = 1..Len(new) /\ Len(t) \in Nat
      /\ 1..n \subseteq DOMAIN new
  OBVIOUS
<1>2. \A i \in 1..n : new[i] \in Runs /\ Turn("overheard", new[i]) \in Turns
  BY <1>1 DEF Mail, Turn, Turns, Kinds
<1>3. o \in Seq(Turns) /\ Len(o) = n
  <2>1. o \in [1..n -> Turns]
    BY <1>2 DEF Overheards
  <2> QED
    BY <1>1, <2>1
<1>4. /\ u \in Seq(Turns) /\ Len(u) = Len(t) + n
      /\ \A i \in 1..(Len(t) + Len(o)) : u[i] = IF i <= Len(t) THEN t[i] ELSE o[i - Len(t)]
  BY <1>3
<1>5. DOMAIN u = 1..(Len(t) + n) /\ DOMAIN t = 1..Len(t)
  BY <1>4
<1>6. \A i \in 1..Len(t) : u[i] = t[i]
  BY <1>1, <1>3, <1>4
<1>7. ASSUME NEW i \in 1..(Len(t) + n), i \notin 1..Len(t)
      PROVE  i - Len(t) \in DOMAIN new /\ u[i] = Turn("overheard", new[i - Len(t)])
  <2>1. i - Len(t) \in 1..n /\ ~(i <= Len(t))
    BY <1>1, <1>7
  <2>2. u[i] = o[i - Len(t)]
    BY <1>3, <1>4, <2>1
  <2> QED
    BY <1>1, <2>1, <2>2 DEF Overheards
<1> HIDE DEF u
<1>8. /\ u \in Seq(Turns) /\ Len(u) = Len(t) + n /\ Len(t) \in Nat
      /\ DOMAIN t = 1..Len(t) /\ DOMAIN u = 1..(Len(t) + n)
      /\ \A i \in 1..Len(t) : u[i] = t[i]
      /\ \A i \in DOMAIN u : i \notin 1..Len(t) =>
                  /\ i - Len(t) \in DOMAIN new
                  /\ u[i] = Turn("overheard", new[i - Len(t)])
  BY <1>1, <1>4, <1>5, <1>6, <1>7
<1> QED
  BY <1>8 DEF u

-----------------------------------------------------------------------------
(* Types.                                                                    *)

\* What is written of what was overheard: deliveries that were taken, each id once, and
\* none that is on record.
Written(d, new, n) ==
  LET s == SessionOf[d]
  IN  /\ Ids(new) = Ids(taken[d]) \ Recorded(s)
      /\ \A i \in DOMAIN new : \E j \in DOMAIN taken[d] : new[i] = taken[d][j]
      /\ DistinctIds(taken[d]) => DistinctIds(new)
      /\ transcript' = [transcript EXCEPT ![s] = @ \o Overheards(new, n)]

LEMMA WriteFacts ==
  ASSUME IngressTypes, NEW d \in Mail, WriteOverheard(d)
  PROVE  \E new \in Seq(Mail) : \E n \in 0..Len(new) : Written(d, new, n)
<1> DEFINE new == Without(taken[d], Recorded(SessionOf[d]))
<1>1. taken[d] \in Seq(Mail)
  BY DEF IngressTypes
<1>2. /\ new \in Seq(Mail) /\ Ids(new) = Ids(taken[d]) \ Recorded(SessionOf[d])
      /\ \A i \in DOMAIN new : \E j \in DOMAIN taken[d] : new[i] = taken[d][j]
      /\ DistinctIds(taken[d]) => DistinctIds(new)
  BY <1>1, WithoutFacts
<1>3. Len(new) \in 0..Len(new)
  BY <1>2
<1>4. \E n \in 0..Len(new) :
        transcript' = [transcript EXCEPT ![SessionOf[d]] = @ \o Overheards(new, n)]
  BY <1>3 DEF WriteOverheard, Overheards
<1> HIDE DEF new
<1> QED
  BY <1>2, <1>4 DEF Written

\* The rest of that step: nothing that was taken is forgotten.
LEMMA WriteSettles ==
  ASSUME NEW d \in Mail, WriteOverheard(d)
  PROVE  /\ hand[d] = "taken" /\ (Goes(d, "closing") \/ Goes(d, "asking"))
         /\ told' = told \/ Tell(d, "error") \/ Tell(d, "command")
         /\ taken' = [taken EXCEPT ![d] = <<>>]
         /\ kept \subseteq kept' /\ missed \subseteq missed'
         /\ Ids(taken[d]) \subseteq kept' \cup missed'
         /\ kept' \cup missed' \subseteq kept \cup missed \cup Ids(taken[d])
         /\ faults' \in {faults, faults + 1}
         /\ UNCHANGED <<phase, lockOf, registry, quotaVars, purpose, view, outcome, crashes,
                        conf, seen, window, active, busy, booting, noticed, slips>>
BY DEF WriteOverheard, Weigh, Fault

TypeInv == TypeOK /\ IngressTypes

\* The steps that are steps of AgentSession keep its types.
LEMMA SessionTypes ==
  ASSUME TypeOK
  PROVE  /\ UNCHANGED vars => TypeOK'
         /\ \A r \in Runs : Arrive(r) \/ Enter(r) \/ Work(r) \/ Leave(r) \/ Drop(r) => TypeOK'
         /\ \A p \in Procs : Crash(p) => TypeOK'
<1>1. UNCHANGED vars => TypeOK'
  BY TypeStep
<1>2. ASSUME NEW r \in Runs, Arrive(r) \/ Enter(r) \/ Work(r) \/ Leave(r) \/ Drop(r)
      PROVE  TypeOK'
  <2>1. Next
    BY <1>2 DEF Next
  <2> QED
    BY <2>1, TypeStep
<1>3. ASSUME NEW p \in Procs, Crash(p) PROVE TypeOK'
  <2>1. Next
    BY <1>3 DEF Next
  <2> QED
    BY <2>1, TypeStep
<1> QED
  BY <1>1, <1>2, <1>3

\* What the handlers add to them.
LEMMA SettleTypes ==
  ASSUME TypeOK, NEW r \in Runs, SettleTurn(r)
  PROVE  TypeOK'
<1>1. CASE OtherText(r)
  BY <1>1 DEF OtherText, OnlyPhase, TypeOK, Phases, Inside, quotaVars
<1>2. CASE ~OtherText(r)
  <2>1. Leave(r)
    BY <1>2 DEF SettleTurn, Leave
  <2> QED
    BY <2>1, LeaveType
<1> QED
  BY <1>1, <1>2

LEMMA WriteTypes ==
  ASSUME TypeInv, NEW d \in Mail, WriteOverheard(d)
  PROVE  TypeOK'
<1>1. PICK new \in Seq(Mail) : \E n \in 0..Len(new) : Written(d, new, n)
  BY WriteFacts DEF TypeInv
<1>2. PICK n \in 0..Len(new) : Written(d, new, n)
  BY <1>1
<1>3. SessionOf[d] \in Sessions /\ transcript[SessionOf[d]] \in Seq(Turns)
  BY Basics DEF TypeInv, TypeOK
<1>4. transcript[SessionOf[d]] \o Overheards(new, n) \in Seq(Turns)
  BY <1>3, OverheardsFacts
<1>5. transcript' \in [Sessions -> Seq(Turns)]
  BY <1>2, <1>4 DEF TypeInv, TypeOK, Written
<1>6. faults' \in Nat
  <2>1. faults' \in {faults, faults + 1}
    BY WriteSettles
  <2>2. faults \in Nat
    BY DEF TypeInv, TypeOK
  <2> QED
    BY <2>1, <2>2
<1> QED
  BY <1>5, <1>6, WriteSettles DEF TypeInv, TypeOK, quotaVars

LEMMA RecoverTypes ==
  ASSUME TypeInv, NEW s \in Sessions, Recover(s)
  PROVE  TypeInv'
<1> USE DEF TypeInv
<1>1. transcript[s] \in Seq(Turns)
  BY DEF TypeOK
<1>2. CASE UNCHANGED <<noticed, transcript>>
  BY <1>2 DEF Recover, TypeOK, IngressTypes, quotaVars
<1>3. CASE ~UNCHANGED <<noticed, transcript>>
  <2>1. /\ transcript[s] # <<>>
        /\ noticed' = noticed \cup {LastTurn(s).run}
        /\ transcript' = [transcript EXCEPT ![s] = Append(@, Turn("notice", LastTurn(s).run))]
    BY <1>3 DEF Recover, Interrupted
  <2>2. LastTurn(s) \in Turns
    BY <1>1, <2>1 DEF LastTurn
  <2>3. LastTurn(s).run \in Runs /\ Turn("notice", LastTurn(s).run) \in Turns
    BY <2>2 DEF Turn, Turns, Kinds
  <2>4. transcript' \in [Sessions -> Seq(Turns)] /\ noticed' \subseteq Runs
    BY <1>1, <2>1, <2>3 DEF TypeOK, IngressTypes, Mail
  <2>5. TypeOK'
    BY <2>4 DEF Recover, TypeOK, quotaVars
  <2>6. IngressTypes'
    BY <2>4 DEF Recover, IngressTypes
  <2> QED
    BY <2>5, <2>6
<1> QED
  BY <1>2, <1>3

\* A step that leaves the handlers' state alone.
LEMMA TypesStutter ==
  ASSUME IngressTypes, UNCHANGED ingressVars
  PROVE  IngressTypes'
BY DEF IngressTypes, ingressVars

LEMMA WindowTypes ==
  ASSUME IngressTypes, NEW d \in Mail, Push(d)
  PROVE  /\ window' \in [Sessions -> Seq(Mail)]
         /\ \A s \in Sessions : Len(window'[s]) <= MaxWindow
         /\ missed' \subseteq Messages
<1>1. PICK fit \in Seq(Mail) : Pushed(d, fit)
  BY PushFacts
<1>2. Ids(window[SessionOf[d]]) \subseteq Messages
  BY Basics, IdsTyped DEF IngressTypes
<1> QED
  BY <1>1, <1>2, Basics DEF IngressTypes, Pushed

LEMMA ReceiveTypes ==
  ASSUME IngressTypes, NEW d \in Mail, Receive(d)
  PROVE  IngressTypes'
<1>1. seen' \subseteq Messages
  BY IdsTyped DEF Receive, IngressTypes
<1>2. hand' \in [Mail -> Stages]
  BY DEF Receive, Goes, IngressTypes, Stages
<1>3. CASE UNCHANGED <<window, missed>>
  BY <1>1, <1>2, <1>3 DEF Receive, IngressTypes
<1>4. CASE Push(d)
  BY <1>1, <1>2, <1>4, WindowTypes DEF Receive, IngressTypes
<1> QED
  BY <1>3, <1>4 DEF Receive

LEMMA HandlerTypes ==
  ASSUME IngressTypes, NEW d \in Mail,
         \/ Intercept(d) \/ TryLock(d) \/ Announce(d) \/ WaitLock(d) \/ NoLock(d)
         \/ CannotLoad(d) \/ Direct(d) \/ Reply(d) \/ Close(d) \/ Unlock(d)
  PROVE  IngressTypes'
<1> USE Basics DEF IngressTypes, Goes, Tell, Stages, Texts
<1>1. CASE Intercept(d)
  BY <1>1 DEF Intercept
<1>2. CASE TryLock(d)
  BY <1>2 DEF TryLock
<1>3. CASE Announce(d)
  BY <1>3 DEF Announce
<1>4. CASE WaitLock(d)
  BY <1>4 DEF WaitLock
<1>5. CASE NoLock(d)
  BY <1>5 DEF NoLock
<1>6. CASE CannotLoad(d)
  BY <1>6 DEF CannotLoad
<1>7. CASE Direct(d)
  BY <1>7 DEF Direct, Weigh
<1>8. CASE Reply(d)
  BY <1>8 DEF Reply
<1>9. CASE Close(d)
  BY <1>9 DEF Close
<1>10. CASE Unlock(d)
  BY <1>10 DEF Unlock
<1> QED
  BY <1>1, <1>2, <1>3, <1>4, <1>5, <1>6, <1>7, <1>8, <1>9, <1>10

LEMMA TurnAwayTypes ==
  ASSUME IngressTypes, NEW d \in Mail, TurnAway(d)
  PROVE  IngressTypes'
<1>1. hand' \in [Mail -> Stages] /\ told' \in [Mail -> Texts]
  BY DEF TurnAway, Goes, Tell, IngressTypes, Stages, Texts
<1>2. CASE UNCHANGED <<window, missed>>
  BY <1>1, <1>2 DEF TurnAway, IngressTypes
<1>3. CASE Push(d)
  BY <1>1, <1>3, WindowTypes DEF TurnAway, IngressTypes
<1> QED
  BY <1>2, <1>3 DEF TurnAway

LEMMA TakeTypes ==
  ASSUME IngressTypes, NEW d \in Mail, Take(d)
  PROVE  IngressTypes'
<1> DEFINE s == SessionOf[d]
<1>1. PICK v \in Seq(Mail) : /\ taken' = [taken EXCEPT ![d] = v]
                             /\ missed' \subseteq missed \cup Ids(window[s])
  BY TakeFacts
<1>2. taken' \in [Mail -> Seq(Mail)]
  BY <1>1 DEF IngressTypes
<1>3. Ids(window[s]) \subseteq Messages /\ Id(d) \in Messages
  BY Basics, IdsTyped DEF IngressTypes
<1>4. missed' \subseteq Messages /\ kept' \subseteq Messages
  BY <1>1, <1>3 DEF Take, IngressTypes
<1>5. window' = [window EXCEPT ![s] = <<>>] /\ MaxWindow \in Nat /\ Len(<<>>) <= MaxWindow
  BY IngressAssumption DEF Take
<1>6. window' \in [Sessions -> Seq(Mail)] /\ \A x \in Sessions : Len(window'[x]) <= MaxWindow
  BY <1>5, Basics DEF IngressTypes
<1>7. hand' \in [Mail -> Stages]
  BY DEF Take, Goes, IngressTypes, Stages
<1> QED
  BY <1>2, <1>4, <1>6, <1>7 DEF Take, IngressTypes

LEMMA WroteTypes ==
  ASSUME IngressTypes, NEW d \in Mail, WriteOverheard(d)
  PROVE  IngressTypes'
<1>1. hand' \in [Mail -> Stages] /\ told' \in [Mail -> Texts] /\ taken' \in [Mail -> Seq(Mail)]
  <2>1. hand' \in [Mail -> Stages]
    BY WriteSettles DEF Goes, IngressTypes, Stages
  <2>2. told' \in [Mail -> Texts]
    BY WriteSettles DEF Tell, IngressTypes, Texts
  <2>3. taken' \in [Mail -> Seq(Mail)]
    <3>1. taken' = [taken EXCEPT ![d] = <<>>] /\ <<>> \in Seq(Mail)
      BY WriteSettles
    <3> QED
      BY <3>1 DEF IngressTypes
  <2> QED
    BY <2>1, <2>2, <2>3
<1>2. Ids(taken[d]) \subseteq Messages
  BY IdsTyped DEF IngressTypes
<1>3. kept' \subseteq Messages /\ missed' \subseteq Messages
  BY <1>2, WriteSettles DEF IngressTypes
<1> QED
  BY <1>1, <1>3, WriteSettles DEF IngressTypes

LEMMA PanicTypes ==
  ASSUME TypeInv, NEW d \in Mail, Panic(d)
  PROVE  TypeInv'
<1>1. UNCHANGED vars \/ Drop(d)
  BY DEF Panic
<1>2. TypeOK'
  BY <1>1, SessionTypes DEF TypeInv, Mail
<1>3. Ids(taken[d]) \subseteq Messages
  BY IdsTyped DEF TypeInv, IngressTypes
<1>4. /\ hand' \in [Mail -> Stages] /\ told' \in [Mail -> Texts] /\ taken' \in [Mail -> Seq(Mail)]
      /\ missed' \subseteq Messages /\ slips' \in Nat
  BY <1>3 DEF Panic, Goes, Tell, Slip, TypeInv, IngressTypes, Stages, Texts
<1>5. IngressTypes'
  BY <1>4 DEF Panic, TypeInv, IngressTypes
<1> QED
  BY <1>2, <1>5 DEF TypeInv

LEMMA RestartTypes ==
  ASSUME TypeInv, NEW p \in Procs, Restart(p)
  PROVE  TypeInv'
<1>1. TypeOK'
  BY SessionTypes DEF TypeInv, Restart
<1>2. /\ \A s \in Sessions : Ids(window[s]) \subseteq Messages
      /\ \A d \in Mail : Ids(taken[d]) \subseteq Messages
  BY IdsTyped DEF TypeInv, IngressTypes
<1>3. missed' \subseteq Messages
  BY <1>2 DEF Restart, TypeInv, IngressTypes
<1>4. Len(<<>>) <= MaxWindow
  BY IngressAssumption
<1>5. hand' \in [Mail -> Stages]
  BY DEF Restart, TypeInv, IngressTypes, Stages, Resting
<1>6. /\ window' \in [Sessions -> Seq(Mail)] /\ \A x \in Sessions : Len(window'[x]) <= MaxWindow
      /\ taken' \in [Mail -> Seq(Mail)]
  BY <1>4 DEF Restart
<1>7. IngressTypes'
  BY <1>3, <1>5, <1>6 DEF Restart, TypeInv, IngressTypes
<1> QED
  BY <1>1, <1>7 DEF TypeInv

LEMMA TypesNext ==
  ASSUME TypeInv, [IngressNext]_allVars
  PROVE  TypeInv'
<1>1. ASSUME NEW d \in Mail, Receive(d) PROVE TypeInv'
  BY <1>1, ReceiveTypes, SessionTypes DEF Receive, TypeInv
<1>2. ASSUME NEW d \in Mail,
             \/ Intercept(d) \/ TryLock(d) \/ Announce(d) \/ WaitLock(d) \/ NoLock(d)
             \/ Direct(d) \/ Reply(d) \/ Close(d) \/ Unlock(d)
      PROVE  TypeInv'
  <2>1. UNCHANGED vars
    BY <1>2 DEF Intercept, TryLock, Announce, WaitLock, NoLock, Direct, Reply, Close, Unlock
  <2> QED
    BY <1>2, <2>1, HandlerTypes, SessionTypes DEF TypeInv
<1>3. ASSUME NEW d \in Mail, CannotLoad(d) PROVE TypeInv'
  <2>1. TypeOK'
    BY <1>3 DEF CannotLoad, Fault, TypeInv, TypeOK, quotaVars
  <2> QED
    BY <1>3, <2>1, HandlerTypes DEF TypeInv
<1>4. ASSUME NEW d \in Mail, Take(d) \/ TurnAway(d) PROVE TypeInv'
  BY <1>4, TakeTypes, TurnAwayTypes, SessionTypes DEF Take, TurnAway, TypeInv
<1>5. ASSUME NEW d \in Mail, WriteOverheard(d) PROVE TypeInv'
  BY <1>5, WriteTypes, WroteTypes DEF TypeInv
<1>6. ASSUME NEW d \in Mail, Ask(d) PROVE TypeInv'
  BY <1>6, TypesStutter, SessionTypes DEF Ask, Mail, TypeInv
<1>7. ASSUME NEW r \in Runs, RunStep(r) PROVE TypeInv'
  BY <1>7, TypesStutter, SessionTypes, SettleTypes DEF RunStep, TypeInv
<1>8. ASSUME NEW t \in Scheduled, Task(t) \/ TimeOut(t) PROVE TypeInv'
  <2>1. t \in Runs
    BY SessionAssumption
  <2> QED
    BY <1>8, <2>1, TypesStutter, SessionTypes DEF Task, TimeOut, TypeInv
<1>9. ASSUME NEW m \in Messages, Forgotten(m) PROVE TypeInv'
  BY <1>9, SessionTypes DEF Forgotten, Slip, TypeInv, IngressTypes
<1>10. CASE UNCHANGED allVars
  BY <1>10, TypesStutter, SessionTypes DEF allVars, TypeInv
<1> QED
  BY <1>1, <1>2, <1>3, <1>4, <1>5, <1>6, <1>7, <1>8, <1>9, <1>10, PanicTypes, RestartTypes,
     RecoverTypes DEF IngressNext, HandlerStep

LEMMA TypesInit == IngressInit => TypeInv
<1>1. Init => TypeOK
  BY SessionAssumption DEF Init, TypeOK, Accounts, Phases, Inside, Outcomes
<1>2. MaxWindow \in Nat /\ Len(<<>>) <= MaxWindow
  BY IngressAssumption
<1> QED
  BY <1>1, <1>2 DEF IngressInit, TypeInv, IngressTypes, Stages, Texts

LEMMA TypesInvariant == IngressSpec => []TypeInv
BY TypesInit, TypesNext, PTL DEF IngressSpec

\* The registries and the handlers keep their types, and a window never exceeds
\* pretrigger_window_max_messages, whoever pushes and whatever is dropped by age.
THEOREM IngressTypeCorrect == IngressSpec => []IngressTypes
<1>1. TypeInv => IngressTypes
  BY DEF TypeInv
<1> QED
  BY <1>1, TypesInvariant, PTL

-----------------------------------------------------------------------------
(* Nothing that was said in a group gets lost on the way.                    *)

\* The delivery d was left to the next question: TextIsHeard is about these.
Deferred(d) ==
  \/ hand[d] = "heard"
  \/ hand[d] = "done" /\ told[d] = "busy" /\ Group(d) /\ conf.post[d].text

\* Its id is in the window, in a handler's hands, on record or accounted for.
Accounted(d) ==
  \/ Id(d) \in kept \cup missed \cup Ids(window[SessionOf[d]])
  \/ \E h \in Mail : Id(d) \in Ids(taken[h])

LEMMA TextMeans == TextIsHeard <=> \A d \in Mail : Deferred(d) => Accounted(d)
BY DEF TextIsHeard, Deferred, Accounted

\* Only a handler between Take and WriteOverheard has something in its hands, and who
\* was told that the session is busy was done with at that moment.
HandsFit ==
  \A d \in Mail : /\ taken[d] # <<>> => hand[d] = "taken"
                  /\ told[d] = "busy" => hand[d] = "done"

TextInv == HandsFit /\ \A d \in Mail : Deferred(d) => Accounted(d)

\* A step that keeps what is accounted for, and defers only what is.
LEMMA TextFrom ==
  ASSUME TextInv, HandsFit',
         \A d \in Mail : Accounted(d) => Accounted(d)',
         \A d \in Mail : Deferred(d)' => Deferred(d) \/ Accounted(d)'
  PROVE  TextInv'
BY DEF TextInv

LEMMA PushKeeps ==
  ASSUME IngressTypes, NEW d \in Mail, Push(d), UNCHANGED <<conf, kept, taken>>
  PROVE  /\ Accounted(d)'
         /\ \A e \in Mail : Accounted(e) => Accounted(e)'
<1>1. PICK fit \in Seq(Mail) : Pushed(d, fit)
  BY PushFacts
<1>2. /\ window' = [window EXCEPT ![SessionOf[d]] = fit] /\ Id(d) \in Ids(fit)
      /\ missed' = missed \cup (Ids(window[SessionOf[d]]) \ Ids(fit))
  BY <1>1 DEF Pushed
<1>3. window'[SessionOf[d]] = fit
      /\ \A s \in Sessions : s # SessionOf[d] => window'[s] = window[s]
  BY <1>2, Basics DEF IngressTypes
<1>5. Accounted(d)'
  BY <1>2, <1>3 DEF Accounted, Ids, Id
<1>6. ASSUME NEW e \in Mail, Accounted(e) PROVE Accounted(e)'
  <2>1. Id(e)' = Id(e) /\ Ids(fit)' = Ids(fit)
    BY DEF Id, Ids
  <2>2. CASE Id(e) \in kept \cup missed
    BY <1>2, <2>1, <2>2 DEF Accounted
  <2>3. CASE Id(e) \in Ids(window[SessionOf[e]]) /\ SessionOf[e] = SessionOf[d]
    <3>1. Id(e) \in Ids(fit) \/ Id(e) \in missed'
      BY <1>2, <2>3
    <3>2. Ids(window[SessionOf[e]])' = Ids(fit)'
      BY <1>3, <2>3 DEF Ids
    <3> QED
      BY <2>1, <3>1, <3>2 DEF Accounted
  <2>4. CASE Id(e) \in Ids(window[SessionOf[e]]) /\ SessionOf[e] # SessionOf[d]
    <3>1. window'[SessionOf[e]] = window[SessionOf[e]]
      BY <1>3, <2>4, Basics
    <3>2. Ids(window[SessionOf[e]])' = Ids(window[SessionOf[e]])
      BY <3>1 DEF Ids, Id
    <3> QED
      BY <2>1, <2>4, <3>2 DEF Accounted
  <2>5. CASE \E h \in Mail : Id(e) \in Ids(taken[h])
    BY <2>1, <2>5 DEF Accounted, Ids, Id
  <2> QED
    BY <1>6, <2>2, <2>3, <2>4, <2>5 DEF Accounted
<1> QED
  BY <1>5, <1>6

\* A step that leaves windows, hands and records alone.
LEMMA NothingMoves ==
  ASSUME UNCHANGED <<conf, window, taken, kept, missed>>
  PROVE  \A e \in Mail : Accounted(e) => Accounted(e)'
BY DEF Accounted, Ids, Id

LEMMA ReceiveText ==
  ASSUME IngressTypes, TextInv, NEW d \in Mail, Receive(d)
  PROVE  TextInv'
<1>1. /\ hand[d] = "sent" /\ UNCHANGED <<conf, taken, told, kept>>
      /\ hand' \in [Mail -> Stages] /\ \A e \in Mail : e # d => hand'[e] = hand[e]
      /\ hand'[d] \in {"ignored", "heard", "accepted"}
  BY DEF Receive, Goes, IngressTypes, Stages
<1>2. HandsFit'
  BY <1>1 DEF TextInv, HandsFit
<1>3. \A e \in Mail : e # d => (Deferred(e)' <=> Deferred(e))
  BY <1>1 DEF Deferred, Group
<1>4. CASE Push(d)
  BY <1>1, <1>2, <1>3, <1>4, PushKeeps, TextFrom
<1>5. CASE UNCHANGED <<window, missed>> /\ hand'[d] # "heard"
  <2>1. ~Deferred(d)'
    BY <1>1, <1>5 DEF Deferred
  <2> QED
    BY <1>1, <1>2, <1>3, <1>5, <2>1, NothingMoves, TextFrom
<1> QED
  BY <1>1, <1>4, <1>5 DEF Receive, Goes, IngressTypes

LEMMA TurnAwayText ==
  ASSUME IngressTypes, TextInv, NEW d \in Mail, TurnAway(d)
  PROVE  TextInv'
<1>1. /\ hand[d] = "turned" /\ UNCHANGED <<conf, taken, kept>>
      /\ \A e \in Mail : e # d => hand'[e] = hand[e] /\ told'[e] = told[e]
      /\ hand'[d] = "done"
  BY DEF TurnAway, Goes, Tell, IngressTypes
<1>2. HandsFit'
  BY <1>1 DEF TextInv, HandsFit
<1>3. \A e \in Mail : e # d => (Deferred(e)' <=> Deferred(e))
  BY <1>1 DEF Deferred, Group
<1>4. CASE Push(d)
  BY <1>1, <1>2, <1>3, <1>4, PushKeeps, TextFrom
<1>5. CASE UNCHANGED <<window, missed>> /\ ~(Group(d) /\ conf.post[d].text)
  <2>1. ~Deferred(d)'
    BY <1>1, <1>5 DEF Deferred, Group
  <2> QED
    BY <1>1, <1>2, <1>3, <1>5, <2>1, NothingMoves, TextFrom
<1> QED
  BY <1>4, <1>5 DEF TurnAway

\* A move of a handler that has nothing in its hands and was not turned away.
LEMMA MoveText ==
  ASSUME IngressTypes, TextInv, NEW d \in Mail, NEW to, NEW what,
         UNCHANGED <<conf, window, taken, kept, missed>>,
         Goes(d, to), to # "heard",
         UNCHANGED told \/ Tell(d, what), what # "busy",
         hand[d] \notin {"taken", "done"}
  PROVE  TextInv'
<1>1. /\ \A e \in Mail : e # d => hand'[e] = hand[e] /\ told'[e] = told[e]
      /\ hand'[d] = to /\ told'[d] \in {told[d], what}
  BY DEF Goes, Tell, IngressTypes
<1>2. told'[d] # "busy"
  BY <1>1 DEF TextInv, HandsFit
<1>3. HandsFit'
  BY <1>1, <1>2 DEF TextInv, HandsFit
<1>4. \A e \in Mail : Deferred(e)' => Deferred(e)
  BY <1>1, <1>2 DEF Deferred, Group
<1> QED
  BY <1>3, <1>4, NothingMoves, TextFrom

LEMMA HandlerText ==
  ASSUME IngressTypes, TextInv, NEW d \in Mail,
         \/ Intercept(d) \/ TryLock(d) \/ Announce(d) \/ WaitLock(d) \/ NoLock(d)
         \/ CannotLoad(d) \/ Direct(d) \/ Reply(d) \/ Close(d) \/ Unlock(d)
  PROVE  TextInv'
<1>1. CASE Intercept(d)
  BY <1>1, MoveText DEF Intercept
<1>2. CASE TryLock(d)
  <2>1. PICK to \in {"begun", "turned"} : Goes(d, to)
    BY <1>2 DEF TryLock
  <2>2. /\ hand[d] = "accepted" /\ UNCHANGED <<conf, window, taken, kept, missed, told>>
        /\ to # "heard" /\ "nothing" # "busy"
    BY <1>2, <2>1 DEF TryLock, ForAgent
  <2> QED
    BY <2>1, <2>2, MoveText
<1>3. CASE Announce(d)
  BY <1>3, MoveText DEF Announce
<1>4. CASE WaitLock(d)
  BY <1>4, MoveText DEF WaitLock, ForAgent
<1>5. CASE NoLock(d)
  BY <1>5, MoveText DEF NoLock, ForAgent
<1>6. CASE CannotLoad(d)
  BY <1>6, MoveText DEF CannotLoad
<1>7. CASE Direct(d)
  <2>1. /\ \E to \in {"closing", "asking"} : Goes(d, to)
        /\ \E what \in {"error", "command"} : UNCHANGED told \/ Tell(d, what)
        /\ hand[d] = "guarded" /\ UNCHANGED <<conf, window, taken, kept, missed>>
    BY <1>7 DEF Direct, Weigh
  <2>2. PICK to \in {"closing", "asking"} : Goes(d, to)
    BY <2>1
  <2>3. PICK what \in {"error", "command"} : UNCHANGED told \/ Tell(d, what)
    BY <2>1
  <2>4. to # "heard" /\ what # "busy"
    OBVIOUS
  <2> QED
    BY <2>1, <2>2, <2>3, <2>4, MoveText
<1>8. CASE Reply(d)
  <2>1. PICK what \in {"reply", "error"} : Tell(d, what)
    BY <1>8 DEF Reply
  <2>2. what # "busy"
    OBVIOUS
  <2> QED
    BY <1>8, <2>1, <2>2, MoveText DEF Reply
<1>9. CASE Close(d)
  BY <1>9, MoveText DEF Close
<1>10. CASE Unlock(d)
  BY <1>10, MoveText DEF Unlock
<1> QED
  BY <1>1, <1>2, <1>3, <1>4, <1>5, <1>6, <1>7, <1>8, <1>9, <1>10

LEMMA TakeText ==
  ASSUME IngressTypes, TextInv, NEW d \in Mail, Take(d)
  PROVE  TextInv'
<1> DEFINE s == SessionOf[d]
<1>1. PICK v \in Seq(Mail) : /\ taken' = [taken EXCEPT ![d] = v]
                             /\ Ids(window[s]) \subseteq Ids(v) \cup kept' \cup missed'
                             /\ missed \subseteq missed'
  BY TakeFacts
<1>2. /\ hand[d] = "guarded" /\ hand' = [hand EXCEPT ![d] = "taken"]
      /\ window' = [window EXCEPT ![s] = <<>>]
      /\ kept \subseteq kept' /\ UNCHANGED <<conf, told>>
  BY DEF Take, Goes
<1>3. /\ \A e \in Mail : e # d => hand'[e] = hand[e] /\ taken'[e] = taken[e]
      /\ hand'[d] = "taken" /\ taken'[d] = v /\ taken[d] = <<>> /\ told[d] # "busy"
      /\ \A x \in Sessions : x # s => window'[x] = window[x]
  BY <1>1, <1>2 DEF TextInv, HandsFit, IngressTypes
<1>4. HandsFit'
  BY <1>2, <1>3 DEF TextInv, HandsFit
<1>5. \A e \in Mail : Deferred(e)' => Deferred(e)
  BY <1>2, <1>3 DEF Deferred, Group
<1>6. ASSUME NEW e \in Mail, Accounted(e) PROVE Accounted(e)'
  <2>1. Id(e)' = Id(e) /\ Ids(v)' = {Id(v[i]) : i \in DOMAIN v}
    BY <1>2 DEF Id, Ids
  <2>2. CASE Id(e) \in kept \cup missed
    BY <1>1, <1>2, <2>1, <2>2 DEF Accounted
  <2>3. CASE Id(e) \in Ids(window[SessionOf[e]]) /\ SessionOf[e] = s
    <3>1. Id(e) \in Ids(v) \cup kept' \cup missed'
      BY <1>1, <2>3
    <3>2. Ids(taken[d])' = Ids(v)'
      BY <1>3 DEF Ids
    <3>3. Ids(v)' = Ids(v)
      BY <1>2 DEF Ids, Id
    <3> QED
      BY <2>1, <3>1, <3>2, <3>3 DEF Accounted
  <2>4. CASE Id(e) \in Ids(window[SessionOf[e]]) /\ SessionOf[e] # s
    BY <1>2, <1>3, <2>4, Basics DEF Accounted, Ids, Id
  <2>5. CASE \E h \in Mail : Id(e) \in Ids(taken[h])
    <3>1. PICK h \in Mail : Id(e) \in Ids(taken[h])
      BY <2>5
    <3>2. h # d
      BY <1>3, <3>1 DEF Ids
    <3> QED
      BY <1>2, <1>3, <3>1, <3>2 DEF Accounted, Ids, Id
  <2> QED
    BY <1>6, <2>2, <2>3, <2>4, <2>5 DEF Accounted
<1> QED
  BY <1>4, <1>5, <1>6, TextFrom

\* What a handler had in its hands is accounted for when it lets go of it.
LEMMA EmptiesText ==
  ASSUME IngressTypes, TextInv, NEW d \in Mail, NEW to, to \notin {"heard", "done", "taken"},
         Goes(d, to), hand[d] # "done", taken' = [taken EXCEPT ![d] = <<>>],
         kept \subseteq kept', missed \subseteq missed',
         Ids(taken[d]) \subseteq kept' \cup missed',
         NEW what, what # "busy", UNCHANGED told \/ Tell(d, what), UNCHANGED <<conf, window>>
  PROVE  TextInv'
<1>1. /\ \A e \in Mail : e # d => /\ hand'[e] = hand[e] /\ taken'[e] = taken[e]
                                  /\ told'[e] = told[e]
      /\ hand'[d] = to /\ taken'[d] = <<>> /\ told'[d] \in {told[d], what}
      /\ told[d] # "busy"
  BY DEF TextInv, HandsFit, IngressTypes, Goes, Tell
<1>2. HandsFit'
  BY <1>1 DEF TextInv, HandsFit
<1>3. \A e \in Mail : Deferred(e)' => Deferred(e)
  BY <1>1 DEF Deferred, Group
<1>4. ASSUME NEW e \in Mail, Accounted(e) PROVE Accounted(e)'
  <2>1. CASE Id(e) \in kept \cup missed \cup Ids(window[SessionOf[e]])
    BY <2>1 DEF Accounted, Ids, Id
  <2>2. CASE \E h \in Mail : Id(e) \in Ids(taken[h])
    <3>1. PICK h \in Mail : Id(e) \in Ids(taken[h])
      BY <2>2
    <3>2. CASE h = d
      BY <3>1, <3>2 DEF Accounted, Id
    <3>3. CASE h # d
      BY <1>1, <3>1, <3>3 DEF Accounted, Ids, Id
    <3> QED
      BY <3>2, <3>3
  <2> QED
    BY <1>4, <2>1, <2>2 DEF Accounted
<1> QED
  BY <1>2, <1>3, <1>4, TextFrom

LEMMA WriteText ==
  ASSUME IngressTypes, TextInv, NEW d \in Mail, WriteOverheard(d)
  PROVE  TextInv'
<1>1. PICK to \in {"closing", "asking"} : Goes(d, to)
  BY WriteSettles
<1>2. PICK what \in {"error", "command"} : UNCHANGED told \/ Tell(d, what)
  BY WriteSettles
<1>3. to \notin {"heard", "done", "taken"} /\ what # "busy"
  OBVIOUS
<1> QED
  BY <1>1, <1>2, <1>3, WriteSettles, EmptiesText

LEMMA PanicText ==
  ASSUME IngressTypes, TextInv, NEW d \in Mail, Panic(d)
  PROVE  TextInv'
<1>1. /\ Goes(d, "closing") /\ Tell(d, "apology") /\ UNCHANGED <<conf, window>>
      /\ hand[d] # "done" /\ taken' = [taken EXCEPT ![d] = <<>>]
      /\ missed' = missed \cup Ids(taken[d]) /\ kept' = kept
  BY DEF Panic
<1> QED
  BY <1>1, EmptiesText

LEMMA RestartText ==
  ASSUME IngressTypes, TextInv, NEW p \in Procs, Restart(p)
  PROVE  TextInv'
<1>1. /\ hand' = [d \in Mail |-> IF hand[d] \in Resting THEN hand[d] ELSE "lost"]
      /\ taken' = [d \in Mail |-> <<>>]
      /\ missed' = missed \cup UNION ({Ids(window[s]) : s \in Sessions}
                                        \cup {Ids(taken[d]) : d \in Mail})
      /\ UNCHANGED <<conf, told, kept>>
  BY DEF Restart
<1>2. HandsFit'
  BY <1>1 DEF TextInv, HandsFit, Resting
<1>3. \A e \in Mail : Deferred(e)' => Deferred(e)
  BY <1>1 DEF Deferred, Group
<1>4. ASSUME NEW e \in Mail, Accounted(e) PROVE Accounted(e)'
  BY <1>1, <1>4, Basics DEF Accounted, Id
<1> QED
  BY <1>2, <1>3, <1>4, TextFrom

LEMMA StutterText ==
  ASSUME TextInv, UNCHANGED <<conf, hand, window, taken, told, kept, missed>>
  PROVE  TextInv'
<1>1. HandsFit' /\ \A e \in Mail : Deferred(e)' => Deferred(e)
  BY DEF TextInv, HandsFit, Deferred, Group
<1> QED
  BY <1>1, NothingMoves, TextFrom

LEMMA TextNext ==
  ASSUME IngressTypes, TextInv, [IngressNext]_allVars
  PROVE  TextInv'
<1>1. ASSUME NEW d \in Mail, HandlerStep(d) PROVE TextInv'
  <2>1. ASSUME Ask(d) PROVE TextInv'
    BY <2>1, StutterText DEF Ask, ingressVars
  <2> QED
    BY <1>1, <2>1, HandlerText, TurnAwayText, TakeText, WriteText DEF HandlerStep
<1>2. ASSUME NEW r \in Runs, RunStep(r) PROVE TextInv'
  BY <1>2, StutterText DEF RunStep, ingressVars
<1>3. ASSUME NEW t \in Scheduled, Task(t) \/ TimeOut(t) PROVE TextInv'
  BY <1>3, StutterText DEF Task, TimeOut, ingressVars
<1>4. ASSUME NEW m \in Messages, Forgotten(m) PROVE TextInv'
  BY <1>4, StutterText DEF Forgotten
<1>5. ASSUME NEW s \in Sessions, Recover(s) PROVE TextInv'
  BY <1>5, StutterText DEF Recover
<1>6. CASE UNCHANGED allVars
  BY <1>6, StutterText DEF allVars, ingressVars
<1> QED
  BY <1>1, <1>2, <1>3, <1>4, <1>5, <1>6, ReceiveText, PanicText, RestartText DEF IngressNext

\* What was said in a group and left to the next question, overheard or turned away as
\* busy, is never lost without a trace (GroupPretriggerWindowRegistry, the handlers'
\* persist_buffered_group_messages): for any number of deliveries, chats and restarts.
THEOREM DeferredIsHeard == IngressSpec => []TextIsHeard
<1>1. IngressInit => TextInv
  BY DEF IngressInit, TextInv, HandsFit, Deferred
<1>2. TypeInv /\ TextInv /\ [IngressNext]_allVars => TextInv'
  BY TextNext DEF TypeInv
<1>3. TextInv => TextIsHeard
  BY TextMeans DEF TextInv
<1> QED
  BY <1>1, <1>2, <1>3, TypesInvariant, PTL DEF IngressSpec

-----------------------------------------------------------------------------
(* What a conversation with overheard messages must be like.                 *)

\* A chat is a group or it is not: the deliveries of a session are all group messages or
\* none, no task runs in a group, and iMessage has no groups.
GroupsApart ==
  \A st \in Setups :
    /\ \A d, e \in Mail : SessionOf[d] = SessionOf[e] => st.post[d].group = st.post[e].group
    /\ \A t \in st.tasks, d \in Mail : SessionOf[t] = SessionOf[d] => ~st.post[d].group
    /\ st.channel = "imessage" => \A d \in Mail : ~st.post[d].group

\* Nothing is overheard that is on record, as OverheardOnce says it.
OnceOnRecord(t) ==
  \A i, j \in DOMAIN t :
    /\ i < j /\ t[j].kind = "overheard"
    /\ t[i].kind \in {"user", "overheard"} /\ t[i].run \in Mail /\ Id(t[i].run) = Id(t[j].run)
    => conf.channel = "discord" /\ t[i].kind = "user"

\* The questions of a conversation were asked in it.
AtHome(t, s) == \A i \in DOMAIN t : t[i].kind = "user" => SessionOf[t[i].run] = s

Neat(t, s) == OnceOnRecord(t) /\ AtHome(t, s)

\* A compaction writes its copy back, so the copies are as neat as the records.
RecordsNeat ==
  /\ \A s \in Sessions : Neat(transcript[s], s)
  /\ \A r \in Runs : phase[r] = "summarising" => Neat(view[r], SessionOf[r])

\* A window has each id once, and so has what was taken from it, for a group's message.
WindowsNeat ==
  /\ \A s \in Sessions : DistinctIds(window[s])
  /\ \A d \in Mail : DistinctIds(taken[d]) /\ (hand[d] = "taken" => Group(d))

-----------------------------------------------------------------------------
(* What a conversation of a group must be like.                              *)

\* Between a question and its answer are turns of that run alone.
WholeForGroups(t) ==
  \A i, j, k \in DOMAIN t :
    LET r == t[k].run
    IN  /\ i < j /\ j < k /\ r \in Mail /\ Group(r) /\ t[k].kind = "answer"
        /\ t[i] = Turn("user", r)
        => t[j].run = r

OwnSince(t, q) == \A i, j \in DOMAIN t : i < j /\ t[i] = Turn("user", q) => t[j].run = q

FitsGroup(q, t) ==
  /\ phase[q] \in Unasked => NoQuestion(t, q)
  /\ Talking(q) => OwnSince(t, q)

GroupMail == {d \in Mail : Group(d)}

GroupsFit ==
  /\ \A s \in Sessions : WholeForGroups(transcript[s])
  /\ \A q \in GroupMail : FitsGroup(q, Conversation(q))
  /\ \A r \in Runs : phase[r] = "summarising" =>
       /\ WholeForGroups(view[r])
       /\ \A q \in GroupMail : SessionOf[q] = SessionOf[r] => FitsGroup(q, view[r])

\* A run under way is one of a task that takes part, or has a handler that waits for it.
UnderWay(r) == phase[r] \notin {"idle", "done", "gone"}

Driven ==
  \A r \in Runs : UnderWay(r) => IF r \in Mail THEN hand[r] = "asking" ELSE r \in conf.tasks

-----------------------------------------------------------------------------
(* The runs under the handlers.                                              *)

\* A step of one run, whoever takes it.
StepOf(r) == Arrive(r) \/ Enter(r) \/ Work(r) \/ SettleTurn(r) \/ Drop(r)

\* The run of a message is dropped only when its handler panics, which apologises.
Excused(r) ==
  r \in Mail => Arrive(r) \/ Enter(r) \/ Work(r) \/ SettleTurn(r) \/ Tell(r, "apology")

\* A step that no run and no conversation takes part in.
NoRun == UNCHANGED <<phase, lockOf, registry, purpose, view, outcome, transcript>>

LEMMA StepCases ==
  ASSUME [IngressNext]_allVars
  PROVE  /\ conf' = conf
         /\ \/ \E r \in Runs : StepOf(r) /\ Excused(r)
            \/ \E d \in Mail : WriteOverheard(d)
            \/ \E s \in Sessions : Recover(s)
            \/ \E p \in Procs : Restart(p)
            \/ NoRun
<1>0. Mail \subseteq Runs /\ Scheduled \subseteq Runs /\ \A t \in Scheduled : t \notin Mail
  BY SessionAssumption DEF Mail
<1>1. ASSUME NEW d \in Mail, HandlerStep(d)
      PROVE  conf' = conf /\ ((StepOf(d) /\ Excused(d)) \/ WriteOverheard(d) \/ NoRun)
  BY <1>1 DEF HandlerStep, Intercept, TryLock, Announce, TurnAway, WaitLock, NoLock, Take,
              CannotLoad, WriteOverheard, Direct, Ask, Reply, Close, Unlock, ingressVars,
              vars, NoRun, StepOf, Excused
<1>2. ASSUME NEW d \in Mail, Receive(d) \/ Panic(d)
      PROVE  conf' = conf /\ ((StepOf(d) /\ Excused(d)) \/ NoRun)
  BY <1>2 DEF Receive, Panic, vars, NoRun, StepOf, Excused
<1>3. ASSUME NEW r \in Runs, RunStep(r)
      PROVE  conf' = conf /\ StepOf(r) /\ Excused(r)
  BY <1>3 DEF RunStep, ingressVars, StepOf, Excused
<1>4. ASSUME NEW t \in Scheduled, Task(t) \/ TimeOut(t)
      PROVE  conf' = conf /\ StepOf(t) /\ Excused(t)
  BY <1>0, <1>4 DEF Task, TimeOut, ingressVars, StepOf, Excused
<1>5. ASSUME NEW m \in Messages, Forgotten(m)
      PROVE  conf' = conf /\ NoRun
  BY <1>5 DEF Forgotten, vars, NoRun
<1>6. (\E s \in Sessions : Recover(s)) \/ (\E p \in Procs : Restart(p)) => conf' = conf
  BY DEF Recover, Restart
<1>7. CASE UNCHANGED allVars
  BY <1>7 DEF allVars, ingressVars, vars, NoRun
<1> QED
  BY <1>0, <1>1, <1>2, <1>3, <1>4, <1>5, <1>6, <1>7 DEF IngressNext

LEMMA OtherTextMoves ==
  ASSUME TypeOK, NEW r \in Runs, OtherText(r)
  PROVE  /\ phase[r] = "returned" /\ phase' = [phase EXCEPT ![r] = "reporting"]
         /\ UNCHANGED <<lockOf, registry, purpose, view, outcome, transcript>>
BY DEF OtherText, OnlyPhase

LEMMA StepShape ==
  ASSUME TypeOK, Manual, NEW r \in Runs, StepOf(r)
  PROVE  Shapes(r)
<1>1. CASE OtherText(r)
  BY <1>1, OtherTextMoves DEF TypeOK, Shapes, Apart, Silent, Eases, Unasked, Talking
<1>2. CASE ~OtherText(r)
  BY <1>2, ArriveShape, EnterShape, WorkShape, LeaveShape, DropShape
  DEF StepOf, SettleTurn, Leave
<1> QED
  BY <1>1, <1>2

LEMMA StepLock ==
  ASSUME TypeOK, LockInv, NEW r \in Runs, StepOf(r)
  PROVE  LockInv'
<1>1. CASE OtherText(r)
  <2>1. NoEntry(r)
    BY <1>1, OtherTextMoves, MovesOn DEF Inside
  <2> QED
    BY <2>1, NoEntryLock
<1>2. CASE ~OtherText(r)
  BY <1>2, ArriveLock, AcquireLock, EnterNoEntry, WorkNoEntry, LeaveNoEntry, DropNoEntry,
     NoEntryLock
  DEF StepOf, SettleTurn, Leave
<1> QED
  BY <1>1, <1>2

\* What a crash does to the runs.
LEMMA CrashMoves ==
  ASSUME TypeOK, NEW p \in Procs, Restart(p)
  PROVE  /\ \A r \in Runs : /\ phase'[r] = IF UnderWay(r) THEN "gone" ELSE phase[r]
                            /\ view'[r] = IF UnderWay(r) THEN <<>> ELSE view[r]
                            /\ lockOf'[r] = IF UnderWay(r) THEN None ELSE lockOf[r]
         /\ UNCHANGED <<registry, purpose, outcome, transcript>>
<1>1. \A r \in Runs : ProcOf[r] = p
  BY SessionAssumption, IngressAssumption
<1> QED
  BY <1>1 DEF Restart, Crash, Mortal, UnderWay

\* The channel is one process.
LEMMA OneProcessServes == Local
BY SessionAssumption, IngressAssumption DEF Local

RunsInv ==
  /\ LockInv
  /\ Manual
  /\ \A t \in Scheduled : purpose[t] # "manual"

LEMMA StepPurpose ==
  ASSUME TypeOK, NEW r \in Runs, StepOf(r)
  PROVE  /\ \A q \in Runs \ {r} : purpose'[q] = purpose[q]
         /\ purpose'[r] = "manual" => purpose[r] = "manual" \/ r \notin Scheduled
<1> USE DEF TypeOK
<1>1. CASE CompactCommand(r)
  BY <1>1 DEF CompactCommand
<1>2. CASE Overflow(r)
  BY <1>2 DEF Overflow
<1>3. CASE ~CompactCommand(r) /\ ~Overflow(r)
  <2>1. UNCHANGED purpose
    BY <1>3 DEF StepOf, Arrive, Enter, Acquire, NoSession, DomainBoundary, Unlimited, Reserve,
                Refuse, PersistRefusal, ExpandFails, PersistUser, Fail, Work, SkipCompact,
                BeginCompact, EndCompact, Prepare, RunFails, RunAnswers, PersistAnswer,
                Return, SettleTurn, Leave, Deliver, Withdraw, InspectTail, AppendFailure,
                OtherText, OnlyPhase, Drop
  <2> QED
    BY <2>1
<1> QED
  BY <1>1, <1>2, <1>3

LEMMA RunsNext ==
  ASSUME TypeInv, RunsInv, [IngressNext]_allVars
  PROVE  RunsInv'
<1> USE DEF TypeInv
<1>1. ASSUME NEW r \in Runs, StepOf(r) PROVE RunsInv'
  <2>1. Manual'
    BY <1>1, StepShape DEF RunsInv, Manual, Shapes, Apart
  <2> QED
    BY <1>1, <2>1, StepLock, StepPurpose, SessionAssumption DEF RunsInv
<1>2. ASSUME NEW p \in Procs, Restart(p) PROVE RunsInv'
  <2>1. LockInv'
    BY <1>2, CrashMoves
    DEF RunsInv, LockInv, HasLock, Registered, SessionMutex, Here, UnderWay, Inside
  <2>2. Manual'
    BY <1>2, CrashMoves DEF RunsInv, Manual, Unasked
  <2> QED
    BY <1>2, <2>1, <2>2, CrashMoves DEF RunsInv
<1>3. ASSUME UNCHANGED <<phase, lockOf, registry, purpose>> PROVE RunsInv'
  BY <1>3 DEF RunsInv, LockInv, HasLock, Registered, SessionMutex, Here, Manual
<1> QED
  BY <1>1, <1>2, <1>3, StepCases DEF WriteOverheard, Recover, NoRun

LEMMA RunsInit == IngressInit => RunsInv
BY SessionAssumption
DEF IngressInit, Init, RunsInv, LockInv, HasLock, Registered, SessionMutex, Manual, Inside,
    Unasked

LEMMA RunsInvariant == IngressSpec => []RunsInv
BY RunsInit, RunsNext, TypesInvariant, PTL DEF IngressSpec

-----------------------------------------------------------------------------
(* What a step of a run writes.                                              *)

\* A stretch of a conversation, in its order.
Part(u, t) ==
  \E n \in Nat : \A i \in DOMAIN u : i \in Nat /\ n + i \in DOMAIN t /\ u[i] = t[n + i]

Spoke == Regrets \cup Speech

\* The conversation t becomes u: one turn of r more, its last answer less, or what r
\* retains of what it read.
Wrote(r, t, u) ==
  \/ \E k \in Spoke : u = Append(t, Turn(k, r))
  \/ t # <<>> /\ u = ButLast(t)
  \/ phase[r] = "summarising" /\ u = Recent(view[r])

LEMMA ShapesWrite ==
  ASSUME TypeOK, NEW r \in Runs, Shapes(r)
  PROVE  \/ UNCHANGED transcript
         \/ \E u : /\ transcript' = [transcript EXCEPT ![SessionOf[r]] = u]
                   /\ Wrote(r, Conversation(r), u)
<1> DEFINE s == SessionOf[r]
           t == Conversation(r)
<1>0. s \in Sessions /\ t = transcript[s] /\ transcript = [transcript EXCEPT ![s] = t]
  BY SessionAssumption DEF Conversation, TypeOK
<1>1. ASSUME NEW k \in Spoke, Say(r, k)
      PROVE  \E u : transcript' = [transcript EXCEPT ![s] = u] /\ Wrote(r, t, u)
  <2>1. transcript' = [transcript EXCEPT ![s] = Append(t, Turn(k, r))]
    BY <1>1 DEF Say, Conversation
  <2> QED
    BY <2>1 DEF Wrote
<1>2. CASE Notes(r) \/ Questions(r) \/ Concludes(r)
  <2>1. \E k \in Spoke : Say(r, k)
    BY <1>2 DEF Notes, Questions, Concludes, Spoke, Speech
  <2> QED
    BY <1>1, <2>1
<1>3. CASE Retracts(r)
  <2>1. CASE EndsWith(s, Turn("answer", r))
    BY <1>3, <2>1 DEF Retracts, Withdraw, EndsWith, Conversation, Wrote
  <2>2. CASE ~EndsWith(s, Turn("answer", r))
    BY <1>0, <1>3, <2>2 DEF Retracts, Withdraw
  <2> QED
    BY <2>1, <2>2
<1>4. CASE Rewrites(r)
  BY <1>4 DEF Rewrites, Wrote
<1> QED
  BY <1>2, <1>3, <1>4 DEF Shapes, Silent

LEMMA ButLastPart ==
  ASSUME NEW t \in Seq(Turns), t # <<>>
  PROVE  Part(ButLast(t), t)
<1>1. \A i \in DOMAIN ButLast(t) : i \in Nat /\ i \in DOMAIN t /\ ButLast(t)[i] = t[i]
  BY DEF ButLast
<1>2. \A i \in DOMAIN ButLast(t) : 0 + i = i
  BY <1>1
<1> HIDE DEF ButLast
<1>3. 0 \in Nat
  OBVIOUS
<1> QED
  BY <1>1, <1>2, <1>3 DEF Part

\* What a compaction retains is the end of what it read.
LEMMA RecentPart ==
  ASSUME NEW t \in Seq(Turns)
  PROVE  /\ Part(Recent(t), t)
         /\ Recent(t) # <<>> => t # <<>> /\ Recent(t)[Len(Recent(t))] = t[Len(t)]
<1>1. CASE ~(Len(t) > Retain)
  <2>1. Recent(t) = t
    BY <1>1 DEF Recent
  <2>2. \A i \in DOMAIN t : i \in Nat /\ 0 + i = i
    OBVIOUS
  <2>3. Part(t, t)
    BY <2>2 DEF Part
  <2> QED
    BY <2>1, <2>3
<1>2. CASE Len(t) > Retain
  <2> DEFINE u == Recent(t)
             n == Len(t) - Retain
  <2>0. Retain \in Nat /\ Retain > 0 /\ Len(t) \in Nat /\ DOMAIN t = 1..Len(t)
    BY SessionAssumption
  <2>1. u = SubSeq(t, n + 1, Len(t)) /\ n \in Nat /\ n < Len(t)
    BY <1>2, <2>0 DEF Recent
  <2>2. /\ Len(u) = IF n + 1 <= Len(t) THEN Len(t) - (n + 1) + 1 ELSE 0
        /\ \A i \in 1..(Len(t) - (n + 1) + 1) : u[i] = t[n + 1 + i - 1]
    BY <2>0, <2>1, SubSeqProperties
  <2>3. Len(u) = Retain /\ 1..(Len(t) - (n + 1) + 1) = 1..Retain
    BY <2>0, <2>1, <2>2
  <2>4. ASSUME NEW i \in 1..Retain PROVE n + i \in DOMAIN t /\ u[i] = t[n + i]
    <3>1. n + 1 + i - 1 = n + i /\ n + i \in 1..Len(t)
      BY <2>0, <2>1
    <3> QED
      BY <2>0, <2>2, <2>3, <3>1
  <2>5. u \in Seq(Turns)
    BY RecentType
  <2>6. DOMAIN u = 1..Retain
    BY <2>3, <2>5
  <2>7. \A i \in DOMAIN u : i \in Nat /\ n + i \in DOMAIN t /\ u[i] = t[n + i]
    BY <2>0, <2>4, <2>6
  <2>8. Retain \in 1..Retain /\ n + Retain = Len(t)
    BY <2>0
  <2>9. u[Len(u)] = t[Len(t)] /\ t # <<>>
    BY <2>0, <2>3, <2>4, <2>8, <1>2
  <2> HIDE DEF u, n
  <2>10. Part(u, t)
    BY <2>1, <2>7 DEF Part
  <2> QED
    BY <2>9, <2>10 DEF u
<1> QED
  BY <1>1, <1>2

-----------------------------------------------------------------------------
(* What is overheard goes on record once.                                    *)

LEMMA PartNeat ==
  ASSUME NEW t, NEW u, NEW s, Part(u, t), Neat(t, s)
  PROVE  Neat(u, s)
<1>1. PICK n \in Nat : \A i \in DOMAIN u : i \in Nat /\ n + i \in DOMAIN t /\ u[i] = t[n + i]
  BY DEF Part
<1>2. \A i, j \in DOMAIN u : i < j => n + i < n + j
  BY <1>1
<1>3. OnceOnRecord(u)
  BY <1>1, <1>2 DEF Neat, OnceOnRecord
<1>4. AtHome(u, s)
  BY <1>1 DEF Neat, AtHome
<1> QED
  BY <1>3, <1>4 DEF Neat

LEMMA AppendNeat ==
  ASSUME NEW t \in Seq(Turns), NEW x \in Turns, NEW s, Neat(t, s), x.kind # "overheard",
         x.kind = "user" => SessionOf[x.run] = s
  PROVE  Neat(Append(t, x), s)
<1> DEFINE u == Append(t, x)
<1>1. /\ Len(t) \in Nat /\ u[Len(t) + 1] = x
      /\ \A i \in DOMAIN t : u[i] = t[i]
      /\ DOMAIN u = DOMAIN t \cup {Len(t) + 1} /\ DOMAIN t = 1..Len(t)
  BY TailOfAppend
<1> HIDE DEF u
<1>2. \A i, j \in DOMAIN u : i < j /\ u[j].kind = "overheard" => i \in DOMAIN t /\ j \in DOMAIN t
  BY <1>1
<1>3. OnceOnRecord(u)
  BY <1>1, <1>2 DEF Neat, OnceOnRecord
<1>4. AtHome(u, s)
  BY <1>1 DEF Neat, AtHome
<1> QED
  BY <1>3, <1>4 DEF Neat, u

LEMMA WroteNeat ==
  ASSUME TypeOK, RecordsNeat, NEW r \in Runs, NEW u, Wrote(r, Conversation(r), u)
  PROVE  Neat(u, SessionOf[r])
<1> DEFINE s == SessionOf[r]
           t == Conversation(r)
<1>0. t \in Seq(Turns) /\ Neat(t, s) /\ view[r] \in Seq(Turns)
  BY SessionAssumption DEF TypeOK, RecordsNeat, Conversation
<1>1. ASSUME NEW k \in Spoke, u = Append(t, Turn(k, r)) PROVE Neat(u, s)
  <2>1. Turn(k, r) \in Turns /\ Turn(k, r).kind # "overheard" /\ Turn(k, r).run = r
    BY DEF Spoke, Regrets, Speech, Turn, Turns, Kinds
  <2> QED
    BY <1>0, <1>1, <2>1, AppendNeat
<1>2. CASE t # <<>> /\ u = ButLast(t)
  BY <1>0, <1>2, ButLastPart, PartNeat
<1>3. CASE phase[r] = "summarising" /\ u = Recent(view[r])
  <2>1. Neat(view[r], s)
    BY <1>3 DEF RecordsNeat
  <2> QED
    BY <1>0, <1>3, <2>1, RecentPart, PartNeat
<1> QED
  BY <1>1, <1>2, <1>3 DEF Wrote

LEMMA RecordsFromWritten ==
  ASSUME TypeOK, RecordsNeat, conf' = conf, NEW s \in Sessions, NEW u, Neat(u, s),
         transcript' = [transcript EXCEPT ![s] = u],
         \A r \in Runs : phase'[r] = "summarising" => phase[r] = "summarising" /\ view'[r] = view[r]
  PROVE  RecordsNeat'
<1>1. transcript'[s] = u /\ \A x \in Sessions : x # s => transcript'[x] = transcript[x]
  BY DEF TypeOK
<1>2. \A x \in Sessions : Neat(transcript'[x], x)
  BY <1>1 DEF RecordsNeat
<1>3. \A x \in Sessions : Neat(transcript[x], x)'
  BY <1>2 DEF Neat, OnceOnRecord, AtHome, Id
<1>4. ASSUME NEW r \in Runs, phase'[r] = "summarising" PROVE Neat(view[r], SessionOf[r])'
  <2>1. Neat(view'[r], SessionOf[r])
    BY <1>4 DEF RecordsNeat
  <2> QED
    BY <2>1 DEF Neat, OnceOnRecord, AtHome, Id
<1> QED
  BY <1>3, <1>4 DEF RecordsNeat

\* Nobody starts to summarise while it writes.
LEMMA CopiesOfOthers ==
  ASSUME NEW r \in Runs, Shapes(r), transcript' # transcript
  PROVE  \A q \in Runs : phase'[q] = "summarising" => phase[q] = "summarising" /\ view'[q] = view[q]
BY DEF Shapes, Apart

LEMMA StepRecords ==
  ASSUME TypeOK, Manual, RecordsNeat, conf' = conf, NEW r \in Runs, StepOf(r)
  PROVE  RecordsNeat'
<1>1. Shapes(r)
  BY StepShape
<1>2. CASE UNCHANGED transcript
  <2>1. \A x \in Sessions : Neat(transcript[x], x)'
    BY <1>2 DEF RecordsNeat, Neat, OnceOnRecord, AtHome, Id
  <2>2. ASSUME NEW q \in Runs, phase'[q] = "summarising" PROVE Neat(view[q], SessionOf[q])'
    <3>1. CASE q = r
      <4>1. view'[r] = transcript[SessionOf[r]]
        BY <1>1, <2>2, <3>1 DEF Shapes, Apart, Conversation
      <4>2. Neat(view'[r], SessionOf[r])
        BY <4>1, SessionAssumption DEF RecordsNeat
      <4> QED
        BY <3>1, <4>2 DEF Neat, OnceOnRecord, AtHome, Id
    <3>2. CASE q # r
      <4>1. Neat(view[q], SessionOf[q]) /\ view'[q] = view[q]
        BY <1>1, <2>2, <3>2 DEF Shapes, Apart, RecordsNeat
      <4> QED
        BY <4>1 DEF Neat, OnceOnRecord, AtHome, Id
    <3> QED
      BY <3>1, <3>2
  <2> QED
    BY <2>1, <2>2 DEF RecordsNeat
<1>3. CASE ~UNCHANGED transcript
  <2>1. PICK u : /\ transcript' = [transcript EXCEPT ![SessionOf[r]] = u]
                 /\ Wrote(r, Conversation(r), u)
    BY <1>1, <1>3, ShapesWrite
  <2>2. Neat(u, SessionOf[r])
    BY <2>1, WroteNeat
  <2> QED
    BY <1>1, <1>3, <2>1, <2>2, CopiesOfOthers, RecordsFromWritten, SessionAssumption
<1> QED
  BY <1>2, <1>3

\* What is written is not on record: the questions of the session were asked in a group,
\* so their ids are among the recorded ones, except on Discord.
LEMMA WriteNeat ==
  ASSUME GroupsApart, TypeInv, RecordsNeat, WindowsNeat, NEW d \in Mail, hand[d] = "taken",
         Group(d), NEW new \in Seq(Mail), NEW n \in 0..Len(new), Written(d, new, n)
  PROVE  Neat(Conversation(d) \o Overheards(new, n), SessionOf[d])
<1> DEFINE s == SessionOf[d]
           t == Conversation(d)
           u == t \o Overheards(new, n)
<1>0. t \in Seq(Turns) /\ Neat(t, s) /\ t = transcript[s] /\ conf \in Setups
  BY Basics DEF TypeInv, TypeOK, IngressTypes, RecordsNeat, Conversation
<1>1. /\ u \in Seq(Turns) /\ Len(t) \in Nat
      /\ DOMAIN t = 1..Len(t) /\ DOMAIN u = 1..(Len(t) + n)
      /\ \A i \in 1..Len(t) : u[i] = t[i]
      /\ \A i \in DOMAIN u : i \notin 1..Len(t) =>
           /\ i - Len(t) \in DOMAIN new
           /\ u[i] = Turn("overheard", new[i - Len(t)])
  BY <1>0, OverheardsFacts
<1>2. DistinctIds(new) /\ Ids(new) = Ids(taken[d]) \ Recorded(s)
  BY DEF WindowsNeat, Written
<1> HIDE DEF u, t
<1>3. n \in Nat /\ \A i \in DOMAIN u : i \in Nat /\ (i \notin 1..Len(t) => ~(i <= Len(t)))
  BY <1>1
<1>4. ASSUME NEW i \in DOMAIN u, NEW j \in DOMAIN u, i < j, u[j].kind = "overheard",
             u[i].kind \in {"user", "overheard"}, u[i].run \in Mail,
             Id(u[i].run) = Id(u[j].run)
      PROVE  conf.channel = "discord" /\ u[i].kind = "user"
  <2>1. CASE j \in 1..Len(t)
    <3>1. i \in 1..Len(t)
      BY <1>1, <1>4, <2>1
    <3> QED
      BY <1>0, <1>1, <1>4, <2>1, <3>1 DEF Neat, OnceOnRecord
  <2>2. CASE j \notin 1..Len(t)
    <3>1. /\ j - Len(t) \in DOMAIN new /\ u[j] = Turn("overheard", new[j - Len(t)])
      BY <1>1, <2>2
    <3>2. Id(u[j].run) \in Ids(new)
      BY <3>1 DEF Ids, Turn
    <3>3. Id(u[j].run) \notin Recorded(s)
      BY <1>2, <3>2
    <3>4. CASE i \in 1..Len(t)
      <4>1. u[i] = t[i] /\ i \in DOMAIN transcript[s] /\ t[i] = transcript[s][i]
        BY <1>0, <1>1, <3>4
      <4>2. ~(t[i].kind = "overheard")
        BY <1>4, <3>3, <4>1 DEF Recorded
      <4>3. t[i].kind = "user"
        BY <1>4, <4>1, <4>2
      <4>4. Group(t[i].run)
        <5>1. SessionOf[t[i].run] = s
          BY <1>0, <4>1, <4>3 DEF Neat, AtHome
        <5> QED
          BY <1>0, <1>4, <4>1, <5>1 DEF GroupsApart, Group
      <4>5. conf.channel = "discord"
        BY <1>4, <3>3, <4>1, <4>3, <4>4 DEF Recorded
      <4> QED
        BY <4>1, <4>3, <4>5
    <3>5. CASE i \notin 1..Len(t)
      <4>1. /\ i - Len(t) \in DOMAIN new /\ u[i] = Turn("overheard", new[i - Len(t)])
        BY <1>1, <3>5
      <4>2. i - Len(t) < j - Len(t)
        BY <1>1, <1>3, <1>4
      <4>3. Id(new[i - Len(t)]) # Id(new[j - Len(t)])
        BY <1>2, <3>1, <4>1, <4>2 DEF DistinctIds
      <4> QED
        BY <1>4, <3>1, <4>1, <4>3 DEF Turn
    <3> QED
      BY <3>4, <3>5
  <2> QED
    BY <2>1, <2>2
<1>5. OnceOnRecord(u)
  BY <1>4 DEF OnceOnRecord
<1>6. AtHome(u, s)
  <2>1. \A i \in DOMAIN u : i \notin 1..Len(t) => u[i].kind # "user"
    BY <1>1 DEF Turn
  <2> QED
    BY <1>0, <1>1, <2>1 DEF Neat, AtHome
<1> QED
  BY <1>5, <1>6 DEF Neat, t, u

LEMMA WriteRecords ==
  ASSUME GroupsApart, TypeInv, RecordsNeat, WindowsNeat, NEW d \in Mail, WriteOverheard(d)
  PROVE  RecordsNeat'
<1>1. PICK new \in Seq(Mail) : \E n \in 0..Len(new) : Written(d, new, n)
  BY WriteFacts DEF TypeInv
<1>2. PICK n \in 0..Len(new) : Written(d, new, n)
  BY <1>1
<1>3. hand[d] = "taken" /\ UNCHANGED <<conf, phase, view>>
  BY WriteSettles
<1>4. Group(d)
  BY <1>3 DEF WindowsNeat
<1>5. Neat(Conversation(d) \o Overheards(new, n), SessionOf[d])
  BY <1>2, <1>3, <1>4, WriteNeat
<1>6. transcript' = [transcript EXCEPT ![SessionOf[d]] = Conversation(d) \o Overheards(new, n)]
  BY <1>2 DEF Written, Conversation
<1> QED
  BY <1>3, <1>5, <1>6, Basics, RecordsFromWritten DEF TypeInv

LEMMA RecoverRecords ==
  ASSUME TypeInv, RecordsNeat, NEW s \in Sessions, Recover(s)
  PROVE  RecordsNeat'
<1>1. UNCHANGED <<conf, phase, view>>
  BY DEF Recover
<1>2. CASE UNCHANGED transcript
  BY <1>1, <1>2 DEF RecordsNeat, Neat, OnceOnRecord, AtHome, Id
<1>3. CASE ~UNCHANGED transcript
  <2> DEFINE x == Turn("notice", LastTurn(s).run)
  <2>1. /\ transcript[s] # <<>>
        /\ transcript' = [transcript EXCEPT ![s] = Append(transcript[s], x)]
    BY <1>3 DEF Recover, Interrupted
  <2>2. transcript[s] \in Seq(Turns) /\ LastTurn(s) \in Turns
    BY <2>1 DEF TypeInv, TypeOK, LastTurn
  <2>3. x \in Turns /\ x.kind = "notice"
    BY <2>2 DEF Turn, Turns, Kinds
  <2> HIDE DEF x
  <2>4. Neat(Append(transcript[s], x), s)
    BY <2>2, <2>3, AppendNeat DEF RecordsNeat
  <2> QED
    BY <1>1, <2>1, <2>4, RecordsFromWritten DEF TypeInv
<1> QED
  BY <1>2, <1>3

LEMMA RecordsNext ==
  ASSUME GroupsApart, TypeInv, RunsInv, RecordsNeat, WindowsNeat, [IngressNext]_allVars
  PROVE  RecordsNeat'
<1>1. ASSUME NEW p \in Procs, Restart(p) PROVE RecordsNeat'
  <2>1. conf' = conf /\ UNCHANGED transcript
    BY <1>1, CrashMoves DEF Restart, TypeInv
  <2>2. \A r \in Runs : phase'[r] = "summarising" => phase[r] = "summarising" /\ view'[r] = view[r]
    BY <1>1, CrashMoves DEF TypeInv
  <2> QED
    BY <2>1, <2>2 DEF RecordsNeat, Neat, OnceOnRecord, AtHome, Id
<1>2. ASSUME NoRun, conf' = conf PROVE RecordsNeat'
  BY <1>2 DEF NoRun, RecordsNeat, Neat, OnceOnRecord, AtHome, Id
<1> QED
  BY <1>1, <1>2, StepCases, StepRecords, WriteRecords, RecoverRecords DEF TypeInv, RunsInv

\* Windows and hands that only lose.
LEMMA WindowsShrink ==
  ASSUME WindowsNeat, conf' = conf,
         \A s \in Sessions : window'[s] \in {window[s], <<>>},
         \A d \in Mail : taken'[d] \in {taken[d], <<>>},
         \A d \in Mail : hand'[d] = "taken" => hand[d] = "taken"
  PROVE  WindowsNeat'
BY DEF WindowsNeat, DistinctIds, Id, Group

LEMMA PushNeat ==
  ASSUME IngressTypes, WindowsNeat, NEW d \in Mail, Push(d), UNCHANGED <<conf, taken>>,
         \A e \in Mail : hand'[e] = "taken" => hand[e] = "taken"
  PROVE  WindowsNeat'
<1>1. PICK fit \in Seq(Mail) : Pushed(d, fit)
  BY PushFacts
<1>2. DistinctIds(fit) /\ window' = [window EXCEPT ![SessionOf[d]] = fit]
  BY <1>1, Basics DEF Pushed, WindowsNeat
<1>3. \A s \in Sessions : DistinctIds(window'[s])
  BY <1>2 DEF IngressTypes, WindowsNeat
<1> QED
  BY <1>3 DEF WindowsNeat, DistinctIds, Id, Group

LEMMA TakeNeat ==
  ASSUME IngressTypes, WindowsNeat, NEW d \in Mail, Take(d)
  PROVE  WindowsNeat'
<1>1. PICK v \in Seq(Mail) : /\ taken' = [taken EXCEPT ![d] = v]
                             /\ DistinctIds(window[SessionOf[d]]) => DistinctIds(v)
  BY TakeFacts
<1>2. /\ conf' = conf /\ Group(d) /\ hand' = [hand EXCEPT ![d] = "taken"]
      /\ window' = [window EXCEPT ![SessionOf[d]] = <<>>]
  BY DEF Take, Goes
<1>3. DistinctIds(v)
  BY <1>1, Basics DEF WindowsNeat
<1>4. \A e \in Mail : DistinctIds(taken'[e])
  BY <1>1, <1>3 DEF IngressTypes, WindowsNeat
<1>5. \A s \in Sessions : DistinctIds(window'[s])
  BY <1>2 DEF IngressTypes, WindowsNeat, DistinctIds
<1>6. \A e \in Mail : hand'[e] = "taken" => Group(e)
  BY <1>2 DEF IngressTypes, WindowsNeat
<1> QED
  BY <1>2, <1>4, <1>5, <1>6 DEF WindowsNeat, DistinctIds, Id, Group

LEMMA WindowsNext ==
  ASSUME IngressTypes, WindowsNeat, [IngressNext]_allVars
  PROVE  WindowsNeat'
<1> DEFINE Same == UNCHANGED <<conf, hand, window, taken>>
<1>0. Same => WindowsNeat'
  BY WindowsShrink
<1>1. ASSUME NEW d \in Mail, NEW to, to # "taken", Goes(d, to), UNCHANGED <<conf, window, taken>>
      PROVE  WindowsNeat'
  <2>1. \A e \in Mail : hand'[e] = "taken" => hand[e] = "taken"
    BY <1>1 DEF Goes, IngressTypes
  <2> QED
    BY <1>1, <2>1, WindowsShrink
<1>2. ASSUME NEW d \in Mail, Receive(d) \/ TurnAway(d) PROVE WindowsNeat'
  <2>1. \A e \in Mail : hand'[e] = "taken" => hand[e] = "taken"
    BY <1>2 DEF Receive, TurnAway, Goes, IngressTypes
  <2>2. UNCHANGED <<conf, taken>> /\ (Push(d) \/ UNCHANGED window)
    BY <1>2 DEF Receive, TurnAway
  <2> QED
    BY <2>1, <2>2, PushNeat, WindowsShrink
<1>3. ASSUME NEW d \in Mail, WriteOverheard(d) \/ Panic(d) PROVE WindowsNeat'
  <2>1. UNCHANGED <<conf, window>> /\ taken' = [taken EXCEPT ![d] = <<>>]
        /\ (Goes(d, "closing") \/ Goes(d, "asking"))
    BY <1>3, WriteSettles DEF Panic
  <2>2. \A e \in Mail : /\ hand'[e] = "taken" => hand[e] = "taken"
                        /\ taken'[e] \in {taken[e], <<>>}
    BY <2>1 DEF Goes, IngressTypes
  <2> QED
    BY <2>1, <2>2, WindowsShrink
<1>4. ASSUME NEW d \in Mail, HandlerStep(d) PROVE WindowsNeat'
  <2>1. CASE Intercept(d) \/ TryLock(d) \/ Announce(d) \/ WaitLock(d) \/ NoLock(d)
    BY <1>1, <2>1 DEF Intercept, TryLock, Announce, WaitLock, NoLock
  <2>2. CASE CannotLoad(d) \/ Direct(d) \/ Reply(d) \/ Close(d) \/ Unlock(d)
    BY <1>1, <2>2 DEF CannotLoad, Direct, Weigh, Reply, Close, Unlock
  <2>3. CASE Ask(d)
    BY <1>0, <2>3 DEF Ask, ingressVars
  <2> QED
    BY <1>2, <1>3, <1>4, <2>1, <2>2, <2>3, TakeNeat DEF HandlerStep
<1>5. ASSUME NEW r \in Runs, RunStep(r) PROVE Same
  BY <1>5 DEF RunStep, ingressVars
<1>6. ASSUME NEW t \in Scheduled, Task(t) \/ TimeOut(t) PROVE Same
  BY <1>6 DEF Task, TimeOut, ingressVars
<1>7. ASSUME NEW m \in Messages, Forgotten(m) PROVE Same
  BY <1>7 DEF Forgotten
<1>8. ASSUME NEW s \in Sessions, Recover(s) PROVE Same
  BY <1>8 DEF Recover
<1>9. CASE UNCHANGED allVars
  BY <1>0, <1>9 DEF allVars, ingressVars
<1>10. ASSUME NEW p \in Procs, Restart(p) PROVE WindowsNeat'
  BY <1>10, WindowsShrink DEF Restart, Resting
<1> HIDE DEF Same
<1> QED
  BY <1>0, <1>2, <1>3, <1>4, <1>5, <1>6, <1>7, <1>8, <1>9, <1>10 DEF IngressNext

LEMMA NeatInvariant ==
  ASSUME GroupsApart
  PROVE  IngressSpec => [](RecordsNeat /\ WindowsNeat)
<1>1. IngressInit => RecordsNeat /\ WindowsNeat
  BY SessionAssumption
  DEF IngressInit, Init, RecordsNeat, WindowsNeat, Neat, OnceOnRecord, AtHome, DistinctIds
<1>2. TypeInv /\ RunsInv /\ RecordsNeat /\ WindowsNeat /\ [IngressNext]_allVars
        => RecordsNeat' /\ WindowsNeat'
  BY RecordsNext, WindowsNext DEF TypeInv
<1> QED
  BY <1>1, <1>2, TypesInvariant, RunsInvariant, PTL DEF IngressSpec

\* Nothing a group said comes into its conversation a second time as overheard, whatever
\* is redelivered, turned away, taken, compacted or lost in between; on Discord only after
\* its own question, which has no id on record (persist_buffered_group_messages).
THEOREM OverheardIsOnce ==
  ASSUME GroupsApart
  PROVE  IngressSpec => []OverheardOnce
<1>1. RecordsNeat /\ WindowsNeat => OverheardOnce
  BY DEF RecordsNeat, Neat, OnceOnRecord, OverheardOnce
<1> QED
  BY <1>1, NeatInvariant, PTL

-----------------------------------------------------------------------------
(* Who is under way.                                                         *)

LEMMA StepUnderWay ==
  ASSUME TypeOK, NEW r \in Runs, StepOf(r)
  PROVE  /\ UnderWay(r) \/ Arrive(r)
         /\ \A q \in Runs \ {r} : phase'[q] = phase[q]
<1>1. UnderWay(r) \/ Arrive(r)
  BY DEF UnderWay, StepOf, Enter, Acquire, NoSession, CompactCommand, DomainBoundary,
         Unlimited, Reserve, Refuse, PersistRefusal, ExpandFails, PersistUser, Work,
         SkipCompact, BeginCompact, EndCompact, Prepare, RunFails, Overflow, RunAnswers,
         PersistAnswer, Return, SettleTurn, Leave, Deliver, Withdraw, InspectTail,
         AppendFailure, OtherText, Drop, Awaiting
<1>2. CASE OtherText(r)
  BY <1>1, <1>2, OtherTextMoves DEF TypeOK
<1>3. CASE Arrive(r)
  BY <1>3 DEF Arrive, TypeOK
<1>4. CASE ~OtherText(r) /\ ~Arrive(r)
  <2>1. \A q \in Runs \ {r} : phase'[q] = phase[q]
    <3>1. CASE Acquire(r)
      BY <3>1 DEF Acquire, TypeOK
    <3>2. CASE ~Acquire(r)
      <4>1. NoEntry(r)
        BY <1>4, <3>2, EnterNoEntry, WorkNoEntry, LeaveNoEntry, DropNoEntry
        DEF StepOf, SettleTurn, Leave
      <4> QED
        BY <4>1 DEF NoEntry
    <3> QED
      BY <3>1, <3>2
  <2> QED
    BY <1>1, <2>1
<1> QED
  BY <1>1, <1>2, <1>3, <1>4

LEMMA RunIsUnderWay ==
  ASSUME NEW r \in Runs, RunStep(r) \/ TimeOut(r)
  PROVE  UnderWay(r)
BY DEF UnderWay, RunStep, TimeOut, Enter, Acquire, NoSession, CompactCommand, DomainBoundary,
       Unlimited, Reserve, Refuse, PersistRefusal, ExpandFails, PersistUser, Work, SkipCompact,
       BeginCompact, EndCompact, Prepare, RunFails, Overflow, RunAnswers, PersistAnswer,
       Return, SettleTurn, Leave, Deliver, Withdraw, InspectTail, AppendFailure, OtherText,
       Drop, Awaiting

LEMMA DrivenFrom ==
  ASSUME Driven, conf' = conf,
         \A r \in Runs : UnderWay(r)' => UnderWay(r),
         \A r \in Mail : UnderWay(r)' => hand'[r] = hand[r]
  PROVE  Driven'
BY SessionAssumption DEF Driven, UnderWay, Mail

LEMMA DrivenNext ==
  ASSUME TypeInv, Driven, [IngressNext]_allVars
  PROVE  Driven'
<1> USE DEF TypeInv
<1>0. Mail \subseteq Runs /\ Scheduled \subseteq Runs /\ \A t \in Scheduled : t \notin Mail
  BY SessionAssumption DEF Mail
<1>1. ASSUME NEW d \in Mail, NEW to, Goes(d, to), UNCHANGED <<conf, phase>>,
             hand[d] # "asking" \/ ~UnderWay(d)
      PROVE  Driven'
  <2>1. \A r \in Mail : r # d => hand'[r] = hand[r]
    BY <1>1 DEF Goes, IngressTypes
  <2>2. ~UnderWay(d)
    BY <1>0, <1>1 DEF Driven
  <2>3. \A r \in Runs : UnderWay(r)' <=> UnderWay(r)
    BY <1>1 DEF UnderWay
  <2> QED
    BY <1>0, <1>1, <2>1, <2>2, <2>3, DrivenFrom
<1>2. ASSUME UNCHANGED <<conf, phase, hand>> PROVE Driven'
  BY <1>2, DrivenFrom DEF UnderWay
<1>3. ASSUME NEW d \in Mail, HandlerStep(d) PROVE Driven'
  <2>1. CASE Intercept(d) \/ TryLock(d) \/ Announce(d) \/ TurnAway(d) \/ WaitLock(d)
             \/ NoLock(d) \/ Take(d) \/ CannotLoad(d) \/ Close(d) \/ Unlock(d) \/ Direct(d)
    BY <1>1, <2>1 DEF Intercept, TryLock, Announce, TurnAway, WaitLock, NoLock, ForAgent, Take,
                      CannotLoad, Close, Unlock, Direct, Weigh, vars
  <2>2. CASE WriteOverheard(d)
    BY <1>1, <2>2, WriteSettles
  <2>3. CASE Reply(d)
    BY <1>1, <2>3 DEF Reply, UnderWay, vars
  <2>4. CASE Ask(d)
    <3>1. /\ hand' = hand /\ hand[d] = "asking" /\ conf' = conf
          /\ \A r \in Runs : r # d => phase'[r] = phase[r]
      BY <1>0, <2>4 DEF Ask, Arrive, ingressVars, TypeOK
    <3> QED
      BY <3>1 DEF Driven, UnderWay
  <2> QED
    BY <1>3, <2>1, <2>2, <2>3, <2>4 DEF HandlerStep
<1>4. ASSUME NEW d \in Mail, Receive(d) PROVE Driven'
  BY <1>1, <1>4 DEF Receive, vars
<1>5. ASSUME NEW d \in Mail, Panic(d) PROVE Driven'
  <2>1. Goes(d, "closing") /\ conf' = conf
    BY <1>5 DEF Panic
  <2>2. ~UnderWay(d)' /\ \A r \in Runs : r # d => phase'[r] = phase[r]
    <3>1. CASE phase[d] \in {"idle", "done"}
      BY <1>5, <3>1 DEF Panic, UnderWay, vars
    <3>2. CASE phase[d] \notin {"idle", "done"}
      BY <1>0, <1>5, <3>2 DEF Panic, Drop, Mail, TypeOK, UnderWay
    <3> QED
      BY <3>1, <3>2
  <2>3. \A r \in Mail : r # d => hand'[r] = hand[r]
    BY <2>1 DEF Goes, IngressTypes
  <2> QED
    BY <1>0, <2>1, <2>2, <2>3, DrivenFrom DEF UnderWay
<1>6. ASSUME NEW r \in Runs, RunStep(r) \/ (r \in Scheduled /\ TimeOut(r)) PROVE Driven'
  <2>1. conf' = conf /\ hand' = hand /\ StepOf(r)
    BY <1>6 DEF RunStep, TimeOut, ingressVars, StepOf
  <2>2. UnderWay(r)
    BY <1>6, RunIsUnderWay
  <2>3. \A q \in Runs \ {r} : phase'[q] = phase[q]
    BY <2>1, StepUnderWay
  <2> QED
    BY <2>1, <2>2, <2>3, DrivenFrom DEF UnderWay
<1>7. ASSUME NEW t \in Scheduled, Task(t) PROVE Driven'
  <2>1. /\ hand' = hand /\ t \in conf.tasks /\ conf' = conf
        /\ \A r \in Runs : r # t => phase'[r] = phase[r]
    BY <1>0, <1>7 DEF Task, Arrive, ingressVars, TypeOK
  <2> QED
    BY <1>0, <2>1 DEF Driven, UnderWay
<1>8. ASSUME NEW p \in Procs, Restart(p) PROVE Driven'
  <2>1. conf' = conf /\ \A r \in Runs : ~UnderWay(r)'
    BY <1>8, CrashMoves DEF UnderWay, Restart
  <2> QED
    BY <2>1 DEF Driven, UnderWay
<1>9. ASSUME NEW m \in Messages, Forgotten(m) PROVE Driven'
  BY <1>2, <1>9 DEF Forgotten, vars
<1>10. ASSUME NEW s \in Sessions, Recover(s) PROVE Driven'
  BY <1>2, <1>10 DEF Recover
<1>11. CASE UNCHANGED allVars
  BY <1>2, <1>11 DEF allVars, ingressVars, vars
<1> QED
  BY <1>0, <1>3, <1>4, <1>5, <1>6, <1>7, <1>8, <1>9, <1>10, <1>11 DEF IngressNext

\* A run is under way only while its handler waits for it, or for a task that takes part.
LEMMA DrivenInvariant == IngressSpec => []Driven
<1>1. IngressInit => Driven
  BY DEF IngressInit, Init, Driven, UnderWay
<1> QED
  BY <1>1, DrivenNext, TypesInvariant, PTL DEF IngressSpec

-----------------------------------------------------------------------------
(* Conversations of groups.                                                  *)

\* What a group message needs of the handlers.
GroupBase == GroupsApart /\ TypeInv /\ RunsInv /\ Driven /\ IngressExcludes

LEMMA GroupsTryLock ==
  ASSUME GroupBase, NEW d \in Mail, Group(d)
  PROVE  LocksIn(d)
BY DEF GroupBase, GroupsApart, TypeInv, IngressTypes, LocksIn, TriesLock, Group

\* While a group message is under way no other run of its session is.
LEMMA AloneInGroup ==
  ASSUME GroupBase, NEW q \in GroupMail, UnderWay(q), NEW r \in Runs, UnderWay(r),
         SessionOf[r] = SessionOf[q]
  PROVE  r = q
<1>0. conf \in Setups /\ q \in Mail /\ q \in Runs /\ Group(q)
  BY DEF GroupBase, TypeInv, IngressTypes, GroupMail, Mail
<1>1. r \in Mail
  <2> SUFFICES ASSUME r \notin Mail PROVE FALSE
    OBVIOUS
  <2>1. r \in conf.tasks
    BY DEF GroupBase, Driven
  <2> QED
    BY <1>0, <2>1 DEF GroupBase, GroupsApart, Group
<1>2. Group(r)
  BY <1>0, <1>1 DEF GroupBase, GroupsApart, Group
<1>3. hand[q] = "asking" /\ hand[r] = "asking"
  BY <1>0, <1>1 DEF GroupBase, Driven
<1> QED
  BY <1>0, <1>1, <1>2, <1>3, GroupsTryLock DEF GroupBase, IngressExcludes, Owning

LEMMA PartGroup ==
  ASSUME NEW t, NEW u, Part(u, t)
  PROVE  /\ WholeForGroups(t) => WholeForGroups(u)
         /\ \A q : NoQuestion(t, q) => NoQuestion(u, q)
         /\ \A q : OwnSince(t, q) => OwnSince(u, q)
<1>1. PICK n \in Nat : \A i \in DOMAIN u : i \in Nat /\ n + i \in DOMAIN t /\ u[i] = t[n + i]
  BY DEF Part
<1>2. \A i, j \in DOMAIN u : i < j => n + i < n + j
  BY <1>1
<1>3. WholeForGroups(t) => WholeForGroups(u)
  BY <1>1, <1>2 DEF WholeForGroups
<1>4. \A q : NoQuestion(t, q) => NoQuestion(u, q)
  BY <1>1 DEF NoQuestion
<1>5. \A q : OwnSince(t, q) => OwnSince(u, q)
  BY <1>1, <1>2 DEF OwnSince
<1> QED
  BY <1>3, <1>4, <1>5

\* One more turn.
LEMMA AppendGroup ==
  ASSUME NEW t \in Seq(Turns), NEW x \in Turns
  PROVE  LET u == Append(t, x)
         IN  /\ WholeForGroups(t) /\ (x.kind = "answer" /\ x.run \in GroupMail => OwnSince(t, x.run))
                  => WholeForGroups(u)
             /\ \A q : NoQuestion(t, q) /\ x # Turn("user", q) => NoQuestion(u, q)
             /\ \A q : OwnSince(t, q) /\ x.run = q => OwnSince(u, q)
             /\ \A q : NoQuestion(t, q) => OwnSince(u, q)
<1> DEFINE u == Append(t, x)
<1>1. /\ Len(t) \in Nat /\ u[Len(t) + 1] = x
      /\ \A i \in DOMAIN t : u[i] = t[i]
      /\ DOMAIN u = DOMAIN t \cup {Len(t) + 1} /\ DOMAIN t = 1..Len(t)
  BY TailOfAppend
<1> HIDE DEF u
<1>2. \A i, j \in DOMAIN u : i < j => i \in DOMAIN t /\ (j \in DOMAIN t \/ j = Len(t) + 1)
  BY <1>1
<1>3. ASSUME WholeForGroups(t), x.kind = "answer" /\ x.run \in GroupMail => OwnSince(t, x.run)
      PROVE  WholeForGroups(u)
  <2> SUFFICES ASSUME NEW i \in DOMAIN u, NEW j \in DOMAIN u, NEW k \in DOMAIN u, i < j, j < k,
                      u[k].run \in Mail, Group(u[k].run), u[k].kind = "answer",
                      u[i] = Turn("user", u[k].run)
               PROVE  u[j].run = u[k].run
    BY DEF WholeForGroups
  <2>1. i \in DOMAIN t /\ j \in DOMAIN t
    BY <1>2
  <2>2. CASE k \in DOMAIN t
    BY <1>1, <1>3, <2>1, <2>2 DEF WholeForGroups
  <2>3. CASE k = Len(t) + 1
    BY <1>1, <1>3, <2>1, <2>3 DEF OwnSince, GroupMail
  <2> QED
    BY <1>1, <2>2, <2>3
<1>4. \A q : NoQuestion(t, q) /\ x # Turn("user", q) => NoQuestion(u, q)
  BY <1>1 DEF NoQuestion
<1>5. \A q : OwnSince(t, q) /\ x.run = q => OwnSince(u, q)
  BY <1>1, <1>2 DEF OwnSince
<1>6. \A q : NoQuestion(t, q) => OwnSince(u, q)
  BY <1>1, <1>2 DEF OwnSince, NoQuestion
<1> QED
  BY <1>3, <1>4, <1>5, <1>6 DEF u

\* A step after which q asks no more of a conversation than before.
Calm(q) ==
  /\ phase'[q] \in Unasked => phase[q] \in Unasked
  /\ Talking(q)' => Talking(q)

\* The step asks of the conversation u only what it has.
Suits(q, u) ==
  /\ phase'[q] \in Unasked => NoQuestion(u, q)
  /\ Talking(q)' => OwnSince(u, q)

LEMMA CalmSuits ==
  ASSUME NEW q, NEW t, FitsGroup(q, t), Calm(q)
  PROVE  Suits(q, t)
BY DEF FitsGroup, Calm, Suits

LEMMA GroupsFromWritten ==
  ASSUME TypeOK, GroupsFit, conf' = conf, NEW s \in Sessions, NEW u, WholeForGroups(u),
         transcript' = [transcript EXCEPT ![s] = u],
         \A q \in GroupMail : IF SessionOf[q] = s THEN Suits(q, u) ELSE Calm(q),
         \A p \in Runs : phase'[p] = "summarising" =>
           /\ phase[p] = "summarising" /\ view'[p] = view[p]
           /\ \A q \in GroupMail : SessionOf[q] = SessionOf[p] => Calm(q)
  PROVE  GroupsFit'
<1>1. transcript'[s] = u /\ \A x \in Sessions : x # s => transcript'[x] = transcript[x]
  BY DEF TypeOK
<1>2. GroupMail' = GroupMail
  BY DEF GroupMail, Group
<1>3. \A t : WholeForGroups(t) <=> WholeForGroups(t)'
  BY DEF WholeForGroups, Group
<1>4. \A x \in Sessions : WholeForGroups(transcript'[x])
  BY <1>1 DEF GroupsFit
<1>5. \A x \in Sessions : WholeForGroups(transcript[x])'
  BY <1>4 DEF WholeForGroups, Group
<1>6. ASSUME NEW q \in GroupMail PROVE FitsGroup(q, Conversation(q))'
  <2>1. q \in Runs /\ SessionOf[q] \in Sessions
    BY SessionAssumption DEF GroupMail, Mail
  <2>2. Suits(q, transcript'[SessionOf[q]])
    <3>1. CASE SessionOf[q] = s
      BY <1>1, <3>1
    <3>2. CASE SessionOf[q] # s
      <4>1. FitsGroup(q, transcript[SessionOf[q]])
        BY DEF GroupsFit, Conversation
      <4> QED
        BY <1>1, <2>1, <3>2, <4>1, CalmSuits
    <3> QED
      BY <3>1, <3>2
  <2> QED
    BY <2>2 DEF Suits, FitsGroup, Conversation
<1>7. ASSUME NEW p \in Runs, phase'[p] = "summarising"
      PROVE  /\ WholeForGroups(view[p])'
             /\ \A q \in GroupMail : SessionOf[q] = SessionOf[p] => FitsGroup(q, view[p])'
  <2>1. /\ WholeForGroups(view'[p])
        /\ \A q \in GroupMail : SessionOf[q] = SessionOf[p] => Suits(q, view'[p])
    BY <1>7, CalmSuits DEF GroupsFit
  <2> QED
    BY <2>1 DEF WholeForGroups, Group, Suits, FitsGroup
<1> QED
  BY <1>2, <1>5, <1>6, <1>7 DEF GroupsFit

\* Of the runs of a group message's session only its own step matters to it.
LEMMA CalmInGroup ==
  ASSUME GroupBase, NEW r \in Runs, StepOf(r), NEW q \in GroupMail, q # r
  PROVE  /\ Calm(q)
         /\ SessionOf[q] = SessionOf[r] /\ ~Arrive(r) => ~UnderWay(q) /\ ~Talking(q)'
<1>1. q \in Runs /\ phase'[q] = phase[q]
  BY StepUnderWay DEF GroupMail, Mail, GroupBase, TypeInv
<1>2. Shapes(r)
  BY StepShape DEF GroupBase, TypeInv, RunsInv
<1>3. purpose'[q] = purpose[q]
  BY <1>1, <1>2 DEF Shapes, Apart
<1>4. Calm(q) /\ (Talking(q)' => Talking(q)) /\ (Talking(q) => UnderWay(q))
  BY <1>1, <1>3 DEF Calm, Talking, UnderWay
<1>5. UnderWay(r) \/ Arrive(r)
  BY StepUnderWay DEF GroupBase, TypeInv
<1> QED
  BY <1>4, <1>5, AloneInGroup

\* And its own step leaves the copies of others, of which there are none.
LEMMA OwnCopyInGroup ==
  ASSUME GroupBase, NEW r \in Runs, StepOf(r), r \in GroupMail,
         NEW p \in Runs, p # r, phase[p] = "summarising", SessionOf[r] = SessionOf[p]
  PROVE  Calm(r)
<1>1. UnderWay(p)
  BY DEF UnderWay
<1>2. Arrive(r)
  BY <1>1, AloneInGroup, StepUnderWay DEF GroupBase, TypeInv
<1>3. phase[r] = "idle" /\ phase'[r] = "waiting"
  BY <1>2 DEF Arrive, GroupBase, TypeInv, TypeOK
<1> QED
  BY <1>3 DEF Calm, Talking, Unasked

\* What the step of r writes, and how that suits the group messages of its session.
LEMMA WroteGroup ==
  ASSUME GroupBase, GroupsFit, NEW r \in Runs, StepOf(r), NEW u,
         transcript' = [transcript EXCEPT ![SessionOf[r]] = u], ~UNCHANGED transcript
  PROVE  /\ WholeForGroups(u)
         /\ \A q \in GroupMail : SessionOf[q] = SessionOf[r] => Suits(q, u)
<1> DEFINE s == SessionOf[r]
           t == transcript[s]
<1>0. /\ TypeOK /\ s \in Sessions /\ t \in Seq(Turns) /\ Conversation(r) = t
      /\ transcript'[s] = u /\ view[r] \in Seq(Turns)
      /\ transcript = [transcript EXCEPT ![s] = t]
  BY SessionAssumption DEF GroupBase, TypeInv, TypeOK, Conversation
<1>1. /\ WholeForGroups(t)
      /\ \A q \in GroupMail : SessionOf[q] = s => FitsGroup(q, t)
  BY <1>0 DEF GroupsFit, Conversation
<1>2. Shapes(r) /\ ~Silent(r) /\ ~Arrive(r)
  BY StepShape DEF GroupBase, TypeInv, RunsInv, Silent, Arrive
<1>3. ASSUME NEW q \in GroupMail, SessionOf[q] = s, q # r, NoQuestion(t, q) => NoQuestion(u, q)
      PROVE  Suits(q, u)
  <2>1. ~Talking(q)' /\ Calm(q)
    BY <1>2, <1>3, CalmInGroup
  <2> QED
    BY <1>1, <1>3, <2>1 DEF Suits, Calm, FitsGroup
<1>4. ASSUME NEW k \in Spoke, Say(r, k)
      PROVE  /\ (k = "answer" /\ r \in GroupMail => OwnSince(t, r)) => WholeForGroups(u)
             /\ \A q : (q # r \/ k # "user") /\ NoQuestion(t, q) => NoQuestion(u, q)
             /\ OwnSince(t, r) \/ NoQuestion(t, r) => OwnSince(u, r)
  <2> DEFINE x == Turn(k, r)
  <2>1. transcript'[s] = Append(t, x)
    BY <1>0, <1>4 DEF Say, TypeOK
  <2>2. /\ x \in Turns /\ x.run = r /\ x.kind = k
        /\ \A q : q # r \/ k # "user" => x # Turn("user", q)
    BY DEF Turn, Turns, Kinds, Spoke, Regrets, Speech
  <2> HIDE DEF x
  <2>3. u = Append(t, x)
    BY <1>0, <2>1
  <2> HIDE DEF t
  <2> QED
    BY <1>0, <1>1, <2>2, <2>3, AppendGroup
<1> HIDE DEF t
<1>5. CASE Notes(r)
  <2>1. PICK k \in Regrets : Say(r, k)
    BY <1>5 DEF Notes
  <2>2. k \in Spoke /\ k # "user" /\ k # "answer"
    BY DEF Spoke, Regrets
  <2>3. WholeForGroups(u)
    BY <1>0, <1>1, <1>4, <2>1, <2>2
  <2>4. \A q \in GroupMail : NoQuestion(t, q) => NoQuestion(u, q)
    BY <1>0, <1>4, <2>1, <2>2
  <2>5. ASSUME r \in GroupMail PROVE Suits(r, u)
    <3>1. FitsGroup(r, t) /\ Calm(r)
      BY <1>1, <1>5, <2>5 DEF Notes, Eases, Calm
    <3>2. OwnSince(t, r) => OwnSince(u, r)
      BY <1>0, <1>4, <2>1, <2>2
    <3> QED
      BY <2>4, <2>5, <3>1, <3>2 DEF Suits, FitsGroup, Calm
  <2> QED
    BY <1>3, <2>3, <2>4, <2>5
<1>6. CASE Questions(r)
  <2>1. "user" \in Spoke /\ Say(r, "user")
    BY <1>6 DEF Questions, Spoke, Speech
  <2>2. WholeForGroups(u)
    BY <1>0, <1>1, <1>4, <2>1
  <2>3. \A q \in GroupMail : q # r /\ NoQuestion(t, q) => NoQuestion(u, q)
    BY <1>0, <1>4, <2>1
  <2>4. ASSUME r \in GroupMail PROVE Suits(r, u)
    <3>1. NoQuestion(t, r) /\ phase'[r] \notin Unasked
      BY <1>1, <1>6, <2>4 DEF Questions, FitsGroup
    <3>2. OwnSince(u, r)
      BY <1>0, <1>4, <2>1, <3>1
    <3> QED
      BY <3>1, <3>2 DEF Suits
  <2> QED
    BY <1>3, <2>2, <2>3, <2>4
<1>7. CASE Concludes(r)
  <2>1. "answer" \in Spoke /\ Say(r, "answer")
    BY <1>7 DEF Concludes, Spoke, Speech
  <2>2. r \in GroupMail => OwnSince(t, r)
    BY <1>1, <1>7 DEF Concludes, FitsGroup, Talking
  <2>3. WholeForGroups(u)
    BY <1>0, <1>1, <1>4, <2>1, <2>2
  <2>4. \A q \in GroupMail : NoQuestion(t, q) => NoQuestion(u, q)
    BY <1>0, <1>4, <2>1
  <2>5. Suits(r, u)
    BY <1>7 DEF Concludes, Suits, Unasked, Talking
  <2> QED
    BY <1>3, <2>3, <2>4, <2>5
<1>8. CASE Retracts(r)
  <2>1. r \notin GroupMail
    BY <1>8 DEF Retracts, Withdraw, GroupMail, Mail
  <2>2. t # <<>> /\ u = ButLast(t)
    <3>1. EndsWith(s, Turn("answer", r))
      BY <1>0, <1>8 DEF Retracts, Withdraw, t
    <3> QED
      BY <1>0, <1>8, <3>1 DEF Retracts, Withdraw, EndsWith, t, TypeOK
  <2>3. Part(u, t)
    BY <1>0, <2>2, ButLastPart
  <2> QED
    BY <1>1, <1>3, <2>1, <2>3, PartGroup
<1>9. CASE Rewrites(r)
  <2>1. u = Recent(view[r]) /\ phase[r] = "summarising" /\ Eases(r)
    BY <1>0, <1>9 DEF Rewrites, TypeOK
  <2>2. Part(u, view[r])
    BY <1>0, <2>1, RecentPart
  <2>3. /\ WholeForGroups(view[r])
        /\ \A q \in GroupMail : SessionOf[q] = s => FitsGroup(q, view[r])
    BY <2>1 DEF GroupsFit
  <2>4. \A q \in GroupMail : Calm(q)
    BY <2>1, CalmInGroup DEF Eases, Calm
  <2> QED
    BY <2>2, <2>3, <2>4, PartGroup DEF FitsGroup, Calm, Suits
<1> QED
  BY <1>2, <1>5, <1>6, <1>7, <1>8, <1>9 DEF Shapes

LEMMA GroupStep ==
  ASSUME GroupBase, GroupsFit, conf' = conf, NEW r \in Runs, StepOf(r)
  PROVE  GroupsFit'
<1> DEFINE s == SessionOf[r]
<1>0. TypeOK /\ s \in Sessions /\ Shapes(r)
  BY StepShape, SessionAssumption DEF GroupBase, TypeInv, RunsInv
<1>1. ASSUME NEW p \in Runs, p # r, phase'[p] = "summarising"
      PROVE  /\ phase[p] = "summarising" /\ view'[p] = view[p]
             /\ \A q \in GroupMail : SessionOf[q] = SessionOf[p] => Calm(q)
  <2>1. phase[p] = "summarising" /\ view'[p] = view[p]
    BY <1>0, <1>1 DEF Shapes, Apart
  <2> QED
    BY <1>1, <2>1, CalmInGroup, OwnCopyInGroup
<1>2. CASE ~UNCHANGED transcript
  <2>1. PICK u : transcript' = [transcript EXCEPT ![s] = u]
    BY <1>0, <1>2, ShapesWrite
  <2>2. /\ WholeForGroups(u) /\ \A q \in GroupMail : SessionOf[q] = s => Suits(q, u)
    BY <1>2, <2>1, WroteGroup
  <2>3. \A q \in GroupMail : SessionOf[q] # s => Calm(q)
    BY CalmInGroup
  <2>4. phase'[r] # "summarising"
    BY <1>0, <1>2 DEF Shapes, Apart
  <2> QED
    BY <1>0, <1>1, <2>1, <2>2, <2>3, <2>4, GroupsFromWritten
<1>3. CASE UNCHANGED transcript
  <2>1. Calm(r)
    <3>1. CASE Questions(r)
      <4>1. transcript'[s] = Append(transcript[s], Turn("user", r))
        BY <1>0, <3>1 DEF Questions, Say, TypeOK
      <4>2. transcript[s] \in Seq(Turns) /\ Turn("user", r) \in Turns
        BY <1>0 DEF TypeOK, Turn, Turns, Kinds
      <4>3. Len(Append(transcript[s], Turn("user", r))) # Len(transcript[s])
        BY <4>2
      <4> QED
        BY <1>3, <4>1, <4>3
    <3>2. CASE Concludes(r)
      BY <3>2 DEF Concludes, Calm, Unasked, Talking
    <3>3. CASE ~Questions(r) /\ ~Concludes(r)
      <4>1. Eases(r)
        BY <1>0, <3>3 DEF Shapes, Silent, Notes, Retracts, Rewrites
      <4> QED
        BY <4>1 DEF Eases, Calm
    <3> QED
      BY <3>1, <3>2, <3>3
  <2>2. \A q \in GroupMail : Calm(q)
    BY <2>1, CalmInGroup
  <2>3. /\ \A x \in Sessions : WholeForGroups(transcript[x])
        /\ \A q \in GroupMail : Suits(q, Conversation(q))
    BY <2>2, CalmSuits DEF GroupsFit
  <2>4. \A x \in Sessions : WholeForGroups(transcript[x])'
    BY <1>3, <2>3 DEF WholeForGroups, Group
  <2>5. \A q \in GroupMail : FitsGroup(q, Conversation(q))'
    BY <1>3, <2>3 DEF FitsGroup, Suits, Conversation
  <2>6. ASSUME NEW p \in Runs, phase'[p] = "summarising"
        PROVE  /\ WholeForGroups(view[p])'
               /\ \A q \in GroupMail : SessionOf[q] = SessionOf[p] => FitsGroup(q, view[p])'
    <3>1. /\ WholeForGroups(view'[p])
          /\ \A q \in GroupMail : SessionOf[q] = SessionOf[p] => Suits(q, view'[p])
      <4>1. CASE p # r
        BY <1>1, <2>6, <4>1, CalmSuits DEF GroupsFit
      <4>2. CASE p = r
        <5>1. view'[r] = transcript[s]
          BY <1>0, <2>6, <4>2 DEF Shapes, Apart, Conversation
        <5> QED
          BY <1>0, <2>3, <4>2, <5>1 DEF Conversation
      <4> QED
        BY <4>1, <4>2
    <3> QED
      BY <3>1 DEF WholeForGroups, Group, Suits, FitsGroup
  <2>7. GroupMail' = GroupMail
    BY DEF GroupMail, Group
  <2> QED
    BY <2>4, <2>5, <2>6, <2>7 DEF GroupsFit
<1> QED
  BY <1>2, <1>3


\* Overheard messages are written while no group message of the session is under way.
LEMMA WriteGroups ==
  ASSUME GroupBase, GroupsFit, WindowsNeat, NEW d \in Mail, WriteOverheard(d)
  PROVE  GroupsFit'
<1> DEFINE s == SessionOf[d]
           t == transcript[s]
<1>0. TypeOK /\ IngressTypes /\ s \in Sessions /\ t \in Seq(Turns) /\ d \in Runs
  BY Basics DEF GroupBase, TypeInv, TypeOK, Mail
<1>1. PICK new \in Seq(Mail) : \E n \in 0..Len(new) : Written(d, new, n)
  BY <1>0, WriteFacts
<1>2. PICK n \in 0..Len(new) : Written(d, new, n)
  BY <1>1
<1>3. hand[d] = "taken" /\ UNCHANGED <<conf, phase, view, purpose>>
  BY WriteSettles
<1>4. d \in GroupMail
  BY <1>3 DEF WindowsNeat, GroupMail
<1> DEFINE u == t \o Overheards(new, n)
<1>5. /\ u \in Seq(Turns) /\ Len(t) \in Nat
      /\ DOMAIN t = 1..Len(t) /\ DOMAIN u = 1..(Len(t) + n)
      /\ \A i \in 1..Len(t) : u[i] = t[i]
      /\ \A i \in DOMAIN u : i \notin 1..Len(t) =>
           /\ i - Len(t) \in DOMAIN new
           /\ u[i] = Turn("overheard", new[i - Len(t)])
  BY <1>0, OverheardsFacts
<1>6. /\ WholeForGroups(t)
      /\ \A q \in GroupMail : SessionOf[q] = s => FitsGroup(q, t)
  BY <1>0 DEF GroupsFit, Conversation
<1>7. transcript' = [transcript EXCEPT ![s] = u]
  BY <1>2 DEF Written
<1> HIDE DEF u, t
<1>8. \A i \in DOMAIN u : i \notin DOMAIN t => u[i].kind = "overheard"
  BY <1>5 DEF Turn
<1>9. \A i, j \in DOMAIN u : i < j /\ j \in DOMAIN t => i \in DOMAIN t
  BY <1>5
<1>10. \A i \in DOMAIN t : i \in DOMAIN u => u[i] = t[i]
  BY <1>5
<1>11. WholeForGroups(u)
  BY <1>6, <1>8, <1>9, <1>10 DEF WholeForGroups
<1>12. \A q \in GroupMail : Calm(q)
  BY <1>3 DEF Calm, Talking
<1>13. ASSUME NEW q \in GroupMail, SessionOf[q] = s PROVE Suits(q, u)
  <2>1. NoQuestion(t, q) => NoQuestion(u, q)
    BY <1>8, <1>10 DEF NoQuestion, Turn
  <2>2. ~Talking(q)
    <3> SUFFICES ASSUME Talking(q) PROVE FALSE
      OBVIOUS
    <3>1. hand[q] = "asking" /\ q \in Mail /\ Group(q) /\ Group(d)
      BY <1>4 DEF GroupBase, Driven, UnderWay, Talking, GroupMail, Mail
    <3>2. LocksIn(q) /\ LocksIn(d)
      BY <3>1, GroupsTryLock
    <3> QED
      BY <1>3, <1>13, <3>1, <3>2 DEF GroupBase, IngressExcludes, Owning
  <2> QED
    BY <1>6, <1>12, <1>13, <2>1, <2>2 DEF Suits, Calm, FitsGroup
<1> QED
  BY <1>0, <1>3, <1>7, <1>11, <1>12, <1>13, GroupsFromWritten

LEMMA RecoverGroups ==
  ASSUME GroupBase, GroupsFit, NEW s \in Sessions, Recover(s)
  PROVE  GroupsFit'
<1>1. UNCHANGED <<conf, phase, view, purpose>>
  BY DEF Recover
<1>2. \A q \in GroupMail : Calm(q)
  BY <1>1 DEF Calm, Talking
<1>3. CASE UNCHANGED transcript
  BY <1>1, <1>3 DEF GroupsFit, GroupMail, FitsGroup, WholeForGroups, Group, Talking, Conversation
<1>4. CASE ~UNCHANGED transcript
  <2> DEFINE x == Turn("notice", LastTurn(s).run)
  <2>1. /\ transcript[s] # <<>> /\ \A d \in Mail : SessionOf[d] = s => ~Group(d)
        /\ transcript' = [transcript EXCEPT ![s] = Append(transcript[s], x)]
    BY <1>4 DEF Recover, Interrupted
  <2>2. transcript[s] \in Seq(Turns) /\ LastTurn(s) \in Turns
    BY <2>1 DEF GroupBase, TypeInv, TypeOK, LastTurn
  <2>3. x \in Turns /\ x.kind = "notice"
    BY <2>2 DEF Turn, Turns, Kinds
  <2> HIDE DEF x
  <2>4. WholeForGroups(Append(transcript[s], x))
    BY <2>2, <2>3, AppendGroup DEF GroupsFit
  <2>5. \A q \in GroupMail : SessionOf[q] # s
    BY <2>1 DEF GroupMail
  <2>6. TypeOK
    BY DEF GroupBase, TypeInv
  <2> QED
    BY <1>1, <1>2, <2>1, <2>4, <2>5, <2>6, GroupsFromWritten
<1> QED
  BY <1>3, <1>4

LEMMA GroupsNext ==
  ASSUME GroupBase, GroupsFit, WindowsNeat, [IngressNext]_allVars
  PROVE  GroupsFit'
<1>1. ASSUME NEW p \in Procs, Restart(p) PROVE GroupsFit'
  <2>1. conf' = conf /\ UNCHANGED transcript
    BY <1>1, CrashMoves DEF Restart, GroupBase, TypeInv
  <2>2. \A r \in Runs : /\ phase'[r] = phase[r] \/ phase'[r] = "gone"
                        /\ phase'[r] = "summarising" => view'[r] = view[r]
                        /\ purpose'[r] = purpose[r]
    BY <1>1, CrashMoves DEF GroupBase, TypeInv
  <2>3. \A q \in Runs : Calm(q)
    BY <2>2 DEF Calm, Talking, Unasked
  <2>4. /\ \A s \in Sessions : WholeForGroups(transcript[s])'
        /\ GroupMail' = GroupMail
    BY <2>1 DEF GroupsFit, WholeForGroups, GroupMail, Group
  <2>5. \A q \in GroupMail : FitsGroup(q, Conversation(q))'
    BY <2>1, <2>3 DEF GroupsFit, FitsGroup, Calm, Conversation, GroupMail, Mail
  <2>6. ASSUME NEW r \in Runs, phase'[r] = "summarising"
        PROVE  /\ WholeForGroups(view[r])'
               /\ \A q \in GroupMail : SessionOf[q] = SessionOf[r] => FitsGroup(q, view[r])'
    <3>1. phase[r] = "summarising" /\ view'[r] = view[r]
      BY <2>2, <2>6
    <3> QED
      BY <2>1, <2>3, <3>1 DEF GroupsFit, WholeForGroups, FitsGroup, Calm, GroupMail, Mail, Group
  <2> QED
    BY <2>4, <2>5, <2>6 DEF GroupsFit
<1>2. ASSUME NoRun, conf' = conf PROVE GroupsFit'
  BY <1>2 DEF NoRun, GroupsFit, GroupMail, FitsGroup, WholeForGroups, Group, Talking, Conversation
<1> QED
  BY <1>1, <1>2, StepCases, GroupStep, WriteGroups, RecoverGroups

\* From a question of a group to its answer the conversation holds nothing but that run's
\* own turns, for any number of groups, members and messages: the ingress lock is held
\* around the run (try_begin_active), and what was overheard is written under it.
THEOREM GroupConversationsAreWhole ==
  ASSUME GroupsApart
  PROVE  IngressSpec => []GroupTurnsAreWhole
<1>1. IngressInit => GroupsFit
  <2> SUFFICES ASSUME IngressInit PROVE GroupsFit
    OBVIOUS
  <2>1. \A q \in Mail : phase[q] = "idle" /\ Conversation(q) = <<>>
    BY Basics DEF IngressInit, Init, Conversation, Mail
  <2>2. \A r \in Runs : phase[r] # "summarising"
    BY DEF IngressInit, Init
  <2>3. \A s \in Sessions : WholeForGroups(transcript[s])
    BY DEF IngressInit, Init, WholeForGroups
  <2>4. \A q \in GroupMail : FitsGroup(q, Conversation(q))
    BY <2>1 DEF FitsGroup, NoQuestion, Talking, GroupMail
  <2> QED
    BY <2>2, <2>3, <2>4 DEF GroupsFit
<1>2. /\ TypeInv /\ RunsInv /\ Driven /\ IngressExcludes /\ WindowsNeat /\ GroupsFit
      /\ [IngressNext]_allVars
      => GroupsFit'
  BY GroupsNext DEF GroupBase
<1>3. GroupsFit => GroupTurnsAreWhole
  BY DEF GroupsFit, WholeForGroups, GroupTurnsAreWhole
<1>4. IngressSpec => [](RecordsNeat /\ WindowsNeat)
  BY NeatInvariant
<1> QED
  BY <1>1, <1>2, <1>3, <1>4, TypesInvariant, RunsInvariant, DrivenInvariant, IngressExclusion, PTL
  DEF IngressSpec

-----------------------------------------------------------------------------
(* Apologies, and the quiet of a start.                                      *)

Ended == {"closing", "leaving", "done", "lost"}

\* After its apology a handler has only to leave.
ApologyLast == \A d \in Mail : told[d] = "apology" => hand[d] \in Ended

\* No apology is taken back.
ApologyStays == \A d \in Mail : told[d] = "apology" => told'[d] = "apology"

\* While the start-up recovery goes through the sessions of Feishu nothing else runs.
BootQuiet ==
  booting # {} => /\ conf.channel = "feishu"
                  /\ \A r \in Runs : ~UnderWay(r)
                  /\ \A d \in Mail : hand[d] \in Resting

LEMMA MoveApology ==
  ASSUME TypeInv, ApologyLast, NEW d \in Mail, NEW to, NEW what, Goes(d, to),
         UNCHANGED told \/ (Tell(d, what) /\ hand[d] \notin Ended),
         what = "apology" => to \in Ended,
         hand[d] \in Ended => to \in Ended
  PROVE  ApologyLast' /\ ApologyStays
<1>1. /\ \A e \in Mail : e # d => hand'[e] = hand[e] /\ told'[e] = told[e]
      /\ hand'[d] = to
      /\ told'[d] = told[d] \/ (told'[d] = what /\ hand[d] \notin Ended)
  BY DEF Goes, Tell, TypeInv, IngressTypes
<1> QED
  BY <1>1 DEF ApologyLast, ApologyStays

LEMMA ApologyNext ==
  ASSUME TypeInv, ApologyLast, [IngressNext]_allVars
  PROVE  ApologyLast' /\ ApologyStays
<1> DEFINE Kept == ApologyLast' /\ ApologyStays
<1>1. ASSUME NEW d \in Mail, NEW to, Goes(d, to), UNCHANGED told,
             hand[d] \in Ended => to \in Ended
      PROVE  Kept
  BY <1>1, MoveApology
<1>2. ASSUME NEW d \in Mail, NEW to, Goes(d, to), hand[d] \notin Ended,
             NEW what, UNCHANGED told \/ Tell(d, what), what = "apology" => to \in Ended
      PROVE  Kept
  BY <1>2, MoveApology
<1>3. ASSUME UNCHANGED <<hand, told>> PROVE Kept
  BY <1>3 DEF ApologyLast, ApologyStays
<1> HIDE DEF Kept
<1>4. ASSUME NEW d \in Mail, HandlerStep(d) PROVE Kept
  <2>1. CASE Intercept(d)
    BY <1>2, <2>1 DEF Intercept, Ended
  <2>2. CASE TryLock(d) \/ Announce(d) \/ WaitLock(d) \/ NoLock(d) \/ Take(d)
    BY <1>1, <2>2 DEF TryLock, Announce, WaitLock, NoLock, ForAgent, Take, Ended
  <2>3. CASE TurnAway(d)
    BY <1>2, <2>3 DEF TurnAway, Ended
  <2>4. CASE CannotLoad(d)
    BY <1>2, <2>4 DEF CannotLoad, Ended
  <2>5. CASE WriteOverheard(d)
    <3>1. PICK to \in {"closing", "asking"} : Goes(d, to)
      BY <2>5, WriteSettles
    <3>2. PICK what \in {"error", "command"} : UNCHANGED told \/ Tell(d, what)
      BY <2>5, WriteSettles
    <3>3. hand[d] \notin Ended /\ what # "apology"
      BY <2>5, WriteSettles DEF Ended
    <3> QED
      BY <1>2, <3>1, <3>2, <3>3
  <2>6. CASE Direct(d)
    <3>1. PICK to \in {"closing", "asking"} : Goes(d, to)
      BY <2>6 DEF Direct, Weigh
    <3>2. PICK what \in {"error", "command"} : UNCHANGED told \/ Tell(d, what)
      BY <2>6 DEF Direct, Weigh
    <3>3. hand[d] \notin Ended /\ what # "apology"
      BY <2>6 DEF Direct, Ended
    <3> QED
      BY <1>2, <3>1, <3>2, <3>3
  <2>7. CASE Ask(d)
    BY <1>3, <2>7 DEF Ask, ingressVars
  <2>8. CASE Reply(d)
    <3>1. PICK what \in {"reply", "error"} : Tell(d, what)
      BY <2>8 DEF Reply
    <3>2. Goes(d, "closing") /\ hand[d] \notin Ended /\ what # "apology"
      BY <2>8 DEF Reply, Ended
    <3> QED
      BY <1>2, <3>1, <3>2
  <2>9. CASE Close(d) \/ Unlock(d)
    BY <1>1, <2>9 DEF Close, Unlock, Ended
  <2> QED
    BY <1>4, <2>1, <2>2, <2>3, <2>4, <2>5, <2>6, <2>7, <2>8, <2>9 DEF HandlerStep
<1>5. ASSUME NEW d \in Mail, Receive(d) PROVE Kept
  BY <1>1, <1>5 DEF Receive, Ended
<1>6. ASSUME NEW d \in Mail, Panic(d) PROVE Kept
  BY <1>2, <1>6 DEF Panic, Ended
<1>7. ASSUME NEW r \in Runs, RunStep(r) PROVE Kept
  BY <1>3, <1>7 DEF RunStep, ingressVars
<1>8. ASSUME NEW t \in Scheduled, Task(t) \/ TimeOut(t) PROVE Kept
  BY <1>3, <1>8 DEF Task, TimeOut, ingressVars
<1>9. ASSUME NEW p \in Procs, Restart(p) PROVE Kept
  BY <1>9 DEF Kept, Restart, ApologyLast, ApologyStays, Resting, Ended
<1>10. ASSUME NEW m \in Messages, Forgotten(m) PROVE Kept
  BY <1>3, <1>10 DEF Forgotten
<1>11. ASSUME NEW s \in Sessions, Recover(s) PROVE Kept
  BY <1>3, <1>11 DEF Recover
<1>12. ASSUME UNCHANGED allVars PROVE Kept
  BY <1>3, <1>12 DEF allVars, ingressVars, vars
<1>13. Kept
  BY <1>4, <1>5, <1>6, <1>7, <1>8, <1>9, <1>10, <1>11, <1>12 DEF IngressNext
<1> QED
  BY <1>13 DEF Kept

\* Who rests takes no step.
LEMMA RestingWait ==
  ASSUME NEW d \in Mail, HandlerStep(d) \/ Panic(d)
  PROVE  hand[d] \notin Resting
BY DEF HandlerStep, Intercept, TryLock, Announce, TurnAway, WaitLock, NoLock, ForAgent, Take,
       CannotLoad, WriteOverheard, Direct, Ask, Reply, Close, Unlock, Panic, Resting

LEMMA BootNext ==
  ASSUME TypeInv, BootQuiet, [IngressNext]_allVars
  PROVE  BootQuiet'
<1>0. Mail \subseteq Runs /\ Scheduled \subseteq Runs
  BY SessionAssumption DEF Mail
<1>1. ASSUME NEW p \in Procs, Restart(p) PROVE BootQuiet'
  <2>1. \A r \in Runs : ~UnderWay(r)'
    BY <1>1, CrashMoves DEF TypeInv, UnderWay
  <2> QED
    BY <1>1, <2>1 DEF Restart, BootQuiet, Resting
<1>2. ASSUME UNCHANGED <<conf, phase, hand>>, booting' \subseteq booting PROVE BootQuiet'
  BY <1>2 DEF BootQuiet, UnderWay
<1>3. ASSUME booting = {}, booting' = booting PROVE BootQuiet'
  BY <1>3 DEF BootQuiet
<1>4. ASSUME NEW d \in Mail, HandlerStep(d) \/ Panic(d) PROVE BootQuiet'
  <2>1. booting = {}
    BY <1>4, RestingWait DEF BootQuiet
  <2>2. booting' = booting
    BY <1>4 DEF HandlerStep, Intercept, TryLock, Announce, TurnAway, WaitLock, NoLock, Take,
                CannotLoad, WriteOverheard, Direct, Ask, Reply, Close, Unlock, Panic,
                ingressVars
  <2> QED
    BY <1>3, <2>1, <2>2
<1>5. ASSUME NEW d \in Mail, Receive(d) PROVE BootQuiet'
  BY <1>3, <1>5 DEF Receive
<1>6. ASSUME NEW r \in Runs, RunStep(r) \/ (r \in Scheduled /\ (TimeOut(r) \/ Task(r)))
      PROVE  BootQuiet'
  <2>1. booting = {}
    BY <1>6, RunIsUnderWay DEF BootQuiet, Task
  <2>2. booting' = booting
    BY <1>6 DEF RunStep, TimeOut, Task, ingressVars
  <2> QED
    BY <1>3, <2>1, <2>2
<1>7. ASSUME NEW m \in Messages, Forgotten(m) PROVE BootQuiet'
  BY <1>2, <1>7 DEF Forgotten, vars
<1>8. ASSUME NEW s \in Sessions, Recover(s) PROVE BootQuiet'
  BY <1>2, <1>8 DEF Recover
<1>9. CASE UNCHANGED allVars
  BY <1>2, <1>9 DEF allVars, ingressVars, vars
<1> QED
  BY <1>0, <1>1, <1>4, <1>5, <1>6, <1>7, <1>8, <1>9 DEF IngressNext

-----------------------------------------------------------------------------
(* What a conversation must be like for the start-up recovery.               *)

\* At most one notice says that the question of a run was interrupted, and it comes
\* after the question.
NoticedOnce(t) ==
  /\ \A i, j \in DOMAIN t : t[i].kind = "notice" /\ t[i] = t[j] => i = j
  /\ \A i, j \in DOMAIN t : /\ t[i].kind = "user" /\ t[j].kind = "notice"
                            /\ t[i].run = t[j].run
                            => i < j

\* An answer that follows a question at once is the answer to that question.
Answered(t) ==
  \A i \in DOMAIN t : /\ i + 1 \in DOMAIN t /\ t[i].kind = "user" /\ t[i + 1].kind = "answer"
                      => t[i].run = t[i + 1].run

Sane(t, s) == NoticedOnce(t) /\ Answered(t) /\ AtHome(t, s)

\* A run that has not asked, and one that only compacts, has left no trace.
Silenced(q) ==
  \/ phase[q] \in Unasked
  \/ phase[q] \in {"compact", "summarising"} /\ purpose[q] = "manual"
  \/ phase[q] \in {"ending", "returned"} /\ outcome[q] = "compacted"

NoTrace(t, q) == \A i \in DOMAIN t : t[i].kind \in {"user", "notice"} => t[i].run # q

\* The last turn, while q waits for its answer.
MineAtLast(t, q) ==
  t # <<>> => /\ t[Len(t)].kind # "answer"
              /\ t[Len(t)].kind = "user" => t[Len(t)].run = q

Traces(q, t) ==
  /\ Silenced(q) => NoTrace(t, q)
  /\ Talking(q) => MineAtLast(t, q)

\* The conversations, and what compactions have read of them.
RecordsSane ==
  /\ \A s \in Sessions : Sane(transcript[s], s)
  /\ \A q \in Runs : Traces(q, Conversation(q))
  /\ \A r \in Runs : phase[r] = "summarising" =>
       /\ Sane(view[r], SessionOf[r])
       /\ \A q \in Runs : SessionOf[q] = SessionOf[r] => Traces(q, view[r])

LEMMA PartSane ==
  ASSUME NEW t, NEW u, NEW s, Part(u, t)
  PROVE  /\ Sane(t, s) => Sane(u, s)
         /\ \A q : NoTrace(t, q) => NoTrace(u, q)
<1>1. PICK n \in Nat : \A i \in DOMAIN u : i \in Nat /\ n + i \in DOMAIN t /\ u[i] = t[n + i]
  BY DEF Part
<1>2. \A i, j \in DOMAIN u : (n + i < n + j => i < j) /\ (n + i = n + j => i = j)
  BY <1>1
<1>3. NoticedOnce(t) => NoticedOnce(u)
  BY <1>1, <1>2 DEF NoticedOnce
<1>4. ASSUME Answered(t) PROVE Answered(u)
  <2> SUFFICES ASSUME NEW i \in DOMAIN u, i + 1 \in DOMAIN u, u[i].kind = "user",
                      u[i + 1].kind = "answer"
               PROVE  u[i].run = u[i + 1].run
    BY DEF Answered
  <2>1. i \in Nat /\ n + (i + 1) = (n + i) + 1
    BY <1>1
  <2>2. (n + i) \in DOMAIN t /\ (n + i) + 1 \in DOMAIN t
        /\ u[i] = t[n + i] /\ u[i + 1] = t[(n + i) + 1]
    BY <1>1, <2>1
  <2> QED
    BY <1>4, <2>2 DEF Answered
<1>5. AtHome(t, s) => AtHome(u, s)
  BY <1>1 DEF AtHome
<1>6. \A q : NoTrace(t, q) => NoTrace(u, q)
  BY <1>1 DEF NoTrace
<1> QED
  BY <1>3, <1>4, <1>5, <1>6 DEF Sane

\* One more turn: a question that has left no trace, an answer to the last question, a
\* first notice, or anything else.
LEMMA AppendSane ==
  ASSUME NEW t \in Seq(Turns), NEW x \in Turns, NEW s, Sane(t, s),
         x.kind = "user" => SessionOf[x.run] = s /\ NoTrace(t, x.run),
         x.kind = "answer" => MineAtLast(t, x.run),
         x.kind = "notice" => \A i \in DOMAIN t : t[i].kind = "notice" => t[i].run # x.run
  PROVE  Sane(Append(t, x), s)
<1> DEFINE u == Append(t, x)
<1>1. /\ Len(t) \in Nat /\ u[Len(t) + 1] = x
      /\ \A i \in DOMAIN t : u[i] = t[i]
      /\ DOMAIN u = DOMAIN t \cup {Len(t) + 1} /\ DOMAIN t = 1..Len(t)
  BY TailOfAppend
<1> HIDE DEF u
<1>2. \A i \in DOMAIN t : i < Len(t) + 1
  BY <1>1
<1>3. NoticedOnce(u)
  <2>1. ASSUME NEW i \in DOMAIN u, NEW j \in DOMAIN u, u[i].kind = "notice", u[i] = u[j]
        PROVE  i = j
    <3>1. CASE i \in DOMAIN t /\ j \in DOMAIN t
      BY <1>1, <2>1, <3>1 DEF Sane, NoticedOnce
    <3>2. CASE i \in DOMAIN t /\ j = Len(t) + 1
      BY <1>1, <2>1, <3>2
    <3>3. CASE i = Len(t) + 1 /\ j \in DOMAIN t
      BY <1>1, <2>1, <3>3
    <3> QED
      BY <1>1, <3>1, <3>2, <3>3
  <2>2. ASSUME NEW i \in DOMAIN u, NEW j \in DOMAIN u, u[i].kind = "user",
               u[j].kind = "notice", u[i].run = u[j].run
        PROVE  i < j
    <3>1. CASE i \in DOMAIN t /\ j \in DOMAIN t
      BY <1>1, <2>2, <3>1 DEF Sane, NoticedOnce
    <3>2. CASE i \in DOMAIN t /\ j = Len(t) + 1
      BY <1>2, <3>2
    <3>3. CASE i = Len(t) + 1 /\ j \in DOMAIN t
      BY <1>1, <2>2, <3>3 DEF NoTrace
    <3> QED
      BY <1>1, <2>2, <3>1, <3>2, <3>3
  <2> QED
    BY <2>1, <2>2 DEF NoticedOnce
<1>4. Answered(u)
  <2> SUFFICES ASSUME NEW i \in DOMAIN u, i + 1 \in DOMAIN u, u[i].kind = "user",
                      u[i + 1].kind = "answer"
               PROVE  u[i].run = u[i + 1].run
    BY DEF Answered
  <2>1. i \in DOMAIN t /\ (i + 1 \in DOMAIN t \/ (i = Len(t) /\ t # <<>>))
    BY <1>1
  <2>2. CASE i + 1 \in DOMAIN t
    BY <1>1, <2>1, <2>2 DEF Sane, Answered
  <2>3. CASE i = Len(t) /\ t # <<>> /\ i + 1 \notin DOMAIN t
    <3>1. u[i + 1] = x /\ u[i] = t[Len(t)]
      BY <1>1, <2>1, <2>3
    <3> QED
      BY <2>3, <3>1 DEF MineAtLast
  <2> QED
    BY <2>1, <2>2, <2>3
<1>5. AtHome(u, s)
  BY <1>1 DEF Sane, AtHome
<1> QED
  BY <1>3, <1>4, <1>5 DEF Sane, u

LEMMA AppendTraces ==
  ASSUME NEW t \in Seq(Turns), NEW x \in Turns, NEW q
  PROVE  /\ NoTrace(t, q) /\ (x.kind \in {"user", "notice"} => x.run # q)
              => NoTrace(Append(t, x), q)
         /\ x.kind # "answer" /\ (x.kind = "user" => x.run = q) => MineAtLast(Append(t, x), q)
<1> DEFINE u == Append(t, x)
<1>1. /\ Len(t) \in Nat /\ u[Len(t) + 1] = x /\ Len(u) = Len(t) + 1
      /\ \A i \in DOMAIN t : u[i] = t[i]
      /\ DOMAIN u = DOMAIN t \cup {Len(t) + 1} /\ DOMAIN t = 1..Len(t)
  BY TailOfAppend
<1> HIDE DEF u
<1>2. NoTrace(t, q) /\ (x.kind \in {"user", "notice"} => x.run # q) => NoTrace(u, q)
  BY <1>1 DEF NoTrace
<1>3. x.kind # "answer" /\ (x.kind = "user" => x.run = q) => MineAtLast(u, q)
  BY <1>1 DEF MineAtLast
<1> QED
  BY <1>2, <1>3 DEF u

-----------------------------------------------------------------------------
(* What a step asks of the traces.                                           *)

\* After a step q asks no more of a conversation than before.
Hushed(q) ==
  /\ Silenced(q)' => Silenced(q)
  /\ Talking(q)' => Talking(q)

\* The step asks of the conversation u only what it has.
Marks(q, u) ==
  /\ Silenced(q)' => NoTrace(u, q)
  /\ Talking(q)' => MineAtLast(u, q)

LEMMA StepOutcome ==
  ASSUME TypeOK, NEW r \in Runs, StepOf(r)
  PROVE  \A q \in Runs \ {r} : outcome'[q] = outcome[q]
<1> USE DEF TypeOK
<1>1. CASE Drop(r)
  BY <1>1 DEF Drop
<1>2. CASE Arrive(r)
  BY <1>2 DEF Arrive
<1>3. CASE Enter(r)
  BY <1>3 DEF Enter, Acquire, NoSession, CompactCommand, DomainBoundary, Unlimited, Reserve,
              Refuse, PersistRefusal, ExpandFails, PersistUser, Fail, End
<1>4. CASE Work(r)
  BY <1>4 DEF Work, SkipCompact, BeginCompact, EndCompact, Prepare, RunFails, Overflow,
              RunAnswers, PersistAnswer, Return, AfterCompact, Fail, End
<1>5. CASE SettleTurn(r)
  BY <1>5 DEF SettleTurn, Leave, Deliver, Withdraw, InspectTail, AppendFailure, OtherText,
              OnlyPhase
<1> QED
  BY <1>1, <1>2, <1>3, <1>4, <1>5 DEF StepOf

\* Nobody becomes silent again.
LEMMA StepSilenced ==
  ASSUME TypeOK, Manual, NEW r \in Runs, StepOf(r), Silenced(r)'
  PROVE  Silenced(r)
<1> USE DEF TypeOK, Silenced, Unasked, Manual
<1>1. CASE Drop(r)
  BY <1>1 DEF Drop
<1>2. CASE Arrive(r)
  BY <1>2 DEF Arrive
<1>3. CASE Fail(r)
  BY <1>3 DEF Fail, End
<1>4. CASE Enter(r) /\ ~Fail(r)
  BY <1>4 DEF Enter, Acquire, NoSession, CompactCommand, DomainBoundary, Unlimited, Reserve,
              Refuse, PersistRefusal, ExpandFails, PersistUser, End
<1>5. CASE SkipCompact(r) \/ BeginCompact(r) \/ EndCompact(r)
  BY <1>5 DEF SkipCompact, BeginCompact, EndCompact, AfterCompact, End
<1>6. CASE Prepare(r) \/ Overflow(r) \/ RunAnswers(r) \/ PersistAnswer(r) \/ Return(r)
  BY <1>6 DEF Prepare, Overflow, RunAnswers, PersistAnswer, Return, End
<1>7. CASE SettleTurn(r)
  BY <1>7 DEF SettleTurn, Leave, Deliver, Withdraw, InspectTail, AppendFailure, OtherText,
              OnlyPhase
<1> QED
  BY <1>1, <1>2, <1>3, <1>4, <1>5, <1>6, <1>7 DEF StepOf, Work, RunFails

LEMMA HushedOthers ==
  ASSUME TypeOK, Manual, NEW r \in Runs, StepOf(r), NEW q \in Runs
  PROVE  /\ q # r => Hushed(q) /\ (Talking(q)' <=> Talking(q))
         /\ Eases(r) => Hushed(q)
<1>1. Shapes(r)
  BY StepShape
<1>2. CASE q = r
  BY <1>2, StepSilenced DEF Hushed, Eases
<1>3. CASE q # r
  <2>1. phase'[q] = phase[q] /\ purpose'[q] = purpose[q] /\ outcome'[q] = outcome[q]
    BY <1>1, <1>3, StepOutcome DEF Shapes, Apart
  <2> QED
    BY <1>3, <2>1 DEF Hushed, Silenced, Talking
<1> QED
  BY <1>2, <1>3

LEMMA HushedMarks ==
  ASSUME NEW q, NEW t, Traces(q, t), Hushed(q)
  PROVE  Marks(q, t)
BY DEF Traces, Hushed, Marks

LEMMA SaneFromWritten ==
  ASSUME TypeOK, RecordsSane, NEW s \in Sessions, NEW u, Sane(u, s),
         transcript' = [transcript EXCEPT ![s] = u],
         \A q \in Runs : IF SessionOf[q] = s THEN Marks(q, u) ELSE Hushed(q),
         \A p \in Runs : phase'[p] = "summarising" =>
           /\ phase[p] = "summarising" /\ view'[p] = view[p]
           /\ \A q \in Runs : SessionOf[q] = SessionOf[p] => Hushed(q)
  PROVE  RecordsSane'
<1>1. transcript'[s] = u /\ \A x \in Sessions : x # s => transcript'[x] = transcript[x]
  BY DEF TypeOK
<1>2. \A x \in Sessions : Sane(transcript'[x], x)
  BY <1>1 DEF RecordsSane
<1>3. \A x \in Sessions : Sane(transcript[x], x)'
  BY <1>2 DEF Sane, NoticedOnce, Answered, AtHome
<1>4. ASSUME NEW q \in Runs PROVE Traces(q, Conversation(q))'
  <2>1. SessionOf[q] \in Sessions
    BY SessionAssumption
  <2>2. Marks(q, transcript'[SessionOf[q]])
    <3>1. CASE SessionOf[q] = s
      BY <1>1, <3>1
    <3>2. CASE SessionOf[q] # s
      <4>1. Traces(q, transcript[SessionOf[q]])
        BY DEF RecordsSane, Conversation
      <4> QED
        BY <1>1, <2>1, <3>2, <4>1, HushedMarks
    <3> QED
      BY <3>1, <3>2
  <2> QED
    BY <2>2 DEF Marks, Traces, Conversation, NoTrace, MineAtLast
<1>5. ASSUME NEW p \in Runs, phase'[p] = "summarising"
      PROVE  /\ Sane(view[p], SessionOf[p])'
             /\ \A q \in Runs : SessionOf[q] = SessionOf[p] => Traces(q, view[p])'
  <2>1. /\ Sane(view'[p], SessionOf[p])
        /\ \A q \in Runs : SessionOf[q] = SessionOf[p] => Marks(q, view'[p])
    BY <1>5, HushedMarks DEF RecordsSane
  <2>2. Sane(view[p], SessionOf[p])'
    BY <2>1 DEF Sane, NoticedOnce, Answered, AtHome
  <2> QED
    BY <2>1, <2>2 DEF Marks, Traces, NoTrace, MineAtLast
<1> QED
  BY <1>3, <1>4, <1>5 DEF RecordsSane

\* What the step of r writes, and how that suits the runs of its session.
LEMMA WroteSane ==
  ASSUME TypeOK, Manual, SessionMutex, RecordsSane, NEW r \in Runs, StepOf(r), NEW u,
         transcript' = [transcript EXCEPT ![SessionOf[r]] = u], ~UNCHANGED transcript
  PROVE  /\ Sane(u, SessionOf[r])
         /\ \A q \in Runs : SessionOf[q] = SessionOf[r] => Marks(q, u)
<1> DEFINE s == SessionOf[r]
           t == transcript[s]
<1>0. /\ s \in Sessions /\ t \in Seq(Turns) /\ Conversation(r) = t
      /\ transcript'[s] = u /\ view[r] \in Seq(Turns)
      /\ transcript = [transcript EXCEPT ![s] = t]
  BY SessionAssumption DEF TypeOK, Conversation
<1>1. Sane(t, s) /\ \A q \in Runs : SessionOf[q] = s => Traces(q, t)
  BY <1>0 DEF RecordsSane, Conversation
<1>2. Shapes(r) /\ ~Silent(r)
  BY StepShape DEF Silent
<1>3. ASSUME NEW q \in Runs \ {r}, SessionOf[q] = s, phase[r] \in Inside
      PROVE  ~Talking(q)'
  BY <1>3, Alone, OneProcessServes, HushedOthers
<1>4. ASSUME NEW k \in Spoke, Say(r, k)
      PROVE  /\ u = Append(t, Turn(k, r)) /\ Turn(k, r) \in Turns
             /\ Turn(k, r).run = r /\ Turn(k, r).kind = k
  <2>1. transcript'[s] = Append(t, Turn(k, r))
    BY <1>0, <1>4 DEF Say, TypeOK
  <2> QED
    BY <1>0, <2>1 DEF Turn, Turns, Kinds, Spoke, Regrets, Speech
<1> HIDE DEF t
<1>5. ASSUME NEW k \in Spoke, Say(r, k),
             k = "user" => NoTrace(t, r), k = "answer" => MineAtLast(t, r)
      PROVE  /\ Sane(u, s)
             /\ \A q \in Runs : SessionOf[q] = s /\ NoTrace(t, q) /\ (k = "user" => q # r)
                  => NoTrace(u, q)
             /\ \A q \in Runs : k # "answer" /\ (k = "user" => q = r) => MineAtLast(u, q)
  <2> DEFINE x == Turn(k, r)
  <2>1. u = Append(t, x) /\ x \in Turns /\ x.run = r /\ x.kind = k
    BY <1>4, <1>5
  <2>2. k # "notice"
    BY DEF Spoke, Regrets, Speech
  <2> HIDE DEF x
  <2>3. Sane(u, s)
    BY <1>0, <1>1, <1>5, <2>1, <2>2, AppendSane
  <2> QED
    BY <1>0, <2>1, <2>2, <2>3, AppendTraces
<1>6. CASE Notes(r)
  <2>1. PICK k \in Regrets : Say(r, k)
    BY <1>6 DEF Notes
  <2>2. k \in Spoke /\ k # "user" /\ k # "answer"
    BY DEF Spoke, Regrets
  <2>3. \A q \in Runs : Hushed(q)
    BY <1>6, HushedOthers DEF Notes
  <2> QED
    BY <1>1, <1>5, <2>1, <2>2, <2>3 DEF Marks, Hushed, Traces
<1>7. CASE Questions(r)
  <2>1. "user" \in Spoke /\ Say(r, "user") /\ phase[r] \in Unasked \cap Inside
    BY <1>7 DEF Questions, Spoke, Speech
  <2>2. NoTrace(t, r)
    BY <1>1, <2>1 DEF Traces, Silenced
  <2>3. ~Silenced(r)'
    BY <1>7 DEF Questions, Silenced, Talking, Unasked
  <2>4. ASSUME NEW q \in Runs, SessionOf[q] = s, q # r PROVE Marks(q, u)
    <3>1. ~Talking(q)' /\ Hushed(q)
      BY <1>3, <2>1, <2>4, HushedOthers
    <3> QED
      BY <1>1, <1>5, <2>1, <2>2, <2>4, <3>1 DEF Marks, Hushed, Traces
  <2>5. Marks(r, u)
    BY <1>5, <2>1, <2>2, <2>3 DEF Marks
  <2> QED
    BY <1>5, <2>1, <2>2, <2>4, <2>5
<1>8. CASE Concludes(r)
  <2>1. "answer" \in Spoke /\ Say(r, "answer") /\ phase[r] \in Inside
    BY <1>8 DEF Concludes, Spoke, Speech, Inside
  <2>2. MineAtLast(t, r)
    BY <1>1, <1>8 DEF Concludes, Traces, Talking
  <2>3. ~Talking(r)' /\ (Silenced(r)' => Silenced(r))
    BY <1>8, StepSilenced DEF Concludes, Talking
  <2>4. \A q \in Runs : SessionOf[q] = s => ~Talking(q)' /\ Hushed(q)
    BY <1>3, <2>1, <2>3, HushedOthers DEF Hushed
  <2> QED
    BY <1>1, <1>5, <2>1, <2>2, <2>4 DEF Marks, Hushed, Traces
<1>9. CASE Retracts(r)
  <2>1. EndsWith(s, Turn("answer", r))
    BY <1>0, <1>9 DEF Retracts, Withdraw, t
  <2>2. t # <<>> /\ u = ButLast(t) /\ t[Len(t)].kind = "answer"
    <3>1. t # <<>> /\ t[Len(t)] = Turn("answer", r)
      BY <2>1 DEF EndsWith, LastTurn, t
    <3>2. u = ButLast(t)
      BY <1>0, <1>9, <2>1 DEF Retracts, Withdraw, t, TypeOK
    <3> QED
      BY <3>1, <3>2 DEF Turn
  <2>3. Part(u, t)
    BY <1>0, <2>2, ButLastPart
  <2>4. \A q \in Runs : SessionOf[q] = s => ~Talking(q)
    BY <1>1, <2>2 DEF Traces, MineAtLast
  <2>5. \A q \in Runs : Hushed(q)
    BY <1>9, HushedOthers DEF Retracts
  <2> QED
    BY <1>1, <2>3, <2>4, <2>5, PartSane DEF Marks, Hushed, Traces
<1>10. CASE Rewrites(r)
  <2>1. u = Recent(view[r]) /\ phase[r] = "summarising" /\ Eases(r)
    BY <1>0, <1>10 DEF Rewrites, TypeOK
  <2>2. /\ Part(u, view[r])
        /\ u # <<>> => view[r] # <<>> /\ u[Len(u)] = view[r][Len(view[r])]
    BY <1>0, <2>1, RecentPart
  <2>3. /\ Sane(view[r], s)
        /\ \A q \in Runs : SessionOf[q] = s => Traces(q, view[r])
    BY <2>1 DEF RecordsSane
  <2>4. \A q \in Runs : Hushed(q)
    BY <2>1, HushedOthers
  <2>5. \A q \in Runs : MineAtLast(view[r], q) => MineAtLast(u, q)
    BY <2>2 DEF MineAtLast
  <2>6. \A q \in Runs : NoTrace(view[r], q) => NoTrace(u, q)
    BY <2>2, PartSane
  <2> QED
    BY <2>2, <2>3, <2>4, <2>5, <2>6, PartSane DEF Marks, Hushed, Traces
<1> QED
  BY <1>2, <1>6, <1>7, <1>8, <1>9, <1>10 DEF Shapes

\* Beside a compaction no run of its session starts to ask or to talk.
LEMMA HushedBeside ==
  ASSUME TypeOK, Manual, SessionMutex, NEW r \in Runs, StepOf(r), NEW p \in Runs, p # r,
         phase[p] = "summarising", NEW q \in Runs, SessionOf[q] = SessionOf[p]
  PROVE  Hushed(q)
<1>1. CASE q # r
  BY <1>1, HushedOthers
<1>2. CASE q = r
  <2>1. phase[r] \notin Inside
    BY <1>2, Alone, OneProcessServes DEF Inside
  <2>2. Eases(r)
    BY <2>1, StepShape
    DEF Shapes, Silent, Notes, Questions, Concludes, Retracts, Rewrites, Inside
  <2> QED
    BY <1>2, <2>2, HushedOthers
<1> QED
  BY <1>1, <1>2

LEMMA StepSane ==
  ASSUME TypeOK, Manual, SessionMutex, RecordsSane, NEW r \in Runs, StepOf(r)
  PROVE  RecordsSane'
<1> DEFINE s == SessionOf[r]
<1>0. s \in Sessions /\ Shapes(r)
  BY StepShape, SessionAssumption
<1>1. ASSUME NEW p \in Runs, p # r, phase'[p] = "summarising"
      PROVE  /\ phase[p] = "summarising" /\ view'[p] = view[p]
             /\ \A q \in Runs : SessionOf[q] = SessionOf[p] => Hushed(q)
  <2>1. phase[p] = "summarising" /\ view'[p] = view[p]
    BY <1>0, <1>1 DEF Shapes, Apart
  <2> QED
    BY <1>1, <2>1, HushedBeside
<1>2. CASE ~UNCHANGED transcript
  <2>1. PICK u : transcript' = [transcript EXCEPT ![s] = u]
    BY <1>0, <1>2, ShapesWrite
  <2>2. /\ Sane(u, s) /\ \A q \in Runs : SessionOf[q] = s => Marks(q, u)
    BY <1>2, <2>1, WroteSane
  <2>3. \A q \in Runs : SessionOf[q] # s => Hushed(q)
    BY HushedOthers
  <2>4. phase'[r] # "summarising"
    BY <1>0, <1>2 DEF Shapes, Apart
  <2> QED
    BY <1>0, <1>1, <2>1, <2>2, <2>3, <2>4, SaneFromWritten
<1>3. CASE UNCHANGED transcript
  <2>1. \A q \in Runs : Marks(q, Conversation(q))
    <3>1. CASE Eases(r)
      BY <3>1, HushedOthers, HushedMarks DEF RecordsSane
    <3>2. CASE ~Eases(r)
      <4>1. Questions(r) \/ Concludes(r)
        BY <1>0, <3>2 DEF Shapes, Silent, Notes, Retracts, Rewrites
      <4>2. PICK k \in Kinds : Say(r, k)
        BY <4>1 DEF Questions, Concludes, Kinds
      <4>3. transcript'[s] = Append(transcript[s], Turn(k, r))
        BY <1>0, <4>2 DEF Say, TypeOK
      <4>4. transcript[s] \in Seq(Turns) /\ Turn(k, r) \in Turns
        BY <1>0 DEF TypeOK, Turn, Turns
      <4>5. Len(Append(transcript[s], Turn(k, r))) # Len(transcript[s])
        BY <4>4
      <4> QED
        BY <1>3, <4>3, <4>5
    <3> QED
      BY <3>1, <3>2
  <2>2. \A x \in Sessions : Sane(transcript[x], x)'
    BY <1>3 DEF RecordsSane, Sane, NoticedOnce, Answered, AtHome
  <2>3. \A q \in Runs : Traces(q, Conversation(q))'
    BY <1>3, <2>1 DEF Traces, Marks, Conversation, NoTrace, MineAtLast
  <2>4. ASSUME NEW p \in Runs, phase'[p] = "summarising"
        PROVE  /\ Sane(view[p], SessionOf[p])'
               /\ \A q \in Runs : SessionOf[q] = SessionOf[p] => Traces(q, view[p])'
    <3>1. /\ Sane(view'[p], SessionOf[p])
          /\ \A q \in Runs : SessionOf[q] = SessionOf[p] => Marks(q, view'[p])
      <4>1. CASE p # r
        BY <1>1, <2>4, <4>1, HushedMarks DEF RecordsSane
      <4>2. CASE p = r
        <5>1. view'[r] = transcript[s]
          BY <1>0, <2>4, <4>2 DEF Shapes, Apart, Conversation
        <5> QED
          BY <1>0, <2>1, <4>2, <5>1 DEF Conversation, RecordsSane
      <4> QED
        BY <4>1, <4>2
    <3>2. Sane(view[p], SessionOf[p])'
      BY <3>1 DEF Sane, NoticedOnce, Answered, AtHome
    <3> QED
      BY <3>1, <3>2 DEF Marks, Traces, NoTrace, MineAtLast
  <2> QED
    BY <2>2, <2>3, <2>4 DEF RecordsSane
<1> QED
  BY <1>2, <1>3

LEMMA WriteSane ==
  ASSUME TypeInv, RecordsSane, NEW d \in Mail, WriteOverheard(d)
  PROVE  RecordsSane'
<1> DEFINE s == SessionOf[d]
           t == transcript[s]
<1>0. TypeOK /\ IngressTypes /\ s \in Sessions /\ t \in Seq(Turns)
  BY Basics DEF TypeInv, TypeOK
<1>1. PICK new \in Seq(Mail) : \E n \in 0..Len(new) : Written(d, new, n)
  BY <1>0, WriteFacts
<1>2. PICK n \in 0..Len(new) : Written(d, new, n)
  BY <1>1
<1>3. UNCHANGED <<phase, view, purpose, outcome>>
  BY WriteSettles
<1> DEFINE u == t \o Overheards(new, n)
<1>4. /\ u \in Seq(Turns) /\ Len(u) = Len(t) + n /\ Len(t) \in Nat
      /\ DOMAIN t = 1..Len(t) /\ DOMAIN u = 1..(Len(t) + n)
      /\ \A i \in 1..Len(t) : u[i] = t[i]
      /\ \A i \in DOMAIN u : i \notin 1..Len(t) =>
           /\ i - Len(t) \in DOMAIN new
           /\ u[i] = Turn("overheard", new[i - Len(t)])
  BY <1>0, OverheardsFacts
<1>5. /\ Sane(t, s)
      /\ \A q \in Runs : SessionOf[q] = s => Traces(q, t)
  BY <1>0 DEF RecordsSane, Conversation
<1>6. transcript' = [transcript EXCEPT ![s] = u]
  BY <1>2 DEF Written
<1> HIDE DEF u, t
<1>7. \A i \in DOMAIN u : u[i].kind \in {"user", "answer", "notice"} => i \in DOMAIN t
  BY <1>4 DEF Turn
<1>8. \A i \in DOMAIN t : u[i] = t[i] /\ (i + 1 \in DOMAIN t => i \in DOMAIN t)
  BY <1>4
<1>9. NoticedOnce(u)
  BY <1>5, <1>7, <1>8 DEF Sane, NoticedOnce
<1>10. Answered(u)
  BY <1>5, <1>7, <1>8 DEF Sane, Answered
<1>11. AtHome(u, s)
  BY <1>5, <1>7, <1>8 DEF Sane, AtHome
<1>12. ASSUME NEW q, NoTrace(t, q) PROVE NoTrace(u, q)
  BY <1>7, <1>8, <1>12 DEF NoTrace
<1>13. ASSUME NEW q, MineAtLast(t, q) PROVE MineAtLast(u, q)
  <2>1. CASE n = 0
    <3>1. Len(u) = Len(t) /\ (u # <<>> => Len(t) \in DOMAIN t)
      <4>1. Len(u) = Len(t)
        BY <1>4, <2>1
      <4>2. u # <<>> => Len(u) \in 1..Len(u)
        BY <1>4
      <4> QED
        BY <1>4, <4>1, <4>2
    <3>2. u # <<>> => t # <<>> /\ u[Len(u)] = t[Len(t)]
      BY <1>8, <3>1
    <3> QED
      BY <1>13, <3>2 DEF MineAtLast
  <2>2. CASE n # 0
    <3>1. Len(u) \in DOMAIN u /\ Len(u) \notin 1..Len(t)
      BY <1>4, <2>2
    <3>2. u[Len(u)].kind = "overheard"
      BY <1>4, <3>1 DEF Turn
    <3> QED
      BY <3>2 DEF MineAtLast
  <2> QED
    BY <2>1, <2>2
<1>14. \A q \in Runs : Hushed(q)
  BY <1>3 DEF Hushed, Silenced, Talking
<1>15. ASSUME NEW q \in Runs, SessionOf[q] = s PROVE Marks(q, u)
  BY <1>5, <1>12, <1>13, <1>14, <1>15 DEF Marks, Hushed, Traces
<1> QED
  BY <1>0, <1>3, <1>6, <1>9, <1>10, <1>11, <1>14, <1>15, SaneFromWritten DEF Sane

\* The notice is the first one: it would follow the question, which is the last turn.
LEMMA RecoverSane ==
  ASSUME TypeInv, RecordsSane, NEW s \in Sessions, Recover(s)
  PROVE  RecordsSane'
<1> DEFINE t == transcript[s]
<1>1. UNCHANGED <<phase, view, purpose, outcome>>
  BY DEF Recover
<1>2. \A q \in Runs : Hushed(q)
  BY <1>1 DEF Hushed, Silenced, Talking
<1>3. CASE UNCHANGED transcript
  BY <1>1, <1>3 DEF RecordsSane, Sane, NoticedOnce, Answered, AtHome, Traces, Silenced, Talking,
                    NoTrace, MineAtLast, Conversation
<1>4. CASE ~UNCHANGED transcript
  <2> DEFINE x == Turn("notice", LastTurn(s).run)
  <2>1. /\ t # <<>> /\ LastTurn(s).kind = "user" /\ LastTurn(s) = t[Len(t)]
        /\ transcript' = [transcript EXCEPT ![s] = Append(t, x)]
    BY <1>4 DEF Recover, Interrupted, LastTurn
  <2>2. t \in Seq(Turns) /\ LastTurn(s) \in Turns
    BY <2>1 DEF TypeInv, TypeOK, LastTurn
  <2>3. x \in Turns /\ x.kind = "notice" /\ x.run = t[Len(t)].run
    BY <2>1, <2>2 DEF Turn, Turns, Kinds
  <2>4. /\ Sane(t, s)
        /\ \A q \in Runs : SessionOf[q] = s => Traces(q, t)
    BY DEF RecordsSane, Conversation
  <2>5. TypeOK
    BY DEF TypeInv
  <2>6. t[Len(t)].kind = "user"
    BY <2>1
  <2> HIDE DEF x, t
  <2>7. Len(t) \in DOMAIN t /\ \A i \in DOMAIN t : ~(Len(t) < i)
    BY <2>1, <2>2
  <2>8. ASSUME NEW i \in DOMAIN t, t[i].kind = "notice", t[i].run = x.run PROVE FALSE
    <3>1. Len(t) < i
      BY <2>3, <2>4, <2>6, <2>7, <2>8 DEF Sane, NoticedOnce
    <3> QED
      BY <2>7, <3>1
  <2>9. Sane(Append(t, x), s)
    BY <2>2, <2>3, <2>4, <2>8, AppendSane
  <2>10. ASSUME NEW q \in Runs, SessionOf[q] = s PROVE Marks(q, Append(t, x))
    <3>1. NoTrace(t, q) => NoTrace(Append(t, x), q)
      <4>1. NoTrace(t, q) => x.run # q
        BY <2>3, <2>6, <2>7 DEF NoTrace
      <4> QED
        BY <2>2, <2>3, <4>1, AppendTraces
    <3>2. MineAtLast(Append(t, x), q)
      <4>1. x.kind # "answer" /\ x.kind # "user"
        BY <2>3
      <4> QED
        BY <2>2, <2>3, <4>1, AppendTraces
    <3> QED
      BY <1>2, <2>4, <2>10, <3>1, <3>2 DEF Marks, Hushed, Traces
  <2> QED
    BY <1>1, <1>2, <2>1, <2>5, <2>9, <2>10, SaneFromWritten
<1> QED
  BY <1>3, <1>4

LEMMA SaneNext ==
  ASSUME TypeInv, RunsInv, RecordsSane, [IngressNext]_allVars
  PROVE  RecordsSane'
<1>1. ASSUME NEW p \in Procs, Restart(p) PROVE RecordsSane'
  <2>1. /\ UNCHANGED <<transcript, purpose, outcome>>
        /\ \A r \in Runs : /\ phase'[r] = phase[r] \/ phase'[r] = "gone"
                           /\ phase'[r] = "summarising" => view'[r] = view[r]
    BY <1>1, CrashMoves DEF TypeInv
  <2>2. \A q \in Runs : Hushed(q)
    BY <2>1 DEF Hushed, Silenced, Talking, Unasked
  <2>3. \A x \in Sessions : Sane(transcript[x], x)'
    BY <2>1 DEF RecordsSane, Sane, NoticedOnce, Answered, AtHome
  <2>4. \A q \in Runs : Traces(q, Conversation(q))'
    BY <2>1, <2>2 DEF RecordsSane, Traces, Hushed, Conversation, NoTrace, MineAtLast
  <2>5. ASSUME NEW p1 \in Runs, phase'[p1] = "summarising"
        PROVE  /\ Sane(view[p1], SessionOf[p1])'
               /\ \A q \in Runs : SessionOf[q] = SessionOf[p1] => Traces(q, view[p1])'
    <3>1. phase[p1] = "summarising" /\ view'[p1] = view[p1]
      BY <2>1, <2>5
    <3> QED
      BY <2>2, <3>1 DEF RecordsSane, Sane, NoticedOnce, Answered, AtHome, Traces, Hushed,
                        NoTrace, MineAtLast
  <2> QED
    BY <2>3, <2>4, <2>5 DEF RecordsSane
<1>2. ASSUME NoRun PROVE RecordsSane'
  BY <1>2 DEF NoRun, RecordsSane, Sane, NoticedOnce, Answered, AtHome, Traces, Silenced, Talking,
              NoTrace, MineAtLast, Conversation
<1>3. TypeOK /\ Manual /\ SessionMutex
  BY DEF TypeInv, RunsInv, LockInv
<1> QED
  BY <1>1, <1>2, <1>3, StepCases, StepSane, WriteSane, RecoverSane

-----------------------------------------------------------------------------
(* The last word of a conversation.                                          *)

\* A restart has cut the run off, or a panic left it with an apology.
CutOff(r) == phase[r] = "gone" \/ told[r] = "apology"

\* The run or its handler has still to write what follows the question.
Open(r) ==
  \/ Talking(r)
  \/ phase[r] = "reporting"
  \/ phase[r] \in {"ending", "returned"} /\ outcome[r] \in {"failed", "refused"}

AskedLast(t, q) == t # <<>> /\ t[Len(t)].kind = "user" /\ t[Len(t)].run = q

LastWord(t)     == \A q \in Mail : AskedLast(t, q) => CutOff(q) \/ Open(q)
LastWordRead(r) == \A q \in Mail : AskedLast(view[r], q) => CutOff(q) \/ q = r

\* On Feishu the question of a message is the last word only while it is at work or when
\* it was cut off; what a compaction has read is no exception.
LastWords ==
  conf.channel = "feishu" =>
    /\ \A s \in Sessions : LastWord(transcript[s])
    /\ \A r \in Runs : phase[r] = "summarising" => LastWordRead(r)

LEMMA CutOffStays ==
  ASSUME TypeInv, ApologyStays, [IngressNext]_allVars
  PROVE  \A r \in Mail : CutOff(r) => CutOff(r)'
<1>0. Mail \subseteq Runs
  BY DEF Mail
<1>1. ASSUME NEW r \in Runs, StepOf(r) PROVE \A q \in Runs : phase[q] = "gone" => phase'[q] = "gone"
  <2>1. UnderWay(r) \/ Arrive(r)
    BY <1>1, StepUnderWay DEF TypeInv
  <2>2. phase[r] # "gone"
    BY <2>1 DEF UnderWay, Arrive
  <2> QED
    BY <1>1, <2>2, StepUnderWay DEF TypeInv
<1>2. ASSUME NEW p \in Procs, Restart(p) PROVE \A q \in Runs : phase[q] = "gone" => phase'[q] = "gone"
  BY <1>2, CrashMoves DEF TypeInv
<1>3. \A q \in Runs : phase[q] = "gone" => phase'[q] = "gone"
  BY <1>1, <1>2, StepCases DEF WriteOverheard, Recover, NoRun
<1> QED
  BY <1>0, <1>3 DEF CutOff, ApologyStays

\* A turn that is said changes the conversation.
LEMMA SayChanges ==
  ASSUME TypeOK, NEW r \in Runs, NEW k \in Kinds, Say(r, k)
  PROVE  ~UNCHANGED transcript
<1> DEFINE s == SessionOf[r]
<1>1. s \in Sessions /\ transcript[s] \in Seq(Turns) /\ Turn(k, r) \in Turns
  BY SessionAssumption DEF TypeOK, Turn, Turns
<1>2. transcript'[s] = Append(transcript[s], Turn(k, r))
  BY <1>1 DEF Say, TypeOK
<1>3. Len(Append(transcript[s], Turn(k, r))) # Len(transcript[s])
  BY <1>1
<1> QED
  BY <1>2, <1>3

\* Who has the last word to write goes on to write it, or panics.
LEMMA OpenStays ==
  ASSUME TypeOK, conf.channel = "feishu", NEW r \in Mail, StepOf(r), Excused(r), Open(r),
         UNCHANGED transcript, AskedLast(Conversation(r), r)
  PROVE  Open(r)' \/ Tell(r, "apology")
<1> USE DEF TypeOK, Open, Talking
<1>0. r \in Runs /\ r \notin Scheduled
  BY DEF Mail
<1>1. CASE Arrive(r)
  BY <1>1 DEF Arrive
<1>2. CASE Enter(r)
  <2>1. CASE PersistRefusal(r)
    BY <1>0, <2>1 DEF PersistRefusal, End
  <2>2. CASE Fail(r)
    BY <1>0, <2>2 DEF Fail, End
  <2>3. CASE ~PersistRefusal(r) /\ ~Fail(r)
    BY <1>2, <2>3 DEF Enter, Acquire, NoSession, CompactCommand, DomainBoundary, Unlimited,
                      Reserve, Refuse, ExpandFails, PersistUser
  <2> QED
    BY <2>1, <2>2, <2>3
<1>3. CASE Work(r)
  <2>1. CASE SkipCompact(r) \/ BeginCompact(r) \/ EndCompact(r)
    BY <1>0, <2>1 DEF SkipCompact, BeginCompact, EndCompact, AfterCompact
  <2>2. CASE Prepare(r) \/ Overflow(r) \/ RunAnswers(r) \/ Return(r)
    BY <1>0, <2>2 DEF Prepare, Overflow, RunAnswers, Return
  <2>3. CASE RunFails(r)
    BY <1>0, <2>3 DEF RunFails, Fail, End
  <2>4. CASE PersistAnswer(r)
    BY <1>0, <2>4, SayChanges DEF PersistAnswer, Kinds
  <2> QED
    BY <1>3, <2>1, <2>2, <2>3, <2>4 DEF Work
<1>4. CASE SettleTurn(r)
  <2>1. CASE InspectTail(r)
    <3>1. LastTurn(SessionOf[r]).kind = "user"
      BY DEF AskedLast, Conversation, LastTurn
    <3>2. FailureKind(r) # "user"
      BY DEF FailureKind
    <3> QED
      BY <1>0, <2>1, <3>1, <3>2 DEF InspectTail, OnlyPhase
  <2>2. CASE OtherText(r)
    BY <1>0, <2>2 DEF OtherText, OnlyPhase
  <2>3. CASE AppendFailure(r)
    <3>1. FailureKind(r) \in Kinds
      BY DEF FailureKind, Kinds
    <3> QED
      BY <1>0, <2>3, <3>1, SayChanges DEF AppendFailure
  <2>4. CASE Deliver(r) /\ outcome[r] \notin {"failed", "refused"}
    BY <2>4 DEF Deliver
  <2> QED
    BY <1>0, <1>4, <2>1, <2>2, <2>3, <2>4 DEF SettleTurn
<1> QED
  BY <1>1, <1>2, <1>3, <1>4 DEF Excused

\* A summary that is asked for is asked for once.
LEMMA SummaryEnds ==
  ASSUME TypeOK, NEW r \in Runs, StepOf(r), phase[r] = "summarising"
  PROVE  phase'[r] # "summarising"
<1>1. CASE EndCompact(r)
  BY <1>1 DEF EndCompact, AfterCompact, End, TypeOK
<1>2. CASE Drop(r)
  BY <1>2 DEF Drop, TypeOK
<1>3. CASE ~EndCompact(r) /\ ~Drop(r)
  BY <1>3 DEF StepOf, Arrive, Enter, Acquire, NoSession, CompactCommand, DomainBoundary,
              Unlimited, Reserve, Refuse, PersistRefusal, ExpandFails, PersistUser, Work,
              SkipCompact, BeginCompact, Prepare, RunFails, Overflow, RunAnswers,
              PersistAnswer, Return, SettleTurn, Leave, Deliver, Withdraw, InspectTail,
              AppendFailure, OtherText
<1> QED
  BY <1>1, <1>2, <1>3

\* When a task withdraws its answer, the last turn before it was its own prompt or no
\* question.
LEMMA RetractsLast ==
  ASSUME TypeOK, RecordsSane, NEW r \in Runs, Retracts(r), ~UNCHANGED transcript,
         NEW q \in Mail, AskedLast(transcript'[SessionOf[r]], q)
  PROVE  FALSE
<1> DEFINE s == SessionOf[r]
           t == transcript[s]
           u == ButLast(t)
<1>0. s \in Sessions /\ t \in Seq(Turns) /\ r \in Scheduled
  BY SessionAssumption DEF TypeOK, Retracts, Withdraw
<1>1. EndsWith(s, Turn("answer", r))
  <2>1. /\ transcript' = [transcript EXCEPT ![s] =
                            IF EndsWith(s, Turn("answer", r)) THEN ButLast(@) ELSE @]
        /\ transcript = [transcript EXCEPT ![s] = @]
    BY <1>0 DEF Retracts, Withdraw, TypeOK
  <2> QED
    BY <2>1
<1>2. t # <<>> /\ t[Len(t)] = Turn("answer", r)
  BY <1>1 DEF EndsWith, LastTurn
<1>3. transcript'[s] = u
  BY <1>0, <1>1 DEF Retracts, Withdraw, TypeOK
<1>4. Answered(t)
  BY <1>0 DEF RecordsSane, Sane
<1> HIDE DEF t, s
<1>5. /\ Len(u) = Len(t) - 1 /\ Len(u) \in Nat /\ DOMAIN t = 1..Len(t)
      /\ \A i \in 1..Len(u) : u[i] = t[i]
  <2>1. Len(t) \in Nat /\ Len(t) > 0 /\ DOMAIN t = 1..Len(t)
    BY <1>0, <1>2
  <2>2. /\ Len(u) = IF 1 <= Len(t) - 1 THEN Len(t) - 1 - 1 + 1 ELSE 0
        /\ \A i \in 1..(Len(t) - 1 - 1 + 1) : u[i] = t[1 + i - 1]
    BY <1>0, <2>1, SubSeqProperties DEF ButLast
  <2>3. Len(u) = Len(t) - 1 /\ 1..(Len(t) - 1 - 1 + 1) = 1..Len(u)
    <3>1. Len(t) - 1 - 1 + 1 = Len(t) - 1 /\ (~(1 <= Len(t) - 1) => Len(t) - 1 = 0)
      BY <2>1
    <3>2. Len(u) = Len(t) - 1
      BY <2>2, <3>1
    <3> QED
      BY <3>1, <3>2
  <2>4. \A i \in 1..Len(u) : 1 + i - 1 = i
    BY <2>1, <2>3
  <2>5. \A i \in 1..Len(u) : u[i] = t[i]
    BY <2>2, <2>3, <2>4
  <2> QED
    BY <2>1, <2>3, <2>5
<1> HIDE DEF u
<1>6. u # <<>> /\ u[Len(u)].kind = "user" /\ u[Len(u)].run = q
  BY <1>3 DEF AskedLast, s
<1>7. u \in Seq(Turns)
  BY <1>0, <1>2 DEF u, ButLast
<1>8. Len(u) \in 1..Len(u) /\ Len(u) \in DOMAIN t /\ Len(u) + 1 = Len(t) /\ Len(t) \in DOMAIN t
  BY <1>0, <1>2, <1>5, <1>6, <1>7
<1>9. t[Len(u)].kind = "user" /\ t[Len(u)].run = q /\ t[Len(u) + 1] = Turn("answer", r)
  BY <1>2, <1>5, <1>6, <1>8
<1>10. t[Len(u)].run = t[Len(u) + 1].run
  BY <1>4, <1>8, <1>9 DEF Answered, Turn
<1> QED
  BY <1>0, <1>9, <1>10 DEF Turn, Mail

\* How a compaction that writes goes on.
LEMMA RewriteMoves ==
  ASSUME TypeOK, NEW r \in Runs, StepOf(r), phase[r] = "summarising", ~UNCHANGED transcript,
         purpose[r] # "manual"
  PROVE  phase'[r] = "ready"
<1>1. CASE EndCompact(r)
  BY <1>1 DEF EndCompact, AfterCompact, TypeOK
<1>2. CASE ~EndCompact(r)
  BY <1>2 DEF StepOf, Arrive, Enter, Acquire, NoSession, CompactCommand, DomainBoundary,
              Unlimited, Reserve, Refuse, PersistRefusal, ExpandFails, PersistUser, Work,
              SkipCompact, BeginCompact, Prepare, RunFails, Overflow, RunAnswers,
              PersistAnswer, Return, SettleTurn, Leave, Deliver, Withdraw, InspectTail,
              AppendFailure, OtherText, Drop
<1> QED
  BY <1>1, <1>2

\* What is said last is the last turn.
LEMMA SaidLast ==
  ASSUME TypeOK, NEW r \in Runs, NEW k \in Kinds, Say(r, k),
         NEW q, AskedLast(transcript'[SessionOf[r]], q)
  PROVE  k = "user" /\ q = r
<1> DEFINE t == transcript[SessionOf[r]]
           u == Append(t, Turn(k, r))
<1>1. SessionOf[r] \in Sessions /\ t \in Seq(Turns) /\ Turn(k, r) \in Turns
  BY SessionAssumption DEF TypeOK, Turn, Turns
<1>2. transcript'[SessionOf[r]] = u
  BY <1>1 DEF Say, TypeOK
<1>3. u[Len(u)] = Turn(k, r)
  BY <1>1
<1> HIDE DEF u
<1> QED
  BY <1>2, <1>3 DEF AskedLast, Turn

\* What the handlers of the runs of one session allow.
LastBase == TypeInv /\ RunsInv /\ Driven /\ IngressExcludes /\ RecordsSane /\ LastWords

\* Who starts to summarise asked the question it reads last.
LEMMA CopiesOwn ==
  ASSUME LastBase, conf.channel = "feishu", NEW r \in Runs, StepOf(r), UNCHANGED transcript,
         phase'[r] = "summarising", phase[r] # "summarising",
         NEW q \in Mail, AskedLast(Conversation(r), q), Open(q)
  PROVE  q = r
<1>0. TypeOK /\ Manual /\ q \in Runs /\ r \in Runs
  BY DEF LastBase, TypeInv, RunsInv, Mail
<1>1. Shapes(r)
  BY <1>0, StepShape
<1>2. SessionOf[r] \in Sessions /\ SessionOf[q] = SessionOf[r]
  <2>1. SessionOf[r] \in Sessions /\ Conversation(r) \in Seq(Turns)
    BY <1>0, SessionAssumption DEF TypeOK, Conversation
  <2>2. AtHome(Conversation(r), SessionOf[r])
    BY <2>1 DEF LastBase, RecordsSane, Sane, Conversation
  <2>3. Len(Conversation(r)) \in DOMAIN Conversation(r)
    BY <2>1 DEF AskedLast
  <2> QED
    BY <2>1, <2>2, <2>3 DEF AtHome, AskedLast
<1>3. UnderWay(q) /\ UnderWay(r)
  <2>1. UnderWay(q)
    BY DEF Open, Talking, UnderWay
  <2>2. ~Arrive(r)
    BY <1>0 DEF Arrive, TypeOK
  <2> QED
    BY <1>0, <2>1, <2>2, StepUnderWay
<1>4. CASE r \in Mail
  <2>1. hand[q] = "asking" /\ hand[r] = "asking"
    BY <1>0, <1>3, <1>4 DEF LastBase, Driven
  <2>2. LocksIn(q) /\ LocksIn(r)
    BY DEF LocksIn, TriesLock
  <2> QED
    BY <1>2, <1>4, <2>1, <2>2 DEF LastBase, IngressExcludes, Owning
<1>5. CASE r \notin Mail
  <2>1. r \in Scheduled
    BY <1>5 DEF Mail
  <2>2. purpose'[r] # "manual"
    BY <1>0, <2>1, StepPurpose DEF LastBase, RunsInv
  <2>3. Talking(r)'
    BY <2>2 DEF Talking
  <2>4. Eases(r)
    BY <1>1 DEF Shapes, Silent, Notes, Questions, Concludes, Retracts, Rewrites
  <2>5. MineAtLast(Conversation(r), r)
    BY <2>3, <2>4 DEF Eases, LastBase, RecordsSane, Traces
  <2> QED
    BY <2>5 DEF MineAtLast, AskedLast
<1> QED
  BY <1>4, <1>5

LEMMA StepLast ==
  ASSUME LastBase, conf' = conf, NEW r \in Runs, StepOf(r), Excused(r),
         \A q \in Mail : CutOff(q) => CutOff(q)'
  PROVE  LastWords'
<1> DEFINE Due(q) == CutOff(q) \/ Open(q)
           s == SessionOf[r]
<1>0. /\ TypeInv /\ TypeOK /\ Manual /\ Mail \subseteq Runs /\ s \in Sessions /\ Shapes(r)
      /\ Apart(r)
  BY StepShape, SessionAssumption DEF LastBase, TypeInv, RunsInv, Mail, Shapes
<1> SUFFICES ASSUME conf.channel = "feishu"
             PROVE  /\ \A x \in Sessions : \A q \in Mail :
                         AskedLast(transcript'[x], q) => CutOff(q)' \/ Open(q)'
                    /\ \A p \in Runs : phase'[p] = "summarising" =>
                         \A q \in Mail : AskedLast(view'[p], q) => CutOff(q)' \/ q = p
  BY DEF LastWords, LastWord, LastWordRead, AskedLast
<1>1. /\ \A x \in Sessions : \A q \in Mail : AskedLast(transcript[x], q) => Due(q)
      /\ \A p \in Runs : phase[p] = "summarising" =>
           \A q \in Mail : AskedLast(view[p], q) => CutOff(q) \/ q = p
  BY DEF LastBase, LastWords, LastWord, LastWordRead
<1>2. \A q \in Mail : q # r /\ Open(q) => Open(q)'
  BY <1>0, StepOutcome DEF Apart, Open, Talking
<1>3. ASSUME NEW x \in Sessions, NEW q \in Mail, AskedLast(transcript[x], q)
      PROVE  SessionOf[q] = x
  <2>1. transcript[x] \in Seq(Turns) /\ AtHome(transcript[x], x)
    BY <1>0 DEF TypeOK, LastBase, RecordsSane, Sane
  <2>2. Len(transcript[x]) \in DOMAIN transcript[x]
    BY <1>3, <2>1 DEF AskedLast
  <2> QED
    BY <1>3, <2>1, <2>2 DEF AskedLast, AtHome
<1>4. ASSUME NEW p \in Runs, phase'[p] = "summarising", phase[p] = "summarising",
             view'[p] = view[p], NEW q \in Mail, AskedLast(view'[p], q)
      PROVE  CutOff(q)' \/ q = p
  BY <1>1, <1>4
<1>5. CASE UNCHANGED transcript
  <2>1. ASSUME NEW x \in Sessions, NEW q \in Mail, AskedLast(transcript[x], q)
        PROVE  CutOff(q)' \/ Open(q)'
    <3>1. CASE q # r
      BY <1>1, <1>2, <2>1, <3>1
    <3>2. CASE q = r
      <4>1. AskedLast(Conversation(r), r)
        BY <1>3, <2>1, <3>2 DEF Conversation
      <4>2. Open(r) => Open(r)' \/ Tell(r, "apology")
        BY <1>0, <1>5, <3>2, <4>1, OpenStays
      <4>3. Tell(r, "apology") => CutOff(r)'
        BY <1>0, <3>2 DEF Tell, CutOff, TypeInv, IngressTypes
      <4> QED
        BY <1>1, <2>1, <3>2, <4>2, <4>3
    <3> QED
      BY <3>1, <3>2
  <2>2. ASSUME NEW p \in Runs, phase'[p] = "summarising", NEW q \in Mail, AskedLast(view'[p], q)
        PROVE  CutOff(q)' \/ q = p
    <3>1. CASE p # r \/ phase[r] = "summarising"
      <4>1. CASE p # r
        BY <1>0, <1>4, <2>2, <4>1 DEF Apart
      <4>2. CASE p = r /\ phase[r] = "summarising"
        BY <1>0, <2>2, <4>2, SummaryEnds
      <4> QED
        BY <3>1, <4>1, <4>2
    <3>2. CASE p = r /\ phase[r] # "summarising"
      <4>1. AskedLast(Conversation(r), q)
        BY <1>0, <2>2, <3>2 DEF Apart
      <4>2. Due(q)
        BY <1>0, <1>1, <4>1 DEF Conversation
      <4> QED
        BY <1>5, <2>2, <3>2, <4>1, <4>2, CopiesOwn
    <3> QED
      BY <3>1, <3>2
  <2> QED
    BY <1>5, <2>1, <2>2
<1>6. CASE ~UNCHANGED transcript
  <2>1. \A p \in Runs : phase'[p] = "summarising" => phase[p] = "summarising" /\ view'[p] = view[p]
    BY <1>0, <1>6, CopiesOfOthers
  <2>2. PICK u : transcript' = [transcript EXCEPT ![s] = u]
    BY <1>0, <1>6, ShapesWrite
  <2>3. transcript'[s] = u /\ \A x \in Sessions : x # s => transcript'[x] = transcript[x]
    BY <1>0, <2>2 DEF TypeOK
  <2>4. ASSUME NEW x \in Sessions, x # s, NEW q \in Mail, AskedLast(transcript'[x], q)
        PROVE  CutOff(q)' \/ Open(q)'
    <3>1. AskedLast(transcript[x], q) /\ q # r
      BY <1>3, <2>3, <2>4
    <3> QED
      BY <1>1, <1>2, <3>1
  <2>5. ASSUME NEW q \in Mail, AskedLast(u, q) PROVE CutOff(q)' \/ Open(q)'
    <3>1. CASE Notes(r) \/ Concludes(r)
      <4>1. PICK k \in Kinds : Say(r, k) /\ k # "user"
        BY <3>1 DEF Notes, Concludes, Regrets, Kinds
      <4> QED
        BY <1>0, <2>3, <2>5, <4>1, SaidLast
    <3>2. CASE Questions(r)
      <4>1. q = r
        BY <1>0, <2>3, <2>5, <3>2, SaidLast DEF Questions, Kinds
      <4> QED
        BY <3>2, <4>1 DEF Questions, Open
    <3>3. CASE Retracts(r)
      <4>1. AskedLast(transcript'[s], q) /\ RecordsSane
        BY <2>3, <2>5 DEF LastBase
      <4> QED
        BY <1>0, <1>6, <3>3, <4>1, RetractsLast
    <3>4. CASE Rewrites(r)
      <4>1. u = Recent(view[r]) /\ phase[r] = "summarising"
        BY <1>0, <2>3, <3>4 DEF Rewrites, TypeOK
      <4>2. view[r] \in Seq(Turns)
        BY <1>0 DEF TypeOK
      <4>3. AskedLast(view[r], q)
        BY <2>5, <4>1, <4>2, RecentPart DEF AskedLast
      <4>4. CASE CutOff(q)
        BY <4>4
      <4>5. CASE q = r
        <5>1. Traces(r, view[r])
          BY <4>1 DEF LastBase, RecordsSane
        <5>2. Len(view[r]) \in DOMAIN view[r]
          BY <4>2, <4>3 DEF AskedLast
        <5>3. ~NoTrace(view[r], r)
          BY <4>3, <4>5, <5>2 DEF NoTrace, AskedLast
        <5>4. purpose[r] # "manual"
          BY <4>1, <5>1, <5>3 DEF Traces, Silenced
        <5>5. phase'[r] = "ready"
          BY <1>0, <1>6, <4>1, <5>4, RewriteMoves
        <5> QED
          BY <4>5, <5>5 DEF Open, Talking
      <4> QED
        BY <1>1, <4>1, <4>3, <4>4, <4>5
    <3> QED
      BY <1>0, <1>6, <3>1, <3>2, <3>3, <3>4 DEF Shapes, Silent
  <2> QED
    BY <1>4, <2>1, <2>3, <2>4, <2>5
<1> QED
  BY <1>5, <1>6

LEMMA WriteLast ==
  ASSUME TypeInv, LastWords, NEW d \in Mail, WriteOverheard(d),
         \A q \in Mail : CutOff(q) => CutOff(q)'
  PROVE  LastWords'
<1> DEFINE s == SessionOf[d]
           t == transcript[s]
<1>0. TypeOK /\ IngressTypes /\ s \in Sessions /\ t \in Seq(Turns)
  BY Basics DEF TypeInv, TypeOK
<1>1. PICK new \in Seq(Mail) : \E n \in 0..Len(new) : Written(d, new, n)
  BY <1>0, WriteFacts
<1>2. PICK n \in 0..Len(new) : Written(d, new, n)
  BY <1>1
<1>3. UNCHANGED <<phase, view, purpose, outcome, conf>>
  BY WriteSettles
<1> DEFINE u == t \o Overheards(new, n)
<1>4. /\ u \in Seq(Turns) /\ Len(u) = Len(t) + n /\ Len(t) \in Nat
      /\ DOMAIN t = 1..Len(t) /\ DOMAIN u = 1..(Len(t) + n)
      /\ \A i \in 1..Len(t) : u[i] = t[i]
      /\ \A i \in DOMAIN u : i \notin 1..Len(t) =>
           /\ i - Len(t) \in DOMAIN new
           /\ u[i] = Turn("overheard", new[i - Len(t)])
  BY <1>0, OverheardsFacts
<1>5. transcript' = [transcript EXCEPT ![s] = u]
  BY <1>2 DEF Written
<1>6. transcript'[s] = u /\ \A x \in Sessions : x # s => transcript'[x] = transcript[x]
  BY <1>0, <1>5 DEF TypeOK
<1> HIDE DEF u, t
<1>7. ASSUME NEW q, AskedLast(u, q) PROVE AskedLast(t, q)
  <2>1. Len(u) \in DOMAIN u
    BY <1>4, <1>7 DEF AskedLast
  <2>2. Len(u) \in 1..Len(t)
    BY <1>4, <1>7, <2>1 DEF AskedLast, Turn
  <2>3. Len(u) = Len(t) /\ Len(t) # 0
    <3>1. Len(u) = Len(t) + n /\ Len(t) \in Nat /\ n \in Nat
      BY <1>4
    <3>2. Len(u) <= Len(t) /\ 1 <= Len(t)
      BY <2>2, <3>1
    <3> QED
      BY <3>1, <3>2
  <2>4. u[Len(u)] = t[Len(t)] /\ t # <<>>
    BY <1>0, <1>4, <2>2, <2>3
  <2> QED
    BY <1>7, <2>4 DEF AskedLast
<1>8. \A x \in Sessions : \A q : AskedLast(transcript'[x], q) => AskedLast(transcript[x], q)
  BY <1>6, <1>7 DEF t
<1>9. \A q : Open(q)' <=> Open(q)
  BY <1>3 DEF Open, Talking
<1>10. ASSUME conf.channel = "feishu"
       PROVE  /\ \A x \in Sessions : \A q \in Mail :
                   AskedLast(transcript'[x], q) => CutOff(q)' \/ Open(q)'
              /\ \A r \in Runs : phase'[r] = "summarising" =>
                   \A q \in Mail : AskedLast(view'[r], q) => CutOff(q)' \/ q = r
  BY <1>3, <1>8, <1>9, <1>10 DEF LastWords, LastWord, LastWordRead
<1> QED
  BY <1>3, <1>10 DEF LastWords, LastWord, LastWordRead, AskedLast

LEMMA RecoverLast ==
  ASSUME TypeInv, LastWords, NEW s \in Sessions, Recover(s),
         \A q \in Mail : CutOff(q) => CutOff(q)'
  PROVE  LastWords'
<1> DEFINE t == transcript[s]
<1>1. UNCHANGED <<phase, view, purpose, outcome, conf>>
  BY DEF Recover
<1>2. ASSUME NEW x \in Sessions, NEW q, AskedLast(transcript'[x], q)
      PROVE  AskedLast(transcript[x], q)
  <2>1. CASE UNCHANGED transcript
    BY <1>2, <2>1
  <2>2. CASE ~UNCHANGED transcript
    <3> DEFINE y == Turn("notice", LastTurn(s).run)
    <3>1. t # <<>> /\ transcript' = [transcript EXCEPT ![s] = Append(t, y)]
      BY <2>2 DEF Recover, Interrupted
    <3>2. t \in Seq(Turns) /\ LastTurn(s) \in Turns
      BY <3>1 DEF TypeInv, TypeOK, LastTurn
    <3>3. y \in Turns /\ y.kind = "notice"
      BY <3>2 DEF Turn, Turns, Kinds
    <3>4. /\ transcript'[s] = Append(t, y)
          /\ x # s => transcript'[x] = transcript[x]
      BY <3>1 DEF TypeInv, TypeOK
    <3> HIDE DEF y, t
    <3>5. Append(t, y)[Len(Append(t, y))] = y
      BY <3>2, <3>3
    <3> QED
      BY <1>2, <3>3, <3>4, <3>5 DEF AskedLast
  <2> QED
    BY <2>1, <2>2
<1>3. \A q : Open(q)' <=> Open(q)
  BY <1>1 DEF Open, Talking
<1>4. ASSUME conf.channel = "feishu"
      PROVE  /\ \A x \in Sessions : \A q \in Mail :
                  AskedLast(transcript'[x], q) => CutOff(q)' \/ Open(q)'
             /\ \A r \in Runs : phase'[r] = "summarising" =>
                  \A q \in Mail : AskedLast(view'[r], q) => CutOff(q)' \/ q = r
  BY <1>1, <1>2, <1>3, <1>4 DEF LastWords, LastWord, LastWordRead
<1> QED
  BY <1>1, <1>4 DEF LastWords, LastWord, LastWordRead, AskedLast

LEMMA LastNext ==
  ASSUME LastBase, ApologyStays, [IngressNext]_allVars
  PROVE  LastWords'
<1>0. TypeInv /\ TypeOK /\ RunsInv /\ LastWords
  BY DEF LastBase, TypeInv
<1>1. \A q \in Mail : CutOff(q) => CutOff(q)'
  BY <1>0, CutOffStays
<1>2. conf' = conf
  BY StepCases
<1>3. ASSUME NEW p \in Procs, Restart(p) PROVE LastWords'
  <2>1. /\ UNCHANGED transcript
        /\ \A r \in Runs : phase'[r] = IF UnderWay(r) THEN "gone" ELSE phase[r]
    BY <1>0, <1>3, CrashMoves
  <2>2. \A q \in Mail : Open(q) => CutOff(q)'
    BY <2>1 DEF Open, Talking, UnderWay, CutOff, Mail
  <2>3. \A r \in Runs : phase'[r] # "summarising"
    BY <2>1 DEF UnderWay
  <2>4. ASSUME conf.channel = "feishu"
        PROVE  \A x \in Sessions : \A q \in Mail : AskedLast(transcript'[x], q) => CutOff(q)'
    BY <1>0, <1>1, <2>1, <2>2, <2>4 DEF LastWords, LastWord
  <2> QED
    BY <1>2, <2>3, <2>4 DEF LastWords, LastWord, AskedLast
<1>4. ASSUME NoRun PROVE LastWords'
  <2>1. \A q : Open(q)' <=> Open(q)
    BY <1>4 DEF NoRun, Open, Talking
  <2>2. ASSUME conf.channel = "feishu"
        PROVE  /\ \A x \in Sessions : \A q \in Mail :
                    AskedLast(transcript'[x], q) => CutOff(q)' \/ Open(q)'
               /\ \A r \in Runs : phase'[r] = "summarising" =>
                    \A q \in Mail : AskedLast(view'[r], q) => CutOff(q)' \/ q = r
    BY <1>0, <1>1, <1>4, <2>1, <2>2 DEF NoRun, LastWords, LastWord, LastWordRead
  <2> QED
    BY <1>2, <2>2 DEF LastWords, LastWord, LastWordRead, AskedLast
<1>5. ASSUME NEW r \in Runs, StepOf(r), Excused(r) PROVE LastWords'
  BY <1>1, <1>2, <1>5, StepLast
<1>6. ASSUME NEW d \in Mail, WriteOverheard(d) PROVE LastWords'
  BY <1>0, <1>1, <1>6, WriteLast
<1>7. ASSUME NEW s \in Sessions, Recover(s) PROVE LastWords'
  BY <1>0, <1>1, <1>7, RecoverLast
<1> QED
  BY <1>3, <1>4, <1>5, <1>6, <1>7, StepCases

-----------------------------------------------------------------------------
(* Who is told of an interruption.                                           *)

NoticedCut == \A r \in noticed \cap Mail : CutOff(r)

DueInv == LastWords /\ ApologyLast /\ BootQuiet /\ RecordsSane /\ NoticedCut

LEMMA OnlyRecoverNotices ==
  ASSUME [IngressNext]_allVars, \A s \in Sessions : ~Recover(s)
  PROVE  noticed' = noticed
<1>1. ASSUME NEW d \in Mail, Receive(d) \/ HandlerStep(d) \/ Panic(d) PROVE noticed' = noticed
  BY <1>1 DEF Receive, HandlerStep, Intercept, TryLock, Announce, TurnAway, WaitLock, NoLock,
              Take, CannotLoad, WriteOverheard, Direct, Ask, Reply, Close, Unlock, Panic,
              ingressVars
<1>2. ASSUME NEW r \in Runs, RunStep(r) PROVE noticed' = noticed
  BY <1>2 DEF RunStep, ingressVars
<1>3. ASSUME NEW t \in Scheduled, Task(t) \/ TimeOut(t) PROVE noticed' = noticed
  BY <1>3 DEF Task, TimeOut, ingressVars
<1>4. ASSUME NEW m \in Messages, Forgotten(m) PROVE noticed' = noticed
  BY <1>4 DEF Forgotten
<1>5. ASSUME NEW p \in Procs, Restart(p) PROVE noticed' = noticed
  BY <1>5 DEF Restart
<1>6. CASE UNCHANGED allVars
  BY <1>6 DEF allVars, ingressVars, vars
<1> QED
  BY <1>1, <1>2, <1>3, <1>4, <1>5, <1>6 DEF IngressNext

LEMMA DueNext ==
  ASSUME TypeInv, RunsInv, Driven, IngressExcludes, DueInv, [IngressNext]_allVars
  PROVE  DueInv'
<1>1. ApologyLast' /\ ApologyStays /\ BootQuiet' /\ RecordsSane'
  BY ApologyNext, BootNext, SaneNext DEF DueInv
<1>2. LastWords'
  BY <1>1, LastNext DEF DueInv, LastBase
<1>3. \A q \in Mail : CutOff(q) => CutOff(q)'
  BY <1>1, CutOffStays
<1>4. NoticedCut'
  <2>1. ASSUME NEW s \in Sessions, Recover(s), NEW q \in Mail, q \in noticed', q \notin noticed
        PROVE  CutOff(q)
    <3>1. s \in booting /\ Interrupted(s) /\ q = LastTurn(s).run
      BY <2>1 DEF Recover
    <3>2. AskedLast(transcript[s], q)
      BY <3>1 DEF Interrupted, LastTurn, AskedLast
    <3>3. conf.channel = "feishu" /\ ~UnderWay(q)
      BY <3>1 DEF DueInv, BootQuiet, Mail
    <3>4. CutOff(q) \/ Open(q)
      BY <3>2, <3>3 DEF DueInv, LastWords, LastWord
    <3> QED
      BY <3>3, <3>4 DEF Open, Talking, UnderWay
  <2>2. \A q \in Mail : q \in noticed' => CutOff(q)
    BY <2>1, OnlyRecoverNotices DEF DueInv, NoticedCut
  <2> QED
    BY <1>3, <2>2 DEF NoticedCut
<1> QED
  BY <1>1, <1>2, <1>4 DEF DueInv

LEMMA DueInit == IngressInit => DueInv
BY SessionAssumption
DEF IngressInit, Init, DueInv, LastWords, LastWord, AskedLast, ApologyLast, BootQuiet,
    RecordsSane, Sane, NoticedOnce, Answered, AtHome, Traces, NoTrace, MineAtLast, Talking,
    Conversation, NoticedCut

LEMMA DueInvariant == IngressSpec => []DueInv
BY DueInit, DueNext, TypesInvariant, RunsInvariant, DrivenInvariant, IngressExclusion, PTL
DEF IngressSpec

\* After a restart the sender of a message is told of an interruption only if the restart
\* cut it off or a panic left it with an apology, and nobody is told twice
\* (recover_interrupted_sessions of the Feishu process).
THEOREM NoticesAreDue == IngressSpec => []NoticeIsDue
<1>1. DueInv => NoticeIsDue
  BY DEF DueInv, NoticedCut, CutOff, RecordsSane, Sane, NoticedOnce, NoticeIsDue
<1> QED
  BY <1>1, DueInvariant, PTL
=============================================================================
