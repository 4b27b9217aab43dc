------------------------- MODULE TransferQueue_proofs -------------------------
(***************************************************************************)
(* Proofs about TransferQueue: for every set of transfers and every limit, *)
(* an item is listed once, no more transfers between two sides are at work *)
(* than the limit says as long as none was paused and resumed, and every   *)
(* place that the control has reserved is used by a start under way.       *)
(***************************************************************************)
EXTENDS TransferQueue, FiniteSetTheorems, SequenceTheorems,
        WellFoundedInduction, TLAPS

(* The items whose component was mounted.  None of them is added again.    *)
Begun == {t \in Transfers : stage[t] # "new"}

(* What works and is listed is shown as inited.                            *)
Known ==
  /\ inited \subseteq Listed
  /\ \A t \in Listed : stage[t] \notin {"new", "idle"} => t \in inited

(* A start under way is of an item that was mounted, and for an item of    *)
(* both sides the control counts it.                                       *)
Reserved ==
  /\ pendingInit \subseteq Begun
  /\ \A t \in Transfers : PlaceIsUsed(t) => t \in Begun
  /\ \A t \in Cross \cap Listed : PlaceIsUsed(t) => t \in pendingInit \cup inited
  /\ \A t \in StillPending : PlaceIsUsed(t)

(* What the control counts is within the limit, unless something resumed.  *)
Counted == ~resumed => Cardinality(Active) <= MaxTransport

PlaceInv == TypeOK /\ Known /\ Reserved /\ Counted

USE TransfersAssumption, CrossAssumption, NoneAssumption, LimitAssumption

-----------------------------------------------------------------------------
(* Sequences without repetition.                                           *)

LEMMA SeqFacts ==
  ASSUME NEW S, NEW s \in Seq(S)
  PROVE  /\ Len(s) \in Nat /\ DOMAIN s = 1 .. Len(s)
         /\ Range(s) \subseteq S
         /\ \A i \in DOMAIN s : s[i] \in S /\ s[i] \in Range(s)
         /\ \A e \in Range(s) : \E i \in DOMAIN s : s[i] = e
BY LenProperties DEF Range

LEMMA OneElement ==
  ASSUME NEW S, NEW e \in S
  PROVE  <<e>> \in Seq(S) /\ Range(<<e>>) = {e} /\ Distinct(<<e>>)
<1>1. <<e>> \in Seq(S) /\ DOMAIN <<e>> = {1} /\ <<e>>[1] = e
  OBVIOUS
<1> QED BY <1>1 DEF Range, Distinct

LEMMA Joined ==
  ASSUME NEW S, NEW s \in Seq(S), NEW u \in Seq(S)
  PROVE  /\ s \o u \in Seq(S) /\ Range(s \o u) = Range(s) \cup Range(u)
         /\ Distinct(s) /\ Distinct(u) /\ Range(s) \cap Range(u) = {}
            => Distinct(s \o u)
<1>1. s \o u \in Seq(S) /\ Range(s \o u) = Range(s) \cup Range(u)
  BY ConcatProperties, RangeConcatenation
<1>2. ASSUME Distinct(s), Distinct(u), Range(s) \cap Range(u) = {}
      PROVE  Distinct(s \o u)
  <2> DEFINE w == s \o u
  <2>1. /\ DOMAIN w = 1 .. Len(s) + Len(u)
        /\ \A i \in DOMAIN w : w[i] = IF i <= Len(s) THEN s[i] ELSE u[i - Len(s)]
    BY <1>1, ConcatProperties, SeqFacts
  <2>2. /\ Len(s) \in Nat /\ DOMAIN s = 1 .. Len(s)
        /\ Len(u) \in Nat /\ DOMAIN u = 1 .. Len(u)
        /\ \A i \in DOMAIN s : s[i] \in Range(s)
        /\ \A i \in DOMAIN u : u[i] \in Range(u)
    BY SeqFacts
  <2> HIDE DEF w
  <2>3. SUFFICES ASSUME NEW i \in DOMAIN w, NEW j \in DOMAIN w, i # j
                 PROVE  w[i] # w[j]
    BY DEF Distinct, w
  <2>4. CASE i <= Len(s) /\ j <= Len(s)
    <3>1. i \in DOMAIN s /\ j \in DOMAIN s
      BY <2>1, <2>2, <2>4
    <3>2. s[i] # s[j] /\ w[i] = s[i] /\ w[j] = s[j]
      BY <1>2, <2>1, <2>3, <2>4, <3>1 DEF Distinct
    <3> QED BY <3>2
  <2>5. CASE ~(i <= Len(s)) /\ ~(j <= Len(s))
    <3>1. i - Len(s) \in DOMAIN u /\ j - Len(s) \in DOMAIN u /\ i - Len(s) # j - Len(s)
      BY <2>1, <2>2, <2>5, <2>3
    <3> QED BY <1>2, <2>1, <2>5, <3>1 DEF Distinct
  <2>6. CASE i <= Len(s) /\ ~(j <= Len(s))
    <3>1. i \in DOMAIN s /\ j - Len(s) \in DOMAIN u
      BY <2>1, <2>2, <2>6
    <3> QED BY <1>2, <2>1, <2>2, <2>6, <3>1
  <2>7. CASE ~(i <= Len(s)) /\ j <= Len(s)
    <3>1. j \in DOMAIN s /\ i - Len(s) \in DOMAIN u
      BY <2>1, <2>2, <2>7
    <3> QED BY <1>2, <2>1, <2>2, <2>7, <3>1
  <2> QED BY <2>4, <2>5, <2>6, <2>7
<1> QED BY <1>1, <1>2

LEMMA Part ==
  ASSUME NEW S, NEW s \in Seq(S), NEW m \in Nat, NEW n \in Int,
         1 <= m, n <= Len(s)
  PROVE  /\ SubSeq(s, m, n) \in Seq(S)
         /\ Range(SubSeq(s, m, n)) = {s[i] : i \in m .. n}
         /\ Distinct(s) => Distinct(SubSeq(s, m, n))
         /\ Len(SubSeq(s, m, n)) = IF m <= n THEN n - m + 1 ELSE 0
<1>1. /\ Len(s) \in Nat /\ DOMAIN s = 1 .. Len(s)
      /\ \A i \in DOMAIN s : s[i] \in S
  BY SeqFacts
<1>2. \A i \in m .. n : s[i] \in S /\ i \in DOMAIN s
  BY <1>1
<1> DEFINE w == SubSeq(s, m, n)
<1>3. /\ w \in Seq(S) /\ Len(w) = (IF m <= n THEN n - m + 1 ELSE 0)
      /\ \A i \in 1 .. n - m + 1 : w[i] = s[m + i - 1]
  BY <1>2, SubSeqProperties
<1>4. DOMAIN w = 1 .. n - m + 1
  BY <1>3, SeqFacts
<1> HIDE DEF w
<1>5. Range(w) = {s[i] : i \in m .. n}
  <2>1. ASSUME NEW e \in Range(w) PROVE e \in {s[i] : i \in m .. n}
    <3>1. PICK i \in 1 .. n - m + 1 : e = w[i]
      BY <1>4 DEF Range
    <3>2. e = s[m + i - 1] /\ m + i - 1 \in m .. n
      BY <3>1, <1>3
    <3> QED BY <3>2
  <2>2. ASSUME NEW i \in m .. n PROVE s[i] \in Range(w)
    <3>1. i - m + 1 \in 1 .. n - m + 1 /\ m + (i - m + 1) - 1 = i
      OBVIOUS
    <3>2. w[i - m + 1] = s[i]
      BY <1>3, <3>1
    <3> QED BY <1>4, <3>1, <3>2 DEF Range
  <2> QED BY <2>1, <2>2
<1>6. ASSUME Distinct(s) PROVE Distinct(w)
  <2>1. SUFFICES ASSUME NEW i \in 1 .. n - m + 1, NEW j \in 1 .. n - m + 1, i # j
                 PROVE  w[i] # w[j]
    BY <1>4 DEF Distinct
  <2>2. /\ m + i - 1 \in m .. n /\ m + j - 1 \in m .. n /\ m + i - 1 # m + j - 1
    BY <2>1
  <2>3. m + i - 1 \in DOMAIN s /\ m + j - 1 \in DOMAIN s
    BY <1>2, <2>2
  <2> QED BY <1>3, <1>6, <2>2, <2>3 DEF Distinct
<1> QED BY <1>3, <1>5, <1>6 DEF w

LEMMA Removed ==
  ASSUME NEW S, NEW s \in Seq(S), Distinct(s), NEW i \in DOMAIN s
  PROVE  /\ RemoveAt(s, i) \in Seq(S) /\ Distinct(RemoveAt(s, i))
         /\ Range(RemoveAt(s, i)) = Range(s) \ {s[i]}
<1>1. Len(s) \in Nat /\ DOMAIN s = 1 .. Len(s) /\ i \in Nat /\ 1 <= i /\ i <= Len(s)
  BY SeqFacts
<1> DEFINE u == SubSeq(s, 1, i - 1)
           v == SubSeq(s, i + 1, Len(s))
<1>2. /\ u \in Seq(S) /\ Distinct(u)
      /\ Range(u) = {s[k] : k \in 1 .. i - 1}
  BY <1>1, Part
<1>3. /\ v \in Seq(S) /\ Distinct(v)
      /\ Range(v) = {s[k] : k \in i + 1 .. Len(s)}
  BY <1>1, Part
<1>4. Range(u) \cap Range(v) = {}
  <2>1. ASSUME NEW j \in 1 .. i - 1, NEW k \in i + 1 .. Len(s) PROVE s[j] # s[k]
    <3>1. j \in DOMAIN s /\ k \in DOMAIN s /\ j # k
      BY <1>1
    <3> QED BY <3>1 DEF Distinct
  <2> HIDE DEF u, v
  <2> QED BY <1>2, <1>3, <2>1
<1>5. Range(u) \cup Range(v) = Range(s) \ {s[i]}
  <2>1. ASSUME NEW k \in DOMAIN s, k # i
        PROVE  s[k] # s[i] /\ (k \in 1 .. i - 1 \/ k \in i + 1 .. Len(s))
    BY <1>1, <2>1 DEF Distinct
  <2>2. \A k \in 1 .. i - 1 : k \in DOMAIN s /\ k # i
    BY <1>1
  <2>3. \A k \in i + 1 .. Len(s) : k \in DOMAIN s /\ k # i
    BY <1>1
  <2> HIDE DEF u, v
  <2> QED BY <1>2, <1>3, <2>1, <2>2, <2>3 DEF Range
<1>6. RemoveAt(s, i) = u \o v
  BY DEF RemoveAt
<1> HIDE DEF u, v
<1>7. /\ u \o v \in Seq(S) /\ Range(u \o v) = Range(u) \cup Range(v)
      /\ Distinct(u) /\ Distinct(v) /\ Range(u) \cap Range(v) = {} => Distinct(u \o v)
  BY <1>2, <1>3, Joined
<1> QED BY <1>2, <1>3, <1>4, <1>5, <1>6, <1>7

LEMMA Inserted ==
  ASSUME NEW S, NEW s \in Seq(S), Distinct(s), NEW i \in DOMAIN s,
         NEW e \in S, e \notin Range(s)
  PROVE  /\ InsertAt(s, i, e) \in Seq(S) /\ Distinct(InsertAt(s, i, e))
         /\ Range(InsertAt(s, i, e)) = Range(s) \cup {e}
<1>1. Len(s) \in Nat /\ DOMAIN s = 1 .. Len(s) /\ i \in Nat /\ 1 <= i /\ i <= Len(s)
  BY SeqFacts
<1> DEFINE u == SubSeq(s, 1, i - 1)
           v == SubSeq(s, i, Len(s))
<1>2. /\ u \in Seq(S) /\ Distinct(u)
      /\ Range(u) = {s[k] : k \in 1 .. i - 1}
  BY <1>1, Part
<1>3. /\ v \in Seq(S) /\ Distinct(v)
      /\ Range(v) = {s[k] : k \in i .. Len(s)}
  BY <1>1, Part
<1>4. Range(u) \cap Range(v) = {}
  <2>1. ASSUME NEW j \in 1 .. i - 1, NEW k \in i .. Len(s) PROVE s[j] # s[k]
    <3>1. j \in DOMAIN s /\ k \in DOMAIN s /\ j # k
      BY <1>1
    <3> QED BY <3>1 DEF Distinct
  <2> HIDE DEF u, v
  <2> QED BY <1>2, <1>3, <2>1
<1>5. Range(u) \cup Range(v) = Range(s)
  <2>1. \A k \in DOMAIN s : k \in 1 .. i - 1 \/ k \in i .. Len(s)
    BY <1>1
  <2>2. \A k \in 1 .. i - 1 : k \in DOMAIN s
    BY <1>1
  <2>3. \A k \in i .. Len(s) : k \in DOMAIN s
    BY <1>1
  <2> HIDE DEF u, v
  <2> QED BY <1>2, <1>3, <2>1, <2>2, <2>3 DEF Range
<1>6. InsertAt(s, i, e) = u \o <<e>> \o v
  BY DEF InsertAt
<1> HIDE DEF u, v
<1>7. <<e>> \in Seq(S) /\ Range(<<e>>) = {e} /\ Distinct(<<e>>)
  BY OneElement
<1>8. /\ u \o <<e>> \in Seq(S) /\ Distinct(u \o <<e>>)
      /\ Range(u \o <<e>>) = Range(u) \cup {e}
  <2>1. Range(u) \cap Range(<<e>>) = {}
    BY <1>5, <1>7
  <2>2. /\ u \o <<e>> \in Seq(S) /\ Range(u \o <<e>>) = Range(u) \cup Range(<<e>>)
        /\ Distinct(u) /\ Distinct(<<e>>) /\ Range(u) \cap Range(<<e>>) = {}
           => Distinct(u \o <<e>>)
    BY <1>2, <1>7, Joined
  <2> QED BY <1>2, <1>7, <2>1, <2>2
<1>9. Range(u \o <<e>>) \cap Range(v) = {}
  BY <1>4, <1>5, <1>8
<1>10. /\ (u \o <<e>>) \o v \in Seq(S) /\ Distinct((u \o <<e>>) \o v)
       /\ Range((u \o <<e>>) \o v) = Range(u \o <<e>>) \cup Range(v)
  <2> DEFINE w == u \o <<e>>
  <2>1. w \in Seq(S) /\ Distinct(w) /\ Range(w) \cap Range(v) = {}
    BY <1>8, <1>9
  <2> HIDE DEF w
  <2>2. /\ w \o v \in Seq(S) /\ Range(w \o v) = Range(w) \cup Range(v)
        /\ Distinct(w) /\ Distinct(v) /\ Range(w) \cap Range(v) = {} => Distinct(w \o v)
    BY <1>3, <2>1, Joined
  <2>3. /\ w \o v \in Seq(S) /\ Distinct(w \o v)
        /\ Range(w \o v) = Range(w) \cup Range(v)
    BY <1>3, <2>1, <2>2
  <2> QED BY <2>3 DEF w
<1> QED BY <1>5, <1>6, <1>8, <1>10

LEMMA Appended ==
  ASSUME NEW S, NEW s \in Seq(S), NEW e \in S
  PROVE  /\ Append(s, e) \in Seq(S) /\ Range(Append(s, e)) = Range(s) \cup {e}
         /\ Distinct(s) /\ e \notin Range(s) => Distinct(Append(s, e))
<1>1. Append(s, e) = s \o <<e>>
  BY AppendIsConcat
<1>2. <<e>> \in Seq(S) /\ Range(<<e>>) = {e} /\ Distinct(<<e>>)
  BY OneElement
<1>3. /\ s \o <<e>> \in Seq(S) /\ Range(s \o <<e>>) = Range(s) \cup Range(<<e>>)
      /\ Distinct(s) /\ Distinct(<<e>>) /\ Range(s) \cap Range(<<e>>) = {}
         => Distinct(s \o <<e>>)
  BY <1>2, Joined
<1>4. e \notin Range(s) => Range(s) \cap Range(<<e>>) = {}
  BY <1>2
<1> QED BY <1>1, <1>2, <1>3, <1>4

LEMMA Split ==
  ASSUME NEW S, NEW s \in Seq(S), s # << >>
  PROVE  /\ Head(s) \in S /\ Tail(s) \in Seq(S)
         /\ Range(s) = {Head(s)} \cup Range(Tail(s))
<1>1. /\ Head(s) \in S /\ Tail(s) \in Seq(S)
      /\ Len(Tail(s)) = Len(s) - 1
      /\ \A i \in 1 .. Len(Tail(s)) : Tail(s)[i] = s[i + 1]
  BY HeadTailProperties
<1>2. Len(s) \in Nat \ {0} /\ DOMAIN s = 1 .. Len(s) /\ DOMAIN Tail(s) = 1 .. Len(s) - 1
  BY <1>1, EmptySeq, SeqFacts
<1>3. Head(s) = s[1]
  OBVIOUS
<1>4. ASSUME NEW e \in Range(s) PROVE e \in {Head(s)} \cup Range(Tail(s))
  <2>1. PICK i \in DOMAIN s : s[i] = e
    BY SeqFacts
  <2>2. CASE i = 1
    BY <2>1, <2>2, <1>3
  <2>3. CASE i # 1
    <3>1. i - 1 \in 1 .. Len(Tail(s)) /\ i - 1 + 1 = i
      BY <1>1, <1>2, <2>3
    <3>2. Tail(s)[i - 1] = e
      BY <1>1, <2>1, <3>1
    <3> QED BY <1>1, <1>2, <3>1, <3>2 DEF Range
  <2> QED BY <2>2, <2>3
<1>5. ASSUME NEW e \in Range(Tail(s)) PROVE e \in Range(s)
  <2>1. PICK i \in 1 .. Len(s) - 1 : Tail(s)[i] = e
    BY <1>2 DEF Range
  <2>2. i + 1 \in DOMAIN s /\ s[i + 1] = e
    BY <1>1, <1>2, <2>1
  <2> QED BY <2>2 DEF Range
<1>6. Head(s) \in Range(s)
  BY <1>2, <1>3 DEF Range
<1> QED BY <1>1, <1>4, <1>5, <1>6

-----------------------------------------------------------------------------
(* What a loop over the list finds.  Recursion gives nothing to prove by,  *)
(* and there is no induction: a first element at which the loop is not     *)
(* defined, or finds what it should not, is led to a contradiction.        *)

LEMMA LeastIn ==
  ASSUME NEW S \in SUBSET Nat, S # {}
  PROVE  \E n \in S : \A k \in S : n <= k
<1> DEFINE Less == {ss \in Nat \X Nat : ss[1] < ss[2]}
<1>1. IsWellFoundedOn(Less, Nat)
  BY NatLessThanWellFounded DEF OpToRel
<1>2. PICK n \in S : \A k \in S : <<k, n>> \notin Less
  <2> HIDE DEF Less
  <2> QED BY <1>1, WFMin
<1>3. \A k \in S : ~(k < n)
  BY <1>2
<1> QED BY <1>3

Found(these, before, i) ==
  IF list[i] \in these THEN Append(before, list[i]) ELSE before

Loop(these, f, n) ==
  f = [i \in 0 .. n |-> IF i = 0 THEN << >> ELSE Found(these, f[i - 1], i)]

LEMMA LoopExists ==
  ASSUME NEW these, NEW n \in Nat
  PROVE  \E f : Loop(these, f, n)
<1> DEFINE Bad == {k \in Nat : ~ \E f : Loop(these, f, k)}
<1>1. SUFFICES ASSUME Bad # {} PROVE FALSE
  OBVIOUS
<1>2. PICK k \in Bad : \A j \in Bad : k <= j
  <2>1. Bad \in SUBSET Nat
    OBVIOUS
  <2> HIDE DEF Bad
  <2> QED BY <1>1, <2>1, LeastIn
<1>3. k \in Nat
  OBVIOUS
<1>4. CASE k = 0
  <2> DEFINE f == [i \in 0 .. 0 |-> << >>]
  <2>1. Loop(these, f, 0)
    <3>1. DOMAIN f = 0 .. 0 /\ \A i \in 0 .. 0 : i = 0 /\ f[i] = << >>
      OBVIOUS
    <3>2. f = [i \in 0 .. 0 |-> IF i = 0 THEN << >> ELSE Found(these, f[i - 1], i)]
      <4> HIDE DEF f
      <4>1. f = [i \in 0 .. 0 |-> << >>]
        BY DEF f
      <4> QED BY <4>1, <3>1
    <3> QED BY <3>2 DEF Loop
  <2> QED BY <1>2, <1>4, <2>1
<1>5. CASE k # 0
  <2>1. k - 1 \in Nat /\ k - 1 \notin Bad
    BY <1>2, <1>3, <1>5
  <2>2. PICK f : Loop(these, f, k - 1)
    BY <2>1
  <2> DEFINE g == [i \in 0 .. k |-> IF i = k THEN Found(these, f[k - 1], k) ELSE f[i]]
  <2>3. /\ \A i \in 0 .. k - 1 : i \in 0 .. k /\ i # k
        /\ \A i \in 0 .. k : i # k => i \in 0 .. k - 1
        /\ \A i \in 0 .. k : i # 0 => i - 1 \in 0 .. k - 1
        /\ k \in 0 .. k
    BY <1>3, <1>5
  <2>4. \A i \in 0 .. k - 1 : g[i] = f[i]
    BY <2>3
  <2>5. g[k] = Found(these, f[k - 1], k)
    BY <2>3
  <2>6. \A i \in 0 .. k - 1 : f[i] = IF i = 0 THEN << >> ELSE Found(these, f[i - 1], i)
    <3>1. f = [i \in 0 .. k - 1 |-> IF i = 0 THEN << >> ELSE Found(these, f[i - 1], i)]
      BY <2>2 DEF Loop
    <3> QED BY <3>1
  <2>7. g = [i \in 0 .. k |-> g[i]]
    OBVIOUS
  <2> HIDE DEF g
  <2>8. \A i \in 0 .. k : g[i] = IF i = 0 THEN << >> ELSE Found(these, g[i - 1], i)
    <3> TAKE i \in 0 .. k
    <3>1. CASE i = k
      <4>1. k - 1 \in 0 .. k - 1
        BY <2>3, <1>5
      <4> QED BY <3>1, <4>1, <2>4, <2>5, <1>5
    <3>2. CASE i # k /\ i = 0
      <4>1. i \in 0 .. k - 1
        BY <2>3, <3>2
      <4> QED BY <3>2, <4>1, <2>4, <2>6
    <3>3. CASE i # k /\ i # 0
      <4>1. i \in 0 .. k - 1 /\ i - 1 \in 0 .. k - 1
        BY <2>3, <3>3
      <4> QED BY <3>3, <4>1, <2>4, <2>6
    <3> QED BY <3>1, <3>2, <3>3
  <2>9. Loop(these, g, k)
    <3>1. [i \in 0 .. k |-> g[i]]
          = [i \in 0 .. k |-> IF i = 0 THEN << >> ELSE Found(these, g[i - 1], i)]
      BY <2>8
    <3> QED BY <2>7, <3>1 DEF Loop
  <2> QED BY <1>2, <2>9
<1> QED BY <1>4, <1>5

LEMMA ItemsFacts ==
  ASSUME list \in Seq(Transfers), NEW these
  PROVE  /\ Items(these) \in Seq(Transfers)
         /\ Range(Items(these)) \subseteq Listed \cap these
<1> DEFINE found ==
      CHOOSE f : f = [i \in 0 .. Len(list) |->
                        IF i = 0 THEN << >>
                        ELSE IF list[i] \in these THEN Append(f[i - 1], list[i])
                             ELSE f[i - 1]]
<1>1. /\ Len(list) \in Nat /\ DOMAIN list = 1 .. Len(list)
      /\ \A i \in DOMAIN list : list[i] \in Transfers /\ list[i] \in Listed
  BY SeqFacts DEF Listed
<1>2. Items(these) = found[Len(list)]
  BY DEF Items
<1>3. found = [i \in 0 .. Len(list) |->
                 IF i = 0 THEN << >> ELSE Found(these, found[i - 1], i)]
  <2>1. PICK g : Loop(these, g, Len(list))
    BY <1>1, LoopExists
  <2>2. g = [i \in 0 .. Len(list) |->
               IF i = 0 THEN << >>
               ELSE IF list[i] \in these THEN Append(g[i - 1], list[i])
                    ELSE g[i - 1]]
    BY <2>1 DEF Loop, Found
  <2>3. found = [i \in 0 .. Len(list) |->
                   IF i = 0 THEN << >>
                   ELSE IF list[i] \in these THEN Append(found[i - 1], list[i])
                        ELSE found[i - 1]]
    BY <2>2
  <2> HIDE DEF found
  <2> QED BY <2>3 DEF Found
<1> HIDE DEF found
<1>4. /\ found[0] = << >>
      /\ \A i \in 1 .. Len(list) : found[i] = Found(these, found[i - 1], i)
  <2>1. 0 \in 0 .. Len(list) /\ \A i \in 1 .. Len(list) : i \in 0 .. Len(list) /\ i # 0
    BY <1>1
  <2> QED BY <1>3, <2>1
<1> DEFINE Ok(s) == s \in Seq(Transfers) /\ Range(s) \subseteq Listed \cap these
           Bad == {i \in 0 .. Len(list) : ~Ok(found[i])}
<1>5. Bad = {}
  <2>1. SUFFICES ASSUME Bad # {} PROVE FALSE
    OBVIOUS
  <2>2. PICK k \in Bad : \A j \in Bad : k <= j
    <3>1. Bad \in SUBSET Nat
      BY <1>1
    <3> HIDE DEF Bad
    <3> QED BY <2>1, <3>1, LeastIn
  <2>3. k # 0
    <3>1. Range(<< >>) = {} /\ << >> \in Seq(Transfers)
      BY DEF Range
    <3> QED BY <2>2, <1>4, <3>1
  <2>4. k \in 1 .. Len(list) /\ k - 1 \in 0 .. Len(list) /\ ~(k <= k - 1)
    BY <1>1, <2>3
  <2>5. Ok(found[k - 1])
    <3>1. k - 1 \notin Bad
      BY <2>2, <2>4
    <3> QED BY <2>4, <3>1
  <2>6. found[k] = Found(these, found[k - 1], k)
    BY <1>4, <2>4
  <2>7. list[k] \in Transfers /\ list[k] \in Listed
    BY <1>1, <2>4
  <2>8. CASE list[k] \in these
    <3>1. PICK s \in Seq(Transfers) : s = found[k - 1] /\ Range(s) \subseteq Listed \cap these
      BY <2>5
    <3>2. Append(s, list[k]) \in Seq(Transfers)
          /\ Range(Append(s, list[k])) = Range(s) \cup {list[k]}
      BY <2>7, Appended
    <3>3. found[k] = Append(s, list[k])
      BY <2>6, <2>8, <3>1 DEF Found
    <3> QED BY <2>2, <2>7, <2>8, <3>1, <3>2, <3>3
  <2>9. CASE list[k] \notin these
    BY <2>2, <2>5, <2>6, <2>9 DEF Found
  <2> QED BY <2>8, <2>9
<1>6. Ok(found[Len(list)])
  <2>1. Len(list) \in 0 .. Len(list)
    BY <1>1
  <2> QED BY <1>5, <2>1
<1> QED BY <1>2, <1>6

-----------------------------------------------------------------------------
(* The parts of a step.                                                    *)

LEMMA WithoutFacts ==
  ASSUME list \in Seq(Transfers), Distinct(list), NEW t \in Transfers
  PROVE  /\ Without(t) \in Seq(Transfers) /\ Distinct(Without(t))
         /\ Range(Without(t)) = Listed \ {t}
<1>1. CASE t \notin Listed
  BY <1>1 DEF Without, Listed
<1>2. CASE t \in Listed
  <2>1. IndexIn(list, t) \in DOMAIN list /\ list[IndexIn(list, t)] = t
    BY <1>2, SeqFacts DEF IndexIn, Listed
  <2>2. PICK i \in DOMAIN list : i = IndexIn(list, t)
    BY <2>1
  <2>3. /\ RemoveAt(list, i) \in Seq(Transfers) /\ Distinct(RemoveAt(list, i))
        /\ Range(RemoveAt(list, i)) = Range(list) \ {list[i]}
    BY Removed
  <2>4. Without(t) = RemoveAt(list, i)
    BY <1>2, <2>2 DEF Without
  <2> QED BY <2>1, <2>2, <2>3, <2>4 DEF Listed
<1> QED BY <1>1, <1>2

(* The control starts no more items than there is room for, and only items *)
(* of both sides that wait.                                                *)
LEMMA ChosenFacts ==
  ASSUME TypeOK
  PROVE  /\ Chosen \in Seq(Transfers)
         /\ Range(Chosen) \subseteq (Listed \cap Cross) \ (inited \cup StillPending)
         /\ IsFiniteSet(Active) /\ IsFiniteSet(Range(Chosen))
         /\ Cardinality(Active) \in Nat /\ Cardinality(Range(Chosen)) \in Nat
         /\ \/ Chosen = << >>
            \/ Cardinality(Range(Chosen)) <= MaxTransport - Cardinality(Active)
<1> DEFINE waiting == Items(Cross \ (inited \cup StillPending))
           room == MaxTransport - Cardinality(Active)
<1>1. list \in Seq(Transfers)
  BY DEF TypeOK
<1>2. /\ waiting \in Seq(Transfers)
      /\ Range(waiting) \subseteq (Listed \cap Cross) \ (inited \cup StillPending)
  BY <1>1, ItemsFacts
<1>3. Len(waiting) \in Nat
  BY <1>2, SeqFacts
<1>4. IsFiniteSet(Active) /\ Cardinality(Active) \in Nat
  <2>1. Active \in SUBSET Transfers
    BY DEF Active
  <2>2. IsFiniteSet(Active)
    BY <2>1, FS_Subset
  <2> QED BY <2>2, FS_CardinalityType
<1>5. room \in Int
  BY <1>4
<1>6. Chosen = IF room <= 0 THEN << >>
               ELSE SubSeq(waiting, 1, IF room < Len(waiting) THEN room ELSE Len(waiting))
  BY DEF Chosen
<1> HIDE DEF waiting
<1>7. CASE room <= 0
  <2>1. Chosen = << >>
    BY <1>6, <1>7
  <2>2. Range(<< >>) = {} /\ << >> \in Seq(Transfers)
    BY DEF Range
  <2>3. IsFiniteSet({}) /\ Cardinality({}) = 0
    BY FS_EmptySet
  <2>4. Range(Chosen) = {} /\ Chosen \in Seq(Transfers)
    BY <2>1, <2>2
  <2>5. IsFiniteSet(Range(Chosen)) /\ Cardinality(Range(Chosen)) \in Nat
    BY <2>3, <2>4
  <2> QED BY <1>4, <2>1, <2>4, <2>5
<1>8. CASE ~(room <= 0)
  <2>1. PICK n \in Nat : /\ n = IF room < Len(waiting) THEN room ELSE Len(waiting)
                         /\ n <= Len(waiting) /\ n <= room
    BY <1>3, <1>5, <1>8
  <2>2. Chosen = SubSeq(waiting, 1, n)
    BY <1>6, <1>8, <2>1
  <2>3. /\ SubSeq(waiting, 1, n) \in Seq(Transfers)
        /\ Range(SubSeq(waiting, 1, n)) = {waiting[i] : i \in 1 .. n}
    BY <1>2, <1>3, <2>1, Part
  <2>4. \A i \in 1 .. n : waiting[i] \in Range(waiting)
    BY <1>2, <1>3, <2>1, SeqFacts
  <2>5. IsFiniteSet(1 .. n) /\ Cardinality(1 .. n) = n
    <3>1. PICK a \in Int : a = 1
      OBVIOUS
    <3>2. n \in Int
      BY <2>1
    <3>3. /\ IsFiniteSet(a .. n)
          /\ Cardinality(a .. n) = IF a > n THEN 0 ELSE n - a + 1
      BY <3>2, FS_Interval
    <3> QED BY <2>1, <3>1, <3>3
  <2>6. IsFiniteSet(Range(Chosen)) /\ Cardinality(Range(Chosen)) <= n
    <3> DEFINE f == [i \in 1 .. n |-> waiting[i]]
    <3>1. Range(Chosen) = {waiting[i] : i \in 1 .. n}
      BY <2>2, <2>3
    <3>2. f \in Surjection(1 .. n, Range(Chosen))
      BY <3>1 DEF Surjection
    <3> QED BY <3>2, <2>5, FS_Surjection
  <2>7. Cardinality(Range(Chosen)) \in Nat
    BY <2>6, FS_CardinalityType
  <2> QED BY <1>2, <1>4, <1>5, <2>1, <2>2, <2>3, <2>4, <2>6, <2>7
<1> QED BY <1>5, <1>7, <1>8

LEMMA StartsFacts ==
  ASSUME NEW ts \in Seq(Transfers)
  PROVE  /\ Starts(ts) \in Seq(Op)
         /\ Range(Starts(ts)) = {<<"start", t>> : t \in Range(ts)}
<1>1. /\ Len(ts) \in Nat /\ DOMAIN ts = 1 .. Len(ts)
      /\ \A i \in DOMAIN ts : ts[i] \in Transfers
  BY SeqFacts
<1>2. \A t \in Transfers : <<"start", t>> \in Op
  BY DEF Op
<1>3. Starts(ts) \in [1 .. Len(ts) -> Op]
  BY <1>1, <1>2 DEF Starts
<1> QED BY <1>1, <1>3 DEF Starts, Range

-----------------------------------------------------------------------------
(* What each kind of step does to the parts of the invariant.              *)

Others == {"pause", "resume", "delete", "top"}

LEMMA ApplyFacts ==
  ASSUME TypeOK, NEW op \in Others, NEW t \in Transfers, Apply(op, t)
  PROVE  /\ list' \in Seq(Transfers) /\ Distinct(list')
         /\ Listed' = IF op = "delete" THEN Listed \ {t} ELSE Listed
         /\ inited' = IF op = "delete" THEN inited \ {t} ELSE inited
         /\ inited' \subseteq Transfers /\ pausing' \subseteq Transfers
         /\ resumed' \in BOOLEAN
         /\ ~resumed' => ~resumed /\ \A u \in Listed' : u \in pausing => u \in pausing'
<1>1. /\ list \in Seq(Transfers) /\ Distinct(list) /\ inited \subseteq Transfers
      /\ pausing \subseteq Transfers /\ resumed \in BOOLEAN
  BY DEF TypeOK
<1>2. /\ Without(t) \in Seq(Transfers) /\ Distinct(Without(t))
      /\ Range(Without(t)) = Listed \ {t}
  BY <1>1, WithoutFacts
<1>3. /\ list' \in Seq(Transfers) /\ Distinct(list')
      /\ Listed' = IF op = "delete" THEN Listed \ {t} ELSE Listed
  <2>1. CASE op = "delete"
    BY <2>1, <1>2 DEF Apply, Listed
  <2>2. CASE op = "top" /\ t \in Listed
    <3>1. <<t>> \in Seq(Transfers) /\ Range(<<t>>) = {t} /\ Distinct(<<t>>)
      BY OneElement
    <3>2. Range(<<t>>) \cap Range(Without(t)) = {}
      BY <1>2, <3>1
    <3>3. /\ <<t>> \o Without(t) \in Seq(Transfers)
          /\ Range(<<t>> \o Without(t)) = Range(<<t>>) \cup Range(Without(t))
          /\ Distinct(<<t>>) /\ Distinct(Without(t))
             /\ Range(<<t>>) \cap Range(Without(t)) = {} => Distinct(<<t>> \o Without(t))
      BY <1>2, <3>1, Joined
    <3>4. list' = <<t>> \o Without(t)
      BY <2>2 DEF Apply
    <3> QED BY <2>2, <1>2, <3>1, <3>2, <3>3, <3>4 DEF Listed
  <2>3. CASE op # "delete" /\ ~(op = "top" /\ t \in Listed)
    BY <2>3, <1>1 DEF Apply, Listed
  <2> QED BY <2>1, <2>2, <2>3
<1>4. /\ inited' = IF op = "delete" THEN inited \ {t} ELSE inited
      /\ inited' \subseteq Transfers
  BY <1>1 DEF Apply
<1>5. resumed' \in BOOLEAN
  BY <1>1 DEF Apply
<1>6. pausing' = (IF op = "pause" /\ t \in Listed THEN pausing \cup {t}
                  ELSE IF op \in {"resume", "delete"} THEN pausing \ {t} ELSE pausing)
  BY DEF Apply
<1>7. pausing' \subseteq Transfers
  BY <1>1, <1>6
<1>8. ASSUME ~resumed'
      PROVE  ~resumed /\ \A u \in Listed' : u \in pausing => u \in pausing'
  <2>1. ~resumed /\ ~(op = "resume" /\ t \in pausing)
    BY <1>8 DEF Apply
  <2> QED BY <1>3, <1>6, <2>1
<1> QED BY <1>3, <1>4, <1>5, <1>7, <1>8

(* The next update is taken: a start goes to the worker or is dropped, and *)
(* any other one is applied.                                               *)
Dropped(t) ==
  t \in Listed \cap inited /\ UNCHANGED <<worker, starting, storeVars, resumed>>

Taken(t) ==
  worker' = "waiting" /\ starting' = t /\ UNCHANGED <<storeVars, resumed>>

LEMMA ProcessFacts ==
  ASSUME TypeOK, Process
  PROVE  /\ worker = "free" /\ queue' \in Seq(Op)
         /\ UNCHANGED <<viewVars, stage, held, userVars>>
         /\ \E t \in Transfers :
              \/ /\ Range(queue) = {<<"start", t>>} \cup Range(queue')
                 /\ Dropped(t) \/ Taken(t)
              \/ \E op \in Others :
                   /\ Range(queue) = {<<op, t>>} \cup Range(queue')
                   /\ Apply(op, t) /\ UNCHANGED <<worker, starting>>
<1>1. queue \in Seq(Op) /\ queue # << >> /\ worker = "free" /\ queue' = Tail(queue)
  BY DEF TypeOK, Process, Calm
<1>2. /\ Head(queue) \in Op /\ Tail(queue) \in Seq(Op)
      /\ Range(queue) = {Head(queue)} \cup Range(Tail(queue))
  BY <1>1, Split
<1>3. PICK op \in Others \cup {"start"}, t \in Transfers : Head(queue) = <<op, t>>
  <2>1. PICK h \in Op : h = Head(queue)
    BY <1>2
  <2>2. h = <<h[1], h[2]>> /\ h[1] \in Others \cup {"start"} /\ h[2] \in Transfers
    BY DEF Op, Others
  <2> QED BY <2>1, <2>2
<1>4. Head(queue)[1] = op /\ Head(queue)[2] = t
  BY <1>3
<1>5. IF op = "start"
      THEN /\ IF t \in Listed \cap inited
              THEN UNCHANGED <<worker, starting>>
              ELSE worker' = "waiting" /\ starting' = t
           /\ UNCHANGED <<storeVars, resumed>>
      ELSE Apply(op, t) /\ UNCHANGED <<worker, starting>>
  <2>1. /\ LET o == Head(queue)[1]
               u == Head(queue)[2]
           IN  IF o = "start"
               THEN /\ IF u \in Listed \cap inited
                       THEN UNCHANGED <<worker, starting>>
                       ELSE worker' = "waiting" /\ starting' = u
                    /\ UNCHANGED <<storeVars, resumed>>
               ELSE /\ Apply(o, u)
                    /\ UNCHANGED <<worker, starting>>
    BY DEF Process
  <2> QED BY <2>1, <1>4
<1>6. UNCHANGED <<viewVars, stage, held, userVars>>
  BY DEF Process
<1>7. CASE op = "start"
  <2>1. Dropped(t) \/ Taken(t)
    BY <1>5, <1>7 DEF Dropped, Taken
  <2> QED BY <1>1, <1>2, <1>3, <1>6, <1>7, <2>1
<1>8. CASE op # "start"
  <2>1. op \in Others
    BY <1>8
  <2>2. Apply(op, t) /\ UNCHANGED <<worker, starting>>
    BY <1>5, <1>8
  <2> QED BY <1>1, <1>2, <1>3, <1>6, <2>1, <2>2
<1> QED BY <1>7, <1>8

(* A commit reserves the places of the chosen items and starts them.       *)
LEMMA RenderFacts ==
  ASSUME TypeOK, Render
  PROVE  /\ queue' \in Seq(Op)
         /\ Range(queue') = Range(queue)
              \cup {<<"start", t>> : t \in Range(OneSided)}
              \cup {<<"start", t>> : t \in Range(Chosen)}
         /\ Range(OneSided) \subseteq Listed \ (Cross \cup inited)
         /\ pendingInit' = StillPending \cup Range(Chosen)
         /\ UNCHANGED <<storeVars, worker, starting, userVars, resumed>>
         /\ shown' = Store /\ stage' = Staged /\ held' = Held
<1>1. OneSided \in Seq(Transfers) /\ Range(OneSided) \subseteq Listed \ (Cross \cup inited)
  BY ItemsFacts DEF OneSided, TypeOK
<1>2. Chosen \in Seq(Transfers)
  BY ChosenFacts
<1>3. /\ Starts(OneSided) \in Seq(Op)
      /\ Range(Starts(OneSided)) = {<<"start", t>> : t \in Range(OneSided)}
  BY <1>1, StartsFacts
<1>4. /\ Starts(Chosen) \in Seq(Op)
      /\ Range(Starts(Chosen)) = {<<"start", t>> : t \in Range(Chosen)}
  BY <1>2, StartsFacts
<1>5. queue \in Seq(Op)
  BY DEF TypeOK
<1>6. /\ queue \o Starts(OneSided) \in Seq(Op)
      /\ Range(queue \o Starts(OneSided)) = Range(queue) \cup Range(Starts(OneSided))
  BY <1>3, <1>5, Joined
<1>7. /\ (queue \o Starts(OneSided)) \o Starts(Chosen) \in Seq(Op)
      /\ Range((queue \o Starts(OneSided)) \o Starts(Chosen))
         = Range(queue \o Starts(OneSided)) \cup Range(Starts(Chosen))
  <2>1. PICK s \in Seq(Op) : s = queue \o Starts(OneSided)
    BY <1>6
  <2>2. PICK u \in Seq(Op) : u = Starts(Chosen)
    BY <1>4
  <2>3. s \o u \in Seq(Op) /\ Range(s \o u) = Range(s) \cup Range(u)
    BY Joined
  <2> QED BY <2>1, <2>2, <2>3
<1>8. queue' = (queue \o Starts(OneSided)) \o Starts(Chosen)
      /\ pendingInit' = StillPending \cup Range(Chosen)
  BY DEF Render, Control
<1>9. /\ UNCHANGED <<storeVars, worker, starting, userVars, resumed>>
      /\ shown' = Store /\ stage' = Staged /\ held' = Held
  BY DEF Render
<1> QED BY <1>1, <1>3, <1>4, <1>6, <1>7, <1>8, <1>9

(* The component of an item goes on, or the item is over and deleted.      *)
Goes(t) ==
  /\ stage[t] \in Working
  /\ \E s \in Working \cup {"over"} : Becomes(t, s)
  /\ queue' = queue \/ AddToQueue("delete", t)
  /\ UNCHANGED <<storeVars, worker, starting, viewVars, held, userVars, resumed>>

LEMMA ComponentGoes ==
  ASSUME NEW t \in Transfers,
         StatDone(t) \/ CheckDone(t) \/ Opened(t) \/ CopyEnds(t) \/ Decide(t)
  PROVE  Goes(t)
<1>1. ASSUME Proceed(t) PROVE \E s \in Working \cup {"over"} : Becomes(t, s)
  BY <1>1 DEF Proceed, Working
<1>2. /\ "check" \in Working /\ "asking" \in Working /\ "copying" \in Working
      /\ "over" \in Working \cup {"over"}
  BY DEF Working
<1>3. CASE StatDone(t)
  <2>1. \E s \in Working \cup {"over"} : Becomes(t, s)
    BY <1>1, <1>2, <1>3 DEF StatDone
  <2> QED BY <2>1, <1>3 DEF StatDone, Goes, Working
<1>4. CASE CheckDone(t)
  <2>1. \E s \in Working \cup {"over"} : Becomes(t, s)
    BY <1>1, <1>2, <1>4 DEF CheckDone
  <2> QED BY <2>1, <1>4 DEF CheckDone, Goes, Working, queueVars
<1>5. CASE Opened(t)
  <2>1. \E s \in Working \cup {"over"} : Becomes(t, s)
    BY <1>2, <1>5 DEF Opened, Ended
  <2> QED BY <2>1, <1>5 DEF Opened, Goes, Working, Ended
<1>6. CASE CopyEnds(t)
  <2>1. \E s \in Working \cup {"over"} : Becomes(t, s)
    BY <1>2, <1>6 DEF CopyEnds, Ended
  <2> QED BY <2>1, <1>6 DEF CopyEnds, Goes, Working, Ended
<1>7. CASE Decide(t)
  <2>1. \E s \in Working \cup {"over"} : Becomes(t, s)
    BY <1>1, <1>2, <1>7 DEF Decide, Ended
  <2> QED BY <2>1, <1>7 DEF Decide, Goes, Working, Ended
<1> QED BY <1>3, <1>4, <1>5, <1>6, <1>7

(* An update other than a start is added.                                  *)
LEMMA OtherAdded ==
  ASSUME TypeOK, NEW op \in Others, NEW t \in Transfers, AddToQueue(op, t)
  PROVE  queue' \in Seq(Op) /\ Range(queue') = Range(queue) \cup {<<op, t>>}
<1>1. queue \in Seq(Op) /\ <<op, t>> \in Op
  BY DEF TypeOK, Op, Others
<1> QED BY <1>1, Appended DEF AddToQueue

LEMMA ButtonFacts ==
  ASSUME TypeOK, NEW t \in Transfers, ItemButton(t)
  PROVE  /\ \E op \in Others : AddToQueue(op, t)
         /\ clicks' \in 0 .. MaxClicks
         /\ UNCHANGED <<storeVars, worker, starting, viewVars, stage, held, allPaused, resumed>>
<1>1. \E op \in Others : AddToQueue(op, t)
  BY DEF ItemButton, Others
<1> QED BY <1>1 DEF ItemButton, Click, TypeOK

LEMMA DropFacts ==
  ASSUME TypeOK, NEW t \in Transfers, NEW u \in Transfers, Drop(t, u)
  PROVE  /\ list' \in Seq(Transfers) /\ Distinct(list') /\ Listed' = Listed
         /\ clicks' \in 0 .. MaxClicks
         /\ UNCHANGED <<inited, pausing, queueVars, viewVars, stage, held, allPaused, resumed>>
<1>1. /\ Without(t) \in Seq(Transfers) /\ Distinct(Without(t))
      /\ Range(Without(t)) = Listed \ {t}
  BY WithoutFacts DEF TypeOK
<1>2. PICK s \in Seq(Transfers) : s = Without(t)
  BY <1>1
<1>3. u \in Range(s) /\ t \notin Range(s) /\ t \in Listed
  BY <1>1, <1>2 DEF Drop
<1>4. IndexIn(s, u) \in DOMAIN s
  BY <1>3, SeqFacts DEF IndexIn
<1>5. PICK i \in DOMAIN s : i = IndexIn(s, u)
  BY <1>4
<1>6. /\ InsertAt(s, i, t) \in Seq(Transfers) /\ Distinct(InsertAt(s, i, t))
      /\ Range(InsertAt(s, i, t)) = Range(s) \cup {t}
  BY <1>1, <1>2, <1>3, Inserted
<1>7. list' = InsertAt(s, i, t)
  BY <1>2, <1>5 DEF Drop
<1>8. Listed' = Listed
  BY <1>1, <1>2, <1>3, <1>6, <1>7 DEF Listed
<1> QED BY <1>6, <1>7, <1>8 DEF Drop, Click, TypeOK

LEMMA AddFacts ==
  ASSUME TypeOK, NEW t \in Transfers, Add(t)
  PROVE  /\ list' \in Seq(Transfers) /\ Distinct(list') /\ Listed' = Listed \cup {t}
         /\ t \notin Begun
         /\ UNCHANGED <<inited, pausing, queueVars, viewVars, stage, held, userVars, resumed>>
<1>1. list \in Seq(Transfers) /\ Distinct(list) /\ t \notin Range(list)
  BY DEF TypeOK, Add, Listed
<1>2. /\ Append(list, t) \in Seq(Transfers)
      /\ Range(Append(list, t)) = Range(list) \cup {t}
      /\ Distinct(list) /\ t \notin Range(list) => Distinct(Append(list, t))
  BY <1>1, Appended
<1> QED BY <1>1, <1>2 DEF Add, Listed, Begun, userVars

LEMMA NoneListed ==
  << >> \in Seq(Transfers) /\ Distinct(<< >>) /\ Range(<< >>) = {}
<1>1. << >> \in Seq(Transfers) /\ DOMAIN << >> = {}
  OBVIOUS
<1> QED BY <1>1 DEF Distinct, Range

-----------------------------------------------------------------------------
(* Every part of the invariant is kept by every step.                      *)

LEMMA TypeInit == Init => TypeOK
<1> SUFFICES ASSUME Init PROVE TypeOK
  OBVIOUS
<1>1. shown.list = << >> /\ shown.inited = {} /\ shown.pausing = {}
  BY DEF Init, Store
<1>2. << >> \in Seq(Op)
  OBVIOUS
<1>3. stage \in [Transfers -> {"new", "idle", "over"} \cup Working]
  BY DEF Init
<1>4. 0 \in 0 .. MaxClicks
  OBVIOUS
<1> QED BY <1>1, <1>2, <1>3, <1>4, NoneListed DEF Init, TypeOK

LEMMA TypeStep ==
  ASSUME TypeOK, Next
  PROVE  TypeOK'
<1> USE DEF storeVars, viewVars, userVars, queueVars
<1>1. CASE Process
  <2>1. /\ queue' \in Seq(Op) /\ UNCHANGED <<viewVars, stage, held, userVars>>
    BY <1>1, ProcessFacts
  <2>2. PICK t \in Transfers :
          \/ Dropped(t) \/ Taken(t)
          \/ \E op \in Others : Apply(op, t) /\ UNCHANGED <<worker, starting>>
    BY <1>1, ProcessFacts
  <2>3. CASE Dropped(t) \/ Taken(t)
    BY <2>1, <2>3 DEF TypeOK, Dropped, Taken
  <2>4. CASE \E op \in Others : Apply(op, t) /\ UNCHANGED <<worker, starting>>
    <3>1. PICK op \in Others : Apply(op, t) /\ UNCHANGED <<worker, starting>>
      BY <2>4
    <3>2. /\ list' \in Seq(Transfers) /\ Distinct(list')
          /\ inited' \subseteq Transfers /\ pausing' \subseteq Transfers
          /\ resumed' \in BOOLEAN
      BY <3>1, ApplyFacts
    <3> QED BY <2>1, <3>1, <3>2 DEF TypeOK
  <2> QED BY <2>2, <2>3, <2>4
<1>2. CASE ApplyStart
  <2>1. inited' \subseteq Transfers
    BY <1>2, SeqFacts DEF ApplyStart, TypeOK, Listed
  <2> QED BY <1>2, <2>1 DEF ApplyStart, TypeOK
<1>3. CASE Render
  <2>1. queue' \in Seq(Op)
    BY <1>3, RenderFacts
  <2>2. /\ pendingInit' = StillPending \cup Range(Chosen) /\ shown' = Store
        /\ UNCHANGED <<storeVars, worker, starting, userVars, resumed>>
        /\ stage' = Staged /\ held' = Held
    BY <1>3, RenderFacts
  <2>3. pendingInit' \subseteq Transfers
    BY <2>2, ChosenFacts DEF StillPending, TypeOK
  <2>4. Staged \in [Transfers -> {"new", "idle", "over"} \cup Working]
    BY DEF Staged, TypeOK, Working
  <2>5. Held \subseteq Transfers
    BY DEF Held, TypeOK
  <2>6. shown'.list = list /\ shown'.inited = inited /\ shown'.pausing = pausing
    BY <2>2 DEF Store
  <2> QED BY <2>1, <2>2, <2>3, <2>4, <2>5, <2>6 DEF TypeOK
<1>4. ASSUME NEW t \in Transfers, Goes(t)
      PROVE  TypeOK'
  <2>1. stage' \in [Transfers -> {"new", "idle", "over"} \cup Working]
    BY <1>4 DEF Goes, Becomes, TypeOK
  <2>2. queue' \in Seq(Op)
    <3>1. "delete" \in Others
      BY DEF Others
    <3>2. CASE queue' = queue
      BY <3>2 DEF TypeOK
    <3>3. CASE AddToQueue("delete", t)
      BY <3>1, <3>3, OtherAdded
    <3> QED BY <1>4, <3>2, <3>3 DEF Goes
  <2> QED BY <1>4, <2>1, <2>2 DEF Goes, TypeOK
<1>5. ASSUME NEW t \in Transfers, Add(t)
      PROVE  TypeOK'
  BY <1>5, AddFacts DEF TypeOK
<1>6. ASSUME NEW t \in Transfers, ItemButton(t)
      PROVE  TypeOK'
  <2>1. /\ clicks' \in 0 .. MaxClicks
        /\ UNCHANGED <<storeVars, worker, starting, viewVars, stage, held, allPaused, resumed>>
    BY <1>6, ButtonFacts
  <2>2. PICK op \in Others : AddToQueue(op, t)
    BY <1>6, ButtonFacts
  <2>3. queue' \in Seq(Op)
    BY <2>2, OtherAdded
  <2> QED BY <2>1, <2>3 DEF TypeOK
<1>7. ASSUME NEW t \in Transfers, NEW u \in Transfers, Drop(t, u)
      PROVE  TypeOK'
  BY <1>7, DropFacts DEF TypeOK
<1>8. CASE PauseAll
  <2>1. Listed \subseteq Transfers
    BY SeqFacts DEF Listed, TypeOK
  <2> QED BY <1>8, <2>1 DEF PauseAll, Click, TypeOK
<1>9. CASE ResumeAll
  <2>1. clicks' \in 0 .. MaxClicks
    BY <1>9 DEF ResumeAll, Click, TypeOK
  <2>2. resumed' \in BOOLEAN
    BY <1>9 DEF ResumeAll, TypeOK
  <2>3. allPaused' = FALSE
    BY <1>9 DEF ResumeAll
  <2>4. pausing' = {} /\ UNCHANGED <<list, inited, queueVars, viewVars, stage, held>>
    BY <1>9 DEF ResumeAll
  <2> QED BY <2>1, <2>2, <2>3, <2>4 DEF TypeOK
<1>10. CASE CancelAll
  BY <1>10, NoneListed DEF CancelAll, Click, TypeOK
<1> QED
  BY <1>1, <1>2, <1>3, <1>4, <1>5, <1>6, <1>7, <1>8, <1>9, <1>10, ComponentGoes
  DEF Next, User

(* Nobody's component is new again.                                        *)
LEMMA BegunStays ==
  ASSUME TypeOK, Next
  PROVE  Begun \subseteq Begun'
<1> USE DEF storeVars, viewVars, userVars, queueVars
<1>1. CASE Render
  BY <1>1 DEF Render, Staged, Begun
<1>2. ASSUME NEW t \in Transfers, Goes(t)
      PROVE  Begun \subseteq Begun'
  BY <1>2 DEF Goes, Becomes, Begun, Working, TypeOK
<1>3. CASE stage' = stage
  BY <1>3 DEF Begun
<1>4. CASE Process
  BY <1>4, <1>3 DEF Process
<1>5. CASE ApplyStart
  BY <1>5, <1>3 DEF ApplyStart
<1>6. CASE PauseAll \/ ResumeAll \/ CancelAll
  BY <1>6, <1>3 DEF PauseAll, ResumeAll, CancelAll
<1>7. ASSUME NEW t \in Transfers, Add(t) \/ ItemButton(t)
      PROVE  Begun \subseteq Begun'
  BY <1>7, <1>3 DEF Add, ItemButton
<1>8. ASSUME NEW t \in Transfers, NEW u \in Transfers, Drop(t, u)
      PROVE  Begun \subseteq Begun'
  BY <1>8, <1>3 DEF Drop
<1> QED
  BY <1>1, <1>2, <1>4, <1>5, <1>6, <1>7, <1>8, ComponentGoes DEF Next, User

LEMMA KnownStep ==
  ASSUME TypeOK, Known, Next
  PROVE  Known'
<1> USE DEF storeVars, viewVars, userVars, queueVars
<1>0. CASE UNCHANGED <<list, inited, stage>>
  BY <1>0 DEF Known, Listed
<1>1. CASE Process
  <2>1. stage' = stage
    BY <1>1, ProcessFacts
  <2>2. PICK t \in Transfers :
          \/ Dropped(t) \/ Taken(t)
          \/ \E op \in Others : Apply(op, t) /\ UNCHANGED <<worker, starting>>
    BY <1>1, ProcessFacts
  <2>3. CASE Dropped(t) \/ Taken(t)
    BY <1>0, <2>1, <2>3 DEF Dropped, Taken
  <2>4. CASE \E op \in Others : Apply(op, t) /\ UNCHANGED <<worker, starting>>
    <3>1. PICK op \in Others : Apply(op, t)
      BY <2>4
    <3>2. /\ Listed' = IF op = "delete" THEN Listed \ {t} ELSE Listed
          /\ inited' = IF op = "delete" THEN inited \ {t} ELSE inited
      BY <3>1, ApplyFacts
    <3> QED BY <2>1, <3>2 DEF Known
  <2> QED BY <2>2, <2>3, <2>4
<1>2. CASE ApplyStart
  BY <1>2 DEF ApplyStart, Known, Listed
<1>3. CASE Render
  <2>1. list' = list /\ inited' = inited /\ stage' = Staged /\ Listed' = Listed
    BY <1>3 DEF Render, Listed
  <2>2. Listed \subseteq Transfers
    BY SeqFacts DEF Listed, TypeOK
  <2>3. ASSUME NEW t \in Listed, stage'[t] \notin {"new", "idle"}
        PROVE  t \in inited
    BY <2>1, <2>2, <2>3 DEF Staged, Known, Gone
  <2> QED BY <2>1, <2>3 DEF Known
<1>4. ASSUME NEW t \in Transfers, Goes(t)
      PROVE  Known'
  <2>1. \A u \in Transfers : stage'[u] # stage[u] => stage[u] \notin {"new", "idle"}
    BY <1>4 DEF Goes, Becomes, Working, TypeOK
  <2>2. Listed \subseteq Transfers /\ Listed' = Listed /\ inited' = inited
    BY <1>4, SeqFacts DEF Listed, TypeOK, Goes
  <2> QED BY <2>1, <2>2 DEF Known
<1>5. ASSUME NEW t \in Transfers, Add(t)
      PROVE  Known'
  <2>1. /\ Listed' = Listed \cup {t} /\ t \notin Begun
        /\ stage' = stage /\ inited' = inited
    BY <1>5, AddFacts
  <2> QED BY <2>1 DEF Known, Begun
<1>6. ASSUME NEW t \in Transfers, ItemButton(t)
      PROVE  Known'
  BY <1>0, <1>6 DEF ItemButton
<1>7. ASSUME NEW t \in Transfers, NEW u \in Transfers, Drop(t, u)
      PROVE  Known'
  <2>1. Listed' = Listed /\ stage' = stage /\ inited' = inited
    BY <1>7, DropFacts
  <2> QED BY <2>1 DEF Known
<1>8. CASE PauseAll \/ ResumeAll
  BY <1>0, <1>8 DEF PauseAll, ResumeAll
<1>9. CASE CancelAll
  <2>1. Listed' = {} /\ inited' = {}
    BY <1>9, NoneListed DEF CancelAll, Listed
  <2> QED BY <2>1 DEF Known
<1> QED
  BY <1>1, <1>2, <1>3, <1>4, <1>5, <1>6, <1>7, <1>8, <1>9, ComponentGoes
  DEF Next, User

(* No start is added or used up: what is reserved stays so when no item is *)
(* listed anew and what is still shown is shown as before.                 *)
LEMMA ReservedKept ==
  ASSUME Reserved, Begun \subseteq Begun', pendingInit' = pendingInit,
         \A t \in Transfers : PlaceIsUsed(t)' => PlaceIsUsed(t),
         \A t \in StillPending' : PlaceIsUsed(t) => PlaceIsUsed(t)',
         \A t \in Listed' : /\ t \in Listed \/ t \notin Begun
                            /\ t \in inited => t \in inited',
         Listed' \subseteq Transfers
  PROVE  Reserved'
<1>1. pendingInit' \subseteq Begun'
  BY DEF Reserved
<1>2. \A t \in Transfers : PlaceIsUsed(t)' => t \in Begun'
  BY DEF Reserved
<1>3. ASSUME NEW t \in Cross \cap Listed', PlaceIsUsed(t)'
      PROVE  t \in pendingInit' \cup inited'
  <2>1. t \in Transfers /\ PlaceIsUsed(t)
    BY <1>3
  <2>2. t \in Begun
    BY <2>1 DEF Reserved
  <2>3. t \in Listed
    BY <2>2
  <2>4. t \in pendingInit \cup inited
    BY <1>3, <2>1, <2>3 DEF Reserved
  <2> QED BY <2>4
<1>4. ASSUME NEW t \in StillPending'
      PROVE  PlaceIsUsed(t)'
  <2>1. t \in pendingInit /\ t \in Listed' /\ t \notin inited'
    BY DEF StillPending
  <2>2. t \in Begun
    BY <2>1 DEF Reserved
  <2>3. t \in StillPending
    BY <2>1, <2>2 DEF StillPending
  <2>4. PlaceIsUsed(t)
    BY <2>3 DEF Reserved
  <2> QED BY <2>4
<1> QED BY <1>1, <1>2, <1>3, <1>4 DEF Reserved

LEMMA ReservedStep ==
  ASSUME TypeOK, Known, Reserved, Next
  PROVE  Reserved'
<1> USE DEF storeVars, viewVars, userVars, queueVars
<1>a. Begun \subseteq Begun'
  BY BegunStays
<1>b. Listed \subseteq Transfers
  BY SeqFacts DEF Listed, TypeOK
<1>c. Listed' \subseteq Transfers
  BY TypeStep, SeqFacts DEF Listed, TypeOK
<1>1. CASE Process
  <2>1. worker = "free" /\ pendingInit' = pendingInit
    BY <1>1, ProcessFacts
  <2>2. PICK t \in Transfers :
          \/ /\ Range(queue) = {<<"start", t>>} \cup Range(queue')
             /\ Dropped(t) \/ Taken(t)
          \/ \E op \in Others :
               /\ Range(queue) = {<<op, t>>} \cup Range(queue')
               /\ Apply(op, t) /\ UNCHANGED <<worker, starting>>
    BY <1>1, ProcessFacts
  <2>3. CASE /\ Range(queue) = {<<"start", t>>} \cup Range(queue')
             /\ Dropped(t) \/ Taken(t)
    <3>1. list' = list /\ inited' = inited /\ Listed' = Listed
          /\ StillPending' = StillPending
      BY <2>1, <2>3 DEF Dropped, Taken, Listed, StillPending
    <3>2. \A u : <<"start", u>> = <<"start", t>> <=> u = t
      OBVIOUS
    <3>3. CASE Dropped(t)
      <4>1. t \notin StillPending /\ worker' = "free"
        BY <2>1, <3>3 DEF Dropped, StillPending
      <4>2. \A u \in Transfers : PlaceIsUsed(u)' => PlaceIsUsed(u)
        BY <2>3, <4>1 DEF PlaceIsUsed
      <4>3. \A u \in StillPending' : PlaceIsUsed(u) => PlaceIsUsed(u)'
        BY <2>1, <2>3, <3>1, <3>2, <4>1 DEF PlaceIsUsed
      <4> QED BY <1>a, <1>c, <2>1, <3>1, <4>2, <4>3, ReservedKept
    <3>4. CASE Taken(t)
      <4>1. worker' = "waiting" /\ starting' = t
        BY <3>4 DEF Taken
      <4>2. \A u \in Transfers : PlaceIsUsed(u)' => PlaceIsUsed(u)
        BY <2>3, <4>1 DEF PlaceIsUsed
      <4>3. \A u \in StillPending' : PlaceIsUsed(u) => PlaceIsUsed(u)'
        BY <2>1, <2>3, <3>2, <4>1 DEF PlaceIsUsed
      <4> QED BY <1>a, <1>c, <2>1, <3>1, <4>2, <4>3, ReservedKept
    <3> QED BY <2>3, <3>3, <3>4
  <2>4. ASSUME NEW op \in Others,
               Range(queue) = {<<op, t>>} \cup Range(queue'),
               Apply(op, t), UNCHANGED <<worker, starting>>
        PROVE  Reserved'
    <3>1. /\ Listed' = IF op = "delete" THEN Listed \ {t} ELSE Listed
          /\ inited' = IF op = "delete" THEN inited \ {t} ELSE inited
      BY <2>4, ApplyFacts
    <3>2. \A u : PlaceIsUsed(u)' <=> PlaceIsUsed(u)
      <4>1. op # "start"
        BY DEF Others
      <4>2. \A u : <<"start", u>> # <<op, t>>
        BY <4>1
      <4> QED BY <2>4, <4>2 DEF PlaceIsUsed
    <3>3. \A u \in Listed' : u \in Listed /\ (u \in inited => u \in inited')
      BY <3>1
    <3> QED BY <1>a, <1>c, <2>1, <3>2, <3>3, ReservedKept
  <2> QED BY <2>2, <2>3, <2>4
<1>2. CASE ApplyStart
  <2>1. /\ worker = "waiting" /\ worker' = "free" /\ Listed' = Listed
        /\ pendingInit' = pendingInit /\ queue' = queue
        /\ inited \subseteq inited'
        /\ starting \in Listed => starting \in inited'
    BY <1>2 DEF ApplyStart, Listed
  <2>2. \A u \in Transfers : PlaceIsUsed(u)' => PlaceIsUsed(u)
    BY <2>1 DEF PlaceIsUsed
  <2>3. \A u \in StillPending' : u # starting
    BY <2>1 DEF StillPending
  <2>4. \A u \in StillPending' : PlaceIsUsed(u) => PlaceIsUsed(u)'
    BY <2>1, <2>3 DEF PlaceIsUsed
  <2> QED BY <1>a, <1>c, <2>1, <2>2, <2>4, ReservedKept
<1>3. CASE Render
  <2>1. /\ Range(queue') = Range(queue)
             \cup {<<"start", t>> : t \in Range(OneSided)}
             \cup {<<"start", t>> : t \in Range(Chosen)}
        /\ Range(OneSided) \subseteq Listed \ (Cross \cup inited)
        /\ pendingInit' = StillPending \cup Range(Chosen)
        /\ UNCHANGED <<storeVars, worker, starting, userVars, resumed>>
        /\ stage' = Staged
    BY <1>3, RenderFacts
  <2>2. Range(Chosen) \subseteq (Listed \cap Cross) \ (inited \cup StillPending)
    BY ChosenFacts
  <2>3. Listed' = Listed /\ inited' = inited
    BY <2>1 DEF Listed
  <2>4. Listed \subseteq Begun'
    BY <1>b, <2>1 DEF Staged, Begun, Gone
  <2>5. \A u : PlaceIsUsed(u)' <=>
               PlaceIsUsed(u) \/ u \in Range(OneSided) \/ u \in Range(Chosen)
    <3>1. \A u : <<"start", u>> \in Range(queue') <=>
                 \/ <<"start", u>> \in Range(queue)
                 \/ u \in Range(OneSided) \/ u \in Range(Chosen)
      BY <2>1
    <3> QED BY <2>1, <3>1 DEF PlaceIsUsed
  <2>6. pendingInit' \subseteq Begun'
    BY <1>a, <2>1, <2>2, <2>4 DEF Reserved, StillPending
  <2>7. \A u \in Transfers : PlaceIsUsed(u)' => u \in Begun'
    BY <1>a, <2>1, <2>2, <2>4, <2>5 DEF Reserved
  <2>8. ASSUME NEW u \in Cross \cap Listed', PlaceIsUsed(u)'
        PROVE  u \in pendingInit' \cup inited'
    <3>1. u \notin Range(OneSided)
      BY <2>1
    <3>2. CASE u \in Range(Chosen)
      BY <2>1, <3>2
    <3>3. CASE PlaceIsUsed(u)
      <4>1. u \in pendingInit \cup inited
        BY <2>3, <3>3 DEF Reserved
      <4> QED BY <2>1, <2>3, <4>1 DEF StillPending
    <3> QED BY <2>5, <2>8, <3>1, <3>2, <3>3
  <2>9. ASSUME NEW u \in StillPending'
        PROVE  PlaceIsUsed(u)'
    <3>1. u \in StillPending \cup Range(Chosen)
      BY <2>1 DEF StillPending
    <3>2. CASE u \in StillPending
      <4>1. PlaceIsUsed(u)
        BY <3>2 DEF Reserved
      <4> QED BY <2>5, <4>1
    <3>3. CASE u \in Range(Chosen)
      BY <2>5, <3>3
    <3> QED BY <3>1, <3>2, <3>3
  <2> QED BY <2>6, <2>7, <2>8, <2>9 DEF Reserved
<1>4. ASSUME NEW t \in Transfers, NEW op \in Others, AddToQueue(op, t),
             UNCHANGED <<storeVars, worker, starting, viewVars>>
      PROVE  Reserved'
  <2>1. Range(queue') = Range(queue) \cup {<<op, t>>}
    BY <1>4, OtherAdded
  <2>2. Listed' = Listed /\ inited' = inited /\ pendingInit' = pendingInit
    BY <1>4 DEF Listed
  <2>3. \A u : PlaceIsUsed(u)' <=> PlaceIsUsed(u)
    <3>1. op # "start"
      BY DEF Others
    <3>2. \A u : <<"start", u>> # <<op, t>>
      BY <3>1
    <3> QED BY <1>4, <2>1, <3>2 DEF PlaceIsUsed
  <2> QED BY <1>a, <1>c, <2>2, <2>3, ReservedKept
<1>5. ASSUME pendingInit' = pendingInit, UNCHANGED <<queue, worker, starting>>,
             \A t \in Listed' : /\ t \in Listed \/ t \notin Begun
                                /\ t \in inited => t \in inited'
      PROVE  Reserved'
  <2>1. \A u : PlaceIsUsed(u)' <=> PlaceIsUsed(u)
    BY <1>5 DEF PlaceIsUsed
  <2> QED BY <1>a, <1>c, <1>5, <2>1, ReservedKept
<1>6. ASSUME NEW t \in Transfers, Goes(t)
      PROVE  Reserved'
  <2>1. CASE queue' = queue
    <3>1. Listed' = Listed /\ inited' = inited /\ pendingInit' = pendingInit
          /\ UNCHANGED <<queue, worker, starting>>
      BY <1>6, <2>1 DEF Goes, Listed
    <3> QED BY <1>5, <3>1
  <2>2. CASE AddToQueue("delete", t)
    <3>1. PICK op \in Others : op = "delete"
      BY DEF Others
    <3>2. AddToQueue(op, t) /\ UNCHANGED <<storeVars, worker, starting, viewVars>>
      BY <1>6, <2>2, <3>1 DEF Goes
    <3> QED BY <1>4, <3>2
  <2> QED BY <1>6, <2>1, <2>2 DEF Goes
<1>7. ASSUME NEW t \in Transfers, Add(t)
      PROVE  Reserved'
  <2>1. /\ Listed' = Listed \cup {t} /\ t \notin Begun
        /\ UNCHANGED <<inited, pausing, queueVars, viewVars, stage, held, userVars, resumed>>
    BY <1>7, AddFacts
  <2> QED BY <1>5, <2>1
<1>8. ASSUME NEW t \in Transfers, ItemButton(t)
      PROVE  Reserved'
  <2>1. PICK op \in Others : AddToQueue(op, t)
    BY <1>8, ButtonFacts
  <2>2. UNCHANGED <<storeVars, worker, starting, viewVars>>
    BY <1>8, ButtonFacts
  <2> QED BY <1>4, <2>1, <2>2
<1>9. ASSUME NEW t \in Transfers, NEW u \in Transfers, Drop(t, u)
      PROVE  Reserved'
  <2>1. Listed' = Listed /\ inited' = inited /\ pendingInit' = pendingInit
        /\ UNCHANGED <<queue, worker, starting>>
    BY <1>9, DropFacts
  <2> QED BY <1>5, <2>1
<1>10. CASE PauseAll \/ ResumeAll
  <2>1. Listed' = Listed /\ inited' = inited /\ pendingInit' = pendingInit
        /\ UNCHANGED <<queue, worker, starting>>
    BY <1>10 DEF PauseAll, ResumeAll, Listed
  <2> QED BY <1>5, <2>1
<1>11. CASE CancelAll
  <2>1. Listed' = {} /\ pendingInit' = pendingInit /\ queue' = queue
    BY <1>11, NoneListed DEF CancelAll, Listed
  <2>2. worker' = "waiting" => worker = "waiting" /\ starting' = starting
    BY <1>11 DEF CancelAll
  <2>3. \A u \in Transfers : PlaceIsUsed(u)' => PlaceIsUsed(u)
    BY <2>1, <2>2 DEF PlaceIsUsed
  <2>4. StillPending' = {}
    BY <2>1 DEF StillPending
  <2> QED BY <1>a, <1>c, <2>1, <2>3, <2>4, ReservedKept
<1> QED
  BY <1>1, <1>2, <1>3, <1>6, <1>7, <1>8, <1>9, <1>10, <1>11, ComponentGoes
  DEF Next, User

(* What the control counts only gets less, as long as nothing resumes.     *)
LEMMA CountedKept ==
  ASSUME TypeOK, Counted, Active' \subseteq Active, ~resumed
  PROVE  Counted'
<1>1. IsFiniteSet(Active) /\ Cardinality(Active) \in Nat
  BY ChosenFacts
<1>2. PICK S \in SUBSET Active : S = Active'
  OBVIOUS
<1>3. Cardinality(S) <= Cardinality(Active)
  BY <1>1, FS_Subset
<1>4. IsFiniteSet(S)
  BY <1>1, FS_Subset
<1>5. Cardinality(S) \in Nat
  BY <1>4, FS_CardinalityType
<1>6. Cardinality(Active) <= MaxTransport
  BY DEF Counted
<1>7. Cardinality(S) <= MaxTransport
  BY <1>1, <1>3, <1>5, <1>6
<1> QED BY <1>2, <1>7 DEF Counted

LEMMA CountedStep ==
  ASSUME TypeOK, Known, Reserved, Counted, Next
  PROVE  Counted'
<1> USE DEF storeVars, viewVars, userVars, queueVars
<1>a. SUFFICES ASSUME ~resumed' PROVE Counted'
  BY DEF Counted
<1>b. ASSUME ~resumed, pendingInit' = pendingInit, Listed' \subseteq Listed,
             \A t \in Listed' : t \in pausing => t \in pausing',
             \A t \in Listed' \cap Cross : t \in inited' => t \in inited \cup pendingInit
      PROVE  Counted'
  <2>1. ASSUME NEW t \in Active' PROVE t \in Active
    <3>1. /\ t \in Listed' \cap Cross /\ t \notin pausing'
          /\ t \in inited' \/ t \in pendingInit
      BY <1>b DEF Active, StillPending
    <3>2. t \in inited \cup pendingInit
      BY <1>b, <3>1
    <3> QED BY <1>b, <3>1, <3>2 DEF Active, StillPending
  <2> QED BY <1>b, <2>1, CountedKept
<1>c. ASSUME Active' = {}
      PROVE  Counted'
  <2>1. Cardinality({}) = 0
    BY FS_EmptySet
  <2>2. Cardinality(Active') <= MaxTransport
    BY <1>c, <2>1
  <2> QED BY <2>2 DEF Counted
<1>0. CASE UNCHANGED <<list, inited, pausing, pendingInit, resumed>>
  <2>1. Listed' = Listed
    BY <1>0 DEF Listed
  <2> QED BY <1>a, <1>b, <1>0, <2>1
<1>1. CASE Process
  <2>1. pendingInit' = pendingInit
    BY <1>1, ProcessFacts
  <2>2. PICK t \in Transfers :
          \/ Dropped(t) \/ Taken(t)
          \/ \E op \in Others : Apply(op, t) /\ UNCHANGED <<worker, starting>>
    BY <1>1, ProcessFacts
  <2>3. CASE Dropped(t) \/ Taken(t)
    BY <1>0, <2>1, <2>3 DEF Dropped, Taken
  <2>4. ASSUME NEW op \in Others, Apply(op, t)
        PROVE  Counted'
    <3>1. /\ Listed' = IF op = "delete" THEN Listed \ {t} ELSE Listed
          /\ inited' = IF op = "delete" THEN inited \ {t} ELSE inited
          /\ ~resumed' => ~resumed /\ \A u \in Listed' : u \in pausing => u \in pausing'
      BY <2>4, ApplyFacts
    <3>2. /\ \A u \in Listed' : u \in Listed
          /\ \A u \in inited' : u \in inited
          /\ \A u \in inited : u \in Listed' => u \in inited'
      BY <3>1
    <3> QED BY <1>a, <1>b, <2>1, <3>1, <3>2
  <2> QED BY <2>2, <2>3, <2>4
<1>2. CASE ApplyStart
  <2>1. /\ worker = "waiting" /\ Listed' = Listed
        /\ pendingInit' = pendingInit /\ pausing' = pausing /\ resumed' = resumed
        /\ inited' = IF starting \in Listed THEN inited \cup {starting} ELSE inited
    BY <1>2 DEF ApplyStart, Listed
  <2>2. starting \in Cross \cap Listed => starting \in pendingInit \cup inited
    BY <2>1 DEF Reserved, PlaceIsUsed
  <2>3. \A t \in Listed' \cap Cross : t \in inited' => t \in inited \cup pendingInit
    BY <2>1, <2>2
  <2> QED BY <1>a, <1>b, <2>1, <2>3
<1>3. CASE Render
  <2>1. /\ pendingInit' = StillPending \cup Range(Chosen)
        /\ UNCHANGED <<storeVars, worker, starting, userVars, resumed>>
    BY <1>3, RenderFacts
  <2>2. /\ IsFiniteSet(Active) /\ IsFiniteSet(Range(Chosen))
        /\ Cardinality(Active) \in Nat /\ Cardinality(Range(Chosen)) \in Nat
        /\ \/ Chosen = << >>
           \/ Cardinality(Range(Chosen)) <= MaxTransport - Cardinality(Active)
    BY ChosenFacts
  <2>3. Active' \subseteq Active \cup Range(Chosen)
    <3>1. Listed' = Listed /\ inited' = inited /\ pausing' = pausing
      BY <2>1 DEF Listed
    <3>2. StillPending' \subseteq StillPending \cup Range(Chosen)
      BY <2>1 DEF StillPending
    <3> QED BY <3>1, <3>2 DEF Active
  <2>4. ~resumed /\ Cardinality(Active) <= MaxTransport
    BY <1>a, <2>1 DEF Counted
  <2>5. CASE Chosen = << >>
    <3>1. Active' \subseteq Active
      BY <2>3, <2>5, NoneListed
    <3> QED BY <2>4, <3>1, CountedKept
  <2>6. CASE Cardinality(Range(Chosen)) <= MaxTransport - Cardinality(Active)
    <3>1. PICK A : A = Active
      OBVIOUS
    <3>2. PICK C : C = Range(Chosen)
      OBVIOUS
    <3>3. PICK S : S = Active'
      OBVIOUS
    <3>4. /\ IsFiniteSet(A \cup C)
          /\ Cardinality(A \cup C)
             = Cardinality(A) + Cardinality(C) - Cardinality(A \cap C)
      BY <2>2, <3>1, <3>2, FS_Union
    <3>5. Cardinality(A \cap C) \in Nat
      <4>1. IsFiniteSet(A \cap C)
        BY <2>2, <3>1, FS_Intersection
      <4> QED BY <4>1, FS_CardinalityType
    <3>6. S \in SUBSET (A \cup C)
      BY <2>3, <3>1, <3>2, <3>3
    <3>7. IsFiniteSet(S) /\ Cardinality(S) <= Cardinality(A \cup C)
      BY <3>4, <3>6, FS_Subset
    <3>8. Cardinality(S) \in Nat
      BY <3>7, FS_CardinalityType
    <3>9. Cardinality(A) \in Nat /\ Cardinality(C) \in Nat
          /\ Cardinality(C) <= MaxTransport - Cardinality(A)
      BY <2>2, <2>6, <3>1, <3>2
    <3>10. Cardinality(S) <= MaxTransport
      BY <3>4, <3>5, <3>7, <3>8, <3>9
    <3> QED BY <3>3, <3>10 DEF Counted
  <2> QED BY <2>2, <2>5, <2>6
<1>4. ASSUME NEW t \in Transfers, Goes(t)
      PROVE  Counted'
  BY <1>0, <1>4 DEF Goes
<1>5. ASSUME NEW t \in Transfers, Add(t)
      PROVE  Counted'
  <2>1. /\ Listed' = Listed \cup {t} /\ t \notin Begun
        /\ UNCHANGED <<inited, pausing, queueVars, viewVars, stage, held, userVars, resumed>>
    BY <1>5, AddFacts
  <2>2. ASSUME NEW u \in Active' PROVE u \in Active
    <3>1. /\ u \in Listed' \cap Cross /\ u \notin pausing
          /\ u \in inited \/ u \in pendingInit
      BY <2>1 DEF Active, StillPending
    <3>2. u \in Listed
      BY <2>1, <3>1 DEF Known, Reserved
    <3> QED BY <3>1, <3>2 DEF Active, StillPending
  <2> QED BY <1>a, <2>1, <2>2, CountedKept
<1>6. ASSUME NEW t \in Transfers, ItemButton(t)
      PROVE  Counted'
  BY <1>0, <1>6, ButtonFacts
<1>7. ASSUME NEW t \in Transfers, NEW u \in Transfers, Drop(t, u)
      PROVE  Counted'
  <2>1. Listed' = Listed
        /\ UNCHANGED <<inited, pausing, queueVars, viewVars, stage, held, allPaused, resumed>>
    BY <1>7, DropFacts
  <2> QED BY <1>a, <1>b, <2>1
<1>8. CASE PauseAll
  <2>1. Active' = {}
    BY <1>8 DEF PauseAll, Active, Listed
  <2> QED BY <1>c, <2>1
<1>9. CASE ResumeAll
  <2>1. /\ Listed' = Listed /\ inited' = inited /\ pendingInit' = pendingInit
        /\ resumed' = (resumed \/ pausing # {})
    BY <1>9 DEF ResumeAll, Listed
  <2>2. ~resumed /\ pausing = {}
    BY <1>a, <2>1
  <2> QED BY <1>b, <2>1, <2>2
<1>10. CASE CancelAll
  <2>1. Active' = {}
    BY <1>10, NoneListed DEF CancelAll, Active, Listed
  <2> QED BY <1>c, <2>1
<1> QED
  BY <1>1, <1>2, <1>3, <1>4, <1>5, <1>6, <1>7, <1>8, <1>9, <1>10, ComponentGoes
  DEF Next, User

-----------------------------------------------------------------------------

LEMMA PlaceInit == Init => PlaceInv
<1> SUFFICES ASSUME Init PROVE PlaceInv
  OBVIOUS
<1>1. Listed = {} /\ Range(queue) = {} /\ inited = {} /\ pendingInit = {}
      /\ worker = "free"
  BY NoneListed DEF Init, Listed, Range
<1>2. TypeOK
  BY TypeInit
<1>3. Known /\ Reserved
  BY <1>1 DEF Known, Reserved, PlaceIsUsed, StillPending
<1>4. Active = {}
  BY <1>1 DEF Active
<1>5. Cardinality({}) = 0
  BY FS_EmptySet
<1>6. Counted
  BY <1>4, <1>5 DEF Counted
<1> QED BY <1>2, <1>3, <1>6 DEF PlaceInv

LEMMA PlaceStep == PlaceInv /\ [Next]_vars => PlaceInv'
<1> SUFFICES ASSUME PlaceInv, [Next]_vars PROVE PlaceInv'
  OBVIOUS
<1>1. CASE Next
  BY <1>1, TypeStep, KnownStep, ReservedStep, CountedStep DEF PlaceInv
<1>2. CASE UNCHANGED vars
  <2>1. TypeOK'
    BY <1>2 DEF PlaceInv, vars, storeVars, queueVars, viewVars, userVars, TypeOK
  <2>2. Listed' = Listed /\ Begun' = Begun /\ StillPending' = StillPending
        /\ Active' = Active /\ \A t : PlaceIsUsed(t)' <=> PlaceIsUsed(t)
    BY <1>2 DEF vars, storeVars, queueVars, viewVars, userVars, Listed, Begun,
                StillPending, Active, PlaceIsUsed
  <2>3. Known' /\ Reserved' /\ Counted'
    BY <1>2, <2>2 DEF PlaceInv, vars, storeVars, queueVars, viewVars, userVars,
                      Known, Reserved, Counted
  <2> QED BY <2>1, <2>3 DEF PlaceInv
<1> QED BY <1>1, <1>2

(* What is at work is counted.                                             *)
LEMMA WorkIsCounted == PlaceInv => PlacesKept
<1> SUFFICES ASSUME PlaceInv PROVE PlacesKept
  OBVIOUS
<1>1. AtWork \subseteq Active
  BY DEF AtWork, Active, PlaceInv, Known, Working
<1>2. IsFiniteSet(Active) /\ Cardinality(Active) \in Nat
  BY ChosenFacts DEF PlaceInv
<1>3. IsFiniteSet(AtWork) /\ Cardinality(AtWork) <= Cardinality(Active)
  BY <1>1, <1>2, FS_Subset
<1>4. Cardinality(AtWork) \in Nat
  BY <1>3, FS_CardinalityType
<1>5. ~resumed => LimitKept
  BY <1>2, <1>3, <1>4 DEF PlaceInv, Counted, LimitKept
<1> QED BY <1>5 DEF PlacesKept, PlaceInv, Reserved

(* Each variable has its type, and an item is listed once, also when it is *)
(* put on top or dropped on another one (transfer-queue.jsx, Drop).        *)
THEOREM TypeCorrect == Spec => []TypeOK
<1>1. Init => PlaceInv
  BY PlaceInit
<1>2. PlaceInv /\ [Next]_vars => PlaceInv'
  BY PlaceStep
<1>3. PlaceInv => TypeOK
  BY DEF PlaceInv
<1> QED BY <1>1, <1>2, <1>3, PTL DEF Spec

(* As long as none was paused and resumed, the transfers between two sides *)
(* that are at work are within the limit of transports-action-store.jsx,   *)
(* and whatever it has reserved a place for has a start under way.         *)
THEOREM PlacesAreKept == Spec => []PlacesKept
<1>1. Init => PlaceInv
  BY PlaceInit
<1>2. PlaceInv /\ [Next]_vars => PlaceInv'
  BY PlaceStep
<1>3. PlaceInv => PlacesKept
  BY WorkIsCounted
<1> QED BY <1>1, <1>2, <1>3, PTL DEF Spec
=============================================================================
