----------------------------- MODULE FrontProofs -----------------------------
(***************************************************************************)
(* The rate limiter, alone and in front of the handlers: for every set of  *)
(* addresses, rate, burst, cost and size of the map, and whatever the      *)
(* handlers do.                                                            *)
(***************************************************************************)
EXTENDS Front, FiniteSetTheorems, SequenceTheorems, TLAPS

(* What was paid with a bucket and what is left in it is covered by the    *)
(* burst and what the rate brought until the bucket was last seen.         *)
Accounted ==
    \A i \in DOMAIN buckets :
        /\ born[i] <= buckets[i].lastSeen
        /\ spent[i] + buckets[i].tokens
             <= Burst + Rate * (buckets[i].lastSeen - born[i])

IInv == TypeOK /\ IsFiniteSet(DOMAIN buckets) /\ Accounted

-----------------------------------------------------------------------------
(* Time at a rate *)

(* What a rate brings in two spans is what it brings in both together.     *)
LEMMA RateAdds ==
    ASSUME NEW a \in Nat, NEW b \in Nat, NEW c \in Nat, a <= b, b <= c
    PROVE  /\ Rate * (b - a) + (c - b) * Rate = Rate * (c - a)
           /\ Rate * (b - a) \in Nat /\ (c - b) * Rate \in Nat
           /\ Rate * (c - a) \in Nat /\ Rate * (b - a) <= Rate * (c - a)
<1>1. Rate \in Nat /\ b - a \in Nat /\ c - b \in Nat
  BY ConstantsAssumption
<1>2. \A x, y, z \in Nat : x * y + z * x = x * (y + z) /\ x * y \in Nat /\ z * x \in Nat
  OBVIOUS
<1>3. c - a = (b - a) + (c - b)
  OBVIOUS
<1> QED
  BY <1>1, <1>2, <1>3

(* The tokens after the refill are tokens, and accounted for.              *)
LEMMA RefillAccounted ==
    ASSUME IInv, NEW i \in IP
    PROVE  /\ Refilled(i) \in 0 .. Burst
           /\ Known(i) => /\ i \in DOMAIN buckets /\ born[i] <= now
                          /\ spent[i] + Refilled(i) <= Burst + Rate * (now - born[i])
<1> USE ConstantsAssumption DEF IInv, TypeOK
<1>1. CASE ~Known(i)
  BY <1>1 DEF Refilled
<1>2. CASE Known(i)
  <2>1. /\ i \in DOMAIN buckets /\ buckets[i].tokens \in 0 .. Burst
        /\ buckets[i].lastSeen \in 0 .. now /\ born[i] \in Nat /\ now \in Nat
        /\ spent[i] \in Nat
    BY <1>2 DEF Known
  <2>2. /\ born[i] <= buckets[i].lastSeen
        /\ spent[i] + buckets[i].tokens
             <= Burst + Rate * (buckets[i].lastSeen - born[i])
    BY <2>1 DEF Accounted
  <2> DEFINE gain == (now - buckets[i].lastSeen) * Rate
             before == Rate * (buckets[i].lastSeen - born[i])
  <2>3. gain \in Nat /\ before \in Nat /\ before + gain = Rate * (now - born[i])
    BY <2>1, <2>2, RateAdds
  <2>4. Refilled(i) = Lesser(buckets[i].tokens + gain, Burst)
    BY <1>2 DEF Refilled
  <2> HIDE DEF gain, before
  <2>5. Refilled(i) \in 0 .. Burst /\ Refilled(i) <= buckets[i].tokens + gain
    BY <2>1, <2>3, <2>4 DEF Lesser
  <2>6. spent[i] + buckets[i].tokens <= Burst + before
    BY <2>2 DEF before
  <2>7. spent[i] + Refilled(i) <= Burst + (before + gain)
    BY <2>1, <2>3, <2>5, <2>6
  <2> QED
    BY <2>1, <2>2, <2>3, <2>5, <2>7
<1> QED
  BY <1>1, <1>2

-----------------------------------------------------------------------------

(* There are no buckets at first. *)
LEMMA InitIInv == Init => IInv
  BY ConstantsAssumption, FS_EmptySet DEF Init, IInv, TypeOK, Accounted

(* The map of a request holds at most MaxIPs buckets: the others were less *)
(* than that, or have been thrown away.                                    *)
LEMMA MapBounded ==
    ASSUME IInv, NEW i \in IP
    PROVE  /\ IsFiniteSet(Others(i) \cup {i})
           /\ Cardinality(Others(i) \cup {i}) <= MaxIPs
<1> USE ConstantsAssumption
<1>0. IsFiniteSet(DOMAIN buckets) /\ Cardinality(DOMAIN buckets) \in Nat
  BY FS_CardinalityType DEF IInv
<1>1. CASE Full
  <2>1. Others(i) \cup {i} = {i}
    BY <1>1 DEF Others
  <2>2. IsFiniteSet({i}) /\ Cardinality({i}) = 1
    BY FS_Singleton
  <2> QED
    BY <2>1, <2>2
<1>2. CASE ~Full
  <2>1. Others(i) \cup {i} = DOMAIN buckets \cup {i}
    BY <1>2 DEF Others
  <2>2. Cardinality(DOMAIN buckets) < MaxIPs
    BY <1>0, <1>2 DEF Full
  <2> QED
    BY <1>0, <2>1, <2>2, FS_AddElement
<1> QED
  BY <1>1, <1>2

(* A request pays from a bucket that covers it. *)
LEMMA AllowStep ==
    ASSUME IInv, NEW i \in IP, Allow(i)
    PROVE  IInv'
<1> USE ConstantsAssumption
<1> DEFINE paid == IF Allowed(i) THEN Cost ELSE 0
           mine == [tokens |-> Refilled(i) - paid, lastSeen |-> now]
<1>1. /\ Refilled(i) \in 0 .. Burst
      /\ Known(i) => /\ i \in DOMAIN buckets /\ born[i] <= now
                     /\ spent[i] + Refilled(i) <= Burst + Rate * (now - born[i])
  BY RefillAccounted
<1>2. /\ buckets' = [j \in Others(i) \cup {i} |-> IF j = i THEN mine ELSE buckets[j]]
      /\ spent' = [spent EXCEPT ![i] = IF Known(i) THEN @ + paid ELSE paid]
      /\ born' = [born EXCEPT ![i] = IF Known(i) THEN @ ELSE now]
      /\ now' = now /\ asked' = asked + 1 /\ asked < MaxRequests
  BY DEF Allow
<1>3. paid \in Nat /\ paid <= Refilled(i)
  BY <1>1 DEF Allowed
<1> HIDE DEF paid
<1>4. mine \in [tokens : 0 .. Burst, lastSeen : 0 .. now]
  BY <1>1, <1>3 DEF IInv, TypeOK
<1>5. Others(i) \subseteq DOMAIN buckets /\ i \notin Others(i)
  BY DEF Others
<1>6. TypeOK'
  <2>1. Cardinality(DOMAIN buckets') <= MaxIPs
    BY <1>2, MapBounded
  <2>2. /\ DOMAIN buckets' \subseteq IP
        /\ \A j \in DOMAIN buckets' : buckets'[j] \in [tokens : 0 .. Burst, lastSeen : 0 .. now]
    BY <1>2, <1>4, <1>5 DEF IInv, TypeOK
  <2>3. spent' \in [IP -> Nat] /\ born' \in [IP -> Nat] /\ asked' \in 0 .. MaxRequests
    BY <1>2, <1>3 DEF IInv, TypeOK
  <2> QED
    BY <1>2, <2>1, <2>2, <2>3 DEF IInv, TypeOK
<1>7. ASSUME NEW j \in DOMAIN buckets'
      PROVE  /\ born'[j] <= buckets'[j].lastSeen
             /\ spent'[j] + buckets'[j].tokens
                  <= Burst + Rate * (buckets'[j].lastSeen - born'[j])
  <2>1. CASE j # i
    BY <1>2, <1>5, <1>7, <2>1 DEF IInv, Accounted, TypeOK
  <2>2. CASE j = i
    <3>1. buckets'[i].tokens = Refilled(i) - paid /\ buckets'[i].lastSeen = now
      BY <1>2
    <3>2. spent[i] \in Nat /\ born[i] \in Nat /\ now \in Nat
      BY DEF IInv, TypeOK
    <3>3. CASE Known(i)
      <4>1. spent'[i] = spent[i] + paid /\ born'[i] = born[i]
        BY <1>2, <3>3 DEF IInv, TypeOK
      <4>2. spent'[i] + buckets'[i].tokens = spent[i] + Refilled(i)
        BY <1>1, <1>3, <3>1, <3>2, <4>1
      <4> QED
        BY <1>1, <2>2, <3>1, <3>3, <4>1, <4>2
    <3>4. CASE ~Known(i)
      <4>1. spent'[i] = paid /\ born'[i] = now
        BY <1>2, <3>4 DEF IInv, TypeOK
      <4>2. spent'[i] + buckets'[i].tokens = Refilled(i)
        BY <1>1, <1>3, <3>1, <4>1
      <4>3. Rate * (now - now) = 0
        BY <3>2
      <4> QED
        BY <1>1, <2>2, <3>1, <3>2, <4>1, <4>2, <4>3
    <3> QED
      BY <3>3, <3>4
  <2> QED
    BY <2>1, <2>2
<1>8. IsFiniteSet(DOMAIN buckets')
  BY <1>2, MapBounded
<1> QED
  BY <1>6, <1>7, <1>8 DEF IInv, Accounted

(* The inductive invariant of the limiter holds in every reachable state.  *)
LEMMA LimiterIInv == IInv /\ [Next]_vars => IInv'
<1> SUFFICES ASSUME IInv, [Next]_vars PROVE IInv'
  OBVIOUS
<1>1. CASE Tick
  BY <1>1, ConstantsAssumption DEF Tick, IInv, TypeOK, Accounted
<1>2. CASE \E i \in IP : Allow(i)
  BY <1>2, AllowStep
<1>3. CASE UNCHANGED vars
  BY <1>3 DEF vars, IInv, TypeOK, Accounted
<1> QED
  BY <1>1, <1>2, <1>3 DEF Next

(* A bucket that is accounted for has not paid more than its budget.       *)
LEMMA AccountedWithin == IInv => WithinBudget
<1> SUFFICES ASSUME IInv, NEW i \in DOMAIN buckets
             PROVE  spent[i] <= Burst + Rate * (now - born[i])
  BY DEF IInv, TypeOK, WithinBudget
<1>1. /\ buckets[i].tokens \in Nat /\ buckets[i].lastSeen \in Nat
      /\ buckets[i].lastSeen <= now
      /\ born[i] \in Nat /\ now \in Nat /\ spent[i] \in Nat
  BY ConstantsAssumption DEF IInv, TypeOK
<1>2. /\ born[i] <= buckets[i].lastSeen
      /\ spent[i] + buckets[i].tokens <= Burst + Rate * (buckets[i].lastSeen - born[i])
  BY DEF IInv, Accounted
<1>3. /\ Rate * (buckets[i].lastSeen - born[i]) <= Rate * (now - born[i])
      /\ Rate * (buckets[i].lastSeen - born[i]) \in Nat
      /\ Rate * (now - born[i]) \in Nat
  BY <1>1, <1>2, RateAdds
<1> QED
  BY <1>1, <1>2, <1>3, ConstantsAssumption

(* The token bucket: with one bucket an address never pays more than the   *)
(* burst and what the rate brought since the bucket was made, and the map  *)
(* never has more entries than its limit.                                  *)
THEOREM LimiterBudget == Spec => []WithinBudget
  BY InitIInv, LimiterIInv, AccountedWithin, PTL DEF Spec

(* A request through LimitMiddleware is one call of Allow, whatever the    *)
(* handler does: the budget holds for the whole front.                     *)
THEOREM FrontBudget == FSpec => []WithinBudget
<1>1. FInit => Init
  BY DEF FInit
<1>2. [FNext]_allVars => [Next]_vars
  BY DEF FNext, FTick, LimitMiddleware, Next, allVars
<1> QED
  BY <1>1, <1>2, InitIInv, LimiterIInv, AccountedWithin, PTL DEF FSpec

-----------------------------------------------------------------------------
(* Pages.  Until a row is lost the table is a sequence of entries, and the *)
(* client has a sequence of hashes.                                        *)

Entry == [hash : Hash, created_at : Int, completions : Int, fits : BOOLEAN]

IsSeq(s) == \E S : s \in Seq(S)

FTypes == /\ sort \in Sorts /\ want \in Nat /\ changes \in Nat /\ now \in Int
          /\ ~lost => rows \in Seq(Entry) /\ IsSeq(got)

(* While nothing has changed the client has a part of the result, from its *)
(* beginning, and at the end the whole.                                    *)
Paged == changes = 0 =>
    /\ rows = first /\ ~lost
    /\ Len(got) <= Len(Result(first))
    /\ \A k \in 1 .. Len(got) : got[k] = Result(first)[k].hash
    /\ ended => Len(got) = Len(Result(first))

(* Newest first, a row the client is waiting for is on a later page.       *)
Ages(t)    == [k \in DOMAIN t |-> t[k].created_at]
Later(k)   == Rank(rows, Ages(rows), k) > Len(got)
Awaited(h) == \E k \in Matching(rows) : rows[k].hash = h /\ (Later(k) \/ h \in Got)
Kept == sort = "created_at" /\ ~lost =>
    \A i \in DOMAIN first : first[i].fits => Awaited(first[i].hash)

PInv == FTypes /\ Paged /\ Kept /\ NoRowMissed

(* The rows that match are finitely many, and Sorted lists them.           *)
LEMMA MatchingFinite ==
    ASSUME NEW s, IsSeq(s)
    PROVE  /\ DOMAIN s = 1 .. Len(s) /\ Len(s) \in Nat
           /\ IsFiniteSet(Matching(s)) /\ Cardinality(Matching(s)) \in Nat
<1>1. DOMAIN s = 1 .. Len(s) /\ Len(s) \in Nat
  BY LenProperties DEF IsSeq
<1>2. IsFiniteSet(1 .. Len(s))
  BY <1>1, FS_Interval
<1>3. Matching(s) \in SUBSET (1 .. Len(s))
  BY <1>1 DEF Matching
<1>4. IsFiniteSet(Matching(s))
  BY <1>2, <1>3, FS_Subset
<1> QED
  BY <1>1, <1>4, FS_CardinalityType

LEMMA SortedSeq ==
    ASSUME NEW s, IsSeq(s), NEW key
    PROVE  IsSeq(Sorted(s, key)) /\ Len(Sorted(s, key)) = Cardinality(Matching(s))
<1> DEFINE n == Cardinality(Matching(s))
           r == Sorted(s, key)
           R == {r[k] : k \in 1 .. n}
<1>1. n \in Nat
  BY MatchingFinite
<1>2. DOMAIN r = 1 .. n /\ r = [k \in 1 .. n |-> r[k]]
  BY DEF Sorted
<1> HIDE DEF n, r
<1>3. r \in [1 .. n -> R]
  BY <1>2
<1>4. r \in Seq(R)
  BY <1>1, <1>3, SeqDef
<1>5. Len(r) \in Nat /\ 1 .. Len(r) = 1 .. n
  BY <1>2, <1>4, LenProperties
<1>6. Len(r) = n
  BY <1>1, <1>5
<1> QED
  BY <1>4, <1>6 DEF IsSeq, n, r

(* LIMIT and OFFSET. *)
LEMMA WindowFacts ==
    ASSUME NEW s, IsSeq(s), NEW offset \in Nat, NEW n \in Nat, NEW p, p = Window(s, offset, n)
    PROVE  /\ IsSeq(p) /\ Len(p) \in Nat /\ Len(s) \in Nat
           /\ Len(p) = IF offset >= Len(s) THEN 0 ELSE Lesser(offset + n, Len(s)) - offset
           /\ \A k \in 1 .. Len(p) : offset + k \in 1 .. Len(s) /\ p[k] = s[offset + k]
<1>1. PICK S : s \in Seq(S)
  BY DEF IsSeq
<1> DEFINE m == Lesser(offset + n, Len(s))
<1>2. Len(s) \in Nat /\ \A k \in 1 .. Len(s) : s[k] \in S
  BY <1>1, LenProperties, ElementOfSeq
<1>3. m \in Nat /\ m <= Len(s) /\ m <= offset + n /\ (m = Len(s) \/ m = offset + n)
  BY <1>2 DEF Lesser
<1> HIDE DEF m
<1>4. \A k \in offset + 1 .. m : s[k] \in S
  BY <1>2, <1>3
<1>5. p = SubSeq(s, offset + 1, m)
  BY DEF Window, m
<1>6. /\ p \in Seq(S)
      /\ Len(p) = IF offset + 1 <= m THEN m - (offset + 1) + 1 ELSE 0
      /\ \A k \in 1 .. m - (offset + 1) + 1 : p[k] = s[(offset + 1) + k - 1]
  BY <1>3, <1>4, <1>5, SubSeqProperties
<1>7. IsSeq(p) /\ Len(p) \in Nat
  BY <1>6, LenProperties DEF IsSeq
<1>8. Len(p) = IF offset >= Len(s) THEN 0 ELSE m - offset
  BY <1>2, <1>3, <1>6
<1>9. ASSUME NEW k \in 1 .. Len(p) PROVE offset + k \in 1 .. Len(s) /\ p[k] = s[offset + k]
  <2>1. k \in 1 .. m - (offset + 1) + 1 /\ (offset + 1) + k - 1 = offset + k
    BY <1>3, <1>6
  <2>2. offset + k \in 1 .. Len(s)
    BY <1>2, <1>3, <2>1
  <2> QED
    BY <1>6, <2>1, <2>2
<1> QED
  BY <1>2, <1>7, <1>8, <1>9 DEF m

LEMMA ResultSeq == ASSUME NEW t, IsSeq(t), sort \in Sorts PROVE IsSeq(Result(t))
<1>1. IsSeq(Newest(t))
  BY SortedSeq DEF Newest
<1>2. IsSeq(Window(Newest(t), 0, ScanCap))
  BY <1>1, WindowFacts, FrontAssumption
<1>3. CASE sort = "created_at"
  BY <1>1, <1>3 DEF Result
<1>4. CASE sort = "completions"
  BY <1>4, SortedSeq DEF Result
<1>5. CASE sort = "seeders"
  <2> DEFINE s == Window(Newest(t), 0, ScanCap)
  <2>1. Result(t) = Sorted(s, Keys(s, sort))
    BY <1>5 DEF Result
  <2> HIDE DEF s
  <2>2. IsSeq(Sorted(s, Keys(s, sort)))
    BY <1>2, SortedSeq DEF s
  <2> QED
    BY <2>1, <2>2
<1> QED
  BY <1>3, <1>4, <1>5 DEF Sorts

LEMMA LimitPositive == ASSUME want \in Nat PROVE Limit \in Nat /\ Limit > 0
  BY FrontAssumption DEF Limit, Lesser

LEMMA Joined ==
    ASSUME NEW a, IsSeq(a), NEW b, IsSeq(b), NEW c, c = a \o b
    PROVE  /\ IsSeq(c) /\ Len(c) = Len(a) + Len(b)
           /\ \A k \in 1 .. Len(a) + Len(b) : c[k] = IF k <= Len(a) THEN a[k] ELSE b[k - Len(a)]
<1>1. PICK A, B : a \in Seq(A) /\ b \in Seq(B)
  BY DEF IsSeq
<1>2. PICK S : S = A \cup B
  OBVIOUS
<1>3. a \in Seq(S) /\ b \in Seq(S)
  BY <1>1, <1>2, SeqMonotonic
<1> QED
  BY <1>3, ConcatProperties DEF IsSeq

(* What a client has after one more page. *)
LEMMA OnePage ==
    ASSUME FTypes, ~lost, HandleSearch
    PROVE  LET r == Result(rows) IN
           /\ IsSeq(r) /\ IsSeq(got') /\ Len(got) \in Nat /\ Len(r) \in Nat /\ Len(got') \in Nat
           /\ Len(got) <= Len(got')
           /\ \A k \in 1 .. Len(got) : got'[k] = got[k]
           /\ \A k \in 1 .. Len(got') : k > Len(got) => k \in 1 .. Len(r) /\ got'[k] = r[k].hash
           /\ ended' <=> Len(got) >= Len(r)
<1> DEFINE r == Result(rows)
           page == Page(Len(got))
           more == [k \in DOMAIN page |-> page[k].hash]
<1>1. IsSeq(r) /\ IsSeq(got)
  BY ResultSeq DEF FTypes, IsSeq
<1>2. Len(got) \in Nat
  BY <1>1, LenProperties DEF IsSeq
<1>3. Limit \in Nat /\ Limit > 0
  BY LimitPositive DEF FTypes
<1>4. page = Window(r, Len(got), Limit) /\ got' = got \o more /\ (ended' <=> page = <<>>)
  BY DEF HandleSearch, Page
<1> HIDE DEF r, page
<1>5. /\ IsSeq(page) /\ Len(page) \in Nat /\ Len(r) \in Nat
      /\ Len(page) = IF Len(got) >= Len(r) THEN 0 ELSE Lesser(Len(got) + Limit, Len(r)) - Len(got)
      /\ \A k \in 1 .. Len(page) : Len(got) + k \in 1 .. Len(r) /\ page[k] = r[Len(got) + k]
  BY <1>1, <1>2, <1>3, <1>4, WindowFacts
<1>6. page = <<>> <=> Len(got) >= Len(r)
  <2>1. page = <<>> <=> Len(page) = 0
    BY <1>5, EmptySeq DEF IsSeq
  <2>2. Len(page) = 0 <=> Len(got) >= Len(r)
    BY <1>2, <1>3, <1>5 DEF Lesser
  <2> QED
    BY <2>1, <2>2
<1>7. DOMAIN page = 1 .. Len(page)
  BY <1>5, LenProperties DEF IsSeq
<1> DEFINE M == {more[k] : k \in 1 .. Len(page)}
<1>8. more \in Seq(M) /\ Len(more) = Len(page)
  <2>1. more \in [1 .. Len(page) -> M]
    BY <1>7, Zenon
  <2>2. more \in Seq(M)
    <3>1. PICK q, Q, n : q = more /\ Q = M /\ n = Len(page)
      OBVIOUS
    <3>2. q \in [1 .. n -> Q] /\ n \in Nat
      BY <1>5, <2>1, <3>1, Zenon
    <3>3. q \in Seq(Q)
      BY <3>2, SeqDef
    <3> QED
      BY <3>1, <3>3, Zenon
  <2>3. Len(more) \in Nat /\ 1 .. Len(more) = 1 .. Len(page)
    BY <2>1, <2>2, LenProperties
  <2> HIDE DEF more
  <2> QED
    BY <1>5, <2>2, <2>3
<1>9. \A k \in 1 .. Len(page) : more[k] = page[k].hash
  BY <1>7
<1> HIDE DEF more, M
<1>10. /\ IsSeq(got') /\ Len(got') = Len(got) + Len(page)
       /\ \A k \in 1 .. Len(got) + Len(page) :
            got'[k] = IF k <= Len(got) THEN got[k] ELSE more[k - Len(got)]
  <2>1. IsSeq(more)
    BY <1>8 DEF IsSeq
  <2>2. PICK new : new = got \o more
    OBVIOUS
  <2>3. /\ IsSeq(new) /\ Len(new) = Len(got) + Len(more)
        /\ \A k \in 1 .. Len(got) + Len(more) :
             new[k] = IF k <= Len(got) THEN got[k] ELSE more[k - Len(got)]
    BY <1>1, <2>1, <2>2, Joined
  <2> QED
    BY <1>4, <1>8, <2>2, <2>3
<1>11. Len(got') \in Nat /\ Len(got) <= Len(got')
  BY <1>2, <1>5, <1>10
<1>12. \A k \in 1 .. Len(got) : got'[k] = got[k]
  BY <1>2, <1>5, <1>10
<1>13. ASSUME NEW k \in 1 .. Len(got'), k > Len(got) PROVE k \in 1 .. Len(r) /\ got'[k] = r[k].hash
  <2>1. k - Len(got) \in 1 .. Len(page) /\ Len(got) + (k - Len(got)) = k
    BY <1>2, <1>5, <1>10, <1>13
  <2>2. got'[k] = more[k - Len(got)]
    BY <1>2, <1>5, <1>10, <1>13
  <2> QED
    BY <1>5, <1>9, <2>1, <2>2
<1> QED
  BY <1>1, <1>2, <1>4, <1>5, <1>6, <1>10, <1>11, <1>12, <1>13 DEF r

-----------------------------------------------------------------------------
(* Positions in the order *)

(* Two rows have not the same rank: the one that comes first has fewer     *)
(* before it.                                                              *)
LEMMA RankStrict ==
    ASSUME NEW s, IsSeq(s), NEW key, \A k \in DOMAIN s : key[k] \in Int,
           NEW j \in Matching(s), NEW k \in Matching(s), j \in Ahead(s, key, k)
    PROVE  Rank(s, key, j) < Rank(s, key, k)
<1>1. Matching(s) \subseteq DOMAIN s /\ DOMAIN s \subseteq Int /\ IsFiniteSet(Matching(s))
  BY MatchingFinite DEF Matching
<1> DEFINE A == Ahead(s, key, j)
           B == Ahead(s, key, k)
<1>2. j \notin A /\ A \subseteq B
  <2>1. key[j] \in Int /\ key[k] \in Int /\ j \in Int /\ k \in Int
    BY <1>1
  <2>2. j \notin A
    BY <2>1 DEF Ahead
  <2>3. ASSUME NEW i \in A PROVE i \in B
    <3>1. i \in Matching(s) /\ key[i] \in Int /\ i \in Int
      BY <1>1 DEF Ahead
    <3> QED
      BY <2>1, <3>1 DEF Ahead
  <2> QED
    BY <2>2, <2>3
<1>3. IsFiniteSet(B) /\ IsFiniteSet(A)
  <2>1. A \in SUBSET Matching(s) /\ B \in SUBSET Matching(s)
    BY DEF Ahead
  <2> QED
    BY <1>1, <2>1, FS_Subset
<1>4. Cardinality(A \cup {j}) = Cardinality(A) + 1 /\ IsFiniteSet(A \cup {j})
  BY <1>2, <1>3, FS_AddElement
<1>5. A \cup {j} \in SUBSET B
  BY <1>2
<1>6. Cardinality(A \cup {j}) <= Cardinality(B)
  BY <1>3, <1>5, FS_Subset
<1>7. Cardinality(A) \in Nat /\ Cardinality(B) \in Nat
  BY <1>3, FS_CardinalityType
<1> QED
  BY <1>4, <1>6, <1>7 DEF Rank

(* Each row that matches stands in Sorted at its rank. *)
LEMMA AtItsRank ==
    ASSUME NEW s, IsSeq(s), NEW key, \A k \in DOMAIN s : key[k] \in Int,
           NEW k \in Matching(s)
    PROVE  /\ Rank(s, key, k) \in 1 .. Cardinality(Matching(s))
           /\ Sorted(s, key)[Rank(s, key, k)] = s[k]
<1>0. DOMAIN s = 1 .. Len(s) /\ Len(s) \in Nat
  BY MatchingFinite
<1>1. /\ Matching(s) \subseteq DOMAIN s /\ DOMAIN s \subseteq Int
      /\ IsFiniteSet(Matching(s)) /\ Cardinality(Matching(s)) \in Nat
  BY <1>0, MatchingFinite DEF Matching
<1>2. k \notin Ahead(s, key, k) /\ Ahead(s, key, k) \subseteq Matching(s)
  BY <1>1 DEF Ahead
<1>3. Rank(s, key, k) \in 1 .. Cardinality(Matching(s))
  <2>1. Ahead(s, key, k) \in SUBSET Matching(s) /\ Ahead(s, key, k) # Matching(s)
    BY <1>2
  <2>2. IsFiniteSet(Ahead(s, key, k)) /\ Cardinality(Ahead(s, key, k)) <= Cardinality(Matching(s))
        /\ Cardinality(Ahead(s, key, k)) # Cardinality(Matching(s))
    BY <1>1, <2>1, FS_Subset
  <2>3. Cardinality(Ahead(s, key, k)) \in Nat
    BY <2>2, FS_CardinalityType
  <2> QED
    BY <1>1, <2>2, <2>3 DEF Rank
<1>4. ASSUME NEW j \in Matching(s), Rank(s, key, j) = Rank(s, key, k) PROVE j = k
  <2>1. key[j] \in Int /\ key[k] \in Int /\ j \in Int /\ k \in Int
    BY <1>1
  <2>2. j = k \/ j \in Ahead(s, key, k) \/ k \in Ahead(s, key, j)
    BY <2>1 DEF Ahead
  <2>3. \A i \in Matching(s) : Rank(s, key, i) \in Int
    <3> SUFFICES ASSUME NEW i \in Matching(s) PROVE Rank(s, key, i) \in Int
      OBVIOUS
    <3>1. Ahead(s, key, i) \in SUBSET Matching(s)
      BY DEF Ahead
    <3>2. Cardinality(Ahead(s, key, i)) \in Nat
      BY <1>1, <3>1, FS_Subset, FS_CardinalityType
    <3> QED
      BY <3>2 DEF Rank
  <2>4. j \in Ahead(s, key, k) => Rank(s, key, j) < Rank(s, key, k)
    BY RankStrict
  <2>5. k \in Ahead(s, key, j) => Rank(s, key, k) < Rank(s, key, j)
    BY RankStrict
  <2> QED
    BY <1>4, <2>2, <2>3, <2>4, <2>5
<1>5. (CHOOSE i \in Matching(s) : Rank(s, key, i) = Rank(s, key, k)) = k
  BY <1>4
<1> QED
  BY <1>3, <1>5 DEF Sorted

(* A row that is joined by others has no lower rank. *)
LEMMA RankGrows ==
    ASSUME NEW s, IsSeq(s), NEW t, IsSeq(t), NEW key, NEW new,
           Matching(s) \subseteq Matching(t),
           \A k \in Matching(s) : new[k] = key[k], NEW k \in Matching(s)
    PROVE  /\ Rank(s, key, k) \in Nat /\ Rank(t, new, k) \in Nat
           /\ Rank(s, key, k) <= Rank(t, new, k)
<1>1. IsFiniteSet(Matching(s)) /\ IsFiniteSet(Matching(t))
  BY MatchingFinite
<1>2. Ahead(s, key, k) \in SUBSET Ahead(t, new, k)
  BY DEF Ahead
<1>3. Ahead(t, new, k) \in SUBSET Matching(t) /\ Ahead(s, key, k) \in SUBSET Matching(s)
  BY DEF Ahead
<1>4. IsFiniteSet(Ahead(t, new, k)) /\ IsFiniteSet(Ahead(s, key, k))
  BY <1>1, <1>3, FS_Subset
<1>5. Cardinality(Ahead(s, key, k)) <= Cardinality(Ahead(t, new, k))
  BY <1>2, <1>4, FS_Subset
<1>6. Cardinality(Ahead(s, key, k)) \in Nat /\ Cardinality(Ahead(t, new, k)) \in Nat
  BY <1>4, FS_CardinalityType
<1> QED
  BY <1>5, <1>6 DEF Rank

LEMMA Aged ==
    ASSUME NEW t \in Seq(Entry)
    PROVE  /\ IsSeq(t) /\ Keys(t, "created_at") = Ages(t)
           /\ \A k \in DOMAIN t : t[k] \in Entry /\ Ages(t)[k] \in Int
<1>1. IsSeq(t) /\ Len(t) \in Nat /\ DOMAIN t = 1 .. Len(t)
  BY LenProperties DEF IsSeq
<1>2. \A k \in DOMAIN t : t[k] \in Entry
  BY <1>1, ElementOfSeq
<1>3. \A k \in DOMAIN t : t[k].created_at \in Int
  BY <1>2 DEF Entry
<1>4. Keys(t, "created_at") = Ages(t)
  BY DEF Keys, Ages
<1> QED
  BY <1>1, <1>2, <1>3, <1>4 DEF Ages

-----------------------------------------------------------------------------
(* The steps *)

LEMMA PInvInit == FInit => PInv
<1> SUFFICES ASSUME FInit PROVE PInv
  OBVIOUS
<1>1. rows \in Seq(Entry)
  <2>1. rows \in Seq(Row)
    BY FrontAssumption DEF FInit, Table
  <2>2. Row \subseteq Entry
    BY DEF Row, Entry
  <2> QED
    BY <2>1, <2>2
<1>2. got = <<>> /\ Len(got) = 0 /\ IsSeq(got)
  BY EmptySeq DEF FInit, IsSeq
<1>3. FTypes
  <2>1. now = 0 /\ changes = 0 /\ sort \in Sorts /\ want \in Nat
    BY FrontAssumption DEF FInit, Init
  <2> QED
    BY <1>1, <1>2, <2>1 DEF FTypes
<1>4. Paged
  <2>1. rows = first /\ lost = FALSE /\ ended = FALSE /\ sort \in Sorts
    BY FrontAssumption DEF FInit
  <2>2. IsSeq(Result(first))
    BY <1>1, <2>1, ResultSeq DEF IsSeq
  <2>3. Len(Result(first)) \in Nat
    BY <2>2, LenProperties DEF IsSeq
  <2> QED
    BY <1>2, <2>1, <2>3 DEF Paged
<1>5. Kept
  <2> SUFFICES ASSUME NEW i \in DOMAIN first, first[i].fits PROVE Awaited(first[i].hash)
    BY DEF Kept
  <2>1. first = rows /\ IsSeq(rows)
    BY <1>1 DEF FInit, IsSeq
  <2>2. i \in Matching(rows)
    BY <2>1 DEF Matching
  <2>3. Rank(rows, Ages(rows), i) \in Nat /\ Rank(rows, Ages(rows), i) >= 1
    <3>1. \A k \in DOMAIN rows : Ages(rows)[k] \in Int
      BY <1>1, Aged
    <3>2. Rank(rows, Ages(rows), i) \in 1 .. Cardinality(Matching(rows))
      BY <2>1, <2>2, <3>1, AtItsRank
    <3>3. Cardinality(Matching(rows)) \in Nat
      BY <2>1, MatchingFinite
    <3> QED
      BY <3>2, <3>3
  <2> QED
    BY <1>2, <2>1, <2>2, <2>3 DEF Awaited, Later
<1>6. NoRowMissed
  BY DEF FInit, NoRowMissed
<1> QED
  BY <1>3, <1>4, <1>5, <1>6 DEF PInv

LEMMA ResultSame ==
    ASSUME UNCHANGED <<seeders, sort, first>> PROVE Result(first)' = Result(first)
  BY DEF Result, Newest, Keys

(* The next page of an unchanged registry continues the result. *)
LEMMA SearchPaged == ASSUME PInv, HandleSearch PROVE Paged'
<1> SUFFICES ASSUME changes = 0
             PROVE  /\ rows' = first' /\ ~lost'
                    /\ Len(got') <= Len(Result(first))
                    /\ \A k \in 1 .. Len(got') : got'[k] = Result(first)[k].hash
                    /\ ended' => Len(got') = Len(Result(first))
  BY ResultSame DEF HandleSearch, Paged
<1>1. rows = first /\ ~lost /\ UNCHANGED <<rows, first, lost>> /\ FTypes
  BY DEF PInv, Paged, HandleSearch
<1> DEFINE r == Result(first)
<1>2. /\ Len(got) \in Nat /\ Len(r) \in Nat /\ Len(got') \in Nat /\ Len(got) <= Len(got')
      /\ \A k \in 1 .. Len(got) : got'[k] = got[k]
      /\ \A k \in 1 .. Len(got') : k > Len(got) => k \in 1 .. Len(r) /\ got'[k] = r[k].hash
      /\ ended' <=> Len(got) >= Len(r)
  BY <1>1, OnePage
<1>3. Len(got) <= Len(r) /\ \A k \in 1 .. Len(got) : got[k] = r[k].hash
  BY DEF PInv, Paged
<1> HIDE DEF r
<1>4. Len(got') <= Len(r)
  <2>1. CASE Len(got') = Len(got)
    BY <1>3, <2>1
  <2>2. CASE Len(got') > Len(got)
    BY <1>2, <2>2
  <2> QED
    BY <1>2, <2>1, <2>2
<1>5. ASSUME NEW k \in 1 .. Len(got') PROVE got'[k] = r[k].hash
  <2>1. CASE k > Len(got)
    BY <1>2, <2>1
  <2>2. CASE k \in 1 .. Len(got)
    BY <1>2, <1>3, <2>2
  <2> QED
    BY <1>2, <2>1, <2>2
<1>6. ended' => Len(got') = Len(r)
  BY <1>2, <1>3, <1>4
<1> QED
  BY <1>1, <1>4, <1>5, <1>6 DEF r

(* Newest first, a page takes the rows of its ranks, and an empty page is  *)
(* behind the last rank.                                                   *)
LEMMA SearchKept == ASSUME PInv, HandleSearch PROVE Kept' /\ NoRowMissed'
<1> SUFFICES ASSUME sort = "created_at", ~lost, NEW i \in DOMAIN first, first[i].fits
             PROVE  Awaited(first[i].hash)' /\ (ended' => first[i].hash \in Got')
  BY DEF HandleSearch, Kept, NoRowMissed
<1> DEFINE r == Result(rows)
           key == Ages(rows)
<1>0. PICK h : h = first[i].hash
  OBVIOUS
<1>1. UNCHANGED <<rows, first>> /\ FTypes /\ rows \in Seq(Entry) /\ IsSeq(got)
  BY DEF HandleSearch, PInv, FTypes
<1>2. /\ IsSeq(got') /\ Len(got) \in Nat /\ Len(got') \in Nat /\ Len(got) <= Len(got')
      /\ \A k \in 1 .. Len(got) : got'[k] = got[k]
      /\ \A k \in 1 .. Len(got') : k > Len(got) => k \in 1 .. Len(r) /\ got'[k] = r[k].hash
      /\ ended' <=> Len(got) >= Len(r)
  BY <1>1, OnePage
<1>3. DOMAIN got = 1 .. Len(got) /\ DOMAIN got' = 1 .. Len(got')
  BY <1>1, <1>2, LenProperties DEF IsSeq
<1>4. r = Sorted(rows, key)
  BY <1>1, Aged DEF Result, Newest
<1>5. PICK k \in Matching(rows) : rows[k].hash = h /\ (Later(k) \/ h \in Got)
  BY <1>0 DEF PInv, Kept, Awaited
<1>6. Rank(rows, key, k) \in 1 .. Len(r) /\ r[Rank(rows, key, k)] = rows[k]
  BY <1>1, <1>4, Aged, AtItsRank, SortedSeq
<1>7. /\ Len(r) \in Nat
      /\ Got = {got[n] : n \in 1 .. Len(got)}
      /\ Got' = {got'[n] : n \in 1 .. Len(got')}
  BY <1>1, <1>3, <1>4, Aged, SortedSeq, MatchingFinite DEF Got
<1>8. h \in Got => h \in Got'
  BY <1>2, <1>7
<1>9. Later(k)' <=> Rank(rows, key, k) > Len(got')
  BY <1>1 DEF Later
<1>10. Later(k) <=> Rank(rows, key, k) > Len(got)
  BY DEF Later
<1> HIDE DEF r, key
<1>11. Later(k) => Later(k)' \/ h \in Got'
  <2> SUFFICES ASSUME Later(k), ~Later(k)' PROVE h \in Got'
    OBVIOUS
  <2> DEFINE n == Rank(rows, key, k)
  <2>1. n \in 1 .. Len(got') /\ n > Len(got)
    BY <1>2, <1>6, <1>7, <1>9, <1>10
  <2>2. got'[n] = h
    BY <1>2, <1>5, <1>6, <2>1
  <2> QED
    BY <1>7, <2>1, <2>2
<1>12. ended' => ~Later(k)
  BY <1>2, <1>6, <1>7, <1>10
<1>13. Awaited(h)'
  <2>1. k \in Matching(rows') /\ rows'[k].hash = h
    BY <1>1, <1>5
  <2> QED
    BY <1>5, <1>8, <1>11, <2>1 DEF Awaited
<1>14. Awaited(first[i].hash)'
  BY <1>0, <1>1, <1>13 DEF Awaited
<1> QED
  BY <1>0, <1>5, <1>8, <1>12, <1>14

(* A change that takes no row away pushes the others towards later pages.  *)
LEMMA ChangeKept ==
    ASSUME PInv, Change, rows \in Seq(Entry), rows' \in Seq(Entry), ~lost,
           Matching(rows) \subseteq Matching(rows'),
           \A k \in Matching(rows) : /\ rows'[k].hash = rows[k].hash
                                     /\ rows'[k].created_at = rows[k].created_at
    PROVE  Kept'
<1>1. UNCHANGED <<sort, got, first>>
  BY DEF Change, client
<1> SUFFICES ASSUME sort = "created_at", NEW i \in DOMAIN first, first[i].fits
             PROVE  Awaited(first[i].hash)'
  BY <1>1 DEF Kept
<1>2. PICK k \in Matching(rows) : /\ rows[k].hash = first[i].hash
                                  /\ Later(k) \/ first[i].hash \in Got
  BY DEF PInv, Kept, Awaited
<1>3. PICK old, new : old = rows /\ new = rows'
  OBVIOUS
<1>4. old \in Seq(Entry) /\ new \in Seq(Entry) /\ Matching(old) \subseteq Matching(new)
  BY <1>3
<1>5. \A j \in Matching(old) : Ages(new)[j] = Ages(old)[j]
  <2>1. \A j \in Matching(old) : j \in DOMAIN old /\ j \in DOMAIN new
    BY <1>4 DEF Matching
  <2> QED
    BY <1>3, <2>1 DEF Ages
<1>6. /\ Rank(old, Ages(old), k) \in Nat /\ Rank(new, Ages(new), k) \in Nat
      /\ Rank(old, Ages(old), k) <= Rank(new, Ages(new), k)
  BY <1>2, <1>3, <1>4, <1>5, RankGrows DEF IsSeq
<1>7. Len(got) \in Nat
  BY LenProperties DEF PInv, FTypes, IsSeq
<1>8. Later(k) => Later(k)'
  BY <1>1, <1>3, <1>6, <1>7 DEF Later
<1>9. Got' = Got
  BY <1>1 DEF Got
<1> QED
  BY <1>1, <1>2, <1>8, <1>9 DEF Awaited

(* A row with another value in one column is a row. *)
LEMMA EditedRow ==
    ASSUME NEW r \in Entry, NEW b \in BOOLEAN, NEW e, e = [r EXCEPT !.fits = b]
    PROVE  e \in Entry /\ e.hash = r.hash /\ e.created_at = r.created_at /\ e.fits = b
  BY DEF Entry

LEMMA CountedRow ==
    ASSUME NEW r \in Entry, NEW e, e = [r EXCEPT !.completions = @ + 1]
    PROVE  e \in Entry /\ e.hash = r.hash /\ e.created_at = r.created_at /\ e.fits = r.fits
  BY DEF Entry

(* A table whose rows are edited in place. *)
LEMMA EditedTable ==
    ASSUME NEW t \in Seq(Entry), NEW u, DOMAIN u = DOMAIN t,
           u = [k \in DOMAIN t |-> u[k]], \A k \in DOMAIN t : u[k] \in Entry
    PROVE  u \in Seq(Entry)
<1>1. Len(t) \in Nat /\ DOMAIN t = 1 .. Len(t)
  BY LenProperties
<1>2. u \in [1 .. Len(t) -> Entry]
  BY <1>1
<1> QED
  BY <1>1, <1>2, SeqDef

LEMMA RegisterStep ==
    ASSUME PInv, NEW h \in Hash, NEW fits \in BOOLEAN, Register(h, fits), ~lost'
    PROVE  rows' \in Seq(Entry) /\ Kept'
<1>1. ~lost /\ Change /\ rows \in Seq(Entry) /\ now \in Int
  BY DEF Register, PInv, FTypes
<1>2. Len(rows) \in Nat /\ DOMAIN rows = 1 .. Len(rows) /\ \A k \in DOMAIN rows : rows[k] \in Entry
  BY <1>1, LenProperties, ElementOfSeq
<1>3. CASE Has(h)
  <2>1. fits = TRUE
    BY <1>3 DEF Register
  <2>2. rows' = Upsert(h, fits)
    BY <1>3 DEF Register
  <2>3. /\ DOMAIN rows' = DOMAIN rows /\ rows' = [k \in DOMAIN rows |-> rows'[k]]
        /\ \A k \in DOMAIN rows : rows'[k] = rows[k] \/ rows'[k] = [rows[k] EXCEPT !.fits = fits]
    BY <2>2 DEF Upsert
  <2>4. \A k \in DOMAIN rows : /\ rows'[k] \in Entry /\ rows'[k].hash = rows[k].hash
                               /\ rows'[k].created_at = rows[k].created_at
                               /\ rows[k].fits => rows'[k].fits
    <3> SUFFICES ASSUME NEW k \in DOMAIN rows
                 PROVE  /\ rows'[k] \in Entry /\ rows'[k].hash = rows[k].hash
                        /\ rows'[k].created_at = rows[k].created_at
                        /\ rows[k].fits => rows'[k].fits
      OBVIOUS
    <3>1. CASE rows'[k] = rows[k]
      BY <1>2, <3>1
    <3>2. CASE rows'[k] = [rows[k] EXCEPT !.fits = fits]
      BY <1>2, <2>1, <3>2, EditedRow
    <3> QED
      BY <2>3, <3>1, <3>2
  <2>5. rows' \in Seq(Entry)
    BY <1>1, <2>3, <2>4, EditedTable
  <2>6. Matching(rows) \subseteq Matching(rows')
    BY <2>3, <2>4 DEF Matching
  <2>7. \A k \in Matching(rows) : k \in DOMAIN rows
    BY DEF Matching
  <2> QED
    BY <1>1, <2>4, <2>5, <2>6, <2>7, ChangeKept
<1>4. CASE ~Has(h)
  <2> DEFINE new == [hash |-> h, created_at |-> now, completions |-> 0, fits |-> fits]
  <2>1. new \in Entry
    BY <1>1 DEF Entry
  <2>2. rows' = Append(rows, new)
    BY <1>4 DEF Register
  <2> HIDE DEF new
  <2>3. /\ rows' \in Seq(Entry) /\ Len(rows') = Len(rows) + 1
        /\ \A k \in 1 .. Len(rows) : rows'[k] = rows[k]
    BY <1>1, <2>1, <2>2, AppendProperties
  <2>4. DOMAIN rows' = 1 .. Len(rows) + 1
    BY <2>3, LenProperties
  <2>5. \A k \in DOMAIN rows : k \in DOMAIN rows' /\ rows'[k] = rows[k]
    BY <1>2, <2>3, <2>4
  <2>6. /\ Matching(rows) \subseteq Matching(rows')
        /\ \A k \in Matching(rows) : rows'[k] = rows[k]
    BY <2>5 DEF Matching
  <2> QED
    BY <1>1, <2>3, <2>6, ChangeKept
<1> QED
  BY <1>3, <1>4

LEMMA CompletionStep ==
    ASSUME PInv, NEW h \in Hash, CountCompletion(h), ~lost'
    PROVE  rows' \in Seq(Entry) /\ Kept'
<1>1. ~lost /\ Change /\ rows \in Seq(Entry)
  BY DEF CountCompletion, PInv, FTypes
<1>2. Len(rows) \in Nat /\ DOMAIN rows = 1 .. Len(rows) /\ \A k \in DOMAIN rows : rows[k] \in Entry
  BY <1>1, LenProperties, ElementOfSeq
<1>3. /\ DOMAIN rows' = DOMAIN rows /\ rows' = [k \in DOMAIN rows |-> rows'[k]]
      /\ \A k \in DOMAIN rows :
           rows'[k] = rows[k] \/ rows'[k] = [rows[k] EXCEPT !.completions = @ + 1]
  BY DEF CountCompletion
<1>4. \A k \in DOMAIN rows : /\ rows'[k] \in Entry /\ rows'[k].hash = rows[k].hash
                             /\ rows'[k].created_at = rows[k].created_at
                             /\ rows[k].fits => rows'[k].fits
  <2> SUFFICES ASSUME NEW k \in DOMAIN rows
               PROVE  /\ rows'[k] \in Entry /\ rows'[k].hash = rows[k].hash
                      /\ rows'[k].created_at = rows[k].created_at
                      /\ rows[k].fits => rows'[k].fits
    OBVIOUS
  <2>1. CASE rows'[k] = rows[k]
    BY <1>2, <2>1
  <2>2. CASE rows'[k] = [rows[k] EXCEPT !.completions = @ + 1]
    BY <1>2, <2>2, CountedRow
  <2> QED
    BY <1>3, <2>1, <2>2
<1>5. rows' \in Seq(Entry)
  BY <1>1, <1>3, <1>4, EditedTable
<1>6. Matching(rows) \subseteq Matching(rows')
  BY <1>3, <1>4 DEF Matching
<1>7. \A k \in Matching(rows) : k \in DOMAIN rows
  BY DEF Matching
<1> QED
  BY <1>1, <1>4, <1>5, <1>6, <1>7, ChangeKept

LEMMA HandlerStep == ASSUME PInv, Handler, UNCHANGED now PROVE PInv'
<1>1. CASE HandleSearch
  <2>1. FTypes'
    <3>1. FTypes /\ UNCHANGED <<rows, lost, sort, want, changes, now>>
      BY <1>1 DEF HandleSearch, PInv
    <3>2. ~lost => IsSeq(got')
      BY <1>1, <3>1, OnePage
    <3> QED
      BY <3>1, <3>2 DEF FTypes
  <2> QED
    BY <1>1, <2>1, SearchPaged, SearchKept DEF PInv
<1>2. ASSUME Change, ~lost' => rows' \in Seq(Entry) /\ Kept' /\ ~lost PROVE PInv'
  <2>1. /\ UNCHANGED <<sort, want, got, ended, first, now>> /\ ~ended
        /\ changes' = changes + 1 /\ FTypes
    BY <1>2 DEF Change, client, PInv
  <2>2. FTypes'
    BY <1>2, <2>1 DEF FTypes, IsSeq
  <2>3. Paged'
    <3>1. changes' # 0
      BY <2>1 DEF FTypes
    <3> QED
      BY <3>1 DEF Paged
  <2>4. NoRowMissed'
    BY <2>1 DEF NoRowMissed
  <2>5. Kept'
    BY <1>2 DEF Kept
  <2> QED
    BY <2>2, <2>3, <2>4, <2>5 DEF PInv
<1>3. ASSUME NEW h \in Hash, NEW fits \in BOOLEAN, Register(h, fits) PROVE PInv'
  <2>1. Change /\ (~lost' => ~lost)
    BY <1>3 DEF Register
  <2> QED
    BY <1>2, <1>3, <2>1, RegisterStep
<1>4. ASSUME NEW h \in Hash, Takedown(h) PROVE PInv'
  BY <1>2, <1>4 DEF Takedown
<1>5. ASSUME NEW h \in Hash, CountCompletion(h) PROVE PInv'
  <2>1. Change /\ (~lost' => ~lost)
    BY <1>5 DEF CountCompletion
  <2> QED
    BY <1>2, <1>5, <2>1, CompletionStep
<1>6. ASSUME NEW h \in Hash, SeederAnnounces(h) PROVE PInv'
  <2>1. Change /\ UNCHANGED <<rows, lost>>
    BY <1>6 DEF SeederAnnounces
  <2>2. ~lost => rows \in Seq(Entry)
    BY DEF PInv, FTypes
  <2>3. ~lost => Kept'
    BY <2>1, <2>2, ChangeKept
  <2> QED
    BY <1>2, <2>1, <2>2, <2>3
<1> QED
  BY <1>1, <1>3, <1>4, <1>5, <1>6 DEF Handler

LEMMA PInvStep == PInv /\ IInv /\ [FNext]_allVars => PInv'
<1> SUFFICES ASSUME PInv, IInv, [FNext]_allVars PROVE PInv'
  OBVIOUS
<1>1. CASE UNCHANGED frontVars
  <2>1. now' \in Int
    <3>1. now \in Int
      BY DEF PInv, FTypes
    <3>2. UNCHANGED now \/ now' = now + 1
      BY DEF FNext, FTick, Tick, LimitMiddleware, Allow, allVars, vars
    <3> QED
      BY <3>1, <3>2
  <2>2. FTypes'
    BY <1>1, <2>1 DEF frontVars, client, PInv, FTypes
  <2>3. Paged'
    BY <1>1, ResultSame DEF frontVars, client, PInv, Paged
  <2>4. Kept' /\ NoRowMissed'
    BY <1>1 DEF frontVars, client, PInv, Kept, NoRowMissed, Awaited, Later, Got
  <2> QED
    BY <2>2, <2>3, <2>4 DEF PInv
<1>2. CASE Handler /\ UNCHANGED now
  BY <1>2, HandlerStep
<1> QED
  BY <1>1, <1>2 DEF FNext, FTick, LimitMiddleware, Allow, allVars

LEMMA PInvariance == FSpec => []PInv
<1>1. FInit => Init
  BY DEF FInit
<1>2. [FNext]_allVars => [Next]_vars
  BY DEF FNext, FTick, LimitMiddleware, Next, allVars
<1> QED
  BY <1>1, <1>2, PInvInit, PInvStep, InitIInv, LimiterIInv, PTL DEF FSpec

(* HandleSearch cuts its pages so that they join without a gap and without *)
(* a repetition, for any limit, scan limit and order, as long as nobody    *)
(* changes the registry between the requests.                              *)
THEOREM PagesJoin == FSpec => []PagesExact
<1>1. PInv => PagesExact
  <2> SUFFICES ASSUME PInv, ended, changes = 0
               PROVE  got = [k \in DOMAIN Result(first) |-> Result(first)[k].hash]
    BY DEF PagesExact
  <2> DEFINE r == Result(first)
  <2>1. /\ rows = first /\ ~lost /\ Len(got) = Len(r)
        /\ \A k \in 1 .. Len(got) : got[k] = r[k].hash
    BY DEF PInv, Paged
  <2>2. IsSeq(got) /\ IsSeq(first) /\ sort \in Sorts
    BY <2>1 DEF PInv, FTypes, IsSeq
  <2>3. IsSeq(r)
    BY <2>2, ResultSeq
  <2> HIDE DEF r
  <2>4. /\ DOMAIN r = 1 .. Len(got) /\ DOMAIN got = 1 .. Len(got)
        /\ got = [k \in DOMAIN got |-> got[k]]
    BY <2>1, <2>2, <2>3, LenProperties DEF IsSeq
  <2>5. got = [k \in DOMAIN r |-> r[k].hash]
    BY <2>1, <2>4
  <2> QED
    BY <2>5 DEF r
<1> QED
  BY <1>1, PInvariance, PTL

(* Newest first, paging by offset misses no row that was there when the    *)
(* client began, however many rows are added, registered again, completed  *)
(* or seeded between its requests, until one is taken down or edited out   *)
(* of the filter.                                                          *)
THEOREM NothingMissed == FSpec => []NoRowMissed
<1>1. PInv => NoRowMissed
  BY DEF PInv
<1> QED
  BY <1>1, PInvariance, PTL

=============================================================================
