-------------------------- MODULE ModelCallsProofs --------------------------
(***************************************************************************)
(* Proofs about ModelCalls: how far a budget can be overrun and how many   *)
(* requests one turn can send, for any number of sessions, keys and        *)
(* retries.                                                                *)
(***************************************************************************)
EXTENDS ModelCalls, FiniteSetTheorems, TLAPS

(* What a session that leaves a set of sessions takes off its size, and    *)
(* what one that joins it adds.                                            *)
LEMMA Leaves ==
  ASSUME NEW A \in SUBSET Sessions, NEW s \in A
  PROVE  /\ Cardinality(A) \in Nat
         /\ Cardinality(A \ {s}) = Cardinality(A) - 1
  BY CallsAssumption, FS_Subset, FS_CardinalityType, FS_RemoveElement

LEMMA Joins ==
  ASSUME NEW A \in SUBSET Sessions, NEW s \in Sessions, s \notin A
  PROVE  /\ Cardinality(A) \in Nat
         /\ Cardinality(A \cup {s}) = Cardinality(A) + 1
  BY CallsAssumption, FS_Subset, FS_CardinalityType, FS_AddElement

LEMMA Smaller ==
  ASSUME NEW A \in SUBSET Sessions, NEW B \in SUBSET A
  PROVE  /\ Cardinality(A) \in Nat
         /\ Cardinality(B) \in Nat
         /\ Cardinality(B) <= Cardinality(A)
  <1>1. IsFiniteSet(A)
    BY CallsAssumption, FS_Subset
  <1>2. IsFiniteSet(B) /\ Cardinality(B) <= Cardinality(A)
    BY <1>1, FS_Subset
  <1> QED BY <1>1, <1>2, FS_CardinalityType

(* A product with one more factor, and with a smaller one.                 *)
LEMMA Times ==
  ASSUME NEW m \in Nat, NEW n \in Int
  PROVE  m * (n + 1) = m * n + m /\ m * (n - 1) = m * n - m
  OBVIOUS

LEMMA TimesMonotone ==
  ASSUME NEW m \in Nat, NEW n \in Nat, NEW p \in Nat, n <= p
  PROVE  m * n <= m * p
  <1> DEFINE d == p - n
  <1>1. d \in Nat /\ p = n + d
    OBVIOUS
  <1> HIDE DEF d
  <1>2. m * (n + d) = m * n + m * d /\ m * d >= 0
    BY <1>1
  <1> QED BY <1>1, <1>2

(* A budget of limit, of which x is spent, with a calls under way that cost *)
(* m at most, c sessions that could make one, and f faults.                *)
Within(x, a, c, f, limit, m) == x + m * a <= limit - 1 + m * (c + f)

LEMMA WithinSteps ==
  ASSUME NEW m \in Nat, NEW a \in Nat, NEW c \in Nat, NEW f \in Nat,
         NEW x \in Int, NEW limit \in Nat
  PROVE  /\ Within(x, a, c, f, limit, m) => Within(x, a, c, f + 1, limit, m)
         /\ Within(x, a, c, f, limit, m) => Within(x, a + 1, c, f + 1, limit, m)
         /\ x <= limit - 1 /\ a <= c => Within(x, a, c, f, limit, m)
         /\ \A b \in Nat : b <= a /\ Within(x, a, c, f, limit, m) => Within(x, b, c, f, limit, m)
         /\ \A d \in 0..m : Within(x, a + 1, c, f, limit, m) => Within(x + d, a, c, f, limit, m)
  <1>1. m * (c + f) \in Int /\ m * a \in Int
    OBVIOUS
  <1>2. m * ((c + f) + 1) = m * (c + f) + m
    BY Times
  <1>3. m * (a + 1) = m * a + m
    BY Times
  <1>4. c + (f + 1) = (c + f) + 1
    OBVIOUS
  <1>5. ASSUME a <= c PROVE m * a <= m * (c + f)
    BY <1>5, TimesMonotone
  <1>6. ASSUME NEW b \in Nat, b <= a PROVE m * b <= m * a /\ m * b \in Int
    BY <1>6, TimesMonotone
  <1> DEFINE cf == m * (c + f)
             ma == m * a
  <1>7. ASSUME Within(x, a, c, f, limit, m) PROVE x + ma <= limit - 1 + cf
    BY <1>7 DEF Within
  <1>8. Within(x, a, c, f, limit, m) => Within(x, a, c, f + 1, limit, m)
    <2> SUFFICES ASSUME Within(x, a, c, f, limit, m) PROVE x + ma <= limit - 1 + (cf + m)
      BY <1>2, <1>4 DEF Within
    <2> QED BY <1>1, <1>7
  <1>9. Within(x, a, c, f, limit, m) => Within(x, a + 1, c, f + 1, limit, m)
    <2> SUFFICES ASSUME Within(x, a, c, f, limit, m) PROVE x + (ma + m) <= limit - 1 + (cf + m)
      BY <1>2, <1>3, <1>4 DEF Within
    <2> QED BY <1>1, <1>7
  <1>10. x <= limit - 1 /\ a <= c => Within(x, a, c, f, limit, m)
    <2> SUFFICES ASSUME x <= limit - 1, a <= c PROVE x + ma <= limit - 1 + cf
      BY DEF Within
    <2> QED BY <1>1, <1>5
  <1>11. ASSUME NEW b \in Nat, b <= a, Within(x, a, c, f, limit, m)
         PROVE  Within(x, b, c, f, limit, m)
    <2> DEFINE mb == m * b
    <2>1. mb <= ma /\ mb \in Int
      BY <1>6, <1>11
    <2>2. x + mb <= limit - 1 + cf
      <3> HIDE DEF mb, ma, cf
      <3> QED BY <1>1, <1>7, <1>11, <2>1 DEF ma, cf
    <2> QED BY <2>2 DEF Within
  <1>12. ASSUME NEW d \in 0..m, Within(x, a + 1, c, f, limit, m)
         PROVE  Within(x + d, a, c, f, limit, m)
    <2>1. x + (ma + m) <= limit - 1 + cf
      BY <1>3, <1>12 DEF Within
    <2> SUFFICES (x + d) + ma <= limit - 1 + cf
      BY DEF Within
    <2> QED BY <1>1, <2>1
  <1> QED BY <1>8, <1>9, <1>10, <1>11, <1>12

LEMMA LosesOne ==
  ASSUME NEW m \in Nat, NEW f \in Nat, NEW x \in Nat, x <= m * f
  PROVE  /\ x <= m * (f + 1)
         /\ \A d \in 0..m : x + d <= m * (f + 1)
  <1>1. m * (f + 1) = m * f + m /\ m * f \in Int
    BY Times
  <1> QED BY <1>1

-----------------------------------------------------------------------------
(* Sessions and keys, without the variables.                               *)

LEMMA PastInSessions ==
  /\ PastMonth \in SUBSET Sessions
  /\ \A k \in Keys : PastKey(k) \in SUBSET OfKey(k) /\ OfKey(k) \in SUBSET Sessions
  BY DEF PastMonth, PastKey, OfKey

LEMMA Sizes ==
  /\ Cardinality(Sessions) \in Nat
  /\ Cardinality(PastMonth) \in Nat /\ Cardinality(PastMonth) <= Cardinality(Sessions)
  /\ \A k \in Keys : /\ Cardinality(OfKey(k)) \in Nat
                     /\ Cardinality(PastKey(k)) \in Nat
                     /\ Cardinality(PastKey(k)) <= Cardinality(OfKey(k))
  BY PastInSessions, Smaller, CallsAssumption

-----------------------------------------------------------------------------
(* The two reserves, in terms of Within.                                    *)
LEMMA Reserves ==
  /\ MonthReserve <=>
       Within(spent + lost, Cardinality(PastMonth), Cardinality(Sessions), faults, MonthLimit, MaxCost)
  /\ KeyReserve <=> \A k \in Keys :
       Within(keySpent[k], Cardinality(PastKey(k)), Cardinality(OfKey(k)), faults, SessionLimit, MaxCost)
  BY DEF MonthReserve, KeyReserve, Within

THEOREM TypeCorrectInit == Init => IInv
  <1> SUFFICES ASSUME Init PROVE IInv
    OBVIOUS
  <1>1. TypeOK
    BY CallsAssumption DEF Init, TypeOK, Places, Clients
  <1>2. LostOK
    BY CallsAssumption DEF Init, LostOK
  <1>3. PastMonth = {} /\ \A k \in Keys : PastKey(k) = {}
    BY DEF Init, PastMonth, PastKey
  <1>4. Cardinality({}) = 0
    BY FS_EmptySet
  <1>5. \A n \in Nat : MaxCost * n >= 0
    BY CallsAssumption
  <1>6. MonthReserve
    <2>1. MaxCost * Cardinality(PastMonth) = 0
      BY <1>3, <1>4, CallsAssumption
    <2>2. MaxCost * (Cardinality(Sessions) + faults) >= 0
      BY <1>5, Sizes DEF Init
    <2>3. spent = 0 /\ lost = 0 /\ 0 <= MonthLimit - 1
      BY CallsAssumption DEF Init
    <2>4. MaxCost * (Cardinality(Sessions) + faults) \in Int
      BY CallsAssumption, Sizes DEF Init
    <2> QED BY <2>1, <2>2, <2>3, <2>4, CallsAssumption DEF MonthReserve
  <1>7. KeyReserve
    <2> SUFFICES ASSUME NEW k \in Keys
                 PROVE  keySpent[k] + MaxCost * Cardinality(PastKey(k))
                          <= SessionLimit - 1 + MaxCost * (Cardinality(OfKey(k)) + faults)
      BY DEF KeyReserve
    <2>1. MaxCost * Cardinality(PastKey(k)) = 0
      BY <1>3, <1>4, CallsAssumption
    <2>2. MaxCost * (Cardinality(OfKey(k)) + faults) >= 0
      BY <1>5, Sizes DEF Init
    <2>3. keySpent[k] = 0 /\ 0 <= SessionLimit - 1
      BY CallsAssumption DEF Init
    <2>4. MaxCost * (Cardinality(OfKey(k)) + faults) \in Int
      BY CallsAssumption, Sizes DEF Init
    <2> QED BY <2>1, <2>2, <2>3, <2>4, CallsAssumption
  <1>8. CountsOK
    BY CallsAssumption DEF Init, CountsOK, SentSoFar
  <1> QED BY <1>1, <1>2, <1>6, <1>7, <1>8 DEF IInv

-----------------------------------------------------------------------------
(* How the sessions past a check change.                                   *)

LEMMA GoesOn ==
  ASSUME TypeOK, NEW s \in Sessions, NEW p \in Places, Moves(s, p),
         at[s] \notin {"idle", "month"}
  PROVE  PastMonth' \in SUBSET PastMonth /\ \A k \in Keys : PastKey(k)' \in SUBSET PastKey(k)
  BY DEF TypeOK, Moves, PastMonth, PastKey

LEMMA GoesHome ==
  ASSUME TypeOK, NEW s \in Sessions, Moves(s, "idle")
  PROVE  PastMonth' = PastMonth \ {s} /\ \A k \in Keys : PastKey(k)' = PastKey(k) \ {s}
  BY DEF TypeOK, Moves, PastMonth, PastKey

(* Steps that pass no check and add no row.                                *)
LEMMA Kept ==
  ASSUME TypeOK, LostOK, MonthReserve, KeyReserve, UNCHANGED Money,
         PastMonth' \in SUBSET PastMonth,
         \A k \in Keys : PastKey(k)' \in SUBSET PastKey(k)
  PROVE  LostOK' /\ MonthReserve' /\ KeyReserve'
  <1>0. MaxCost \in Nat /\ MonthLimit \in Nat /\ SessionLimit \in Nat /\ faults \in Nat
    BY CallsAssumption DEF TypeOK
  <1>1. keySpent' = keySpent /\ spent' = spent /\ lost' = lost /\ faults' = faults
    BY DEF Money
  <1>2. LostOK'
    BY <1>1 DEF LostOK
  <1>3. MonthReserve'
    <2>1. /\ Cardinality(PastMonth) \in Nat /\ Cardinality(PastMonth') \in Nat
          /\ Cardinality(PastMonth') <= Cardinality(PastMonth)
      BY PastInSessions, Smaller
    <2>2. Within(spent + lost, Cardinality(PastMonth), Cardinality(Sessions), faults, MonthLimit, MaxCost)
      BY Reserves
    <2>3. spent + lost \in Int /\ Cardinality(Sessions) \in Nat
      BY Sizes DEF TypeOK
    <2>4. Within(spent + lost, Cardinality(PastMonth'), Cardinality(Sessions), faults, MonthLimit, MaxCost)
      BY <1>0, <2>1, <2>2, <2>3, WithinSteps
    <2> QED BY <1>1, <2>4 DEF MonthReserve, Within
  <1>4. ASSUME NEW k \in Keys
        PROVE  Within(keySpent[k], Cardinality(PastKey(k)'), Cardinality(OfKey(k)), faults, SessionLimit, MaxCost)
    <2>1. PastKey(k) \in SUBSET Sessions /\ PastKey(k)' \in SUBSET PastKey(k)
      BY PastInSessions
    <2>2. /\ Cardinality(PastKey(k)) \in Nat /\ Cardinality(PastKey(k)') \in Nat
          /\ Cardinality(PastKey(k)') <= Cardinality(PastKey(k))
      BY <2>1, Smaller
    <2>3. Within(keySpent[k], Cardinality(PastKey(k)), Cardinality(OfKey(k)), faults, SessionLimit, MaxCost)
      BY Reserves
    <2>4. keySpent[k] \in Int /\ Cardinality(OfKey(k)) \in Nat
      BY Sizes DEF TypeOK
    <2> QED BY <1>0, <2>2, <2>3, <2>4, WithinSteps
  <1>5. KeyReserve'
    BY <1>1, <1>4 DEF KeyReserve, Within, OfKey
  <1> QED BY <1>2, <1>3, <1>5

(* What faults can be after a step, and what a step that changes no row and *)
(* no set leaves of a reserve.                                             *)
LEMMA Unmoved ==
  ASSUME NEW m \in Nat, NEW a \in Nat, NEW c \in Nat, NEW f \in Nat,
         NEW x \in Int, NEW limit \in Nat, NEW g \in {f, f + 1},
         Within(x, a, c, f, limit, m)
  PROVE  Within(x, a, c, g, limit, m)
  <1>1. CASE g = f
    BY <1>1
  <1>2. CASE g = f + 1
    BY <1>2, WithinSteps
  <1> QED BY <1>1, <1>2

(* One session more past a check, that passed it under the limit or by a   *)
(* fault.                                                                  *)
LEMMA Admitted ==
  ASSUME NEW m \in Nat, NEW a \in Nat, NEW c \in Nat, NEW f \in Nat,
         NEW x \in Int, NEW limit \in Nat, NEW g \in {f, f + 1},
         Within(x, a, c, f, limit, m), a + 1 <= c,
         (x < limit /\ g = f) \/ g = f + 1
  PROVE  Within(x, a + 1, c, g, limit, m)
  <1>1. CASE x < limit /\ g = f
    <2>1. x <= limit - 1 /\ a + 1 \in Nat
      BY <1>1
    <2> QED BY <1>1, <2>1, WithinSteps
  <1>2. CASE g = f + 1
    BY <1>2, WithinSteps
  <1> QED BY <1>1, <1>2

(* One session less, and what its call cost is spent.                       *)
LEMMA Paid ==
  ASSUME NEW m \in Nat, NEW a \in Nat, NEW b \in Nat, NEW c \in Nat, NEW f \in Nat,
         NEW x \in Int, NEW limit \in Nat, NEW g \in {f, f + 1}, NEW d \in 0..m,
         Within(x, a, c, f, limit, m), b = a - 1
  PROVE  Within(x + d, b, c, g, limit, m)
  <1>1. a = b + 1
    OBVIOUS
  <1>2. Within(x, b + 1, c, f, limit, m)
    BY <1>1
  <1>3. Within(x + d, b, c, f, limit, m)
    BY <1>2, WithinSteps
  <1>4. x + d \in Int
    OBVIOUS
  <1> QED BY <1>3, <1>4, Unmoved

(* The limit admits by what is recorded, l being lost by the faults so far. *)
LEMMA AdmittedAside ==
  ASSUME NEW m \in Nat, NEW a \in Nat, NEW c \in Nat, NEW f \in Nat,
         NEW x \in Nat, NEW limit \in Nat, NEW l \in Nat,
         x <= limit - 1, l <= m * f, a <= c
  PROVE  Within(x + l, a, c, f, limit, m)
  <1>1. m * (c + f) = m * c + m * f
    OBVIOUS
  <1>2. m * a <= m * c
    BY TimesMonotone
  <1>3. m * a \in Int /\ m * c \in Int /\ m * f \in Int
    OBVIOUS
  <1> DEFINE mf == m * f
             mc == m * c
             ma == m * a
  <1> SUFFICES (x + l) + ma <= limit - 1 + (mc + mf)
    BY <1>1 DEF Within
  <1>4. mf \in Int /\ mc \in Int /\ ma \in Int /\ l <= mf /\ ma <= mc
    BY <1>2, <1>3
  <1> HIDE DEF mf, mc, ma
  <1> QED BY <1>4

(* The types those lemmas ask for.                                         *)
LEMMA Typed ==
  ASSUME TypeOK
  PROVE  /\ MaxCost \in Nat /\ MonthLimit \in Nat /\ SessionLimit \in Nat
         /\ faults \in Nat /\ spent \in Nat /\ lost \in Nat /\ spent + lost \in Int
         /\ \A k \in Keys : keySpent[k] \in Nat
         /\ \A s \in Sessions : cost[s] \in 0..MaxCost /\ KeyOf[s] \in Keys
  BY CallsAssumption DEF TypeOK

LEMMA FaultsGrow ==
  ASSUME TypeOK, faults' = faults \/ Fault
  PROVE  faults' \in {faults, faults + 1}
  BY DEF Fault

LEMMA LostKept ==
  ASSUME TypeOK, LostOK, faults' \in {faults, faults + 1}, lost' = lost
  PROVE  LostOK'
  <1>1. lost <= MaxCost * faults /\ lost <= MaxCost * (faults + 1)
    BY Typed, LosesOne DEF LostOK
  <1> QED BY <1>1 DEF LostOK

LEMMA UnmovedKey ==
  ASSUME TypeOK, NEW k \in Keys, NEW g \in {faults, faults + 1},
         Within(keySpent[k], Cardinality(PastKey(k)), Cardinality(OfKey(k)), faults, SessionLimit, MaxCost)
  PROVE  Within(keySpent[k], Cardinality(PastKey(k)), Cardinality(OfKey(k)), g, SessionLimit, MaxCost)
  <1>1. keySpent[k] \in Int /\ faults \in Nat /\ SessionLimit \in Nat /\ MaxCost \in Nat
    BY Typed
  <1> QED BY <1>1, Sizes, Unmoved

LEMMA UnmovedMonth ==
  ASSUME TypeOK, NEW g \in {faults, faults + 1},
         Within(spent + lost, Cardinality(PastMonth), Cardinality(Sessions), faults, MonthLimit, MaxCost)
  PROVE  Within(spent + lost, Cardinality(PastMonth), Cardinality(Sessions), g, MonthLimit, MaxCost)
  <1>1. spent + lost \in Int /\ faults \in Nat /\ MonthLimit \in Nat /\ MaxCost \in Nat
    BY Typed
  <1> QED BY <1>1, Sizes, Unmoved

LEMMA PassesSession ==
  ASSUME IInv, NEW s \in Sessions, ChecksSession(s)
  PROVE  LostOK' /\ MonthReserve' /\ KeyReserve'
  <1> USE DEF IInv
  <1>1. faults' \in {faults, faults + 1}
    BY FaultsGrow DEF ChecksSession
  <1>2. keySpent' = keySpent /\ spent' = spent /\ lost' = lost
    BY DEF ChecksSession
  <1>3. LostOK'
    BY <1>1, <1>2, LostKept
  <1>4. PastMonth' = PastMonth
    BY DEF ChecksSession, Moves, PastMonth, TypeOK
  <1>5. MonthReserve'
    <2>1. Within(spent + lost, Cardinality(PastMonth), Cardinality(Sessions), faults', MonthLimit, MaxCost)
      BY <1>1, Reserves, UnmovedMonth
    <2> QED BY <1>2, <1>4, <2>1 DEF MonthReserve, Within
  <1>6. ASSUME NEW k \in Keys
        PROVE  Within(keySpent[k], Cardinality(PastKey(k)'), Cardinality(OfKey(k)), faults', SessionLimit, MaxCost)
    <2>1. Within(keySpent[k], Cardinality(PastKey(k)), Cardinality(OfKey(k)), faults, SessionLimit, MaxCost)
      BY Reserves
    <2>2. CASE k # KeyOf[s]
      <3>1. PastKey(k)' = PastKey(k)
        BY <2>2 DEF ChecksSession, Moves, PastKey, TypeOK
      <3> QED BY <1>1, <2>1, <3>1, UnmovedKey
    <2>3. CASE k = KeyOf[s]
      <3>1. s \notin PastKey(k) /\ PastKey(k)' = PastKey(k) \cup {s}
        BY <2>3 DEF ChecksSession, Moves, PastKey, TypeOK
      <3>2. PastKey(k) \in SUBSET Sessions /\ PastKey(k) \cup {s} \in SUBSET OfKey(k)
        BY <2>3 DEF PastKey, OfKey
      <3>3. Cardinality(PastKey(k)') = Cardinality(PastKey(k)) + 1
        BY <3>1, <3>2, Joins
      <3>4. Cardinality(PastKey(k) \cup {s}) <= Cardinality(OfKey(k))
        BY <3>2, PastInSessions, Smaller
      <3>5. (keySpent[k] < SessionLimit /\ faults' = faults) \/ faults' = faults + 1
        BY <2>3 DEF ChecksSession, WithinSession, Fault
      <3>6. Cardinality(PastKey(k)) + 1 <= Cardinality(OfKey(k))
        BY <3>1, <3>3, <3>4
      <3>7. Within(keySpent[k], Cardinality(PastKey(k)) + 1, Cardinality(OfKey(k)), faults', SessionLimit, MaxCost)
        <4>1. keySpent[k] \in Int /\ faults \in Nat /\ SessionLimit \in Nat /\ MaxCost \in Nat
          BY Typed
        <4>2. Cardinality(PastKey(k)) \in Nat /\ Cardinality(OfKey(k)) \in Nat
          BY Sizes
        <4> QED BY <1>1, <2>1, <3>5, <3>6, <4>1, <4>2, Admitted
      <3> QED BY <3>3, <3>7
    <2> QED BY <2>2, <2>3
  <1>7. KeyReserve'
    BY <1>2, <1>6 DEF KeyReserve, Within, OfKey
  <1> QED BY <1>3, <1>5, <1>7

LEMMA PassesMonth ==
  ASSUME IInv, NEW s \in Sessions, ChecksMonth(s)
  PROVE  LostOK' /\ MonthReserve' /\ KeyReserve'
  <1> USE DEF IInv
  <1>1. faults' \in {faults, faults + 1}
    BY FaultsGrow DEF ChecksMonth
  <1>2. keySpent' = keySpent /\ spent' = spent /\ lost' = lost
    BY DEF ChecksMonth
  <1>3. LostOK'
    BY <1>1, <1>2, LostKept
  <1>4. s \notin PastMonth /\ PastMonth' = PastMonth \cup {s}
    BY DEF ChecksMonth, Moves, PastMonth, TypeOK
  <1>5. MonthReserve'
    <2>1. Cardinality(PastMonth') = Cardinality(PastMonth) + 1
      BY <1>4, PastInSessions, Joins
    <2>2. PastMonth \cup {s} \in SUBSET Sessions
      BY PastInSessions
    <2>3. Cardinality(PastMonth \cup {s}) <= Cardinality(Sessions)
      BY <2>2, Smaller
    <2>4. Cardinality(PastMonth) + 1 <= Cardinality(Sessions)
      BY <1>4, <2>1, <2>3
    <2>5. Within(spent + lost, Cardinality(PastMonth) + 1, Cardinality(Sessions), faults', MonthLimit, MaxCost)
      <3>1. CASE WithinMonth /\ faults' = faults
        <4>1. spent <= MonthLimit - 1
          BY <3>1, Typed DEF WithinMonth
        <4>2. lost <= MaxCost * faults /\ Cardinality(PastMonth) + 1 \in Nat
          BY Sizes DEF LostOK
        <4>3. Within(spent + lost, Cardinality(PastMonth) + 1, Cardinality(Sessions), faults, MonthLimit, MaxCost)
          BY <2>4, <4>1, <4>2, Typed, Sizes, AdmittedAside
        <4> QED BY <3>1, <4>3
      <3>2. CASE Fault
        <4>1. Within(spent + lost, Cardinality(PastMonth), Cardinality(Sessions), faults, MonthLimit, MaxCost)
          BY Reserves
        <4>2. Within(spent + lost, Cardinality(PastMonth) + 1, Cardinality(Sessions), faults + 1, MonthLimit, MaxCost)
          BY <4>1, Typed, Sizes, WithinSteps
        <4> QED BY <3>2, <4>2 DEF Fault
      <3> QED BY <3>1, <3>2 DEF ChecksMonth
    <2> QED BY <1>2, <2>1, <2>5 DEF MonthReserve, Within
  <1>7. KeyReserve'
    <2>1. \A k \in Keys : PastKey(k)' = PastKey(k)
      BY DEF ChecksMonth, Moves, PastKey, TypeOK
    <2>2. ASSUME NEW k \in Keys
          PROVE  Within(keySpent[k], Cardinality(PastKey(k)), Cardinality(OfKey(k)), faults', SessionLimit, MaxCost)
      BY <1>1, Reserves, UnmovedKey
    <2> QED BY <1>2, <2>1, <2>2 DEF KeyReserve, Within, OfKey
  <1> QED BY <1>3, <1>5, <1>7

LEMMA RecordsOne ==
  ASSUME IInv, NEW s \in Sessions, Records(s)
  PROVE  LostOK' /\ MonthReserve' /\ KeyReserve'
  <1> USE DEF IInv
  <1>1. /\ faults' = faults /\ lost' = lost /\ spent' = spent + cost[s]
        /\ \A k \in Keys : keySpent'[k] = keySpent[k] + (IF k = KeyOf[s] THEN cost[s] ELSE 0)
    BY Typed DEF Records, Adds, TypeOK
  <1>2. LostOK'
    BY <1>1 DEF LostOK
  <1>3. PastMonth' = PastMonth \ {s} /\ \A k \in Keys : PastKey(k)' = PastKey(k) \ {s}
    BY GoesHome DEF Records, Returns
  <1>4. s \in PastMonth /\ s \in PastKey(KeyOf[s])
    BY DEF Records, PastMonth, PastKey
  <1>5. cost[s] \in 0..MaxCost /\ faults \in {faults, faults + 1}
    BY Typed
  <1>6. MonthReserve'
    <2>1. /\ Cardinality(PastMonth') = Cardinality(PastMonth) - 1
          /\ Cardinality(PastMonth') \in Nat
      BY <1>3, <1>4, PastInSessions, Leaves, Smaller
    <2>2. Within(spent + lost, Cardinality(PastMonth), Cardinality(Sessions), faults, MonthLimit, MaxCost)
      BY Reserves
    <2>3. Within((spent + lost) + cost[s], Cardinality(PastMonth'), Cardinality(Sessions), faults, MonthLimit, MaxCost)
      <3>1. spent + lost \in Int /\ faults \in Nat /\ MonthLimit \in Nat /\ MaxCost \in Nat
        BY Typed
      <3>2. Cardinality(PastMonth) \in Nat /\ Cardinality(Sessions) \in Nat
        BY Sizes
      <3> QED BY <1>5, <2>1, <2>2, <3>1, <3>2, Paid
    <2>4. (spent + lost) + cost[s] = (spent + cost[s]) + lost
      BY Typed, <1>5
    <2> QED BY <1>1, <2>3, <2>4 DEF MonthReserve, Within
  <1>7. ASSUME NEW k \in Keys
        PROVE  Within(keySpent[k] + (IF k = KeyOf[s] THEN cost[s] ELSE 0),
                      Cardinality(PastKey(k)'), Cardinality(OfKey(k)), faults, SessionLimit, MaxCost)
    <2>1. Within(keySpent[k], Cardinality(PastKey(k)), Cardinality(OfKey(k)), faults, SessionLimit, MaxCost)
      BY Reserves
    <2>2. keySpent[k] \in Nat /\ keySpent[k] \in Int /\ faults \in Nat /\ SessionLimit \in Nat /\ MaxCost \in Nat
      BY Typed
    <2>3. Cardinality(PastKey(k)) \in Nat /\ Cardinality(OfKey(k)) \in Nat
      BY Sizes
    <2>4. CASE k # KeyOf[s]
      <3>1. PastKey(k)' = PastKey(k)
        BY <1>3, <2>4 DEF PastKey
      <3>2. keySpent[k] + (IF k = KeyOf[s] THEN cost[s] ELSE 0) = keySpent[k]
        BY <2>2, <2>4
      <3> QED BY <2>1, <3>1, <3>2
    <2>5. CASE k = KeyOf[s]
      <3>1. /\ Cardinality(PastKey(k)') = Cardinality(PastKey(k)) - 1
            /\ Cardinality(PastKey(k)') \in Nat
        <4>1. PastKey(k) \in SUBSET Sessions /\ s \in PastKey(k) /\ PastKey(k)' = PastKey(k) \ {s}
          BY <1>3, <1>4, <2>5 DEF PastKey
        <4> QED BY <4>1, Leaves, Smaller
      <3>2. Within(keySpent[k] + cost[s], Cardinality(PastKey(k)'), Cardinality(OfKey(k)), faults, SessionLimit, MaxCost)
        BY <1>5, <2>1, <2>2, <2>3, <3>1, Paid
      <3> QED BY <2>5, <3>2
    <2> QED BY <2>4, <2>5
  <1>8. KeyReserve'
    BY <1>1, <1>7 DEF KeyReserve, Within, OfKey
  <1> QED BY <1>2, <1>6, <1>8

LEMMA LosesOneRecord ==
  ASSUME IInv, NEW s \in Sessions, LosesRecord(s)
  PROVE  LostOK' /\ MonthReserve' /\ KeyReserve'
  <1> USE DEF IInv
  <1>1. faults' = faults + 1 /\ lost' = lost + cost[s] /\ spent' = spent /\ keySpent' = keySpent
    BY DEF LosesRecord, Fault
  <1>2. cost[s] \in 0..MaxCost /\ faults + 1 \in {faults, faults + 1}
    BY Typed
  <1>3. LostOK'
    <2>1. lost + cost[s] <= MaxCost * (faults + 1)
      BY <1>2, Typed, LosesOne DEF LostOK
    <2> QED BY <1>1, <2>1 DEF LostOK
  <1>4. PastMonth' = PastMonth \ {s} /\ \A k \in Keys : PastKey(k)' = PastKey(k) \ {s}
    BY GoesHome DEF LosesRecord, Returns
  <1>5. MonthReserve'
    <2>1. s \in PastMonth
      BY DEF LosesRecord, PastMonth
    <2>2. /\ Cardinality(PastMonth') = Cardinality(PastMonth) - 1
          /\ Cardinality(PastMonth') \in Nat
      BY <1>4, <2>1, PastInSessions, Leaves, Smaller
    <2>3. Within(spent + lost, Cardinality(PastMonth), Cardinality(Sessions), faults, MonthLimit, MaxCost)
      BY Reserves
    <2>4. Within((spent + lost) + cost[s], Cardinality(PastMonth'), Cardinality(Sessions), faults + 1, MonthLimit, MaxCost)
      <3>1. spent + lost \in Int /\ faults \in Nat /\ MonthLimit \in Nat /\ MaxCost \in Nat
        BY Typed
      <3>2. Cardinality(PastMonth) \in Nat /\ Cardinality(Sessions) \in Nat
        BY Sizes
      <3> QED BY <1>2, <2>2, <2>3, <3>1, <3>2, Paid
    <2>5. (spent + lost) + cost[s] = spent + (lost + cost[s])
      BY Typed, <1>2
    <2> QED BY <1>1, <2>4, <2>5 DEF MonthReserve, Within
  <1>6. ASSUME NEW k \in Keys
        PROVE  Within(keySpent[k], Cardinality(PastKey(k)'), Cardinality(OfKey(k)), faults + 1, SessionLimit, MaxCost)
    <2>1. PastKey(k) \in SUBSET Sessions /\ PastKey(k)' \in SUBSET PastKey(k)
      BY <1>4, PastInSessions
    <2>2. /\ Cardinality(PastKey(k)) \in Nat /\ Cardinality(PastKey(k)') \in Nat
          /\ Cardinality(PastKey(k)') <= Cardinality(PastKey(k))
      BY <2>1, Smaller
    <2>3. keySpent[k] \in Int /\ faults \in Nat /\ SessionLimit \in Nat /\ MaxCost \in Nat
      BY Typed
    <2>4. Cardinality(OfKey(k)) \in Nat
      BY Sizes
    <2>5. Within(keySpent[k], Cardinality(PastKey(k)), Cardinality(OfKey(k)), faults, SessionLimit, MaxCost)
      BY Reserves
    <2>6. Within(keySpent[k], Cardinality(PastKey(k)'), Cardinality(OfKey(k)), faults, SessionLimit, MaxCost)
      BY <2>2, <2>3, <2>4, <2>5, WithinSteps
    <2> QED BY <1>2, <2>2, <2>3, <2>4, <2>6, Unmoved
  <1>7. KeyReserve'
    BY <1>1, <1>6 DEF KeyReserve, Within, OfKey
  <1> QED BY <1>3, <1>5, <1>7

-----------------------------------------------------------------------------
(* The budget holds over every step.                                       *)

LEMMA GoesKeeps ==
  ASSUME IInv, NEW s \in Sessions, Goes(s)
  PROVE  LostOK' /\ MonthReserve' /\ KeyReserve'
  <1>0. TypeOK /\ LostOK /\ MonthReserve /\ KeyReserve
    BY DEF IInv
  <1> DEFINE Onward == \E p \in Places : Moves(s, p) /\ at[s] \notin {"idle", "month"}
             Home   == Moves(s, "idle")
  <1>1. ASSUME Onward \/ Home, UNCHANGED Money
        PROVE  LostOK' /\ MonthReserve' /\ KeyReserve'
    <2>1. PastMonth' \in SUBSET PastMonth /\ \A k \in Keys : PastKey(k)' \in SUBSET PastKey(k)
      BY <1>0, <1>1, GoesOn, GoesHome
    <2> QED BY <1>0, <1>1, <2>1, Kept
  <1>2. "slot" \in Places /\ "request" \in Places /\ "answered" \in Places /\ "backoff" \in Places
    BY DEF Places
  <1>3. TakesSlot(s) \/ Answers(s) \/ TriesAgain(s) => Onward /\ UNCHANGED Money
    BY <1>2 DEF TakesSlot, Answers, TriesAgain
  <1>4. NoSlot(s) \/ Cancelled(s) \/ StopsBackingOff(s) \/ Refused(s) => Home /\ UNCHANGED Money
    BY DEF NoSlot, Cancelled, StopsBackingOff, Refused, Returns
  <1>5. ASSUME NEW f \in Failures
        PROVE  /\ Fails(s, f) \/ AsksFallback(s, f) => Onward /\ UNCHANGED Money
               /\ GivesUp(s, f) => Home /\ UNCHANGED Money
    BY <1>2 DEF Fails, AsksFallback, FallsBack, GivesUp, Returns
  <1> HIDE DEF Onward, Home
  <1> QED BY <1>1, <1>3, <1>4, <1>5, RecordsOne, LosesOneRecord, PassesMonth DEF Goes

LEMMA MoneyKept ==
  ASSUME IInv, [Next]_vars
  PROVE  LostOK' /\ MonthReserve' /\ KeyReserve'
  <1>1. CASE \E s \in Sessions : ChecksSession(s)
    BY <1>1, PassesSession
  <1>2. CASE \E s \in Sessions : Goes(s)
    BY <1>2, GoesKeeps
  <1>3. CASE (\E s \in Sessions : ContextEnds(s)) \/ UNCHANGED vars
    <2>1. UNCHANGED Money /\ at' = at
      BY <1>3 DEF ContextEnds, vars, Money
    <2>2. PastMonth' = PastMonth /\ \A k \in Keys : PastKey(k)' = PastKey(k)
      BY <2>1 DEF PastMonth, PastKey
    <2> QED BY <2>1, <2>2, Kept DEF IInv
  <1> QED BY <1>1, <1>2, <1>3 DEF Next

-----------------------------------------------------------------------------
(* Types and the counts of requests.                                       *)

LEMMA Counting ==
  ASSUME TypeOK, NEW s \in Sessions
  PROVE  /\ attempt[s] \in Nat /\ sent[s] \in Nat /\ MaxRetries \in Nat
         /\ attempt[s] <= MaxRetries
         /\ ~LastAttempt(s) => attempt[s] + 1 \in 0..MaxRetries
  BY CallsAssumption DEF TypeOK, LastAttempt

LEMMA ReturnsTyped ==
  ASSUME TypeOK, NEW s \in Sessions, Returns(s)
  PROVE  /\ at' \in [Sessions -> Places] /\ client' \in [Sessions -> Clients]
         /\ attempt' \in [Sessions -> 0..MaxRetries] /\ sent' \in [Sessions -> Nat]
         /\ cost' \in [Sessions -> 0..MaxCost]
  BY CallsAssumption DEF TypeOK, Returns, Moves, Places, Clients

LEMMA FaultsTyped ==
  ASSUME TypeOK, faults' = faults \/ Fault
  PROVE  faults' \in 0..MaxFaults
  BY CallsAssumption DEF TypeOK, Fault

LEMMA TypeStep ==
  ASSUME TypeOK, [Next]_vars
  PROVE  TypeOK'
  <1> DEFINE Rest == UNCHANGED <<live, Money>>
  <1>1. CASE UNCHANGED vars
    BY <1>1 DEF vars, TypeOK
  <1>2. ASSUME NEW s \in Sessions, ChecksSession(s) \/ ChecksMonth(s)
        PROVE  TypeOK'
    <2>1. faults' \in 0..MaxFaults
      BY <1>2, FaultsTyped DEF ChecksSession, ChecksMonth
    <2> QED BY <1>2, <2>1 DEF ChecksSession, ChecksMonth, Moves, Call, TypeOK, Places
  <1>3. ASSUME NEW s \in Sessions, Refused(s) \/ TakesSlot(s) \/ TriesAgain(s) \/ ContextEnds(s)
        PROVE  TypeOK'
    BY <1>3 DEF Refused, TakesSlot, TriesAgain, ContextEnds, Moves, Call, Money, TypeOK, Places
  <1>4. ASSUME NEW s \in Sessions, Returns(s), UNCHANGED <<live, Money>>
        PROVE  TypeOK'
    BY <1>4, ReturnsTyped DEF Money, TypeOK
  <1>5. ASSUME NEW s \in Sessions, Answers(s)
        PROVE  TypeOK'
    BY <1>5 DEF Answers, Sends, Moves, Money, TypeOK, Places
  <1>6. ASSUME NEW s \in Sessions, NEW f \in Failures, Fails(s, f)
        PROVE  TypeOK'
    <2>1. attempt[s] + 1 \in 0..MaxRetries
      BY <1>6, Counting DEF Fails
    <2> QED BY <1>6, <2>1 DEF Fails, Sends, Moves, Money, TypeOK, Places
  <1>7. ASSUME NEW s \in Sessions, NEW f \in Failures, AsksFallback(s, f)
        PROVE  TypeOK'
    BY <1>7, CallsAssumption DEF AsksFallback, FallsBack, Sends, Moves, Money, TypeOK, Places, Clients
  <1>8. ASSUME NEW s \in Sessions, Records(s)
        PROVE  TypeOK'
    <2>1. keySpent' \in [Keys -> Nat] /\ spent' \in Nat
      BY <1>8, Typed DEF Records, Adds, TypeOK
    <2> QED BY <1>8, <2>1, ReturnsTyped DEF Records, TypeOK
  <1>9. ASSUME NEW s \in Sessions, LosesRecord(s)
        PROVE  TypeOK'
    <2>1. lost' \in Nat
      BY <1>9, Typed DEF LosesRecord
    <2>2. faults' \in 0..MaxFaults
      BY <1>9, FaultsTyped DEF LosesRecord
    <2> QED BY <1>9, <2>1, <2>2, ReturnsTyped DEF LosesRecord, TypeOK
  <1> QED BY <1>1, <1>2, <1>3, <1>4, <1>5, <1>6, <1>7, <1>8, <1>9
          DEF Next, Goes, NoSlot, Cancelled, StopsBackingOff, GivesUp

LEMMA CountsStep ==
  ASSUME TypeOK, CountsOK, [Next]_vars
  PROVE  CountsOK'
  <1> SUFFICES ASSUME NEW t \in Sessions
               PROVE  /\ client'[t] = "fallback" => HasFallback
                      /\ at'[t] = "backoff" => attempt'[t] >= 1
                      /\ at'[t] \in {"idle", "month"} => sent'[t] = 0
                      /\ sent'[t] <= attempt'[t] + (IF client'[t] = "fallback" THEN MaxRetries + 1 ELSE 0)
                                       + (IF at'[t] = "answered" THEN 1 ELSE 0)
    BY DEF CountsOK, SentSoFar
  <1>0. /\ client[t] = "fallback" => HasFallback
        /\ at[t] = "backoff" => attempt[t] >= 1
        /\ at[t] \in {"idle", "month"} => sent[t] = 0
        /\ sent[t] <= attempt[t] + (IF client[t] = "fallback" THEN MaxRetries + 1 ELSE 0)
                         + (IF at[t] = "answered" THEN 1 ELSE 0)
        /\ attempt[t] \in Nat /\ sent[t] \in Nat /\ MaxRetries \in Nat /\ attempt[t] <= MaxRetries
    BY Counting DEF CountsOK, SentSoFar
  <1>1. CASE UNCHANGED <<at, client, attempt, sent>>
    BY <1>0, <1>1
  <1>2. ASSUME NEW s \in Sessions, Returns(s)
        PROVE  t = s => client'[t] = "primary" /\ at'[t] = "idle" /\ attempt'[t] = 0 /\ sent'[t] = 0
    BY <1>2 DEF Returns, Moves, TypeOK
  <1>3. ASSUME NEW s \in Sessions, t # s, Goes(s) \/ ChecksSession(s)
        PROVE  at'[t] = at[t] /\ client'[t] = client[t] /\ attempt'[t] = attempt[t] /\ sent'[t] = sent[t]
    BY <1>3 DEF Goes, ChecksSession, ChecksMonth, Refused, TakesSlot, NoSlot, Answers, Cancelled, TriesAgain,
       StopsBackingOff, Records, LosesRecord, Fails, AsksFallback, FallsBack, GivesUp, Returns, Sends, Moves,
       Call, TypeOK
  <1>4. ASSUME ChecksSession(t) \/ ChecksMonth(t) \/ Refused(t) \/ TakesSlot(t) \/ TriesAgain(t)
        PROVE  /\ client'[t] = client[t] /\ attempt'[t] = attempt[t] /\ sent'[t] = sent[t]
               /\ at[t] # "answered" /\ at'[t] \notin {"backoff", "answered"}
               /\ at'[t] \in {"idle", "month"} => at[t] \in {"idle", "month"}
    BY <1>4 DEF ChecksSession, ChecksMonth, Refused, TakesSlot, TriesAgain, Moves, Call, TypeOK
  <1>5. ASSUME Answers(t)
        PROVE  /\ client'[t] = client[t] /\ attempt'[t] = attempt[t] /\ sent'[t] = sent[t] + 1
               /\ at[t] = "request" /\ at'[t] = "answered"
    BY <1>5 DEF Answers, Sends, Moves, TypeOK
  <1>6. ASSUME NEW f \in Failures, Fails(t, f)
        PROVE  /\ client'[t] = client[t] /\ attempt'[t] = attempt[t] + 1 /\ sent'[t] = sent[t] + 1
               /\ at[t] = "request" /\ at'[t] = "backoff"
    BY <1>6 DEF Fails, Sends, Moves, TypeOK
  <1>7. ASSUME NEW f \in Failures, AsksFallback(t, f)
        PROVE  /\ client[t] = "primary" /\ HasFallback /\ client'[t] = "fallback"
               /\ attempt'[t] = 0 /\ sent'[t] = sent[t] + 1
               /\ at[t] = "request" /\ at'[t] = "slot"
    BY <1>7 DEF AsksFallback, CanFallBack, FallsBack, Sends, Moves, TypeOK
  <1>8. CASE ChecksSession(t) \/ ChecksMonth(t) \/ Refused(t) \/ TakesSlot(t) \/ TriesAgain(t)
    BY <1>0, <1>4, <1>8
  <1>9. CASE Answers(t)
    BY <1>0, <1>5, <1>9
  <1>10. CASE \E f \in Failures : Fails(t, f)
    BY <1>0, <1>6, <1>10
  <1>11. CASE \E f \in Failures : AsksFallback(t, f)
    BY <1>0, <1>7, <1>11
  <1>12. CASE Returns(t)
    BY <1>0, <1>2, <1>12
  <1>13. CASE \E s \in Sessions : t # s /\ (Goes(s) \/ ChecksSession(s))
    BY <1>0, <1>3, <1>13
  <1>14. Goes(t) => \/ ChecksMonth(t) \/ Refused(t) \/ TakesSlot(t) \/ TriesAgain(t) \/ Answers(t)
                    \/ (\E f \in Failures : Fails(t, f)) \/ (\E f \in Failures : AsksFallback(t, f))
                    \/ Returns(t)
    BY DEF Goes, NoSlot, Cancelled, StopsBackingOff, Records, LosesRecord, GivesUp
  <1>15. UNCHANGED vars \/ (\E s \in Sessions : ContextEnds(s)) => UNCHANGED <<at, client, attempt, sent>>
    BY DEF vars, ContextEnds, Call
  <1> QED BY <1>1, <1>8, <1>9, <1>10, <1>11, <1>12, <1>13, <1>14, <1>15 DEF Next

-----------------------------------------------------------------------------
(* The inductive invariant.                                                *)
THEOREM CallsInvariant == Spec => []IInv
  <1>1. IInv /\ [Next]_vars => IInv'
    <2> SUFFICES ASSUME IInv, [Next]_vars PROVE IInv'
      OBVIOUS
    <2>1. TypeOK' /\ CountsOK'
      BY TypeStep, CountsStep DEF IInv
    <2>2. LostOK' /\ MonthReserve' /\ KeyReserve'
      BY MoneyKept
    <2> QED BY <2>1, <2>2 DEF IInv
  <1> QED BY TypeCorrectInit, <1>1, PTL DEF Spec

LEMMA Room ==
  ASSUME NEW m \in Nat, NEW a \in Nat, NEW c \in Nat, NEW f \in Nat,
         NEW x \in Int, NEW limit \in Nat, Within(x, a, c, f, limit, m)
  PROVE  x <= limit - 1 + m * (c + f)
  <1> DEFINE ma == m * a
             mcf == m * (c + f)
  <1>1. ma \in Nat /\ mcf \in Int /\ x + ma <= limit - 1 + mcf
    BY DEF Within
  <1> SUFFICES x <= limit - 1 + mcf
    OBVIOUS
  <1> HIDE DEF ma, mcf
  <1> QED BY <1>1

(* What the calls of a month have cost stays below the limit but for the   *)
(* calls under way when it was reached and the faults of the database.     *)
THEOREM MonthBudgetHolds == Spec => []MonthOverrunBounded
  <1>1. IInv => MonthOverrunBounded
    <2> SUFFICES ASSUME IInv PROVE MonthOverrunBounded
      OBVIOUS
    <2>1. Within(spent + lost, Cardinality(PastMonth), Cardinality(Sessions), faults, MonthLimit, MaxCost)
      BY Reserves DEF IInv
    <2>2. spent + lost \in Int /\ faults \in Nat /\ MonthLimit \in Nat /\ MaxCost \in Nat
      BY Typed DEF IInv
    <2>3. Cardinality(PastMonth) \in Nat /\ Cardinality(Sessions) \in Nat
      BY Sizes
    <2> QED BY <2>1, <2>2, <2>3, Room DEF MonthOverrunBounded
  <1> QED BY CallsInvariant, <1>1, PTL

(* The same of the sessions of one key.                                    *)
THEOREM SessionBudgetHolds == Spec => []SessionOverrunBounded
  <1>1. IInv => SessionOverrunBounded
    <2> SUFFICES ASSUME IInv, NEW k \in Keys
                 PROVE  keySpent[k] <= SessionLimit - 1 + MaxCost * (Cardinality(OfKey(k)) + faults)
      BY DEF SessionOverrunBounded
    <2>1. Within(keySpent[k], Cardinality(PastKey(k)), Cardinality(OfKey(k)), faults, SessionLimit, MaxCost)
      BY Reserves DEF IInv
    <2>2. keySpent[k] \in Int /\ faults \in Nat /\ SessionLimit \in Nat /\ MaxCost \in Nat
      BY Typed DEF IInv
    <2>3. Cardinality(PastKey(k)) \in Nat /\ Cardinality(OfKey(k)) \in Nat
      BY Sizes
    <2> QED BY <2>1, <2>2, <2>3, Room
  <1> QED BY CallsInvariant, <1>1, PTL

(* A turn sends no more than every attempt of the one client and of the    *)
(* other.                                                                  *)
THEOREM TurnRequestsBounded == Spec => []RequestsBounded
  <1>1. IInv => RequestsBounded
    <2> SUFFICES ASSUME IInv, NEW s \in Sessions
                 PROVE  sent[s] <= (MaxRetries + 1) * (IF HasFallback THEN 2 ELSE 1)
      BY DEF RequestsBounded
    <2>1. /\ client[s] = "fallback" => HasFallback
          /\ sent[s] <= attempt[s] + (IF client[s] = "fallback" THEN MaxRetries + 1 ELSE 0)
                          + (IF at[s] = "answered" THEN 1 ELSE 0)
          /\ attempt[s] \in Nat /\ sent[s] \in Nat /\ MaxRetries \in Nat /\ attempt[s] <= MaxRetries
      BY Counting DEF IInv, CountsOK, SentSoFar
    <2>2. CASE HasFallback
      BY <2>1, <2>2
    <2>3. CASE ~HasFallback
      BY <2>1, <2>3
    <2> QED BY <2>2, <2>3
  <1> QED BY CallsInvariant, <1>1, PTL

=============================================================================
