----------------------------- MODULE MindProofs -----------------------------
(***************************************************************************)
(* What Mind guarantees for every value of its constants: its types,       *)
(* whatever the model says, and that an urgent need becomes the focus and  *)
(* bounds the sleep.                                                       *)
(***************************************************************************)
EXTENDS Mind, WellFoundedInduction, FiniteSetTheorems, TLAPS

(* Least elements.                                                         *)

LEMMA LeastNumber ==
    ASSUME NEW T \in SUBSET Nat, T # {}
    PROVE  \E x \in T : \A y \in T : x <= y
<1>1. PICK x \in T : \A y \in T : <<y, x>> \notin OpToRel(<, Nat)
  BY NatLessThanWellFounded, WFMin
<1>2. \A y \in T : ~(y < x)
  BY <1>1 DEF OpToRel
<1> QED
  BY <1>2

LEMMA Least ==
    ASSUME NEW S, S # {}, NEW f \in [S -> Nat]
    PROVE  \E x \in S : \A y \in S : f[x] <= f[y]
<1> DEFINE T == {f[x] : x \in S}
<1>1. T \in SUBSET Nat /\ T # {}
  OBVIOUS
<1>2. PICK t \in T : \A u \in T : t <= u
  BY <1>1, LeastNumber
<1> QED
  BY <1>2

\* Ties of the first measure are broken by the second.
LEMMA LexicallyLeast ==
    ASSUME NEW S, S # {}, NEW f \in [S -> Nat], NEW g \in [S -> Nat]
    PROVE  \E x \in S : \A y \in S : f[x] < f[y] \/ (f[x] = f[y] /\ g[x] <= g[y])
<1>1. PICK a \in S : \A y \in S : f[a] <= f[y]
  BY Least
<1> DEFINE T == {x \in S : f[x] = f[a]}
           h == [x \in T |-> g[x]]
<1>2. T # {} /\ h \in [T -> Nat]
  BY <1>1
<1>3. PICK x \in T : \A y \in T : h[x] <= h[y]
  BY <1>2, Least
<1> QED
  BY <1>1, <1>3

-----------------------------------------------------------------------------
(* The severity of a need is a percent.                                    *)

Graded == UNION {[N -> Percent] : N \in SUBSET NeedNames}

LEMMA GradedValues ==
    ASSUME NEW f \in Graded
    PROVE  DOMAIN f \subseteq NeedNames /\ \A n \in DOMAIN f : f[n] \in Percent
<1>1. PICK N \in SUBSET NeedNames : f \in [N -> Percent]
  BY DEF Graded
<1> QED
  BY <1>1

LEMMA WhenGraded ==
    ASSUME NEW c, NEW n \in NeedNames, NEW v, c => v \in Percent
    PROVE  When(c, n, v) \in Graded
<1>1. CASE c
  <2>1. {m \in {n} : c} = {n}
    BY <1>1
  <2>2. When(c, n, v) \in [{n} -> Percent]
    BY <1>1, <2>1 DEF When
  <2> QED
    BY <2>2 DEF Graded
<1>2. CASE ~c
  <2>1. {m \in {n} : c} = {}
    BY <1>2
  <2>2. When(c, n, v) \in [{} -> Percent]
    BY <2>1 DEF When
  <2> QED
    BY <2>2 DEF Graded
<1> QED
  BY <1>1, <1>2

LEMMA LayersGraded ==
    ASSUME NEW f \in Graded, NEW g \in Graded
    PROVE  f \uplus g \in Graded
<1>1. PICK N \in SUBSET NeedNames : f \in [N -> Percent]
  BY DEF Graded
<1>2. PICK M \in SUBSET NeedNames : g \in [M -> Percent]
  BY DEF Graded
<1>3. f \uplus g \in [N \cup M -> Percent]
  BY <1>1, <1>2 DEF \uplus
<1> QED
  BY <1>3 DEF Graded

LEMMA LayerValues ==
    ASSUME NEW f \in Graded, NEW g \in Graded
    PROVE  /\ DOMAIN (f \uplus g) = DOMAIN f \cup DOMAIN g
           /\ \A n \in DOMAIN f : (f \uplus g)[n] = f[n]
           /\ \A n \in DOMAIN g \ DOMAIN f : (f \uplus g)[n] = g[n]
  BY DEF \uplus

\* Every store of rows is finite.
LEMMA RowsFinite ==
    ASSUME NEW S, NEW rows \in Seq(S), NEW ids \in SUBSET DOMAIN rows
    PROVE  IsFiniteSet(ids) /\ Cardinality(ids) \in 0..Len(rows)
<1>1. DOMAIN rows = 1..Len(rows) /\ Len(rows) \in Nat
  OBVIOUS
<1>2. IsFiniteSet(1..Len(rows)) /\ Cardinality(1..Len(rows)) = Len(rows)
  <2>1. \A n \in Nat : IsFiniteSet(1..n) /\ Cardinality(1..n) = IF 1 > n THEN 0 ELSE n - 1 + 1
    BY FS_Interval
  <2> QED
    BY <1>1, <2>1
<1>3. IsFiniteSet(ids) /\ Cardinality(ids) <= Len(rows) /\ Cardinality(ids) \in Nat
  BY <1>1, <1>2, FS_Subset, FS_CardinalityType
<1> QED
  BY <1>1, <1>3

LEMMA ContradictionsCounted ==
    ASSUME WorldTypeOK
    PROVE  Cardinality(Contradictions) \in Nat
<1> DEFINE ids == {c \in Seen : \E a \in Standing : /\ beliefs[a].topic = beliefs[c].topic
                                                 /\ beliefs[a].answer # beliefs[c].answer}
<1>1. ids \in SUBSET DOMAIN beliefs
  BY DEF Seen, Standing
<1>2. IsFiniteSet(ids)
  BY <1>1, RowsFinite DEF WorldTypeOK
<1>3. Contradictions = {beliefs[b].topic : b \in ids}
  BY DEF Contradictions
<1>4. [b \in ids |-> beliefs[b].topic] \in Surjection(ids, Contradictions)
  BY <1>3 DEF Surjection
<1> HIDE DEF ids
<1>5. IsFiniteSet(Contradictions)
  BY <1>2, <1>4, FS_Surjection
<1> QED
  BY <1>5, FS_CardinalityType

LEMMA HealthCounted ==
    ASSUME MemoryTypeOK
    PROVE  /\ RecentErrors \in Nat
           /\ \A c \in Capabilities : ConsecutiveFailures(c) \in 0..Len(events)
           /\ Cardinality(Observations) \in Nat /\ Cardinality(Failed) \in Nat
           /\ Len(events) \in Nat
<1>1. RecentErrors \in Nat
  BY RowsFinite DEF MemoryTypeOK, RecentErrors
<1>2. ASSUME NEW c \in Capabilities PROVE ConsecutiveFailures(c) \in 0..Len(events)
  <2>1. {i \in Executed(c) : \A j \in Executed(c) : j >= i => ~events[j].ok} \in SUBSET DOMAIN events
    BY DEF Executed, Recent, Newest
  <2> QED
    BY <2>1, RowsFinite DEF MemoryTypeOK, ConsecutiveFailures
<1>3. Observations \in SUBSET DOMAIN events /\ Failed \in SUBSET DOMAIN events
  BY DEF Observations, Failed, Newest
<1>4. Cardinality(Observations) \in Nat /\ Cardinality(Failed) \in Nat
  BY <1>3, RowsFinite DEF MemoryTypeOK
<1> QED
  BY <1>1, <1>2, <1>4 DEF MemoryTypeOK

\* The largest number of a bounded set.
LEMMA MaxOfBounded ==
    ASSUME NEW T \in SUBSET Nat, T # {}, NEW bound \in Nat, \A x \in T : x <= bound
    PROVE  Max(T) \in T /\ \A y \in T : Max(T) >= y
<1> DEFINE below == [x \in T |-> bound - x]
<1>1. below \in [T -> Nat]
  OBVIOUS
<1>2. \E x \in T : \A y \in T : below[x] <= below[y]
  <2> HIDE DEF below
  <2> QED
    BY <1>1, Least
<1>3. PICK x \in T : \A y \in T : x >= y
  BY <1>2
<1> QED
  BY <1>3 DEF Max

LEMMA MinOfNumbers ==
    ASSUME NEW T \in SUBSET Nat, T # {}
    PROVE  Min(T) \in T /\ \A y \in T : Min(T) <= y
  BY LeastNumber DEF Min

LEMMA RepairGraded ==
    ASSUME MemoryTypeOK
    PROVE  LET failures == {ConsecutiveFailures(c) : c \in {d \in Capabilities : Degraded(d)}}
           IN Lesser(95, 65 + 5 * Max(failures \cup {0})) \in Percent
<1> DEFINE failures == {ConsecutiveFailures(c) : c \in {d \in Capabilities : Degraded(d)}}
           T == failures \cup {0}
<1>1. T \in SUBSET Nat /\ T # {} /\ \A x \in T : x <= Len(events)
  BY HealthCounted
<1>2. Max(T) \in Nat
  BY <1>1, HealthCounted, MaxOfBounded
<1> QED
  BY <1>2 DEF Lesser, Percent

LEMMA DerivedGraded ==
    ASSUME MemoryTypeOK, NEW s \in Situation
    PROVE  DerivedNeeds(s) \in Graded
<1> DEFINE active   == ActiveGoals(goals, ContextLimit)
           failures == {ConsecutiveFailures(c) : c \in {d \in Capabilities : Degraded(d)}}
           poor     == s.budget <= 25 /\ \A a \in Assets : balance[a] <= 0
           low      == s.budget \in 1..25
           broke    == s.budget = 0
           narrow   == s.budget <= 50 /\ ActiveOpportunities(ContextLimit) = {}
           blocked  == active # {} /\ \A g \in active : goals[g].status = "blocked"
           scarcity == IF s.budget <= 10 THEN 90 ELSE 70
           poverty  == IF s.budget > 10 THEN 62 ELSE 78
           trouble  == Lesser(95, 55 + 10 * RecentErrors)
           repair   == Lesser(95, 65 + 5 * Max(failures \cup {0}))
<1>1. 100 \in Percent /\ 85 \in Percent /\ 52 \in Percent /\ 40 \in Percent /\ 60 \in Percent /\ 65 \in Percent
  BY DEF Percent
<1>2. scarcity \in Percent /\ poverty \in Percent
  BY DEF Percent
<1>3. trouble \in Percent
  <2>1. RecentErrors \in Nat
    BY HealthCounted
  <2> QED
    BY <2>1 DEF Percent, Lesser
<1>4. repair \in Percent
  BY RepairGraded
<1> HIDE DEF active, failures, poor, low, broke, narrow, blocked, scarcity, poverty, trouble, repair
<1>5. When(~s.chronicle, "continuity_integrity", 100) \in Graded
  BY <1>1, WhenGraded DEF NeedNames
<1>6. When(~s.checkpoint, "durable_checkpoint", 85) \in Graded
  BY <1>1, WhenGraded DEF NeedNames
<1>7. When(broke, "compute_survival", 100) \in Graded
  BY <1>1, WhenGraded DEF NeedNames
<1>8. When(low, "compute_conservation", scarcity) \in Graded
  BY <1>2, WhenGraded DEF NeedNames
<1>9. When(poor, "resource_acquisition", poverty) \in Graded
  BY <1>2, WhenGraded DEF NeedNames
<1>10. When(Promising # {}, "opportunity_review", 52) \in Graded
  BY <1>1, WhenGraded DEF NeedNames
<1>11. When(narrow, "opportunity_discovery", 40) \in Graded
  BY <1>1, WhenGraded DEF NeedNames
<1>12. When(RecentErrors > 0, "runtime_reliability", trouble) \in Graded
  BY <1>3, WhenGraded DEF NeedNames
<1>13. When(failures # {}, "capability_repair", repair) \in Graded
  BY <1>4, WhenGraded DEF NeedNames
<1>14. When(active = {}, "goal_formation", 60) \in Graded
  BY <1>1, WhenGraded DEF NeedNames
<1>15. When(blocked, "goal_unblocking", 65) \in Graded
  BY <1>1, WhenGraded DEF NeedNames
<1> DEFINE a == When(~s.chronicle, "continuity_integrity", 100)
                   \uplus When(~s.checkpoint, "durable_checkpoint", 85)
                   \uplus When(broke, "compute_survival", 100)
                   \uplus When(low, "compute_conservation", scarcity)
           b == a \uplus When(poor, "resource_acquisition", poverty)
                  \uplus When(Promising # {}, "opportunity_review", 52)
                  \uplus When(narrow, "opportunity_discovery", 40)
           c == b \uplus When(RecentErrors > 0, "runtime_reliability", trouble)
                  \uplus When(failures # {}, "capability_repair", repair)
                  \uplus When(active = {}, "goal_formation", 60)
                  \uplus When(blocked, "goal_unblocking", 65)
<1>16. a \in Graded
  BY <1>5, <1>6, <1>7, <1>8, LayersGraded
<1>17. b \in Graded
  <2> HIDE DEF a
  <2> QED
    BY <1>9, <1>10, <1>11, <1>16, LayersGraded
<1>18. c \in Graded
  <2> HIDE DEF b
  <2> QED
    BY <1>12, <1>13, <1>14, <1>15, <1>17, LayersGraded
<1>19. DerivedNeeds(s) = c
  BY DEF DerivedNeeds, active, failures, poor, low, broke, narrow, blocked, scarcity, poverty, trouble, repair
<1> QED
  BY <1>18, <1>19

LEMMA PressureGraded == ResourcePressure \in Graded
<1> DEFINE runway  == IF Bottleneck = NoAsset THEN 0 ELSE RunwaySeverity(Bottleneck)
           unknown == IF \A a \in Assets : CashflowProjection(a).complete THEN 0 ELSE 90
<1>1. runway \in Percent /\ unknown \in Percent
  BY DEF Percent, RunwaySeverity
<1>2. Greater(runway, unknown) \in Percent
  BY <1>1 DEF Percent, Greater
<1> HIDE DEF runway, unknown
<1>3. When(runway > 0 \/ unknown > 0, "resource_runway", Greater(runway, unknown)) \in Graded
  BY <1>2, WhenGraded DEF NeedNames
<1>4. When(Uncovered # {}, "uncovered_essential_obligation", IF Min(Uncovered) <= 1 THEN 99 ELSE 92) \in Graded
  BY WhenGraded DEF NeedNames, Percent
<1> QED
  BY <1>3, <1>4, LayersGraded DEF ResourcePressure, runway, unknown

LEMMA SignalsGraded ==
    ASSUME MemoryTypeOK, WorldTypeOK, NEW s \in Situation
    PROVE  Signals(s) \in Graded
<1> DEFINE seen       == Cardinality(Observations)
           failed     == Cardinality(Failed)
           failing    == seen >= SensorMinimum /\ 2 * failed >= seen
           unsettled  == Lesser(100, 88 + 2 * s.incomplete)
           deafness   == Lesser(90, 55 + (40 * failed) \div Greater(1, seen))
           dissonance == Lesser(78, 45 + 5 * Cardinality(Contradictions))
<1>1. 98 \in Percent /\ 72 \in Percent
  BY DEF Percent
<1>2. unsettled \in Percent
  BY DEF Percent, Lesser, Situation
<1>3. deafness \in Percent
  <2>1. Greater(1, seen) \in Nat \ {0} /\ 40 * failed \in Nat
    BY HealthCounted DEF Greater
  <2> HIDE DEF seen, failed
  <2>2. (40 * failed) \div Greater(1, seen) \in Nat
    BY <2>1
  <2> QED
    BY <2>2 DEF Lesser, Percent
<1>4. dissonance \in Percent
  BY ContradictionsCounted DEF Lesser, Percent
<1> HIDE DEF failing, unsettled, deafness, dissonance
<1>5. When(s.storage <= 5, "storage_survival", 98) \in Graded
  BY <1>1, WhenGraded DEF NeedNames
<1>6. When(s.storage \in 6..15, "storage_conservation", 72) \in Graded
  BY <1>1, WhenGraded DEF NeedNames
<1>7. When(s.incomplete > 0, "state_reconciliation", unsettled) \in Graded
  BY <1>2, WhenGraded DEF NeedNames
<1>8. When(failing, "sensorium_degradation", deafness) \in Graded
  BY <1>3, WhenGraded DEF NeedNames
<1>9. When(Contradictions # {}, "epistemic_conflict", dissonance) \in Graded
  BY <1>4, WhenGraded DEF NeedNames
<1> DEFINE a == ResourcePressure
                   \uplus When(s.storage <= 5, "storage_survival", 98)
                   \uplus When(s.storage \in 6..15, "storage_conservation", 72)
                   \uplus When(s.incomplete > 0, "state_reconciliation", unsettled)
                   \uplus When(failing, "sensorium_degradation", deafness)
                   \uplus When(Contradictions # {}, "epistemic_conflict", dissonance)
<1>10. a \in Graded
  BY <1>5, <1>6, <1>7, <1>8, <1>9, PressureGraded, LayersGraded
<1>11. Signals(s) = a
  BY DEF Signals, failing, unsettled, deafness, dissonance
<1> QED
  BY <1>10, <1>11

LEMMA EcologyGraded == EcologyNeeds \in Graded
<1> DEFINE severity == CASE Bottleneck = NoAsset         -> 0
                         [] RunwayWithin(Bottleneck, 3)  -> 94
                         [] RunwayWithin(Bottleneck, 7)  -> 84
                         [] RunwayWithin(Bottleneck, 14) -> 72
                         [] RunwayWithin(Bottleneck, 30) -> 58
                         [] OTHER                        -> 42
<1>1. severity \in Percent
  BY DEF Percent
<1> DEFINE moving == \E w \in ActiveWork : works[w].status \in {"staged", "submitted"}
           effort == IF moving THEN 74 ELSE 62
           task   == IF ExactCandidates(Bottleneck) # {} THEN "resource_execution" ELSE "resource_discovery"
<1>2. effort \in Percent /\ task \in NeedNames
  BY DEF Percent, NeedNames
<1> HIDE DEF severity, effort, task
<1>3. When(Bottleneck # NoAsset, task, severity) \in Graded
  BY <1>1, <1>2, WhenGraded
<1>4. When(ActiveWork # {}, "work_execution", effort) \in Graded
  BY <1>2, WhenGraded DEF NeedNames
<1> QED
  BY <1>3, <1>4, LayersGraded DEF EcologyNeeds, severity, effort, task

LEMMA NeedsGraded ==
    ASSUME MemoryTypeOK, WorldTypeOK, NEW s \in Situation
    PROVE  Needs(s) \in Graded
<1>1. 100 \in Percent /\ 55 \in Percent
  BY DEF Percent
<1>2. When(s.drift, "identity_drift", 100) \in Graded
  BY <1>1, WhenGraded DEF NeedNames
<1>3. BodyReadiness(s) \in Graded
  BY <1>1, WhenGraded DEF BodyReadiness, NeedNames
<1> QED
  BY <1>2, <1>3, DerivedGraded, SignalsGraded, EcologyGraded, LayersGraded DEF Needs

-----------------------------------------------------------------------------
(* What the agency kernel chooses exists.                                  *)

LEMMA PlaceInjective ==
    /\ Place \in [NeedNames -> 1..23]
    /\ \A n, m \in NeedNames : Place[n] = Place[m] => n = m
<1>1. DOMAIN Alphabet = 1..23
  BY DEF Alphabet
<1>2. \A n \in NeedNames : \E i \in 1..23 : Alphabet[i] = n
  <2>1. /\ Alphabet[1] = "body_readiness" /\ Alphabet[2] = "capability_repair"
        /\ Alphabet[3] = "compute_conservation" /\ Alphabet[4] = "compute_survival"
        /\ Alphabet[5] = "continuity_integrity" /\ Alphabet[6] = "durable_checkpoint"
        /\ Alphabet[7] = "epistemic_conflict" /\ Alphabet[8] = "goal_formation"
        /\ Alphabet[9] = "goal_unblocking" /\ Alphabet[10] = "identity_drift"
        /\ Alphabet[11] = "opportunity_discovery" /\ Alphabet[12] = "opportunity_review"
        /\ Alphabet[13] = "resource_acquisition" /\ Alphabet[14] = "resource_discovery"
        /\ Alphabet[15] = "resource_execution" /\ Alphabet[16] = "resource_runway"
        /\ Alphabet[17] = "runtime_reliability" /\ Alphabet[18] = "sensorium_degradation"
        /\ Alphabet[19] = "state_reconciliation" /\ Alphabet[20] = "storage_conservation"
        /\ Alphabet[21] = "storage_survival" /\ Alphabet[22] = "uncovered_essential_obligation"
        /\ Alphabet[23] = "work_execution"
    BY DEF Alphabet
  <2> QED
    BY <2>1 DEF NeedNames
<1>3. \A n \in NeedNames : Place[n] \in 1..23 /\ Alphabet[Place[n]] = n
  BY <1>1, <1>2 DEF Place
<1> QED
  BY <1>3 DEF Place

LEMMA TopIsSevere ==
    ASSUME NEW needs \in Graded, NEW names \in SUBSET DOMAIN needs, names # {}
    PROVE  /\ Top(needs, names) \in names
           /\ \A n \in names : needs[Top(needs, names)] >= needs[n]
<1>1. names \in SUBSET NeedNames /\ \A n \in names : needs[n] \in Percent
  BY DEF Graded
<1> DEFINE mild  == [n \in names |-> 100 - needs[n]]
           place == [n \in names |-> Place[n]]
<1>2. mild \in [names -> Nat] /\ place \in [names -> Nat]
  BY <1>1, PlaceInjective DEF Percent
<1>3. \E n \in names : \A m \in names : mild[n] < mild[m] \/ (mild[n] = mild[m] /\ place[n] <= place[m])
  <2> HIDE DEF mild, place
  <2> QED
    BY <1>2, LexicallyLeast
<1>4. PICK n \in names : \A m \in names :
          100 - needs[n] < 100 - needs[m] \/ (100 - needs[n] = 100 - needs[m] /\ Place[n] <= Place[m])
  BY <1>3
<1>5. \A m \in names \ {n} : needs[n] > needs[m] \/ (needs[n] = needs[m] /\ Place[n] < Place[m])
  <2> TAKE m \in names \ {n}
  <2>1. needs[n] \in 0..100 /\ needs[m] \in 0..100
    BY <1>1 DEF Percent
  <2>2. Place[n] \in 1..23 /\ Place[m] \in 1..23 /\ Place[n] # Place[m]
    BY <1>1, PlaceInjective
  <2> QED
    BY <1>4, <2>1, <2>2
<1>6. /\ Top(needs, names) \in names
      /\ \A m \in names \ {Top(needs, names)} :
             \/ needs[Top(needs, names)] > needs[m]
             \/ needs[Top(needs, names)] = needs[m] /\ Place[Top(needs, names)] < Place[m]
  BY <1>5 DEF Top
<1> QED
  BY <1>1, <1>6 DEF Percent

\* A total order has a least element in every finite set.
LEMMA FiniteLeast ==
    ASSUME NEW S, IsFiniteSet(S), S # {}, NEW R,
           \A x, y \in S : x # y => <<x, y>> \in R \/ <<y, x>> \in R,
           \A x, y, z \in S : <<x, y>> \in R /\ <<y, z>> \in R => <<x, z>> \in R
    PROVE  \E x \in S : \A y \in S \ {x} : <<x, y>> \in R
<1> DEFINE Has(U) == \E x \in U : \A y \in U \ {x} : <<x, y>> \in R
           Bad == {U \in SUBSET S : U # {} /\ ~Has(U)}
           Sizes == {Cardinality(U) : U \in Bad}
<1>1. \A U \in SUBSET S : IsFiniteSet(U) /\ Cardinality(U) \in Nat
  BY FS_Subset, FS_CardinalityType
<1>2. SUFFICES ASSUME Bad # {} PROVE FALSE
  OBVIOUS
<1>3. PICK U \in Bad : \A V \in Bad : Cardinality(U) <= Cardinality(V)
  <2>1. Sizes \in SUBSET Nat /\ Sizes # {}
    BY <1>1, <1>2
  <2>2. PICK n \in Sizes : \A m \in Sizes : n <= m
    <3> HIDE DEF Sizes
    <3> QED
      BY <2>1, LeastNumber
  <2> QED
    BY <2>2
<1>4. PICK x \in U : TRUE
  BY <1>3
<1> DEFINE V == U \ {x}
<1>5. V \in SUBSET S /\ Cardinality(V) < Cardinality(U)
  <2>1. U \in SUBSET S /\ x \in U
    BY <1>3, <1>4
  <2>2. IsFiniteSet(U) /\ Cardinality(U) \in Nat
    BY <1>1, <2>1
  <2>3. Cardinality(U \ {x}) = Cardinality(U) - 1
    BY <2>1, <2>2, FS_RemoveElement
  <2> QED
    BY <2>1, <2>2, <2>3
<1>6. V \notin Bad
  <2>1. U \in SUBSET S
    BY <1>3
  <2>2. Cardinality(U) \in Nat /\ Cardinality(V) \in Nat
    BY <1>1, <1>5, <2>1
  <2> HIDE DEF V, Bad
  <2> QED
    BY <1>3, <1>5, <2>2
<1>7. CASE V = {}
  BY <1>3, <1>4, <1>7
<1>8. CASE V # {}
  <2>1. PICK y \in V : \A z \in V \ {y} : <<y, z>> \in R
    BY <1>5, <1>6, <1>8
  <2>2. CASE <<x, y>> \in R
    <3>1. \A z \in U \ {x} : <<x, z>> \in R
      BY <2>1, <2>2, <1>3, <1>4
    <3> QED
      BY <3>1, <1>3, <1>4
  <2>3. CASE <<y, x>> \in R
    <3>1. \A z \in U \ {y} : <<y, z>> \in R
      BY <2>1, <2>3
    <3> QED
      BY <3>1, <2>1, <1>3
  <2> QED
    BY <2>1, <2>2, <2>3, <1>3, <1>4
<1> QED
  BY <1>7, <1>8

LEMMA FocusIsLooked ==
    ASSUME NEW gs \in Seq(GoalRows), NEW needs \in Graded, Looked(gs) # {}
    PROVE  Focus(gs, needs) \in Looked(gs)
<1> DEFINE S == Looked(gs)
           R == {p \in S \X S : \/ Score(gs, p[1], needs) > Score(gs, p[2], needs)
                                \/ /\ Score(gs, p[1], needs) = Score(gs, p[2], needs)
                                   /\ Ahead(gs, p[1], p[2])}
<1>1. S \in SUBSET DOMAIN gs
  BY DEF Looked, ActiveGoals, OpenGoals
<1>2. IsFiniteSet(S)
  BY <1>1, RowsFinite
<1>3. \A g \in S : Score(gs, g, needs) \in Int /\ gs[g].priority \in Int /\ g \in Int
  <2> TAKE g \in S
  <2>1. gs[g] \in GoalRows /\ g \in Int
    BY <1>1
  <2>2. gs[g].priority \in Percent
    BY <2>1 DEF GoalRows
  <2>3. gs[g].title \in DOMAIN needs => needs[gs[g].title] \in Percent
    BY GradedValues
  <2> DEFINE high == IF gs[g].title \in DOMAIN needs THEN Greater(gs[g].priority, needs[gs[g].title])
                     ELSE gs[g].priority
  <2>4. \A p, q \in Percent : p \in Int /\ Greater(p, q) \in Int
    BY DEF Greater, Percent
  <2>5. high \in Int /\ gs[g].priority \in Int
    BY <2>2, <2>3, <2>4
  <2>6. Score(gs, g, needs) = high - (IF gs[g].status = "blocked" THEN 10 ELSE 0)
    BY DEF Score
  <2> HIDE DEF high
  <2> QED
    BY <2>1, <2>4, <2>5, <2>6
<1>4. \A g, h \in S : <<g, h>> \in R <=> \/ Score(gs, g, needs) > Score(gs, h, needs)
                                         \/ Score(gs, g, needs) = Score(gs, h, needs) /\ Ahead(gs, g, h)
  OBVIOUS
<1>5. \A g, h \in S : g # h => <<g, h>> \in R \/ <<h, g>> \in R
  BY <1>3, <1>4 DEF Ahead
<1>6. \A g, h, i \in S : <<g, h>> \in R /\ <<h, i>> \in R => <<g, i>> \in R
  <2> TAKE g, h, i \in S
  <2> DEFINE a == Score(gs, g, needs)
             b == Score(gs, h, needs)
             c == Score(gs, i, needs)
  <2>1. a \in Int /\ b \in Int /\ c \in Int
    BY <1>3
  <2>2. /\ <<g, h>> \in R <=> (a > b \/ (a = b /\ Ahead(gs, g, h)))
        /\ <<h, i>> \in R <=> (b > c \/ (b = c /\ Ahead(gs, h, i)))
        /\ <<g, i>> \in R <=> (a > c \/ (a = c /\ Ahead(gs, g, i)))
    BY <1>4
  <2>3. Ahead(gs, g, h) /\ Ahead(gs, h, i) => Ahead(gs, g, i)
    BY <1>3 DEF Ahead
  <2> HIDE DEF a, b, c, R
  <2> QED
    BY <2>1, <2>2, <2>3
<1> HIDE DEF R
<1>7. \E g \in S : \A h \in S \ {g} : <<g, h>> \in R
  BY <1>2, <1>5, <1>6, FiniteLeast
<1> QED
  BY <1>4, <1>7 DEF Focus

LEMMA ContinuationIsActive ==
    ASSUME EconomyTypeOK, ActiveWork # {}
    PROVE  ContinuationWork \in ActiveWork
<1> DEFINE S == ActiveWork
           R == {p \in S \X S : Precedes(p[1], p[2])}
           E(w) == EffectivePriority(w)
           P(w) == StagePriority[works[w].status]
           A(w) == works[w].age
<1>1. S \in SUBSET DOMAIN works
  BY DEF ActiveWork
<1>2. IsFiniteSet(S)
  BY <1>1, RowsFinite DEF EconomyTypeOK
<1>3. \A w \in S : E(w) \in Int /\ P(w) \in Int /\ A(w) \in Int /\ w \in Int
  <2> TAKE w \in S
  <2>1. works[w] \in WorkRows /\ w \in Int /\ works[w].status \in OpenWork
    BY <1>1 DEF EconomyTypeOK, ActiveWork
  <2>2. works[w].age \in Nat
    BY <2>1 DEF WorkRows
  <2>3. StagePriority[works[w].status] \in Nat
    BY <2>1 DEF StagePriority, OpenWork
  <2>4. works[w].age \div AgingQuantum \in Nat
    BY <2>2, EconomyAssumption
  <2> QED
    BY <2>1, <2>2, <2>3, <2>4 DEF EffectivePriority
<1>4. \A v, w \in S : <<v, w>> \in R <=>
          \/ E(v) > E(w)
          \/ E(v) = E(w) /\ (P(v) > P(w) \/ (P(v) = P(w) /\ (A(v) > A(w) \/ (A(v) = A(w) /\ v < w))))
  BY DEF Precedes
<1> HIDE DEF R, E, P, A, S
<1>5. \A v, w \in S : v # w => <<v, w>> \in R \/ <<w, v>> \in R
  BY <1>3, <1>4
<1>6. \A v, w, x \in S : <<v, w>> \in R /\ <<w, x>> \in R => <<v, x>> \in R
  BY <1>3, <1>4
<1>7. \E w \in S : \A v \in S \ {w} : <<w, v>> \in R
  BY <1>2, <1>5, <1>6, FiniteLeast DEF S
<1> QED
  BY <1>7 DEF ContinuationWork, R, S

-----------------------------------------------------------------------------
(* The kernel keeps the types of goals, and names what it commits to.      *)

LEMMA NewGoalTyped ==
    ASSUME NEW gs \in Seq(GoalRows), NEW title \in GoalTitles, NEW priority \in Percent,
           NEW source \in {"agency_kernel", "brain"}
    PROVE  NewGoal(gs, title, priority, source) \in Seq(GoalRows)
  BY DEF NewGoal, GoalRows, GoalStatuses, OpenGoal

LEMMA KeptTyped ==
    ASSUME NEW gs \in Seq(GoalRows), NEW needs
    PROVE  ResolveAbsentMaintenance(gs, needs) \in Seq(GoalRows)
<1> DEFINE kept == ResolveAbsentMaintenance(gs, needs)
<1>1. ASSUME NEW g \in DOMAIN gs PROVE kept[g] \in GoalRows
  <2>1. gs[g] \in GoalRows
    OBVIOUS
  <2>2. [gs[g] EXCEPT !.status = "completed"] \in GoalRows
    BY <2>1 DEF GoalRows, GoalStatuses
  <2> QED
    BY <2>1, <2>2 DEF ResolveAbsentMaintenance
<1>2. DOMAIN gs = 1..Len(gs) /\ Len(gs) \in Nat
  OBVIOUS
<1>3. kept = [g \in 1..Len(gs) |-> kept[g]]
  BY <1>2 DEF ResolveAbsentMaintenance
<1>4. \A f : f = [g \in 1..Len(gs) |-> f[g]] /\ (\A g \in 1..Len(gs) : f[g] \in GoalRows) => f \in Seq(GoalRows)
  BY <1>2
<1> HIDE DEF kept
<1>5. kept \in Seq(GoalRows)
  BY <1>1, <1>2, <1>3, <1>4
<1> QED
  BY <1>5 DEF kept

LEMMA CreateNeedGoalTyped ==
    ASSUME NEW gs \in Seq(GoalRows), NEW need \in NeedNames, NEW severity \in Percent
    PROVE  CreateNeedGoal(gs, need, severity) \in Seq(GoalRows)
<1> DEFINE g == Matching(gs, need)
           raised == [gs EXCEPT ![g].priority = Greater(@, severity)]
<1>1. raised \in Seq(GoalRows)
  <2>1. CASE g \in DOMAIN gs
    <3>1. gs[g] \in GoalRows
      BY <2>1
    <3>2. Greater(gs[g].priority, severity) \in Percent
      BY <3>1 DEF GoalRows, Greater
    <3>3. [gs[g] EXCEPT !.priority = Greater(@, severity)] \in GoalRows
      BY <3>1, <3>2 DEF GoalRows
    <3> HIDE DEF g
    <3> QED
      BY <2>1, <3>3
  <2>2. CASE g \notin DOMAIN gs
    <3> HIDE DEF g
    <3>1. raised = gs
      BY <2>2
    <3> QED
      BY <3>1
  <2> QED
    BY <2>1, <2>2
<1>2. NewGoal(gs, need, Greater(35, severity), "agency_kernel") \in Seq(GoalRows)
  <2>1. need \in GoalTitles
    BY AgencyAssumption
  <2>2. Greater(35, severity) \in Percent
    BY DEF Greater, Percent
  <2> QED
    BY <2>1, <2>2, NewGoalTyped
<1> HIDE DEF g, raised
<1> QED
  BY <1>1, <1>2 DEF CreateNeedGoal, g, raised

LEMMA BaselineTyped ==
    ASSUME NEW gs \in Seq(GoalRows)
    PROVE  BaselineGoal(gs) \in Seq(GoalRows)
<1>1. "goal_formation" \in GoalTitles /\ 60 \in Percent
  BY AgencyAssumption DEF NeedNames, Percent
<1> QED
  BY <1>1, NewGoalTyped DEF BaselineGoal

LEMMA FocusTitleTyped ==
    ASSUME NEW gs \in Seq(GoalRows), NEW needs \in Graded,
           NEW selected \in NeedNames \cup {Absent}
    PROVE  FocusTitle(gs, needs, selected) \in GoalTitles \cup {Absent}
<1>1. ASSUME Looked(gs) # {} PROVE gs[Focus(gs, needs)].title \in GoalTitles
  <2>1. Focus(gs, needs) \in DOMAIN gs
    BY <1>1, FocusIsLooked DEF Looked, ActiveGoals, OpenGoals
  <2>2. gs[Focus(gs, needs)] \in GoalRows
    BY <2>1
  <2> QED
    BY <2>2 DEF GoalRows
<1> QED
  BY <1>1, AgencyAssumption DEF FocusTitle

\* A need other than the one for a goal is selected if there is one, and none is more severe.
LEMMA SelectedIsTop ==
    ASSUME NEW gs, NEW needs \in Graded
    PROVE  LET made == Reconcile(gs, needs)
               actionable == DOMAIN needs \ {"goal_formation"}
           IN /\ made.snapshot.active = actionable
              /\ actionable = {} => made.snapshot.selected = Absent
              /\ actionable # {} =>
                    /\ made.snapshot.selected \in actionable
                    /\ \A n \in actionable : needs[made.snapshot.selected] >= needs[n]
<1> DEFINE actionable == DOMAIN needs \ {"goal_formation"}
<1>1. actionable = {} => Top(needs, actionable) = Absent
  BY DEF Top
<1>2. actionable # {} => /\ Top(needs, actionable) \in actionable
                         /\ \A n \in actionable : needs[Top(needs, actionable)] >= needs[n]
  BY TopIsSevere
<1>3. /\ Reconcile(gs, needs).snapshot.active = actionable
      /\ Reconcile(gs, needs).snapshot.selected = Top(needs, actionable)
  BY DEF Reconcile
<1> QED
  BY <1>1, <1>2, <1>3

LEMMA ReconcileTyped ==
    ASSUME NEW gs \in Seq(GoalRows), NEW needs \in Graded, EconomyTypeOK
    PROVE  /\ Reconcile(gs, needs).goals \in Seq(GoalRows)
           /\ Reconcile(gs, needs).snapshot \in Snapshots
<1> DEFINE actionable == DOMAIN needs \ {"goal_formation"}
           selected   == Top(needs, actionable)
           kept       == ResolveAbsentMaintenance(gs, needs)
           committed  == IF selected # Absent /\ (needs[selected] >= 75 \/ Looked(kept) = {})
                         THEN CreateNeedGoal(kept, selected, needs[selected]) ELSE kept
           formed     == BaselineGoal(committed)
<1>1. selected \in NeedNames \cup {Absent} /\ (selected # Absent => selected \in DOMAIN needs)
  BY TopIsSevere, GradedValues DEF Top
<1>2. kept \in Seq(GoalRows)
  BY KeptTyped
<1>3. selected # Absent => CreateNeedGoal(kept, selected, needs[selected]) \in Seq(GoalRows)
  BY <1>1, <1>2, CreateNeedGoalTyped, GradedValues
<1>4. committed \in Seq(GoalRows)
  BY <1>2, <1>3
<1>5. formed \in Seq(GoalRows)
  BY <1>4, BaselineTyped
<1>6. FocusTitle(formed, needs, selected) \in GoalTitles \cup {Absent}
  BY <1>1, <1>5, FocusTitleTyped
<1>7. ContinuationWork \in Nat \cup {NoWork}
  <2>1. ActiveWork \subseteq DOMAIN works /\ DOMAIN works \subseteq Nat
    BY DEF ActiveWork, EconomyTypeOK
  <2>2. ActiveWork = {} => ContinuationWork = NoWork
    BY DEF ContinuationWork
  <2> QED
    BY <2>1, <2>2, ContinuationIsActive
<1>8. actionable \in SUBSET NeedNames
  BY GradedValues
<1>9. Reconcile(gs, needs) =
        [goals    |-> formed,
         snapshot |-> [selected |-> selected, active |-> actionable,
                       focus    |-> FocusTitle(formed, needs, selected), work |-> ContinuationWork]]
  BY DEF Reconcile
<1> HIDE DEF actionable, selected, kept, committed, formed
<1> QED
  BY <1>1, <1>5, <1>6, <1>7, <1>8, <1>9 DEF Snapshots

-----------------------------------------------------------------------------
(* The stores keep their types.                                            *)

LEMMA BalanceTyped ==
    ASSUME EconomyTypeOK, NEW asset \in Assets, NEW amount \in Int, NEW verified \in BOOLEAN,
           RecordResourceEvent(asset, amount, verified), UNCHANGED <<opportunities, works>>
    PROVE  EconomyTypeOK'
<1>1. balance' \in [Assets -> Int]
  BY DEF EconomyTypeOK, RecordResourceEvent
<1> QED
  BY <1>1 DEF EconomyTypeOK

LEMMA OpportunitiesTyped ==
    ASSUME EconomyTypeOK, UNCHANGED <<balance, works>>,
           opportunities' \in Seq(OpportunityRows), Len(opportunities') >= Len(opportunities)
    PROVE  EconomyTypeOK'
<1>1. DOMAIN opportunities \subseteq DOMAIN opportunities'
  BY DEF EconomyTypeOK
<1> QED
  BY <1>1 DEF EconomyTypeOK

LEMMA CreateOpportunityTyped ==
    ASSUME EconomyTypeOK, UNCHANGED <<balance, works>>,
           NEW title \in Titles, NEW estimate \in Estimates, CreateOpportunity(title, estimate)
    PROVE  EconomyTypeOK'
<1> DEFINE row == [title |-> title, estimate |-> estimate, status |-> "discovered", target |-> NoAsset]
<1>1. row \in OpportunityRows
  BY DEF OpportunityRows, OpenOpportunity
<1>2. opportunities' = opportunities \/ opportunities' = Append(opportunities, row)
  BY DEF CreateOpportunity
<1> HIDE DEF row
<1>3. opportunities \in Seq(OpportunityRows)
  BY DEF EconomyTypeOK
<1>4. opportunities' \in Seq(OpportunityRows) /\ Len(opportunities') >= Len(opportunities)
  BY <1>1, <1>2, <1>3
<1> QED
  BY <1>4, OpportunitiesTyped

LEMMA RowReplaced ==
    ASSUME NEW S, NEW rows \in Seq(S), NEW i \in DOMAIN rows, NEW row \in S
    PROVE  [rows EXCEPT ![i] = row] \in Seq(S) /\ Len([rows EXCEPT ![i] = row]) = Len(rows)
  OBVIOUS

LEMMA UpdateOpportunityTyped ==
    ASSUME EconomyTypeOK, UNCHANGED <<balance, works>>, NEW i \in DOMAIN opportunities,
           NEW status \in OpenOpportunity \cup TerminalOpportunity, NEW estimate \in Estimates,
           NEW evidence, UpdateOpportunity(i, status, estimate, evidence)
    PROVE  EconomyTypeOK'
<1> DEFINE row == [opportunities[i] EXCEPT !.status = status, !.estimate = estimate]
<1>1. opportunities[i] \in OpportunityRows
  BY DEF EconomyTypeOK
<1>2. row \in OpportunityRows
  BY <1>1 DEF OpportunityRows
<1>3. opportunities' = opportunities \/ opportunities' = [opportunities EXCEPT ![i] = row]
  BY DEF UpdateOpportunity
<1> HIDE DEF row
<1>4. opportunities \in Seq(OpportunityRows)
  BY DEF EconomyTypeOK
<1>5. /\ [opportunities EXCEPT ![i] = row] \in Seq(OpportunityRows)
      /\ Len([opportunities EXCEPT ![i] = row]) = Len(opportunities)
  BY <1>2, <1>4, RowReplaced
<1>6. opportunities' \in Seq(OpportunityRows) /\ Len(opportunities') >= Len(opportunities)
  BY <1>3, <1>4, <1>5
<1> QED
  BY <1>6, OpportunitiesTyped

LEMMA UpsertProfileTyped ==
    ASSUME EconomyTypeOK, UNCHANGED <<balance, works>>, NEW i, NEW asset \in Assets, UpsertProfile(i, asset)
    PROVE  EconomyTypeOK'
<1>1. CASE i \in DOMAIN opportunities
  <2> DEFINE row == [opportunities[i] EXCEPT !.target = asset]
  <2>1. opportunities[i] \in OpportunityRows
    BY <1>1 DEF EconomyTypeOK
  <2>2. row \in OpportunityRows
    BY <2>1 DEF OpportunityRows
  <2>3. opportunities' = [opportunities EXCEPT ![i] = row]
    BY <1>1 DEF UpsertProfile
  <2> HIDE DEF row
  <2> QED
    BY <1>1, <2>2, <2>3, RowReplaced, OpportunitiesTyped DEF EconomyTypeOK
<1>2. CASE i \notin DOMAIN opportunities
  BY <1>2, OpportunitiesTyped DEF EconomyTypeOK, UpsertProfile
<1> QED
  BY <1>1, <1>2

LEMMA WorksTyped ==
    ASSUME EconomyTypeOK, UNCHANGED <<balance, opportunities>>, works' \in Seq(WorkRows),
           \A w \in DOMAIN works' : works'[w].opportunity \in DOMAIN opportunities
    PROVE  EconomyTypeOK'
  BY DEF EconomyTypeOK

\* A work item that moves is as young as new.
LEMMA WorkMovedTyped ==
    ASSUME EconomyTypeOK, UNCHANGED <<balance, opportunities>>,
           NEW w, NEW status \in OpenWork \cup ClosedWork,
           works' = [works EXCEPT ![w].status = status, ![w].age = 0]
    PROVE  EconomyTypeOK'
<1>1. CASE w \in DOMAIN works
  <2> DEFINE row == [works[w] EXCEPT !.status = status, !.age = 0]
  <2>1. works[w] \in WorkRows /\ works[w].opportunity \in DOMAIN opportunities
    BY <1>1 DEF EconomyTypeOK
  <2>2. row \in WorkRows /\ row.opportunity = works[w].opportunity
    BY <2>1 DEF WorkRows
  <2>3. works' = [works EXCEPT ![w] = row]
    BY <1>1
  <2> HIDE DEF row
  <2>4. works' \in Seq(WorkRows)
    <3>1. works \in Seq(WorkRows)
      BY DEF EconomyTypeOK
    <3>2. [works EXCEPT ![w] = row] \in Seq(WorkRows)
      BY <1>1, <2>2, <3>1, RowReplaced
    <3> QED
      BY <2>3, <3>2
  <2>5. \A v \in DOMAIN works' : works'[v].opportunity \in DOMAIN opportunities
    BY <1>1, <2>1, <2>2, <2>3 DEF EconomyTypeOK
  <2> QED
    BY <2>4, <2>5, WorksTyped
<1>2. CASE w \notin DOMAIN works
  <2>1. works' = works
    BY <1>2 DEF EconomyTypeOK
  <2> QED
    BY <2>1 DEF EconomyTypeOK
<1> QED
  BY <1>1, <1>2

LEMMA CreateWorkItemTyped ==
    ASSUME EconomyTypeOK, UNCHANGED <<balance, opportunities>>, NEW i, CreateWorkItem(i)
    PROVE  EconomyTypeOK'
<1> DEFINE row == [opportunity |-> i, status |-> "planned", age |-> 0]
<1>1. CASE works' = works
  BY <1>1 DEF EconomyTypeOK
<1>2. CASE i \in DOMAIN opportunities /\ works' = Append(works, row)
  <2>1. row \in WorkRows /\ row.opportunity \in DOMAIN opportunities
    BY <1>2 DEF WorkRows, OpenWork, EconomyTypeOK
  <2> HIDE DEF row
  <2>2. works' \in Seq(WorkRows)
    BY <1>2, <2>1 DEF EconomyTypeOK
  <2>3. \A v \in DOMAIN works' : works'[v] = row \/ (v \in DOMAIN works /\ works'[v] = works[v])
    BY <1>2 DEF EconomyTypeOK
  <2> QED
    BY <2>1, <2>2, <2>3, WorksTyped DEF EconomyTypeOK
<1> QED
  BY <1>1, <1>2 DEF CreateWorkItem

LEMMA AgeWorkTyped ==
    ASSUME EconomyTypeOK, UNCHANGED <<balance, opportunities>>, NEW hours \in Nat, AgeWork(hours)
    PROVE  EconomyTypeOK'
<1>1. ASSUME NEW w \in DOMAIN works
      PROVE  /\ [works[w] EXCEPT !.age = @ + hours] \in WorkRows
             /\ [works[w] EXCEPT !.age = @ + hours].opportunity \in DOMAIN opportunities
  <2>1. works[w] \in WorkRows /\ works[w].opportunity \in DOMAIN opportunities
    BY DEF EconomyTypeOK
  <2> QED
    BY <2>1 DEF WorkRows
<1>2. DOMAIN works = 1..Len(works) /\ Len(works) \in Nat
  BY DEF EconomyTypeOK
<1>3. works' \in Seq(WorkRows)
  BY <1>1, <1>2 DEF AgeWork
<1>4. \A w \in DOMAIN works' : works'[w].opportunity \in DOMAIN opportunities
  BY <1>1 DEF AgeWork
<1> QED
  BY <1>3, <1>4, WorksTyped

LEMMA ObligationRecorded ==
    ASSUME MetabolismTypeOK, NEW t \in Terms, RecordObligation(t)
    PROVE  MetabolismTypeOK'
<1> DEFINE row == [asset |-> t.asset, amount |-> t.amount, cadence |-> t.cadence, due |-> t.due,
                   essential |-> t.essential, verified |-> t.verified, active |-> TRUE]
<1>1. row \in ObligationRows
  BY MetabolismAssumption DEF ObligationRows
<1>2. obligations' = Append(obligations, row)
  BY DEF RecordObligation
<1> HIDE DEF row
<1> QED
  BY <1>1, <1>2 DEF MetabolismTypeOK

LEMMA ObligationReplaced ==
    ASSUME MetabolismTypeOK, NEW o \in DOMAIN obligations, NEW row \in ObligationRows,
           obligations' = [obligations EXCEPT ![o] = row]
    PROVE  MetabolismTypeOK'
  BY RowReplaced DEF MetabolismTypeOK

LEMMA ObligationsMoved ==
    ASSUME MetabolismTypeOK,
           \/ \E t \in Terms : RecordObligation(t)
           \/ \E o \in DOMAIN obligations : Deactivate(o) \/ AdvanceDue(o, 1)
    PROVE  MetabolismTypeOK'
<1>1. CASE \E t \in Terms : RecordObligation(t)
  BY <1>1, ObligationRecorded
<1>2. ASSUME NEW o \in DOMAIN obligations, Deactivate(o) PROVE MetabolismTypeOK'
  <2> DEFINE row == [obligations[o] EXCEPT !.active = FALSE]
  <2>1. obligations[o] \in ObligationRows
    BY DEF MetabolismTypeOK
  <2>2. row \in ObligationRows
    BY <2>1 DEF ObligationRows
  <2>3. obligations' = [obligations EXCEPT ![o] = row]
    BY <1>2 DEF Deactivate
  <2> HIDE DEF row
  <2> QED
    BY <2>2, <2>3, ObligationReplaced
<1>3. ASSUME NEW o \in DOMAIN obligations, AdvanceDue(o, 1) PROVE MetabolismTypeOK'
  <2> DEFINE row == [obligations[o] EXCEPT !.due = @ + 1 * obligations[o].cadence]
  <2>1. obligations[o] \in ObligationRows
    BY DEF MetabolismTypeOK
  <2>2. obligations[o].due \in Int /\ obligations[o].cadence \in Int
    BY <2>1 DEF ObligationRows
  <2>3. row \in ObligationRows
    BY <2>1, <2>2 DEF ObligationRows
  <2>4. obligations' = [obligations EXCEPT ![o] = row]
    BY <1>3 DEF AdvanceDue
  <2> HIDE DEF row
  <2> QED
    BY <2>3, <2>4, ObligationReplaced
<1> QED
  BY <1>1, <1>2, <1>3

LEMMA DaysPassTyped ==
    ASSUME MetabolismTypeOK, NEW days \in Nat, DaysPass(days)
    PROVE  MetabolismTypeOK'
<1>1. ASSUME NEW o \in DOMAIN obligations
      PROVE  [obligations[o] EXCEPT !.due = @ - days] \in ObligationRows
  <2>1. obligations[o] \in ObligationRows
    BY DEF MetabolismTypeOK
  <2> QED
    BY <2>1 DEF ObligationRows
<1>2. DOMAIN obligations = 1..Len(obligations) /\ Len(obligations) \in Nat
  BY DEF MetabolismTypeOK
<1> QED
  BY <1>1, <1>2 DEF DaysPass, MetabolismTypeOK

LEMMA ProposeTyped ==
    ASSUME WorldTypeOK, NEW topic \in Topics, NEW answer \in Answers, NEW confidence \in Nat,
           Propose(topic, answer, confidence)
    PROVE  WorldTypeOK'
<1> DEFINE said == IF confidence > 75 THEN 75 ELSE confidence
           same == {b \in Standing : beliefs[b].topic = topic /\ beliefs[b].answer = answer}
           new  == [topic |-> topic, answer |-> answer, confidence |-> said, status |-> "hypothesis"]
           b    == Max(same)
           row  == [beliefs[b] EXCEPT !.confidence = IF @ < said THEN said ELSE @]
<1>1. said \in 0..100
  OBVIOUS
<1>2. new \in BeliefRows
  BY <1>1 DEF BeliefRows, ModelStatuses
<1>3. \/ beliefs' = Append(beliefs, new)
      \/ beliefs' = [beliefs EXCEPT ![b].confidence = IF @ < said THEN said ELSE @]
  BY DEF Propose
<1>4. CASE beliefs' = Append(beliefs, new)
  <2> HIDE DEF new
  <2> QED
    BY <1>2, <1>4 DEF WorldTypeOK
<1>5. CASE beliefs' = [beliefs EXCEPT ![b].confidence = IF @ < said THEN said ELSE @] /\ b \in DOMAIN beliefs
  <2> HIDE DEF b, said
  <2>1. beliefs[b] \in BeliefRows
    BY <1>5 DEF WorldTypeOK
  <2>2. row \in BeliefRows
    BY <1>1, <2>1 DEF BeliefRows
  <2>3. beliefs' = [beliefs EXCEPT ![b] = row]
    BY <1>5
  <2> HIDE DEF row
  <2> QED
    BY <1>5, <2>2, <2>3, RowReplaced DEF WorldTypeOK
<1>6. CASE beliefs' = [beliefs EXCEPT ![b].confidence = IF @ < said THEN said ELSE @] /\ b \notin DOMAIN beliefs
  <2> HIDE DEF b, said
  <2>1. beliefs' = beliefs
    BY <1>6 DEF WorldTypeOK
  <2> QED
    BY <2>1 DEF WorldTypeOK
<1> QED
  BY <1>3, <1>4, <1>5, <1>6

LEMMA ReviseTyped ==
    ASSUME WorldTypeOK, NEW b, NEW status, MayRevise(b, status), Revise(b, status)
    PROVE  WorldTypeOK'
<1> DEFINE row == [beliefs[b] EXCEPT !.status = status]
<1>1. b \in DOMAIN beliefs /\ status \in ModelStatuses
  BY DEF MayRevise
<1>2. beliefs[b] \in BeliefRows
  BY <1>1 DEF WorldTypeOK
<1>3. row \in BeliefRows
  BY <1>1, <1>2 DEF BeliefRows
<1>4. beliefs' = [beliefs EXCEPT ![b] = row]
  BY <1>1 DEF Revise
<1> HIDE DEF row
<1> QED
  BY <1>1, <1>3, <1>4, RowReplaced DEF WorldTypeOK

LEMMA AdjudicateTyped ==
    ASSUME WorldTypeOK, NEW b, NEW status, Adjudicate(b, status)
    PROVE  WorldTypeOK'
<1> DEFINE row == [beliefs[b] EXCEPT !.status = status, !.confidence = 100]
<1>1. b \in DOMAIN beliefs /\ status \in TrustedStatuses
  BY DEF Adjudicate
<1>2. beliefs[b] \in BeliefRows
  BY <1>1 DEF WorldTypeOK
<1>3. row \in BeliefRows
  <2>1. 100 \in 0..100
    OBVIOUS
  <2> QED
    BY <1>1, <1>2, <2>1 DEF BeliefRows
<1>4. beliefs' = [beliefs EXCEPT ![b] = row]
  BY <1>1 DEF Adjudicate
<1> HIDE DEF row
<1> QED
  BY <1>1, <1>3, <1>4, RowReplaced DEF WorldTypeOK

\* What is remembered is bounded.
LEMMA RememberingTyped ==
    ASSUME NEW rows \in Seq(MemoryKinds), NEW kinds \in Seq(MemoryKinds)
    PROVE  /\ Remembering(rows, kinds) \in Seq(MemoryKinds)
           /\ Len(Remembering(rows, kinds)) <= MemoryWindow
<1> DEFINE all == rows \o kinds
           m   == Greater(1, Len(all) - MemoryWindow + 1)
<1>1. all \in Seq(MemoryKinds) /\ Len(all) \in Nat /\ MemoryWindow \in Nat \ {0}
  BY MemoryAssumption
<1> HIDE DEF all
<1>2. m \in Nat \ {0} /\ Len(all) - m + 1 <= MemoryWindow /\ m <= Len(all) + 1
  BY <1>1 DEF Greater
<1> HIDE DEF m
<1>3. SubSeq(all, m, Len(all)) \in Seq(MemoryKinds) /\ Len(SubSeq(all, m, Len(all))) <= MemoryWindow
  BY <1>1, <1>2
<1> QED
  BY <1>3 DEF Remembering, LastOf, all, m

LEMMA OthersTyped ==
    ASSUME NEW n \in Nat
    PROVE  Others(n) \in Seq(MemoryKinds)
<1>1. "other" \in MemoryKinds
  BY DEF MemoryKinds
<1> QED
  BY <1>1 DEF Others

LEMMA GoalUpdateTyped ==
    ASSUME NEW gs \in Seq(GoalRows), NEW u, u.store = "goal", SayableUpdate(u), TypedGoalUpdate(u)
    PROVE  GoalUpdate(gs, u) \in Seq(GoalRows)
<1>1. Said(u.priority, 50) \in Percent /\ (u.op = "create" => u.title \in GoalTitles)
  BY DEF SayableUpdate, TypedGoalUpdate, Said, Percent
<1>2. CASE u.op = "create"
  <2>1. NewGoal(gs, u.title, Said(u.priority, 50), "brain") \in Seq(GoalRows)
    BY <1>1, <1>2, NewGoalTyped
  <2> QED
    BY <1>2, <2>1 DEF GoalUpdate
<1>3. CASE u.op # "create" /\ u.id \in DOMAIN gs
  <2> DEFINE status   == Said(NextStatus(u), gs[u.id].status)
             priority == Said(u.priority, gs[u.id].priority)
             row      == [gs[u.id] EXCEPT !.status = status, !.priority = priority]
  <2>1. gs[u.id] \in GoalRows
    BY <1>3
  <2>2. NextStatus(u) \in GoalStatuses \cup {Absent}
    BY DEF NextStatus, TypedGoalUpdate, GoalStatuses, OpenGoal
  <2>3. status \in GoalStatuses /\ priority \in Percent
    BY <2>1, <2>2 DEF Said, GoalRows, TypedGoalUpdate
  <2> HIDE DEF status, priority
  <2>4. row \in GoalRows
    BY <2>1, <2>3 DEF GoalRows
  <2>5. [gs EXCEPT ![u.id].status = status, ![u.id].priority = priority] = [gs EXCEPT ![u.id] = row]
    BY <1>3
  <2>6. GoalUpdate(gs, u) = gs \/ GoalUpdate(gs, u) = [gs EXCEPT ![u.id].status = status, ![u.id].priority = priority]
    BY <1>3 DEF GoalUpdate, status, priority
  <2> HIDE DEF row
  <2>7. [gs EXCEPT ![u.id] = row] \in Seq(GoalRows)
    BY <1>3, <2>4, RowReplaced
  <2> QED
    BY <2>5, <2>6, <2>7
<1>4. CASE u.op # "create" /\ u.id \notin DOMAIN gs
  BY <1>4 DEF GoalUpdate
<1> QED
  BY <1>2, <1>3, <1>4

LEMMA HypothesisTyped ==
    ASSUME MemoryTypeOK, NEW u, u.store = "self", SayableUpdate(u), TypedSelfUpdate(u)
    PROVE  /\ u.op = "create" => CreateHypothesis(u) \in Seq(HypothesisRows)
           /\ u.op # "create" => UpdateHypothesis(u) \in Seq(HypothesisRows)
<1>1. hypotheses \in Seq(HypothesisRows)
  BY DEF MemoryTypeOK
<1>2. u.confidence \in Percent \cup {Absent} /\ u.status \in SelfStatuses \cup {Absent}
  BY DEF TypedSelfUpdate
<1>3. ASSUME u.op = "create" PROVE CreateHypothesis(u) \in Seq(HypothesisRows)
  <2> DEFINE trust == Lesser(75, Said(u.confidence, 50))
             row   == [proposition |-> u.proposition, status |-> "active", confidence |-> trust]
  <2>1. trust \in Percent
    BY <1>2 DEF Lesser, Said, Percent
  <2>2. u.proposition \in Propositions
    BY <1>3 DEF SayableUpdate, TypedSelfUpdate
  <2> HIDE DEF trust
  <2>3. row \in HypothesisRows
    BY <2>1, <2>2 DEF HypothesisRows, SelfStatuses
  <2>4. CreateHypothesis(u) = hypotheses \/ CreateHypothesis(u) = Append(hypotheses, row)
    BY DEF CreateHypothesis, trust
  <2> HIDE DEF row
  <2> QED
    BY <1>1, <2>3, <2>4
<1>4. UpdateHypothesis(u) \in Seq(HypothesisRows)
  <2> DEFINE status == IF u.status \in {"supported", Absent} THEN "active" ELSE u.status
             old    == hypotheses[u.id]
             trust  == IF u.confidence = Absent THEN old.confidence ELSE Lesser(90, u.confidence)
             row    == [old EXCEPT !.status = status, !.confidence = trust]
  <2>1. CASE u.id \in DOMAIN hypotheses
    <3>1. old \in HypothesisRows
      BY <1>1, <2>1
    <3>2. trust \in Percent
      BY <1>2, <3>1 DEF Lesser, Percent, HypothesisRows
    <3>3. status \in SelfStatuses
      BY <1>2 DEF SelfStatuses
    <3>4. UpdateHypothesis(u) = hypotheses \/ UpdateHypothesis(u) = [hypotheses EXCEPT ![u.id].status = status, ![u.id].confidence = trust]
      BY <1>1, <2>1 DEF UpdateHypothesis
    <3> HIDE DEF status, trust
    <3>5. row \in HypothesisRows
      BY <3>1, <3>2, <3>3 DEF HypothesisRows
    <3>6. [hypotheses EXCEPT ![u.id].status = status, ![u.id].confidence = trust] = [hypotheses EXCEPT ![u.id] = row]
      BY <1>1, <2>1
    <3> HIDE DEF row
    <3>7. [hypotheses EXCEPT ![u.id] = row] \in Seq(HypothesisRows)
      BY <1>1, <2>1, <3>5, RowReplaced
    <3> QED
      BY <1>1, <3>4, <3>6, <3>7
  <2>2. CASE u.id \notin DOMAIN hypotheses
    BY <1>1, <2>2 DEF UpdateHypothesis
  <2> QED
    BY <2>1, <2>2
<1> QED
  BY <1>3, <1>4

LEMMA ForecastTyped ==
    ASSUME MemoryTypeOK
    PROVE  /\ \A p \in Percent : RecordForecast(p) => forecasts' \in Seq(ForecastRows)
           /\ \A ok \in BOOLEAN : \A f : ResolveForecast(f, ok) => forecasts' \in Seq(ForecastRows)
<1>1. forecasts \in Seq(ForecastRows)
  BY DEF MemoryTypeOK
<1>2. ASSUME NEW p \in Percent, RecordForecast(p) PROVE forecasts' \in Seq(ForecastRows)
  <2> DEFINE row == [probability |-> p, resolved |-> FALSE, success |-> FALSE]
  <2>1. row \in ForecastRows
    BY DEF ForecastRows
  <2>2. forecasts' = Append(forecasts, row)
    BY <1>2 DEF RecordForecast
  <2> HIDE DEF row
  <2> QED
    BY <1>1, <2>1, <2>2
<1>3. ASSUME NEW ok \in BOOLEAN, NEW f, ResolveForecast(f, ok) PROVE forecasts' \in Seq(ForecastRows)
  <2> DEFINE row == [forecasts[f] EXCEPT !.resolved = TRUE, !.success = ok]
  <2>1. f \in DOMAIN forecasts
    BY <1>3 DEF ResolveForecast
  <2>2. row \in ForecastRows
    <3>1. forecasts[f] \in ForecastRows
      BY <1>1, <2>1
    <3> QED
      BY <3>1 DEF ForecastRows
  <2>3. forecasts' = forecasts \/ forecasts' = [forecasts EXCEPT ![f] = row]
    BY <1>3, <2>1 DEF ResolveForecast
  <2> HIDE DEF row
  <2>4. [forecasts EXCEPT ![f] = row] \in Seq(ForecastRows)
    BY <1>1, <2>1, <2>2, RowReplaced
  <2> QED
    BY <1>1, <2>3, <2>4
<1> QED
  BY <1>2, <1>3

\* A plan names one of the tiers and a sleep.
LEMMA NewPlanTyped ==
    ASSUME NEW mode \in Modes, NEW tier \in DOMAIN Seconds, NEW sleep \in Nat
    PROVE  NewPlan(mode, tier, sleep) \in PlanRows
  BY DEF NewPlan, PlanRows

LEMMA BudgetTyped ==
    ASSUME NEW budget, NEW score, NEW urgent
    PROVE  CognitiveBudget(budget, score, urgent) \in DOMAIN Seconds
  BY DEF CognitiveBudget, Seconds

LEMMA PlanTyped ==
    ASSUME NEW s, NEW needs
    PROVE  Plan(s, needs) \in PlanRows
<1> DEFINE top      == Top(needs, DOMAIN needs)
           severity == needs[top]
           urgent   == severity >= CriticalNeed
           active   == ActiveGoals(goals, ContextLimit)
           best     == BestGoal(active)
           score    == Lesser(100, Greater(0, GoalScore(best)))
           kind     == IF top \in ResourceNeeds THEN "resource" ELSE "maintenance"
           pause    == IF s.budget <= LowBudget /\ ~urgent THEN 900 ELSE 0
           rest     == IF s.budget <= LowBudget THEN 300 ELSE 0
           tier1    == CognitiveBudget(s.budget, severity, urgent)
           tier2    == CognitiveBudget(s.budget, score, goals[best].priority >= CriticalNeed)
           tier3    == CognitiveBudget(s.budget, severity, FALSE)
<1>1. tier1 \in DOMAIN Seconds /\ tier2 \in DOMAIN Seconds /\ tier3 \in DOMAIN Seconds
  BY BudgetTyped
<1>2. kind \in Modes /\ pause \in Nat /\ rest \in Nat
  BY DEF Modes
<1>3. {"halt", "hibernate", "mission", "observe"} \subseteq Modes /\ "none" \in DOMAIN Seconds
  BY DEF Modes, Seconds
<1>4. \/ Plan(s, needs) = NewPlan("halt", "none", 3600)
      \/ Plan(s, needs) = NewPlan("hibernate", "none", 3600)
      \/ Plan(s, needs) = NewPlan(kind, tier1, pause)
      \/ Plan(s, needs) = NewPlan("mission", tier2, 0)
      \/ Plan(s, needs) = NewPlan("observe", tier3, rest)
      \/ Plan(s, needs) = NewPlan("hibernate", "none", 300)
  <2>1. Plan(s, needs) =
          CASE ~s.chronicle \/ s.drift \/ top \in HardStop -> NewPlan("halt", "none", 3600)
            [] s.budget = 0                                 -> NewPlan("hibernate", "none", 3600)
            [] top # Absent /\ severity >= MaintenanceNeed  -> NewPlan(kind, tier1, pause)
            [] active # {}                                  -> NewPlan("mission", tier2, 0)
            [] top # Absent                                 -> NewPlan("observe", tier3, rest)
            [] OTHER                                        -> NewPlan("hibernate", "none", 300)
    BY DEF Plan
  <2> HIDE DEF top, severity, active, kind, pause, rest, tier1, tier2, tier3
  <2> QED
    BY <2>1
<1> HIDE DEF kind, pause, rest, tier1, tier2, tier3
<1> QED
  BY <1>1, <1>2, <1>3, <1>4, NewPlanTyped

\* The feedback of energy only makes it cheaper.
LEMMA ConstrainTyped ==
    ASSUME NEW plan \in PlanRows
    PROVE  /\ Constrain(plan) \in PlanRows
           /\ Seconds[Constrain(plan).tier] <= Seconds[plan.tier]
<1>1. {"low", "normal"} \subseteq DOMAIN Seconds
  BY DEF Seconds
<1>2. [plan EXCEPT !.tier = "low"] \in PlanRows /\ [plan EXCEPT !.tier = "normal"] \in PlanRows
  BY <1>1 DEF PlanRows
<1>3. \/ Constrain(plan) = plan
      \/ plan.tier \in {"deep", "normal"} /\ Constrain(plan) = [plan EXCEPT !.tier = "low"]
      \/ plan.tier = "deep" /\ Constrain(plan) = [plan EXCEPT !.tier = "normal"]
  BY DEF Constrain
<1>4. plan.tier \in DOMAIN Seconds /\ plan = [mode |-> plan.mode, tier |-> plan.tier, sleep |-> plan.sleep, spent |-> plan.spent]
  BY DEF PlanRows
<1>5. Seconds[plan.tier] \in Nat
  BY <1>4 DEF Seconds
<1> QED
  BY <1>2, <1>3, <1>4, <1>5 DEF Seconds

LEMMA ResolvePlanTyped ==
    ASSUME plans \in Seq(PlanRows), NEW percent \in Nat,
           ResolvePlan((Seconds[plans[Len(plans)].tier] * percent) \div 100)
    PROVE  plans' \in Seq(PlanRows)
<1> DEFINE spent == (Seconds[plans[Len(plans)].tier] * percent) \div 100
           row   == [plans[Len(plans)] EXCEPT !.spent = spent]
<1>1. CASE plans = <<>>
  <2> HIDE DEF spent
  <2>1. plans' = [plans EXCEPT ![0].spent = spent]
    BY <1>1 DEF ResolvePlan, spent
  <2>2. 0 \notin DOMAIN plans
    BY <1>1
  <2>3. plans' = plans
    BY <1>1, <2>1, <2>2
  <2> QED
    BY <2>3
<1>2. CASE plans # <<>>
  <2>1. Len(plans) \in DOMAIN plans /\ plans[Len(plans)] \in PlanRows
    BY <1>2
  <2>2. Seconds[plans[Len(plans)].tier] \in Nat
    BY <2>1 DEF PlanRows, Seconds
  <2>3. spent \in Nat
    BY <2>2
  <2>4. plans' = [plans EXCEPT ![Len(plans)].spent = spent]
    BY DEF ResolvePlan
  <2> HIDE DEF spent
  <2>5. row \in PlanRows
    BY <2>1, <2>3 DEF PlanRows
  <2>6. plans' = [plans EXCEPT ![Len(plans)] = row]
    BY <2>1, <2>4
  <2> HIDE DEF row
  <2>7. [plans EXCEPT ![Len(plans)] = row] \in Seq(PlanRows)
    BY <2>1, <2>5, RowReplaced
  <2> QED
    BY <2>6, <2>7
<1> QED
  BY <1>1, <1>2

-----------------------------------------------------------------------------
(* The sleep.                                                              *)

LEMMA Caps ==
    /\ \A n \in NeedNames : WakeCap[n] \in Nat /\ WakeCap[n] <= 21600
    /\ \A status \in OpenWork : WorkWakeCap[status] \in Nat /\ WorkWakeCap[status] <= 21600
<1>1. ASSUME NEW n \in NeedNames PROVE WakeCap[n] \in Nat /\ WakeCap[n] <= 21600
  BY DEF WakeCap
<1>2. /\ WorkWakeCap["accepted"] = 3600 /\ WorkWakeCap["submitted"] = 3600
      /\ WorkWakeCap["staged"] = 7200 /\ WorkWakeCap["planned"] = 21600
  BY DEF WorkWakeCap
<1>3. ASSUME NEW status \in OpenWork PROVE WorkWakeCap[status] \in Nat /\ WorkWakeCap[status] <= 21600
  BY <1>2 DEF OpenWork
<1> QED
  BY <1>1, <1>3

\* No commitment sleeps past its cap.
LEMMA WakePolicyBound ==
    ASSUME EconomyTypeOK, NEW snapshot, snapshot.active \subseteq NeedNames,
           snapshot.work = NoWork \/ snapshot.work \in ActiveWork
    PROVE  /\ WakePolicy(snapshot) \in Nat \cup {Absent}
           /\ \A n \in snapshot.active : WakePolicy(snapshot) \in Nat /\ WakePolicy(snapshot) <= WakeCap[n]
<1> DEFINE caps == {WakeCap[n] : n \in snapshot.active}
                   \cup (IF snapshot.work = NoWork THEN {} ELSE {WorkWakeCap[works[snapshot.work].status]})
<1>1. snapshot.work \in ActiveWork => WorkWakeCap[works[snapshot.work].status] \in Nat
  BY Caps DEF ActiveWork
<1>2. \A n \in snapshot.active : WakeCap[n] \in Nat
  BY Caps
<1>3. caps \subseteq Nat
  BY <1>1, <1>2
<1>4. \A n \in snapshot.active : WakeCap[n] \in caps
  OBVIOUS
<1>5. WakePolicy(snapshot) = IF caps = {} THEN Absent ELSE Min(caps)
  BY DEF WakePolicy
<1> HIDE DEF caps
<1>6. caps # {} => Min(caps) \in caps /\ \A c \in caps : Min(caps) <= c
  BY <1>3, MinOfNumbers
<1> QED
  BY <1>3, <1>4, <1>5, <1>6

-----------------------------------------------------------------------------
(* The types, whatever the model says.                                     *)

\* What is left of the model's text once it is parsed, checked and reviewed.
Fit(d) ==
    /\ Sayable(d)
    /\ d.action.name \in Capabilities
    /\ \A i \in DOMAIN d.updates : Typed(d.updates[i])

MindInv ==
    /\ TypeOK
    /\ Fit(decision)
    /\ pending \subseteq DOMAIN decision.updates

LEMMA NoopFit ==
    ASSUME NEW sleep \in Nat
    PROVE  /\ Fit(Noop(sleep))
           /\ Fit([Noop(sleep) EXCEPT !.probability = 50])
<1>1. "noop" \in Capabilities
  BY MindAssumption
<1>2. ASSUME NEW d, d.action.name = "noop", d.updates = <<>>, d.memories = 0,
             d.probability \in Percent, d.sleep = sleep
      PROVE  Fit(d)
  BY <1>1, <1>2 DEF Fit, Sayable
<1>3. 99 \in Percent /\ 50 \in Percent
  BY DEF Percent
<1> QED
  BY <1>2, <1>3 DEF Noop

LEMMA ReviewedFit ==
    ASSUME NEW said \in Decisions, NEW plan \in PlanRows, NEW needs, NEW enabled \in SUBSET Capabilities
    PROVE  Fit(Reviewed(IF plan.tier = "none" THEN Noop(plan.sleep) ELSE SafeDecision(said),
                        needs, enabled))
<1> DEFINE d == IF plan.tier = "none" THEN Noop(plan.sleep) ELSE SafeDecision(said)
<1>1. plan.sleep \in Nat
  BY DEF PlanRows
<1>2. CASE Reviewed(d, needs, enabled) = Noop(0)
  BY <1>2, NoopFit
<1>3. CASE Accepted(d, needs, enabled) /\ Reviewed(d, needs, enabled) = d
  <2>1. d.action.name \in Capabilities
    BY <1>3 DEF Accepted
  <2>2. CASE d = Noop(plan.sleep) \/ d = [Noop(0) EXCEPT !.probability = 50]
    BY <1>1, <1>3, <2>2, NoopFit
  <2>3. CASE d = said /\ \A i \in DOMAIN said.updates : Typed(said.updates[i])
    BY <1>3, <2>1, <2>3, DecisionAssumption DEF Fit
  <2> QED
    BY <2>2, <2>3 DEF SafeDecision
<1> QED
  BY <1>2, <1>3 DEF Reviewed

LEMMA SituationTyped == TypeOK => situation \in Situation
  BY MindAssumption DEF TypeOK

\* A commitment keeps the types, and its snapshot is the one of its needs.
LEMMA CommitTyped ==
    ASSUME TypeOK, NEW more \in Nat, Commit(more)
    PROVE  /\ goals' \in Seq(GoalRows)
           /\ agency' \in Snapshots
           /\ agency' = Reconcile(goals, Needs(situation)).snapshot
           /\ memories' \in Seq(MemoryKinds) /\ Len(memories') <= MemoryWindow
<1> DEFINE needs == Needs(situation)
           made  == Reconcile(goals, needs)
           n     == more + (IF made.snapshot = agency THEN 0 ELSE 1)
<1>1. needs \in Graded
  BY NeedsGraded, SituationTyped DEF TypeOK
<1>2. goals \in Seq(GoalRows) /\ memories \in Seq(MemoryKinds) /\ EconomyTypeOK
  BY DEF TypeOK, MemoryTypeOK
<1>3. goals' = made.goals /\ agency' = made.snapshot /\ memories' = Remembering(memories, Others(n))
  BY DEF Commit
<1> HIDE DEF needs
<1>4. made.goals \in Seq(GoalRows) /\ made.snapshot \in Snapshots
  BY <1>1, <1>2, ReconcileTyped
<1>5. n \in Nat
  OBVIOUS
<1> HIDE DEF n
<1>6. /\ Remembering(memories, Others(n)) \in Seq(MemoryKinds)
      /\ Len(Remembering(memories, Others(n))) <= MemoryWindow
  BY <1>2, <1>5, OthersTyped, RememberingTyped
<1> QED
  BY <1>3, <1>4, <1>6 DEF needs

LEMMA InitTyped == Init => MindInv
<1> SUFFICES ASSUME Init PROVE MindInv
  OBVIOUS
<1>1. EconomyTypeOK
  BY DEF Init, EconomyInit, EconomyTypeOK
<1>2. MetabolismTypeOK /\ WorldTypeOK /\ plans \in Seq(PlanRows)
  BY DEF Init, MetabolismTypeOK, WorldTypeOK
<1>3. MemoryTypeOK
  BY MemoryAssumption DEF Init, MemoryInit, MemoryTypeOK
<1>4. agency \in Snapshots
  BY DEF Init, Snapshots
<1>5. Fit(decision) /\ pending \subseteq DOMAIN decision.updates
  BY NoopFit DEF Init
<1> QED
  BY <1>1, <1>2, <1>3, <1>4, <1>5, MindAssumption DEF Init, MindInv, TypeOK

LEMMA WakeTyped == MindInv /\ Wake => MindInv'
<1> SUFFICES ASSUME MindInv, Wake PROVE MindInv'
  OBVIOUS
<1>1. TypeOK /\ Commit(0)
  BY DEF MindInv, Wake
<1>2. MemoryTypeOK'
  <2>1. goals' \in Seq(GoalRows) /\ memories' \in Seq(MemoryKinds) /\ Len(memories') <= MemoryWindow
    BY <1>1, CommitTyped
  <2> QED
    BY <1>1, <2>1 DEF Wake, TypeOK, MemoryTypeOK
<1>3. agency' \in Snapshots
  BY <1>1, CommitTyped
<1>4. EconomyTypeOK' /\ MetabolismTypeOK' /\ WorldTypeOK'
  BY <1>1 DEF Wake, TypeOK, economyVars, EconomyTypeOK, MetabolismTypeOK, WorldTypeOK
<1>5. cycles' \in 0..MaxCycles
  BY <1>1, MindAssumption DEF Wake, TypeOK
<1> QED
  BY <1>1, <1>2, <1>3, <1>4, <1>5 DEF MindInv, Wake, TypeOK

LEMMA ThinkTyped == MindInv /\ Think => MindInv'
<1> SUFFICES ASSUME MindInv, Think PROVE MindInv'
  OBVIOUS
<1> DEFINE plan == Constrain(Plan(situation, Needs(situation)))
<1>1. TypeOK /\ situation \in Situation
  BY SituationTyped DEF MindInv
<1>2. plan \in PlanRows
  BY PlanTyped, ConstrainTyped
<1>3. plans' = Append(plans, plan)
  BY DEF Think, RecordPlan
<1>4. PICK said \in Decisions :
         decision' = Reviewed(IF plan.tier = "none" THEN Noop(plan.sleep) ELSE SafeDecision(said),
                              Needs(situation), situation.enabled)
  BY DEF Think
<1>5. situation.enabled \in SUBSET Capabilities
  BY <1>1 DEF Situation
<1> HIDE DEF plan
<1>6. Fit(decision')
  BY <1>2, <1>4, <1>5, ReviewedFit
<1>7. plans' \in Seq(PlanRows)
  BY <1>1, <1>2, <1>3 DEF TypeOK
<1>8. decision'.memories \in Nat
  BY <1>6 DEF Fit, Sayable
<1>9. MemoryTypeOK'
  <2>1. memories' = Remembering(memories, Others(decision'.memories))
    BY DEF Think
  <2>2. memories \in Seq(MemoryKinds)
    BY <1>1 DEF TypeOK, MemoryTypeOK
  <2>3. Others(decision'.memories) \in Seq(MemoryKinds)
    BY <1>8, OthersTyped
  <2>4. memories' \in Seq(MemoryKinds) /\ Len(memories') <= MemoryWindow
    BY <2>1, <2>2, <2>3, RememberingTyped
  <2> QED
    BY <1>1, <2>4 DEF Think, TypeOK, MemoryTypeOK
<1>10. EconomyTypeOK' /\ MetabolismTypeOK' /\ WorldTypeOK'
  BY <1>1 DEF Think, TypeOK, economyVars, EconomyTypeOK, MetabolismTypeOK, WorldTypeOK
<1>11. TypeOK'
  BY <1>1, <1>7, <1>9, <1>10 DEF Think, TypeOK
<1>12. Fit(decision)' /\ (pending \subseteq DOMAIN decision.updates)'
  BY <1>6 DEF Think
<1> QED
  BY <1>11, <1>12 DEF MindInv

LEMMA OpportunityApplied ==
    ASSUME EconomyTypeOK, UNCHANGED balance, NEW u, u.store = "opportunity",
           SayableUpdate(u), TypedOpportunityUpdate(u), ApplyToOpportunity(u)
    PROVE  EconomyTypeOK'
<1>1. CASE u.op = "create" /\ CreateOpportunity(u.title, u.estimate) /\ UNCHANGED works
  <2>1. u.title \in Titles /\ u.estimate \in Estimates
    BY <1>1 DEF SayableUpdate, TypedOpportunityUpdate
  <2> QED
    BY <1>1, <2>1, CreateOpportunityTyped
<1>2. CASE /\ u.op = "update" /\ UNCHANGED works
           /\ u.id \in DOMAIN opportunities
           /\ UpdateOpportunity(u.id, Said(u.status, opportunities[u.id].status),
                                Said(u.estimate, opportunities[u.id].estimate), u.evidence)
  <2>1. opportunities[u.id] \in OpportunityRows
    BY <1>2 DEF EconomyTypeOK
  <2>2. Said(u.status, opportunities[u.id].status) \in OpenOpportunity \cup TerminalOpportunity
    BY <2>1 DEF Said, OpportunityRows, TypedOpportunityUpdate
  <2>3. Said(u.estimate, opportunities[u.id].estimate) \in Estimates
    BY <2>1 DEF Said, OpportunityRows, SayableUpdate
  <2> QED
    BY <1>2, <2>2, <2>3, UpdateOpportunityTyped
<1>3. CASE u.op = "profile_resource" /\ UpsertProfile(u.id, u.asset) /\ UNCHANGED works
  <2>1. u.asset \in Assets
    BY <1>3 DEF TypedOpportunityUpdate
  <2> QED
    BY <1>3, <2>1, UpsertProfileTyped
<1>4. CASE u.op = "plan_work" /\ CreateWorkItem(u.id) /\ UNCHANGED opportunities
  BY <1>4, CreateWorkItemTyped
<1>5. CASE AbandonWork(u.id) /\ UNCHANGED opportunities
  <2>1. "abandoned" \in OpenWork \cup ClosedWork
    BY DEF ClosedWork
  <2>2. CASE works' = works
    BY <1>5, <2>2 DEF EconomyTypeOK
  <2>3. CASE works' = [works EXCEPT ![u.id].status = "abandoned", ![u.id].age = 0]
    BY <1>5, <2>1, <2>3, WorkMovedTyped
  <2> QED
    BY <1>5, <2>2, <2>3 DEF AbandonWork
<1>6. CASE u.op = "update" /\ UNCHANGED <<works, opportunities>>
  BY <1>6 DEF EconomyTypeOK
<1> QED
  BY <1>1, <1>2, <1>3, <1>4, <1>5, <1>6 DEF ApplyToOpportunity

LEMMA ApplyTyped ==
    ASSUME EconomyTypeOK, MemoryTypeOK, NEW u, SayableUpdate(u), Typed(u), ApplyTo(u),
           UNCHANGED <<balance, events, memories, forecasts>>
    PROVE  EconomyTypeOK' /\ MemoryTypeOK'
<1>1. CASE u.store = "self"
  <2>1. TypedSelfUpdate(u)
    BY <1>1 DEF Typed
  <2>2. hypotheses' \in Seq(HypothesisRows) /\ UNCHANGED <<goals, opportunities, works>>
    BY <1>1, <2>1, HypothesisTyped DEF ApplyTo
  <2> QED
    BY <2>2 DEF EconomyTypeOK, MemoryTypeOK
<1>2. CASE u.store = "goal"
  <2>1. TypedGoalUpdate(u) /\ goals \in Seq(GoalRows)
    BY <1>2 DEF Typed, MemoryTypeOK
  <2>2. GoalUpdate(goals, u) \in Seq(GoalRows)
    BY <1>2, <2>1, GoalUpdateTyped
  <2>3. goals' \in Seq(GoalRows) /\ UNCHANGED <<hypotheses, opportunities, works>>
    BY <1>2, <2>2 DEF ApplyTo
  <2> QED
    BY <2>3 DEF EconomyTypeOK, MemoryTypeOK
<1>3. CASE u.store = "opportunity"
  <2>1. TypedOpportunityUpdate(u)
    BY <1>3 DEF Typed
  <2>2. ApplyToOpportunity(u) /\ UNCHANGED <<hypotheses, goals>>
    BY <1>3 DEF ApplyTo
  <2>3. EconomyTypeOK'
    BY <1>3, <2>1, <2>2, OpportunityApplied
  <2> QED
    BY <2>2, <2>3 DEF MemoryTypeOK
<1> QED
  BY <1>1, <1>2, <1>3 DEF ApplyTo

LEMMA ApplyUpdateTyped == MindInv /\ ApplyUpdate => MindInv'
<1> SUFFICES ASSUME MindInv, ApplyUpdate PROVE MindInv'
  OBVIOUS
<1>1. TypeOK
  BY DEF MindInv
<1>2. PICK i \in pending : ApplyTo(decision.updates[i]) /\ pending' = pending \ {i}
  BY DEF ApplyUpdate
<1>3. SayableUpdate(decision.updates[i]) /\ Typed(decision.updates[i])
  BY <1>2 DEF MindInv, Fit, Sayable
<1>4. UNCHANGED <<balance, events, memories, forecasts>> /\ EconomyTypeOK /\ MemoryTypeOK
  BY <1>1 DEF ApplyUpdate, TypeOK
<1>5. EconomyTypeOK' /\ MemoryTypeOK'
  BY <1>2, <1>3, <1>4, ApplyTyped
<1>6. MetabolismTypeOK' /\ WorldTypeOK'
  BY <1>1 DEF ApplyUpdate, TypeOK, MetabolismTypeOK, WorldTypeOK
<1>7. TypeOK'
  BY <1>1, <1>5, <1>6 DEF ApplyUpdate, TypeOK
<1>8. Fit(decision)' /\ (pending \subseteq DOMAIN decision.updates)'
  BY <1>2 DEF MindInv, ApplyUpdate
<1> QED
  BY <1>7, <1>8 DEF MindInv

LEMMA ForecastStepTyped == MindInv /\ Forecast => MindInv'
<1> SUFFICES ASSUME MindInv, Forecast PROVE MindInv'
  OBVIOUS
<1>1. TypeOK /\ decision.probability \in Percent
  BY DEF MindInv, Fit, Sayable
<1>2. MemoryTypeOK
  BY <1>1 DEF TypeOK
<1>3. forecasts' \in Seq(ForecastRows)
  BY <1>1, <1>2, ForecastTyped DEF Forecast
<1>4. MemoryTypeOK'
  BY <1>2, <1>3 DEF Forecast, MemoryTypeOK
<1>5. EconomyTypeOK' /\ MetabolismTypeOK' /\ WorldTypeOK'
  BY <1>1 DEF Forecast, TypeOK, economyVars, EconomyTypeOK, MetabolismTypeOK, WorldTypeOK
<1>6. TypeOK'
  BY <1>1, <1>4, <1>5 DEF Forecast, TypeOK
<1>7. Fit(decision)' /\ (pending \subseteq DOMAIN decision.updates)'
  BY DEF MindInv, Forecast
<1> QED
  BY <1>6, <1>7 DEF MindInv

\* The row of an action is of a known capability; what the action changes is its own.
LEMMA ActTyped ==
    ASSUME MindInv, Acting, EconomyTypeOK', WorldTypeOK', result' \in BOOLEAN,
           \/ UNCHANGED events
           \/ \E ok, executed \in BOOLEAN : Row(ok, executed)
    PROVE  MindInv'
<1>1. TypeOK /\ decision.action.name \in Capabilities
  BY DEF MindInv, Fit
<1>2. events' \in Seq(EventRows)
  <2>1. events \in Seq(EventRows)
    BY <1>1 DEF TypeOK, MemoryTypeOK
  <2>2. ASSUME NEW ok \in BOOLEAN, NEW executed \in BOOLEAN, Row(ok, executed)
        PROVE  events' \in Seq(EventRows)
    <3> DEFINE row == [capability |-> decision.action.name, ok |-> ok, executed |-> executed]
    <3>1. row \in EventRows
      BY <1>1 DEF EventRows
    <3>2. events' = Append(events, row)
      BY <2>2 DEF Row
    <3> HIDE DEF row
    <3> QED
      BY <2>1, <3>1, <3>2
  <2> QED
    BY <2>1, <2>2
<1>3. MemoryTypeOK'
  BY <1>1, <1>2 DEF Acting, TypeOK, MemoryTypeOK
<1>4. MetabolismTypeOK'
  BY <1>1 DEF Acting, TypeOK, MetabolismTypeOK
<1>5. TypeOK'
  BY <1>1, <1>3, <1>4 DEF Acting, TypeOK
<1>6. Fit(decision)' /\ (pending \subseteq DOMAIN decision.updates)'
  BY DEF MindInv, Acting
<1> QED
  BY <1>5, <1>6 DEF MindInv

LEMMA QuietActsTyped ==
    ASSUME MindInv, ActDenied \/ ActSuppressed \/ ActOtherwise
    PROVE  MindInv'
<1>1. TypeOK /\ Acting /\ UNCHANGED <<balance, works, beliefs>>
  BY DEF MindInv, ActDenied, ActSuppressed, ActOtherwise
<1>2. EconomyTypeOK' /\ WorldTypeOK'
  BY <1>1 DEF TypeOK, Acting, EconomyTypeOK, WorldTypeOK
<1>3. \/ UNCHANGED events /\ result' = FALSE
      \/ \E ok, executed \in BOOLEAN : Row(ok, executed)
  BY DEF ActDenied, ActSuppressed, ActOtherwise, Held, Ran
<1>4. result' \in BOOLEAN
  BY <1>3 DEF Row
<1> QED
  BY <1>1, <1>2, <1>3, <1>4, ActTyped

LEMMA IngressTyped == MindInv /\ ActIngress => MindInv'
<1> SUFFICES ASSUME MindInv, ActIngress PROVE MindInv'
  OBVIOUS
<1>1. TypeOK /\ EconomyTypeOK /\ Acting /\ UNCHANGED <<opportunities, works, beliefs>>
  BY DEF MindInv, TypeOK, ActIngress, Acting
<1>2. ASSUME UNCHANGED balance PROVE EconomyTypeOK'
  BY <1>1, <1>2 DEF EconomyTypeOK
<1>3. ASSUME NEW r \in Receipts, RecordResourceEvent(r.asset, r.amount, TRUE) PROVE EconomyTypeOK'
  <2>1. r.asset \in Assets /\ r.amount \in Int
    BY MindAssumption
  <2> QED
    BY <1>1, <1>3, <2>1, BalanceTyped
<1>4. EconomyTypeOK' /\ WorldTypeOK'
  <2>1. UNCHANGED balance \/ \E r \in Receipts : RecordResourceEvent(r.asset, r.amount, TRUE)
    BY DEF ActIngress
  <2>2. WorldTypeOK'
    BY <1>1 DEF TypeOK, WorldTypeOK
  <2> QED
    BY <1>2, <1>3, <2>1, <2>2
<1>5. \E ok, executed \in BOOLEAN : Row(ok, executed)
  BY DEF ActIngress, Ran
<1> QED
  BY <1>1, <1>4, <1>5, ActTyped DEF Row

LEMMA StageTyped == MindInv /\ ActStage => MindInv'
<1> SUFFICES ASSUME MindInv, ActStage PROVE MindInv'
  OBVIOUS
<1> DEFINE w == Max(PlannedFor(decision.action.opportunity))
<1>1. TypeOK /\ EconomyTypeOK /\ Acting /\ UNCHANGED <<balance, opportunities, beliefs>>
  BY DEF MindInv, TypeOK, ActStage, Acting
<1>2. \/ UNCHANGED <<events, works>> /\ result' = FALSE
      \/ Ran(TRUE) /\ works' = [works EXCEPT ![w].status = "staged", ![w].age = 0]
      \/ Ran(FALSE) /\ UNCHANGED works
  BY DEF ActStage, AttachStagedDeliverable
<1> HIDE DEF w
<1>3. ASSUME UNCHANGED works PROVE EconomyTypeOK'
  BY <1>1, <1>3 DEF EconomyTypeOK
<1>4. ASSUME works' = [works EXCEPT ![w].status = "staged", ![w].age = 0] PROVE EconomyTypeOK'
  <2>1. "staged" \in OpenWork \cup ClosedWork
    BY DEF OpenWork
  <2> QED
    BY <1>1, <1>4, <2>1, WorkMovedTyped
<1>5. EconomyTypeOK'
  BY <1>2, <1>3, <1>4
<1>6. WorldTypeOK'
  BY <1>1 DEF TypeOK, WorldTypeOK
<1>7. UNCHANGED events \/ \E ok, executed \in BOOLEAN : Row(ok, executed)
  BY <1>2 DEF Ran
<1>8. result' \in BOOLEAN
  BY <1>2 DEF Ran, Row
<1> QED
  BY <1>1, <1>5, <1>6, <1>7, <1>8, ActTyped

LEMMA BelieveTyped == MindInv /\ ActBelieve => MindInv'
<1> SUFFICES ASSUME MindInv, ActBelieve PROVE MindInv'
  OBVIOUS
<1> DEFINE act == decision.action
<1>1. TypeOK /\ WorldTypeOK /\ Acting /\ UNCHANGED <<balance, opportunities, works>>
  BY DEF MindInv, TypeOK, ActBelieve, Acting
<1>2. EconomyTypeOK'
  BY <1>1 DEF TypeOK, EconomyTypeOK
<1>3. \/ act.name = "world_model_propose" /\ Propose(act.topic, act.answer, act.confidence)
      \/ MayRevise(act.belief, act.status) /\ Revise(act.belief, act.status)
      \/ UNCHANGED beliefs
  BY DEF ActBelieve
<1>4. ASSUME act.name = "world_model_propose", Propose(act.topic, act.answer, act.confidence)
      PROVE  WorldTypeOK'
  <2>1. act.topic \in Topics /\ act.answer \in Answers /\ act.confidence \in Nat
    BY <1>4 DEF MindInv, Fit, Sayable
  <2> QED
    BY <1>1, <1>4, <2>1, ProposeTyped
<1>5. ASSUME MayRevise(act.belief, act.status), Revise(act.belief, act.status)
      PROVE  WorldTypeOK'
  BY <1>1, <1>5, ReviseTyped
<1>6. ASSUME UNCHANGED beliefs PROVE WorldTypeOK'
  BY <1>1, <1>6 DEF WorldTypeOK
<1>7. WorldTypeOK'
  BY <1>3, <1>4, <1>5, <1>6
<1>8. Ran(TRUE) \/ Ran(FALSE)
  BY DEF ActBelieve
<1>9. result' \in BOOLEAN /\ \E ok, executed \in BOOLEAN : Row(ok, executed)
  BY <1>8 DEF Ran, Row
<1> QED
  BY <1>1, <1>2, <1>7, <1>9, ActTyped

\* The work of a snapshot is open, or there is none.
LEMMA SnapshotWork ==
    ASSUME EconomyTypeOK, NEW gs, NEW needs \in Graded
    PROVE  LET snapshot == Reconcile(gs, needs).snapshot
           IN /\ snapshot.work = NoWork \/ snapshot.work \in ActiveWork
              /\ snapshot.active = DOMAIN needs \ {"goal_formation"}
<1>1. /\ Reconcile(gs, needs).snapshot.work = ContinuationWork
      /\ Reconcile(gs, needs).snapshot.active = DOMAIN needs \ {"goal_formation"}
  BY DEF Reconcile
<1>2. ContinuationWork = NoWork \/ ContinuationWork \in ActiveWork
  BY ContinuationIsActive DEF ContinuationWork
<1> QED
  BY <1>1, <1>2

\* A cycle ends with a sleep of a day at most, and within the cap of every need.
LEMMA SettledWake ==
    ASSUME MindInv, Settle
    PROVE  /\ wake' \in Nat /\ wake' <= 86400
           /\ \A n \in DOMAIN Needs(situation) \ {"goal_formation"} : wake' <= WakeCap[n]
<1> DEFINE needs == Needs(situation)
           asked == Lesser(86400, Said(decision.sleep, DefaultSleep))
           most  == WakePolicy(agency')
<1>1. TypeOK /\ EconomyTypeOK /\ needs \in Graded
  BY NeedsGraded, SituationTyped DEF MindInv, TypeOK
<1>2. asked \in Nat /\ asked <= 86400
  BY MindAssumption DEF MindInv, Fit, Sayable, Said, Lesser
<1>3. agency' = Reconcile(goals, needs).snapshot
  BY <1>1, CommitTyped DEF Settle
<1>4. wake' = Lesser(asked, Said(most, asked))
  BY DEF Settle
<1> HIDE DEF needs, asked
<1>5. /\ agency'.active = DOMAIN needs \ {"goal_formation"}
      /\ agency'.work = NoWork \/ agency'.work \in ActiveWork
  BY <1>1, <1>3, SnapshotWork
<1>6. agency'.active \subseteq NeedNames
  BY <1>1, <1>5, GradedValues
<1>7. /\ most \in Nat \cup {Absent}
      /\ \A n \in agency'.active : most \in Nat /\ most <= WakeCap[n]
  BY <1>1, <1>5, <1>6, WakePolicyBound
<1>8. \A n \in agency'.active : WakeCap[n] \in Nat
  BY <1>6, Caps
<1> HIDE DEF most
<1>9. wake' \in Nat /\ wake' <= 86400
  BY <1>2, <1>4, <1>7 DEF Lesser, Said
<1>10. Absent \notin Nat
  BY MindAssumption
<1>11. ASSUME NEW n \in agency'.active PROVE wake' <= WakeCap[n]
  BY <1>2, <1>4, <1>7, <1>8, <1>10 DEF Lesser, Said
<1> QED
  BY <1>5, <1>9, <1>11 DEF needs

LEMMA SettleTyped == MindInv /\ Settle => MindInv'
<1> SUFFICES ASSUME MindInv, Settle PROVE MindInv'
  OBVIOUS
<1>1. TypeOK /\ MemoryTypeOK /\ plans \in Seq(PlanRows) /\ result \in BOOLEAN /\ Commit(2)
  BY DEF MindInv, TypeOK, Settle
<1>2. goals' \in Seq(GoalRows) /\ agency' \in Snapshots /\ memories' \in Seq(MemoryKinds)
      /\ Len(memories') <= MemoryWindow
  BY <1>1, CommitTyped
<1>3. forecasts' \in Seq(ForecastRows)
  BY <1>1, ForecastTyped DEF Settle
<1>4. MemoryTypeOK'
  BY <1>1, <1>2, <1>3 DEF Settle, MemoryTypeOK
<1>5. plans' \in Seq(PlanRows)
  <2>1. PICK percent \in Spending : ResolvePlan((Seconds[plans[Len(plans)].tier] * percent) \div 100)
    BY DEF Settle
  <2>2. percent \in Nat
    BY MindAssumption
  <2> QED
    BY <1>1, <2>1, <2>2, ResolvePlanTyped
<1>6. EconomyTypeOK' /\ MetabolismTypeOK' /\ WorldTypeOK'
  BY <1>1 DEF Settle, TypeOK, economyVars, EconomyTypeOK, MetabolismTypeOK, WorldTypeOK
<1>7. wake' \in Nat /\ wake' <= 86400
  BY SettledWake
<1>8. /\ phase' = "settled"
      /\ UNCHANGED <<situation, result, cycles, moves, decision, pending>>
  BY DEF Settle
<1>9. TypeOK'
  BY <1>1, <1>2, <1>4, <1>5, <1>6, <1>7, <1>8 DEF TypeOK
<1> QED
  BY <1>8, <1>9 DEF MindInv

LEMMA FailedCycleTyped == MindInv /\ FailedCycle => MindInv'
<1> SUFFICES ASSUME MindInv, FailedCycle PROVE MindInv'
  OBVIOUS
<1>1. TypeOK /\ MemoryTypeOK /\ memories \in Seq(MemoryKinds)
  BY DEF MindInv, TypeOK, MemoryTypeOK
<1>2. <<"runtime_error">> \in Seq(MemoryKinds)
  BY DEF MemoryKinds
<1>3. memories' \in Seq(MemoryKinds) /\ Len(memories') <= MemoryWindow
  BY <1>1, <1>2, RememberingTyped DEF FailedCycle
<1>4. MemoryTypeOK'
  BY <1>1, <1>3 DEF FailedCycle, MemoryTypeOK
<1>5. EconomyTypeOK' /\ MetabolismTypeOK' /\ WorldTypeOK'
  BY <1>1 DEF FailedCycle, TypeOK, economyVars, EconomyTypeOK, MetabolismTypeOK, WorldTypeOK
<1>6. cycles' \in 0..MaxCycles
  BY <1>1, MindAssumption DEF FailedCycle, TypeOK
<1>7. TypeOK'
  BY <1>1, <1>4, <1>5, <1>6 DEF FailedCycle, TypeOK
<1>8. Fit(decision)' /\ (pending \subseteq DOMAIN decision.updates)'
  BY DEF MindInv, FailedCycle
<1> QED
  BY <1>7, <1>8 DEF MindInv

\* What happens between cycles keeps its hands off the cycle.
LEMMA BetweenTyped ==
    ASSUME MindInv, Between, EconomyTypeOK', MetabolismTypeOK', WorldTypeOK', situation' \in Situations
    PROVE  MindInv'
<1>1. TypeOK
  BY DEF MindInv
<1>2. MemoryTypeOK'
  BY <1>1 DEF Between, memoryVars, TypeOK, MemoryTypeOK
<1>3. moves' \in 0..MaxMoves
  BY <1>1, MindAssumption DEF Between, TypeOK
<1>4. TypeOK'
  BY <1>1, <1>2, <1>3 DEF Between, TypeOK
<1>5. Fit(decision)' /\ (pending \subseteq DOMAIN decision.updates)'
  BY DEF MindInv, Between
<1> QED
  BY <1>4, <1>5 DEF MindInv

LEMMA BetweenCyclesTyped ==
    ASSUME MindInv, \/ ObligationsChange \/ TimePasses \/ ReceiptArrives \/ WorkMoves
                    \/ BeliefAdjudicated \/ SituationChanges
    PROVE  MindInv'
<1>1. TypeOK /\ EconomyTypeOK /\ MetabolismTypeOK /\ WorldTypeOK /\ situation \in Situations
  BY DEF MindInv, TypeOK
<1>2. ASSUME UNCHANGED economyVars PROVE EconomyTypeOK'
  BY <1>1, <1>2 DEF economyVars, EconomyTypeOK
<1>3. ASSUME UNCHANGED obligations PROVE MetabolismTypeOK'
  BY <1>1, <1>3 DEF MetabolismTypeOK
<1>4. ASSUME UNCHANGED beliefs PROVE WorldTypeOK'
  BY <1>1, <1>4 DEF WorldTypeOK
<1>5. CASE ObligationsChange
  <2>1. MetabolismTypeOK'
    BY <1>1, <1>5, ObligationsMoved DEF ObligationsChange
  <2> QED
    BY <1>1, <1>2, <1>4, <1>5, <2>1, BetweenTyped DEF ObligationsChange
<1>6. CASE TimePasses
  <2>1. PICK days \in Spans : DaysPass(days) /\ AgeWork(24 * days)
    BY <1>6 DEF TimePasses
  <2>2. days \in Nat /\ 24 * days \in Nat
    BY MindAssumption
  <2>3. MetabolismTypeOK'
    BY <1>1, <2>1, <2>2, DaysPassTyped
  <2>4. EconomyTypeOK'
    BY <1>1, <1>6, <2>1, <2>2, AgeWorkTyped DEF TimePasses
  <2> QED
    BY <1>1, <1>4, <1>6, <2>3, <2>4, BetweenTyped DEF TimePasses
<1>7. CASE ReceiptArrives
  <2>1. PICK r \in Receipts : RecordResourceEvent(r.asset, r.amount, r.verified)
    BY <1>7 DEF ReceiptArrives
  <2>2. r.asset \in Assets /\ r.amount \in Int /\ r.verified \in BOOLEAN
    BY MindAssumption
  <2>3. EconomyTypeOK'
    BY <1>1, <1>7, <2>1, <2>2, BalanceTyped DEF ReceiptArrives
  <2> QED
    BY <1>1, <1>3, <1>4, <1>7, <2>3, BetweenTyped DEF ReceiptArrives
<1>8. CASE WorkMoves
  <2>1. PICK w \in DOMAIN works, status \in OpenWork \cup ClosedWork : ProgressWork(w, status)
    BY <1>8 DEF WorkMoves
  <2>2. works' = [works EXCEPT ![w].status = status, ![w].age = 0]
    BY <2>1 DEF ProgressWork
  <2>3. EconomyTypeOK'
    BY <1>1, <1>8, <2>2, WorkMovedTyped DEF WorkMoves
  <2> QED
    BY <1>1, <1>3, <1>4, <1>8, <2>3, BetweenTyped DEF WorkMoves
<1>9. CASE BeliefAdjudicated
  <2>1. WorldTypeOK'
    BY <1>1, <1>9, AdjudicateTyped DEF BeliefAdjudicated
  <2> QED
    BY <1>1, <1>2, <1>3, <1>9, <2>1, BetweenTyped DEF BeliefAdjudicated
<1>10. CASE SituationChanges
  BY <1>1, <1>2, <1>3, <1>4, <1>10, BetweenTyped DEF SituationChanges
<1> QED
  BY <1>5, <1>6, <1>7, <1>8, <1>9, <1>10

LEMMA NextTyped == MindInv /\ [Next]_vars => MindInv'
<1> SUFFICES ASSUME MindInv, [Next]_vars PROVE MindInv'
  OBVIOUS
<1>1. CASE UNCHANGED vars
  <2>1. TypeOK
    BY DEF MindInv
  <2>2. EconomyTypeOK' /\ MetabolismTypeOK' /\ WorldTypeOK' /\ MemoryTypeOK'
    BY <1>1, <2>1 DEF vars, mindVars, economyVars, memoryVars, TypeOK, EconomyTypeOK, MetabolismTypeOK,
                      WorldTypeOK, MemoryTypeOK
  <2>3. TypeOK'
    BY <1>1, <2>1, <2>2 DEF vars, mindVars, TypeOK
  <2>4. Fit(decision)' /\ (pending \subseteq DOMAIN decision.updates)'
    BY <1>1 DEF MindInv, vars, mindVars
  <2> QED
    BY <2>3, <2>4 DEF MindInv
<1>2. CASE Wake \/ Think \/ ApplyUpdate \/ Forecast
  BY <1>2, WakeTyped, ThinkTyped, ApplyUpdateTyped, ForecastStepTyped
<1>3. CASE ActDenied \/ ActSuppressed \/ ActIngress \/ ActStage \/ ActBelieve \/ ActOtherwise
  BY <1>3, QuietActsTyped, IngressTyped, StageTyped, BelieveTyped
<1>4. CASE Settle \/ FailedCycle
  BY <1>4, SettleTyped, FailedCycleTyped
<1>5. CASE \/ ObligationsChange \/ TimePasses \/ ReceiptArrives \/ WorkMoves
           \/ BeliefAdjudicated \/ SituationChanges
  BY <1>5, BetweenCyclesTyped
<1>6. CASE Done
  BY <1>1, <1>6 DEF Done
<1> QED
  BY <1>1, <1>2, <1>3, <1>4, <1>5, <1>6 DEF Next

LEMMA MindInvariant == Spec => []MindInv
<1> QED
  BY InitTyped, NextTyped, PTL DEF Spec

\* Whatever the model says, the stores it writes through its updates, the plan,
\* the snapshot of the kernel and the sleep keep their types and their bounds.
THEOREM TypeCorrect == Spec => []TypeOK
<1>1. MindInv => TypeOK
  BY DEF MindInv
<1> QED
  BY <1>1, MindInvariant, PTL

-----------------------------------------------------------------------------
(* An urgent need is heeded.                                               *)

\* The focus and the sleep of a cycle that ends with an urgent need.
Heeded(n) == Needs(situation)[n] >= 90 => Urgent(agency'.focus) /\ wake' <= WakeCap[n]

LEMMA SettleHeeds ==
    ASSUME MindInv, Settle
    PROVE  \A n \in DOMAIN Needs(situation) \ {"goal_formation"} : Heeded(n)
<1> DEFINE needs == Needs(situation)
           actionable == DOMAIN needs \ {"goal_formation"}
           made == Reconcile(goals, needs)
           top  == made.snapshot.selected
<1>1. TypeOK /\ needs \in Graded
  BY NeedsGraded, SituationTyped DEF MindInv, TypeOK
<1>2. agency' = made.snapshot
  BY <1>1, CommitTyped DEF Settle
<1> SUFFICES ASSUME NEW n \in actionable, needs[n] >= 90
             PROVE  Urgent(agency'.focus) /\ wake' <= WakeCap[n]
  BY DEF Heeded
<1>3. wake' <= WakeCap[n]
  BY SettledWake
<1> HIDE DEF needs
<1>4. top \in actionable /\ needs[top] >= needs[n]
  BY <1>1, SelectedIsTop
<1>5. top \in NeedNames /\ needs[top] \in Percent /\ needs[n] \in Percent
  BY <1>1, <1>4, GradedValues
<1>6. needs[top] >= 90
  BY <1>4, <1>5 DEF Percent
<1>7. top # Absent
  BY <1>5, MindAssumption
<1>8. made.snapshot.focus = top
  <2>1. PICK gs : made.snapshot.focus = FocusTitle(gs, needs, top)
    BY DEF Reconcile
  <2>2. needs[top] >= 75
    BY <1>5, <1>6 DEF Percent
  <2> QED
    BY <1>7, <2>1, <2>2 DEF FocusTitle
<1>9. Urgent(agency'.focus)
  BY <1>2, <1>4, <1>6, <1>8 DEF Urgent, needs
<1> QED
  BY <1>3, <1>9

\* A cycle that ends ends in Settle.
LEMMA OnlySettleSettles ==
    ASSUME [Next]_vars, phase' = "settled", phase # "settled"
    PROVE  Settle
  BY DEF Next, vars, mindVars, Wake, Think, ApplyUpdate, Forecast, ActDenied, ActSuppressed, ActIngress,
         ActStage, ActBelieve, ActOtherwise, Acting, FailedCycle, Between, ObligationsChange, TimePasses,
         ReceiptArrives, WorkMoves, BeliefAdjudicated, SituationChanges, Done

\* A cycle that ends with a need of 90 percent or more, of any kind but the
\* wish for a goal and whatever the model said, has an urgent need for its focus and wakes within
\* that need's cap: EliaRuntime.cycle, through reconcile and wake_policy.
THEOREM UrgentHeeded ==
    Spec => [][phase' = "settled" /\ phase # "settled" =>
                  \A n \in DOMAIN Needs(situation) \ {"goal_formation"} : Heeded(n)]_vars
<1>1. MindInv /\ [Next]_vars =>
        [phase' = "settled" /\ phase # "settled" =>
            \A n \in DOMAIN Needs(situation) \ {"goal_formation"} : Heeded(n)]_vars
  <2> SUFFICES ASSUME MindInv, [Next]_vars, phase' = "settled", phase # "settled"
               PROVE  \A n \in DOMAIN Needs(situation) \ {"goal_formation"} : Heeded(n)
    OBVIOUS
  <2> QED
    BY OnlySettleSettles, SettleHeeds
<1> QED
  BY <1>1, MindInvariant, PTL DEF Spec

-----------------------------------------------------------------------------
(* Induction, and sums over finite sets.                                   *)

LEMMA NumbersReached ==
    ASSUME NEW T \in SUBSET Nat, 0 \in T, \A n \in T : n + 1 \in T
    PROVE  T = Nat
<1> SUFFICES ASSUME T # Nat PROVE FALSE
  OBVIOUS
<1> DEFINE Missed == Nat \ T
<1>1. Missed \in SUBSET Nat /\ Missed # {}
  OBVIOUS
<1> HIDE DEF Missed
<1>2. PICK n \in Missed : \A m \in Missed : n <= m
  BY <1>1, LeastNumber
<1>3. n \in Nat /\ n \notin T
  BY <1>2 DEF Missed
<1>4. n # 0
  BY <1>3
<1>5. n - 1 \in Nat /\ n - 1 \notin Missed
  BY <1>2, <1>3, <1>4
<1>6. (n - 1) + 1 \in T
  BY <1>5 DEF Missed
<1> QED
  BY <1>3, <1>6

-----------------------------------------------------------------------------
(* Sums over finite sets.                                                  *)

LEMMA LeastSubset ==
    ASSUME NEW S, IsFiniteSet(S), NEW T \in SUBSET SUBSET S, T # {}
    PROVE  \E s \in T : \A u \in T : ~(u \subseteq s /\ u # s)
<1>1. T \subseteq FiniteSubsetsOf(S)
  BY FS_FiniteSubsetsOfFinite
<1>2. PICK s \in T : \A u \in T : <<u, s>> \notin StrictSubsetOrdering(S)
  BY <1>1, FS_StrictSubsetOrderingWellFounded, WFMin
<1> QED
  BY <1>2 DEF StrictSubsetOrdering

\* What holds of the empty set, and of one more element, holds of a finite set.
LEMMA SubsetsReached ==
    ASSUME NEW S, IsFiniteSet(S), NEW T \in SUBSET SUBSET S, {} \in T,
           \A s \in T : \A x \in S \ s : s \cup {x} \in T
    PROVE  S \in T
<1> SUFFICES ASSUME S \notin T PROVE FALSE
  OBVIOUS
<1> DEFINE U == (SUBSET S) \ T
<1>1. U \in SUBSET SUBSET S /\ U # {}
  OBVIOUS
<1> HIDE DEF U
<1>2. PICK s \in U : \A u \in U : ~(u \subseteq s /\ u # s)
  BY <1>1, LeastSubset
<1>3. s \in SUBSET S /\ s \notin T /\ s # {}
  BY DEF U
<1>4. PICK x : x \in s
  BY <1>3
<1>5. s \ {x} \in T /\ x \in S \ (s \ {x})
  BY <1>2, <1>3, <1>4 DEF U
<1>6. (s \ {x}) \cup {x} \in T
  BY <1>5
<1>7. (s \ {x}) \cup {x} = s
  BY <1>4
<1> QED
  BY <1>3, <1>6, <1>7

\* The recursion by which the library computes a sum, on some of the subsets.
Chosen(s) == CHOOSE x \in s : TRUE

Summing(f, D, g) == g = [s \in D |-> IF s = {} THEN 0 ELSE f[Chosen(s)] + g[s \ {Chosen(s)}]]

LEMMA SumIsRecursive ==
    ASSUME NEW f
    PROVE  SumFunction(f) = (CHOOSE g : Summing(f, SUBSET DOMAIN f, g))[DOMAIN f]
  BY DEF SumFunction, SumFunctionOnSet, FoldFunctionOnSet, MapThenFoldSet, Summing, Chosen

Sized(S, n) == {s \in SUBSET S : Cardinality(s) <= n}

LEMMA SummingExists ==
    ASSUME NEW S, IsFiniteSet(S), NEW f \in [S -> Int]
    PROVE  \E g : Summing(f, SUBSET S, g)
<1> DEFINE Reached == {n \in Nat : \E g : Summing(f, Sized(S, n), g)}
<1>1. \A s \in SUBSET S : IsFiniteSet(s) /\ Cardinality(s) \in Nat /\ (Cardinality(s) = 0 <=> s = {})
  BY FS_Subset, FS_CardinalityType, FS_EmptySet
<1>2. \A s \in SUBSET S : s # {} => Chosen(s) \in s
  BY DEF Chosen
<1>3. \A s \in SUBSET S : s # {} => Cardinality(s \ {Chosen(s)}) = Cardinality(s) - 1
  BY <1>1, <1>2, FS_RemoveElement
<1>4. 0 \in Reached
  <2> DEFINE g == [s \in Sized(S, 0) |-> 0]
  <2>1. \A s \in Sized(S, 0) : s = {}
    BY <1>1 DEF Sized
  <2>2. Summing(f, Sized(S, 0), g)
    BY <2>1 DEF Summing
  <2> QED
    BY <2>2
<1>5. ASSUME NEW n \in Nat, n \in Reached PROVE n + 1 \in Reached
  <2>1. PICK h : Summing(f, Sized(S, n), h)
    BY <1>5
  <2> DEFINE g == [s \in Sized(S, n + 1) |-> IF s = {} THEN 0 ELSE f[Chosen(s)] + h[s \ {Chosen(s)}]]
  <2>2. ASSUME NEW s \in Sized(S, n + 1), s # {}
        PROVE  s \ {Chosen(s)} \in Sized(S, n) /\ s \ {Chosen(s)} \in Sized(S, n + 1)
    <3>1. s \in SUBSET S /\ Cardinality(s) <= n + 1 /\ Cardinality(s) \in Nat
      BY <1>1 DEF Sized
    <3>2. Cardinality(s \ {Chosen(s)}) = Cardinality(s) - 1
      BY <1>3, <2>2, <3>1
    <3> QED
      BY <3>1, <3>2 DEF Sized
  <2>3. ASSUME NEW s \in Sized(S, n) PROVE g[s] = h[s]
    <3>1. s \in Sized(S, n + 1)
      BY <1>1 DEF Sized
    <3> QED
      BY <2>1, <3>1 DEF Summing
  <2>4. g = [s \in Sized(S, n + 1) |-> IF s = {} THEN 0 ELSE f[Chosen(s)] + g[s \ {Chosen(s)}]]
    <3>1. ASSUME NEW s \in Sized(S, n + 1), s # {}
          PROVE  h[s \ {Chosen(s)}] = g[s \ {Chosen(s)}]
      BY <2>2, <2>3, <3>1
    <3> QED
      BY <3>1
  <2>5. Summing(f, Sized(S, n + 1), g)
    BY <2>4 DEF Summing
  <2> HIDE DEF g
  <2> QED
    BY <2>5
<1>6. Reached = Nat
  <2>1. Reached \in SUBSET Nat
    OBVIOUS
  <2> HIDE DEF Reached
  <2> QED
    BY <1>4, <1>5, <2>1, NumbersReached
<1>7. Cardinality(S) \in Nat
  BY FS_CardinalityType
<1>8. \E g : Summing(f, Sized(S, Cardinality(S)), g)
  BY <1>6, <1>7
<1>9. Sized(S, Cardinality(S)) = SUBSET S
  BY FS_Subset DEF Sized
<1> QED
  BY <1>8, <1>9

\* A sum of numbers is a number, and any element may be taken from it first.
LEMMA SumByElements ==
    ASSUME NEW S, IsFiniteSet(S), NEW f \in [S -> Int]
    PROVE  \E g \in [SUBSET S -> Int] :
              /\ g[{}] = 0
              /\ \A s \in SUBSET S : \A x \in s : g[s] = f[x] + g[s \ {x}]
              /\ SumFunction(f) = g[S]
<1> DEFINE g == CHOOSE h : Summing(f, SUBSET S, h)
<1>1. Summing(f, SUBSET S, g)
  BY SummingExists
<1>2. SumFunction(f) = g[S]
  BY SumIsRecursive
<1> HIDE DEF g
<1>3. /\ DOMAIN g = SUBSET S /\ g = [s \in SUBSET S |-> g[s]]
      /\ \A s \in SUBSET S : g[s] = IF s = {} THEN 0 ELSE f[Chosen(s)] + g[s \ {Chosen(s)}]
  BY <1>1 DEF Summing
<1>4. \A s \in SUBSET S : s # {} => Chosen(s) \in s
  BY DEF Chosen
<1> DEFINE Good(s) == g[s] \in Int /\ \A x \in s : g[s \ {x}] \in Int /\ g[s] = f[x] + g[s \ {x}]
           Bad     == {s \in SUBSET S : ~Good(s)}
<1>5. Bad = {}
  <2> SUFFICES ASSUME Bad # {} PROVE FALSE
    OBVIOUS
  <2>1. Bad \in SUBSET SUBSET S
    OBVIOUS
  <2> HIDE DEF Bad, Good
  <2>2. PICK s \in Bad : \A u \in Bad : ~(u \subseteq s /\ u # s)
    BY <2>1, LeastSubset
  <2>3. s \in SUBSET S /\ ~Good(s)
    BY <2>2 DEF Bad
  <2>4. \A u \in SUBSET S : u \subseteq s /\ u # s => Good(u)
    BY <2>2 DEF Bad
  <2>5. s # {}
    <3>1. g[{}] = 0
      BY <1>3
    <3>2. Good({})
      BY <3>1 DEF Good
    <3> QED
      BY <2>3, <3>2
  <2> DEFINE c == Chosen(s)
  <2>6. c \in s /\ c \in S /\ f[c] \in Int
    BY <1>4, <2>3, <2>5
  <2>7. g[s] = f[c] + g[s \ {c}]
    BY <1>3, <2>3, <2>5
  <2> HIDE DEF c
  <2>8. s \ {c} \in SUBSET S /\ s \ {c} \subseteq s /\ s \ {c} # s
    BY <2>3, <2>6
  <2>9. Good(s \ {c})
    BY <2>4, <2>8
  <2>10. g[s \ {c}] \in Int /\ g[s] \in Int
    BY <2>6, <2>7, <2>9 DEF Good
  <2>11. ASSUME NEW x \in s, x # c PROVE g[s \ {x}] \in Int /\ g[s] = f[x] + g[s \ {x}]
    <3>1. x \in s \ {c} /\ c \in s \ {x} /\ f[x] \in Int
      BY <2>3, <2>6, <2>11
    <3>2. s \ {x} \in SUBSET S /\ s \ {x} \subseteq s /\ s \ {x} # s
      BY <2>3
    <3>3. Good(s \ {x})
      BY <2>4, <3>2
    <3>4. (s \ {c}) \ {x} = (s \ {x}) \ {c}
      OBVIOUS
    <3>5. g[(s \ {c}) \ {x}] \in Int /\ g[s \ {c}] = f[x] + g[(s \ {c}) \ {x}]
      BY <2>9, <3>1 DEF Good
    <3>6. g[s \ {x}] = f[c] + g[(s \ {x}) \ {c}]
      BY <3>1, <3>3 DEF Good
    <3> DEFINE rest == g[(s \ {c}) \ {x}]
    <3>7. /\ rest \in Int /\ f[x] \in Int /\ f[c] \in Int
          /\ g[s] = f[c] + g[s \ {c}] /\ g[s \ {c}] = f[x] + rest /\ g[s \ {x}] = f[c] + rest
      BY <2>6, <2>7, <3>1, <3>4, <3>5, <3>6
    <3> HIDE DEF rest
    <3> QED
      BY <3>7
  <2>12. Good(s)
    BY <2>7, <2>10, <2>11 DEF Good
  <2> QED
    BY <2>3, <2>12
<1>6. \A s \in SUBSET S : Good(s)
  BY <1>5
<1> HIDE DEF Bad
<1>7. g \in [SUBSET S -> Int] /\ g[{}] = 0
  BY <1>3, <1>6
<1> QED
  BY <1>2, <1>6, <1>7

LEMMA SumTyped ==
    ASSUME NEW S, IsFiniteSet(S), NEW f \in [S -> Int]
    PROVE  SumFunction(f) \in Int
<1>1. PICK g \in [SUBSET S -> Int] : SumFunction(f) = g[S]
  BY SumByElements
<1> QED
  BY <1>1

\* More on some of the elements is so much more in all.
LEMMA SumAdded ==
    ASSUME NEW S, IsFiniteSet(S), NEW G \in SUBSET S,
           NEW f \in [S -> Int], NEW h \in [S -> Int], NEW a \in [G -> Int],
           \A x \in G : h[x] = f[x] + a[x],
           \A x \in S \ G : h[x] = f[x]
    PROVE  SumFunction(h) = SumFunction(f) + SumFunction(a)
<1>1. IsFiniteSet(G)
  BY FS_Subset
<1>2. PICK F \in [SUBSET S -> Int] :
         /\ F[{}] = 0
         /\ \A s \in SUBSET S : \A x \in s : F[s] = f[x] + F[s \ {x}]
         /\ SumFunction(f) = F[S]
  BY SumByElements
<1>3. PICK H \in [SUBSET S -> Int] :
         /\ H[{}] = 0
         /\ \A s \in SUBSET S : \A x \in s : H[s] = h[x] + H[s \ {x}]
         /\ SumFunction(h) = H[S]
  BY SumByElements
<1>4. PICK A \in [SUBSET G -> Int] :
         /\ A[{}] = 0
         /\ \A s \in SUBSET G : \A x \in s : A[s] = a[x] + A[s \ {x}]
         /\ SumFunction(a) = A[G]
  BY <1>1, SumByElements
<1> DEFINE T == {s \in SUBSET S : H[s] = F[s] + A[s \cap G]}
<1>5. {} \in T
  <2>1. {} \cap G = {}
    OBVIOUS
  <2> QED
    BY <1>2, <1>3, <1>4, <2>1
<1>6. ASSUME NEW s \in T, NEW x \in S \ s PROVE s \cup {x} \in T
  <2> DEFINE t == s \cup {x}
  <2>1. t \in SUBSET S /\ x \in t /\ t \ {x} = s
    OBVIOUS
  <2>2. s \in SUBSET S /\ H[s] = F[s] + A[s \cap G]
    OBVIOUS
  <2> HIDE DEF t, T
  <2>3. H[t] = h[x] + H[s] /\ F[t] = f[x] + F[s]
    <3>1. H[t] = h[x] + H[t \ {x}]
      BY <1>3, <2>1
    <3>2. F[t] = f[x] + F[t \ {x}]
      BY <1>2, <2>1
    <3> QED
      BY <2>1, <3>1, <3>2
  <2>4. F[s] \in Int /\ H[s] \in Int /\ f[x] \in Int /\ h[x] \in Int /\ A[s \cap G] \in Int
    BY <2>2
  <2>5. CASE x \in G
    <3>1. t \cap G \in SUBSET G /\ x \in t \cap G /\ (t \cap G) \ {x} = s \cap G
      BY <2>1, <2>5
    <3>2. A[t \cap G] = a[x] + A[s \cap G]
      <4> DEFINE u == t \cap G
      <4>1. u \in SUBSET G /\ x \in u /\ u \ {x} = s \cap G
        BY <3>1
      <4> HIDE DEF u
      <4>2. A[u] = a[x] + A[u \ {x}]
        BY <1>4, <4>1
      <4> QED
        BY <4>1, <4>2 DEF u
    <3>3. h[x] = f[x] + a[x] /\ a[x] \in Int
      BY <2>5
    <3>4. H[t] = F[t] + A[t \cap G]
      BY <2>2, <2>3, <2>4, <3>2, <3>3
    <3> QED
      BY <2>1, <3>4 DEF t, T
  <2>6. CASE x \notin G
    <3>1. t \cap G = s \cap G
      BY <2>6 DEF t
    <3>2. h[x] = f[x]
      BY <2>6
    <3>3. H[t] = F[t] + A[t \cap G]
      <4>1. A[t \cap G] = A[s \cap G]
        BY <3>1
      <4> HIDE <1>2, <1>3, <1>4
      <4> QED
        BY <2>2, <2>3, <2>4, <3>2, <4>1
    <3> QED
      BY <2>1, <3>3 DEF t, T
  <2> QED
    BY <2>5, <2>6
<1>7. T \in SUBSET SUBSET S
  OBVIOUS
<1> HIDE DEF T
<1>8. S \in T
  BY <1>5, <1>6, <1>7, SubsetsReached
<1>9. H[S] = F[S] + A[S \cap G] /\ S \cap G = G
  BY <1>8 DEF T
<1> QED
  BY <1>2, <1>3, <1>4, <1>9

LEMMA SumMonotone ==
    ASSUME NEW S, IsFiniteSet(S), NEW f \in [S -> Int], NEW h \in [S -> Int],
           \A x \in S : f[x] <= h[x]
    PROVE  SumFunction(f) <= SumFunction(h)
<1>1. PICK F \in [SUBSET S -> Int] :
         /\ F[{}] = 0
         /\ \A s \in SUBSET S : \A x \in s : F[s] = f[x] + F[s \ {x}]
         /\ SumFunction(f) = F[S]
  BY SumByElements
<1>2. PICK H \in [SUBSET S -> Int] :
         /\ H[{}] = 0
         /\ \A s \in SUBSET S : \A x \in s : H[s] = h[x] + H[s \ {x}]
         /\ SumFunction(h) = H[S]
  BY SumByElements
<1> DEFINE T == {s \in SUBSET S : F[s] <= H[s]}
<1>3. {} \in T
  BY <1>1, <1>2
<1>4. ASSUME NEW s \in T, NEW x \in S \ s PROVE s \cup {x} \in T
  <2> DEFINE t == s \cup {x}
  <2>1. t \in SUBSET S /\ x \in t /\ t \ {x} = s /\ s \in SUBSET S /\ F[s] <= H[s]
    OBVIOUS
  <2>2. H[t] = h[x] + H[s] /\ F[t] = f[x] + F[s]
    BY <1>1, <1>2, <2>1
  <2>3. F[s] \in Int /\ H[s] \in Int /\ f[x] \in Int /\ h[x] \in Int
    BY <2>1
  <2> HIDE DEF t
  <2>4. F[t] <= H[t]
    BY <2>1, <2>2, <2>3
  <2> QED
    BY <2>1, <2>4 DEF t
<1>5. T \in SUBSET SUBSET S
  OBVIOUS
<1> HIDE DEF T
<1>6. S \in T
  BY <1>3, <1>4, <1>5, SubsetsReached
<1> QED
  BY <1>1, <1>2, <1>6 DEF T

LEMMA SumOfConstants ==
    ASSUME NEW S, IsFiniteSet(S), NEW c \in Int
    PROVE  SumFunction([x \in S |-> c]) = c * Cardinality(S)
<1> DEFINE f == [x \in S |-> c]
<1>1. f \in [S -> Int] /\ \A x \in S : f[x] = c
  OBVIOUS
<1> HIDE DEF f
<1>2. PICK F \in [SUBSET S -> Int] :
         /\ F[{}] = 0
         /\ \A s \in SUBSET S : \A x \in s : F[s] = f[x] + F[s \ {x}]
         /\ SumFunction(f) = F[S]
  BY <1>1, SumByElements
<1> DEFINE T == {s \in SUBSET S : F[s] = c * Cardinality(s)}
<1>3. {} \in T
  BY <1>2, FS_EmptySet
<1>4. ASSUME NEW s \in T, NEW x \in S \ s PROVE s \cup {x} \in T
  <2> DEFINE t == s \cup {x}
  <2>1. t \in SUBSET S /\ x \in t /\ t \ {x} = s /\ s \in SUBSET S /\ F[s] = c * Cardinality(s)
    OBVIOUS
  <2>2. F[t] = c + F[s]
    BY <1>1, <1>2, <2>1
  <2>3. IsFiniteSet(s) /\ Cardinality(s) \in Nat
    BY <2>1, FS_Subset, FS_CardinalityType
  <2>4. Cardinality(t) = Cardinality(s) + 1
    BY <2>3, FS_AddElement
  <2> HIDE DEF t
  <2>5. F[t] = c * Cardinality(t)
    BY <2>1, <2>2, <2>3, <2>4
  <2> QED
    BY <2>1, <2>5 DEF t
<1>5. T \in SUBSET SUBSET S
  OBVIOUS
<1> HIDE DEF T
<1>6. S \in T
  BY <1>3, <1>4, <1>5, SubsetsReached
<1> QED
  BY <1>2, <1>6 DEF T, f
-----------------------------------------------------------------------------
(* The dues of an obligation, counted.                                     *)

LEMMA MultiplesApart ==
    ASSUME NEW c \in Nat \ {0}, NEW k \in Int, NEW m \in Int, k < m
    PROVE  c * k + c <= c * m
<1> DEFINE d == m - k - 1
<1>1. d \in Nat /\ m = k + 1 + d
  OBVIOUS
<1> HIDE DEF d
<1>2. c * m = c * k + c + c * d
  BY <1>1
<1>3. c * d \in Nat /\ c * k \in Int
  BY <1>1
<1> QED
  BY <1>2, <1>3

LEMMA Quotient ==
    ASSUME NEW a \in Nat, NEW c \in Nat \ {0}
    PROVE  /\ a \div c \in Nat
           /\ c * (a \div c) <= a /\ a < c * (a \div c) + c
  OBVIOUS

\* So many dues by then: the next one is later, and the last one is not.
LEMMA DuesCounted ==
    ASSUME MetabolismTypeOK, NEW o \in DOMAIN obligations, NEW t \in Int
    PROVE  LET due == obligations[o].due
               c   == obligations[o].cadence
               k   == DuesBy(o, t)
           IN /\ due \in Int /\ c \in Nat \ {0} /\ k \in Nat
              /\ t < due + c * k
              /\ k # 0 => due + c * (k - 1) <= t
<1> DEFINE due == obligations[o].due
           c   == obligations[o].cadence
           k   == DuesBy(o, t)
<1>1. due \in Int /\ c \in Nat \ {0}
  <2>1. obligations[o] \in ObligationRows
    BY DEF MetabolismTypeOK
  <2> QED
    BY <2>1 DEF ObligationRows
<1>2. k = IF due > t THEN 0 ELSE 1 + (t - due) \div c
  BY DEF DuesBy
<1> HIDE DEF due, c, k
<1>3. ASSUME due > t PROVE k = 0 /\ t < due + c * k
  BY <1>1, <1>2, <1>3
<1>4. ASSUME ~(due > t) PROVE k \in Nat /\ t < due + c * k /\ due + c * (k - 1) <= t
  <2> DEFINE a == t - due
             q == a \div c
  <2>1. a \in Nat /\ k = 1 + q /\ t = due + a
    BY <1>1, <1>2, <1>4
  <2> HIDE DEF a
  <2>2. q \in Nat /\ c * q <= a /\ a < c * q + c
    BY <1>1, <2>1, Quotient
  <2> HIDE DEF q
  <2>3. c * k = c * q + c /\ k - 1 = q
    BY <1>1, <2>1, <2>2
  <2>4. c * q \in Int
    BY <1>1, <2>2
  <2> QED
    BY <1>1, <2>1, <2>2, <2>3, <2>4
<1>5. /\ k \in Nat
      /\ t < due + c * k
      /\ k # 0 => due + c * (k - 1) <= t
  BY <1>3, <1>4
<1> QED
  BY <1>1, <1>5 DEF due, c, k

LEMMA DuesAre ==
    ASSUME MetabolismTypeOK, NEW o \in DOMAIN obligations, NEW t \in Int, NEW m \in Nat,
           t < obligations[o].due + obligations[o].cadence * m,
           m # 0 => obligations[o].due + obligations[o].cadence * (m - 1) <= t
    PROVE  DuesBy(o, t) = m
<1> DEFINE due == obligations[o].due
           c   == obligations[o].cadence
           k   == DuesBy(o, t)
<1>1. /\ due \in Int /\ c \in Nat \ {0} /\ k \in Nat
      /\ t < due + c * k
      /\ k # 0 => due + c * (k - 1) <= t
  BY DuesCounted
<1>2. t < due + c * m /\ (m # 0 => due + c * (m - 1) <= t)
  OBVIOUS
<1> HIDE DEF due, c, k
<1>3. ~(k < m)
  <2> SUFFICES ASSUME k < m PROVE FALSE
    OBVIOUS
  <2>1. due + c * (m - 1) <= t
    BY <1>1, <1>2
  <2>2. c * k <= c * (m - 1)
    <3>1. CASE k = m - 1
      BY <1>1, <3>1
    <3>2. CASE k < m - 1
      BY <1>1, <3>2, MultiplesApart
    <3> QED
      BY <1>1, <3>1, <3>2
  <2>3. c * k \in Int /\ c * (m - 1) \in Int
    BY <1>1
  <2> QED
    BY <1>1, <2>1, <2>2, <2>3
<1>4. ~(m < k)
  <2> SUFFICES ASSUME m < k PROVE FALSE
    OBVIOUS
  <2>1. due + c * (k - 1) <= t
    BY <1>1
  <2>2. c * m <= c * (k - 1)
    <3>1. CASE m = k - 1
      BY <1>1, <3>1
    <3>2. CASE m < k - 1
      BY <1>1, <3>2, MultiplesApart
    <3> QED
      BY <1>1, <3>1, <3>2
  <2>3. c * m \in Int /\ c * (k - 1) \in Int
    BY <1>1
  <2> QED
    BY <1>1, <1>2, <2>1, <2>2, <2>3
<1>5. k = m
  BY <1>1, <1>3, <1>4
<1> QED
  BY <1>5 DEF k

NextDue(o, t) == obligations[o].due + obligations[o].cadence * DuesBy(o, t)

LEMMA NextDueLater ==
    ASSUME MetabolismTypeOK, NEW o \in DOMAIN obligations, NEW t \in Int
    PROVE  NextDue(o, t) \in Int /\ t < NextDue(o, t)
<1>1. obligations[o].due \in Int /\ obligations[o].cadence \in Nat \ {0} /\ DuesBy(o, t) \in Nat
  BY DuesCounted
<1>2. t < obligations[o].due + obligations[o].cadence * DuesBy(o, t)
  BY DuesCounted
<1> QED
  BY <1>1, <1>2 DEF NextDue

LEMMA DuesStep ==
    ASSUME MetabolismTypeOK, NEW o \in DOMAIN obligations, NEW t \in Int, NEW u \in Int,
           t < u, u <= NextDue(o, t)
    PROVE  DuesBy(o, u) = IF NextDue(o, t) = u THEN DuesBy(o, t) + 1 ELSE DuesBy(o, t)
<1> DEFINE due == obligations[o].due
           c   == obligations[o].cadence
           k   == DuesBy(o, t)
<1>1. /\ due \in Int /\ c \in Nat \ {0} /\ k \in Nat
      /\ t < due + c * k
      /\ k # 0 => due + c * (k - 1) <= t
  BY DuesCounted
<1>2. u <= due + c * k
  BY DEF NextDue
<1>3. ASSUME NEW m \in Nat, u < due + c * m, m # 0 => due + c * (m - 1) <= u PROVE DuesBy(o, u) = m
  BY <1>3, DuesAre
<1> HIDE DEF due, c, k
<1>4. c * k \in Int /\ c * (k - 1) \in Int /\ c * (k + 1) = c * k + c
  BY <1>1
<1>5. ASSUME u = due + c * k PROVE DuesBy(o, u) = k + 1
  <2>1. u < due + c * (k + 1) /\ due + c * ((k + 1) - 1) <= u
    BY <1>1, <1>4, <1>5
  <2> QED
    BY <1>1, <1>3, <2>1
<1>6. ASSUME u # due + c * k PROVE DuesBy(o, u) = k
  <2>1. u < due + c * k /\ (k # 0 => due + c * (k - 1) <= u)
    BY <1>1, <1>2, <1>4, <1>6
  <2> QED
    BY <1>1, <1>3, <2>1
<1> QED
  BY <1>5, <1>6 DEF NextDue, due, c, k

LEMMA DuesMonotone ==
    ASSUME MetabolismTypeOK, NEW o \in DOMAIN obligations, NEW t \in Int, NEW u \in Int, t <= u
    PROVE  DuesBy(o, t) <= DuesBy(o, u)
<1> DEFINE due == obligations[o].due
           c   == obligations[o].cadence
           k   == DuesBy(o, t)
           m   == DuesBy(o, u)
<1>1. /\ due \in Int /\ c \in Nat \ {0} /\ k \in Nat
      /\ k # 0 => due + c * (k - 1) <= t
  BY DuesCounted
<1>2. m \in Nat /\ u < due + c * m
  BY DuesCounted
<1> HIDE DEF due, c, k, m
<1> SUFFICES ASSUME m < k PROVE FALSE
  BY <1>1, <1>2 DEF k, m
<1>3. due + c * (k - 1) <= t
  BY <1>1, <1>2
<1>4. c * m <= c * (k - 1)
  <2>1. CASE m = k - 1
    BY <1>1, <2>1
  <2>2. CASE m < k - 1
    BY <1>1, <1>2, <2>2, MultiplesApart
  <2> QED
    BY <1>1, <1>2, <2>1, <2>2
<1>5. c * m \in Int /\ c * (k - 1) \in Int
  BY <1>1, <1>2
<1> QED
  BY <1>1, <1>2, <1>3, <1>4, <1>5

\* A due that is later than t is the next one or later still.
LEMMA DueMoment ==
    ASSUME MetabolismTypeOK, NEW o \in DOMAIN obligations, NEW t \in Int, NEW d \in Int,
           t < d, obligations[o].due <= d,
           (d - obligations[o].due) % obligations[o].cadence = 0
    PROVE  NextDue(o, t) <= d
<1> DEFINE due == obligations[o].due
           c   == obligations[o].cadence
           k   == DuesBy(o, t)
           m   == (d - due) \div c
<1>1. /\ due \in Int /\ c \in Nat \ {0} /\ k \in Nat
      /\ k # 0 => due + c * (k - 1) <= t
  BY DuesCounted
<1>2. d - due \in Nat /\ (d - due) % c = 0
  BY <1>1
<1> HIDE DEF due, c, k
<1>3. m \in Nat /\ d - due = c * m
  BY <1>1, <1>2
<1> HIDE DEF m
<1>4. ~(m < k)
  <2> SUFFICES ASSUME m < k PROVE FALSE
    OBVIOUS
  <2>1. due + c * (k - 1) <= t
    BY <1>1, <1>3
  <2>2. c * m <= c * (k - 1)
    <3>1. CASE m = k - 1
      BY <1>1, <3>1
    <3>2. CASE m < k - 1
      BY <1>1, <1>3, <3>2, MultiplesApart
    <3> QED
      BY <1>1, <1>3, <3>1, <3>2
  <2>3. c * m \in Int /\ c * (k - 1) \in Int
    BY <1>1, <1>3
  <2> QED
    BY <1>1, <1>3, <2>1, <2>2, <2>3
<1>5. c * k <= c * m
  <2>1. CASE k = m
    BY <1>1, <2>1
  <2>2. CASE k < m
    <3>1. c * k + c <= c * m
      BY <1>1, <1>3, <2>2, MultiplesApart
    <3>2. c * k \in Int /\ c * m \in Int
      BY <1>1, <1>3
    <3> QED
      BY <1>1, <3>1, <3>2
  <2> QED
    BY <1>1, <1>3, <1>4, <2>1, <2>2
<1>6. c * k \in Int /\ c * m \in Int
  BY <1>1, <1>3
<1>7. due + c * k <= d
  BY <1>1, <1>3, <1>5, <1>6
<1> QED
  BY <1>7 DEF NextDue, due, c, k

-----------------------------------------------------------------------------
(* The projection, turn by turn.                                           *)

Start(asset) ==
    [cumulative |-> 0, events |-> 0, complete |-> TRUE, uncovered |-> Never, essential |-> Never,
     heap |-> {[due |-> obligations[o].due, id |-> o] :
                  o \in {q \in Owed(asset) : obligations[q].due <= Horizon}}]

Turned(asset, p) == IF p.heap = {} THEN p ELSE ProjectGroup(asset, p)

Running(asset, k, g) == g = [n \in 0..k |-> IF n = 0 THEN Start(asset) ELSE Turned(asset, g[n - 1])]

LEMMA ProjectionRuns ==
    ASSUME NEW asset
    PROVE  CashflowProjection(asset) = (CHOOSE g : Running(asset, MaxEvents, g))[MaxEvents]
  BY DEF CashflowProjection, Running, Turned, Start

LEMMA RunExists ==
    ASSUME NEW asset, NEW m \in Nat
    PROVE  \E g : Running(asset, m, g)
<1> DEFINE Reached == {k \in Nat : \E g : Running(asset, k, g)}
<1>1. 0 \in Reached
  <2> DEFINE g == [n \in 0..0 |-> Start(asset)]
  <2>1. Running(asset, 0, g)
    BY DEF Running
  <2> HIDE DEF g
  <2> QED
    BY <2>1
<1>2. ASSUME NEW k \in Reached PROVE k + 1 \in Reached
  <2>1. k \in Nat
    OBVIOUS
  <2>2. PICK h : Running(asset, k, h)
    OBVIOUS
  <2> DEFINE g == [n \in 0..(k + 1) |-> IF n = 0 THEN Start(asset) ELSE Turned(asset, h[n - 1])]
  <2>3. \A n \in 0..k : g[n] = h[n]
    BY <2>1, <2>2 DEF Running
  <2>4. \A n \in 0..(k + 1) : n # 0 => n - 1 \in 0..k
    BY <2>1
  <2>5. g = [n \in 0..(k + 1) |-> IF n = 0 THEN Start(asset) ELSE Turned(asset, g[n - 1])]
    BY <2>3, <2>4
  <2>6. Running(asset, k + 1, g)
    BY <2>5 DEF Running
  <2> HIDE DEF g
  <2> QED
    BY <2>1, <2>6
<1>3. Reached \in SUBSET Nat
  OBVIOUS
<1> HIDE DEF Reached
<1>4. Reached = Nat
  BY <1>1, <1>2, <1>3, NumbersReached
<1> QED
  BY <1>4 DEF Reached

LEMMA RunValues ==
    ASSUME NEW asset
    PROVE  \E g : /\ g[0] = Start(asset)
                  /\ \A n \in 1..MaxEvents : g[n] = Turned(asset, g[n - 1])
                  /\ CashflowProjection(asset) = g[MaxEvents]
<1> DEFINE g == CHOOSE h : Running(asset, MaxEvents, h)
<1>1. MaxEvents \in Nat \ {0}
  BY MetabolismAssumption
<1>2. Running(asset, MaxEvents, g)
  BY <1>1, RunExists
<1>3. CashflowProjection(asset) = g[MaxEvents]
  BY ProjectionRuns
<1> HIDE DEF g
<1>4. g[0] = Start(asset) /\ \A n \in 1..MaxEvents : g[n] = Turned(asset, g[n - 1])
  BY <1>1, <1>2 DEF Running
<1> QED
  BY <1>3, <1>4

\* What the projection is about, without it.
Counted(asset, t) == SumFunction([o \in Owed(asset) |-> DuesBy(o, t)])

EssentialDue(asset, d) ==
    \E o \in Owed(asset) : /\ obligations[o].essential /\ obligations[o].due <= d
                           /\ (d - obligations[o].due) % obligations[o].cadence = 0

NextDues(asset, t) ==
    {[due |-> NextDue(o, t), id |-> o] : o \in {q \in Owed(asset) : NextDue(q, t) <= Horizon}}

\* It has paid all dues until t, and has seen the first essential shortfall if there was one.
PaidUntil(asset, p, t) ==
    /\ t \in Int /\ t <= Horizon
    /\ p.heap = NextDues(asset, t)
    /\ p.cumulative = OwedBy(asset, t) /\ p.events = Counted(asset, t)
    /\ p.heap # {} => p.events < MaxEvents
    /\ p.essential # Never => p.essential \in Int /\ p.essential <= t
    /\ \A d \in Int : d <= t /\ EssentialDue(asset, d) /\ OwedBy(asset, d) > balance[asset] =>
                         p.essential # Never /\ p.essential <= d

\* Or it stopped counting.
GaveUp(asset, p) == p.heap = {} /\ ~p.complete /\ ~Countable(asset)

Sees(asset, p) == GaveUp(asset, p) \/ \E t : PaidUntil(asset, p, t)

LEMMA OwedFinite ==
    ASSUME MetabolismTypeOK, NEW asset
    PROVE  Owed(asset) \subseteq DOMAIN obligations /\ IsFiniteSet(Owed(asset))
<1>1. DOMAIN obligations = 1..Len(obligations) /\ Len(obligations) \in Nat
  BY DEF MetabolismTypeOK
<1>2. IsFiniteSet(DOMAIN obligations)
  BY <1>1, FS_Interval
<1>3. Owed(asset) \subseteq DOMAIN obligations
  BY DEF Owed, Active
<1> QED
  BY <1>2, <1>3, FS_Subset

LEMMA ObligationTyped ==
    ASSUME MetabolismTypeOK, NEW o \in DOMAIN obligations
    PROVE  /\ obligations[o].due \in Int /\ obligations[o].cadence \in Nat \ {0}
           /\ obligations[o].amount \in Nat \ {0}
<1>1. obligations[o] \in ObligationRows
  BY DEF MetabolismTypeOK
<1> QED
  BY <1>1 DEF ObligationRows

LEMMA Below ==
    ASSUME NEW S, IsFiniteSet(S), NEW f \in [S -> Int], NEW b \in Int
    PROVE  \E t \in Int : t <= b /\ \A x \in S : t < f[x]
<1> DEFINE T == {s \in SUBSET S : \E t \in Int : t <= b /\ \A x \in s : t < f[x]}
<1>1. {} \in T
  OBVIOUS
<1>2. ASSUME NEW s \in T, NEW x \in S \ s PROVE s \cup {x} \in T
  <2>1. PICK t \in Int : t <= b /\ \A y \in s : t < f[y]
    OBVIOUS
  <2>2. f[x] \in Int
    OBVIOUS
  <2> DEFINE u == IF t < f[x] THEN t ELSE f[x] - 1
  <2>3. u \in Int /\ u <= t /\ u < f[x]
    BY <2>2
  <2> HIDE DEF u
  <2>4. \A y \in s : f[y] \in Int
    OBVIOUS
  <2>5. u <= b /\ \A y \in s \cup {x} : u < f[y]
    BY <2>1, <2>3, <2>4
  <2> QED
    BY <2>3, <2>5
<1>3. T \in SUBSET SUBSET S
  OBVIOUS
<1> HIDE DEF T
<1>4. S \in T
  BY <1>1, <1>2, <1>3, SubsetsReached
<1> QED
  BY <1>4 DEF T

LEMMA StartSees ==
    ASSUME MetabolismTypeOK, NEW asset
    PROVE  Sees(asset, Start(asset))
<1> DEFINE S == Owed(asset)
           p == Start(asset)
<1>1. IsFiniteSet(S) /\ S \subseteq DOMAIN obligations
  BY OwedFinite
<1> HIDE DEF S
<1>2. PICK t \in Int : t <= Horizon /\ \A o \in S : t < obligations[o].due
  <2> DEFINE f == [o \in S |-> obligations[o].due]
  <2>1. f \in [S -> Int]
    BY <1>1, ObligationTyped
  <2>2. Horizon \in Int
    BY MetabolismAssumption
  <2> HIDE DEF f
  <2>3. PICK t \in Int : t <= Horizon /\ \A o \in S : t < f[o]
    BY <1>1, <2>1, <2>2, Below
  <2> QED
    BY <2>3 DEF f
<1>3. ASSUME NEW o \in S PROVE DuesBy(o, t) = 0 /\ NextDue(o, t) = obligations[o].due
  <2>1. t < obligations[o].due /\ obligations[o].due \in Int /\ obligations[o].cadence \in Int
    BY <1>1, <1>2, ObligationTyped
  <2>2. DuesBy(o, t) = 0
    BY <2>1 DEF DuesBy
  <2> QED
    BY <2>1, <2>2 DEF NextDue
<1>4. p.heap = NextDues(asset, t)
  BY <1>3 DEF NextDues, Start, S
<1>5. SumFunction([o \in S |-> 0]) = 0
  <2>1. 0 * Cardinality(S) = 0
    BY <1>1, FS_CardinalityType
  <2>2. 0 \in Int
    OBVIOUS
  <2>3. SumFunction([o \in S |-> 0]) = 0 * Cardinality(S)
    BY ONLY <1>1, <2>2, SumOfConstants
  <2> QED
    BY ONLY <2>1, <2>3
<1>6. OwedBy(asset, t) = 0
  <2>1. [o \in S |-> obligations[o].amount * DuesBy(o, t)] = [o \in S |-> 0]
    BY <1>1, <1>3, ObligationTyped
  <2> QED
    BY <1>5, <2>1 DEF OwedBy, S
<1>7. Counted(asset, t) = 0
  <2>1. [o \in S |-> DuesBy(o, t)] = [o \in S |-> 0]
    BY <1>3
  <2> QED
    BY <1>5, <2>1 DEF Counted, S
<1>8. \A d \in Int : d <= t => ~EssentialDue(asset, d)
  <2> SUFFICES ASSUME NEW d \in Int, d <= t, NEW o \in S, obligations[o].due <= d PROVE FALSE
    BY DEF EssentialDue, S
  <2>1. t < obligations[o].due /\ obligations[o].due \in Int
    BY <1>1, <1>2, ObligationTyped
  <2> QED
    BY <2>1
<1>9. p.cumulative = 0 /\ p.events = 0 /\ p.essential = Never /\ 0 < MaxEvents
  BY MetabolismAssumption DEF Start
<1>10. PaidUntil(asset, p, t)
  BY <1>2, <1>4, <1>6, <1>7, <1>8, <1>9 DEF PaidUntil
<1> QED
  BY <1>10 DEF Sees

\* The earliest of the next dues, and who owes it.
LEMMA EarliestDue ==
    ASSUME MetabolismTypeOK, NEW asset, NEW t \in Int,
           NEW heap, heap = NextDues(asset, t), heap # {},
           NEW moments, \A d : d \in moments <=> \E e \in heap : d = e.due,
           NEW u, u = Min(moments)
    PROVE  /\ u \in Int /\ t < u /\ u <= Horizon
           /\ \A o \in Owed(asset) : u <= NextDue(o, t)
           /\ \E o \in Owed(asset) : u = NextDue(o, t)
           /\ \A i : (\E e \in heap : e.due = u /\ e.id = i) <=> (i \in Owed(asset) /\ NextDue(i, t) = u)
<1> DEFINE S == Owed(asset)
<1>1. \A o \in S : NextDue(o, t) \in Int /\ t < NextDue(o, t)
  BY OwedFinite, NextDueLater
<1>2. moments = {NextDue(o, t) : o \in {q \in S : NextDue(q, t) <= Horizon}}
  <2> DEFINE Near == {q \in S : NextDue(q, t) <= Horizon}
  <2>1. heap = {[due |-> NextDue(o, t), id |-> o] : o \in Near}
    BY DEF NextDues
  <2> HIDE DEF Near
  <2>2. ASSUME NEW e \in heap PROVE e.due \in {NextDue(o, t) : o \in Near}
    BY <2>1
  <2>3. ASSUME NEW o \in Near PROVE NextDue(o, t) \in moments
    <3>1. [due |-> NextDue(o, t), id |-> o] \in heap
      BY <2>1
    <3>2. [due |-> NextDue(o, t), id |-> o].due = NextDue(o, t)
      OBVIOUS
    <3> QED
      BY <3>1, <3>2
  <2>4. moments = {NextDue(o, t) : o \in Near}
    BY <2>2, <2>3
  <2> QED
    BY <2>4 DEF Near
<1>3. moments # {}
  OBVIOUS
<1>4. \A d \in moments : d \in Int /\ t < d /\ d <= Horizon
  BY <1>1, <1>2
<1>5. \E d \in moments : \A e \in moments : d <= e
  <2> DEFINE Distance == {d - t : d \in moments}
  <2>1. Distance \in SUBSET Nat /\ Distance # {}
    BY <1>3, <1>4
  <2>2. PICK n \in Distance : \A m \in Distance : n <= m
    <3> HIDE DEF Distance
    <3> QED
      BY <2>1, LeastNumber
  <2>3. PICK d \in moments : n = d - t
    OBVIOUS
  <2>4. \A e \in moments : d - t <= e - t
    BY <2>2, <2>3
  <2>5. \A e \in moments : d <= e
    BY <1>4, <2>4
  <2> QED
    BY <2>5
<1>6. u \in moments /\ \A e \in moments : u <= e
  BY <1>5 DEF Min
<1>7. u \in Int /\ t < u /\ u <= Horizon
  BY <1>4, <1>6
<1>8. ASSUME NEW o \in S PROVE u <= NextDue(o, t)
  <2>1. CASE NextDue(o, t) <= Horizon
    BY <1>2, <1>6, <2>1
  <2>2. CASE ~(NextDue(o, t) <= Horizon)
    <3>1. Horizon \in Int /\ NextDue(o, t) \in Int
      BY <1>1, MetabolismAssumption
    <3> QED
      BY <1>7, <2>2, <3>1
  <2> QED
    BY <2>1, <2>2
<1>9. ASSUME NEW i
      PROVE  (\E e \in heap : e.due = u /\ e.id = i) <=> (i \in S /\ NextDue(i, t) = u)
  <2>1. heap = {[due |-> NextDue(o, t), id |-> o] : o \in {q \in S : NextDue(q, t) <= Horizon}}
    BY DEF NextDues
  <2>2. ASSUME i \in S, NextDue(i, t) = u PROVE \E e \in heap : e.due = u /\ e.id = i
    <3>1. [due |-> NextDue(i, t), id |-> i] \in heap
      BY <1>7, <2>1, <2>2
    <3> QED
      BY <2>2, <3>1
  <2> QED
    BY <2>1, <2>2
<1>10. \E o \in S : u = NextDue(o, t)
  BY <1>2, <1>6
<1> QED
  BY <1>7, <1>8, <1>9, <1>10 DEF S

LEMMA OnceMore ==
    ASSUME NEW a \in Int, NEW n \in Int
    PROVE  a * (n + 1) = a * n + a
  OBVIOUS

\* What is owed by the earliest of the next dues.
LEMMA DuesAdded ==
    ASSUME MetabolismTypeOK, NEW asset, NEW t \in Int, NEW u \in Int, t < u,
           \A o \in Owed(asset) : u <= NextDue(o, t),
           NEW group, group = {o \in Owed(asset) : NextDue(o, t) = u}
    PROVE  /\ OwedBy(asset, u) = OwedBy(asset, t) + AmountOf(group)
           /\ Counted(asset, u) = Counted(asset, t) + Cardinality(group)
           /\ \A o \in Owed(asset) :
                 NextDue(o, u) = IF o \in group THEN u + obligations[o].cadence ELSE NextDue(o, t)
<1> DEFINE S == Owed(asset)
           At(d) == [o \in S |-> obligations[o].amount * DuesBy(o, d)]
           Many(d) == [o \in S |-> DuesBy(o, d)]
           Price == [o \in group |-> obligations[o].amount]
           One == [o \in group |-> 1]
<1>1. IsFiniteSet(S) /\ S \subseteq DOMAIN obligations
  BY OwedFinite
<1>2. \A o \in S : u <= NextDue(o, t)
  OBVIOUS
<1>3. group \in SUBSET S /\ \A o \in S : o \in group <=> NextDue(o, t) = u
  OBVIOUS
<1>4. OwedBy(asset, u) = SumFunction(At(u)) /\ OwedBy(asset, t) = SumFunction(At(t))
  BY DEF OwedBy
<1>5. Counted(asset, u) = SumFunction(Many(u)) /\ Counted(asset, t) = SumFunction(Many(t))
  BY DEF Counted
<1>6. AmountOf(group) = SumFunction(Price)
  BY DEF AmountOf
<1> HIDE DEF S
<1>7. IsFiniteSet(group)
  BY <1>1, <1>3, FS_Subset
<1>8. \A o \in S : /\ obligations[o].amount \in Nat \ {0} /\ obligations[o].cadence \in Nat \ {0}
                   /\ obligations[o].due \in Int
  BY <1>1, ObligationTyped
<1>9. \A o \in S : DuesBy(o, t) \in Int /\ DuesBy(o, u) \in Int
  BY <1>1, DuesCounted
<1>10. \A o \in S : DuesBy(o, u) = IF o \in group THEN DuesBy(o, t) + 1 ELSE DuesBy(o, t)
  BY <1>1, <1>2, <1>3, DuesStep
<1>11. At(t) \in [S -> Int] /\ At(u) \in [S -> Int] /\ Many(t) \in [S -> Int] /\ Many(u) \in [S -> Int]
  BY <1>8, <1>9
<1>12. Price \in [group -> Int] /\ One \in [group -> Int]
  BY <1>3, <1>8
<1>13. /\ \A o \in group : At(u)[o] = At(t)[o] + Price[o]
       /\ \A o \in S \ group : At(u)[o] = At(t)[o]
  <2>1. ASSUME NEW o \in group PROVE At(u)[o] = At(t)[o] + Price[o]
    <3>1. o \in S /\ DuesBy(o, u) = DuesBy(o, t) + 1
      BY <1>3, <1>10
    <3>2. At(u)[o] = obligations[o].amount * DuesBy(o, u) /\ At(t)[o] = obligations[o].amount * DuesBy(o, t)
      BY <3>1
    <3>3. Price[o] = obligations[o].amount
      OBVIOUS
    <3>4. obligations[o].amount \in Int /\ DuesBy(o, t) \in Int
      BY <1>8, <1>9, <3>1
    <3>5. obligations[o].amount * (DuesBy(o, t) + 1) = obligations[o].amount * DuesBy(o, t) + obligations[o].amount
      BY <3>4, OnceMore
    <3> HIDE DEF At, Price
    <3> QED
      BY <3>1, <3>2, <3>3, <3>5
  <2>2. ASSUME NEW o \in S \ group PROVE At(u)[o] = At(t)[o]
    BY <1>10
  <2> QED
    BY <2>1, <2>2
<1>14. /\ \A o \in group : Many(u)[o] = Many(t)[o] + One[o]
       /\ \A o \in S \ group : Many(u)[o] = Many(t)[o]
  BY <1>3, <1>10
<1>15. SumFunction(One) = Cardinality(group)
  <2>1. 1 \in Int
    OBVIOUS
  <2>3. SumFunction([o \in group |-> 1]) = 1 * Cardinality(group)
    BY ONLY <1>7, <2>1, SumOfConstants
  <2>2. Cardinality(group) \in Nat
    BY <1>7, FS_CardinalityType
  <2> HIDE DEF One
  <2> QED
    BY <2>2, <2>3 DEF One
<1>16. ASSUME NEW o \in S
       PROVE  NextDue(o, u) = IF o \in group THEN u + obligations[o].cadence ELSE NextDue(o, t)
  <2>1. obligations[o].due \in Int /\ obligations[o].cadence \in Int /\ DuesBy(o, t) \in Int
    BY <1>8, <1>9
  <2>2. CASE o \in group
    <3>1. u = obligations[o].due + obligations[o].cadence * DuesBy(o, t)
      BY <1>3, <2>2 DEF NextDue
    <3>2. DuesBy(o, u) = DuesBy(o, t) + 1
      BY <1>10, <2>2
    <3>3. obligations[o].cadence * (DuesBy(o, t) + 1) = obligations[o].cadence * DuesBy(o, t) + obligations[o].cadence
      BY <2>1, OnceMore
    <3>4. obligations[o].cadence * DuesBy(o, t) \in Int
      BY <2>1
    <3>5. NextDue(o, u) = obligations[o].due + obligations[o].cadence * (DuesBy(o, t) + 1)
      BY <3>2 DEF NextDue
    <3> QED
      BY <2>1, <2>2, <3>1, <3>3, <3>4, <3>5
  <2>3. CASE o \notin group
    BY <1>10, <2>3 DEF NextDue
  <2> QED
    BY <2>2, <2>3
<1> HIDE DEF At, Many, Price, One
<1>17. ASSUME NEW f \in [S -> Int], NEW h \in [S -> Int], NEW a \in [group -> Int],
              \A o \in group : h[o] = f[o] + a[o],
              \A o \in S \ group : h[o] = f[o]
       PROVE  SumFunction(h) = SumFunction(f) + SumFunction(a)
  <2>1. IsFiniteSet(S) /\ group \in SUBSET S
    BY <1>1, <1>3
  <2> QED
    BY ONLY <2>1, <1>17, SumAdded
<1>18. SumFunction(At(u)) = SumFunction(At(t)) + SumFunction(Price)
  BY ONLY <1>11, <1>12, <1>13, <1>17
<1>19. SumFunction(Many(u)) = SumFunction(Many(t)) + SumFunction(One)
  BY ONLY <1>11, <1>12, <1>14, <1>17
<1> QED
  BY <1>4, <1>5, <1>6, <1>15, <1>16, <1>18, <1>19 DEF S

\* The heap after the earliest dues were paid holds each one's next.
LEMMA DuesPushed ==
    ASSUME NEW asset, NEW t \in Int, NEW u \in Int, NEW group \in SUBSET Owed(asset),
           \A o \in Owed(asset) : o \in group <=> NextDue(o, t) = u,
           \A o \in Owed(asset) :
              NextDue(o, u) = IF o \in group THEN u + obligations[o].cadence ELSE NextDue(o, t)
    PROVE  {e \in NextDues(asset, t) : e.due # u}
              \cup {e \in {[due |-> u + obligations[o].cadence, id |-> o] : o \in group} : e.due <= Horizon}
           = NextDues(asset, u)
<1> DEFINE S == Owed(asset)
           Later == {e \in NextDues(asset, t) : e.due # u}
           Pushed == {[due |-> u + obligations[o].cadence, id |-> o] : o \in group}
           New == {e \in Pushed : e.due <= Horizon}
<1>1. \A d : NextDues(asset, d) = {[due |-> NextDue(o, d), id |-> o] : o \in {q \in S : NextDue(q, d) <= Horizon}}
  BY DEF NextDues
<1>2. ASSUME NEW e \in Later PROVE e \in NextDues(asset, u)
  <2>1. PICK o \in S : e = [due |-> NextDue(o, t), id |-> o] /\ NextDue(o, t) <= Horizon
    BY <1>1
  <2>2. NextDue(o, t) # u
    BY <2>1
  <2>3. NextDue(o, u) = NextDue(o, t)
    BY <2>2
  <2> QED
    BY <1>1, <2>1, <2>3
<1>3. ASSUME NEW e \in New PROVE e \in NextDues(asset, u)
  <2>1. PICK o \in group : e = [due |-> u + obligations[o].cadence, id |-> o]
    OBVIOUS
  <2>2. NextDue(o, u) = u + obligations[o].cadence /\ o \in S
    OBVIOUS
  <2>3. NextDue(o, u) <= Horizon
    BY <2>1, <2>2
  <2> QED
    BY <1>1, <2>1, <2>2, <2>3
<1>4. ASSUME NEW e \in NextDues(asset, u) PROVE e \in Later \cup New
  <2>1. PICK o \in S : e = [due |-> NextDue(o, u), id |-> o] /\ NextDue(o, u) <= Horizon
    BY <1>1
  <2>2. CASE o \in group
    <3>1. e = [due |-> u + obligations[o].cadence, id |-> o] /\ e.due <= Horizon
      BY <2>1, <2>2
    <3> QED
      BY <2>2, <3>1
  <2>3. CASE o \notin group
    <3>1. NextDue(o, u) = NextDue(o, t) /\ NextDue(o, t) # u
      BY <2>3
    <3>2. e \in NextDues(asset, t)
      BY <1>1, <2>1, <3>1
    <3>3. e.due # u
      BY <2>1, <3>1
    <3> QED
      BY <3>2, <3>3
  <2> QED
    BY <2>2, <2>3
<1> HIDE DEF Later, New
<1>5. Later \cup New = NextDues(asset, u)
  BY <1>2, <1>3, <1>4
<1> QED
  BY <1>5 DEF Later, New

LEMMA CountedTyped ==
    ASSUME MetabolismTypeOK, NEW asset, NEW t \in Int, NEW u \in Int, t <= u
    PROVE  Counted(asset, t) \in Int /\ Counted(asset, u) \in Int /\ Counted(asset, t) <= Counted(asset, u)
<1> DEFINE S == Owed(asset)
           Many(d) == [o \in S |-> DuesBy(o, d)]
<1>1. IsFiniteSet(S) /\ S \subseteq DOMAIN obligations
  BY OwedFinite
<1>2. Counted(asset, u) = SumFunction(Many(u)) /\ Counted(asset, t) = SumFunction(Many(t))
  BY DEF Counted
<1> HIDE DEF S
<1>3. \A o \in S : DuesBy(o, t) \in Int /\ DuesBy(o, u) \in Int /\ DuesBy(o, t) <= DuesBy(o, u)
  BY <1>1, DuesCounted, DuesMonotone
<1>4. Many(t) \in [S -> Int] /\ Many(u) \in [S -> Int] /\ \A o \in S : Many(t)[o] <= Many(u)[o]
  BY <1>3
<1> HIDE DEF Many
<1>5. SumFunction(Many(t)) \in Int /\ SumFunction(Many(u)) \in Int
  BY <1>1, <1>4, SumTyped
<1>6. SumFunction(Many(t)) <= SumFunction(Many(u))
  BY <1>1, <1>4, SumMonotone
<1> QED
  BY <1>2, <1>5, <1>6

\* An essential due between the two moments is one of the second.
LEMMA EssentialMoment ==
    ASSUME MetabolismTypeOK, NEW asset, NEW t \in Int, NEW u \in Int, NEW d \in Int,
           \A o \in Owed(asset) : u <= NextDue(o, t),
           t < d, d <= u, EssentialDue(asset, d)
    PROVE  d = u /\ \E o \in Owed(asset) : NextDue(o, t) = u /\ obligations[o].essential
<1>1. PICK o \in Owed(asset) : /\ obligations[o].essential /\ obligations[o].due <= d
                               /\ (d - obligations[o].due) % obligations[o].cadence = 0
  BY DEF EssentialDue
<1>2. o \in DOMAIN obligations
  BY OwedFinite
<1>3. NextDue(o, t) <= d
  BY <1>1, <1>2, DueMoment
<1>4. u <= NextDue(o, t) /\ NextDue(o, t) \in Int
  BY <1>2, NextDueLater
<1> QED
  BY <1>1, <1>3, <1>4

\* A turn pays the earliest dues: it has then paid all until their moment, or
\* it stops counting.
LEMMA TurnSees ==
    ASSUME MetabolismTypeOK, NEW asset, NEW p, NEW t, PaidUntil(asset, p, t), p.heap # {}
    PROVE  LET q == ProjectGroup(asset, p)
           IN Sees(asset, q) /\ p.events \in Int /\ (q.heap # {} => q.events >= p.events + 1)
<1> DEFINE S == Owed(asset)
           q == ProjectGroup(asset, p)
           u == Min({e.due : e \in p.heap})
           group == {e.id : e \in {f \in p.heap : f.due = u}}
           total == p.cumulative + AmountOf(group)
           count == p.events + Cardinality(group)
           short == total > balance[asset]
           left == {e \in p.heap : e.due # u}
                      \cup {e \in {[due |-> u + obligations[o].cadence, id |-> o] : o \in group} : e.due <= Horizon}
<1>1. /\ q.cumulative = total /\ q.events = count /\ q.complete = (count < MaxEvents)
      /\ q.essential = IF short /\ p.essential = Never /\ \E o \in group : obligations[o].essential
                       THEN u ELSE p.essential
      /\ q.heap = IF count >= MaxEvents THEN {} ELSE left
  BY DEF ProjectGroup
<1>2. /\ t \in Int /\ t <= Horizon /\ p.heap = NextDues(asset, t)
      /\ p.cumulative = OwedBy(asset, t) /\ p.events = Counted(asset, t) /\ p.events < MaxEvents
      /\ (p.essential # Never => p.essential \in Int /\ p.essential <= t)
      /\ \A d \in Int : d <= t /\ EssentialDue(asset, d) /\ OwedBy(asset, d) > balance[asset] =>
                           p.essential # Never /\ p.essential <= d
  BY DEF PaidUntil
<1>3. /\ u \in Int /\ t < u /\ u <= Horizon
      /\ \A o \in S : u <= NextDue(o, t)
      /\ \E o \in S : u = NextDue(o, t)
      /\ group = {o \in S : NextDue(o, t) = u}
  <2>1. t \in Int /\ p.heap = NextDues(asset, t) /\ p.heap # {}
    BY <1>2
  <2> DEFINE moments == {e.due : e \in p.heap}
  <2>2. \A d : d \in moments <=> \E e \in p.heap : d = e.due
    OBVIOUS
  <2>3. u = Min(moments)
    OBVIOUS
  <2> HIDE DEF moments, u
  <2>4. /\ u \in Int /\ t < u /\ u <= Horizon
        /\ \A o \in Owed(asset) : u <= NextDue(o, t)
        /\ \E o \in Owed(asset) : u = NextDue(o, t)
        /\ \A i : (\E e \in p.heap : e.due = u /\ e.id = i) <=> (i \in Owed(asset) /\ NextDue(i, t) = u)
    BY <2>1, <2>2, <2>3, EarliestDue
  <2>5. \A i : i \in group <=> \E e \in p.heap : e.due = u /\ e.id = i
    OBVIOUS
  <2>6. \A i : i \in group <=> i \in S /\ NextDue(i, t) = u
    BY <2>4, <2>5
  <2> HIDE DEF group
  <2>7. group = {o \in S : NextDue(o, t) = u}
    BY <2>6
  <2> QED
    BY <2>4, <2>7
<1>4. left = {e \in p.heap : e.due # u}
                \cup {e \in {[due |-> u + obligations[o].cadence, id |-> o] : o \in group} : e.due <= Horizon}
  OBVIOUS
<1> HIDE DEF u, group, left, q
<1>5. /\ OwedBy(asset, u) = total /\ Counted(asset, u) = count
      /\ \A o \in S : NextDue(o, u) = IF o \in group THEN u + obligations[o].cadence ELSE NextDue(o, t)
  BY <1>2, <1>3, DuesAdded
<1>6. group \in SUBSET S /\ group # {} /\ \A o \in S : o \in group <=> NextDue(o, t) = u
  BY <1>3
<1>7. left = NextDues(asset, u)
  <2>1. /\ group \in SUBSET Owed(asset)
        /\ \A o \in Owed(asset) : o \in group <=> NextDue(o, t) = u
        /\ \A o \in Owed(asset) :
              NextDue(o, u) = IF o \in group THEN u + obligations[o].cadence ELSE NextDue(o, t)
    BY <1>5, <1>6
  <2>2. {e \in NextDues(asset, t) : e.due # u}
           \cup {e \in {[due |-> u + obligations[o].cadence, id |-> o] : o \in group} : e.due <= Horizon}
        = NextDues(asset, u)
    BY <1>2, <1>3, <2>1, DuesPushed
  <2> QED
    BY <1>2, <1>4, <2>2
<1>8. Cardinality(group) \in Nat /\ Cardinality(group) >= 1
  <2>1. IsFiniteSet(group)
    BY <1>6, OwedFinite, FS_Subset
  <2>2. Cardinality(group) \in Nat /\ (Cardinality(group) = 0 <=> group = {})
    BY <2>1, FS_CardinalityType, FS_EmptySet
  <2> QED
    BY <1>6, <2>2
<1>9. Horizon \in Int /\ MaxEvents \in Int
  BY MetabolismAssumption
<1>10. /\ Counted(asset, t) \in Int /\ Counted(asset, u) \in Int /\ Counted(asset, Horizon) \in Int
       /\ Counted(asset, u) <= Counted(asset, Horizon)
  BY <1>2, <1>3, <1>9, CountedTyped
<1>11. p.events \in Int /\ (q.heap # {} => q.events >= p.events + 1)
  BY <1>1, <1>2, <1>8, <1>10
<1>12. CASE count >= MaxEvents
  <2>1. ~(count < MaxEvents)
    BY <1>5, <1>9, <1>10, <1>12
  <2>3. q.heap = {} /\ ~q.complete
    <3> HIDE DEF count
    <3> QED
      BY <1>1, <1>12, <2>1
  <2>2. ~Countable(asset)
    BY <1>5, <1>9, <1>10, <1>12 DEF Countable, Counted
  <2> QED
    BY <1>11, <2>2, <2>3 DEF Sees, GaveUp, q
<1>13. CASE ~(count >= MaxEvents)
  <2>1. q.heap = NextDues(asset, u) /\ q.cumulative = OwedBy(asset, u) /\ q.events = Counted(asset, u)
    BY <1>1, <1>5, <1>7, <1>13
  <2>2. q.events < MaxEvents
    BY <1>1, <1>5, <1>9, <1>10, <1>13
  <2>3. Never \notin Int
    BY MetabolismAssumption
  <2>4. q.essential # Never => q.essential \in Int /\ q.essential <= u
    BY <1>1, <1>2, <1>3
  <2>5. ASSUME NEW d \in Int, d <= u, EssentialDue(asset, d), OwedBy(asset, d) > balance[asset]
        PROVE  q.essential # Never /\ q.essential <= d
    <3>1. CASE d <= t
      <4>1. p.essential # Never /\ p.essential <= d
        BY <1>2, <2>5, <3>1
      <4> QED
        BY <1>1, <4>1
    <3>2. CASE ~(d <= t)
      <4>1. t < d
        BY <1>2, <3>2
      <4>2. d = u /\ \E o \in S : NextDue(o, t) = u /\ obligations[o].essential
        BY <1>2, <1>3, <2>5, <4>1, EssentialMoment
      <4>3. \E o \in group : obligations[o].essential
        BY <1>6, <4>2
      <4>4. short
        BY <1>5, <2>5, <4>2
      <4>5. q.essential = IF p.essential = Never THEN u ELSE p.essential
        BY <1>1, <4>3, <4>4
      <4> QED
        BY <1>2, <1>3, <2>3, <4>2, <4>5
    <3> QED
      BY <3>1, <3>2
  <2>6. PaidUntil(asset, q, u)
    BY <1>3, <2>1, <2>2, <2>4, <2>5 DEF PaidUntil
  <2> QED
    BY <1>11, <2>6 DEF Sees, q
<1> QED
  BY <1>12, <1>13

\* So the projection, when it ends, has seen all of them or stopped counting.
LEMMA ProjectionSees ==
    ASSUME MetabolismTypeOK, NEW asset
    PROVE  LET p == CashflowProjection(asset) IN Sees(asset, p) /\ p.heap = {}
<1>1. MaxEvents \in Nat \ {0}
  BY MetabolismAssumption
<1>2. PICK g : /\ g[0] = Start(asset)
               /\ \A n \in 1..MaxEvents : g[n] = Turned(asset, g[n - 1])
               /\ CashflowProjection(asset) = g[MaxEvents]
  BY RunValues
<1> DEFINE Turning(n) == /\ Sees(asset, g[n])
                         /\ g[n].heap # {} => g[n].events \in Int /\ g[n].events >= n
           Reached == {n \in Nat : n <= MaxEvents => Turning(n)}
<1>3. \A n : Sees(asset, g[n]) /\ g[n].heap # {} =>
         \E t : PaidUntil(asset, g[n], t)
  BY DEF Sees, GaveUp
<1>4. Turning(0)
  <2>1. Sees(asset, g[0])
    BY <1>2, StartSees
  <2>2. g[0].events = 0
    BY <1>2 DEF Start
  <2> QED
    BY <2>1, <2>2
<1>5. ASSUME NEW n \in Nat, n + 1 <= MaxEvents, Turning(n) PROVE Turning(n + 1)
  <2>1. n + 1 \in 1..MaxEvents /\ (n + 1) - 1 = n
    BY <1>1, <1>5
  <2>2. g[n + 1] = Turned(asset, g[n])
    BY <1>2, <2>1
  <2>3. CASE g[n].heap = {}
    <3>1. g[n + 1] = g[n]
      BY <2>2, <2>3 DEF Turned
    <3> QED
      BY <1>5, <2>3, <3>1
  <2>4. CASE g[n].heap # {}
    <3>1. PICK t : PaidUntil(asset, g[n], t)
      BY <1>3, <1>5, <2>4
    <3>2. g[n + 1] = ProjectGroup(asset, g[n])
      BY <2>2, <2>4 DEF Turned
    <3>3. /\ Sees(asset, g[n + 1]) /\ g[n].events \in Int
          /\ g[n + 1].heap # {} => g[n + 1].events >= g[n].events + 1
      BY <2>4, <3>1, <3>2, TurnSees
    <3>4. g[n + 1].heap # {} => g[n + 1].events \in Int
      <4>1. ASSUME g[n + 1].heap # {} PROVE g[n + 1].events \in Int
        <5>1. PICK u : PaidUntil(asset, g[n + 1], u)
          BY <1>3, <3>3, <4>1
        <5>2. u \in Int /\ g[n + 1].events = Counted(asset, u)
          BY <5>1 DEF PaidUntil
        <5> QED
          BY <5>2, CountedTyped
      <4> QED
        BY <4>1
    <3>5. g[n].events >= n
      BY <1>5, <2>4
    <3> QED
      BY <3>3, <3>4, <3>5
  <2> QED
    BY <2>3, <2>4
<1>6. Reached = Nat
  <2>1. Reached \in SUBSET Nat /\ 0 \in Reached
    BY <1>4
  <2>2. ASSUME NEW n \in Reached PROVE n + 1 \in Reached
    <3>1. n \in Nat /\ n + 1 \in Nat /\ (n <= MaxEvents => Turning(n))
      OBVIOUS
    <3>2. ASSUME n + 1 <= MaxEvents PROVE Turning(n + 1)
      <4>1. n <= MaxEvents
        BY <1>1, <3>1, <3>2
      <4> QED
        BY <1>5, <3>1, <3>2, <4>1
    <3> HIDE DEF Turning
    <3> QED
      BY <3>1, <3>2
  <2> HIDE DEF Reached
  <2> QED
    BY <2>1, <2>2, NumbersReached
<1>7. Turning(MaxEvents)
  <2>1. MaxEvents \in Reached
    BY <1>1, <1>6
  <2> HIDE DEF Turning
  <2> QED
    BY <1>1, <2>1
<1>8. g[MaxEvents].heap = {}
  <2> SUFFICES ASSUME g[MaxEvents].heap # {} PROVE FALSE
    OBVIOUS
  <2>1. PICK t : PaidUntil(asset, g[MaxEvents], t)
    BY <1>3, <1>7
  <2>2. g[MaxEvents].events < MaxEvents
    BY <2>1 DEF PaidUntil
  <2> QED
    BY <1>1, <1>7, <2>2
<1> QED
  BY <1>2, <1>7, <1>8

\* What is owed on an essential obligation within a week is foreseen.
LEMMA ForeseenHolds ==
    ASSUME MetabolismTypeOK
    PROVE  Foreseen
<1> SUFFICES ASSUME NEW asset \in Assets, ShortBy(asset, 7)
             PROVE  \/ Uncovered # {}
                    \/ ~Countable(asset) /\ \E a \in Assets : ~CashflowProjection(a).complete
  BY DEF Foreseen
<1> DEFINE p == CashflowProjection(asset)
<1>0. PICK o \in Owed(asset) : \E due \in obligations[o].due..7 :
         /\ obligations[o].essential
         /\ (due - obligations[o].due) % obligations[o].cadence = 0
         /\ OwedBy(asset, due) > balance[asset]
  BY DEF ShortBy
<1>1. PICK d \in obligations[o].due..7 :
         /\ obligations[o].essential
         /\ (d - obligations[o].due) % obligations[o].cadence = 0
         /\ OwedBy(asset, d) > balance[asset]
  BY <1>0
<1>2. o \in DOMAIN obligations /\ obligations[o].due \in Int
  BY OwedFinite, ObligationTyped
<1>3. d \in Int /\ d <= 7 /\ obligations[o].due <= d
  BY <1>2
<1>4. EssentialDue(asset, d)
  BY <1>1, <1>3 DEF EssentialDue
<1>5. Sees(asset, p) /\ p.heap = {}
  BY ProjectionSees
<1> HIDE DEF p
<1>6. CASE GaveUp(asset, p)
  BY <1>6 DEF GaveUp, p
<1>7. CASE \E t : PaidUntil(asset, p, t)
  <2>1. PICK t : PaidUntil(asset, p, t)
    BY <1>7
  <2>2. /\ t \in Int /\ p.heap = NextDues(asset, t)
        /\ (p.essential # Never => p.essential \in Int)
        /\ (d <= t => p.essential # Never /\ p.essential <= d)
    BY <1>1, <1>3, <1>4, <2>1 DEF PaidUntil
  <2>3. d <= t
    <3> SUFFICES ASSUME ~(d <= t) PROVE FALSE
      OBVIOUS
    <3>1. t < d
      BY <1>3, <2>2
    <3>2. NextDue(o, t) <= d
      BY <1>1, <1>2, <1>3, <2>2, <3>1, DueMoment
    <3>3. NextDue(o, t) \in Int /\ Horizon \in Int /\ Horizon >= 7
      BY <1>2, <2>2, NextDueLater, MetabolismAssumption, MindAssumption
    <3>4. NextDue(o, t) <= Horizon
      BY <1>3, <3>2, <3>3
    <3>5. [due |-> NextDue(o, t), id |-> o] \in NextDues(asset, t)
      BY <3>4 DEF NextDues
    <3> QED
      BY <1>5, <2>2, <3>5
  <2>4. p.essential # Never /\ p.essential \in Int /\ p.essential <= 7
    BY <1>3, <2>2, <2>3
  <2> QED
    BY <2>4 DEF Uncovered, p
<1> QED
  BY <1>5, <1>6, <1>7 DEF Sees

-----------------------------------------------------------------------------
(* A shortfall that is foreseen is an urgent need.                         *)

LEMMA WhenDomain ==
    ASSUME NEW c, NEW name, NEW v
    PROVE  /\ DOMAIN When(c, name, v) \subseteq {name}
           /\ c => name \in DOMAIN When(c, name, v) /\ When(c, name, v)[name] = v
  BY DEF When

\* A layer hides what is above it, and only that.
LEMMA LayerBelow ==
    ASSUME NEW f, NEW g, NEW n, n \in DOMAIN f
    PROVE  n \in DOMAIN (f \uplus g) /\ (f \uplus g)[n] = f[n]
  BY DEF \uplus

LEMMA LayerAbove ==
    ASSUME NEW f, NEW g, NEW n, n \notin DOMAIN f, n \in DOMAIN g
    PROVE  n \in DOMAIN (f \uplus g) /\ (f \uplus g)[n] = g[n]
  BY DEF \uplus

LEMMA LayerNeither ==
    ASSUME NEW f, NEW g, NEW n, n \notin DOMAIN f, n \notin DOMAIN g
    PROVE  n \notin DOMAIN (f \uplus g)
  BY DEF \uplus

Runways == {"resource_runway", "uncovered_essential_obligation"}

\* Nothing below homeostasis speaks of the runway.
LEMMA DerivedSilent ==
    ASSUME NEW s, NEW n \in Runways
    PROVE  n \notin DOMAIN DerivedNeeds(s)
<1>1. ASSUME NEW c, NEW v, NEW name, name \notin Runways
      PROVE  n \notin DOMAIN When(c, name, v)
  BY <1>1, WhenDomain
<1> DEFINE active   == ActiveGoals(goals, ContextLimit)
           failures == {ConsecutiveFailures(c) : c \in {d \in Capabilities : Degraded(d)}}
           poor     == s.budget <= 25 /\ \A a \in Assets : balance[a] <= 0
           w1  == When(~s.chronicle, "continuity_integrity", 100)
           w2  == When(~s.checkpoint, "durable_checkpoint", 85)
           w3  == When(s.budget = 0, "compute_survival", 100)
           w4  == When(s.budget \in 1..25, "compute_conservation", IF s.budget <= 10 THEN 90 ELSE 70)
           w5  == When(poor, "resource_acquisition", IF s.budget > 10 THEN 62 ELSE 78)
           w6  == When(Promising # {}, "opportunity_review", 52)
           w7  == When(s.budget <= 50 /\ ActiveOpportunities(ContextLimit) = {}, "opportunity_discovery", 40)
           w8  == When(RecentErrors > 0, "runtime_reliability", Lesser(95, 55 + 10 * RecentErrors))
           w9  == When(failures # {}, "capability_repair", Lesser(95, 65 + 5 * Max(failures \cup {0})))
           w10 == When(active = {}, "goal_formation", 60)
           w11 == When(active # {} /\ \A g \in active : goals[g].status = "blocked", "goal_unblocking", 65)
<1>2. DerivedNeeds(s) = w1 \uplus w2 \uplus w3 \uplus w4 \uplus w5 \uplus w6 \uplus w7 \uplus w8
                           \uplus w9 \uplus w10 \uplus w11
  BY DEF DerivedNeeds
<1>3. /\ "continuity_integrity" \notin Runways /\ "durable_checkpoint" \notin Runways
      /\ "compute_survival" \notin Runways /\ "compute_conservation" \notin Runways
      /\ "resource_acquisition" \notin Runways /\ "opportunity_review" \notin Runways
      /\ "opportunity_discovery" \notin Runways /\ "runtime_reliability" \notin Runways
      /\ "capability_repair" \notin Runways /\ "goal_formation" \notin Runways
      /\ "goal_unblocking" \notin Runways
  BY DEF Runways
<1>4. n \notin DOMAIN w1 /\ n \notin DOMAIN w2 /\ n \notin DOMAIN w3 /\ n \notin DOMAIN w4
  BY <1>1, <1>3, Zenon
<1>5. n \notin DOMAIN w5 /\ n \notin DOMAIN w6 /\ n \notin DOMAIN w7
  BY <1>1, <1>3, Zenon
<1>6. n \notin DOMAIN w8 /\ n \notin DOMAIN w9
  BY <1>1, <1>3, Zenon
<1>7. n \notin DOMAIN w10 /\ n \notin DOMAIN w11
  BY <1>1, <1>3, Zenon
<1> HIDE DEF w1, w2, w3, w4, w5, w6, w7, w8, w9, w10, w11
<1> QED
  BY <1>2, <1>4, <1>5, <1>6, <1>7, LayerNeither

\* What homeostasis says of the runway is what the organism needs.
LEMMA PressureIsNeed ==
    ASSUME NEW s, NEW n \in Runways, n \in DOMAIN ResourcePressure
    PROVE  n \in DOMAIN Needs(s) /\ Needs(s)[n] = ResourcePressure[n]
<1> DEFINE drift == When(s.drift, "identity_drift", 100)
           w1 == When(s.storage <= 5, "storage_survival", 98)
           w2 == When(s.storage \in 6..15, "storage_conservation", 72)
           w3 == When(s.incomplete > 0, "state_reconciliation", Lesser(100, 88 + 2 * s.incomplete))
           w4 == When(/\ Cardinality(Observations) >= SensorMinimum
                      /\ 2 * Cardinality(Failed) >= Cardinality(Observations),
                      "sensorium_degradation",
                      Lesser(90, 55 + (40 * Cardinality(Failed)) \div Greater(1, Cardinality(Observations))))
           w5 == When(Contradictions # {}, "epistemic_conflict", Lesser(78, 45 + 5 * Cardinality(Contradictions)))
<1>1. n \notin DOMAIN drift
  BY WhenDomain DEF Runways
<1>2. Signals(s) = ResourcePressure \uplus w1 \uplus w2 \uplus w3 \uplus w4 \uplus w5
  BY DEF Signals
<1>3. Needs(s) = drift \uplus DerivedNeeds(s) \uplus Signals(s) \uplus EcologyNeeds \uplus BodyReadiness(s)
  BY DEF Needs
<1> HIDE DEF drift, w1, w2, w3, w4, w5
<1>4. n \in DOMAIN Signals(s) /\ Signals(s)[n] = ResourcePressure[n]
  BY <1>2, LayerBelow
<1>5. n \notin DOMAIN (drift \uplus DerivedNeeds(s))
  BY <1>1, DerivedSilent, LayerNeither
<1> DEFINE upper == drift \uplus DerivedNeeds(s) \uplus Signals(s)
<1>6. n \in DOMAIN upper /\ upper[n] = Signals(s)[n]
  BY <1>4, <1>5, LayerAbove
<1>7. Needs(s) = upper \uplus EcologyNeeds \uplus BodyReadiness(s)
  BY <1>3
<1> HIDE DEF upper
<1>8. n \in DOMAIN (upper \uplus EcologyNeeds) /\ (upper \uplus EcologyNeeds)[n] = upper[n]
  BY <1>6, LayerBelow
<1> QED
  BY <1>4, <1>6, <1>7, <1>8, LayerBelow

LEMMA UncoveredIsUrgent ==
    ASSUME Uncovered # {}
    PROVE  /\ "uncovered_essential_obligation" \in DOMAIN ResourcePressure
           /\ ResourcePressure["uncovered_essential_obligation"] >= 90
<1> DEFINE runway  == IF Bottleneck = NoAsset THEN 0 ELSE RunwaySeverity(Bottleneck)
           unknown == IF \A a \in Assets : CashflowProjection(a).complete THEN 0 ELSE 90
           short   == IF Min(Uncovered) <= 1 THEN 99 ELSE 92
           w1 == When(runway > 0 \/ unknown > 0, "resource_runway", Greater(runway, unknown))
           w2 == When(Uncovered # {}, "uncovered_essential_obligation", short)
<1>1. ResourcePressure = w1 \uplus w2
  BY DEF ResourcePressure
<1>2. "uncovered_essential_obligation" \notin DOMAIN w1
  BY WhenDomain
<1>3. short >= 90
  OBVIOUS
<1> HIDE DEF short
<1>4. "uncovered_essential_obligation" \in DOMAIN w2 /\ w2["uncovered_essential_obligation"] = short
  BY DEF When
<1> HIDE DEF w1, w2
<1> QED
  BY <1>1, <1>2, <1>3, <1>4, LayerAbove

LEMMA UnknownIsUrgent ==
    ASSUME NEW a \in Assets, ~CashflowProjection(a).complete
    PROVE  /\ "resource_runway" \in DOMAIN ResourcePressure
           /\ ResourcePressure["resource_runway"] >= 90
<1> DEFINE runway  == IF Bottleneck = NoAsset THEN 0 ELSE RunwaySeverity(Bottleneck)
           unknown == IF \A b \in Assets : CashflowProjection(b).complete THEN 0 ELSE 90
           short   == IF Min(Uncovered) <= 1 THEN 99 ELSE 92
           w1 == When(runway > 0 \/ unknown > 0, "resource_runway", Greater(runway, unknown))
           w2 == When(Uncovered # {}, "uncovered_essential_obligation", short)
<1>1. ResourcePressure = w1 \uplus w2
  BY DEF ResourcePressure
<1>2. unknown = 90 /\ runway \in Nat
  BY DEF RunwaySeverity
<1> HIDE DEF runway, unknown
<1>3. "resource_runway" \in DOMAIN w1 /\ w1["resource_runway"] = Greater(runway, unknown)
  <2>1. runway > 0 \/ unknown > 0
    BY <1>2
  <2> QED
    BY <2>1 DEF When
<1>4. Greater(runway, unknown) >= 90
  BY <1>2 DEF Greater
<1> HIDE DEF w1, w2
<1> QED
  BY <1>1, <1>3, <1>4, LayerBelow

LEMMA ForeseenHeeded ==
    ASSUME MindInv, Settle, Foreseen, NEW asset \in Assets, ShortBy(asset, 7)
    PROVE  /\ Urgent(agency'.focus)
           /\ wake' <= IF Countable(asset) THEN 1800 ELSE 3600
<1>1. /\ WakeCap["uncovered_essential_obligation"] = 1800
      /\ WakeCap["resource_runway"] = 3600
  BY DEF WakeCap, NeedNames, HardStop
<1>2. wake' \in Nat
  BY SettledWake
<1>3. \/ Uncovered # {}
      \/ ~Countable(asset) /\ \E a \in Assets : ~CashflowProjection(a).complete
  BY DEF Foreseen
<1>4. ASSUME NEW n \in Runways, n \in DOMAIN ResourcePressure, ResourcePressure[n] >= 90
      PROVE  Urgent(agency'.focus) /\ wake' <= WakeCap[n]
  <2>1. n \in DOMAIN Needs(situation) \ {"goal_formation"} /\ Needs(situation)[n] >= 90
    BY <1>4, PressureIsNeed DEF Runways
  <2> QED
    BY <2>1, SettleHeeds DEF Heeded
<1>5. CASE Uncovered # {}
  <2>1. Urgent(agency'.focus) /\ wake' <= 1800
    BY <1>1, <1>4, <1>5, UncoveredIsUrgent DEF Runways
  <2> QED
    BY <1>2, <2>1
<1>6. CASE ~Countable(asset) /\ \E a \in Assets : ~CashflowProjection(a).complete
  <2>1. Urgent(agency'.focus) /\ wake' <= 3600
    BY <1>1, <1>4, <1>6, UnknownIsUrgent DEF Runways
  <2> QED
    BY <1>2, <1>6, <2>1
<1> QED
  BY <1>3, <1>5, <1>6

\* An organism that will owe within a week, on an essential obligation, what
\* it does not hold ends its cycle with an urgent need for its focus and wakes
\* within that need's cap: the cycle, through the projection of all its dues.
THEOREM AlarmHeededHolds == Spec => AlarmHeeded
<1> DEFINE Alarm == \A asset \in Assets : ShortBy(asset, 7) =>
                       /\ Urgent(agency'.focus)
                       /\ wake' <= IF Countable(asset) THEN 1800 ELSE 3600
<1>1. MindInv /\ [Next]_vars => [phase' = "settled" /\ phase # "settled" => Alarm]_vars
  <2> SUFFICES ASSUME MindInv, [Next]_vars, phase' = "settled", phase # "settled"
               PROVE  Alarm
    OBVIOUS
  <2>1. MetabolismTypeOK
    BY DEF MindInv, TypeOK
  <2>2. Foreseen
    BY <2>1, ForeseenHolds
  <2>3. Settle
    BY OnlySettleSettles
  <2> QED
    BY <2>2, <2>3, ForeseenHeeded
<1> QED
  BY <1>1, MindInvariant, PTL DEF Spec, AlarmHeeded
=============================================================================
