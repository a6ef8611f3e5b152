----------------------------- MODULE Metabolism -----------------------------
(***************************************************************************)
(* Verified obligations and the runway they leave (elia/metabolism.py):    *)
(* the store of recurring obligations, the projection of all their dues    *)
(* over a horizon, and the bottleneck the organism must mind first.        *)
(* Times are days from now: a due date comes nearer as time passes.        *)
(***************************************************************************)
EXTENDS Economy

CONSTANTS Terms,        \* what an obligation may say
          Horizon,      \* projection_horizon_days
          MaxEvents,    \* MAX_CASHFLOW_PROJECTION_EVENTS
          Never         \* no due date

ASSUME MetabolismAssumption ==
    /\ Horizon \in Nat /\ MaxEvents \in Nat \ {0} /\ Never \notin Int
    /\ Terms \subseteq [asset : Assets, amount : Nat \ {0}, cadence : Nat \ {0},
                        due : Int, essential : BOOLEAN, verified : BOOLEAN]

VARIABLE obligations    \* sequence of rows: terms and whether active; the id is the index

ObligationRows ==
    [asset : Assets, amount : Nat \ {0}, cadence : Nat \ {0}, due : Int,
     essential : BOOLEAN, verified : BOOLEAN, active : BOOLEAN]

MetabolismTypeOK == obligations \in Seq(ObligationRows)

-----------------------------------------------------------------------------
(* The store: what trusted adapters may do to it.                          *)

RecordObligation(t) ==
    obligations' = Append(obligations,
        [asset |-> t.asset, amount |-> t.amount, cadence |-> t.cadence, due |-> t.due,
         essential |-> t.essential, verified |-> t.verified, active |-> TRUE])

\* Only an active row can be deactivated.
Deactivate(o) ==
    /\ o \in DOMAIN obligations /\ obligations[o].active
    /\ obligations' = [obligations EXCEPT ![o].active = FALSE]

\* The due date moves by whole periods, whether the row is active or not.
AdvanceDue(o, periods) ==
    /\ o \in DOMAIN obligations
    /\ obligations' = [obligations EXCEPT ![o].due = @ + periods * obligations[o].cadence]

\* Time passes; every due date comes nearer.
DaysPass(days) ==
    obligations' = [o \in DOMAIN obligations |-> [obligations[o] EXCEPT !.due = @ - days]]

-----------------------------------------------------------------------------
(* The projection.                                                         *)

Active(verified) ==
    {o \in DOMAIN obligations : obligations[o].active /\ obligations[o].verified = verified}

Owed(asset) == {o \in Active(TRUE) : obligations[o].asset = asset}

AmountOf(ids) == SumFunction([o \in ids |-> obligations[o].amount])

\* Mutant: an obligation falls due once.
ProjectGroup_Once(asset, p) ==
    LET due    == Min({e.due : e \in p.heap})
        group  == {e.id : e \in {f \in p.heap : f.due = due}}
        total  == p.cumulative + AmountOf(group)
        short  == total > balance[asset]
        events == p.events + Cardinality(group)
    IN [cumulative |-> total, events |-> events, complete |-> events < MaxEvents,
        uncovered  |-> IF short /\ p.uncovered = Never THEN due ELSE p.uncovered,
        essential  |-> IF short /\ p.essential = Never /\ \E o \in group : obligations[o].essential
                       THEN due ELSE p.essential,
        heap       |-> IF events >= MaxEvents THEN {} ELSE {e \in p.heap : e.due # due}]

\* One turn of the loop: all dues of the earliest moment are paid together,
\* and each pushes its next one.
ProjectGroup(asset, p) ==
    LET due    == Min({e.due : e \in p.heap})
        group  == {e.id : e \in {f \in p.heap : f.due = due}}
        total  == p.cumulative + AmountOf(group)
        short  == total > balance[asset]
        events == p.events + Cardinality(group)
        next   == {[due |-> due + obligations[o].cadence, id |-> o] : o \in group}
    IN [cumulative |-> total, events |-> events, complete |-> events < MaxEvents,
        uncovered  |-> IF short /\ p.uncovered = Never THEN due ELSE p.uncovered,
        essential  |-> IF short /\ p.essential = Never /\ \E o \in group : obligations[o].essential
                       THEN due ELSE p.essential,
        heap       |-> IF events >= MaxEvents THEN {}
                       ELSE {e \in p.heap : e.due # due} \cup {e \in next : e.due <= Horizon}]

CashflowProjection(asset) ==
    LET start == [cumulative |-> 0, events |-> 0, complete |-> TRUE,
                  uncovered |-> Never, essential |-> Never,
                  heap |-> {[due |-> obligations[o].due, id |-> o] :
                               o \in {q \in Owed(asset) : obligations[q].due <= Horizon}}]
        run[n \in 0..MaxEvents] ==
            IF n = 0 THEN start
            ELSE LET before == run[n - 1]
                 IN IF before.heap = {} THEN before ELSE ProjectGroup(asset, before)
    IN run[MaxEvents]

Upcoming == {o \in Active(TRUE) : obligations[o].due <= Horizon}

\* First occurrences alone, up to and including this one's moment.
CumulativeCovered(o) ==
    balance[obligations[o].asset] >=
        AmountOf({q \in Owed(obligations[o].asset) : obligations[q].due <= obligations[o].due})

-----------------------------------------------------------------------------
(* Runway: balance over daily burn, compared without division.             *)

Common == MapThenFoldSet(LAMBDA x, y : x * y, 1, LAMBDA o : obligations[o].cadence,
                         LAMBDA S : CHOOSE o \in S : TRUE, Active(TRUE))

\* Burn over Common days.
Burn(asset) ==
    SumFunction([o \in Owed(asset) |-> obligations[o].amount * (Common \div obligations[o].cadence)])

Holding(asset) == IF balance[asset] > 0 THEN balance[asset] ELSE 0

\* runway_days < days, and runway_days <= days.
RunwayBelow(asset, days)   == Holding(asset) * Common < days * Burn(asset)
RunwayWithin(asset, days)  == Holding(asset) * Common <= days * Burn(asset)

Essential == {a \in Assets : \E o \in Owed(a) : obligations[o].essential}

\* The essential resource that lasts shortest.
Bottleneck ==
    IF Essential = {} THEN NoAsset
    ELSE CHOOSE a \in Essential :
             \A b \in Essential : Holding(a) * Burn(b) <= Holding(b) * Burn(a)

-----------------------------------------------------------------------------
(* What is due by a day, counted without the projection.                   *)

DuesBy(o, day) ==
    IF obligations[o].due > day THEN 0
    ELSE 1 + (day - obligations[o].due) \div obligations[o].cadence

OwedBy(asset, day) ==
    SumFunction([o \in Owed(asset) |-> obligations[o].amount * DuesBy(o, day)])

\* An essential obligation falls due by then that what is held will not pay.
ShortBy(asset, day) ==
    \E o \in Owed(asset) : \E due \in obligations[o].due..day :
        /\ obligations[o].essential
        /\ (due - obligations[o].due) % obligations[o].cadence = 0
        /\ OwedBy(asset, due) > balance[asset]
=============================================================================
