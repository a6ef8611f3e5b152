-------------------------------- MODULE World --------------------------------
(***************************************************************************)
(* What the organism believes of the world (elia/world_model.py): beliefs  *)
(* that the model proposes and revises, and that only a signed receipt     *)
(* may call verified or refuted.  A topic is a (subject, predicate); two   *)
(* answers to it contradict each other.                                    *)
(***************************************************************************)
EXTENDS Integers, FiniteSets, FiniteSetsExt, SequencesExt

CONSTANTS Topics, Answers, WorldLimit   \* world_model.snapshot(64)

VARIABLE beliefs   \* sequence of rows; the id is the index

ModelStatuses   == {"hypothesis", "supported", "disputed"}
TrustedStatuses == {"verified", "refuted"}

BeliefRows == [topic : Topics, answer : Answers, confidence : 0..100,
               status : ModelStatuses \cup TrustedStatuses]

WorldTypeOK == beliefs \in Seq(BeliefRows)

Standing == {b \in DOMAIN beliefs : beliefs[b].status # "refuted"}

\* propose: the newest row of the same claim that is not refuted takes the
\* evidence; a refuted claim may be proposed again.
Propose(topic, answer, confidence) ==
    LET same == {b \in Standing : beliefs[b].topic = topic /\ beliefs[b].answer = answer}
        said == IF confidence > 75 THEN 75 ELSE confidence
    IN beliefs' = IF same = {}
                  THEN Append(beliefs, [topic |-> topic, answer |-> answer,
                                        confidence |-> said, status |-> "hypothesis"])
                  ELSE [beliefs EXCEPT ![Max(same)].confidence = IF @ < said THEN said ELSE @]

\* revise_from_model: of any row, a verified or refuted one included, if a
\* status is given.
MayRevise(b, status) == b \in DOMAIN beliefs /\ status \in ModelStatuses

Revise(b, status) == beliefs' = [beliefs EXCEPT ![b].status = status]

\* adjudicate, under a receipt.
Adjudicate(b, status) ==
    /\ b \in DOMAIN beliefs /\ status \in TrustedStatuses
    /\ beliefs' = [beliefs EXCEPT ![b].status = status, ![b].confidence = 100]

Rank == [verified |-> 0, supported |-> 1, hypothesis |-> 2, disputed |-> 3]

Before(a, b) ==
    \/ Rank[beliefs[a].status] < Rank[beliefs[b].status]
    \/ /\ Rank[beliefs[a].status] = Rank[beliefs[b].status]
       /\ \/ beliefs[a].confidence > beliefs[b].confidence
          \/ beliefs[a].confidence = beliefs[b].confidence /\ a > b

Seen == {b \in Standing : Cardinality({a \in Standing : Before(a, b)}) < WorldLimit}

\* Topics seen with two answers, hidden rows of the topic included.
Contradictions ==
    {beliefs[b].topic : b \in
        {c \in Seen : \E a \in Standing : /\ beliefs[a].topic = beliefs[c].topic
                                          /\ beliefs[a].answer # beliefs[c].answer}}
=============================================================================
