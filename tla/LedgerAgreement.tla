---------------------------- MODULE LedgerAgreement ----------------------------
(* What the validation of ledgers promises: the servers fully validate ledgers *)
(* by counting validations from lists of validators, and two servers validate  *)
(* different ledgers of one sequence only if enough of the validators on both  *)
(* lists have forgotten what they signed.                                      *)
EXTENDS Integers, Sequences, FiniteSets

CONSTANTS
    Validators,      \* the keys that sign validations
    Servers,
    Ledgers          \* each the path that leads to it from the genesis ledger

ASSUME FiniteAssumption == IsFiniteSet(Validators)

ASSUME PathsAssumption == Ledgers \subseteq Seq(Nat) \ {<<>>}

VARIABLES
    accepted,        \* what each server fully validated, and by which list
    forgot           \* validators that may sign a sequence again

seq(l) == Len(l)

\* ValidatorList::calculateQuorum: four fifths of the trusted validators,
\* rounded up.
calculateQuorum(n) == (4 * n + 4) \div 5

quorum(list) == calculateQuorum(Cardinality(list))

\* An acceptance rests on need validations by members of a list.
Acceptance == [ledger : Ledgers, list : SUBSET Validators, need : 0 .. Cardinality(Validators)]

\* How many validators two acceptances must have in common.
overlap(a, b) == a.need + b.need - Cardinality(a.list \cup b.list)

Conflict(a, b) == seq(a.ledger) = seq(b.ledger) /\ a.ledger # b.ledger

Excused(a, b) == Cardinality(forgot \cap a.list \cap b.list) >= overlap(a, b)

AInit == accepted = [s \in Servers |-> {}] /\ forgot = {}

AAccept(s, a) ==
  /\ UNCHANGED forgot
  /\ accepted' = [accepted EXCEPT ![s] = @ \cup {a}]
  /\ \A t \in Servers : \A b \in accepted[t] : Conflict(a, b) => Excused(a, b)

AForget(F) == forgot' = forgot \cup F /\ UNCHANGED accepted

ANext ==
  \/ \E F \in SUBSET Validators : AForget(F)
  \/ \E s \in Servers, a \in Acceptance : AAccept(s, a)

ASpec == AInit /\ [][ANext]_<<accepted, forgot>>

\* Servers that count a quorum of the same list agree on every sequence as long
\* as fewer of its validators have forgotten than two of its quorums share.
Agreement ==
  \A s, t \in Servers : \A a \in accepted[s], b \in accepted[t] :
     /\ a.list = b.list /\ a.need = quorum(a.list) /\ b.need = quorum(a.list)
     /\ Cardinality(forgot \cap a.list) < 2 * quorum(a.list) - Cardinality(a.list)
     => ~ Conflict(a, b)
================================================================================
