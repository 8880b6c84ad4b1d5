-------------------------- MODULE MCPresentations --------------------------
(* Instances of Presentations for TLC. *)
EXTENDS Presentations, TLC

MCApplication ==
  {[type |-> "INSURANCE", amount |-> 2, eid |-> "NOT_STARTED",
    pledged |-> FALSE, settlement |-> Nil, reservation |-> Nil]}

MCSplits == {[refund |-> 1, retention |-> 1]}
MCHoldbacks == {[released |-> 1, reserved |-> 1]}
MCBills == {[cost |-> 1, advance |-> 1], [cost |-> 2, advance |-> 1]}

(* The bound on the histories of two deposits together, and the length from  *)
(* which a history is followed only where presentations are accepted.        *)
MaxEntries == 7
MaxElsewhere == 4

FewEntries ==
  /\ \A d, e \in KnownIds :
       d # e => Len(History(d)) + Len(History(e)) <= MaxEntries
  /\ \A d \in KnownIds :
       Len(History(d)) > MaxElsewhere => deposits[d].state = "PLEDGED"

(* Credentials, VP sessions, deposits and requests are interchangeable. *)
Interchangeable ==
  Permutations(Creds) \cup Permutations(VpSessions)
    \cup Permutations(Ids) \cup Permutations(Requests)
============================================================================
