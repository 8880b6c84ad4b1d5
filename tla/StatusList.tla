----------------------------- MODULE StatusList -----------------------------
(***************************************************************************)
(* GET /v1/status-list/revocation while sessions go on being opened,       *)
(* consumed and revoked: the handler reads the revoked indices once, sets  *)
(* their bits one after the other, signs the list and answers.  A verifier *)
(* keeps the answer and looks bits up in it, long after it was made.       *)
(*                                                                         *)
(* A byte is the set of its bits that are 1, bit 0 the least significant;  *)
(* gzip, base64url and the signature are undone by the verifier and left   *)
(* out.  The store returns the indices in no particular order.             *)
(***************************************************************************)
EXTENDS IssuanceRegistry

CONSTANT ByteSize  \* bits of a byte, 8 in the code

ASSUME StatusListAssumption ==
  /\ ByteSize \in Nat \ {0}
  /\ ListSize % ByteSize = 0

VARIABLE list  \* the list being made or, when no index is left, served last

listVars == <<sessions, nextIndex, inFlight, held, list>>

Bytes == 0 .. ((ListSize \div ByteSize) - 1)

RevokedSessions == {s \in Sessions : Exists(s) /\ sessions[s].state = "REVOKED"}

(* bits is the bitstring, todo the indices the loop has still to look at.    *)
(* asOf is not in the code: the sessions that were revoked when it started.  *)
ListInit ==
  /\ Init
  /\ list = [bits |-> [b \in Bytes |-> {}], todo |-> {}, asOf |-> {}]

(* StatusList reads the indices; BuildEncodedList makes an empty bitstring. *)
ReadIndices ==
  /\ list.todo = {}
  /\ list' = [bits |-> [b \in Bytes |-> {}],
              todo |-> RevokedStatusListIndices, asOf |-> RevokedSessions]
  /\ UNCHANGED vars

(* Mutant: bits are counted from the least significant one. *)
BitFromTheRight(bits, i) == [bits EXCEPT ![i \div ByteSize] = @ \cup {i % ByteSize}]

(* bitstring[idx/8] |= 1 << uint(7-idx%8) *)
SetBit(bits, i) ==
  [bits EXCEPT ![i \div ByteSize] = @ \cup {ByteSize - 1 - (i % ByteSize)}]

(* One round of the loop; an index beyond the end is passed over. *)
EncodeIndex(i) ==
  /\ i \in list.todo
  /\ list' = [list EXCEPT !.todo = @ \ {i},
                          !.bits = IF i < 0 \/ i >= ListSize THEN @
                                   ELSE SetBit(@, i)]
  /\ UNCHANGED vars

ListNext ==
  \/ Next /\ UNCHANGED list
  \/ ReadIndices
  \/ \E i \in list.todo : EncodeIndex(i)

ListSpec == ListInit /\ [][ListNext]_listVars

-----------------------------------------------------------------------------
(* Properties *)

(* Entry i of a W3C bitstring, whose first entry is the most significant bit *)
(* of its first byte.                                                        *)
BitAt(bits, i) == (ByteSize - 1 - (i % ByteSize)) \in bits[i \div ByteSize]

(* A list that is served tells the truth about every credential it has an    *)
(* entry for, however old it is when a verifier reads it and whatever was    *)
(* revoked while it was made: an entry of 1 means that the credential is     *)
(* revoked, and what was revoked before the list was asked for has a 1.      *)
ListTellsTheTruth ==
  list.todo = {} =>
    \A s \in Sessions : Exists(s) /\ sessions[s].index < ListSize =>
      /\ BitAt(list.bits, sessions[s].index) => sessions[s].state = "REVOKED"
      /\ s \in list.asOf => BitAt(list.bits, sessions[s].index)
=============================================================================
