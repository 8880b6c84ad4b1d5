--------------------------- MODULE IssuanceProofs ---------------------------
(***************************************************************************)
(* Proofs about IssuanceSessions and StatusList, for any number of         *)
(* deposits, sessions and concurrent requests, for both stores and lists   *)
(* and bytes of every size.                                                *)
(*                                                                         *)
(* The argument.  Indices come from a counter that only grows, so they are *)
(* distinct.  Credential ids are fresh when signed, and a session records  *)
(* one only while it is PENDING, which it stops being in the same step: so *)
(* ids of different sessions differ, and a signed credential is recorded   *)
(* nowhere until its own request is done.  A token leads to one session    *)
(* for ever, so the session that ConsumeByToken locks is the one the       *)
(* credential was signed for, although it is looked up a second time.      *)
(*                                                                         *)
(* The status list tells the truth by the loop invariant of                *)
(* BuildEncodedList: the bits that are set belong to sessions that were    *)
(* revoked when the indices were read, and of those sessions each has its  *)
(* bit or is still to come.  Sessions stay revoked, and no two share an    *)
(* index, so a bit speaks of one session only and stays true, whatever     *)
(* else happens while a list is made.                                      *)
(***************************************************************************)
EXTENDS StatusList, TLAPS

(* Indices in use were handed out by the counter. *)
IndicesBelowCounter ==
  /\ \A s \in Sessions : Exists(s) => sessions[s].index < nextIndex
  /\ \A w \in Workers : inFlight[w] # Nil => inFlight[w].index < nextIndex

(* A session has a credential once it is no longer PENDING, and not before. *)
CredMatchesState ==
  \A s \in Sessions : Exists(s) =>
    (sessions[s].state = "PENDING" <=> sessions[s].cred = Nil)

(* No credential id is recorded twice. *)
CredsUnique ==
  \A s, z \in Sessions :
    Exists(s) /\ Exists(z) /\ sessions[s].cred # Nil
      /\ sessions[s].cred = sessions[z].cred => s = z

Signed(w) == inFlight[w] # Nil /\ inFlight[w].pc = "consume"

(* A credential that is signed and not yet recorded is known to its request  *)
(* only.                                                                     *)
SignedIsPrivate ==
  \A w \in Workers : Signed(w) =>
    /\ inFlight[w].cred # Nil
    /\ \A s \in Sessions : Exists(s) => sessions[s].cred # inFlight[w].cred
    /\ \A h \in held : h.id # inFlight[w].cred
    /\ \A v \in Workers \ {w} :
         inFlight[v] # Nil => inFlight[v].cred # inFlight[w].cred

(* A token leads to one session. *)
TokensUnique ==
  \A s, z \in Sessions : Exists(s) /\ Exists(z) =>
    \A t \in sessions[s].tokens : t \in sessions[z].tokens => s = z

(* The session a request will consume is the one it signed for. *)
SignedForSession ==
  \A w \in Workers : Signed(w) =>
    \A s \in SessionsOf(inFlight[w].token) :
      /\ sessions[s].deposit = inFlight[w].deposit
      /\ sessions[s].index = inFlight[w].index

Records(s, id, deposit, index) ==
  /\ Exists(s)
  /\ sessions[s].cred = id
  /\ sessions[s].deposit = deposit
  /\ sessions[s].index = index
  /\ sessions[s].state \in {"CONSUMED", "REVOKED"}

(* What is about to be delivered is recorded. *)
ResponseIsRecorded ==
  \A w \in Workers : inFlight[w] # Nil /\ inFlight[w].pc = "respond" =>
    \E s \in Sessions :
      Records(s, inFlight[w].cred, inFlight[w].deposit, inFlight[w].index)

(* The inductive invariant. *)
IInv ==
  /\ TypeOK
  /\ IndicesBelowCounter
  /\ IndicesUnique
  /\ CredMatchesState
  /\ CredsUnique
  /\ SignedIsPrivate
  /\ TokensUnique
  /\ SignedForSession
  /\ ResponseIsRecorded
  /\ HeldIsRecorded

(* IssueCredential preserves IInv: the index it takes is the counter, above  *)
(* every index in use.                                                       *)
LEMMA IssueCredentialInv ==
  ASSUME IInv, NEW w \in Workers, NEW d \in Deposits, IssueCredential(w, d)
  PROVE  IInv'
<1> DEFINE call == [pc |-> "create", deposit |-> d, index |-> nextIndex,
                    token |-> Nil, cred |-> Nil]
<1>1. /\ inFlight[w] = Nil
      /\ nextIndex' = nextIndex + 1 /\ sessions' = sessions /\ held' = held
      /\ inFlight' = [inFlight EXCEPT ![w] = call]
  BY DEF IssueCredential
<1>2. nextIndex \in Nat /\ call \in Call
  BY DEF IInv, TypeOK, Call
<1>3. /\ inFlight'[w] # Nil
      /\ inFlight'[w].pc = "create"
      /\ inFlight'[w].index = nextIndex
      /\ inFlight'[w].cred = Nil
      /\ \A v \in Workers \ {w} : inFlight'[v] = inFlight[v]
  BY <1>1, <1>2, IssuanceAssumption DEF IInv, TypeOK
<1>4. /\ \A s \in Sessions : Exists(s) => sessions[s].index \in Nat
      /\ \A v \in Workers : inFlight[v] # Nil => inFlight[v].index \in Nat
  BY DEF IInv, TypeOK, Session, Call, Exists
<1>5. TypeOK'
  BY <1>1, <1>2 DEF IInv, TypeOK
<1> HIDE DEF call
<1>6. IndicesBelowCounter'
  BY <1>1, <1>2, <1>3, <1>4 DEF IInv, Exists, IndicesBelowCounter
<1>7. IndicesUnique'
  BY <1>1, <1>2, <1>3, <1>4 DEF IInv, Exists, IndicesUnique, Claimed,
     IndicesBelowCounter
<1>8. CredMatchesState'
  BY <1>1, <1>2, <1>3, <1>4 DEF IInv, Exists, CredMatchesState
<1>9. CredsUnique'
  BY <1>1, <1>2, <1>3, <1>4 DEF IInv, Exists, CredsUnique
<1>10. SignedIsPrivate'
  BY <1>1, <1>2, <1>3, <1>4 DEF IInv, Exists, SignedIsPrivate, Signed
<1>11. TokensUnique'
  BY <1>1, <1>2, <1>3, <1>4 DEF IInv, Exists, TokensUnique
<1>12. SignedForSession'
  BY <1>1, <1>2, <1>3, <1>4 DEF IInv, Exists, SignedForSession, SessionsOf, Signed
<1>13. ResponseIsRecorded'
  BY <1>1, <1>2, <1>3, <1>4 DEF IInv, Exists, ResponseIsRecorded, Records
<1>14. HeldIsRecorded'
  BY <1>1, <1>2, <1>3, <1>4 DEF IInv, Exists, HeldIsRecorded
<1> QED
  BY <1>5, <1>6, <1>7, <1>8, <1>9, <1>10, <1>11, <1>12, <1>13, <1>14 DEF IInv

(* CreateSession preserves IInv: the index moves from the request to the     *)
(* row.                                                                      *)
LEMMA CreateSessionInv ==
  ASSUME IInv, NEW w \in Workers, CreateSession(w)
  PROVE  IInv'
<1> DEFINE row == [deposit |-> inFlight[w].deposit, state |-> "PENDING",
                   tokens |-> {}, expired |-> FALSE, cred |-> Nil,
                   index |-> inFlight[w].index]
<1>1. PICK s \in Sessions :
        sessions[s] = Nil /\ sessions' = [sessions EXCEPT ![s] = row]
  BY DEF CreateSession
<1>2. /\ inFlight[w] # Nil /\ inFlight[w].pc = "create"
      /\ inFlight' = [inFlight EXCEPT ![w] = Nil]
      /\ nextIndex' = nextIndex /\ held' = held
  BY DEF CreateSession
<1>3. inFlight[w] \in Call /\ row \in Session
  BY <1>2 DEF IInv, TypeOK, Call, Session, SessionState
<1>4. /\ sessions'[s] # Nil
      /\ sessions'[s].index = inFlight[w].index
      /\ sessions'[s].deposit = inFlight[w].deposit
      /\ sessions'[s].state = "PENDING"
      /\ sessions'[s].cred = Nil
      /\ sessions'[s].tokens = {}
      /\ \A z \in Sessions \ {s} : sessions'[z] = sessions[z]
  BY <1>1, <1>3, IssuanceAssumption DEF IInv, TypeOK
<1>5. /\ inFlight'[w] = Nil
      /\ \A v \in Workers \ {w} : inFlight'[v] = inFlight[v]
  BY <1>2 DEF IInv, TypeOK
<1>6. TypeOK'
  BY <1>1, <1>2, <1>3 DEF IInv, TypeOK
<1> HIDE DEF row
<1>7. IndicesBelowCounter'
  BY <1>1, <1>2, <1>4, <1>5 DEF IInv, Exists, IndicesBelowCounter
<1>8. IndicesUnique'
  BY <1>1, <1>2, <1>4, <1>5 DEF IInv, Exists, IndicesUnique, Claimed
<1>9. CredMatchesState'
  BY <1>1, <1>2, <1>4, <1>5 DEF IInv, Exists, CredMatchesState
<1>10. CredsUnique'
  BY <1>1, <1>2, <1>4, <1>5 DEF IInv, Exists, CredsUnique
<1>11. SignedIsPrivate'
  BY <1>1, <1>2, <1>4, <1>5 DEF IInv, Exists, SignedIsPrivate, Signed
<1>12. TokensUnique'
  BY <1>1, <1>2, <1>4, <1>5 DEF IInv, Exists, TokensUnique
<1>13. SignedForSession'
  BY <1>1, <1>2, <1>4, <1>5 DEF IInv, Exists, SignedForSession, SessionsOf, Signed
<1>14. ResponseIsRecorded'
  BY <1>1, <1>2, <1>4, <1>5 DEF IInv, Exists, ResponseIsRecorded, Records
<1>15. HeldIsRecorded'
  BY <1>1, <1>2, <1>4, <1>5 DEF IInv, Exists, HeldIsRecorded
<1> QED
  BY <1>6, <1>7, <1>8, <1>9, <1>10, <1>11, <1>12, <1>13, <1>14, <1>15 DEF IInv

(* Token preserves IInv: the new token is fresh, so it leads nowhere else. *)
LEMMA TokenInv ==
  ASSUME IInv, NEW s \in Sessions, Token(s)
  PROVE  IInv'
<1>1. PICK t \in FreshTokens :
        sessions' = [sessions EXCEPT ![s].tokens = WithToken(sessions[s].tokens, t)]
  BY DEF Token
<1>2. /\ sessions[s] # Nil
      /\ nextIndex' = nextIndex /\ inFlight' = inFlight /\ held' = held
  BY DEF Token, Exists
<1>3. sessions[s] \in Session /\ t \in Tokens
  BY <1>1, <1>2 DEF IInv, TypeOK, FreshTokens
<1>4. WithToken(sessions[s].tokens, t) \in SUBSET Tokens
  BY <1>3 DEF WithToken, Session
<1>5. sessions'[s] = [sessions[s] EXCEPT !.tokens = WithToken(sessions[s].tokens, t)]
  BY <1>1 DEF IInv, TypeOK
<1>6. sessions'[s] \in Session
  BY <1>3, <1>4, <1>5 DEF Session
<1>7. /\ sessions'[s] # Nil
      /\ sessions'[s].index = sessions[s].index
      /\ sessions'[s].deposit = sessions[s].deposit
      /\ sessions'[s].state = sessions[s].state
      /\ sessions'[s].cred = sessions[s].cred
      /\ sessions'[s].tokens \subseteq sessions[s].tokens \cup {t}
  BY <1>3, <1>5, <1>6, IssuanceAssumption DEF Session, WithToken
<1>8. \A z \in Sessions \ {s} : sessions'[z] = sessions[z]
  BY <1>1 DEF IInv, TypeOK
<1>9. /\ \A z \in Sessions : Exists(z) => t \notin sessions[z].tokens
      /\ \A v \in Workers : inFlight[v] # Nil => inFlight[v].token # t
  BY <1>1 DEF FreshTokens, SessionsOf
<1>10. TypeOK'
  BY <1>1, <1>2, <1>6 DEF IInv, TypeOK
<1>11. IndicesBelowCounter'
  BY <1>2, <1>7, <1>8, <1>9 DEF IInv, Exists, IndicesBelowCounter
<1>12. IndicesUnique'
  BY <1>2, <1>7, <1>8, <1>9 DEF IInv, Exists, IndicesUnique, Claimed
<1>13. CredMatchesState'
  BY <1>2, <1>7, <1>8, <1>9 DEF IInv, Exists, CredMatchesState
<1>14. CredsUnique'
  BY <1>2, <1>7, <1>8, <1>9 DEF IInv, Exists, CredsUnique
<1>15. SignedIsPrivate'
  BY <1>2, <1>7, <1>8, <1>9 DEF IInv, Exists, SignedIsPrivate, Signed
<1>16. TokensUnique'
  BY <1>2, <1>7, <1>8, <1>9 DEF IInv, Exists, TokensUnique
<1>17. SignedForSession'
  BY <1>2, <1>7, <1>8, <1>9 DEF IInv, Exists, SignedForSession, SessionsOf, Signed
<1>18. ResponseIsRecorded'
  BY <1>2, <1>7, <1>8, <1>9 DEF IInv, Exists, ResponseIsRecorded, Records
<1>19. HeldIsRecorded'
  BY <1>2, <1>7, <1>8, <1>9 DEF IInv, Exists, HeldIsRecorded
<1> QED
  BY <1>10, <1>11, <1>12, <1>13, <1>14, <1>15, <1>16, <1>17, <1>18, <1>19 DEF IInv

(* Credential preserves IInv: the id it signs is fresh, and the session it   *)
(* signs for is the only one its token leads to.                             *)
LEMMA CredentialInv ==
  ASSUME IInv, NEW w \in Workers, Credential(w)
  PROVE  IInv'
<1>1. PICK s \in Sessions, c \in FreshCreds :
        /\ inFlight[w] = Nil
        /\ Exists(s)
        /\ \E t \in sessions[s].tokens :
             inFlight' = [inFlight EXCEPT ![w] =
               [pc |-> "consume", deposit |-> sessions[s].deposit,
                index |-> sessions[s].index, token |-> t, cred |-> c]]
        /\ sessions' = sessions /\ nextIndex' = nextIndex /\ held' = held
  BY DEF Credential
<1>2. PICK t \in sessions[s].tokens :
        inFlight' = [inFlight EXCEPT ![w] =
          [pc |-> "consume", deposit |-> sessions[s].deposit,
           index |-> sessions[s].index, token |-> t, cred |-> c]]
  BY <1>1
<1> DEFINE call == [pc |-> "consume", deposit |-> sessions[s].deposit,
                    index |-> sessions[s].index, token |-> t, cred |-> c]
<1>3. sessions[s] \in Session /\ c \in Creds /\ call \in Call
  BY <1>1, <1>2 DEF IInv, TypeOK, FreshCreds, Exists, Session, Call
<1>4. /\ inFlight'[w] # Nil
      /\ inFlight'[w].pc = "consume"
      /\ inFlight'[w].deposit = sessions[s].deposit
      /\ inFlight'[w].index = sessions[s].index
      /\ inFlight'[w].token = t
      /\ inFlight'[w].cred = c
      /\ \A v \in Workers \ {w} : inFlight'[v] = inFlight[v]
  BY <1>2, <1>3, IssuanceAssumption DEF IInv, TypeOK
<1>5. /\ c # Nil
      /\ \A z \in Sessions : Exists(z) => sessions[z].cred # c
      /\ \A v \in Workers : inFlight[v] # Nil => inFlight[v].cred # c
      /\ \A h \in held : h.id # c
  BY <1>1, <1>3, IssuanceAssumption DEF FreshCreds
<1>6. TypeOK'
  BY <1>1, <1>2, <1>3 DEF IInv, TypeOK
<1> HIDE DEF call
<1>7. IndicesBelowCounter'
  BY <1>1, <1>2, <1>4, <1>5 DEF IInv, Exists, IndicesBelowCounter
<1>8. IndicesUnique'
  BY <1>1, <1>2, <1>4, <1>5 DEF IInv, Exists, IndicesUnique, Claimed
<1>9. CredMatchesState'
  BY <1>1, <1>2, <1>4, <1>5 DEF IInv, Exists, CredMatchesState
<1>10. CredsUnique'
  BY <1>1, <1>2, <1>4, <1>5 DEF IInv, Exists, CredsUnique
<1>11. SignedIsPrivate'
  BY <1>1, <1>2, <1>4, <1>5 DEF IInv, Exists, SignedIsPrivate, Signed
<1>12. TokensUnique'
  BY <1>1, <1>2, <1>4, <1>5 DEF IInv, Exists, TokensUnique
<1>13. SignedForSession'
  BY <1>1, <1>2, <1>4, <1>5 DEF IInv, Exists, SignedForSession, SessionsOf, Signed,
     TokensUnique
<1>14. ResponseIsRecorded'
  BY <1>1, <1>2, <1>4, <1>5 DEF IInv, Exists, ResponseIsRecorded, Records
<1>15. HeldIsRecorded'
  BY <1>1, <1>2, <1>4, <1>5 DEF IInv, Exists, HeldIsRecorded
<1> QED
  BY <1>6, <1>7, <1>8, <1>9, <1>10, <1>11, <1>12, <1>13, <1>14, <1>15 DEF IInv

(* ConsumeByToken, when it succeeds, preserves IInv: the id it records was   *)
(* known to no one else.                                                     *)
LEMMA ConsumeInv ==
  ASSUME IInv, NEW w \in Workers, Signed(w),
         NEW s \in SessionsOf(inFlight[w].token), Consume(w, s),
         nextIndex' = nextIndex, held' = held
  PROVE  IInv'
<1>1. /\ s \in Sessions /\ sessions[s] # Nil
      /\ sessions[s].state = "PENDING"
      /\ inFlight[w].token \in sessions[s].tokens
      /\ inFlight[w] # Nil /\ inFlight[w].pc = "consume"
  BY DEF SessionsOf, Exists, Consume, Usable, Signed
<1>2. sessions[s] \in Session /\ inFlight[w] \in Call
  BY <1>1 DEF IInv, TypeOK
<1>3. /\ inFlight[w].cred \in Creds
      /\ inFlight[w].deposit = sessions[s].deposit
      /\ inFlight[w].index = sessions[s].index
  BY <1>1, <1>2 DEF IInv, SignedIsPrivate, SignedForSession, Signed, Call
<1>4. sessions' = [sessions EXCEPT ![s] = [sessions[s] EXCEPT
                     !.state = "CONSUMED", !.cred = inFlight[w].cred]]
  BY <1>1 DEF Consume, IInv, TypeOK
<1>5. inFlight' = [inFlight EXCEPT ![w] = [inFlight[w] EXCEPT !.pc = "respond"]]
  BY DEF Consume
<1>6. sessions'[s] \in Session /\ inFlight'[w] \in Call
  BY <1>1, <1>2, <1>3, <1>4, <1>5 DEF IInv, TypeOK, Session, Call, SessionState
<1>7. /\ sessions'[s] # Nil
      /\ sessions'[s].index = sessions[s].index
      /\ sessions'[s].deposit = sessions[s].deposit
      /\ sessions'[s].state = "CONSUMED"
      /\ sessions'[s].cred = inFlight[w].cred
      /\ sessions'[s].tokens = sessions[s].tokens
      /\ \A z \in Sessions \ {s} : sessions'[z] = sessions[z]
  BY <1>1, <1>2, <1>4, <1>6, IssuanceAssumption DEF IInv, TypeOK, Session
<1>8. /\ inFlight'[w] # Nil
      /\ inFlight'[w].pc = "respond"
      /\ inFlight'[w].deposit = inFlight[w].deposit
      /\ inFlight'[w].index = inFlight[w].index
      /\ inFlight'[w].token = inFlight[w].token
      /\ inFlight'[w].cred = inFlight[w].cred
      /\ \A v \in Workers \ {w} : inFlight'[v] = inFlight[v]
  BY <1>2, <1>5, <1>6, IssuanceAssumption DEF IInv, TypeOK, Call
<1>9. inFlight[w].cred # Nil
  BY <1>3, IssuanceAssumption
<1>10. TypeOK'
  BY <1>4, <1>5, <1>6, <1>1 DEF IInv, TypeOK
<1>11. IndicesBelowCounter'
  BY <1>1, <1>3, <1>7, <1>8, <1>9 DEF IInv, Exists, IndicesBelowCounter
<1>12. IndicesUnique'
  BY <1>1, <1>3, <1>7, <1>8, <1>9 DEF IInv, Exists, IndicesUnique, Claimed
<1>13. CredMatchesState'
  BY <1>1, <1>3, <1>7, <1>8, <1>9 DEF IInv, Exists, CredMatchesState
<1>14. CredsUnique'
  BY <1>1, <1>3, <1>7, <1>8, <1>9 DEF IInv, Exists, CredsUnique, SignedIsPrivate, Signed
<1>15. SignedIsPrivate'
  BY <1>1, <1>3, <1>7, <1>8, <1>9 DEF IInv, Exists, SignedIsPrivate, Signed
<1>16. TokensUnique'
  BY <1>1, <1>3, <1>7, <1>8, <1>9 DEF IInv, Exists, TokensUnique
<1>17. SignedForSession'
  BY <1>1, <1>3, <1>7, <1>8, <1>9 DEF IInv, Exists, SignedForSession, SessionsOf, Signed
<1>18. ResponseIsRecorded'
  BY <1>1, <1>3, <1>7, <1>8, <1>9 DEF IInv, Exists, ResponseIsRecorded, Records
<1>19. HeldIsRecorded'
  BY <1>1, <1>3, <1>7, <1>8, <1>9 DEF IInv, Exists, HeldIsRecorded
<1> QED
  BY <1>10, <1>11, <1>12, <1>13, <1>14, <1>15, <1>16, <1>17, <1>18, <1>19 DEF IInv

(* ConsumeByToken, when it refuses, preserves IInv. *)
LEMMA RefuseInv ==
  ASSUME IInv, NEW w \in Workers, Refuse(w),
         nextIndex' = nextIndex, held' = held
  PROVE  IInv'
<1>1. /\ inFlight' = [inFlight EXCEPT ![w] = Nil] /\ sessions' = sessions
  BY DEF Refuse
<1>2. /\ inFlight'[w] = Nil
      /\ \A v \in Workers \ {w} : inFlight'[v] = inFlight[v]
  BY <1>1 DEF IInv, TypeOK
<1>3. TypeOK'
  BY <1>1 DEF IInv, TypeOK
<1>4. IndicesBelowCounter'
  BY <1>1, <1>2 DEF IInv, Exists, IndicesBelowCounter
<1>5. IndicesUnique'
  BY <1>1, <1>2 DEF IInv, Exists, IndicesUnique, Claimed
<1>6. CredMatchesState'
  BY <1>1, <1>2 DEF IInv, Exists, CredMatchesState
<1>7. CredsUnique'
  BY <1>1, <1>2 DEF IInv, Exists, CredsUnique
<1>8. SignedIsPrivate'
  BY <1>1, <1>2 DEF IInv, Exists, SignedIsPrivate, Signed
<1>9. TokensUnique'
  BY <1>1, <1>2 DEF IInv, Exists, TokensUnique
<1>10. SignedForSession'
  BY <1>1, <1>2 DEF IInv, Exists, SignedForSession, SessionsOf, Signed
<1>11. ResponseIsRecorded'
  BY <1>1, <1>2 DEF IInv, Exists, ResponseIsRecorded, Records
<1>12. HeldIsRecorded'
  BY <1>1, <1>2 DEF IInv, Exists, HeldIsRecorded
<1> QED
  BY <1>3, <1>4, <1>5, <1>6, <1>7, <1>8, <1>9, <1>10, <1>11, <1>12 DEF IInv

(* Respond preserves IInv: what it delivers is recorded. *)
LEMMA RespondInv ==
  ASSUME IInv, NEW w \in Workers, Respond(w)
  PROVE  IInv'
<1> DEFINE cred == [id |-> inFlight[w].cred, deposit |-> inFlight[w].deposit,
                    index |-> inFlight[w].index]
<1>1. /\ inFlight[w] # Nil /\ inFlight[w].pc = "respond"
      /\ held' = held \cup {cred}
      /\ inFlight' = [inFlight EXCEPT ![w] = Nil]
      /\ sessions' = sessions /\ nextIndex' = nextIndex
  BY DEF Respond
<1>2. PICK s \in Sessions :
        Records(s, inFlight[w].cred, inFlight[w].deposit, inFlight[w].index)
  BY <1>1 DEF IInv, ResponseIsRecorded
<1>3. inFlight[w] \in Call /\ sessions[s] \in Session
  BY <1>1, <1>2 DEF IInv, TypeOK, Records, Exists
<1>4. inFlight[w].cred \in Creds
  BY <1>2, <1>3 DEF IInv, CredMatchesState, Records, Call
<1>5. cred \in SignedCredential
  BY <1>3, <1>4 DEF Call, SignedCredential
<1>6. /\ inFlight'[w] = Nil
      /\ \A v \in Workers \ {w} : inFlight'[v] = inFlight[v]
  BY <1>1 DEF IInv, TypeOK
<1>7. TypeOK'
  BY <1>1, <1>5 DEF IInv, TypeOK
<1>8. IndicesBelowCounter'
  BY <1>1, <1>2, <1>6 DEF IInv, Exists, IndicesBelowCounter
<1>9. IndicesUnique'
  BY <1>1, <1>2, <1>6 DEF IInv, Exists, IndicesUnique, Claimed
<1>10. CredMatchesState'
  BY <1>1, <1>2, <1>6 DEF IInv, Exists, CredMatchesState
<1>11. CredsUnique'
  BY <1>1, <1>2, <1>6 DEF IInv, Exists, CredsUnique
<1>12. SignedIsPrivate'
  BY <1>1, <1>2, <1>6 DEF IInv, Exists, SignedIsPrivate, Signed,
     Records
<1>13. TokensUnique'
  BY <1>1, <1>2, <1>6 DEF IInv, Exists, TokensUnique
<1>14. SignedForSession'
  BY <1>1, <1>2, <1>6 DEF IInv, Exists, SignedForSession, SessionsOf, Signed
<1>15. ResponseIsRecorded'
  BY <1>1, <1>2, <1>6 DEF IInv, Exists, ResponseIsRecorded, Records
<1>16. HeldIsRecorded'
  BY <1>1, <1>2, <1>6 DEF IInv, Exists, HeldIsRecorded, Records
<1> QED
  BY <1>7, <1>8, <1>9, <1>10, <1>11, <1>12, <1>13, <1>14, <1>15, <1>16 DEF IInv

(* A request that ends early preserves IInv. *)
LEMMA FailInv ==
  ASSUME IInv, NEW w \in Workers, Fail(w)
  PROVE  IInv'
<1>1. /\ inFlight' = [inFlight EXCEPT ![w] = Nil]
      /\ sessions' = sessions /\ nextIndex' = nextIndex /\ held' = held
  BY DEF Fail
<1>2. /\ inFlight'[w] = Nil
      /\ \A v \in Workers \ {w} : inFlight'[v] = inFlight[v]
  BY <1>1 DEF IInv, TypeOK
<1>3. TypeOK'
  BY <1>1 DEF IInv, TypeOK
<1>4. IndicesBelowCounter'
  BY <1>1, <1>2 DEF IInv, Exists, IndicesBelowCounter
<1>5. IndicesUnique'
  BY <1>1, <1>2 DEF IInv, Exists, IndicesUnique, Claimed
<1>6. CredMatchesState'
  BY <1>1, <1>2 DEF IInv, Exists, CredMatchesState
<1>7. CredsUnique'
  BY <1>1, <1>2 DEF IInv, Exists, CredsUnique
<1>8. SignedIsPrivate'
  BY <1>1, <1>2 DEF IInv, Exists, SignedIsPrivate, Signed
<1>9. TokensUnique'
  BY <1>1, <1>2 DEF IInv, Exists, TokensUnique
<1>10. SignedForSession'
  BY <1>1, <1>2 DEF IInv, Exists, SignedForSession, SessionsOf, Signed
<1>11. ResponseIsRecorded'
  BY <1>1, <1>2 DEF IInv, Exists, ResponseIsRecorded, Records
<1>12. HeldIsRecorded'
  BY <1>1, <1>2 DEF IInv, Exists, HeldIsRecorded
<1> QED
  BY <1>3, <1>4, <1>5, <1>6, <1>7, <1>8, <1>9, <1>10, <1>11, <1>12 DEF IInv

(* IInv survives a step that at most moves rows from CONSUMED to REVOKED. *)
LEMMA StateMovesInv ==
  ASSUME IInv, nextIndex' = nextIndex, inFlight' = inFlight, held' = held,
         sessions' = [s \in Sessions |-> sessions'[s]],
         \A s \in Sessions :
           /\ sessions'[s] \in Session \cup {Nil}
           /\ sessions'[s] = Nil <=> sessions[s] = Nil
           /\ sessions[s] # Nil =>
                /\ sessions'[s].index = sessions[s].index
                /\ sessions'[s].deposit = sessions[s].deposit
                /\ sessions'[s].tokens = sessions[s].tokens
                /\ sessions'[s].cred = sessions[s].cred
                /\ \/ sessions'[s].state = sessions[s].state
                   \/ /\ sessions[s].state = "CONSUMED"
                      /\ sessions'[s].state = "REVOKED"
  PROVE  IInv'
<1>1. TypeOK'
  BY DEF IInv, TypeOK
<1>2. IndicesBelowCounter'
  BY DEF IInv, Exists, IndicesBelowCounter
<1>3. IndicesUnique'
  BY DEF IInv, Exists, IndicesUnique, Claimed
<1>4. CredMatchesState'
  BY DEF IInv, Exists, CredMatchesState
<1>5. CredsUnique'
  BY DEF IInv, Exists, CredsUnique
<1>6. SignedIsPrivate'
  BY DEF IInv, Exists, SignedIsPrivate, Signed
<1>7. TokensUnique'
  BY DEF IInv, Exists, TokensUnique
<1>8. SignedForSession'
  BY DEF IInv, Exists, SignedForSession, SessionsOf, Signed
<1>9. ResponseIsRecorded'
  BY DEF IInv, Exists, ResponseIsRecorded, Records
<1>10. HeldIsRecorded'
  BY DEF IInv, Exists, HeldIsRecorded
<1> QED
  BY <1>1, <1>2, <1>3, <1>4, <1>5, <1>6, <1>7, <1>8, <1>9, <1>10 DEF IInv

(* Expire preserves IInv. *)
LEMMA ExpireInv ==
  ASSUME IInv, NEW s \in Sessions, Expire(s)
  PROVE  IInv'
<1>1. /\ sessions[s] # Nil
      /\ sessions' = [sessions EXCEPT ![s] = [sessions[s] EXCEPT !.expired = TRUE]]
      /\ nextIndex' = nextIndex /\ inFlight' = inFlight /\ held' = held
  BY DEF Expire, Exists, IInv, TypeOK
<1>2. sessions[s] \in Session
  BY <1>1 DEF IInv, TypeOK
<1>3. [sessions[s] EXCEPT !.expired = TRUE] \in Session
  BY <1>2 DEF Session
<1> QED
  BY <1>1, <1>2, <1>3, StateMovesInv, IssuanceAssumption
  DEF IInv, TypeOK, Session

(* RevokeByDepositID preserves IInv. *)
LEMMA RevokeInv ==
  ASSUME IInv, NEW d \in Deposits, RevokeByDepositID(d)
  PROVE  IInv'
<1>1. /\ sessions' = [s \in Sessions |->
           IF Exists(s) /\ sessions[s].deposit = d /\ sessions[s].state = "CONSUMED"
           THEN [sessions[s] EXCEPT !.state = "REVOKED"]
           ELSE sessions[s]]
      /\ nextIndex' = nextIndex /\ inFlight' = inFlight /\ held' = held
  BY DEF RevokeByDepositID
<1>2. ASSUME NEW s \in Sessions, sessions[s] # Nil
      PROVE  /\ sessions[s] \in Session
             /\ [sessions[s] EXCEPT !.state = "REVOKED"] \in Session
  BY <1>2 DEF IInv, TypeOK, Session, SessionState
<1> QED
  BY <1>1, <1>2, StateMovesInv, IssuanceAssumption DEF IInv, TypeOK, Session, Exists

(* The initial state, with no session and no credential, satisfies IInv. *)
LEMMA InitInv == Init => IInv
BY IssuanceAssumption
DEF Init, IInv, TypeOK, IndicesBelowCounter, IndicesUnique, Claimed,
    CredMatchesState, CredsUnique, SignedIsPrivate, Signed, TokensUnique,
    SignedForSession, ResponseIsRecorded, HeldIsRecorded, Exists

(* Every step of every handler preserves IInv. *)
LEMMA StepInv == IInv /\ [Next]_vars => IInv'
<1> SUFFICES ASSUME IInv, [Next]_vars
             PROVE  IInv'
  OBVIOUS
<1>1. ASSUME NEW w \in Workers, NEW d \in Deposits, IssueCredential(w, d)
      PROVE  IInv'
  BY <1>1, IssueCredentialInv
<1>2. ASSUME NEW w \in Workers, CreateSession(w)
      PROVE  IInv'
  BY <1>2, CreateSessionInv
<1>3. ASSUME NEW w \in Workers, Credential(w)
      PROVE  IInv'
  BY <1>3, CredentialInv
<1>4. ASSUME NEW w \in Workers, ConsumeByToken(w)
      PROVE  IInv'
  <2>1. Signed(w) /\ nextIndex' = nextIndex /\ held' = held
    BY <1>4 DEF ConsumeByToken, Signed
  <2>2. ASSUME NEW s \in SessionsOf(inFlight[w].token), Consume(w, s)
        PROVE  IInv'
    BY <2>1, <2>2, ConsumeInv
  <2>3. CASE Refuse(w)
    BY <2>1, <2>3, RefuseInv
  <2> QED
    BY <1>4, <2>2, <2>3 DEF ConsumeByToken
<1>5. ASSUME NEW w \in Workers, Respond(w)
      PROVE  IInv'
  BY <1>5, RespondInv
<1>6. ASSUME NEW w \in Workers, Fail(w)
      PROVE  IInv'
  BY <1>6, FailInv
<1>7. ASSUME NEW s \in Sessions, Token(s)
      PROVE  IInv'
  BY <1>7, TokenInv
<1>8. ASSUME NEW s \in Sessions, Expire(s)
      PROVE  IInv'
  BY <1>8, ExpireInv
<1>9. ASSUME NEW d \in Deposits, RevokeByDepositID(d)
      PROVE  IInv'
  BY <1>9, RevokeInv
<1>10. CASE UNCHANGED vars
  BY <1>10
  DEF vars, IInv, TypeOK, IndicesBelowCounter, IndicesUnique, Claimed,
      CredMatchesState, CredsUnique, SignedIsPrivate, Signed, TokensUnique,
      SignedForSession, SessionsOf, ResponseIsRecorded, Records,
      HeldIsRecorded, Exists
<1> QED
  BY <1>1, <1>2, <1>3, <1>4, <1>5, <1>6, <1>7, <1>8, <1>9, <1>10
  DEF Next, Work

(* IInv holds in every reachable state. *)
LEMMA Invariance == Spec => []IInv
BY InitInv, StepInv, PTL DEF Spec

(* The tables, the counter and the requests in flight keep their types. *)
THEOREM TypeCorrect == Spec => []TypeOK
<1>1. IInv => TypeOK
  BY DEF IInv
<1> QED
  BY <1>1, Invariance, PTL

(* AllocateIndex and Create: no two sessions ever share a bit of the list. *)
THEOREM IndicesAreUnique == Spec => []IndicesUnique
<1>1. IInv => IndicesUnique
  BY DEF IInv
<1> QED
  BY <1>1, Invariance, PTL

(* Credential and ConsumeByToken: whatever a wallet holds, the store can     *)
(* revoke, under the deposit and the index signed into it.                   *)
THEOREM HeldIsAlwaysRecorded == Spec => []HeldIsRecorded
<1>1. IInv => HeldIsRecorded
  BY DEF IInv
<1> QED
  BY <1>1, Invariance, PTL

(* ConsumeByToken prevents double issuance, for any number of concurrent     *)
(* requests and of exchanges of the same code.                               *)
THEOREM NeverIssuedTwice == Spec => []NoDoubleIssuance
<1>1. IInv => NoDoubleIssuance
  <2> SUFFICES ASSUME IInv, NEW g \in held, NEW h \in held, g.index = h.index
               PROVE  g = h
    BY DEF NoDoubleIssuance
  <2>1. PICK s \in Sessions : Records(s, g.id, g.deposit, g.index)
    BY DEF IInv, HeldIsRecorded, Records
  <2>2. PICK z \in Sessions : Records(z, h.id, h.deposit, h.index)
    BY DEF IInv, HeldIsRecorded, Records
  <2>3. s = z
    BY <2>1, <2>2 DEF IInv, IndicesUnique, Records
  <2>4. g \in SignedCredential /\ h \in SignedCredential
    BY DEF IInv, TypeOK
  <2> QED
    BY <2>1, <2>2, <2>3, <2>4 DEF Records, SignedCredential
<1> QED
  BY <1>1, Invariance, PTL

(* CredentialStatus and StatusList tell a verifier the same about every      *)
(* credential whose index fits the list.                                     *)
THEOREM StatusSourcesAlwaysAgree == Spec => []StatusSourcesAgree
<1>1. IInv => StatusSourcesAgree
  <2> SUFFICES ASSUME IInv, NEW h \in held, h.index < ListSize
               PROVE  h.index \in StatusList <=> CredentialStatus(h.id) = "revoked"
    BY DEF StatusSourcesAgree
  <2>1. PICK s \in Sessions : Records(s, h.id, h.deposit, h.index)
    BY DEF IInv, HeldIsRecorded, Records
  <2>2. h.id # Nil /\ h.index \in Nat
    BY IssuanceAssumption DEF IInv, TypeOK, SignedCredential
  <2>3. \A z \in Sessions : Exists(z) /\ sessions[z].cred = h.id => z = s
    BY <2>1, <2>2 DEF IInv, CredsUnique, Records
  <2>4. \A z \in Sessions : Exists(z) /\ sessions[z].index = h.index => z = s
    BY <2>1 DEF IInv, IndicesUnique, Records
  <2>5. h.index \in StatusList <=> sessions[s].state = "REVOKED"
    BY <2>1, <2>2, <2>4, IssuanceAssumption
    DEF StatusList, RevokedStatusListIndices, Records
  <2>6. CredentialStatus(h.id) = "revoked" <=> sessions[s].state = "REVOKED"
    BY <2>1, <2>3 DEF CredentialStatus, Records
  <2> QED
    BY <2>5, <2>6
<1> QED
  BY <1>1, Invariance, PTL

-----------------------------------------------------------------------------
(* Refinement: every step is a step of CredentialRegistry or invisible. *)

Public == [s \in Sessions |-> Entry(sessions[s])]

HeldIds == {h.id : h \in held}

(* What the outside sees of a row determines whether it exists and how far   *)
(* it has come.                                                              *)
LEMMA EntryFacts ==
  ASSUME NEW row \in Session
  PROVE  /\ Entry(row) \in PublicEntry
         /\ Entry(row) # Nil
         /\ Entry(row).deposit = row.deposit
         /\ Entry(row).index = row.index
         /\ Entry(row).cred = row.cred
         /\ Entry(row).status = "offered" <=> row.state = "PENDING"
         /\ Entry(row).status = "active" <=> row.state = "CONSUMED"
         /\ Entry(row).status = "revoked" <=> row.state = "REVOKED"
<1>1. row # Nil
  BY IssuanceAssumption
<1>2. Entry(row) = [deposit |-> row.deposit, index |-> row.index,
                    status |-> PublicStatus(row.state), cred |-> row.cred]
  BY <1>1 DEF Entry
<1>3. /\ PublicStatus(row.state) \in {"offered", "active", "revoked"}
      /\ PublicStatus(row.state) = "offered" <=> row.state = "PENDING"
      /\ PublicStatus(row.state) = "active" <=> row.state = "CONSUMED"
      /\ PublicStatus(row.state) = "revoked" <=> row.state = "REVOKED"
  BY DEF PublicStatus, Session, SessionState
<1>4. Entry(row) \in PublicEntry
  BY <1>2, <1>3 DEF PublicEntry, Session
<1> QED
  BY <1>2, <1>3, <1>4, RegistryAssumption

(* Two rows that differ in tokens and expiry only look the same. *)
LEMMA EntrySame ==
  ASSUME NEW a \in Session, NEW b \in Session,
         a.deposit = b.deposit, a.index = b.index, a.state = b.state,
         a.cred = b.cred
  PROVE  Entry(a) = Entry(b)
BY IssuanceAssumption DEF Entry

(* CreateSession is Offer. *)
LEMMA CreateRefines ==
  ASSUME IInv, NEW w \in Workers, CreateSession(w)
  PROVE  \E s \in Sessions : Registry!Offer(s)
<1> DEFINE row == [deposit |-> inFlight[w].deposit, state |-> "PENDING",
                   tokens |-> {}, expired |-> FALSE, cred |-> Nil,
                   index |-> inFlight[w].index]
<1>1. PICK s \in Sessions :
        sessions[s] = Nil /\ sessions' = [sessions EXCEPT ![s] = row]
  BY DEF CreateSession
<1>2. inFlight[w] # Nil /\ inFlight[w].pc = "create" /\ held' = held
  BY DEF CreateSession
<1>3. inFlight[w] \in Call /\ row \in Session
  BY <1>2 DEF IInv, TypeOK, Call, Session, SessionState
<1>4. sessions'[s] = row /\ \A z \in Sessions \ {s} : sessions'[z] = sessions[z]
  BY <1>1 DEF IInv, TypeOK
<1>5. /\ Entry(row) # Nil
      /\ Entry(row).deposit \in Deposits
      /\ Entry(row).status = "offered"
      /\ Entry(row).cred = Nil
      /\ Entry(row).index = inFlight[w].index
  BY <1>3, EntryFacts DEF Call
<1>6. \A z \in Sessions \ {s} : Entry(sessions[z]) # Nil =>
        Entry(sessions[z]).index # inFlight[w].index
  <2> SUFFICES ASSUME NEW z \in Sessions \ {s}, Entry(sessions[z]) # Nil
               PROVE  Entry(sessions[z]).index # inFlight[w].index
    OBVIOUS
  <2>1. sessions[z] # Nil
    BY DEF Entry
  <2>2. sessions[z] \in Session
    BY <2>1 DEF IInv, TypeOK
  <2>3. inFlight[w].index # sessions[z].index
    BY <1>2, <2>1 DEF IInv, IndicesUnique, Claimed, Exists
  <2> QED
    BY <2>2, <2>3, EntryFacts
<1>7. Entry(sessions[s]) = Nil
  BY <1>1 DEF Entry
<1> HIDE DEF row
<1> QED
  BY <1>2, <1>4, <1>5, <1>6, <1>7
  DEF Registry!Offer, Registry!Opened, Registry!Others, Registry!KeepOthers

(* Consume is Issue: the credential is fresh, for it is known to its request *)
(* only.                                                                     *)
LEMMA ConsumeRefines ==
  ASSUME IInv, NEW w \in Workers, Signed(w),
         NEW s \in SessionsOf(inFlight[w].token), Consume(w, s), held' = held
  PROVE  \E z \in Sessions : Registry!Issue(z)
<1> DEFINE row == [sessions[s] EXCEPT !.state = "CONSUMED",
                                      !.cred = inFlight[w].cred]
<1>1. /\ s \in Sessions /\ sessions[s] # Nil
      /\ sessions[s].state = "PENDING"
      /\ inFlight[w] # Nil
  BY DEF SessionsOf, Exists, Consume, Usable, Signed
<1>2. sessions[s] \in Session /\ inFlight[w] \in Call
  BY <1>1 DEF IInv, TypeOK
<1>3. /\ inFlight[w].cred # Nil
      /\ \A z \in Sessions : Exists(z) => sessions[z].cred # inFlight[w].cred
      /\ \A h \in held : h.id # inFlight[w].cred
  BY DEF IInv, SignedIsPrivate
<1>4. row \in Session
  BY <1>2 DEF Session, SessionState, Call
<1>5. sessions' = [sessions EXCEPT ![s] = row]
  BY <1>1 DEF Consume, IInv, TypeOK
<1>6. sessions'[s] = row /\ \A z \in Sessions \ {s} : sessions'[z] = sessions[z]
  BY <1>1, <1>5 DEF IInv, TypeOK
<1>7. /\ Entry(sessions[s]) # Nil
      /\ Entry(sessions[s]).status = "offered"
  BY <1>1, <1>2, EntryFacts
<1>8. Entry(row).cred = inFlight[w].cred
  BY <1>2, <1>4, EntryFacts DEF Session
<1>9. Entry(row) = [deposit |-> Entry(sessions[s]).deposit,
                    index |-> Entry(sessions[s]).index,
                    status |-> "active", cred |-> inFlight[w].cred]
  <2>1. row # Nil
    BY <1>4, IssuanceAssumption
  <2>2. /\ row.deposit = sessions[s].deposit /\ row.index = sessions[s].index
        /\ row.state = "CONSUMED" /\ row.cred = inFlight[w].cred
    BY <1>2 DEF Session
  <2>3. Entry(row) = [deposit |-> sessions[s].deposit, index |-> sessions[s].index,
                      status |-> "active", cred |-> inFlight[w].cred]
    BY <2>1, <2>2 DEF Entry, PublicStatus
  <2> HIDE DEF row
  <2> QED
    BY <1>2, <2>3, EntryFacts
<1>10. \A z \in Sessions \ {s} : Entry(sessions[z]) # Nil =>
         Entry(sessions[z]).cred # inFlight[w].cred
  <2> SUFFICES ASSUME NEW z \in Sessions \ {s}, Entry(sessions[z]) # Nil
               PROVE  Entry(sessions[z]).cred # inFlight[w].cred
    OBVIOUS
  <2>1. sessions[z] # Nil
    BY DEF Entry
  <2>2. sessions[z] \in Session
    BY <2>1 DEF IInv, TypeOK
  <2> QED
    BY <1>3, <2>1, <2>2, EntryFacts DEF Exists
<1>11. inFlight[w].cred \notin {h.id : h \in held} \cup {Nil}
  BY <1>3
<1> HIDE DEF row
<1>12. Registry!Opened(s) /\ Registry!KeepOthers(s)
  BY <1>1, <1>6, <1>7 DEF Registry!Opened, Registry!KeepOthers
<1>13. \A z \in Registry!Others(s) :
         Entry(sessions[z]).cred # inFlight[w].cred /\ z \in Sessions
  BY <1>10 DEF Registry!Others, Registry!Opened
<1>14. Public[s] = Entry(sessions[s]) /\ Public'[s] = Entry(row)
  BY <1>1, <1>6 DEF Public
<1>15. Registry!Issue(s)
  BY <1>7, <1>8, <1>9, <1>11, <1>12, <1>13, <1>14 DEF Registry!Issue, Public
<1> QED
  BY <1>1, <1>15

(* Respond is Deliver. *)
LEMMA RespondRefines ==
  ASSUME IInv, NEW w \in Workers, Respond(w)
  PROVE  \E s \in Sessions : Registry!Deliver(s)
<1>1. PICK s \in Sessions :
        Records(s, inFlight[w].cred, inFlight[w].deposit, inFlight[w].index)
  BY DEF IInv, ResponseIsRecorded, Respond
<1>2. sessions[s] \in Session
  BY <1>1 DEF IInv, TypeOK, Records, Exists
<1>3. /\ Entry(sessions[s]) # Nil
      /\ Entry(sessions[s]).status \in {"active", "revoked"}
      /\ Entry(sessions[s]).cred = inFlight[w].cred
  BY <1>1, <1>2, EntryFacts DEF Records
<1> DEFINE new == [id |-> inFlight[w].cred, deposit |-> inFlight[w].deposit,
                   index |-> inFlight[w].index]
<1>4. HeldIds' = HeldIds \cup {inFlight[w].cred}
  <2>1. held' = held \cup {new} /\ new.id = inFlight[w].cred
    BY DEF Respond
  <2> HIDE DEF new
  <2> QED
    BY <2>1 DEF HeldIds
<1>5. Public' = Public
  BY DEF Respond, Public
<1> QED
  BY <1>3, <1>4, <1>5 DEF Registry!Deliver, Registry!Opened, Public, HeldIds

(* RevokeByDepositID is Revoke. *)
LEMMA RevokeRefines ==
  ASSUME IInv, NEW d \in Deposits, RevokeByDepositID(d)
  PROVE  Registry!Revoke(d)
<1> DEFINE over(s) == /\ Entry(sessions[s]) # Nil
                      /\ Entry(sessions[s]).deposit = d
                      /\ Entry(sessions[s]).status = "active"
<1>1. ASSUME NEW s \in Sessions
      PROVE  Entry(sessions'[s]) = IF over(s)
                                   THEN [Entry(sessions[s]) EXCEPT !.status = "revoked"]
                                   ELSE Entry(sessions[s])
  <2>1. CASE sessions[s] = Nil
    BY <2>1 DEF RevokeByDepositID, Exists, Entry
  <2>2. CASE sessions[s] # Nil
    <3>1. sessions[s] \in Session
      BY <2>2 DEF IInv, TypeOK
    <3>2. over(s) <=> sessions[s].deposit = d /\ sessions[s].state = "CONSUMED"
      BY <3>1, EntryFacts
    <3>3. CASE over(s)
      <4>1. sessions'[s] = [sessions[s] EXCEPT !.state = "REVOKED"]
        BY <2>2, <3>2, <3>3 DEF RevokeByDepositID, Exists
      <4>2. sessions'[s] \in Session
        BY <3>1, <4>1 DEF Session, SessionState
      <4>3. /\ sessions'[s] # Nil
            /\ sessions'[s].deposit = sessions[s].deposit
            /\ sessions'[s].index = sessions[s].index
            /\ sessions'[s].cred = sessions[s].cred
            /\ sessions'[s].state = "REVOKED"
        BY <3>1, <4>1, <4>2, IssuanceAssumption DEF Session
      <4> QED
        BY <2>2, <3>3, <4>3 DEF Entry, PublicStatus
    <3>4. CASE ~over(s)
      <4>1. sessions'[s] = sessions[s]
        BY <3>2, <3>4 DEF RevokeByDepositID
      <4> QED
        BY <3>4, <4>1
    <3> QED
      BY <3>3, <3>4
  <2> QED
    BY <2>1, <2>2
<1>2. held' = held
  BY DEF RevokeByDepositID
<1> QED
  BY <1>1, <1>2 DEF Registry!Revoke, Registry!Opened

(* Token and Expire change nothing the outside sees. *)
LEMMA InvisibleRow ==
  ASSUME IInv, NEW s \in Sessions, Token(s) \/ Expire(s)
  PROVE  Public' = Public
<1>1. PICK row : sessions' = [sessions EXCEPT ![s] = row]
                 /\ row \in Session
                 /\ row.deposit = sessions[s].deposit
                 /\ row.index = sessions[s].index
                 /\ row.state = sessions[s].state
                 /\ row.cred = sessions[s].cred
  <2>1. sessions[s] \in Session
    BY DEF IInv, TypeOK, Token, Expire, Exists
  <2>2. CASE Token(s)
    <3>1. PICK t \in FreshTokens :
            sessions' = [sessions EXCEPT ![s].tokens = WithToken(sessions[s].tokens, t)]
      BY <2>2 DEF Token
    <3>2. WithToken(sessions[s].tokens, t) \in SUBSET Tokens
      BY <2>1, <3>1 DEF WithToken, Session, FreshTokens
    <3> DEFINE r == [sessions[s] EXCEPT !.tokens = WithToken(sessions[s].tokens, t)]
    <3>3. r \in Session /\ r.deposit = sessions[s].deposit
          /\ r.index = sessions[s].index /\ r.state = sessions[s].state
          /\ r.cred = sessions[s].cred
      BY <2>1, <3>2 DEF Session
    <3>4. sessions' = [sessions EXCEPT ![s] = r]
      BY <3>1 DEF IInv, TypeOK
    <3> QED
      BY <3>3, <3>4
  <2>3. CASE Expire(s)
    <3> DEFINE r == [sessions[s] EXCEPT !.expired = TRUE]
    <3>1. r \in Session /\ r.deposit = sessions[s].deposit
          /\ r.index = sessions[s].index /\ r.state = sessions[s].state
          /\ r.cred = sessions[s].cred
      BY <2>1 DEF Session
    <3>2. sessions' = [sessions EXCEPT ![s] = r]
      BY <2>3 DEF Expire, IInv, TypeOK
    <3> QED
      BY <3>1, <3>2
  <2> QED
    BY <2>2, <2>3
<1>2. sessions[s] \in Session
  BY DEF IInv, TypeOK, Token, Expire, Exists
<1>3. Entry(row) = Entry(sessions[s])
  BY <1>1, <1>2, EntrySame
<1>4. \A z \in Sessions : Entry(sessions'[z]) = Entry(sessions[z])
  BY <1>1, <1>3 DEF IInv, TypeOK
<1> QED
  BY <1>4 DEF Public

(* Every step of the system is a step of CredentialRegistry, or changes      *)
(* nothing that it describes.                                                *)
LEMMA StepRefines ==
  IInv /\ [Next]_vars => [Registry!Next]_(Registry!vars)
<1> SUFFICES ASSUME IInv, [Next]_vars
             PROVE  Registry!Next \/ (Public' = Public /\ HeldIds' = HeldIds)
  BY DEF Registry!vars, Public, HeldIds
<1>1. ASSUME sessions' = sessions, held' = held
      PROVE  Public' = Public /\ HeldIds' = HeldIds
  BY <1>1 DEF Public, HeldIds
<1>2. ASSUME NEW w \in Workers, CreateSession(w)
      PROVE  Registry!Next
  BY <1>2, CreateRefines DEF Registry!Next
<1>3. ASSUME NEW w \in Workers, ConsumeByToken(w), ~(sessions' = sessions)
      PROVE  Registry!Next
  <2>1. Signed(w) /\ held' = held
    BY <1>3 DEF ConsumeByToken, Signed
  <2>2. PICK s \in SessionsOf(inFlight[w].token) : Consume(w, s)
    BY <1>3 DEF ConsumeByToken, Refuse
  <2> QED
    BY <2>1, <2>2, ConsumeRefines DEF Registry!Next
<1>4. ASSUME NEW w \in Workers, Respond(w)
      PROVE  Registry!Next
  BY <1>4, RespondRefines DEF Registry!Next
<1>5. ASSUME NEW d \in Deposits, RevokeByDepositID(d)
      PROVE  Registry!Next
  BY <1>5, RevokeRefines DEF Registry!Next
<1>6. ASSUME NEW s \in Sessions, Token(s) \/ Expire(s)
      PROVE  Public' = Public /\ HeldIds' = HeldIds
  BY <1>6, InvisibleRow DEF HeldIds, Token, Expire
<1>7. ASSUME NEW w \in Workers,
             (\E d \in Deposits : IssueCredential(w, d)) \/ Credential(w) \/ Fail(w)
      PROVE  sessions' = sessions /\ held' = held
  BY <1>7 DEF IssueCredential, Credential, Fail
<1>8. ASSUME NEW w \in Workers, ConsumeByToken(w)
      PROVE  held' = held
  BY <1>8 DEF ConsumeByToken
<1>9. ASSUME UNCHANGED vars
      PROVE  sessions' = sessions /\ held' = held
  BY <1>9 DEF vars
<1> QED
  BY <1>1, <1>2, <1>3, <1>4, <1>5, <1>6, <1>7, <1>8, <1>9 DEF Next, Work

(* Both session stores implement CredentialRegistry. *)
THEOREM IssuanceKeepsRegistry == Spec => KeepsRegistry
<1>1. Init => Registry!Init
  BY DEF Init, Registry!Init, Entry
<1> QED
  BY <1>1, Invariance, StepRefines, PTL DEF Spec, KeepsRegistry, Registry!Spec

(* One step: a REVOKED session keeps its state, credential and index, as    *)
(* every step is one of CredentialRegistry or shows nothing.                 *)
LEMMA RevocationStep ==
  ASSUME IInv, [Next]_vars, IInv', NEW s \in Sessions, Exists(s),
         sessions[s].state = "REVOKED"
  PROVE  /\ Exists(s)'
         /\ sessions'[s].state = "REVOKED"
         /\ sessions'[s].cred = sessions[s].cred
         /\ sessions'[s].index = sessions[s].index
<1>1. sessions[s] \in Session
  BY DEF IInv, TypeOK, Exists
<1>2. Registry!Next \/ Public' = Public
  BY StepRefines DEF Registry!vars, Public
<1>3. /\ Entry(sessions[s]) # Nil
      /\ Entry(sessions[s]).status = "revoked"
  BY <1>1, EntryFacts
<1>4. Entry(sessions'[s]) = Entry(sessions[s])
  <2>1. ASSUME NEW z \in Sessions, Registry!Offer(z)
        PROVE  Entry(sessions'[s]) = Entry(sessions[s])
    BY <1>3, <2>1 DEF Registry!Offer, Registry!Opened, Registry!KeepOthers
  <2>2. ASSUME NEW z \in Sessions, Registry!Issue(z)
        PROVE  Entry(sessions'[s]) = Entry(sessions[s])
    BY <1>3, <2>2 DEF Registry!Issue, Registry!KeepOthers
  <2>3. ASSUME NEW z \in Sessions, Registry!Deliver(z)
        PROVE  Entry(sessions'[s]) = Entry(sessions[s])
    <3>1. Public' = Public
      BY <2>3 DEF Registry!Deliver, Public
    <3> QED
      BY <3>1 DEF Public
  <2>4. ASSUME NEW d \in Deposits, Registry!Revoke(d)
        PROVE  Entry(sessions'[s]) = Entry(sessions[s])
    <3>1. Public' = [z \in Sessions |->
            IF Registry!Opened(z) /\ Public[z].deposit = d
                 /\ Public[z].status = "active"
            THEN [Public[z] EXCEPT !.status = "revoked"]
            ELSE Public[z]]
      BY <2>4 DEF Registry!Revoke, Public
    <3>2. Public'[s] = Public[s]
      BY <1>3, <3>1 DEF Public
    <3> QED
      BY <3>2 DEF Public
  <2>5. CASE Public' = Public
    BY <2>5 DEF Public
  <2> QED
    BY <1>2, <2>1, <2>2, <2>3, <2>4, <2>5 DEF Registry!Next
<1>5. sessions'[s] # Nil
  BY <1>3, <1>4 DEF Entry
<1>6. sessions'[s] \in Session
  BY <1>5 DEF IInv, TypeOK
<1> QED
  BY <1>1, <1>3, <1>4, <1>5, <1>6, EntryFacts DEF Exists

(* RevokeByDepositID is for good: nothing brings a REVOKED session back or   *)
(* changes its credential or its index.                                      *)
THEOREM RevocationStays == Spec => RevocationIsPermanent
<1>1. IInv /\ IInv' /\ [Next]_vars =>
        [\A s \in Sessions : Exists(s) /\ sessions[s].state = "REVOKED" =>
           /\ Exists(s)'
           /\ sessions'[s].state = "REVOKED"
           /\ sessions'[s].cred = sessions[s].cred
           /\ sessions'[s].index = sessions[s].index]_vars
  BY RevocationStep
<1> QED
  BY <1>1, Invariance, PTL DEF Spec, RevocationIsPermanent

-----------------------------------------------------------------------------
(* The status list *)

List ==
  [bits : [Bytes -> SUBSET (0 .. (ByteSize - 1))], todo : SUBSET Nat,
   asOf : SUBSET Sessions]

IsRevoked(s) == Exists(s) /\ sessions[s].state = "REVOKED"

(* The loop invariant. *)
LoopInv ==
  /\ list \in List
  /\ \A s \in list.asOf : IsRevoked(s)
  /\ \A i \in list.todo : \E s \in list.asOf : sessions[s].index = i
  /\ \A i \in Nat : i < ListSize /\ BitAt(list.bits, i) =>
       \E s \in list.asOf : sessions[s].index = i
  /\ \A s \in list.asOf : sessions[s].index < ListSize =>
       \/ sessions[s].index \in list.todo
       \/ BitAt(list.bits, sessions[s].index)

(* An index is its byte and its place in that byte. *)
LEMMA Division ==
  ASSUME NEW i \in Nat, NEW j \in Nat
  PROVE  /\ i \div ByteSize \in Nat
         /\ i % ByteSize \in 0 .. (ByteSize - 1)
         /\ i \div ByteSize = j \div ByteSize /\ i % ByteSize = j % ByteSize
              => i = j
         /\ i < ListSize => i \div ByteSize \in Bytes
<1>1. ByteSize \in Nat /\ ByteSize > 0 /\ ListSize \in Nat
  BY StatusListAssumption, IssuanceAssumption
<1>2. \A n \in Nat : /\ n = ByteSize * (n \div ByteSize) + (n % ByteSize)
                     /\ n \div ByteSize \in Int
                     /\ n % ByteSize \in 0 .. (ByteSize - 1)
  BY <1>1
<1>3. \A p, q \in Int : p <= q => ByteSize * p <= ByteSize * q
  BY <1>1
<1>4. i \div ByteSize \in Nat
  <2>1. ASSUME i \div ByteSize <= -1
        PROVE  FALSE
    <3>1. ByteSize * (i \div ByteSize) <= ByteSize * (-1)
      BY <1>2, <1>3, <2>1
    <3> QED
      BY <1>1, <1>2, <3>1
  <2> QED
    BY <1>2, <2>1
<1>5. ASSUME i \div ByteSize = j \div ByteSize, i % ByteSize = j % ByteSize
      PROVE  i = j
  BY <1>2, <1>5
<1>6. ASSUME i < ListSize
      PROVE  i \div ByteSize \in Bytes
  <2>1. ListSize = ByteSize * (ListSize \div ByteSize)
    BY <1>1, <1>2, StatusListAssumption
  <2>2. ASSUME ListSize \div ByteSize <= i \div ByteSize
        PROVE  FALSE
    <3>1. ByteSize * (ListSize \div ByteSize) <= ByteSize * (i \div ByteSize)
      BY <1>1, <1>2, <1>3, <2>2
    <3> QED
      BY <1>1, <1>2, <1>6, <2>1, <3>1
  <2> QED
    BY <1>1, <1>2, <1>4, <2>2 DEF Bytes
<1> QED
  BY <1>2, <1>4, <1>5, <1>6

(* Setting a bit sets that bit and no other. *)
LEMMA SetBitFacts ==
  ASSUME NEW bits \in [Bytes -> SUBSET (0 .. (ByteSize - 1))],
         NEW i \in Nat, i < ListSize
  PROVE  /\ SetBit(bits, i) \in [Bytes -> SUBSET (0 .. (ByteSize - 1))]
         /\ BitAt(SetBit(bits, i), i)
         /\ \A j \in Nat : j < ListSize =>
              (BitAt(SetBit(bits, i), j) <=> j = i \/ BitAt(bits, j))
<1>1. ByteSize \in Nat /\ ByteSize > 0
  BY StatusListAssumption
<1>2. i \div ByteSize \in Bytes /\ i % ByteSize \in 0 .. (ByteSize - 1)
  BY Division
<1>3. ByteSize - 1 - (i % ByteSize) \in 0 .. (ByteSize - 1)
  BY <1>1, <1>2
<1>4. SetBit(bits, i) \in [Bytes -> SUBSET (0 .. (ByteSize - 1))]
  BY <1>2, <1>3 DEF SetBit
<1>5. BitAt(SetBit(bits, i), i)
  BY <1>2 DEF SetBit, BitAt
<1>6. ASSUME NEW j \in Nat, j < ListSize
      PROVE  BitAt(SetBit(bits, i), j) <=> j = i \/ BitAt(bits, j)
  <2>1. /\ j \div ByteSize \in Bytes /\ j % ByteSize \in 0 .. (ByteSize - 1)
        /\ i \div ByteSize = j \div ByteSize /\ i % ByteSize = j % ByteSize
             => i = j
    BY <1>6, Division
  <2>2. CASE i \div ByteSize # j \div ByteSize
    BY <1>2, <2>1, <2>2 DEF SetBit, BitAt
  <2>3. CASE i \div ByteSize = j \div ByteSize
    <3>1. SetBit(bits, i)[j \div ByteSize] =
            bits[j \div ByteSize] \cup {ByteSize - 1 - (i % ByteSize)}
      BY <1>2, <2>3 DEF SetBit
    <3>2. ByteSize - 1 - (j % ByteSize) = ByteSize - 1 - (i % ByteSize)
            <=> j = i
      BY <1>1, <1>2, <2>1, <2>3
    <3> QED
      BY <3>1, <3>2 DEF BitAt
  <2> QED
    BY <2>2, <2>3
<1> QED
  BY <1>4, <1>5, <1>6

(* Reading the indices establishes the loop invariant: no bit is set. *)
LEMMA ReadIndicesInv ==
  ASSUME IInv, ReadIndices
  PROVE  LoopInv'
<1> DEFINE none == [b \in Bytes |-> {}]
<1>1. /\ list' = [bits |-> none, todo |-> RevokedStatusListIndices,
                  asOf |-> RevokedSessions]
      /\ sessions' = sessions
  BY DEF ReadIndices, vars
<1>2. \A s \in RevokedSessions : s \in Sessions /\ IsRevoked(s)
  BY DEF RevokedSessions, IsRevoked
<1>3. \A s \in RevokedSessions : sessions[s].index \in Nat
  BY <1>2 DEF IsRevoked, IInv, TypeOK, Exists, Session
<1>4. /\ \A i \in RevokedStatusListIndices :
           \E s \in RevokedSessions : sessions[s].index = i
      /\ \A s \in RevokedSessions :
           sessions[s].index \in RevokedStatusListIndices
  BY DEF RevokedStatusListIndices, RevokedSessions
<1>5. none \in [Bytes -> SUBSET (0 .. (ByteSize - 1))]
  OBVIOUS
<1>6. ASSUME NEW i \in Nat, i < ListSize
      PROVE  ~BitAt(none, i)
  BY <1>6, Division DEF BitAt
<1> HIDE DEF none
<1>7. (list \in List)'
  BY <1>1, <1>2, <1>3, <1>4, <1>5 DEF List
<1>8. (\A s \in list.asOf : IsRevoked(s))'
  BY <1>1, <1>2 DEF IsRevoked, Exists
<1> QED
  BY <1>1, <1>4, <1>6, <1>7, <1>8 DEF LoopInv

(* A round of the loop keeps it: the bit set is that of a revoked session. *)
LEMMA EncodeIndexInv ==
  ASSUME IInv, LoopInv, NEW i \in list.todo, EncodeIndex(i)
  PROVE  LoopInv'
<1>1. i \in Nat /\ ListSize \in Nat
  BY IssuanceAssumption DEF LoopInv, List
<1> DEFINE bits == IF i < 0 \/ i >= ListSize THEN list.bits
                   ELSE SetBit(list.bits, i)
<1>2. /\ list' = [list EXCEPT !.todo = list.todo \ {i}, !.bits = bits]
      /\ sessions' = sessions
  BY DEF EncodeIndex, vars
<1>3. /\ list'.todo = list.todo \ {i}
      /\ list'.bits = bits
      /\ list'.asOf = list.asOf
  BY <1>2 DEF LoopInv, List
<1>4. /\ bits \in [Bytes -> SUBSET (0 .. (ByteSize - 1))]
      /\ i < ListSize => BitAt(bits, i)
      /\ \A j \in Nat : j < ListSize =>
           (BitAt(bits, j) <=> j = i \/ BitAt(list.bits, j))
  <2>1. CASE i < ListSize
    <3>1. bits = SetBit(list.bits, i)
      BY <1>1, <2>1
    <3> QED
      BY <1>1, <2>1, <3>1, SetBitFacts DEF LoopInv, List
  <2>2. CASE ~(i < ListSize)
    BY <1>1, <2>2 DEF LoopInv, List
  <2> QED
    BY <2>1, <2>2
<1> HIDE DEF bits
<1>5. (list \in List)'
  BY <1>2, <1>4 DEF LoopInv, List
<1>6. (\A s \in list.asOf : IsRevoked(s))'
  BY <1>2, <1>3 DEF LoopInv, IsRevoked, Exists
<1>7. \A s \in list.asOf : sessions[s].index \in Nat
  BY DEF LoopInv, List, IsRevoked, IInv, TypeOK, Exists, Session
<1>8. (\A j \in list.todo : \E s \in list.asOf : sessions[s].index = j)'
  BY <1>2, <1>3 DEF LoopInv
<1>9. (\A j \in Nat : j < ListSize /\ BitAt(list.bits, j) =>
         \E s \in list.asOf : sessions[s].index = j)'
  BY <1>2, <1>3, <1>4 DEF LoopInv
<1>10. (\A s \in list.asOf : sessions[s].index < ListSize =>
          \/ sessions[s].index \in list.todo
          \/ BitAt(list.bits, sessions[s].index))'
  BY <1>2, <1>3, <1>4, <1>7 DEF LoopInv
<1> QED
  BY <1>5, <1>6, <1>8, <1>9, <1>10 DEF LoopInv

(* Whatever the issuance endpoints do meanwhile keeps it: revoked sessions   *)
(* stay revoked and keep their index.                                        *)
LEMMA ElsewhereInv ==
  ASSUME IInv, IInv', LoopInv, [Next]_vars, list' = list
  PROVE  LoopInv'
<1>1. \A s \in list.asOf : IsRevoked(s) /\ s \in Sessions
  BY DEF LoopInv, List
<1>2. \A s \in list.asOf :
        IsRevoked(s)' /\ sessions'[s].index = sessions[s].index
  BY <1>1, RevocationStep DEF IsRevoked
<1>3. list \in List
  BY DEF LoopInv
<1>4. (list \in List)'
  BY <1>3 DEF List
<1>5. (\A s \in list.asOf : IsRevoked(s))'
  BY <1>2
<1>6. (\A i \in list.todo : \E s \in list.asOf : sessions[s].index = i)'
  BY <1>2 DEF LoopInv
<1>7. (\A i \in Nat : i < ListSize /\ BitAt(list.bits, i) =>
         \E s \in list.asOf : sessions[s].index = i)'
  BY <1>2 DEF LoopInv, BitAt
<1>8. (\A s \in list.asOf : sessions[s].index < ListSize =>
         \/ sessions[s].index \in list.todo
         \/ BitAt(list.bits, sessions[s].index))'
  BY <1>2 DEF LoopInv, BitAt
<1> QED
  BY <1>4, <1>5, <1>6, <1>7, <1>8 DEF LoopInv

(* The loop of BuildEncodedList keeps its invariant, whatever else runs. *)
LEMMA ListInvariance == ListSpec => [](IInv /\ LoopInv)
<1>1. ListInit => IInv /\ LoopInv
  <2> SUFFICES ASSUME ListInit PROVE IInv /\ LoopInv
    OBVIOUS
  <2>1. IInv
    BY InitInv DEF ListInit
  <2>2. /\ list.bits = [b \in Bytes |-> {}]
        /\ list.todo = {} /\ list.asOf = {}
        /\ list \in List
    BY DEF ListInit, List
  <2>3. ASSUME NEW i \in Nat, i < ListSize
        PROVE  ~BitAt(list.bits, i)
    BY <2>2, <2>3, Division DEF BitAt
  <2> QED
    BY <2>1, <2>2, <2>3 DEF LoopInv
<1>2. IInv /\ LoopInv /\ [ListNext]_listVars => (IInv /\ LoopInv)'
  <2> SUFFICES ASSUME IInv, LoopInv, [ListNext]_listVars
               PROVE  (IInv /\ LoopInv)'
    OBVIOUS
  <2>1. [Next]_vars
    BY DEF ListNext, ReadIndices, EncodeIndex, listVars, vars
  <2>2. IInv'
    BY <2>1, StepInv
  <2>3. CASE ReadIndices
    BY <2>2, <2>3, ReadIndicesInv
  <2>4. ASSUME NEW i \in list.todo, EncodeIndex(i)
        PROVE  LoopInv'
    BY <2>4, EncodeIndexInv
  <2>5. CASE list' = list
    BY <2>1, <2>2, <2>5, ElsewhereInv
  <2> QED
    BY <2>2, <2>3, <2>4, <2>5 DEF ListNext, listVars
<1> QED
  BY <1>1, <1>2, PTL DEF ListSpec

(* StatusList and BuildEncodedList: in a list that is served, however late   *)
(* it is read, 1 means revoked, and every session revoked before the list    *)
(* was asked for has its 1, if the list has an entry for it.                 *)
THEOREM ListIsTrue == ListSpec => []ListTellsTheTruth
<1>1. IInv /\ LoopInv => ListTellsTheTruth
  <2> SUFFICES ASSUME IInv, LoopInv, list.todo = {}, NEW s \in Sessions,
                      Exists(s), sessions[s].index < ListSize
               PROVE  /\ BitAt(list.bits, sessions[s].index) =>
                           sessions[s].state = "REVOKED"
                      /\ s \in list.asOf => BitAt(list.bits, sessions[s].index)
    BY DEF ListTellsTheTruth
  <2>1. sessions[s].index \in Nat
    BY DEF IInv, TypeOK, Exists, Session
  <2>2. ASSUME BitAt(list.bits, sessions[s].index)
        PROVE  sessions[s].state = "REVOKED"
    <3>1. PICK z \in list.asOf : sessions[z].index = sessions[s].index
      BY <2>1, <2>2 DEF LoopInv
    <3>2. z \in Sessions /\ IsRevoked(z)
      BY DEF LoopInv, List
    <3>3. z = s
      BY <3>1, <3>2 DEF IInv, IndicesUnique, IsRevoked
    <3> QED
      BY <3>2, <3>3 DEF IsRevoked
  <2>3. s \in list.asOf => BitAt(list.bits, sessions[s].index)
    BY DEF LoopInv
  <2> QED
    BY <2>2, <2>3
<1> QED
  BY <1>1, ListInvariance, PTL
=============================================================================
