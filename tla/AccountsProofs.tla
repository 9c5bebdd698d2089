---------------------------- MODULE AccountsProofs ----------------------------
(* Theorems about Accounts, for any number of calls, threads and faults. *)
EXTENDS Accounts, FiniteSetTheorems, TLAPS

Kinds == {"login", "reset", "change", "visit", "logout", "ticket", "socket"}

\* The requests that resolve_session comes before.
Kept == {"change", "visit", "logout", "ticket"}

\* The token a call presents was handed out by a call that has ended.
Presented ==
    \A c \in Calls :
        /\ answer[c] \in {"granted", "opened"} => pc[c] = "done"
        /\ pc[c] # "new" =>
              /\ req[c] \in Sent
              /\ req[c].token = First
                    \/ (req[c].token \in Calls /\ answer[req[c].token] = "granted")
        /\ pc[c] \in {"resolve", "touch"} => req[c].kind \in Kept

\* A row has the name of a call that has made it, and makes it no more.
MadeOnce ==
    \A c \in Calls :
        /\ sess[c] # "absent" \/ c \in revoked => pc[c] \in {"audit", "done"}
        /\ tick[c] # "absent" \/ c \in spent => pc[c] = "done"

\* What a call in flight is about to make belongs to the password in force, or
\* the password has changed under it.
InFlight ==
    \A c \in Calls : pc[c] \notin {"new", "done"} => under[c] = password \/ c \in overlapped

SpentIsDead == \A t \in spent : tick[t] \notin {"unused", "stale"}

\* The pool is never larger than its threads.
PoolBounded == IsFiniteSet(Pool) /\ Cardinality(Pool) <= Threads

AccountsInv ==
    /\ TypeOK /\ Presented /\ MadeOnce /\ InFlight
    /\ RevokedStaysRevoked /\ RevocationIsComplete /\ SpentIsDead

USE DEF Goto, Finish, store, history

LEMMA SentFields == ASSUME NEW r \in Sent PROVE r.kind \in Kinds /\ r.token \in Tokens
  BY DEF Sent, Tokens, Kinds

LEMMA FirstSteps ==
    ASSUME NEW r \in Sent
    PROVE  /\ FirstStep(r.kind) \in {"rate", "lookup", "read_ticket", "resolve"}
           /\ FirstStep(r.kind) = "resolve" => r.kind \in Kept
  BY SentFields DEF FirstStep, Kinds, Kept

LEMMA InitInv == Init => AccountsInv
  BY FirstAssumption, BoundsAssumption
     DEF Init, AccountsInv, TypeOK, Presented, MadeOnce, InFlight, RevokedStaysRevoked,
         RevocationIsComplete, SpentIsDead, Tokens, SessionRows, TicketRows, Steps, Answers

\* Types are kept by every step.
LEMMA NextType == TypeOK /\ Presented /\ [Next]_vars => TypeOK'
<1> SUFFICES ASSUME TypeOK, Presented, [Next]_vars PROVE TypeOK'
  OBVIOUS
<1> USE BoundsAssumption DEF TypeOK, Steps, Answers, SessionRows, TicketRows
<1> Calls \subseteq Tokens /\ First \in Tokens
  BY DEF Tokens
<1>1. ASSUME NEW c \in Calls, Start(c) PROVE TypeOK'
  BY <1>1, FirstSteps DEF Start
<1>2. ASSUME NEW c \in Calls, CheckRate(c) PROVE TypeOK'
  BY <1>2 DEF CheckRate, At
<1>3. ASSUME NEW c \in Calls, ReadHash(c) PROVE TypeOK'
  BY <1>3 DEF ReadHash, At
<1>4. ASSUME NEW c \in Calls, Refuse(c) PROVE TypeOK'
  BY <1>4 DEF Refuse, At
<1>5. ASSUME NEW c \in Calls, Accept(c) PROVE TypeOK'
  BY <1>5 DEF Accept, At
<1>6. ASSUME NEW c \in Calls, InsertSession(c) PROVE TypeOK'
  BY <1>6 DEF InsertSession, At
<1>7. ASSUME NEW c \in Calls, Commit(c) PROVE TypeOK'
  BY <1>7 DEF Commit, At, NewPassword, Revokes
<1>8. ASSUME NEW c \in Calls, Audit(c) PROVE TypeOK'
  BY <1>8 DEF Audit, At
<1>9. ASSUME NEW c \in Calls, LookUp(c) PROVE TypeOK'
  BY <1>9 DEF LookUp, At
<1>10. ASSUME NEW c \in Calls, CommitReset(c) PROVE TypeOK'
  BY <1>10 DEF CommitReset, At, NewPassword, Revokes
<1>11. ASSUME NEW c \in Calls, Resolve(c) PROVE TypeOK'
  BY <1>11 DEF Resolve, At
<1>12. ASSUME NEW c \in Calls, Touch(c) PROVE TypeOK'
  BY <1>12, SentFields DEF Touch, At, Touched, AfterTouch, Presented, Kept
<1>13. ASSUME NEW c \in Calls, Delete(c) PROVE TypeOK'
  BY <1>13, SentFields DEF Delete, At, Presented
<1>14. ASSUME NEW c \in Calls, IssueTicket(c) PROVE TypeOK'
  BY <1>14 DEF IssueTicket, At
<1>15. ASSUME NEW c \in Calls, ReadTicket(c) PROVE TypeOK'
  BY <1>15 DEF ReadTicket, At
<1>16. ASSUME NEW c \in Calls, Mark(c) PROVE TypeOK'
  BY <1>16, SentFields DEF Mark, At, Marked, Presented
<1>17. ASSUME NEW c \in Calls, DatabaseError(c) PROVE TypeOK'
  BY <1>17 DEF DatabaseError
<1>18. ASSUME NEW t \in Tokens, SessionAges(t) PROVE TypeOK'
  BY <1>18 DEF SessionAges
<1>19. ASSUME NEW t \in Tokens, TicketAges(t) PROVE TypeOK'
  BY <1>19 DEF TicketAges
<1>20. CASE FailureAges
  BY <1>20 DEF FailureAges
<1>21. CASE PanelRestarts
  BY <1>21 DEF PanelRestarts
<1>22. CASE UNCHANGED vars
  BY <1>22 DEF vars
<1> QED
  BY <1>1, <1>2, <1>3, <1>4, <1>5, <1>6, <1>7, <1>8, <1>9, <1>10, <1>11, <1>12, <1>13, <1>14,
     <1>15, <1>16, <1>17, <1>18, <1>19, <1>20, <1>21, <1>22 DEF Next, Call

\* An answer that grants a token is the last thing a call does.
LEMMA NextPresented == AccountsInv /\ [Next]_vars => Presented'
<1> SUFFICES ASSUME AccountsInv, [Next]_vars PROVE Presented'
  OBVIOUS
<1> USE FirstAssumption DEF AccountsInv, Presented, TypeOK, Tokens
<1>1. ASSUME NEW c \in Calls, Start(c) PROVE Presented'
  BY <1>1, FirstSteps DEF Start
<1>2. ASSUME NEW c \in Calls, CheckRate(c) PROVE Presented'
  BY <1>2 DEF CheckRate, At
<1>3. ASSUME NEW c \in Calls, ReadHash(c) PROVE Presented'
  BY <1>3 DEF ReadHash, At
<1>4. ASSUME NEW c \in Calls, Refuse(c) PROVE Presented'
  BY <1>4 DEF Refuse, At
<1>5. ASSUME NEW c \in Calls, Accept(c) PROVE Presented'
  BY <1>5 DEF Accept, At
<1>6. ASSUME NEW c \in Calls, InsertSession(c) PROVE Presented'
  BY <1>6 DEF InsertSession, At
<1>7. ASSUME NEW c \in Calls, Commit(c) PROVE Presented'
  BY <1>7 DEF Commit, At, NewPassword, Revokes
<1>8. ASSUME NEW c \in Calls, Audit(c) PROVE Presented'
  BY <1>8 DEF Audit, At
<1>9. ASSUME NEW c \in Calls, LookUp(c) PROVE Presented'
  BY <1>9 DEF LookUp, At
<1>10. ASSUME NEW c \in Calls, CommitReset(c) PROVE Presented'
  BY <1>10 DEF CommitReset, At, NewPassword, Revokes
<1>11. ASSUME NEW c \in Calls, Resolve(c) PROVE Presented'
  BY <1>11 DEF Resolve, At
<1>12. ASSUME NEW c \in Calls, Touch(c) PROVE Presented'
  BY <1>12 DEF Touch, At, Touched, AfterTouch
<1>13. ASSUME NEW c \in Calls, Delete(c) PROVE Presented'
  BY <1>13 DEF Delete, At
<1>14. ASSUME NEW c \in Calls, IssueTicket(c) PROVE Presented'
  BY <1>14 DEF IssueTicket, At
<1>15. ASSUME NEW c \in Calls, ReadTicket(c) PROVE Presented'
  BY <1>15 DEF ReadTicket, At
<1>16. ASSUME NEW c \in Calls, Mark(c) PROVE Presented'
  BY <1>16 DEF Mark, At, Marked
<1>17. ASSUME NEW c \in Calls, DatabaseError(c) PROVE Presented'
  BY <1>17 DEF DatabaseError
<1>18. ASSUME NEW t \in Tokens, SessionAges(t) PROVE Presented'
  BY <1>18 DEF SessionAges
<1>19. ASSUME NEW t \in Tokens, TicketAges(t) PROVE Presented'
  BY <1>19 DEF TicketAges
<1>20. CASE FailureAges
  BY <1>20 DEF FailureAges
<1>21. CASE PanelRestarts
  BY <1>21 DEF PanelRestarts
<1>22. CASE UNCHANGED vars
  BY <1>22 DEF vars
<1> QED
  BY <1>1, <1>2, <1>3, <1>4, <1>5, <1>6, <1>7, <1>8, <1>9, <1>10, <1>11, <1>12, <1>13, <1>14,
     <1>15, <1>16, <1>17, <1>18, <1>19, <1>20, <1>21, <1>22 DEF Next, Call

\* A row of call c appears in the step that ends c, or leaves it only its audit.
LEMMA NextMadeOnce == AccountsInv /\ [Next]_vars => MadeOnce'
<1> SUFFICES ASSUME AccountsInv, [Next]_vars PROVE MadeOnce'
  OBVIOUS
<1> USE FirstAssumption DEF AccountsInv, MadeOnce, Presented, TypeOK, Tokens
<1>1. ASSUME NEW c \in Calls, Start(c) PROVE MadeOnce'
  BY <1>1, FirstSteps DEF Start
<1>2. ASSUME NEW c \in Calls, CheckRate(c) PROVE MadeOnce'
  BY <1>2 DEF CheckRate, At
<1>3. ASSUME NEW c \in Calls, ReadHash(c) PROVE MadeOnce'
  BY <1>3 DEF ReadHash, At
<1>4. ASSUME NEW c \in Calls, Refuse(c) PROVE MadeOnce'
  BY <1>4 DEF Refuse, At
<1>5. ASSUME NEW c \in Calls, Accept(c) PROVE MadeOnce'
  BY <1>5 DEF Accept, At
<1>6. ASSUME NEW c \in Calls, InsertSession(c) PROVE MadeOnce'
  BY <1>6 DEF InsertSession, At
<1>7. ASSUME NEW c \in Calls, Commit(c) PROVE MadeOnce'
  BY <1>7 DEF Commit, At, NewPassword, Revokes
<1>8. ASSUME NEW c \in Calls, Audit(c) PROVE MadeOnce'
  BY <1>8 DEF Audit, At
<1>9. ASSUME NEW c \in Calls, LookUp(c) PROVE MadeOnce'
  BY <1>9 DEF LookUp, At
<1>10. ASSUME NEW c \in Calls, CommitReset(c) PROVE MadeOnce'
  BY <1>10 DEF CommitReset, At, NewPassword, Revokes
<1>11. ASSUME NEW c \in Calls, Resolve(c) PROVE MadeOnce'
  BY <1>11 DEF Resolve, At
<1>12. ASSUME NEW c \in Calls, Touch(c) PROVE MadeOnce'
  BY <1>12 DEF Touch, At, Touched, AfterTouch
<1>13. ASSUME NEW c \in Calls, Delete(c) PROVE MadeOnce'
  BY <1>13 DEF Delete, At
<1>14. ASSUME NEW c \in Calls, IssueTicket(c) PROVE MadeOnce'
  BY <1>14 DEF IssueTicket, At
<1>15. ASSUME NEW c \in Calls, ReadTicket(c) PROVE MadeOnce'
  BY <1>15 DEF ReadTicket, At
<1>16. ASSUME NEW c \in Calls, Mark(c) PROVE MadeOnce'
  BY <1>16 DEF Mark, At, Marked
<1>17. ASSUME NEW c \in Calls, DatabaseError(c) PROVE MadeOnce'
  BY <1>17 DEF DatabaseError
<1>18. ASSUME NEW t \in Tokens, SessionAges(t) PROVE MadeOnce'
  BY <1>18 DEF SessionAges
<1>19. ASSUME NEW t \in Tokens, TicketAges(t) PROVE MadeOnce'
  BY <1>19 DEF TicketAges
<1>20. CASE FailureAges
  BY <1>20 DEF FailureAges
<1>21. CASE PanelRestarts
  BY <1>21 DEF PanelRestarts
<1>22. CASE UNCHANGED vars
  BY <1>22 DEF vars
<1> QED
  BY <1>1, <1>2, <1>3, <1>4, <1>5, <1>6, <1>7, <1>8, <1>9, <1>10, <1>11, <1>12, <1>13, <1>14,
     <1>15, <1>16, <1>17, <1>18, <1>19, <1>20, <1>21, <1>22 DEF Next, Call

\* A change of the password takes note of every call in flight.
LEMMA NextInFlight == AccountsInv /\ [Next]_vars => InFlight'
<1> SUFFICES ASSUME AccountsInv, [Next]_vars PROVE InFlight'
  OBVIOUS
<1> USE FirstAssumption DEF AccountsInv, InFlight, TypeOK, Tokens
<1>1. ASSUME NEW c \in Calls, Start(c) PROVE InFlight'
  BY <1>1, FirstSteps DEF Start
<1>2. ASSUME NEW c \in Calls, CheckRate(c) PROVE InFlight'
  BY <1>2 DEF CheckRate, At
<1>3. ASSUME NEW c \in Calls, ReadHash(c) PROVE InFlight'
  BY <1>3 DEF ReadHash, At
<1>4. ASSUME NEW c \in Calls, Refuse(c) PROVE InFlight'
  BY <1>4 DEF Refuse, At
<1>5. ASSUME NEW c \in Calls, Accept(c) PROVE InFlight'
  BY <1>5 DEF Accept, At
<1>6. ASSUME NEW c \in Calls, InsertSession(c) PROVE InFlight'
  BY <1>6 DEF InsertSession, At
<1>7. ASSUME NEW c \in Calls, Commit(c) PROVE InFlight'
  BY <1>7 DEF Commit, At, NewPassword, Revokes
<1>8. ASSUME NEW c \in Calls, Audit(c) PROVE InFlight'
  BY <1>8 DEF Audit, At
<1>9. ASSUME NEW c \in Calls, LookUp(c) PROVE InFlight'
  BY <1>9 DEF LookUp, At
<1>10. ASSUME NEW c \in Calls, CommitReset(c) PROVE InFlight'
  BY <1>10 DEF CommitReset, At, NewPassword, Revokes
<1>11. ASSUME NEW c \in Calls, Resolve(c) PROVE InFlight'
  BY <1>11 DEF Resolve, At
<1>12. ASSUME NEW c \in Calls, Touch(c) PROVE InFlight'
  BY <1>12 DEF Touch, At, Touched, AfterTouch
<1>13. ASSUME NEW c \in Calls, Delete(c) PROVE InFlight'
  BY <1>13 DEF Delete, At
<1>14. ASSUME NEW c \in Calls, IssueTicket(c) PROVE InFlight'
  BY <1>14 DEF IssueTicket, At
<1>15. ASSUME NEW c \in Calls, ReadTicket(c) PROVE InFlight'
  BY <1>15 DEF ReadTicket, At
<1>16. ASSUME NEW c \in Calls, Mark(c) PROVE InFlight'
  BY <1>16 DEF Mark, At, Marked
<1>17. ASSUME NEW c \in Calls, DatabaseError(c) PROVE InFlight'
  BY <1>17 DEF DatabaseError
<1>18. ASSUME NEW t \in Tokens, SessionAges(t) PROVE InFlight'
  BY <1>18 DEF SessionAges
<1>19. ASSUME NEW t \in Tokens, TicketAges(t) PROVE InFlight'
  BY <1>19 DEF TicketAges
<1>20. CASE FailureAges
  BY <1>20 DEF FailureAges
<1>21. CASE PanelRestarts
  BY <1>21 DEF PanelRestarts
<1>22. CASE UNCHANGED vars
  BY <1>22 DEF vars
<1> QED
  BY <1>1, <1>2, <1>3, <1>4, <1>5, <1>6, <1>7, <1>8, <1>9, <1>10, <1>11, <1>12, <1>13, <1>14,
     <1>15, <1>16, <1>17, <1>18, <1>19, <1>20, <1>21, <1>22 DEF Next, Call

\* Only a call that has not made its row yet makes it, so none comes back.
LEMMA NextRevoked == AccountsInv /\ [Next]_vars => RevokedStaysRevoked'
<1> SUFFICES ASSUME AccountsInv, [Next]_vars PROVE RevokedStaysRevoked'
  OBVIOUS
<1> USE FirstAssumption DEF AccountsInv, RevokedStaysRevoked, MadeOnce, Presented, TypeOK, Tokens
<1>1. ASSUME NEW c \in Calls, Start(c) PROVE RevokedStaysRevoked'
  BY <1>1 DEF Start
<1>2. ASSUME NEW c \in Calls, CheckRate(c) PROVE RevokedStaysRevoked'
  BY <1>2 DEF CheckRate, At
<1>3. ASSUME NEW c \in Calls, ReadHash(c) PROVE RevokedStaysRevoked'
  BY <1>3 DEF ReadHash, At
<1>4. ASSUME NEW c \in Calls, Refuse(c) PROVE RevokedStaysRevoked'
  BY <1>4 DEF Refuse, At
<1>5. ASSUME NEW c \in Calls, Accept(c) PROVE RevokedStaysRevoked'
  BY <1>5 DEF Accept, At
<1>6. ASSUME NEW c \in Calls, InsertSession(c) PROVE RevokedStaysRevoked'
  BY <1>6 DEF InsertSession, At
<1>7. ASSUME NEW c \in Calls, Commit(c) PROVE RevokedStaysRevoked'
  BY <1>7 DEF Commit, At, NewPassword, Revokes
<1>8. ASSUME NEW c \in Calls, Audit(c) PROVE RevokedStaysRevoked'
  BY <1>8 DEF Audit, At
<1>9. ASSUME NEW c \in Calls, LookUp(c) PROVE RevokedStaysRevoked'
  BY <1>9 DEF LookUp, At
<1>10. ASSUME NEW c \in Calls, CommitReset(c) PROVE RevokedStaysRevoked'
  BY <1>10 DEF CommitReset, At, NewPassword, Revokes
<1>11. ASSUME NEW c \in Calls, Resolve(c) PROVE RevokedStaysRevoked'
  BY <1>11 DEF Resolve, At
<1>12. ASSUME NEW c \in Calls, Touch(c) PROVE RevokedStaysRevoked'
  BY <1>12 DEF Touch, At, Touched, AfterTouch
<1>13. ASSUME NEW c \in Calls, Delete(c) PROVE RevokedStaysRevoked'
  BY <1>13 DEF Delete, At
<1>14. ASSUME NEW c \in Calls, IssueTicket(c) PROVE RevokedStaysRevoked'
  BY <1>14 DEF IssueTicket, At
<1>15. ASSUME NEW c \in Calls, ReadTicket(c) PROVE RevokedStaysRevoked'
  BY <1>15 DEF ReadTicket, At
<1>16. ASSUME NEW c \in Calls, Mark(c) PROVE RevokedStaysRevoked'
  BY <1>16 DEF Mark, At, Marked
<1>17. ASSUME NEW c \in Calls, DatabaseError(c) PROVE RevokedStaysRevoked'
  BY <1>17 DEF DatabaseError
<1>18. ASSUME NEW t \in Tokens, SessionAges(t) PROVE RevokedStaysRevoked'
  BY <1>18 DEF SessionAges
<1>19. ASSUME NEW t \in Tokens, TicketAges(t) PROVE RevokedStaysRevoked'
  BY <1>19 DEF TicketAges
<1>20. CASE FailureAges
  BY <1>20 DEF FailureAges
<1>21. CASE PanelRestarts
  BY <1>21 DEF PanelRestarts
<1>22. CASE UNCHANGED vars
  BY <1>22 DEF vars
<1> QED
  BY <1>1, <1>2, <1>3, <1>4, <1>5, <1>6, <1>7, <1>8, <1>9, <1>10, <1>11, <1>12, <1>13, <1>14,
     <1>15, <1>16, <1>17, <1>18, <1>19, <1>20, <1>21, <1>22 DEF Next, Call

\* A change empties the tables but for its own session, and what is made after it is made by calls in flight.
LEMMA NextRevocation == AccountsInv /\ [Next]_vars => RevocationIsComplete'
<1> SUFFICES ASSUME AccountsInv, [Next]_vars PROVE RevocationIsComplete'
  OBVIOUS
<1> USE FirstAssumption DEF AccountsInv, RevocationIsComplete, InFlight, Presented, MadeOnce,
      TypeOK, Tokens
<1>1. ASSUME NEW c \in Calls, Start(c) PROVE RevocationIsComplete'
  BY <1>1 DEF Start
<1>2. ASSUME NEW c \in Calls, CheckRate(c) PROVE RevocationIsComplete'
  BY <1>2 DEF CheckRate, At
<1>3. ASSUME NEW c \in Calls, ReadHash(c) PROVE RevocationIsComplete'
  BY <1>3 DEF ReadHash, At
<1>4. ASSUME NEW c \in Calls, Refuse(c) PROVE RevocationIsComplete'
  BY <1>4 DEF Refuse, At
<1>5. ASSUME NEW c \in Calls, Accept(c) PROVE RevocationIsComplete'
  BY <1>5 DEF Accept, At
<1>6. ASSUME NEW c \in Calls, InsertSession(c) PROVE RevocationIsComplete'
  BY <1>6 DEF InsertSession, At
<1>7. ASSUME NEW c \in Calls, Commit(c) PROVE RevocationIsComplete'
  BY <1>7 DEF Commit, At, NewPassword, Revokes
<1>8. ASSUME NEW c \in Calls, Audit(c) PROVE RevocationIsComplete'
  BY <1>8 DEF Audit, At
<1>9. ASSUME NEW c \in Calls, LookUp(c) PROVE RevocationIsComplete'
  BY <1>9 DEF LookUp, At
<1>10. ASSUME NEW c \in Calls, CommitReset(c) PROVE RevocationIsComplete'
  BY <1>10 DEF CommitReset, At, NewPassword, Revokes
<1>11. ASSUME NEW c \in Calls, Resolve(c) PROVE RevocationIsComplete'
  BY <1>11 DEF Resolve, At
<1>12. ASSUME NEW c \in Calls, Touch(c) PROVE RevocationIsComplete'
  BY <1>12 DEF Touch, At, Touched, AfterTouch
<1>13. ASSUME NEW c \in Calls, Delete(c) PROVE RevocationIsComplete'
  BY <1>13 DEF Delete, At
<1>14. ASSUME NEW c \in Calls, IssueTicket(c) PROVE RevocationIsComplete'
  BY <1>14 DEF IssueTicket, At
<1>15. ASSUME NEW c \in Calls, ReadTicket(c) PROVE RevocationIsComplete'
  BY <1>15 DEF ReadTicket, At
<1>16. ASSUME NEW c \in Calls, Mark(c) PROVE RevocationIsComplete'
  BY <1>16 DEF Mark, At, Marked
<1>17. ASSUME NEW c \in Calls, DatabaseError(c) PROVE RevocationIsComplete'
  BY <1>17 DEF DatabaseError
<1>18. ASSUME NEW t \in Tokens, SessionAges(t) PROVE RevocationIsComplete'
  BY <1>18 DEF SessionAges
<1>19. ASSUME NEW t \in Tokens, TicketAges(t) PROVE RevocationIsComplete'
  BY <1>19 DEF TicketAges
<1>20. CASE FailureAges
  BY <1>20 DEF FailureAges
<1>21. CASE PanelRestarts
  BY <1>21 DEF PanelRestarts
<1>22. CASE UNCHANGED vars
  BY <1>22 DEF vars
<1> QED
  BY <1>1, <1>2, <1>3, <1>4, <1>5, <1>6, <1>7, <1>8, <1>9, <1>10, <1>11, <1>12, <1>13, <1>14,
     <1>15, <1>16, <1>17, <1>18, <1>19, <1>20, <1>21, <1>22 DEF Next, Call

\* A ticket that opened a console or was deleted is made by no call again.
LEMMA NextSpent == AccountsInv /\ [Next]_vars => SpentIsDead'
<1> SUFFICES ASSUME AccountsInv, [Next]_vars PROVE SpentIsDead'
  OBVIOUS
<1> USE FirstAssumption DEF AccountsInv, SpentIsDead, MadeOnce, Presented, TypeOK, Tokens
<1>1. ASSUME NEW c \in Calls, Start(c) PROVE SpentIsDead'
  BY <1>1 DEF Start
<1>2. ASSUME NEW c \in Calls, CheckRate(c) PROVE SpentIsDead'
  BY <1>2 DEF CheckRate, At
<1>3. ASSUME NEW c \in Calls, ReadHash(c) PROVE SpentIsDead'
  BY <1>3 DEF ReadHash, At
<1>4. ASSUME NEW c \in Calls, Refuse(c) PROVE SpentIsDead'
  BY <1>4 DEF Refuse, At
<1>5. ASSUME NEW c \in Calls, Accept(c) PROVE SpentIsDead'
  BY <1>5 DEF Accept, At
<1>6. ASSUME NEW c \in Calls, InsertSession(c) PROVE SpentIsDead'
  BY <1>6 DEF InsertSession, At
<1>7. ASSUME NEW c \in Calls, Commit(c) PROVE SpentIsDead'
  BY <1>7 DEF Commit, At, NewPassword, Revokes
<1>8. ASSUME NEW c \in Calls, Audit(c) PROVE SpentIsDead'
  BY <1>8 DEF Audit, At
<1>9. ASSUME NEW c \in Calls, LookUp(c) PROVE SpentIsDead'
  BY <1>9 DEF LookUp, At
<1>10. ASSUME NEW c \in Calls, CommitReset(c) PROVE SpentIsDead'
  BY <1>10 DEF CommitReset, At, NewPassword, Revokes
<1>11. ASSUME NEW c \in Calls, Resolve(c) PROVE SpentIsDead'
  BY <1>11 DEF Resolve, At
<1>12. ASSUME NEW c \in Calls, Touch(c) PROVE SpentIsDead'
  BY <1>12 DEF Touch, At, Touched, AfterTouch
<1>13. ASSUME NEW c \in Calls, Delete(c) PROVE SpentIsDead'
  BY <1>13 DEF Delete, At
<1>14. ASSUME NEW c \in Calls, IssueTicket(c) PROVE SpentIsDead'
  BY <1>14 DEF IssueTicket, At
<1>15. ASSUME NEW c \in Calls, ReadTicket(c) PROVE SpentIsDead'
  BY <1>15 DEF ReadTicket, At
<1>16. ASSUME NEW c \in Calls, Mark(c) PROVE SpentIsDead'
  BY <1>16 DEF Mark, At, Marked
<1>17. ASSUME NEW c \in Calls, DatabaseError(c) PROVE SpentIsDead'
  BY <1>17 DEF DatabaseError
<1>18. ASSUME NEW t \in Tokens, SessionAges(t) PROVE SpentIsDead'
  BY <1>18 DEF SessionAges
<1>19. ASSUME NEW t \in Tokens, TicketAges(t) PROVE SpentIsDead'
  BY <1>19 DEF TicketAges
<1>20. CASE FailureAges
  BY <1>20 DEF FailureAges
<1>21. CASE PanelRestarts
  BY <1>21 DEF PanelRestarts
<1>22. CASE UNCHANGED vars
  BY <1>22 DEF vars
<1> QED
  BY <1>1, <1>2, <1>3, <1>4, <1>5, <1>6, <1>7, <1>8, <1>9, <1>10, <1>11, <1>12, <1>13, <1>14,
     <1>15, <1>16, <1>17, <1>18, <1>19, <1>20, <1>21, <1>22 DEF Next, Call

THEOREM Invariant == Spec => []AccountsInv
<1>1. AccountsInv /\ [Next]_vars => AccountsInv'
  BY NextType, NextPresented, NextMadeOnce, NextInFlight, NextRevoked, NextRevocation, NextSpent
     DEF AccountsInv
<1> QED BY InitInv, <1>1, PTL DEF Spec

\* A session that was deleted never comes back (resolve_session, auth.py:150-181),
\* for any number of calls and whatever fails.
THEOREM RevokedStaysRevokedHolds == Spec => []RevokedStaysRevoked
BY Invariant, PTL DEF AccountsInv

\* README.md:24: once a new password is in force, what was made under an earlier
\* one is gone, but for calls in flight at the change (auth.py:83-148).
THEOREM RevocationIsCompleteHolds == Spec => []RevocationIsComplete
BY Invariant, PTL DEF AccountsInv

\* consume_ws_ticket (auth.py:206-218): one console for a ticket, none after it
\* was deleted.
THEOREM TicketHonouredHolds == Spec => TicketHonoured
<1> DEFINE Honoured ==
      \A c \in Calls : answer[c] # "opened" /\ answer'[c] = "opened" => req[c].token \notin spent
<1>1. AccountsInv /\ [Next]_vars => Honoured
  <2> SUFFICES ASSUME AccountsInv, [Next]_vars, NEW d \in Calls,
                      answer[d] # "opened", answer'[d] = "opened"
               PROVE  req[d].token \notin spent
    OBVIOUS
  <2> USE DEF AccountsInv, TypeOK, SpentIsDead
  <2>1. Mark(d)
    <3>1. ASSUME NEW c \in Calls, Start(c) PROVE Mark(d)
      BY <3>1 DEF Start
    <3>2. ASSUME NEW c \in Calls, CheckRate(c) PROVE Mark(d)
      BY <3>2 DEF CheckRate, At
    <3>3. ASSUME NEW c \in Calls, ReadHash(c) PROVE Mark(d)
      BY <3>3 DEF ReadHash, At
    <3>4. ASSUME NEW c \in Calls, Refuse(c) PROVE Mark(d)
      BY <3>4 DEF Refuse, At
    <3>5. ASSUME NEW c \in Calls, Accept(c) PROVE Mark(d)
      BY <3>5 DEF Accept, At
    <3>6. ASSUME NEW c \in Calls, InsertSession(c) PROVE Mark(d)
      BY <3>6 DEF InsertSession, At
    <3>7. ASSUME NEW c \in Calls, Commit(c) PROVE Mark(d)
      BY <3>7 DEF Commit, At, NewPassword, Revokes
    <3>8. ASSUME NEW c \in Calls, Audit(c) PROVE Mark(d)
      BY <3>8 DEF Audit, At
    <3>9. ASSUME NEW c \in Calls, LookUp(c) PROVE Mark(d)
      BY <3>9 DEF LookUp, At
    <3>10. ASSUME NEW c \in Calls, CommitReset(c) PROVE Mark(d)
      BY <3>10 DEF CommitReset, At, NewPassword, Revokes
    <3>11. ASSUME NEW c \in Calls, Resolve(c) PROVE Mark(d)
      BY <3>11 DEF Resolve, At
    <3>12. ASSUME NEW c \in Calls, Touch(c) PROVE Mark(d)
      BY <3>12 DEF Touch, At, Touched, AfterTouch
    <3>13. ASSUME NEW c \in Calls, Delete(c) PROVE Mark(d)
      BY <3>13 DEF Delete, At
    <3>14. ASSUME NEW c \in Calls, IssueTicket(c) PROVE Mark(d)
      BY <3>14 DEF IssueTicket, At
    <3>15. ASSUME NEW c \in Calls, ReadTicket(c) PROVE Mark(d)
      BY <3>15 DEF ReadTicket, At
    <3>16. ASSUME NEW c \in Calls, Mark(c) PROVE Mark(d)
      BY <3>16 DEF Mark, At
    <3>17. ASSUME NEW c \in Calls, DatabaseError(c) PROVE Mark(d)
      BY <3>17 DEF DatabaseError
    <3>18. ASSUME NEW t \in Tokens, SessionAges(t) PROVE Mark(d)
      BY <3>18 DEF SessionAges
    <3>19. ASSUME NEW t \in Tokens, TicketAges(t) PROVE Mark(d)
      BY <3>19 DEF TicketAges
    <3>20. CASE FailureAges
      BY <3>20 DEF FailureAges
    <3>21. CASE PanelRestarts
      BY <3>21 DEF PanelRestarts
    <3>22. CASE UNCHANGED vars
      BY <3>22 DEF vars
    <3> QED
      BY <3>1, <3>2, <3>3, <3>4, <3>5, <3>6, <3>7, <3>8, <3>9, <3>10, <3>11, <3>12, <3>13,
         <3>14, <3>15, <3>16, <3>17, <3>18, <3>19, <3>20, <3>21, <3>22 DEF Next, Call
  <2> QED BY <2>1 DEF Mark, At, Marked
<1> QED BY Invariant, <1>1, PTL DEF Spec, TicketHonoured

-----------------------------------------------------------------------------
(* The limiter *)

Attempts == {c \in Calls : Attempting(c)}

LimiterInv == AccountsInv /\ PoolBounded /\ FailuresBounded

LEMMA AttemptsOnPool == Attempts \subseteq Pool
BY DEF Attempts, Attempting, Pool, OnPool

LEMMA InitLimiter == Init => LimiterInv
<1> SUFFICES ASSUME Init PROVE PoolBounded /\ FailuresBounded
  BY InitInv DEF LimiterInv
<1>1. Pool = {} /\ {c \in Calls : Attempting(c)} = {}
  BY DEF Init, Pool, OnPool, Attempting
<1>2. IsFiniteSet({}) /\ Cardinality({}) = 0 /\ fails = 0
  BY FS_EmptySet DEF Init
<1>3. PoolBounded
  BY <1>1, <1>2, BoundsAssumption DEF PoolBounded
<1>4. 0 + 0 <= Limit - 1 + Threads
  BY BoundsAssumption
<1> QED BY <1>1, <1>2, <1>3, <1>4 DEF FailuresBounded

\* A call joins the pool in its first step, when a thread is free.
LEMMA PoolGrows ==
    AccountsInv /\ [Next]_vars =>
        \/ Pool' \subseteq Pool
        \/ Cardinality(Pool) < Threads /\ \E c \in Calls : Pool' \subseteq Pool \cup {c}
<1> DEFINE Goal ==
      \/ Pool' \subseteq Pool
      \/ Cardinality(Pool) < Threads /\ \E c \in Calls : Pool' \subseteq Pool \cup {c}
<1> SUFFICES ASSUME AccountsInv, [Next]_vars PROVE Goal
  OBVIOUS
<1> USE DEF AccountsInv, TypeOK, Pool, OnPool
<1>1. ASSUME NEW c \in Calls, Start(c) PROVE Goal
  BY <1>1 DEF Start
<1>2. ASSUME NEW c \in Calls, CheckRate(c) PROVE Goal
  BY <1>2 DEF CheckRate, At
<1>3. ASSUME NEW c \in Calls, ReadHash(c) PROVE Goal
  BY <1>3 DEF ReadHash, At
<1>4. ASSUME NEW c \in Calls, Refuse(c) PROVE Goal
  BY <1>4 DEF Refuse, At
<1>5. ASSUME NEW c \in Calls, Accept(c) PROVE Goal
  BY <1>5 DEF Accept, At
<1>6. ASSUME NEW c \in Calls, InsertSession(c) PROVE Goal
  BY <1>6 DEF InsertSession, At
<1>7. ASSUME NEW c \in Calls, Commit(c) PROVE Goal
  BY <1>7 DEF Commit, At, NewPassword, Revokes
<1>8. ASSUME NEW c \in Calls, Audit(c) PROVE Goal
  BY <1>8 DEF Audit, At
<1>9. ASSUME NEW c \in Calls, LookUp(c) PROVE Goal
  BY <1>9 DEF LookUp, At
<1>10. ASSUME NEW c \in Calls, CommitReset(c) PROVE Goal
  BY <1>10 DEF CommitReset, At, NewPassword, Revokes
<1>11. ASSUME NEW c \in Calls, Resolve(c) PROVE Goal
  BY <1>11 DEF Resolve, At
<1>12. ASSUME NEW c \in Calls, Touch(c) PROVE Goal
  BY <1>12 DEF Touch, At, Touched, AfterTouch
<1>13. ASSUME NEW c \in Calls, Delete(c) PROVE Goal
  BY <1>13 DEF Delete, At
<1>14. ASSUME NEW c \in Calls, IssueTicket(c) PROVE Goal
  BY <1>14 DEF IssueTicket, At
<1>15. ASSUME NEW c \in Calls, ReadTicket(c) PROVE Goal
  BY <1>15 DEF ReadTicket, At
<1>16. ASSUME NEW c \in Calls, Mark(c) PROVE Goal
  BY <1>16 DEF Mark, At, Marked
<1>17. ASSUME NEW c \in Calls, DatabaseError(c) PROVE Goal
  BY <1>17 DEF DatabaseError
<1>18. ASSUME NEW t \in Tokens, SessionAges(t) PROVE Goal
  BY <1>18 DEF SessionAges
<1>19. ASSUME NEW t \in Tokens, TicketAges(t) PROVE Goal
  BY <1>19 DEF TicketAges
<1>20. CASE FailureAges
  BY <1>20 DEF FailureAges
<1>21. CASE PanelRestarts
  BY <1>21 DEF PanelRestarts
<1>22. CASE UNCHANGED vars
  BY <1>22 DEF vars
<1> QED
  BY <1>1, <1>2, <1>3, <1>4, <1>5, <1>6, <1>7, <1>8, <1>9, <1>10, <1>11, <1>12, <1>13, <1>14,
     <1>15, <1>16, <1>17, <1>18, <1>19, <1>20, <1>21, <1>22 DEF Next, Call

LEMMA NextPool == AccountsInv /\ PoolBounded /\ [Next]_vars => PoolBounded'
<1> SUFFICES ASSUME AccountsInv, PoolBounded, [Next]_vars PROVE PoolBounded'
  OBVIOUS
<1> USE BoundsAssumption DEF PoolBounded
<1>1. CASE Pool' \subseteq Pool
  <2>1. IsFiniteSet(Pool') /\ Cardinality(Pool') <= Cardinality(Pool)
    BY <1>1, FS_Subset
  <2> QED BY <2>1, FS_CardinalityType
<1>2. ASSUME Cardinality(Pool) < Threads, NEW c \in Calls, Pool' \subseteq Pool \cup {c}
      PROVE  PoolBounded'
  <2>1. IsFiniteSet(Pool \cup {c}) /\ Cardinality(Pool \cup {c}) <= Cardinality(Pool) + 1
    BY FS_AddElement, FS_CardinalityType
  <2>2. IsFiniteSet(Pool') /\ Cardinality(Pool') <= Cardinality(Pool \cup {c})
    BY <1>2, <2>1, FS_Subset
  <2> QED BY <1>2, <2>1, <2>2, FS_CardinalityType
<1> QED BY <1>1, <1>2, PoolGrows

\* Only a check that found room lets an attempt begin, and only the end of one
\* counts a failure.
LEMMA AttemptsChange ==
    AccountsInv /\ [Next]_vars =>
        \/ fails < Limit /\ fails' = fails
        \/ Attempts' \subseteq Attempts /\ fails' <= fails
        \/ \E c \in Attempts : Attempts' = Attempts \ {c} /\ fails' = fails + 1
<1> DEFINE Goal ==
      \/ fails < Limit /\ fails' = fails
      \/ Attempts' \subseteq Attempts /\ fails' <= fails
      \/ \E c \in Attempts : Attempts' = Attempts \ {c} /\ fails' = fails + 1
<1> SUFFICES ASSUME AccountsInv, [Next]_vars PROVE Goal
  OBVIOUS
<1> USE BoundsAssumption DEF AccountsInv, TypeOK, Attempts, Attempting
<1>1. ASSUME NEW c \in Calls, Start(c) PROVE Goal
  BY <1>1, FirstSteps DEF Start
<1>2. ASSUME NEW c \in Calls, CheckRate(c) PROVE Goal
  BY <1>2 DEF CheckRate, At, BelowLimit
<1>3. ASSUME NEW c \in Calls, ReadHash(c) PROVE Goal
  BY <1>3 DEF ReadHash, At
<1>4. ASSUME NEW c \in Calls, Refuse(c) PROVE Goal
  BY <1>4 DEF Refuse, At
<1>5. ASSUME NEW c \in Calls, Accept(c) PROVE Goal
  BY <1>5 DEF Accept, At
<1>6. ASSUME NEW c \in Calls, InsertSession(c) PROVE Goal
  BY <1>6 DEF InsertSession, At
<1>7. ASSUME NEW c \in Calls, Commit(c) PROVE Goal
  BY <1>7 DEF Commit, At, NewPassword, Revokes
<1>8. ASSUME NEW c \in Calls, Audit(c) PROVE Goal
  BY <1>8 DEF Audit, At
<1>9. ASSUME NEW c \in Calls, LookUp(c) PROVE Goal
  BY <1>9 DEF LookUp, At
<1>10. ASSUME NEW c \in Calls, CommitReset(c) PROVE Goal
  BY <1>10 DEF CommitReset, At, NewPassword, Revokes
<1>11. ASSUME NEW c \in Calls, Resolve(c) PROVE Goal
  BY <1>11 DEF Resolve, At
<1>12. ASSUME NEW c \in Calls, Touch(c) PROVE Goal
  BY <1>12 DEF Touch, At, AfterTouch, Presented, Kept
<1>13. ASSUME NEW c \in Calls, Delete(c) PROVE Goal
  BY <1>13 DEF Delete, At
<1>14. ASSUME NEW c \in Calls, IssueTicket(c) PROVE Goal
  BY <1>14 DEF IssueTicket, At
<1>15. ASSUME NEW c \in Calls, ReadTicket(c) PROVE Goal
  BY <1>15 DEF ReadTicket, At
<1>16. ASSUME NEW c \in Calls, Mark(c) PROVE Goal
  BY <1>16 DEF Mark, At, Marked
<1>17. ASSUME NEW c \in Calls, DatabaseError(c) PROVE Goal
  BY <1>17 DEF DatabaseError
<1>18. ASSUME NEW t \in Tokens, SessionAges(t) PROVE Goal
  BY <1>18 DEF SessionAges
<1>19. ASSUME NEW t \in Tokens, TicketAges(t) PROVE Goal
  BY <1>19 DEF TicketAges
<1>20. CASE FailureAges
  BY <1>20 DEF FailureAges
<1>21. CASE PanelRestarts
  BY <1>21 DEF PanelRestarts
<1>22. CASE UNCHANGED vars
  BY <1>22 DEF vars
<1> QED
  BY <1>1, <1>2, <1>3, <1>4, <1>5, <1>6, <1>7, <1>8, <1>9, <1>10, <1>11, <1>12, <1>13, <1>14,
     <1>15, <1>16, <1>17, <1>18, <1>19, <1>20, <1>21, <1>22 DEF Next, Call

LEMMA NextLimiter == LimiterInv /\ [Next]_vars => LimiterInv'
<1> SUFFICES ASSUME LimiterInv, [Next]_vars PROVE LimiterInv'
  OBVIOUS
<1> USE BoundsAssumption DEF LimiterInv
<1>1. AccountsInv' /\ PoolBounded'
  BY NextType, NextPresented, NextMadeOnce, NextInFlight, NextRevoked, NextRevocation, NextSpent,
     NextPool DEF AccountsInv
<1>2. IsFiniteSet(Attempts) /\ Cardinality(Attempts) \in Nat
  BY AttemptsOnPool, FS_Subset, FS_CardinalityType DEF PoolBounded
<1>3. IsFiniteSet(Attempts') /\ Cardinality(Attempts') \in Nat /\ Cardinality(Attempts') <= Threads
  <2>1. Attempts' \subseteq Pool'
    BY DEF Attempts, Attempting, Pool, OnPool
  <2>2. IsFiniteSet(Pool') /\ Cardinality(Pool') <= Threads /\ Cardinality(Pool') \in Nat
    BY <1>1, FS_CardinalityType DEF PoolBounded
  <2>3. IsFiniteSet(Attempts') /\ Cardinality(Attempts') <= Cardinality(Pool')
    BY <2>1, <2>2, FS_Subset
  <2>4. Cardinality(Attempts') \in Nat
    BY <2>3, FS_CardinalityType
  <2> QED BY <2>2, <2>3, <2>4
<1>4. fails \in Nat /\ fails' \in Nat
  BY <1>1 DEF AccountsInv, TypeOK
<1>5. fails + Cardinality(Attempts) <= Limit - 1 + Threads
  BY DEF FailuresBounded, Attempts
<1>6. fails' + Cardinality(Attempts') <= Limit - 1 + Threads
  <2>1. CASE fails < Limit /\ fails' = fails
    BY <2>1, <1>3, <1>4
  <2>2. CASE Attempts' \subseteq Attempts /\ fails' <= fails
    <3>1. Cardinality(Attempts') <= Cardinality(Attempts)
      BY <2>2, <1>2, FS_Subset
    <3> QED BY <3>1, <2>2, <1>2, <1>3, <1>4, <1>5
  <2>3. ASSUME NEW c \in Attempts, Attempts' = Attempts \ {c}, fails' = fails + 1
        PROVE  fails' + Cardinality(Attempts') <= Limit - 1 + Threads
    <3>1. Cardinality(Attempts') = Cardinality(Attempts) - 1
      BY <2>3, <1>2, FS_RemoveElement
    <3> QED BY <3>1, <2>3, <1>2, <1>4, <1>5
  <2> QED BY <2>1, <2>2, <2>3, AttemptsChange DEF LimiterInv
<1> QED BY <1>1, <1>6 DEF FailuresBounded, Attempts

\* The limiter of login (main.py:325-338) is overrun by no more attempts than
\* the pool has threads, for every limit and every pool.
THEOREM FailuresBoundedHolds == Spec => []FailuresBounded
BY InitLimiter, NextLimiter, PTL DEF LimiterInv, Spec
=============================================================================
