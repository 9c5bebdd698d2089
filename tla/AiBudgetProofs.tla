---------------------------- MODULE AiBudgetProofs ----------------------------
(* Theorems about AiBudget, for any number of chats, days, limits and faults. *)
EXTENDS AiBudget, FiniteSetTheorems, TLAPS

Calling == {c \in Chats : pc[c] = "call"}
Releasing == {c \in Chats : pc[c] = "release"}

\* The lock is held from its acquisition to the reservation.
LockHeld == \A c \in Chats : lock = c <=> pc[c] \in {"limits", "day", "row"}

\* The limits a holder has read are no higher than the highest there was.
LimitsKnown ==
    /\ limits.requests <= peak.requests /\ limits.tokens <= peak.tokens
    /\ \A c \in Chats : pc[c] \in {"day", "row"} =>
         look.limits.requests <= peak.requests /\ look.limits.tokens <= peak.tokens

\* Nothing is recorded for a day that has not come.
FutureEmpty == \A d \in Days : d > today => usage[d] = Empty

\* inflight counts the calls at the provider and those about to be released.
Counted == IsFiniteSet(Calling) /\ IsFiniteSet(Releasing)
           /\ inflight = Cardinality(Calling) + Cardinality(Releasing)

\* What is recorded today and what may still be recorded today.
WithinToday == usage[today].requests + Cardinality(Calling) <= peak.requests

\* A holder that read the day before midnight: what was recorded since then is
\* still reserved, as nothing is released while the lock is held.
AfterMidnight ==
    \A c \in Chats : pc[c] = "row" =>
        /\ look.day <= today
        /\ look.day < today => usage[today].requests <= Cardinality(Releasing)

BudgetInv ==
    /\ TypeOK /\ LockHeld /\ LimitsKnown /\ FutureEmpty /\ Counted
    /\ WithinToday /\ AfterMidnight /\ RequestsWithinLimit

\* The same for the tokens: what is reserved is what the calls that are counted
\* may still be given or have just been given, ...
TokensCounted ==
    /\ IsFiniteSet(TokensOf(Calling)) /\ IsFiniteSet(TokensOf(Releasing))
    /\ reserved = Cardinality(TokensOf(Calling)) + Cardinality(TokensOf(Releasing))

\* ... what is recorded today and may still be recorded today is within the
\* limit, but for what was reported beyond a reservation, ...
OutputToday ==
    /\ usage[today].output + Cardinality(TokensOf(Calling)) <= peak.tokens + beyond[today]
    /\ Cardinality(TokensOf(Calling)) <= peak.tokens

\* ... and what was recorded since a holder read the day is still reserved.
OutputAfterMidnight ==
    \A c \in Chats : pc[c] = "row" /\ look.day < today =>
        usage[today].output <= Cardinality(TokensOf(Releasing)) + beyond[today]

TokenInv == TokensCounted /\ OutputToday /\ OutputAfterMidnight /\ OutputWithinLimit

USE DEF counters, settings, records, Goto, Free

LEMMA Sizes ==
    ASSUME IsFiniteSet(Calling), IsFiniteSet(Releasing)
    PROVE  Cardinality(Calling) \in Nat /\ Cardinality(Releasing) \in Nat
  BY FS_CardinalityType

\* Init, with no chat at the provider.
LEMMA InitInv == Init => BudgetInv
<1> SUFFICES ASSUME Init PROVE BudgetInv
  OBVIOUS
<1> USE LimitsAssumption, DaysAssumption, NobodyAssumption DEF Init
<1>1. Calling = {} /\ Releasing = {}
  BY DEF Calling, Releasing
<1>2. IsFiniteSet({}) /\ Cardinality({}) = 0
  BY FS_EmptySet
<1>3. TypeOK
  BY DEF TypeOK, Steps, Limits, Days, Empty
<1>4. usage[today] = Empty /\ Empty.requests = 0 /\ peak.requests \in Nat
  BY <1>3 DEF TypeOK, Empty, Days
<1>5. LockHeld /\ LimitsKnown /\ FutureEmpty /\ AfterMidnight
  BY <1>3 DEF LockHeld, LimitsKnown, FutureEmpty, AfterMidnight, TypeOK, Limits
<1>6. Counted /\ WithinToday
  BY <1>1, <1>2, <1>4 DEF Counted, WithinToday
<1>7. RequestsWithinLimit
  BY <1>4 DEF RequestsWithinLimit, Empty
<1> QED BY <1>3, <1>5, <1>6, <1>7 DEF BudgetInv

\* What the answer adds to the usage.
Rows == [requests : Nat, input : Nat, output : Nat]

LEMMA Recorded ==
    ASSUME TypeOK, NEW c \in Chats, Answer(c)
    PROVE  /\ usage' \in [Days -> Rows]
           /\ usage'[today].requests = usage[today].requests + 1
           /\ beyond' \in [Days -> Nat]
           /\ usage'[today].output + beyond[today] <=
                usage[today].output + beyond'[today] + output[c]
           /\ \A d \in Days : d # today => usage'[d] = usage[d] /\ beyond'[d] = beyond[d]
<1> USE LimitsAssumption DEF TypeOK
<1>1. PICK in \in Inputs, out \in Outputs :
        /\ usage' = [usage EXCEPT
             ![today].requests = @ + 1, ![today].input = @ + in, ![today].output = @ + out]
        /\ beyond' = [beyond EXCEPT ![today] = @ + Larger(0, out - output[c])]
  BY DEF Answer
<1>2. in \in Nat /\ out \in Nat /\ today \in Days /\ usage[today] \in Rows
  BY DEF Rows
<1>3. usage'[today] = [usage[today] EXCEPT !.requests = @ + 1, !.input = @ + in, !.output = @ + out]
  BY <1>1, <1>2
<1> DEFINE row == usage[today]
<1>4. /\ usage'[today] \in Rows /\ usage'[today].requests = usage[today].requests + 1
      /\ usage'[today].output = usage[today].output + out
  <2>1. row \in [requests : Nat, input : Nat, output : Nat]
    BY <1>2 DEF Rows
  <2>2. usage'[today] = [row EXCEPT !.requests = row.requests + 1, !.input = row.input + in,
                                    !.output = row.output + out]
    BY <1>3
  <2>3. usage'[today] = [requests |-> row.requests + 1, input |-> row.input + in,
                         output |-> row.output + out]
    BY <2>1, <2>2
  <2> QED BY <2>1, <2>3, <1>2 DEF Rows
<1>5. \A d \in Days : d # today => usage'[d] = usage[d]
  BY <1>1
<1>6. usage' = [d \in Days |-> usage'[d]]
  BY <1>1
<1>7. \A d \in Days : usage'[d] \in Rows
  BY <1>4, <1>5 DEF Rows
<1>8. /\ Larger(0, out - output[c]) \in Nat /\ out <= output[c] + Larger(0, out - output[c])
  BY <1>2 DEF Larger
<1>9. /\ beyond' \in [Days -> Nat] /\ beyond'[today] = beyond[today] + Larger(0, out - output[c])
      /\ \A d \in Days : d # today => beyond'[d] = beyond[d]
  BY <1>1, <1>2, <1>8
<1>10. usage'[today].output + beyond[today] <= usage[today].output + beyond'[today] + output[c]
  <2>1. output[c] \in Nat /\ usage[today].output \in Nat /\ beyond[today] \in Nat
    BY <1>2 DEF Rows
  <2> QED BY <1>2, <1>4, <1>8, <1>9, <2>1
<1> QED BY <1>4, <1>5, <1>6, <1>7, <1>9, <1>10

\* The highest limits only grow, and are at least the ones in force.
LEMMA Settings ==
    ASSUME TypeOK, UpdateSettings
    PROVE  /\ limits' \in Limits /\ maxTokens' \in MaxTokens /\ enabled' \in BOOLEAN
           /\ peak' \in [requests : Nat, tokens : Nat]
           /\ peak'.requests >= peak.requests /\ peak'.tokens >= peak.tokens
           /\ limits.requests <= peak.requests => limits'.requests <= peak'.requests
           /\ limits.tokens <= peak.tokens => limits'.tokens <= peak'.tokens
<1> USE LimitsAssumption DEF TypeOK, Larger, Limits
<1>1. CASE UNCHANGED <<limits, peak>>
  BY <1>1 DEF UpdateSettings
<1>2. ASSUME NEW n \in RequestLimits, limits' = [limits EXCEPT !.requests = n],
             peak' = [requests |-> Larger(peak.requests, limits'.requests),
                      tokens |-> Larger(peak.tokens, limits'.tokens)],
             UNCHANGED <<enabled, maxTokens>>
      PROVE  /\ limits' \in Limits /\ peak' \in [requests : Nat, tokens : Nat]
             /\ peak'.requests >= peak.requests /\ limits'.requests <= peak'.requests
             /\ peak'.tokens >= peak.tokens /\ limits'.tokens <= peak'.tokens
  BY <1>2
<1>3. ASSUME NEW n \in TokenLimits, limits' = [limits EXCEPT !.tokens = n],
             peak' = [requests |-> Larger(peak.requests, limits'.requests),
                      tokens |-> Larger(peak.tokens, limits'.tokens)],
             UNCHANGED <<enabled, maxTokens>>
      PROVE  /\ limits' \in Limits /\ peak' \in [requests : Nat, tokens : Nat]
             /\ peak'.requests >= peak.requests /\ limits'.requests <= peak'.requests
             /\ peak'.tokens >= peak.tokens /\ limits'.tokens <= peak'.tokens
  BY <1>3
<1> QED BY <1>1, <1>2, <1>3 DEF UpdateSettings

\* Types are kept by every step.
LEMMA NextType == TypeOK /\ [Next]_vars => TypeOK'
<1> SUFFICES ASSUME TypeOK, [Next]_vars PROVE TypeOK'
  OBVIOUS
<1> USE LimitsAssumption, DaysAssumption, NobodyAssumption DEF TypeOK, Steps
<1>1. ASSUME NEW c \in Chats, Start(c) PROVE TypeOK'
  BY <1>1 DEF Start
<1>2. ASSUME NEW c \in Chats, EnforceRate(c) PROVE TypeOK'
  BY <1>2 DEF EnforceRate
<1>3. ASSUME NEW c \in Chats, ReadParams(c) PROVE TypeOK'
  BY <1>3 DEF ReadParams
<1>4. ASSUME NEW c \in Chats, TakeLock(c) PROVE TypeOK'
  BY <1>4 DEF TakeLock
<1>5. ASSUME NEW c \in Chats, ReadLimits(c) PROVE TypeOK'
  BY <1>5 DEF ReadLimits
<1>6. ASSUME NEW c \in Chats, ReadDay(c) PROVE TypeOK'
  BY <1>6 DEF ReadDay
<1>7. ASSUME NEW c \in Chats, Reserve(c) PROVE TypeOK'
  BY <1>7 DEF Reserve
<1>8. ASSUME NEW c \in Chats, Answer(c) PROVE TypeOK'
  BY <1>8, Recorded DEF Answer, Rows
<1>9. ASSUME NEW c \in Chats, ProviderFails(c) PROVE TypeOK'
  BY <1>9 DEF ProviderFails, LeaveCall
<1>10. ASSUME NEW c \in Chats, Release(c) PROVE TypeOK'
  BY <1>10 DEF Release, Larger
<1>11. ASSUME NEW c \in Chats, DatabaseError(c) PROVE TypeOK'
  BY <1>11 DEF DatabaseError
<1>12. CASE UpdateSettings
  BY <1>12, Settings DEF UpdateSettings
<1>13. CASE MinutePasses
  BY <1>13 DEF MinutePasses
<1>14. CASE Midnight
  <2>1. today' \in Days
    BY <1>14 DEF Midnight, Days
  <2> QED BY <1>14, <2>1 DEF Midnight
<1>15. CASE PanelRestarts
  BY <1>15 DEF PanelRestarts
<1>16. CASE UNCHANGED vars
  BY <1>16 DEF vars
<1> QED
  BY <1>1, <1>2, <1>3, <1>4, <1>5, <1>6, <1>7, <1>8, <1>9, <1>10, <1>11, <1>12, <1>13, <1>14,
     <1>15, <1>16 DEF Next, Chat

\* Whoever leaves the critical section gives the lock back.
LEMMA NextLock == BudgetInv /\ [Next]_vars => LockHeld'
<1> SUFFICES ASSUME BudgetInv, [Next]_vars PROVE LockHeld'
  OBVIOUS
<1> USE NobodyAssumption DEF BudgetInv, TypeOK, LockHeld
<1>1. ASSUME NEW c \in Chats, Start(c) PROVE LockHeld'
  BY <1>1 DEF Start
<1>2. ASSUME NEW c \in Chats, EnforceRate(c) PROVE LockHeld'
  BY <1>2 DEF EnforceRate
<1>3. ASSUME NEW c \in Chats, ReadParams(c) PROVE LockHeld'
  BY <1>3 DEF ReadParams
<1>4. ASSUME NEW c \in Chats, TakeLock(c) PROVE LockHeld'
  BY <1>4 DEF TakeLock
<1>5. ASSUME NEW c \in Chats, ReadLimits(c) PROVE LockHeld'
  BY <1>5 DEF ReadLimits
<1>6. ASSUME NEW c \in Chats, ReadDay(c) PROVE LockHeld'
  BY <1>6 DEF ReadDay
<1>7. ASSUME NEW c \in Chats, Reserve(c) PROVE LockHeld'
  BY <1>7 DEF Reserve
<1>8. ASSUME NEW c \in Chats, Answer(c) PROVE LockHeld'
  BY <1>8 DEF Answer
<1>9. ASSUME NEW c \in Chats, ProviderFails(c) PROVE LockHeld'
  BY <1>9 DEF ProviderFails, LeaveCall
<1>10. ASSUME NEW c \in Chats, Release(c) PROVE LockHeld'
  BY <1>10 DEF Release
<1>11. ASSUME NEW c \in Chats, DatabaseError(c) PROVE LockHeld'
  BY <1>11 DEF DatabaseError
<1>12. CASE UpdateSettings
  BY <1>12 DEF UpdateSettings
<1>13. CASE MinutePasses
  BY <1>13 DEF MinutePasses
<1>14. CASE Midnight
  BY <1>14 DEF Midnight
<1>15. CASE PanelRestarts
  BY <1>15 DEF PanelRestarts
<1>16. CASE UNCHANGED vars
  BY <1>16 DEF vars
<1> QED
  BY <1>1, <1>2, <1>3, <1>4, <1>5, <1>6, <1>7, <1>8, <1>9, <1>10, <1>11, <1>12, <1>13, <1>14,
     <1>15, <1>16 DEF Next, Chat

\* Limits are read while the highest limits there were can only grow.
LEMMA NextLimits == BudgetInv /\ [Next]_vars => LimitsKnown'
<1> SUFFICES ASSUME BudgetInv, [Next]_vars PROVE LimitsKnown'
  OBVIOUS
<1> USE LimitsAssumption DEF BudgetInv, TypeOK, LimitsKnown, LockHeld, Limits
<1>1. ASSUME NEW c \in Chats, Start(c) PROVE LimitsKnown'
  BY <1>1 DEF Start
<1>2. ASSUME NEW c \in Chats, EnforceRate(c) PROVE LimitsKnown'
  BY <1>2 DEF EnforceRate
<1>3. ASSUME NEW c \in Chats, ReadParams(c) PROVE LimitsKnown'
  BY <1>3 DEF ReadParams
<1>4. ASSUME NEW c \in Chats, TakeLock(c) PROVE LimitsKnown'
  BY <1>4 DEF TakeLock
<1>5. ASSUME NEW c \in Chats, ReadLimits(c) PROVE LimitsKnown'
  BY <1>5 DEF ReadLimits
<1>6. ASSUME NEW c \in Chats, ReadDay(c) PROVE LimitsKnown'
  BY <1>6 DEF ReadDay
<1>7. ASSUME NEW c \in Chats, Reserve(c) PROVE LimitsKnown'
  BY <1>7 DEF Reserve
<1>8. ASSUME NEW c \in Chats, Answer(c) PROVE LimitsKnown'
  BY <1>8 DEF Answer
<1>9. ASSUME NEW c \in Chats, ProviderFails(c) PROVE LimitsKnown'
  BY <1>9 DEF ProviderFails, LeaveCall
<1>10. ASSUME NEW c \in Chats, Release(c) PROVE LimitsKnown'
  BY <1>10 DEF Release
<1>11. ASSUME NEW c \in Chats, DatabaseError(c) PROVE LimitsKnown'
  BY <1>11 DEF DatabaseError
<1>12. CASE UpdateSettings
  BY <1>12, Settings DEF UpdateSettings
<1>13. CASE MinutePasses
  BY <1>13 DEF MinutePasses
<1>14. CASE Midnight
  BY <1>14 DEF Midnight
<1>15. CASE PanelRestarts
  BY <1>15 DEF PanelRestarts
<1>16. CASE UNCHANGED vars
  BY <1>16 DEF vars
<1> QED
  BY <1>1, <1>2, <1>3, <1>4, <1>5, <1>6, <1>7, <1>8, <1>9, <1>10, <1>11, <1>12, <1>13, <1>14,
     <1>15, <1>16 DEF Next, Chat

\* Only the row of today is written.
LEMMA NextFuture == BudgetInv /\ [Next]_vars => FutureEmpty'
<1> SUFFICES ASSUME BudgetInv, [Next]_vars PROVE FutureEmpty'
  OBVIOUS
<1> USE DaysAssumption DEF BudgetInv, TypeOK, FutureEmpty, Days
<1>1. ASSUME NEW c \in Chats, Start(c) PROVE FutureEmpty'
  BY <1>1 DEF Start
<1>2. ASSUME NEW c \in Chats, EnforceRate(c) PROVE FutureEmpty'
  BY <1>2 DEF EnforceRate
<1>3. ASSUME NEW c \in Chats, ReadParams(c) PROVE FutureEmpty'
  BY <1>3 DEF ReadParams
<1>4. ASSUME NEW c \in Chats, TakeLock(c) PROVE FutureEmpty'
  BY <1>4 DEF TakeLock
<1>5. ASSUME NEW c \in Chats, ReadLimits(c) PROVE FutureEmpty'
  BY <1>5 DEF ReadLimits
<1>6. ASSUME NEW c \in Chats, ReadDay(c) PROVE FutureEmpty'
  BY <1>6 DEF ReadDay
<1>7. ASSUME NEW c \in Chats, Reserve(c) PROVE FutureEmpty'
  BY <1>7 DEF Reserve
<1>8. ASSUME NEW c \in Chats, Answer(c) PROVE FutureEmpty'
  <2> SUFFICES ASSUME NEW d \in Days, d > today PROVE usage'[d] = Empty
    BY <1>8 DEF Answer
  <2>1. d # today
    BY DEF Days
  <2>2. usage'[d] = usage[d]
    BY <1>8, <2>1, Recorded
  <2> QED BY <2>2
<1>9. ASSUME NEW c \in Chats, ProviderFails(c) PROVE FutureEmpty'
  BY <1>9 DEF ProviderFails, LeaveCall
<1>10. ASSUME NEW c \in Chats, Release(c) PROVE FutureEmpty'
  BY <1>10 DEF Release
<1>11. ASSUME NEW c \in Chats, DatabaseError(c) PROVE FutureEmpty'
  BY <1>11 DEF DatabaseError
<1>12. CASE UpdateSettings
  BY <1>12 DEF UpdateSettings
<1>13. CASE MinutePasses
  BY <1>13 DEF MinutePasses
<1>14. CASE Midnight
  BY <1>14 DEF Midnight
<1>15. CASE PanelRestarts
  BY <1>15 DEF PanelRestarts
<1>16. CASE UNCHANGED vars
  BY <1>16 DEF vars
<1> QED
  BY <1>1, <1>2, <1>3, <1>4, <1>5, <1>6, <1>7, <1>8, <1>9, <1>10, <1>11, <1>12, <1>13, <1>14,
     <1>15, <1>16 DEF Next, Chat

\* How a step moves the calls that count.
Same ==
    /\ Calling' = Calling /\ Releasing' = Releasing
    /\ inflight' = inflight /\ reserved' = reserved /\ usage' = usage /\ beyond' = beyond
    /\ \A c \in Calling \cup Releasing : output'[c] = output[c]
Enters(c) ==
    /\ pc[c] = "row" /\ RequestsLeft(usage[look.day])
    /\ TokensLeft(usage[look.day], output[c])
    /\ c \notin Calling /\ Calling' = Calling \cup {c} /\ Releasing' = Releasing
    /\ inflight' = inflight + 1 /\ reserved' = reserved + output[c]
    /\ UNCHANGED <<usage, beyond, today, peak, output>>
Leaves(c) ==
    /\ c \in Calling /\ Calling' = Calling \ {c}
    /\ c \notin Releasing /\ Releasing' = Releasing \cup {c}
    /\ UNCHANGED <<inflight, reserved, today, peak, output>>
    /\ usage'[today].requests \in {usage[today].requests, usage[today].requests + 1}
    /\ usage'[today].output + beyond[today] <=
         usage[today].output + beyond'[today] + output[c]
    /\ \A d \in Days : d # today => usage'[d] = usage[d] /\ beyond'[d] = beyond[d]
Released(c) ==
    /\ c \in Releasing /\ Releasing' = Releasing \ {c} /\ Calling' = Calling
    /\ lock = Nobody /\ lock' = Nobody
    /\ inflight' = Larger(0, inflight - 1) /\ reserved' = Larger(0, reserved - output[c])
    /\ UNCHANGED <<usage, beyond, today, peak, output>>
Cleared ==
    /\ Calling' = {} /\ Releasing' = {} /\ inflight' = 0 /\ reserved' = 0
    /\ lock' = Nobody /\ UNCHANGED <<usage, beyond, today, peak>>
Moves == Same \/ Cleared \/ \E c \in Chats : Enters(c) \/ Leaves(c) \/ Released(c)

LEMMA StepMoves == BudgetInv /\ [Next]_vars => Moves
<1> SUFFICES ASSUME BudgetInv, [Next]_vars PROVE Moves
  OBVIOUS
<1> USE DEF BudgetInv, TypeOK, Calling, Releasing, Moves, Same
<1>1. ASSUME NEW c \in Chats, Start(c) PROVE Moves
  BY <1>1 DEF Start
<1>2. ASSUME NEW c \in Chats, EnforceRate(c) PROVE Moves
  BY <1>2 DEF EnforceRate
<1>3. ASSUME NEW c \in Chats, ReadParams(c) PROVE Moves
  BY <1>3 DEF ReadParams
<1>4. ASSUME NEW c \in Chats, TakeLock(c) PROVE Moves
  BY <1>4 DEF TakeLock
<1>5. ASSUME NEW c \in Chats, ReadLimits(c) PROVE Moves
  BY <1>5 DEF ReadLimits
<1>6. ASSUME NEW c \in Chats, ReadDay(c) PROVE Moves
  BY <1>6 DEF ReadDay
<1>7. ASSUME NEW c \in Chats, Reserve(c) PROVE Moves
  BY <1>7 DEF Reserve, Enters
<1>8. ASSUME NEW c \in Chats, Answer(c) PROVE Moves
  <2>1. /\ c \in Calling /\ Calling' = Calling \ {c}
        /\ c \notin Releasing /\ Releasing' = Releasing \cup {c}
        /\ UNCHANGED <<inflight, reserved, today, peak, output>>
    BY <1>8 DEF Answer
  <2> QED BY <1>8, <2>1, Recorded DEF Leaves
<1>9. ASSUME NEW c \in Chats, ProviderFails(c) PROVE Moves
  BY <1>9 DEF ProviderFails, LeaveCall, Leaves
<1>10. ASSUME NEW c \in Chats, Release(c) PROVE Moves
  BY <1>10 DEF Release, Released
<1>11. ASSUME NEW c \in Chats, DatabaseError(c) PROVE Moves
  BY <1>11 DEF DatabaseError, Leaves
<1>12. CASE UpdateSettings
  BY <1>12 DEF UpdateSettings
<1>13. CASE MinutePasses
  BY <1>13 DEF MinutePasses
<1>14. CASE Midnight
  BY <1>14 DEF Midnight
<1>15. CASE PanelRestarts
  BY <1>15 DEF PanelRestarts, Cleared
<1>16. CASE UNCHANGED vars
  BY <1>16 DEF vars
<1> QED
  BY <1>1, <1>2, <1>3, <1>4, <1>5, <1>6, <1>7, <1>8, <1>9, <1>10, <1>11, <1>12, <1>13, <1>14,
     <1>15, <1>16 DEF Next, Chat

\* The day and the highest limit only grow.
Frame ==
    /\ today' = today \/ (today' \in Days /\ today' = today + 1 /\ usage' = usage)
    /\ peak'.requests >= peak.requests /\ peak'.tokens >= peak.tokens

LEMMA StepFrame == BudgetInv /\ [Next]_vars => Frame
<1> SUFFICES ASSUME BudgetInv, [Next]_vars PROVE Frame
  OBVIOUS
<1> USE DaysAssumption DEF BudgetInv, TypeOK, Frame
<1> peak.requests >= peak.requests /\ peak.tokens >= peak.tokens
  OBVIOUS
<1>1. ASSUME NEW c \in Chats, Start(c) PROVE Frame
  BY <1>1 DEF Start
<1>2. ASSUME NEW c \in Chats, EnforceRate(c) PROVE Frame
  BY <1>2 DEF EnforceRate
<1>3. ASSUME NEW c \in Chats, ReadParams(c) PROVE Frame
  BY <1>3 DEF ReadParams
<1>4. ASSUME NEW c \in Chats, TakeLock(c) PROVE Frame
  BY <1>4 DEF TakeLock
<1>5. ASSUME NEW c \in Chats, ReadLimits(c) PROVE Frame
  BY <1>5 DEF ReadLimits
<1>6. ASSUME NEW c \in Chats, ReadDay(c) PROVE Frame
  BY <1>6 DEF ReadDay
<1>7. ASSUME NEW c \in Chats, Reserve(c) PROVE Frame
  BY <1>7 DEF Reserve
<1>8. ASSUME NEW c \in Chats, Answer(c) PROVE Frame
  BY <1>8 DEF Answer
<1>9. ASSUME NEW c \in Chats, ProviderFails(c) PROVE Frame
  BY <1>9 DEF ProviderFails, LeaveCall
<1>10. ASSUME NEW c \in Chats, Release(c) PROVE Frame
  BY <1>10 DEF Release
<1>11. ASSUME NEW c \in Chats, DatabaseError(c) PROVE Frame
  BY <1>11 DEF DatabaseError
<1>12. CASE UpdateSettings
  BY <1>12, Settings DEF UpdateSettings
<1>13. CASE MinutePasses
  BY <1>13 DEF MinutePasses
<1>14. CASE Midnight
  <2>1. today' \in Days
    BY <1>14 DEF Midnight, Days
  <2> QED BY <1>14, <2>1 DEF Midnight
<1>15. CASE PanelRestarts
  BY <1>15 DEF PanelRestarts
<1>16. CASE UNCHANGED vars
  BY <1>16 DEF vars
<1> QED
  BY <1>1, <1>2, <1>3, <1>4, <1>5, <1>6, <1>7, <1>8, <1>9, <1>10, <1>11, <1>12, <1>13, <1>14,
     <1>15, <1>16 DEF Next, Chat

\* A chat comes to the reservation with the day it is, and keeps it.
RowKept ==
    \A c \in Chats : pc'[c] = "row" =>
        \/ look'.day = today /\ today' = today
        \/ pc[c] = "row" /\ look'.day = look.day

LEMMA StepRow == BudgetInv /\ [Next]_vars => RowKept
<1> SUFFICES ASSUME BudgetInv, [Next]_vars PROVE RowKept
  OBVIOUS
<1> USE DEF BudgetInv, TypeOK, LockHeld, RowKept
<1>1. ASSUME NEW c \in Chats, Start(c) PROVE RowKept
  BY <1>1 DEF Start
<1>2. ASSUME NEW c \in Chats, EnforceRate(c) PROVE RowKept
  BY <1>2 DEF EnforceRate
<1>3. ASSUME NEW c \in Chats, ReadParams(c) PROVE RowKept
  BY <1>3 DEF ReadParams
<1>4. ASSUME NEW c \in Chats, TakeLock(c) PROVE RowKept
  BY <1>4 DEF TakeLock
<1>5. ASSUME NEW c \in Chats, ReadLimits(c) PROVE RowKept
  BY <1>5 DEF ReadLimits
<1>6. ASSUME NEW c \in Chats, ReadDay(c) PROVE RowKept
  BY <1>6 DEF ReadDay
<1>7. ASSUME NEW c \in Chats, Reserve(c) PROVE RowKept
  BY <1>7 DEF Reserve
<1>8. ASSUME NEW c \in Chats, Answer(c) PROVE RowKept
  BY <1>8 DEF Answer
<1>9. ASSUME NEW c \in Chats, ProviderFails(c) PROVE RowKept
  BY <1>9 DEF ProviderFails, LeaveCall
<1>10. ASSUME NEW c \in Chats, Release(c) PROVE RowKept
  BY <1>10 DEF Release
<1>11. ASSUME NEW c \in Chats, DatabaseError(c) PROVE RowKept
  BY <1>11 DEF DatabaseError
<1>12. CASE UpdateSettings
  BY <1>12 DEF UpdateSettings
<1>13. CASE MinutePasses
  BY <1>13 DEF MinutePasses
<1>14. CASE Midnight
  BY <1>14 DEF Midnight
<1>15. CASE PanelRestarts
  BY <1>15 DEF PanelRestarts
<1>16. CASE UNCHANGED vars
  BY <1>16 DEF vars
<1> QED
  BY <1>1, <1>2, <1>3, <1>4, <1>5, <1>6, <1>7, <1>8, <1>9, <1>10, <1>11, <1>12, <1>13, <1>14,
     <1>15, <1>16 DEF Next, Chat

\* A chat enters and leaves the count once.
LEMMA NextCounted == BudgetInv /\ [Next]_vars => Counted'
<1> SUFFICES ASSUME BudgetInv, [Next]_vars PROVE Counted'
  OBVIOUS
<1> USE DEF BudgetInv, Counted
<1>1. Cardinality(Calling) \in Nat /\ Cardinality(Releasing) \in Nat
  BY Sizes
<1>2. CASE Same
  BY <1>2 DEF Same
<1>3. CASE Cleared
  BY <1>3, FS_EmptySet DEF Cleared
<1>4. ASSUME NEW c \in Chats, Enters(c) PROVE Counted'
  <2>1. IsFiniteSet(Calling') /\ Cardinality(Calling') = Cardinality(Calling) + 1
    BY <1>4, FS_AddElement DEF Enters
  <2> QED BY <1>1, <1>4, <2>1 DEF Enters
<1>5. ASSUME NEW c \in Chats, Leaves(c) PROVE Counted'
  <2>1. IsFiniteSet(Calling') /\ Cardinality(Calling') = Cardinality(Calling) - 1
    BY <1>5, FS_RemoveElement DEF Leaves
  <2>2. IsFiniteSet(Releasing') /\ Cardinality(Releasing') = Cardinality(Releasing) + 1
    BY <1>5, FS_AddElement DEF Leaves
  <2> QED BY <1>1, <1>5, <2>1, <2>2 DEF Leaves
<1>6. ASSUME NEW c \in Chats, Released(c) PROVE Counted'
  <2>1. IsFiniteSet(Releasing') /\ Cardinality(Releasing') = Cardinality(Releasing) - 1
    BY <1>6, FS_RemoveElement DEF Released
  <2>2. Cardinality(Releasing') \in Nat
    BY <2>1, FS_CardinalityType
  <2> QED BY <1>1, <1>6, <2>1, <2>2 DEF Released, Larger
<1> QED BY <1>2, <1>3, <1>4, <1>5, <1>6, StepMoves DEF Moves

\* What the reservation knew of the day was no less than there is, or the day
\* is new and what was recorded in it is still counted.
LEMMA NextWithin == BudgetInv /\ [Next]_vars => WithinToday'
<1> SUFFICES ASSUME BudgetInv, [Next]_vars PROVE WithinToday'
  OBVIOUS
<1>0. TypeOK /\ TypeOK' /\ WithinToday /\ AfterMidnight /\ LimitsKnown /\ FutureEmpty /\ Counted
  BY NextType DEF BudgetInv
<1>1. Cardinality(Calling) \in Nat /\ Cardinality(Releasing) \in Nat
  BY <1>0, Sizes DEF Counted
<1>2. Cardinality(Calling') \in Nat
  BY NextCounted, FS_CardinalityType DEF Counted
<1>3. /\ usage[today].requests \in Nat /\ peak.requests \in Nat /\ peak'.requests \in Nat
      /\ \A d \in Days : usage[d].requests \in Nat
      /\ today \in Days /\ look.day \in Days /\ look.limits.requests \in Nat
  BY <1>0, LimitsAssumption DEF TypeOK, Limits
<1>4. Frame
  BY StepFrame
<1>5. CASE Same \/ Cleared
  <2>1. usage' = usage /\ Cardinality(Calling') <= Cardinality(Calling)
    BY <1>1, <1>5, FS_EmptySet DEF Same, Cleared
  <2>2. CASE today' = today
    BY <1>0, <1>1, <1>2, <1>3, <1>4, <2>1, <2>2 DEF WithinToday, Frame
  <2>3. CASE today' \in Days /\ today' = today + 1
    <3>1. today' > today
      BY <1>3, <2>3 DEF Days
    <3>2. usage'[today'].requests = 0
      BY <1>0, <2>1, <2>3, <3>1 DEF FutureEmpty, Empty
    <3> QED BY <1>0, <1>1, <1>2, <1>3, <1>4, <2>1, <3>2 DEF WithinToday, Frame
  <2> QED BY <1>4, <2>2, <2>3 DEF Frame
<1>6. ASSUME NEW c \in Chats, Enters(c) PROVE WithinToday'
  <2>1. Cardinality(Calling') = Cardinality(Calling) + 1
    BY <1>0, <1>6, FS_AddElement DEF Enters, Counted
  <2>2. usage[look.day].requests + inflight < peak.requests
    BY <1>0, <1>3, <1>6 DEF Enters, RequestsLeft, LimitsKnown, TypeOK
  <2>3. usage[today].requests + Cardinality(Calling) < peak.requests
    <3>1. CASE look.day = today
      BY <1>0, <1>1, <1>3, <2>2, <3>1 DEF Counted
    <3>2. CASE look.day < today
      <4>1. usage[today].requests <= Cardinality(Releasing)
        BY <1>0, <1>6, <3>2 DEF AfterMidnight, Enters
      <4> QED BY <1>0, <1>1, <1>3, <2>2, <4>1 DEF Counted
    <3> QED BY <1>0, <1>3, <1>6, <3>1, <3>2 DEF AfterMidnight, Enters, Days
  <2> QED BY <1>1, <1>3, <1>6, <2>1, <2>3 DEF WithinToday, Enters
<1>7. ASSUME NEW c \in Chats, Leaves(c) PROVE WithinToday'
  <2>1. Cardinality(Calling') = Cardinality(Calling) - 1
    BY <1>0, <1>7, FS_RemoveElement DEF Leaves, Counted
  <2> QED BY <1>0, <1>1, <1>3, <1>7, <2>1 DEF WithinToday, Leaves
<1>8. ASSUME NEW c \in Chats, Released(c) PROVE WithinToday'
  BY <1>0, <1>8 DEF WithinToday, Released
<1> QED BY <1>5, <1>6, <1>7, <1>8, StepMoves DEF Moves

\* Nothing is released while a holder is between its two readings.
LEMMA NextAfter == BudgetInv /\ [Next]_vars => AfterMidnight'
<1> SUFFICES ASSUME BudgetInv, [Next]_vars, NEW c \in Chats, pc'[c] = "row"
             PROVE  /\ look'.day <= today'
                    /\ look'.day < today' => usage'[today'].requests <= Cardinality(Releasing')
  BY DEF AfterMidnight
<1>0. /\ TypeOK /\ TypeOK' /\ LockHeld /\ LockHeld' /\ AfterMidnight
      /\ FutureEmpty /\ Counted /\ Counted'
  BY NextType, NextLock, NextCounted DEF BudgetInv
<1>1. Cardinality(Releasing) \in Nat /\ Cardinality(Releasing') \in Nat
  BY <1>0, FS_CardinalityType DEF Counted
<1>2. today \in Int /\ today' \in Int /\ look.day \in Int /\ look'.day \in Int
  BY <1>0 DEF TypeOK, Days
<1>3. CASE look'.day = today /\ today' = today
  BY <1>2, <1>3
<1>4. CASE pc[c] = "row" /\ look'.day = look.day
  <2>1. lock = c /\ lock' = c /\ c # Nobody
    BY <1>0, <1>4, NobodyAssumption DEF LockHeld
  <2>2. look.day <= today /\ (look.day < today => usage[today].requests <= Cardinality(Releasing))
    BY <1>0, <1>4 DEF AfterMidnight
  <2>3. Frame
    BY StepFrame
  <2>4. usage[today].requests \in Nat
    BY <1>0 DEF TypeOK
  <2>5. CASE Same
    <3>1. CASE today' = today
      BY <1>4, <2>2, <2>5, <3>1 DEF Same
    <3>2. CASE today' \in Days /\ today' = today + 1
      <4>1. usage'[today'].requests = 0
        BY <1>0, <1>2, <2>5, <3>2 DEF FutureEmpty, Empty, Same
      <4> QED BY <1>1, <1>2, <1>4, <2>2, <3>2, <4>1
    <3> QED BY <2>3, <3>1, <3>2 DEF Frame
  <2>6. ASSUME NEW d \in Chats, Leaves(d)
        PROVE  /\ look'.day <= today'
               /\ look'.day < today' => usage'[today'].requests <= Cardinality(Releasing')
    <3>1. Cardinality(Releasing') = Cardinality(Releasing) + 1
      BY <1>0, <2>6, FS_AddElement DEF Leaves, Counted
    <3> QED BY <1>1, <1>4, <2>2, <2>4, <2>6, <3>1 DEF Leaves
  <2>7. ~Cleared /\ \A d \in Chats : ~Released(d)
    BY <2>1 DEF Cleared, Released
  <2>8. \A d \in Chats : ~Enters(d)
    <3> SUFFICES ASSUME NEW d \in Chats, Enters(d) PROVE FALSE
      OBVIOUS
    <3>1. d = c
      BY <1>0, <2>1 DEF Enters, LockHeld
    <3> QED BY <3>1 DEF Enters, Calling
  <2> QED BY <2>5, <2>6, <2>7, <2>8, StepMoves DEF Moves
<1> QED BY <1>3, <1>4, StepRow DEF RowKept

\* An answer is recorded for a call that was counted.
LEMMA NextRequests == BudgetInv /\ [Next]_vars => RequestsWithinLimit'
<1> SUFFICES ASSUME BudgetInv, [Next]_vars, NEW d \in Days
             PROVE  usage'[d].requests <= peak'.requests
  BY DEF RequestsWithinLimit
<1>0. TypeOK /\ TypeOK' /\ WithinToday /\ Counted /\ RequestsWithinLimit
  BY NextType DEF BudgetInv
<1>1. /\ usage[d].requests \in Nat /\ peak.requests \in Nat /\ peak'.requests \in Nat
      /\ usage[today].requests \in Nat /\ usage[d].requests <= peak.requests
  BY <1>0 DEF TypeOK, RequestsWithinLimit
<1>2. peak'.requests >= peak.requests
  BY StepFrame DEF Frame
<1>3. CASE usage' = usage
  BY <1>1, <1>2, <1>3
<1>4. ASSUME NEW c \in Chats, Leaves(c) PROVE usage'[d].requests <= peak'.requests
  <2>1. Cardinality(Calling \ {c}) = Cardinality(Calling) - 1 /\ IsFiniteSet(Calling \ {c})
    BY <1>0, <1>4, FS_RemoveElement DEF Leaves, Counted
  <2>2. Cardinality(Calling \ {c}) \in Nat /\ Cardinality(Calling) \in Nat
    BY <1>0, <2>1, FS_CardinalityType DEF Counted
  <2>3. usage[today].requests + 1 <= peak.requests
    BY <1>0, <1>1, <2>1, <2>2 DEF WithinToday
  <2> QED BY <1>1, <1>4, <2>3 DEF Leaves
<1> QED BY <1>3, <1>4, StepMoves DEF Moves, Same, Cleared, Enters, Released

LEMMA InvStep == BudgetInv /\ [Next]_vars => BudgetInv'
BY NextType, NextLock, NextLimits, NextFuture, NextCounted, NextWithin, NextAfter, NextRequests
   DEF BudgetInv

THEOREM Invariant == Spec => []BudgetInv
BY InitInv, InvStep, PTL DEF Spec

\* SECURITY.md:113-114: no day ends with more requests than the highest limit there
\* was (agent.py:633-680), for any number of chats, days, limits and faults.
THEOREM RequestsWithinLimitHolds == Spec => []RequestsWithinLimit
BY Invariant, PTL DEF BudgetInv

\* _inflight_calls counts the calls in flight (agent.py:633-666): a slot of the
\* budget is neither lost nor given twice.
THEOREM InflightExactHolds == Spec => []InflightExact
<1>1. BudgetInv => InflightExact
  <2> SUFFICES ASSUME BudgetInv PROVE inflight = Cardinality({c \in Chats : Reserving(c)})
    BY DEF InflightExact
  <2> USE DEF BudgetInv, Counted
  <2>1. {c \in Chats : Reserving(c)} = Calling \cup Releasing
    BY DEF Reserving, Calling, Releasing
  <2>2. Calling \cap Releasing = {}
    BY DEF Calling, Releasing
  <2>3. Cardinality(Calling \cup Releasing) =
          Cardinality(Calling) + Cardinality(Releasing) - Cardinality(Calling \cap Releasing)
    BY FS_Union
  <2>4. Cardinality(Calling \cap Releasing) = 0
    BY <2>2, FS_EmptySet
  <2>5. Cardinality(Calling) \in Nat /\ Cardinality(Releasing) \in Nat
    BY FS_CardinalityType
  <2>6. inflight = Cardinality(Calling) + Cardinality(Releasing)
    OBVIOUS
  <2>7. Cardinality(Calling \cup Releasing) = Cardinality(Calling) + Cardinality(Releasing)
    BY <2>3, <2>4, <2>5
  <2> QED BY <2>1, <2>6, <2>7
<1> QED BY Invariant, <1>1, PTL
-----------------------------------------------------------------------------
(* The tokens: their number is the sum of what the chats reserve *)

\* A chat that joins brings the tokens it reserves.
LEMMA TokensJoin ==
    ASSUME NEW S, NEW c, c \notin S, output[c] \in Nat, IsFiniteSet(TokensOf(S))
    PROVE  /\ IsFiniteSet(TokensOf(S \cup {c}))
           /\ Cardinality(TokensOf(S \cup {c})) = Cardinality(TokensOf(S)) + output[c]
<1> DEFINE own == {c} \X (1..output[c])
<1>1. IsFiniteSet(own) /\ Cardinality(own) = output[c]
  <2>1. IsFiniteSet({c}) /\ Cardinality({c}) = 1
    BY FS_Singleton
  <2>a. 1 \in Int /\ output[c] \in Int
    OBVIOUS
  <2>b. /\ IsFiniteSet(1..output[c])
        /\ Cardinality(1..output[c]) = IF 1 > output[c] THEN 0 ELSE output[c] - 1 + 1
    BY <2>a, FS_Interval
  <2>2. IsFiniteSet(1..output[c]) /\ Cardinality(1..output[c]) = output[c]
    BY <2>b
  <2>3. IsFiniteSet(own) /\ Cardinality(own) = Cardinality({c}) * Cardinality(1..output[c])
    BY <2>1, <2>2, FS_Product
  <2> QED BY <2>1, <2>2, <2>3
<1>2. TokensOf(S \cup {c}) = TokensOf(S) \cup own
  BY DEF TokensOf
<1>3. TokensOf(S) \cap own = {}
  BY DEF TokensOf
<1>4. Cardinality(TokensOf(S) \cap own) = 0
  BY <1>3, FS_EmptySet
<1>5. Cardinality(TokensOf(S)) \in Nat
  BY FS_CardinalityType
<1> HIDE DEF own
<1>6. /\ IsFiniteSet(TokensOf(S) \cup own)
      /\ Cardinality(TokensOf(S) \cup own) =
           Cardinality(TokensOf(S)) + Cardinality(own) - Cardinality(TokensOf(S) \cap own)
  BY <1>1, FS_Union
<1>7. Cardinality(TokensOf(S) \cup own) = Cardinality(TokensOf(S)) + output[c]
  BY <1>1, <1>4, <1>5, <1>6
<1> QED BY <1>2, <1>6, <1>7

\* A chat that leaves takes them along.
LEMMA TokensPart ==
    ASSUME NEW S, NEW c \in S, output[c] \in Nat, IsFiniteSet(TokensOf(S))
    PROVE  /\ IsFiniteSet(TokensOf(S \ {c}))
           /\ Cardinality(TokensOf(S)) = Cardinality(TokensOf(S \ {c})) + output[c]
<1>1. TokensOf(S \ {c}) \in SUBSET TokensOf(S)
  BY DEF TokensOf
<1>2. IsFiniteSet(TokensOf(S \ {c}))
  BY <1>1, FS_Subset
<1>3. (S \ {c}) \cup {c} = S /\ c \notin S \ {c}
  OBVIOUS
<1>4. Cardinality(TokensOf((S \ {c}) \cup {c})) = Cardinality(TokensOf(S \ {c})) + output[c]
  BY <1>2, <1>3, TokensJoin
<1> QED BY <1>2, <1>3, <1>4

\* No chats, no tokens.
LEMMA NoTokens == TokensOf({}) = {} /\ IsFiniteSet({}) /\ Cardinality({}) = 0
BY FS_EmptySet DEF TokensOf

\* They depend on nothing but the chats' own reservations.
LEMMA TokensKept ==
    ASSUME NEW S, \A c \in S : output'[c] = output[c]
    PROVE  UNION {{c} \X (1..output'[c]) : c \in S} = TokensOf(S)
BY DEF TokensOf

\* A step moves a chat's tokens with the chat.
LEMMA TokensMove ==
    ASSUME BudgetInv, BudgetInv', TokenInv, [Next]_vars
    PROVE  /\ TokensCounted'
           /\ \/ /\ Same \/ Cleared
                 /\ Cardinality(TokensOf(Calling))' <= Cardinality(TokensOf(Calling))
                 /\ Same => Cardinality(TokensOf(Releasing))' = Cardinality(TokensOf(Releasing))
              \/ \E c \in Chats :
                   /\ Enters(c)
                   /\ Cardinality(TokensOf(Calling))' = Cardinality(TokensOf(Calling)) + output[c]
              \/ \E c \in Chats :
                   /\ Leaves(c)
                   /\ Cardinality(TokensOf(Calling)) = Cardinality(TokensOf(Calling))' + output[c]
                   /\ Cardinality(TokensOf(Releasing))' =
                        Cardinality(TokensOf(Releasing)) + output[c]
              \/ \E c \in Chats :
                   Released(c) /\ TokensOf(Calling)' = TokensOf(Calling)
<1> USE DEF TokenInv, TokensCounted
<1> DEFINE calling == Cardinality(TokensOf(Calling))
           releasing == Cardinality(TokensOf(Releasing))
<1>1. calling \in Nat /\ releasing \in Nat /\ reserved = calling + releasing
  BY FS_CardinalityType
<1>2. \A c \in Chats : output[c] \in Nat
  BY DEF BudgetInv, TypeOK
<1>3. \A S : (\A c \in S : output'[c] = output[c]) =>
        UNION {{c} \X (1..output'[c]) : c \in S} = TokensOf(S)
  BY TokensKept
<1>4. /\ TokensOf(Calling)' = UNION {{c} \X (1..output'[c]) : c \in Calling'}
      /\ TokensOf(Releasing)' = UNION {{c} \X (1..output'[c]) : c \in Releasing'}
  BY DEF TokensOf
<1>5. CASE Same
  <2>1. TokensOf(Calling)' = TokensOf(Calling) /\ TokensOf(Releasing)' = TokensOf(Releasing)
    BY <1>3, <1>4, <1>5 DEF Same
  <2>2. reserved' = reserved
    BY <1>5 DEF Same
  <2> QED BY <1>1, <1>5, <2>1, <2>2
<1>6. CASE Cleared
  <2>1. TokensOf(Calling)' = {} /\ TokensOf(Releasing)' = {} /\ reserved' = 0
    BY <1>4, <1>6 DEF Cleared
  <2> QED BY <1>1, <1>6, <2>1, FS_EmptySet DEF Same, Cleared
<1>7. ASSUME NEW c \in Chats, Enters(c)
      PROVE  /\ TokensCounted'
             /\ Cardinality(TokensOf(Calling))' = calling + output[c]
  <2>1. TokensOf(Calling)' = TokensOf(Calling \cup {c})
        /\ TokensOf(Releasing)' = TokensOf(Releasing)
    BY <1>3, <1>4, <1>7 DEF Enters
  <2>2. c \notin Calling /\ reserved' = reserved + output[c]
    BY <1>7 DEF Enters
  <2>3. /\ IsFiniteSet(TokensOf(Calling \cup {c}))
        /\ Cardinality(TokensOf(Calling \cup {c})) = calling + output[c]
    BY <1>2, <2>2, TokensJoin
  <2> QED BY <1>1, <1>2, <2>1, <2>2, <2>3
<1>8. ASSUME NEW c \in Chats, Leaves(c)
      PROVE  /\ TokensCounted'
             /\ calling = Cardinality(TokensOf(Calling))' + output[c]
             /\ Cardinality(TokensOf(Releasing))' = releasing + output[c]
  <2>1. TokensOf(Calling)' = TokensOf(Calling \ {c})
        /\ TokensOf(Releasing)' = TokensOf(Releasing \cup {c})
    BY <1>3, <1>4, <1>8 DEF Leaves
  <2>2. c \in Calling /\ c \notin Releasing /\ reserved' = reserved
    BY <1>8 DEF Leaves
  <2>3. /\ IsFiniteSet(TokensOf(Calling \ {c}))
        /\ calling = Cardinality(TokensOf(Calling \ {c})) + output[c]
    BY <1>2, <2>2, TokensPart
  <2>4. /\ IsFiniteSet(TokensOf(Releasing \cup {c}))
        /\ Cardinality(TokensOf(Releasing \cup {c})) = releasing + output[c]
    BY <1>2, <2>2, TokensJoin
  <2>5. Cardinality(TokensOf(Calling \ {c})) \in Nat
    BY <2>3, FS_CardinalityType
  <2> QED BY <1>1, <1>2, <2>1, <2>2, <2>3, <2>4, <2>5
<1>9. ASSUME NEW c \in Chats, Released(c)
      PROVE  TokensCounted' /\ TokensOf(Calling)' = TokensOf(Calling)
  <2>1. TokensOf(Calling)' = TokensOf(Calling)
        /\ TokensOf(Releasing)' = TokensOf(Releasing \ {c})
    BY <1>3, <1>4, <1>9 DEF Released
  <2>2. c \in Releasing /\ reserved' = Larger(0, reserved - output[c])
    BY <1>9 DEF Released
  <2>3. /\ IsFiniteSet(TokensOf(Releasing \ {c}))
        /\ releasing = Cardinality(TokensOf(Releasing \ {c})) + output[c]
    BY <1>2, <2>2, TokensPart
  <2>4. Cardinality(TokensOf(Releasing \ {c})) \in Nat
    BY <2>3, FS_CardinalityType
  <2> QED BY <1>1, <1>2, <2>1, <2>2, <2>3, <2>4 DEF Larger
<1> QED BY <1>1, <1>5, <1>6, <1>7, <1>8, <1>9, StepMoves DEF Moves

LEMMA InitTokens == Init => TokenInv
<1> SUFFICES ASSUME Init PROVE TokenInv
  OBVIOUS
<1>0. TypeOK
  BY InitInv DEF BudgetInv
<1>1. Calling = {} /\ Releasing = {}
  BY DEF Init, Calling, Releasing
<1>2. TokensOf(Calling) = {} /\ TokensOf(Releasing) = {} /\ Cardinality({}) = 0 /\ IsFiniteSet({})
  BY <1>1, NoTokens
<1>3. /\ \A d \in Days : usage[d].output = 0 /\ beyond[d] = 0
      /\ today \in Days /\ peak.tokens \in Nat /\ reserved = 0
  BY <1>0 DEF Init, Empty, TypeOK
<1> QED
  BY <1>2, <1>3 DEF TokenInv, TokensCounted, OutputToday, OutputAfterMidnight, OutputWithinLimit

\* The facts about numbers that the steps need.
Numbers ==
    /\ Cardinality(TokensOf(Calling)) \in Nat /\ Cardinality(TokensOf(Releasing)) \in Nat
    /\ reserved = Cardinality(TokensOf(Calling)) + Cardinality(TokensOf(Releasing))
    /\ today \in Days /\ look.day \in Days
    /\ \A c \in Chats : output[c] \in Nat
    /\ \A d \in Days : usage[d].output \in Nat /\ usage[d].input \in Nat /\ beyond[d] \in Nat
    /\ peak.tokens \in Nat /\ look.limits.tokens \in Nat

LEMMA NumbersHold == TypeOK /\ TokensCounted => Numbers
BY FS_CardinalityType, LimitsAssumption DEF Numbers, TypeOK, Limits, TokensCounted

\* A reservation is granted against what is recorded and reserved, or the day
\* is new and what was recorded in it is still reserved.
LEMMA Granted ==
    ASSUME BudgetInv, TokenInv, NEW c \in Chats, Enters(c)
    PROVE  /\ usage[today].output + Cardinality(TokensOf(Calling)) + output[c] <=
                peak.tokens + beyond[today]
           /\ Cardinality(TokensOf(Calling)) + output[c] <= peak.tokens
<1>1. Numbers
  BY NumbersHold DEF BudgetInv, TokenInv
<1>2. pc[c] = "row" /\ TokensLeft(usage[look.day], output[c])
  BY DEF Enters
<1>3. look.limits.tokens <= peak.tokens /\ look.day <= today
  BY <1>2 DEF BudgetInv, LimitsKnown, AfterMidnight
<1>4. usage[look.day].output + reserved + output[c] <= peak.tokens
  BY <1>1, <1>2, <1>3 DEF TokensLeft, Numbers
<1>5. CASE look.day = today
  BY <1>1, <1>4, <1>5 DEF Numbers
<1>6. CASE look.day < today
  <2>1. usage[today].output <= Cardinality(TokensOf(Releasing)) + beyond[today]
    BY <1>2, <1>6 DEF TokenInv, OutputAfterMidnight
  <2> QED BY <1>1, <1>4, <2>1 DEF Numbers
<1>7. Cardinality(TokensOf(Calling)) + output[c] <= peak.tokens
  BY <1>1, <1>4 DEF Numbers
<1> QED BY <1>1, <1>3, <1>5, <1>6, <1>7 DEF Numbers, Days

\* An answer is recorded for tokens that were reserved: they move from what may
\* be recorded to what is.
LEMMA NextOutput ==
    ASSUME BudgetInv, BudgetInv', TokenInv, [Next]_vars
    PROVE  OutputToday' /\ OutputWithinLimit'
<1> DEFINE calling == Cardinality(TokensOf(Calling))
           releasing == Cardinality(TokensOf(Releasing))
<1>0. TypeOK /\ TypeOK' /\ TokensCounted /\ TokensCounted'
  BY TokensMove DEF BudgetInv, TokenInv
<1>1. Numbers /\ Numbers'
  BY <1>0, NumbersHold, PTL
<1>2. /\ usage[today].output + calling <= peak.tokens + beyond[today]
      /\ \A d \in Days : usage[d].output <= peak.tokens + beyond[d]
      /\ calling <= peak.tokens
  BY DEF TokenInv, OutputToday, OutputWithinLimit
<1>3. Frame
  BY StepFrame
<1>4. CASE (Same \/ Cleared) /\ calling' <= calling
  <2>1. usage' = usage /\ beyond' = beyond
    BY <1>4 DEF Same, Cleared
  <2>2. CASE today' = today
    BY <1>1, <1>2, <1>3, <1>4, <2>1, <2>2
       DEF Numbers, Frame, OutputToday, OutputWithinLimit
  <2>3. CASE today' \in Days /\ today' = today + 1
    <3>1. today' > today
      BY <1>1, <2>3 DEF Numbers, Days
    <3>2. usage'[today'].output = 0
      BY <2>1, <2>3, <3>1 DEF BudgetInv, FutureEmpty, Empty
    <3> QED BY <1>1, <1>2, <1>3, <1>4, <2>1, <3>2
            DEF Numbers, Frame, OutputToday, OutputWithinLimit
  <2> QED BY <1>3, <2>2, <2>3 DEF Frame
<1>5. ASSUME NEW c \in Chats, Enters(c), calling' = calling + output[c]
      PROVE  OutputToday' /\ OutputWithinLimit'
  <2>1. /\ usage[today].output + calling + output[c] <= peak.tokens + beyond[today]
        /\ calling + output[c] <= peak.tokens
    BY <1>5, Granted
  <2> QED BY <1>1, <1>2, <1>5, <2>1 DEF Numbers, Enters, OutputToday, OutputWithinLimit
<1>6. ASSUME NEW c \in Chats, Leaves(c), calling = calling' + output[c]
      PROVE  OutputToday' /\ OutputWithinLimit'
  <2>1. /\ usage'[today].output + beyond[today] <=
             usage[today].output + beyond'[today] + output[c]
        /\ today' = today /\ peak' = peak
        /\ \A d \in Days : d # today => usage'[d] = usage[d] /\ beyond'[d] = beyond[d]
    BY <1>6 DEF Leaves
  <2>2. usage'[today].output + calling' <= peak.tokens + beyond'[today] /\ calling' <= peak.tokens
    BY <1>1, <1>2, <1>6, <2>1 DEF Numbers
  <2>3. OutputToday'
    BY <2>1, <2>2 DEF OutputToday
  <2>4. \A d \in Days : usage'[d].output <= peak.tokens + beyond'[d]
    BY <1>1, <1>2, <2>1, <2>2 DEF Numbers
  <2> QED BY <2>1, <2>3, <2>4 DEF OutputWithinLimit
<1>7. ASSUME NEW c \in Chats, Released(c), TokensOf(Calling)' = TokensOf(Calling)
      PROVE  OutputToday' /\ OutputWithinLimit'
  BY <1>2, <1>7 DEF Released, OutputToday, OutputWithinLimit
<1> QED BY <1>4, <1>5, <1>6, <1>7, TokensMove

\* Nothing is given back while a holder is between its two readings.
LEMMA NextTokensAfter ==
    ASSUME BudgetInv, BudgetInv', TokenInv, [Next]_vars
    PROVE  OutputAfterMidnight'
<1> SUFFICES ASSUME NEW c \in Chats, pc'[c] = "row", look'.day < today'
             PROVE  usage'[today'].output <= Cardinality(TokensOf(Releasing))' + beyond'[today']
  BY DEF OutputAfterMidnight
<1> DEFINE releasing == Cardinality(TokensOf(Releasing))
<1>0. TypeOK /\ TypeOK' /\ TokensCounted /\ TokensCounted'
  BY TokensMove DEF BudgetInv, TokenInv
<1>1. Numbers /\ Numbers'
  BY <1>0, NumbersHold, PTL
<1>2. Frame
  BY StepFrame
<1>3. pc[c] = "row" /\ look'.day = look.day
  BY <1>1, StepRow DEF RowKept, Numbers, Days
<1>4. lock = c /\ lock' = c /\ c # Nobody
  BY <1>3, NobodyAssumption DEF BudgetInv, LockHeld
<1>5. look.day <= today /\ (look.day < today => usage[today].output <= releasing + beyond[today])
  BY <1>3 DEF BudgetInv, AfterMidnight, TokenInv, OutputAfterMidnight
<1>6. CASE Same /\ releasing' = releasing
  <2>1. CASE today' = today
    BY <1>3, <1>5, <1>6, <2>1 DEF Same
  <2>2. CASE today' \in Days /\ today' = today + 1
    <3>1. today' > today
      BY <1>1, <2>2 DEF Numbers, Days
    <3>2. usage'[today'].output = 0
      BY <1>6, <2>2, <3>1 DEF BudgetInv, FutureEmpty, Empty, Same
    <3> QED BY <1>1, <3>2 DEF Numbers
  <2> QED BY <1>2, <2>1, <2>2 DEF Frame
<1>7. ASSUME NEW d \in Chats, Leaves(d), releasing' = releasing + output[d]
      PROVE  usage'[today'].output <= releasing' + beyond'[today']
  <2>1. /\ usage'[today].output + beyond[today] <=
             usage[today].output + beyond'[today] + output[d]
        /\ today' = today
    BY <1>7 DEF Leaves
  <2>2. usage[today].output <= releasing + beyond[today]
    BY <1>3, <1>5, <2>1
  <2> QED BY <1>1, <1>7, <2>1, <2>2 DEF Numbers
<1>8. ~Cleared /\ \A d \in Chats : ~Released(d)
  BY <1>4 DEF Cleared, Released
<1>9. \A d \in Chats : ~Enters(d)
  <2> SUFFICES ASSUME NEW d \in Chats, Enters(d) PROVE FALSE
    OBVIOUS
  <2>1. pc[d] = "row"
    BY DEF Enters
  <2>2. d = c
    BY <1>4, <2>1 DEF BudgetInv, LockHeld
  <2>3. c \in Calling'
    BY <2>2 DEF Enters
  <2> QED BY <2>3 DEF Calling
<1> QED BY <1>6, <1>7, <1>8, <1>9, TokensMove

THEOREM TokenInvariant == Spec => [](BudgetInv /\ TokenInv)
<1>1. Init => BudgetInv /\ TokenInv
  BY InitInv, InitTokens
<1>2. BudgetInv /\ TokenInv /\ [Next]_vars => (BudgetInv /\ TokenInv)'
  BY InvStep, TokensMove, NextOutput, NextTokensAfter DEF TokenInv
<1> QED BY <1>1, <1>2, PTL DEF Spec

\* SECURITY.md:113-114 for the output: a day exceeds the highest limit there was
\* (agent.py:622-680) by no more than the provider reported beyond max_tokens,
\* though a call is recorded outside the lock and possibly on the day after the
\* one it was reserved on.
THEOREM OutputWithinLimitHolds == Spec => []OutputWithinLimit
BY TokenInvariant, PTL DEF TokenInv

\* Both counters are exact (agent.py:633-666): the reserved tokens are the sum of
\* what the calls in flight reserve, so none is lost or handed out twice.
THEOREM ReservationsExactHolds == Spec => []ReservationsExact
<1>1. BudgetInv /\ TokenInv => reserved = Cardinality(TokensOf({c \in Chats : Reserving(c)}))
  <2> SUFFICES ASSUME BudgetInv, TokenInv
               PROVE  reserved = Cardinality(TokensOf({c \in Chats : Reserving(c)}))
    OBVIOUS
  <2> USE DEF TokenInv, TokensCounted
  <2>1. {c \in Chats : Reserving(c)} = Calling \cup Releasing
    BY DEF Reserving, Calling, Releasing
  <2>2. TokensOf(Calling \cup Releasing) = TokensOf(Calling) \cup TokensOf(Releasing)
    BY DEF TokensOf
  <2>3. TokensOf(Calling) \cap TokensOf(Releasing) = {}
    BY DEF TokensOf, Calling, Releasing
  <2>4. Cardinality(TokensOf(Calling) \cap TokensOf(Releasing)) = 0
    BY <2>3, FS_EmptySet
  <2>5. /\ Cardinality(TokensOf(Calling)) \in Nat /\ Cardinality(TokensOf(Releasing)) \in Nat
    BY FS_CardinalityType
  <2>6. Cardinality(TokensOf(Calling) \cup TokensOf(Releasing)) =
          Cardinality(TokensOf(Calling)) + Cardinality(TokensOf(Releasing))
          - Cardinality(TokensOf(Calling) \cap TokensOf(Releasing))
    BY FS_Union
  <2>7. Cardinality(TokensOf(Calling) \cup TokensOf(Releasing)) = reserved
    BY <2>4, <2>5, <2>6
  <2> QED BY <2>1, <2>2, <2>7
<1> QED BY TokenInvariant, InflightExactHolds, <1>1, PTL DEF ReservationsExact
=============================================================================
