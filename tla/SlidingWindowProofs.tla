------------------------ MODULE SlidingWindowProofs ------------------------
(***************************************************************************)
(* The sliding window keeps its quota and implements WindowLimiter, for    *)
(* every limit, window, margin and set of requests, any skew of the clocks *)
(* and any delay of the calls: what they do to the timestamps is part of   *)
(* the properties (Punctual, Trusted), not an assumption.                  *)
(***************************************************************************)
EXTENDS SlidingWindow, FiniteSetTheorems, TLAPS

-----------------------------------------------------------------------------
(* The inductive invariant.                                                 *)

\* What is stored was granted.  As long as the timestamps are punctual, every
\* grant in the window that ends at the newest one is stored, and the key
\* outlives it by the margin, less what its timestamp was ahead.
KeyRemembers ==
    /\ entries \subseteq granted
    /\ newest <= time + ahead
    /\ \A g \in granted : g[1] <= newest
    /\ Punctual => \A g \in granted :
            /\ g[1] + Window > newest => g \in entries
            /\ g[1] + Window + Margin <= expiresAt + ahead

IInv ==
    /\ TypeOK
    /\ IsFiniteSet(granted)
    /\ KeyRemembers
    /\ NewestWindowQuota
    /\ WindowQuota

-----------------------------------------------------------------------------

LEMMA OneMore ==
  ASSUME NEW S, IsFiniteSet(S), NEW x, NEW n \in Nat, Cardinality(S) < n
  PROVE  IsFiniteSet(S \cup {x}) /\ Cardinality(S \cup {x}) <= n
  <1>1. Cardinality(S) \in Nat
    BY FS_CardinalityType
  <1>2. /\ IsFiniteSet(S \cup {x})
        /\ \/ Cardinality(S \cup {x}) = Cardinality(S)
           \/ Cardinality(S \cup {x}) = Cardinality(S) + 1
    BY FS_AddElement, Zenon
  <1> QED BY <1>1, <1>2

LEMMA SameCardinality == ASSUME NEW S PROVE Limiter!Cardinality(S) = Cardinality(S)
  BY DEF Limiter!Cardinality, Cardinality

LEMMA NowNat ==
  ASSUME IInv, NEW r \in Request
  PROVE  Now(r) \in Nat /\ Now(r) \in 0 .. MaxTime + MaxSkew
  BY WindowAssumption DEF IInv, TypeOK, Now

LEMMA SmallerSum ==
  ASSUME NEW a \in Nat, NEW b \in Nat, NEW c \in Nat, NEW d \in Nat, NEW m \in Nat,
         a <= c, b <= d, c + d <= m
  PROVE  a + b <= m
  OBVIOUS

LEMMA LargerSum ==
  ASSUME NEW a \in Nat, NEW b \in Nat, NEW c \in Nat, NEW d \in Nat, a <= b + c, c <= d
  PROVE  a <= b + d
  OBVIOUS

\* The history of an evaluation covers its timestamp too.
LEMMA HistoryGrows ==
  ASSUME IInv, NEW r \in Request, Eval(r)
  PROVE  /\ ordered' \in BOOLEAN /\ ahead' \in Nat /\ behind' \in Nat /\ newest' \in Nat
         /\ ahead <= ahead' /\ behind <= behind'
         /\ newest' = Later(newest, Now(r))
         /\ newest <= newest' /\ Now(r) <= newest'
         /\ Now(r) <= time + ahead' /\ time <= Now(r) + behind'
         /\ Punctual' => Punctual
         /\ ordered' => ordered /\ newest' = Now(r)
  <1>1. /\ newest \in Nat /\ ahead \in Nat /\ behind \in Nat /\ time \in Nat
        /\ Now(r) \in Nat /\ ordered \in BOOLEAN /\ Margin \in Nat
    BY NowNat, WindowAssumption DEF IInv, TypeOK
  <1>2. /\ newest' = Later(newest, Now(r))
        /\ ordered' = (ordered /\ Now(r) >= newest)
        /\ ahead' = Later(ahead, Excess(Now(r), time))
        /\ behind' = Later(behind, Excess(time, Now(r)))
    BY DEF Eval
  <1>3. /\ newest' \in Nat /\ newest <= newest' /\ Now(r) <= newest'
        /\ Now(r) >= newest => newest' = Now(r)
    BY <1>1, <1>2 DEF Later
  <1>4. /\ ahead' \in Nat /\ behind' \in Nat
        /\ ahead <= ahead' /\ behind <= behind'
        /\ Now(r) <= time + ahead' /\ time <= Now(r) + behind'
    BY <1>1, <1>2 DEF Later, Excess
  <1>5. Punctual' => Punctual
    BY <1>1, <1>4, SmallerSum DEF Punctual
  <1>6. ordered' \in BOOLEAN /\ (ordered' => ordered /\ Now(r) >= newest)
    BY <1>1, <1>2
  <1> QED BY <1>2, <1>3, <1>4, <1>5, <1>6

\* A key that expires was renewed at least the window and the margin ago.
LEMMA Outlives ==
  ASSUME NEW stamp \in Nat, NEW now \in Nat, NEW t \in Nat, NEW expiry \in Nat,
         NEW a \in Nat, NEW b \in Nat, NEW c \in Nat, NEW w \in Nat, NEW m \in Nat,
         stamp + w + m <= expiry + a, a <= b, t <= now + c, b + c <= m, stamp + w > now
  PROVE  t < expiry
  OBVIOUS

\* A call whose timestamp is punctual finds every grant in the window that
\* ends at its own or a newer timestamp.
LEMMA CountsWindow ==
  ASSUME IInv, NEW r \in Request, Eval(r), Punctual'
  PROVE  {g \in granted : g[1] + Window > newest'} \subseteq Trimmed(Now(r))
  <1> SUFFICES ASSUME NEW g \in granted, g[1] + Window > newest'
               PROVE  g \in Trimmed(Now(r))
    OBVIOUS
  <1>1. /\ g[1] \in Nat /\ newest \in Nat /\ expiresAt \in Nat /\ time \in Nat
        /\ Now(r) \in Nat /\ ahead \in Nat /\ ahead' \in Nat /\ behind' \in Nat
        /\ newest' \in Nat /\ Window \in Nat /\ Margin \in Nat
    BY NowNat, HistoryGrows, WindowAssumption DEF IInv, TypeOK, Stamp
  <1>2. /\ newest <= newest' /\ Now(r) <= newest' /\ Punctual
        /\ ahead <= ahead' /\ time <= Now(r) + behind'
    BY HistoryGrows
  <1>3. g[1] + Window > newest /\ g[1] + Window > Now(r)
    BY <1>1, <1>2
  <1>4. g \in entries /\ g[1] + Window + Margin <= expiresAt + ahead
    BY <1>2, <1>3 DEF IInv, KeyRemembers
  <1>5. ahead' + behind' <= Margin
    BY DEF Punctual
  <1>6. time < expiresAt
    BY <1>1, <1>2, <1>3, <1>4, <1>5, Outlives
  <1> QED BY <1>3, <1>4, <1>6 DEF Trimmed, Stored

\* It counts nothing that was not granted within its own window.
LEMMA CountsGrants ==
  ASSUME IInv, NEW r \in Request
  PROVE  Trimmed(Now(r)) \subseteq {g \in granted : g[1] + Window > Now(r)}
  BY DEF IInv, KeyRemembers, Trimmed, Stored

LEMMA EmptyHistory ==
  ASSUME granted = {}, entries = {}, newest \in Nat, newest <= time + ahead
  PROVE  IsFiniteSet(granted) /\ KeyRemembers /\ NewestWindowQuota /\ WindowQuota
  <1>1. {g \in granted : g[1] + Window > newest} = {}
    OBVIOUS
  <1>2. NewestWindowQuota
    BY <1>1, FS_EmptySet, WindowAssumption DEF NewestWindowQuota
  <1> QED BY <1>2, FS_EmptySet DEF KeyRemembers, WindowQuota

LEMMA InitIInv == Init => IInv
  <1> SUFFICES ASSUME Init PROVE IInv
    OBVIOUS
  <1>1. TypeOK
    BY WindowAssumption DEF Init, TypeOK, Stamp
  <1>2. granted = {} /\ entries = {} /\ newest \in Nat /\ newest <= time + ahead
    BY DEF Init
  <1> QED BY <1>1, <1>2, EmptyHistory DEF IInv

\* Whatever its answer, the script keeps the type of what it writes.
LEMMA EvalKeepsType ==
  ASSUME IInv, NEW r \in Request, Eval(r)
  PROVE  /\ entries' \in SUBSET Stamp
         /\ expiresAt' \in Nat
         /\ granted' \in SUBSET Stamp
         /\ newest' \in Nat /\ ordered' \in BOOLEAN
         /\ ahead' \in Nat /\ behind' \in Nat
  <1>1. Now(r) \in Nat
    BY NowNat
  <1>2. <<Now(r), r>> \in Stamp
    BY <1>1 DEF Stamp
  <1>3. Trimmed(Now(r)) \in SUBSET Stamp
    BY DEF IInv, TypeOK, Trimmed, Stored
  <1>5. CASE HasRoom(r)
    BY <1>1, <1>2, <1>3, <1>5, HistoryGrows, WindowAssumption DEF Eval, Add, IInv, TypeOK
  <1>6. CASE ~HasRoom(r)
    BY <1>1, <1>3, <1>6, HistoryGrows DEF Eval, IInv, TypeOK
  <1> QED BY <1>5, <1>6

\* The script keeps what the invariant says of the key: the grants it does
\* not store are over.
LEMMA EvalKeepsKey ==
  ASSUME IInv, NEW r \in Request, Eval(r), time' = time
  PROVE  IsFiniteSet(granted') /\ KeyRemembers'
  <1> DEFINE now   == Now(r)
             new   == <<now, r>>
  <1>1. /\ now \in Nat /\ time \in Nat /\ expiresAt \in Nat /\ newest \in Nat
        /\ newest' \in Nat /\ ahead \in Nat /\ ahead' \in Nat /\ behind' \in Nat
        /\ Window \in Nat /\ Margin \in Nat
        /\ \A g \in granted : g[1] \in Nat /\ g[1] <= newest
    BY NowNat, EvalKeepsType, WindowAssumption DEF IInv, TypeOK, KeyRemembers, Stamp
  <1>2. /\ newest <= newest' /\ now <= newest' /\ ahead <= ahead' /\ now <= time + ahead'
        /\ Punctual' => Punctual
    BY HistoryGrows
  <1>a. newest <= time + ahead /\ newest' <= time' + ahead'
    <2>1. newest <= time + ahead
      BY DEF IInv, KeyRemembers
    <2>2. newest' = newest \/ newest' = now
      BY HistoryGrows DEF Later
    <2>3. newest <= time + ahead'
      BY <2>1, <1>1, <1>2, LargerSum
    <2>4. newest' <= time + ahead'
      BY <2>2, <2>3, <1>2
    <2> QED BY <2>1, <2>4
  <1>3. Trimmed(now) \subseteq granted /\ IsFiniteSet(granted)
    BY CountsGrants DEF IInv
  <1>4. Punctual' => {g \in granted : g[1] + Window > newest'} \subseteq Trimmed(now)
    BY CountsWindow
  <1>5. CASE HasRoom(r)
    <2>1. /\ entries' = Trimmed(now) \cup {new}
          /\ expiresAt' = time + Window + Margin
          /\ granted' = granted \cup {new}
      BY <1>5 DEF Eval, Add
    <2>2. IsFiniteSet(granted')
      BY <2>1, <1>3, FS_AddElement
    <2>3. \A g \in granted' : g[1] <= newest'
      BY <2>1, <1>1, <1>2
    <2>4. entries' \subseteq granted'
      BY <2>1, <1>3
    <2>5. ASSUME Punctual', NEW g \in granted'
          PROVE  /\ g[1] + Window > newest' => g \in entries'
                 /\ g[1] + Window + Margin <= expiresAt' + ahead'
      <3>1. CASE g = new
        BY <3>1, <2>1, <1>1, <1>2
      <3>2. CASE g \in granted
        <4>1. g[1] + Window > newest' => g \in entries'
          BY <3>2, <2>5, <2>1, <1>4
        <4>2. g[1] <= time + ahead'
          BY <3>2, <1>1, <1>2, <1>a
        <4> QED BY <4>1, <4>2, <3>2, <2>1, <1>1, <1>2
      <3> QED BY <3>1, <3>2, <2>1
    <2> QED BY <1>a, <2>2, <2>3, <2>4, <2>5 DEF KeyRemembers
  <1>6. CASE ~HasRoom(r)
    <2>1. entries' = Trimmed(now) /\ expiresAt' = expiresAt /\ granted' = granted
      BY <1>6 DEF Eval
    <2>2. \A g \in granted' : g[1] <= newest'
      BY <2>1, <1>1, <1>2
    <2>3. ASSUME Punctual', NEW g \in granted'
          PROVE  /\ g[1] + Window > newest' => g \in entries'
                 /\ g[1] + Window + Margin <= expiresAt' + ahead'
      <3>1. g[1] + Window + Margin <= expiresAt + ahead
        BY <2>1, <2>3, <1>2 DEF IInv, KeyRemembers
      <3> QED BY <3>1, <2>1, <2>3, <1>1, <1>2, <1>4
    <2> QED BY <1>a, <2>1, <2>2, <2>3, <1>3 DEF KeyRemembers
  <1> QED BY <1>5, <1>6

\* The script adds a grant only to a window with room.
LEMMA EvalKeepsNewest ==
  ASSUME IInv, NEW r \in Request, Eval(r), Punctual'
  PROVE  NewestWindowQuota'
  <1> DEFINE new   == <<Now(r), r>>
             In(t) == {g \in granted : g[1] + Window > t}
  <1>1. /\ newest \in Nat /\ newest' \in Nat /\ newest <= newest' /\ Punctual
        /\ Window \in Nat /\ Limit \in Nat
        /\ \A g \in granted : g[1] \in Nat
    BY HistoryGrows, WindowAssumption DEF IInv, TypeOK, Stamp
  <1>2. In(newest') \subseteq Trimmed(Now(r)) /\ Trimmed(Now(r)) \subseteq granted
    BY CountsWindow, CountsGrants
  <1>3. /\ IsFiniteSet(Trimmed(Now(r))) /\ IsFiniteSet(In(newest')) /\ IsFiniteSet(In(newest))
    BY <1>2, FS_Subset DEF IInv
  <1>4. CASE HasRoom(r)
    <2>1. granted' = granted \cup {new}
      BY <1>4 DEF Eval
    <2>2. Cardinality(In(newest')) < Limit
      BY <1>1, <1>2, <1>3, <1>4, FS_Subset, FS_CardinalityType DEF HasRoom
    <2>3. {g \in granted' : g[1] + Window > newest'} \subseteq In(newest') \cup {new}
      BY <2>1
    <2>4. /\ IsFiniteSet(In(newest') \cup {new})
          /\ Cardinality(In(newest') \cup {new}) <= Limit
      BY <1>1, <1>3, <2>2, OneMore
    <2> QED BY <2>3, <2>4, <1>1, FS_Subset, FS_CardinalityType DEF NewestWindowQuota
  <1>5. CASE ~HasRoom(r)
    <2>1. granted' = granted
      BY <1>5 DEF Eval
    <2>2. In(newest') \subseteq In(newest)
      BY <1>1
    <2>3. Cardinality(In(newest)) <= Limit
      BY <1>1 DEF IInv, NewestWindowQuota
    <2> QED BY <1>1, <1>3, <2>1, <2>2, <2>3, FS_Subset, FS_CardinalityType
            DEF NewestWindowQuota
  <1> QED BY <1>4, <1>5

\* A grant in order of the timestamps falls into no window but those that end
\* at its own, which is the newest.
LEMMA EvalKeepsWindows ==
  ASSUME IInv, NEW r \in Request, Eval(r), Trusted'
  PROVE  WindowQuota'
  <1> DEFINE new == <<Now(r), r>>
             Ending(at) == {g \in granted : g[1] <= at /\ at < g[1] + Window}
  <1>1. /\ newest' = Now(r) /\ Now(r) \in Nat /\ newest \in Nat /\ newest <= newest'
        /\ Trusted /\ Punctual'
        /\ Window \in Nat /\ Limit \in Nat
        /\ \A g \in granted : g[1] \in Nat /\ g[1] <= newest
    BY NowNat, HistoryGrows, WindowAssumption
       DEF IInv, TypeOK, KeyRemembers, Stamp, Trusted
  <1>2. \A last \in granted : Cardinality(Ending(last[1])) <= Limit
    BY <1>1 DEF IInv, WindowQuota
  <1>3. CASE HasRoom(r)
    <2>1. granted' = granted \cup {new}
      BY <1>3 DEF Eval
    <2> SUFFICES ASSUME NEW last \in granted'
                 PROVE  Cardinality({g \in granted' :
                            g[1] <= last[1] /\ last[1] < g[1] + Window}) <= Limit
      BY DEF WindowQuota
    <2>2. CASE last[1] = Now(r)
      <3>1. \A g \in granted' : g[1] \in Nat /\ g[1] <= Now(r)
        BY <1>1, <2>1
      <3>2. {g \in granted' : g[1] <= last[1] /\ last[1] < g[1] + Window}
              = {g \in granted' : g[1] + Window > newest'}
        BY <1>1, <2>2, <3>1
      <3>3. NewestWindowQuota'
        BY <1>1, EvalKeepsNewest
      <3> QED BY <1>1, <3>2, <3>3 DEF NewestWindowQuota
    <2>3. CASE last[1] # Now(r)
      <3>1. last \in granted /\ last[1] < Now(r)
        BY <1>1, <2>1, <2>3
      <3>2. {g \in granted' : g[1] <= last[1] /\ last[1] < g[1] + Window} = Ending(last[1])
        BY <1>1, <2>1, <3>1
      <3> QED BY <1>2, <3>1, <3>2
    <2> QED BY <2>2, <2>3
  <1>4. CASE ~HasRoom(r)
    BY <1>2, <1>4 DEF Eval, WindowQuota
  <1> QED BY <1>3, <1>4

LEMMA EvalKeepsInv ==
  ASSUME IInv, NEW r \in Request, Eval(r), time' = time, TypeOK'
  PROVE  IInv'
  <1>1. NewestWindowQuota'
    BY EvalKeepsNewest DEF NewestWindowQuota
  <1>2. WindowQuota'
    BY EvalKeepsWindows DEF WindowQuota
  <1> QED BY <1>1, <1>2, EvalKeepsKey DEF IInv

-----------------------------------------------------------------------------
(* The steps.                                                               *)

\* What does not touch the key keeps what is said of it.
LEMMA KeyUntouched ==
  ASSUME IInv, TypeOK', time' >= time, UNCHANGED <<keyVars, historyVars>>
  PROVE  IInv'
  <1> USE DEF keyVars, historyVars
  <1>1. newest \in Nat /\ ahead \in Nat /\ time \in Nat /\ time' \in Nat
    BY WindowAssumption DEF IInv, TypeOK
  <1>2. newest <= time + ahead
    BY DEF IInv, KeyRemembers
  <1>3. newest' <= time' + ahead'
    <2>1. newest <= ahead + time
      BY <1>1, <1>2
    <2>2. newest <= ahead + time'
      BY <1>1, <2>1, LargerSum
    <2>3. \A t \in Nat : newest <= ahead + t => newest <= t + ahead
      BY <1>1
    <2>4. newest' = newest /\ ahead' = ahead
      OBVIOUS
    <2> QED BY <1>1, <2>2, <2>3, <2>4, Zenon
  <1>4. KeyRemembers'
    BY <1>3 DEF IInv, KeyRemembers, Punctual
  <1>5. NewestWindowQuota' /\ WindowQuota' /\ IsFiniteSet(granted')
    BY DEF IInv, NewestWindowQuota, WindowQuota, Punctual, Trusted
  <1> QED BY <1>4, <1>5 DEF IInv

LEMMA SettleKeepsCalls ==
  ASSUME IInv, NEW r \in Request, NEW how \in {"granted", "denied", "failed"}, Settle(r, how)
  PROVE  /\ call' \in [Request -> {"new", "sent", "granted", "denied", "failed"}]
         /\ sentAt' \in [Request -> 0 .. MaxTime]
  BY WindowAssumption DEF IInv, TypeOK, Settle

LEMMA NextIInv == IInv /\ [Next]_vars => IInv'
  <1> SUFFICES ASSUME IInv, [Next]_vars PROVE IInv'
    OBVIOUS
  <1> USE DEF keyVars, callVars, historyVars
  <1>1. time \in 0 .. MaxTime /\ MaxTime \in Nat
    BY WindowAssumption DEF IInv, TypeOK
  <1>2. ASSUME NEW r \in Request, Send(r) PROVE IInv'
    <2>1. TypeOK'
      BY <1>1, <1>2 DEF IInv, TypeOK, Send
    <2> QED BY <1>1, <1>2, <2>1, KeyUntouched DEF Send
  <1>3. ASSUME NEW r \in Request, Evaluate(r) PROVE IInv'
    <2>1. Eval(r) /\ time' = time
      BY <1>3 DEF Evaluate
    <2>2. PICK how \in {"granted", "denied", "failed"} : Settle(r, how)
      BY <1>3 DEF Evaluate
    <2>3. TypeOK'
      BY <2>1, <2>2, EvalKeepsType, SettleKeepsCalls DEF IInv, TypeOK
    <2> QED BY <2>1, <2>3, EvalKeepsInv
  <1>4. ASSUME NEW r \in Request, EvaluateAndResend(r) PROVE IInv'
    <2>1. Eval(r) /\ time' = time /\ call' = call /\ sentAt' = sentAt
      BY <1>4 DEF EvaluateAndResend
    <2>2. TypeOK'
      BY <2>1, EvalKeepsType DEF IInv, TypeOK
    <2> QED BY <2>1, <2>2, EvalKeepsInv
  <1>5. ASSUME NEW r \in Request, Fail(r) PROVE IInv'
    <2>1. Settle(r, "failed") /\ time' = time /\ UNCHANGED <<keyVars, historyVars>>
      BY <1>5 DEF Fail
    <2>2. TypeOK'
      BY <2>1, SettleKeepsCalls DEF IInv, TypeOK
    <2> QED BY <1>1, <2>1, <2>2, KeyUntouched
  <1>6. CASE Lose
    <2>1. TypeOK'
      BY <1>6 DEF Lose, IInv, TypeOK
    <2>2. granted' = {} /\ entries' = {} /\ newest' = 0 /\ ahead' = 0 /\ time' = time
      BY <1>6 DEF Lose
    <2>3. {g \in granted' : g[1] + Window > newest'} = {}
      BY <2>2
    <2>4. NewestWindowQuota' /\ WindowQuota'
      BY <2>2, <2>3, FS_EmptySet, WindowAssumption DEF NewestWindowQuota, WindowQuota
    <2>5. KeyRemembers'
      BY <1>1, <2>2 DEF KeyRemembers
    <2> QED BY <2>1, <2>2, <2>4, <2>5, FS_EmptySet DEF IInv
  <1>7. CASE Tick
    <2>1. time' >= time /\ TypeOK'
      BY <1>1, <1>7 DEF Tick, IInv, TypeOK
    <2> QED BY <1>7, <2>1, KeyUntouched DEF Tick
  <1>8. CASE UNCHANGED vars
    BY <1>8 DEF vars, IInv, TypeOK, KeyRemembers, NewestWindowQuota, WindowQuota,
               Punctual, Trusted
  <1> QED BY <1>2, <1>3, <1>4, <1>5, <1>6, <1>7, <1>8 DEF Next

LEMMA Inductive == Spec => []IInv
  BY InitIInv, NextIInv, PTL DEF Spec

(***************************************************************************)
(* Every field of the key, of the calls and of the history keeps its type. *)
(***************************************************************************)
THEOREM TypeCorrect == Spec => []TypeOK
  <1>1. IInv => TypeOK
    BY DEF IInv
  <1> QED BY <1>1, Inductive, PTL

(***************************************************************************)
(* As long as calls are evaluated in the order of timestamps that stray    *)
(* from real time by no more than the margin of the EXPIRE, no window      *)
(* holds more grants than the limit, with any number of nodes, calls,      *)
(* resends and losses of the key.                                          *)
(***************************************************************************)
THEOREM QuotaHolds == Spec => []WindowQuota
  <1>1. IInv => WindowQuota
    BY DEF IInv
  <1> QED BY <1>1, Inductive, PTL

(***************************************************************************)
(* In whatever order they are evaluated, the window that ends at the       *)
(* newest timestamp holds no more grants than the limit.                   *)
(***************************************************************************)
THEOREM NewestQuotaHolds == Spec => []NewestWindowQuota
  <1>1. IInv => NewestWindowQuota
    BY DEF IInv
  <1> QED BY <1>1, Inductive, PTL

-----------------------------------------------------------------------------
(* The refinement.                                                          *)

LEMMA InitRefines == Init => Limiter!Init
  BY WindowAssumption DEF Init, Limiter!Init, Answer, Trusted, Punctual

\* An evaluation is a grant or a denial of the limiter, whether its answer
\* arrives or not.
LEMMA EvalRefines ==
  ASSUME IInv, NEW r \in Request, Eval(r),
         \/ Answer' = [Answer EXCEPT ![r] = IF HasRoom(r) THEN "granted" ELSE "denied"]
         \/ Answer' = Answer
  PROVE  Limiter!Next
  <1> DEFINE In(now) == {g \in granted : g[1] + Window > now}
  <1>1. Now(r) \in 0 .. MaxTime + MaxSkew
    BY NowNat
  <1>2. newest' = Limiter!Later(newest, Now(r))
    BY DEF Eval, Later, Limiter!Later
  <1>3. Trusted' \in BOOLEAN
    BY HistoryGrows DEF Trusted
  <1>4. Trusted' => Limiter!Promised(Now(r)) /\ (HasRoom(r) <=> Limiter!HasRoom(Now(r)))
    <2> SUFFICES ASSUME Trusted'
                 PROVE  Limiter!Promised(Now(r)) /\ (HasRoom(r) <=> Limiter!HasRoom(Now(r)))
      OBVIOUS
    <2>1. newest' = Now(r) /\ newest <= newest' /\ Trusted /\ Punctual'
      BY HistoryGrows DEF Trusted
    <2>2. newest \in Nat /\ Now(r) \in Nat
      BY NowNat DEF IInv, TypeOK
    <2>3. Limiter!Promised(Now(r))
      BY <2>1, <2>2 DEF Limiter!Promised
    <2>4. In(Now(r)) \subseteq Trimmed(Now(r))
      BY <2>1, CountsWindow
    <2>5. Trimmed(Now(r)) = In(Now(r))
      BY <2>4, CountsGrants
    <2>6. HasRoom(r) <=> Limiter!HasRoom(Now(r))
      BY <2>5, SameCardinality DEF HasRoom, Limiter!HasRoom
    <2> QED BY <2>3, <2>6
  <1>5. CASE HasRoom(r)
    <2>1. granted' = granted \cup {<<Now(r), r>>} /\ Limiter!Tell(r, "granted")
      BY <1>5 DEF Eval, Limiter!Tell
    <2>2. Limiter!Allow(r, Now(r))
      BY <1>2, <1>3, <1>4, <1>5, <2>1 DEF Limiter!Allow
    <2> QED BY <1>1, <2>2 DEF Limiter!Next
  <1>6. CASE ~HasRoom(r)
    <2>1. granted' = granted /\ Limiter!Tell(r, "denied")
      BY <1>6 DEF Eval, Limiter!Tell
    <2>2. Limiter!Deny(r, Now(r))
      BY <1>2, <1>3, <1>4, <1>6, <2>1 DEF Limiter!Deny
    <2> QED BY <1>1, <2>2 DEF Limiter!Next
  <1> QED BY <1>5, <1>6

LEMMA NextRefines ==
  IInv /\ [Next]_vars => [Limiter!Next]_<<granted, newest, Trusted, Answer>>
  <1> SUFFICES ASSUME IInv, [Next]_vars
               PROVE  [Limiter!Next]_<<granted, newest, Trusted, Answer>>
    OBVIOUS
  <1> USE DEF keyVars, callVars, historyVars
  <1>0. call \in [Request -> {"new", "sent", "granted", "denied", "failed"}]
    BY DEF IInv, TypeOK
  <1>h. UNCHANGED historyVars => UNCHANGED <<granted, newest, Trusted>>
    BY DEF Trusted, Punctual
  <1>1. ASSUME NEW r \in Request, Send(r) PROVE UNCHANGED <<granted, newest, Trusted, Answer>>
    BY <1>0, <1>1, <1>h DEF Send, Answer
  <1>2. ASSUME NEW r \in Request, Evaluate(r) PROVE Limiter!Next
    <2>1. Eval(r)
      BY <1>2 DEF Evaluate
    <2>2. Answer' = [Answer EXCEPT ![r] = IF HasRoom(r) THEN "granted" ELSE "denied"]
      BY <1>0, <1>2 DEF Evaluate, Settle, Answer
    <2> QED BY <2>1, <2>2, EvalRefines
  <1>3. ASSUME NEW r \in Request, EvaluateAndResend(r) PROVE Limiter!Next
    <2>1. Eval(r) /\ Answer' = Answer
      BY <1>3 DEF EvaluateAndResend, Answer
    <2> QED BY <2>1, EvalRefines
  <1>4. ASSUME NEW r \in Request, Fail(r) PROVE UNCHANGED <<granted, newest, Trusted, Answer>>
    BY <1>0, <1>4, <1>h DEF Fail, Settle, Answer
  <1>5. CASE Lose
    BY <1>5, WindowAssumption
       DEF Lose, Answer, Limiter!Next, Limiter!Forgive, Trusted, Punctual
  <1>6. CASE Tick
    BY <1>6, <1>h DEF Tick, Answer
  <1>7. CASE UNCHANGED vars
    BY <1>7, <1>h DEF vars, Answer
  <1> QED BY <1>1, <1>2, <1>3, <1>4, <1>5, <1>6, <1>7 DEF Next

(***************************************************************************)
(* The script implements the limiter that remembers every grant: while the *)
(* timestamps can be trusted, it decides each request as that one does.    *)
(***************************************************************************)
THEOREM Refinement == Spec => ImplementsLimiter
  BY InitRefines, NextRefines, Inductive, PTL DEF Spec, ImplementsLimiter, Limiter!Spec

=============================================================================
