----------------------- MODULE RestartToleranceProofs -----------------------
(***************************************************************************)
(* Proofs about RestartTolerance, for every maximum, window and clock:     *)
(*                                                                         *)
(*   ToleranceTypeCorrect  the counter never exceeds its maximum           *)
(*   BackoffTypeCorrect    Spec => []TypeOK                                *)
(*   GivingUpIsJustified   Spec => []GiveUpJustified                       *)
(*   ToleranceIsBounded    Spec => []ToleratedBound                        *)
(*   ErrorsAreSpaced       Spec => []RestartsSpaced                        *)
(*   WaitsAreBounded       Spec => []WaitBounded                           *)
(***************************************************************************)
EXTENDS RestartTolerance, FiniteSetTheorems, TLAPS

\* The counter is the number of errors since the source of the window.
CountIsWindow ==
    /\ sourceErr = 0 <=> Len(errors) = 0
    /\ sourceErr = 0 => restartCount = 0 /\ previous = 0
    /\ (~gaveUp /\ sourceErr > 0) => restartCount = Len(errors) - sourceErr + 1

\* All of them lie within one window.
WindowHolds ==
    sourceErr > 0 =>
        \A i \in sourceErr .. Len(errors) :
            RestartWindow = 0 \/ errors[i] - errors[sourceErr] < RestartWindow

\* The window before this one had no more errors than the maximum, and had
\* elapsed when this one began.
PreviousElapsed ==
    /\ previous = 0 => sourceErr <= 1
    /\ previous > 0 =>
          /\ previous < sourceErr
          /\ sourceErr - previous <= MaxRestartCount
          /\ RestartWindow > 0
          /\ errors[sourceErr] - errors[previous] >= RestartWindow

ToleranceInv ==
    /\ CountTypeOK
    /\ CountIsWindow
    /\ WindowHolds
    /\ PreviousElapsed
    /\ GiveUpJustified
    /\ ToleratedBound

\* What the assumptions say of the constants.
LEMMA Constants ==
    /\ MaxRestartCount \in Nat /\ CountLimit \in Nat /\ RestartWindow \in Nat
    /\ MaxTime \in Nat /\ MaxRestartCount + 1 < CountLimit
  BY ToleranceAssumption, RestartToleranceAssumption

\* A number below the modulus is its own remainder.
LEMMA SmallModulo == ASSUME NEW m \in Nat, NEW n \in Nat, n < m PROVE n % m = n
  OBVIOUS

\* The elements of a sequence, and what Append adds to them.
LEMMA SeqElement == ASSUME NEW T, NEW s \in Seq(T), NEW i \in 1 .. Len(s) PROVE s[i] \in T
  OBVIOUS

LEMMA AppendFacts ==
    ASSUME NEW T, NEW s \in Seq(T), NEW e \in T
    PROVE  /\ Append(s, e) \in Seq(T)
           /\ Len(Append(s, e)) = Len(s) + 1
           /\ Append(s, e)[Len(s) + 1] = e
           /\ \A i \in 1 .. Len(s) : Append(s, e)[i] = s[i]
  OBVIOUS

\* The invariant holds at first: no error was counted.
LEMMA ToleranceInit == Init => ToleranceInv
<1> SUFFICES ASSUME Init
             PROVE  ToleranceInv
  OBVIOUS
<1>1. errors = << >> /\ errors \in Seq(0 .. MaxTime)
  BY DEF Init
<1>2. Len(errors) = 0
  BY <1>1
<1>3. \A i, j \in 1 .. Len(errors) : i <= j => errors[i] <= errors[j] /\ errors[j] <= now
  BY <1>2
<1>4. /\ now \in 0 .. MaxTime
      /\ restartCount \in 0 .. MaxRestartCount
      /\ sourceErr \in 0 .. Len(errors)
      /\ previous \in 0 .. Len(errors)
  <2>1. now = 0 /\ restartCount = 0 /\ sourceErr = 0 /\ previous = 0
    BY DEF Init
  <2> QED
    BY <1>2, <2>1, Constants
<1>5. gaveUp \in BOOLEAN
  BY DEF Init
<1>6. CountTypeOK
  BY <1>1, <1>3, <1>4, <1>5 DEF CountTypeOK
<1> QED
  BY <1>2, <1>6
  DEF Init, ToleranceInv, CountIsWindow, WindowHolds, PreviousElapsed, GiveUpJustified,
      ToleratedBound

\* What one error does to the counter and the window.
LEMMA ErrorCounted ==
    ASSUME ToleranceInv, CheckToleranceExceeded
    PROVE  ToleranceInv'
<1> DEFINE L == Len(errors)
           opening == IF sourceErr = 0 THEN L + 1 ELSE sourceErr
           within == IsWithinRestartWindow(errors'[opening])
           verdict == Check(restartCount, within)
<1>1. errors \in Seq(0 .. MaxTime)
  BY DEF ToleranceInv, CountTypeOK
<1>2. /\ now \in 0 .. MaxTime
      /\ restartCount \in 0 .. MaxRestartCount
      /\ L \in Nat
      /\ sourceErr \in 0 .. L
      /\ previous \in 0 .. L
      /\ ~gaveUp
  BY <1>1 DEF ToleranceInv, CountTypeOK, CheckToleranceExceeded
<1>3. errors' = Append(errors, now)
  BY DEF CheckToleranceExceeded
<1>4. errors' \in Seq(0 .. MaxTime)
  BY <1>1, <1>2, <1>3, AppendFacts
<1>5. /\ Len(errors') = L + 1
      /\ errors'[L + 1] = now
      /\ \A i \in 1 .. L : errors'[i] = errors[i]
      /\ now' = now
  BY <1>1, <1>2, <1>3, AppendFacts DEF CheckToleranceExceeded
<1>6. /\ gaveUp' = (verdict = "surpassed")
      /\ restartCount' = CountAfter(restartCount, verdict)
      /\ sourceErr' = IF verdict = "reset" THEN L + 1 ELSE opening
      /\ previous' = IF verdict = "reset" THEN sourceErr ELSE previous
  BY <1>5 DEF CheckToleranceExceeded
<1>7. \A i \in 1 .. L + 1 : errors'[i] \in 0 .. MaxTime /\ errors'[i] \in Int
  <2>1. \A i \in 1 .. Len(errors') : errors'[i] \in 0 .. MaxTime
    BY <1>4, SeqElement
  <2> QED
    BY <1>5, <2>1, Constants
<1>8. \A i \in 1 .. L : errors[i] \in Int /\ errors[i] <= now
  <2>1. \A i \in 1 .. L : errors[i] \in 0 .. MaxTime
    BY <1>1, SeqElement
  <2>2. \A i \in 1 .. L : errors[i] <= now
    BY <1>2 DEF ToleranceInv, CountTypeOK
  <2> QED
    BY <2>1, <2>2, Constants
<1>9. \A i, j \in 1 .. L + 1 : i <= j => errors'[i] <= errors'[j] /\ errors'[j] <= now
  <2>1. \A i, j \in 1 .. L : i <= j => errors[i] <= errors[j]
    BY DEF ToleranceInv, CountTypeOK
  <2> QED
    BY <1>2, <1>5, <1>7, <1>8, <2>1, SMTT(30)
<1>10. /\ opening \in 1 .. L + 1
       /\ sourceErr = 0 => opening = L + 1
       /\ sourceErr # 0 => opening = sourceErr
  BY <1>2
<1>11. (/\ restartCount' \in 0 .. MaxRestartCount
        /\ sourceErr' \in 0 .. L + 1
        /\ previous' \in 0 .. L + 1
        /\ gaveUp' \in BOOLEAN) => CountTypeOK'
  BY <1>2, <1>4, <1>5, <1>9 DEF CountTypeOK
<1>12. NextCount(restartCount) = restartCount + 1
  <2>1. restartCount + 1 \in Nat /\ restartCount + 1 < CountLimit
    BY <1>2, Constants
  <2> QED
    BY <2>1, Constants, SmallModulo DEF NextCount
<1>13. restartCount = L + 1 - opening
  BY <1>2 DEF ToleranceInv, CountIsWindow
<1>14. within <=> (now - errors'[opening] < RestartWindow \/ RestartWindow = 0)
  BY <1>5 DEF IsWithinRestartWindow
<1>15. sourceErr = 0 => within
  BY <1>2, <1>5, <1>14, Constants
<1>16. CASE ~within
  <2>1. /\ verdict = "reset"
        /\ ~gaveUp' /\ restartCount' = 1 /\ sourceErr' = L + 1 /\ previous' = sourceErr
    BY <1>6, <1>16 DEF Check, CountAfter
  <2>2. sourceErr > 0 /\ opening = sourceErr /\ RestartWindow > 0
        /\ errors'[L + 1] - errors'[sourceErr] >= RestartWindow
    BY <1>2, <1>5, <1>7, <1>14, <1>15, <1>16, Constants
  <2>3. restartCount >= 1 /\ MaxRestartCount >= 1
    BY <1>2, <1>13, <2>2, Constants
  <2>4. CountTypeOK'
    <3>1. 1 \in 0 .. MaxRestartCount /\ L + 1 \in 0 .. L + 1 /\ sourceErr \in 0 .. L + 1
      BY <1>2, <2>3, Constants
    <3>2. gaveUp' \in BOOLEAN
      BY <1>6
    <3> QED
      BY <1>11, <2>1, <3>1, <3>2
  <2>5. CountIsWindow' /\ GiveUpJustified'
    BY <1>2, <1>5, <2>1 DEF CountIsWindow, GiveUpJustified
  <2>6. WindowHolds'
    BY <1>2, <1>5, <1>7, <2>1, <2>2, Constants DEF WindowHolds
  <2>7. PreviousElapsed'
    BY <1>2, <1>5, <1>13, <2>1, <2>2, Constants DEF PreviousElapsed
  <2> HIDE DEF opening, within, verdict
  <2>8. ToleratedBound'
    <3> SUFFICES ASSUME NEW i \in 1 .. Len(errors'),
                        i + 2 * MaxRestartCount <= Len(errors')
                 PROVE  /\ RestartWindow > 0
                        /\ errors'[i + 2 * MaxRestartCount] - errors'[i] >= RestartWindow
      BY DEF ToleratedBound
    <3>1. CASE i + 2 * MaxRestartCount <= L
      BY <1>2, <1>5, <2>3, <3>1, Constants DEF ToleranceInv, ToleratedBound
    <3>2. CASE i + 2 * MaxRestartCount = L + 1
      <4>1. i < sourceErr /\ sourceErr \in 1 .. L + 1
        BY <1>2, <1>13, <2>2, <3>2, Constants DEF opening
      <4>2. errors'[i] <= errors'[sourceErr]
        BY <1>5, <1>9, <4>1
      <4> QED
        BY <1>2, <1>5, <1>7, <2>2, <3>2, <4>1, <4>2, Constants
    <3> QED
      BY <1>2, <1>5, <3>1, <3>2, Constants
  <2> QED
    BY <2>4, <2>5, <2>6, <2>7, <2>8 DEF ToleranceInv
<1>17. CASE within
  <2>1. /\ verdict # "reset" /\ sourceErr' = opening /\ previous' = previous
        /\ gaveUp' <=> (MaxRestartCount = 0 \/ MaxRestartCount < restartCount + 1)
        /\ ~gaveUp' => restartCount' = restartCount + 1
        /\ gaveUp' => restartCount' = restartCount
    BY <1>6, <1>12, <1>17 DEF Check, CountAfter
  <2>2. CountTypeOK'
    <3>1. opening \in 0 .. L + 1 /\ previous \in 0 .. L + 1
      BY <1>2, <1>10
    <3>2. restartCount' \in 0 .. MaxRestartCount /\ gaveUp' \in BOOLEAN
      BY <1>2, <1>6, <2>1, Constants
    <3> QED
      BY <1>11, <2>1, <3>1, <3>2
  <2>3. CountIsWindow'
    <3> HIDE DEF opening, within, verdict
    <3> QED
      BY <1>2, <1>5, <1>10, <1>13, <2>1 DEF CountIsWindow
  <2>4. WindowHolds'
    <3> SUFFICES ASSUME NEW i \in opening .. L + 1, RestartWindow # 0
                 PROVE  errors'[i] - errors'[opening] < RestartWindow
      BY <1>5, <2>1 DEF WindowHolds
    <3> HIDE DEF opening, within, verdict
    <3>1. i \in 1 .. L + 1
      BY <1>2, <1>10
    <3>2. errors'[i] <= now
      BY <1>9, <3>1
    <3>3. errors'[i] \in 0 .. MaxTime
      BY <1>7, <3>1
    <3> QED
      BY <1>2, <1>7, <1>10, <1>14, <1>17, <3>2, <3>3, Constants
  <2>5. PreviousElapsed'
    <3>1. CASE sourceErr = 0
      BY <1>2, <1>5, <2>1, <3>1 DEF ToleranceInv, CountIsWindow, PreviousElapsed
    <3>2. CASE sourceErr # 0
      BY <1>2, <1>5, <2>1, <3>2 DEF ToleranceInv, PreviousElapsed
    <3> QED
      BY <3>1, <3>2
  <2> HIDE DEF opening, within, verdict
  <2>6. GiveUpJustified'
    <3> SUFFICES ASSUME gaveUp'
                 PROVE  /\ L + 1 > MaxRestartCount
                        /\ \/ RestartWindow = 0
                           \/ errors'[L + 1] - errors'[L + 1 - MaxRestartCount]
                                < RestartWindow
      BY <1>2, <1>5, Constants DEF GiveUpJustified
    <3>1. restartCount = MaxRestartCount
      BY <1>2, <2>1, Constants
    <3>2. L + 1 - MaxRestartCount = opening
      BY <1>2, <1>10, <1>13, <3>1, Constants
    <3> QED
      BY <1>2, <1>5, <1>7, <1>10, <1>14, <1>17, <3>1, <3>2, Constants
  <2>7. ToleratedBound'
    <3> SUFFICES ASSUME ~gaveUp', MaxRestartCount > 0,
                        NEW i \in 1 .. Len(errors'),
                        i + 2 * MaxRestartCount <= Len(errors')
                 PROVE  /\ RestartWindow > 0
                        /\ errors'[i + 2 * MaxRestartCount] - errors'[i] >= RestartWindow
      BY DEF ToleratedBound
    <3>1. CASE i + 2 * MaxRestartCount <= L
      BY <1>2, <1>5, <3>1, Constants DEF ToleranceInv, ToleratedBound
    <3>2. CASE i + 2 * MaxRestartCount = L + 1
      <4>1. L + 1 - opening < MaxRestartCount
        BY <1>2, <1>10, <1>13, <2>1, Constants
      <4>2. previous > 0 /\ previous < opening /\ opening - previous <= MaxRestartCount
            /\ RestartWindow > 0
            /\ errors'[opening] - errors'[previous] >= RestartWindow
        BY <1>2, <1>5, <1>10, <2>1, <2>5, <3>2, <4>1, Constants DEF PreviousElapsed
      <4>3. i <= previous /\ previous \in 1 .. L + 1
        BY <1>2, <1>10, <3>2, <4>1, <4>2, Constants
      <4>4. errors'[i] <= errors'[previous] /\ errors'[opening] <= errors'[L + 1]
        BY <1>2, <1>9, <1>10, <4>3
      <4>5. /\ errors'[i] \in Int /\ errors'[previous] \in Int
            /\ errors'[opening] \in Int /\ errors'[L + 1] \in Int
        BY <1>2, <1>7, <1>10, <4>3
      <4> QED
        BY <3>2, <4>2, <4>4, <4>5, Constants, SMTT(30)
    <3> QED
      BY <1>2, <1>5, <3>1, <3>2, Constants
  <2> QED
    BY <2>2, <2>3, <2>4, <2>5, <2>6, <2>7 DEF ToleranceInv
<1> QED
  BY <1>16, <1>17

\* The clock and the error handler keep the invariant.
LEMMA ToleranceStep ==
    ASSUME ToleranceInv, [Next]_vars
    PROVE  ToleranceInv'
<1>1. CASE Tick
  <2>1. now' = now + 1 /\ now' <= MaxTime /\ now \in 0 .. MaxTime
    BY <1>1, Constants DEF Tick, ToleranceInv, CountTypeOK
  <2>2. UNCHANGED <<restartCount, sourceErr, previous, errors, gaveUp>>
    BY <1>1 DEF Tick, countVars
  <2>3. CountTypeOK'
    BY <2>1, <2>2, Constants DEF ToleranceInv, CountTypeOK
  <2> QED
    BY <2>2, <2>3
    DEF ToleranceInv, CountIsWindow, WindowHolds, PreviousElapsed, GiveUpJustified,
        ToleratedBound
<1>2. CASE CheckToleranceExceeded
  BY <1>2, ErrorCounted
<1>3. CASE RestartCompleted
  BY <1>3
  DEF RestartCompleted, countVars, ToleranceInv, CountTypeOK, CountIsWindow, WindowHolds,
      PreviousElapsed, GiveUpJustified, ToleratedBound
<1>4. CASE UNCHANGED vars
  BY <1>4
  DEF vars, countVars, ToleranceInv, CountTypeOK, CountIsWindow, WindowHolds,
      PreviousElapsed, GiveUpJustified, ToleratedBound
<1> QED
  BY <1>1, <1>2, <1>3, <1>4 DEF Next, Over

\* The invariant all three results follow from.
THEOREM ToleranceInvariant == Spec => []ToleranceInv
  BY ToleranceInit, ToleranceStep, PTL DEF Spec

\* The counter never exceeds MaxRestartCount.
THEOREM ToleranceTypeCorrect == Spec => []CountTypeOK
<1>1. ToleranceInv => CountTypeOK
  BY DEF ToleranceInv
<1> QED
  BY <1>1, ToleranceInvariant, PTL

\* A supervisor gives up only when its last MaxRestartCount + 1 errors
\* happened within one window.
THEOREM GivingUpIsJustified == Spec => []GiveUpJustified
<1>1. ToleranceInv => GiveUpJustified
  BY DEF ToleranceInv
<1> QED
  BY <1>1, ToleranceInvariant, PTL

\* Among any 2 * MaxRestartCount + 1 consecutive tolerated errors, the first
\* and the last are at least a window apart.
THEOREM ToleranceIsBounded == Spec => []ToleratedBound
<1>1. ToleranceInv => ToleratedBound
  BY DEF ToleranceInv
<1> QED
  BY <1>1, ToleranceInvariant, PTL
-----------------------------------------------------------------------------
(* The words of the backoff.  What is needed of the powers of two comes    *)
(* from counting sets: 2^n is the number of subsets of 1 .. n.             *)

LEMMA PowerCounts ==
    ASSUME NEW n \in Nat
    PROVE  /\ IsFiniteSet(SUBSET (1 .. n))
           /\ Cardinality(SUBSET (1 .. n)) = 2^n
           /\ 2^n \in Nat
<1>1. IsFiniteSet(1 .. n) /\ Cardinality(1 .. n) = n
  BY FS_Interval
<1>2. IsFiniteSet(SUBSET (1 .. n)) /\ Cardinality(SUBSET (1 .. n)) = 2^Cardinality(1 .. n)
  BY <1>1, FS_SUBSET
<1> QED
  BY <1>1, <1>2, FS_CardinalityType

\* The subsets of 1 .. n + 1 are those without n + 1 and as many with it.
LEMMA PowerDoubles ==
    ASSUME NEW n \in Nat
    PROVE  2^(n + 1) = 2^n + 2^n
<1> DEFINE without == SUBSET (1 .. n)
           with == {s \cup {n + 1} : s \in without}
<1>1. SUBSET (1 .. n + 1) = without \cup with
  <2>1. 1 .. n + 1 = (1 .. n) \cup {n + 1} /\ n + 1 \notin 1 .. n
    OBVIOUS
  <2>2. ASSUME NEW s \in SUBSET (1 .. n + 1)
        PROVE  s \in without \cup with
    <3>1. CASE n + 1 \notin s
      BY <2>1, <3>1
    <3>2. CASE n + 1 \in s
      <4>1. s \ {n + 1} \in without /\ s = (s \ {n + 1}) \cup {n + 1}
        BY <2>1, <3>2
      <4> QED
        BY <4>1
    <3> QED
      BY <3>1, <3>2
  <2>3. without \cup with \subseteq SUBSET (1 .. n + 1)
    BY <2>1
  <2> QED
    BY <2>2, <2>3
<1>2. without \cap with = {}
  BY n + 1 \notin 1 .. n
<1>3. ExistsBijection(without, with)
  <2> DEFINE f == [s \in without |-> s \cup {n + 1}]
  <2>1. n + 1 \notin 1 .. n
    OBVIOUS
  <2>2. f \in [without -> with]
    OBVIOUS
  <2>3. \A s, t \in without : f[s] = f[t] => s = t
    <3> SUFFICES ASSUME NEW s \in without, NEW t \in without, f[s] = f[t]
                 PROVE  s = t
      OBVIOUS
    <3>1. s = f[s] \ {n + 1} /\ t = f[t] \ {n + 1}
      BY <2>1
    <3> QED
      BY <3>1
  <2>4. \A w \in with : \E s \in without : f[s] = w
    OBVIOUS
  <2>5. f \in Bijection(without, with)
    <3> HIDE DEF f, without, with
    <3> QED
      BY <2>2, <2>3, <2>4 DEF Bijection, Injection, Surjection, IsInjective
  <2> QED
    BY <2>5 DEF ExistsBijection
<1>4. IsFiniteSet(without) /\ Cardinality(without) = 2^n /\ 2^n \in Nat
  BY PowerCounts
<1>5. IsFiniteSet(with) /\ Cardinality(with) = 2^n
  BY <1>3, <1>4, FS_Bijection
<1> HIDE DEF without, with
<1>6. Cardinality(without \cup with) = 2^n + 2^n - Cardinality({})
  BY <1>2, <1>4, <1>5, FS_Union
<1>7. Cardinality(SUBSET (1 .. n + 1)) = 2^(n + 1)
  BY PowerCounts
<1>8. Cardinality({}) = 0
  BY FS_EmptySet
<1>9. Cardinality(without \cup with) = 2^(n + 1)
  BY <1>1, <1>7
<1>10. 2^(n + 1) = 2^n + 2^n - 0
  BY <1>6, <1>8, <1>9
<1> QED
  BY <1>4, <1>10

\* A greater exponent gives no smaller a power, and no power is zero.
LEMMA PowerGrows ==
    ASSUME NEW m \in Nat, NEW n \in Nat, m <= n
    PROVE  2^m <= 2^n /\ 2^m > 0
<1>1. SUBSET (1 .. m) \in SUBSET (SUBSET (1 .. n))
  <2>1. 1 .. m \subseteq 1 .. n
    OBVIOUS
  <2> QED
    BY <2>1
<1>2. /\ IsFiniteSet(SUBSET (1 .. m)) /\ Cardinality(SUBSET (1 .. m)) = 2^m /\ 2^m \in Nat
      /\ IsFiniteSet(SUBSET (1 .. n)) /\ Cardinality(SUBSET (1 .. n)) = 2^n /\ 2^n \in Nat
  BY PowerCounts
<1>3. 2^m # 0
  <2>1. {} \in SUBSET (1 .. m)
    OBVIOUS
  <2>2. Cardinality(SUBSET (1 .. m)) = 0 => SUBSET (1 .. m) = {}
    BY <1>2, FS_EmptySet
  <2> QED
    BY <1>2, <2>1, <2>2
<1>4. 2^m <= 2^n
  BY <1>1, <1>2, FS_Subset
<1> QED
  BY <1>2, <1>3, <1>4
\* Half of the values of a Duration are below zero.
LEMMA Words ==
    /\ Bits \in Nat /\ Bits - 1 \in Nat /\ 2^(Bits - 1) \in Nat /\ 2^(Bits - 1) > 0
    /\ 2^Bits = 2^(Bits - 1) + 2^(Bits - 1)
<1>1. Bits \in Nat /\ Bits - 1 \in Nat /\ (Bits - 1) + 1 = Bits
  BY BackoffAssumption
<1>2. 2^((Bits - 1) + 1) = 2^(Bits - 1) + 2^(Bits - 1)
  BY <1>1, PowerDoubles
<1> QED
  BY <1>1, <1>2, PowerCounts, PowerGrows

\* What Wrap does: nothing to a number that is a Duration.
LEMMA Wrapped ==
    ASSUME NEW n \in Int
    PROVE  Wrap(n) \in Int /\ (n \in Duration => Wrap(n) = n)
<1> DEFINE half == 2^(Bits - 1)
<1>1. half \in Nat /\ half > 0 /\ 2^Bits = half + half
  BY Words
<1>2. Wrap(n) = ((n + half) % (half + half)) - half
  BY <1>1 DEF Wrap
<1>3. n \in Duration <=> -half <= n /\ n <= half - 1
  BY <1>1 DEF Duration
<1> HIDE DEF half
<1>4. (n + half) % (half + half) \in Int
  BY <1>1
<1>5. ASSUME n \in Duration
      PROVE  (n + half) % (half + half) = n + half
  <2>1. n + half \in Nat /\ n + half < half + half /\ half + half \in Nat
    BY <1>1, <1>3, <1>5
  <2> QED
    BY <2>1, SmallModulo
<1> QED
  BY <1>1, <1>2, <1>4, <1>5

\* A wait is never longer than the maximum.
LEMMA WaitAtMost ==
    ASSUME NEW b \in Nat, NEW m \in Nat, NEW count \in 0 .. MaxRestartCount
    PROVE  duration(b, m, count) \in Int /\ duration(b, m, count) <= m
<1>1. Exponent(count) \in Nat
  BY Constants DEF Exponent
<1>2. ShiftOne(Exponent(count)) \in Int
  <2>1. 2^Exponent(count) \in Int
    BY <1>1, PowerCounts
  <2> QED
    BY <2>1, Wrapped DEF ShiftOne
<1>3. ShiftOne(Exponent(count)) * b \in Int
  BY <1>2
<1>4. Wrap(ShiftOne(Exponent(count)) * b) \in Int
  BY <1>3, Wrapped
<1> QED
  BY <1>4 DEF duration

\* Before the first error there is no wait: the exponent wraps, and the one is
\* shifted out.
LEMMA NoWaitAtFirst ==
    ASSUME NEW b \in Nat, NEW m \in Nat
    PROVE  duration(b, m, 0) = 0
<1>1. Exponent(0) = CountLimit - 1
  <2>1. CountLimit - 1 \in Nat /\ CountLimit - 1 < CountLimit /\ 0 - 1 + CountLimit = CountLimit - 1
    BY Constants
  <2> QED
    BY <2>1, Constants, SmallModulo DEF Exponent
<1>2. ShiftOne(Exponent(0)) = 0
  BY <1>1, BackoffAssumption, Constants DEF ShiftOne
<1>3. Wrap(0) = 0
  <2>1. 0 \in Duration
    BY Words DEF Duration
  <2> QED
    BY <2>1, Wrapped
<1>4. ShiftOne(Exponent(0)) * b = 0
  BY <1>2
<1> QED
  BY <1>3, <1>4 DEF duration

\* The wait doubles with every error, up to the maximum.
LEMMA WaitDoubles ==
    ASSUME NEW b \in Nat, NEW m \in Nat, NEW e \in Nat, e + 1 <= MaxRestartCount,
           b * 2^e \in Duration
    PROVE  duration(b, m, e + 1) = Smaller(b * 2^e, m) /\ b * 2^e \in Nat
<1>1. 2^e \in Nat /\ 2^e > 0
  BY PowerCounts, PowerGrows
<1>2. b * 2^e \in Nat /\ 2^e * b = b * 2^e
  BY <1>1
<1>3. Exponent(e + 1) = e
  <2>1. (e + 1) - 1 + CountLimit = e + CountLimit /\ e < CountLimit
    BY Constants
  <2>2. (e + CountLimit) % CountLimit = e
    BY <2>1, Constants
  <2> QED
    BY <2>1, <2>2 DEF Exponent
<1>4. CASE b = 0
  BY <1>1, <1>4 DEF duration, Smaller
<1>5. CASE b # 0
  <2>1. 2^e <= b * 2^e
    BY <1>1, <1>5
  <2>2. b * 2^e <= 2^(Bits - 1) - 1
    BY <1>2, Words DEF Duration
  <2>3. 2^e \in Duration
    BY <1>1, <1>2, <2>1, <2>2, Words DEF Duration
  <2>4. e < Bits
    <3>1. SUFFICES ASSUME Bits - 1 <= e PROVE FALSE
      BY BackoffAssumption
    <3>2. 2^(Bits - 1) <= 2^e
      BY <3>1, Words, PowerGrows
    <3> QED
      BY <1>1, <1>2, <2>1, <2>2, <3>2, Words
  <2>5. ShiftOne(e) = 2^e
    BY <1>1, <2>3, <2>4, Wrapped, BackoffAssumption DEF ShiftOne
  <2>6. Wrap(ShiftOne(Exponent(e + 1)) * b) = b * 2^e
    BY <1>2, <1>3, <2>5, Wrapped
  <2>7. CASE b * 2^e > m
    BY <1>2, <1>5, <2>6, <2>7 DEF duration, Smaller
  <2>8. CASE ~(b * 2^e > m)
    BY <1>2, <1>5, <2>6, <2>8 DEF duration, Smaller
  <2> QED
    BY <2>7, <2>8
<1> QED
  BY <1>2, <1>4, <1>5
-----------------------------------------------------------------------------
(* The waits between the errors.                                           *)

\* The next error comes no sooner than the wait after the last one ends.
NextSpaced ==
    (~gaveUp /\ sourceErr > 0) =>
        LET wait == base * 2^(Len(errors) - sourceErr) IN
        wait \in Duration => resumeAt - errors[Len(errors)] >= Smaller(wait, max)

WaitInv ==
    /\ ToleranceInv
    /\ base \in Bases /\ max \in Maxima /\ resumeAt \in Nat
    /\ WaitBounded
    /\ RestartsSpaced
    /\ NextSpaced

\* The values of the backoff are durations that are not negative.
LEMMA BackoffValues ==
    /\ \A b \in Bases : b \in Nat
    /\ \A m \in Maxima : m \in Nat
  BY RestartToleranceAssumption

\* The invariant holds at first: nobody waits.
LEMMA WaitInit == Init => WaitInv
<1> SUFFICES ASSUME Init
             PROVE  WaitInv
  OBVIOUS
<1>1. ToleranceInv
  BY ToleranceInit
<1> QED
  BY <1>1, BackoffValues DEF Init, WaitInv, WaitBounded, RestartsSpaced, NextSpaced

\* What a wait after the last error does.
LEMMA ResumeStep ==
    ASSUME ToleranceInv', now' \in Nat, now \in Nat, now' = now, ~gaveUp',
           base \in Bases, max \in Maxima, UNCHANGED <<base, max>>,
           Resume(restartCount')
    PROVE  resumeAt' \in Nat /\ WaitBounded' /\ NextSpaced'
<1> DEFINE wait == duration(base, max, restartCount')
<1>1. base \in Nat /\ max \in Nat
  BY BackoffValues
<1>2. restartCount' \in 0 .. MaxRestartCount /\ errors' \in Seq(0 .. MaxTime)
  BY DEF ToleranceInv, CountTypeOK
<1>3. wait \in Int /\ wait <= max
  BY <1>1, <1>2, WaitAtMost
<1>4. resumeAt' = IF wait > 0 THEN now + wait ELSE now
  BY DEF Resume
<1> HIDE DEF wait
<1>5. resumeAt' \in Nat /\ resumeAt' <= now + max /\ resumeAt' >= now + wait
  BY <1>1, <1>3, <1>4
<1>6. WaitBounded'
  <2>1. ASSUME errors' = << >>
        PROVE  resumeAt' <= now
    <3>1. restartCount' = 0
      BY <2>1 DEF ToleranceInv, CountIsWindow
    <3>2. wait = 0
      BY <1>1, <3>1, NoWaitAtFirst DEF wait
    <3> QED
      BY <1>4, <3>2
  <2> QED
    BY <1>5, <2>1 DEF WaitBounded
<1>7. NextSpaced'
  <2> SUFFICES ASSUME sourceErr' > 0, base * 2^(Len(errors') - sourceErr') \in Duration
               PROVE  resumeAt' - errors'[Len(errors')]
                          >= Smaller(base * 2^(Len(errors') - sourceErr'), max)
    BY DEF NextSpaced
  <2> DEFINE e == Len(errors') - sourceErr'
  <2>1. /\ Len(errors') \in Nat /\ sourceErr' \in 1 .. Len(errors')
        /\ restartCount' = e + 1
        /\ errors'[Len(errors')] <= now
    BY <1>2 DEF ToleranceInv, CountTypeOK, CountIsWindow
  <2>2. errors'[Len(errors')] \in 0 .. MaxTime
    <3>1. Len(errors') \in 1 .. Len(errors')
      BY <2>1
    <3> QED
      BY <1>2, <3>1, SeqElement
  <2>3. errors'[Len(errors')] \in Nat
    BY <2>2, Constants
  <2>4. e \in Nat /\ e + 1 <= MaxRestartCount
    BY <1>2, <2>1, Constants, SMTT(30)
  <2> HIDE DEF e
  <2>5. wait = Smaller(base * 2^e, max) /\ base * 2^e \in Nat
    BY <1>1, <2>1, <2>4, WaitDoubles DEF wait, e
  <2>6. resumeAt' - errors'[Len(errors')] >= wait
    BY <1>3, <1>5, <2>1, <2>3
  <2> QED
    BY <2>5, <2>6 DEF e
<1> QED
  BY <1>5, <1>6, <1>7

\* One error: it happened after the wait for the one before.
LEMMA ErrorSpaced ==
    ASSUME WaitInv, CheckToleranceExceeded
    PROVE  WaitInv'
<1> DEFINE L == Len(errors)
<1>1. ToleranceInv' /\ ToleranceInv
  BY ErrorCounted DEF WaitInv
<1>2. /\ errors \in Seq(0 .. MaxTime) /\ L \in Nat /\ now \in 0 .. MaxTime
      /\ sourceErr \in 0 .. L /\ ~gaveUp /\ now >= resumeAt
      /\ errors' = Append(errors, now) /\ UNCHANGED <<now, base, max>>
  BY <1>1 DEF ToleranceInv, CountTypeOK, CheckToleranceExceeded
<1>3. /\ Len(errors') = L + 1 /\ errors'[L + 1] = now
      /\ \A i \in 1 .. L : errors'[i] = errors[i] /\ errors[i] \in 0 .. MaxTime
  <2>1. Len(errors') = L + 1 /\ errors'[L + 1] = now /\ \A i \in 1 .. L : errors'[i] = errors[i]
    BY <1>2, AppendFacts, ZenonT(60)
  <2>2. \A i \in 1 .. L : errors[i] \in 0 .. MaxTime
    BY <1>2, SeqElement, ZenonT(60)
  <2> QED
    BY <2>1, <2>2
<1>4. /\ now \in Nat /\ resumeAt \in Nat /\ base \in Nat /\ max \in Nat
      /\ base \in Bases /\ max \in Maxima
  BY <1>2, Constants, BackoffValues DEF WaitInv
<1>5. sourceErr' = L + 1 \/ (sourceErr' = sourceErr /\ sourceErr > 0)
  BY <1>2, <1>3 DEF CheckToleranceExceeded
<1>6. RestartsSpaced'
  <2> SUFFICES ASSUME ~gaveUp', sourceErr' = sourceErr, sourceErr > 0,
                      NEW i \in sourceErr .. L,
                      base * 2^(i - sourceErr) \in Duration
               PROVE  errors'[i + 1] - errors'[i] >= Smaller(base * 2^(i - sourceErr), max)
    BY <1>2, <1>3, <1>5 DEF RestartsSpaced
  <2>1. CASE i < L
    <3>1. i \in sourceErr .. Len(errors) - 1 /\ i + 1 \in 1 .. L /\ i \in 1 .. L
      BY <1>2, <2>1
    <3> QED
      BY <1>2, <1>3, <3>1 DEF WaitInv, RestartsSpaced
  <2>2. CASE i = L
    <3>1. base * 2^(L - sourceErr) \in Duration /\ L \in 1 .. L
      BY <1>2, <2>2
    <3>2. resumeAt - errors[L] >= Smaller(base * 2^(L - sourceErr), max)
      BY <1>2, <3>1 DEF WaitInv, NextSpaced
    <3>3. base * 2^(L - sourceErr) \in Int
      <4>1. L - sourceErr \in Nat
        BY <1>2
      <4>2. 2^(L - sourceErr) \in Nat
        BY <4>1, PowerCounts
      <4> QED
        BY <1>4, <4>2
    <3>4. Smaller(base * 2^(L - sourceErr), max) \in Int
      BY <1>4, <3>3 DEF Smaller
    <3>5. errors[L] \in Nat
      BY <1>3, <3>1, Constants
    <3>6. errors'[L + 1] - errors'[L] >= resumeAt - errors[L]
      BY <1>2, <1>3, <1>4, <3>1, <3>5
    <3>7. errors'[L + 1] - errors'[L] \in Int /\ resumeAt - errors[L] \in Int
      BY <1>3, <1>4, <3>1, <3>5
    <3>8. errors'[L + 1] - errors'[L] >= Smaller(base * 2^(L - sourceErr), max)
      BY <3>2, <3>4, <3>6, <3>7
    <3> QED
      BY <2>2, <3>8
  <2> QED
    BY <1>2, <2>1, <2>2
<1>7. CASE gaveUp'
  <2>1. resumeAt' = resumeAt
    BY <1>7 DEF CheckToleranceExceeded
  <2>2. WaitBounded' /\ NextSpaced'
    BY <1>2, <1>3, <1>7, <2>1 DEF WaitInv, WaitBounded, NextSpaced
  <2> QED
    BY <1>1, <1>2, <1>4, <1>6, <2>1, <2>2 DEF WaitInv
<1>8. CASE ~gaveUp'
  <2>1. Resume(restartCount')
    BY <1>8 DEF CheckToleranceExceeded
  <2>2. resumeAt' \in Nat /\ WaitBounded' /\ NextSpaced'
    BY <1>1, <1>2, <1>4, <1>8, <2>1, ResumeStep
  <2> QED
    BY <1>1, <1>2, <1>4, <1>6, <2>2 DEF WaitInv
<1> QED
  BY <1>7, <1>8

\* The clock, the errors and the restarts that are not counted.
LEMMA WaitStep ==
    ASSUME WaitInv, [Next]_vars
    PROVE  WaitInv'
<1>1. ToleranceInv'
  BY ToleranceStep DEF WaitInv
<1>2. now \in Nat /\ max \in Nat /\ resumeAt \in Nat
  BY Constants, BackoffValues DEF WaitInv, ToleranceInv, CountTypeOK
<1>3. CASE Tick
  BY <1>1, <1>2, <1>3
     DEF Tick, countVars, WaitInv, WaitBounded, RestartsSpaced, NextSpaced
<1>4. CASE CheckToleranceExceeded
  BY <1>4, ErrorSpaced
<1>5. CASE RestartCompleted
  <2>1. /\ ~gaveUp' /\ now' = now /\ UNCHANGED <<base, max>> /\ Resume(restartCount')
        /\ UNCHANGED <<errors, sourceErr, gaveUp>>
    BY <1>5 DEF RestartCompleted, countVars, Resume
  <2>2. base \in Bases /\ max \in Maxima
    BY DEF WaitInv
  <2>3. resumeAt' \in Nat /\ WaitBounded' /\ NextSpaced'
    BY <1>1, <1>2, <2>1, <2>2, ResumeStep
  <2> QED
    BY <1>1, <2>1, <2>2, <2>3 DEF WaitInv, RestartsSpaced
<1>6. CASE UNCHANGED vars
  BY <1>1, <1>6 DEF vars, countVars, WaitInv, WaitBounded, RestartsSpaced, NextSpaced
<1> QED
  BY <1>3, <1>4, <1>5, <1>6 DEF Next, Over

\* The types of the clock and the backoff, with those of the counter.
THEOREM BackoffTypeCorrect == Spec => []TypeOK
<1>1. WaitInv => TypeOK
  BY DEF WaitInv, ToleranceInv, TypeOK
<1> QED
  BY <1>1, WaitInit, WaitStep, PTL DEF Spec

\* Unless a wait overflows a Duration, the wait after the n-th error of a
\* window is min(base * 2^(n - 1), max), and the next error comes after it.
THEOREM ErrorsAreSpaced == Spec => []RestartsSpaced
<1>1. WaitInv => RestartsSpaced
  BY DEF WaitInv
<1> QED
  BY <1>1, WaitInit, WaitStep, PTL DEF Spec

\* No wait is longer than the maximum, and there is none before the first
\* error, whatever the width of a Duration.
THEOREM WaitsAreBounded == Spec => []WaitBounded
<1>1. WaitInv => WaitBounded
  BY DEF WaitInv
<1> QED
  BY <1>1, WaitInit, WaitStep, PTL DEF Spec
=============================================================================
