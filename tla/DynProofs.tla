------------------------------ MODULE DynProofs ------------------------------
(***************************************************************************)
(* Proofs about DynSupervisor, for every value of its constants: any       *)
(* number of clients, children and goroutines, any list, any faults.       *)
(*                                                                         *)
(*   DynTypeCorrect            DynSpec => []DynTypeOK                      *)
(*   DynMapIsListed            DynSpec => []MapIsListed                    *)
(*                                                                         *)
(* and, if no restart fails to start a child (a Spawn still may),          *)
(*                                                                         *)
(*   DynNothingOrphaned        DynSpec => []DynNoOrphan                    *)
(*   TerminatedStaysForgotten  DynSpec => []TerminatedIsForgotten          *)
(*                                                                         *)
(* The list changes in one loop, which removes a name while it ranges over *)
(* the list: what it computes is proved by induction over its turns.       *)
(***************************************************************************)
EXTENDS DynSupervisor, SupervisorProofs

-----------------------------------------------------------------------------
(* Loops over a list.                                                      *)

\* A loop that starts with x0 and does step[x, i] in its turn i has a state
\* after each of its turns.
LoopSteps(N, X) == [X \X (1 .. N) -> X]
IsLoop(f, N, X, x0, step) ==
    /\ f \in [0 .. N -> X]
    /\ f[0] = x0
    /\ \A i \in 1 .. N : f[i] = step[<<f[i - 1], i>>]

\* Such a function exists: a recursive definition over the turns has a value.
LEMMA LoopStates ==
    ASSUME NEW N \in Nat, NEW X, NEW x0 \in X, NEW step \in LoopSteps(N, X)
    PROVE  \E f : IsLoop(f, N, X, x0, step)
<1> USE DEF LoopSteps
<1> DEFINE Runs(n, f) == f[0] = x0 /\ \A i \in 1 .. n : f[i] = step[<<f[i - 1], i>>]
           S == {n \in Nat : n <= N => \E f \in [0 .. n -> X] : Runs(n, f)}
<1>1. 0 \in S
  <2>1. [i \in 0 .. 0 |-> x0] \in [0 .. 0 -> X] /\ Runs(0, [i \in 0 .. 0 |-> x0])
    OBVIOUS
  <2> QED
    BY <2>1
<1>2. ASSUME NEW n \in Nat, n \in S
      PROVE  n + 1 \in S
  <2> SUFFICES ASSUME n + 1 <= N
               PROVE  \E f \in [0 .. n + 1 -> X] : Runs(n + 1, f)
    OBVIOUS
  <2>1. PICK f \in [0 .. n -> X] : Runs(n, f)
    BY <1>2
  <2> DEFINE g == [i \in 0 .. n + 1 |-> IF i = n + 1 THEN step[<<f[n], n + 1>>] ELSE f[i]]
  <2>2. n + 1 \in 1 .. N /\ f[n] \in X
    BY <2>1
  <2>3. g \in [0 .. n + 1 -> X]
    BY <2>1, <2>2
  <2>4. Runs(n + 1, g)
    <3>1. g[0] = x0
      BY <2>1
    <3>2. ASSUME NEW i \in 1 .. n + 1
          PROVE  g[i] = step[<<g[i - 1], i>>]
      <4>1. i - 1 \in 0 .. n /\ g[i - 1] = f[i - 1]
        OBVIOUS
      <4>2. CASE i = n + 1
        <5>1. i - 1 = n /\ g[i] = step[<<f[n], n + 1>>]
          BY <4>2
        <5> HIDE DEF g
        <5> QED
          BY <4>1, <4>2, <5>1
      <4>3. CASE i # n + 1
        BY <2>1, <4>1, <4>3
      <4> QED
        BY <4>2, <4>3
    <3> QED
      BY <3>1, <3>2
  <2> QED
    BY <2>3, <2>4
<1>3. N \in S
  <2> HIDE DEF S
  <2> QED
    BY <1>1, <1>2, SetInduction
<1> QED
  BY <1>3 DEF IsLoop

-----------------------------------------------------------------------------
(* The removal of a name from the list.                                    *)

Removals ==
    [name : Child, array : [1 .. Len(specs) -> Child], len : 0 .. Len(specs), panic : BOOLEAN]
RemovalStart(c) == [name |-> c, array |-> specs, len |-> Len(specs), panic |-> FALSE]

\* One turn of the loop keeps the types.
LEMMA RemoveEntryTyped ==
    ASSUME NEW acc \in Removals, NEW i \in 1 .. Len(specs), specs \in Seq(Child)
    PROVE  RemoveEntry(acc, i) \in Removals
<1> DEFINE shifted == [j \in DOMAIN acc.array |->
                          IF j \in i .. acc.len - 1 THEN acc.array[j + 1] ELSE acc.array[j]]
<1>1. Len(specs) \in Nat /\ acc.len \in 0 .. Len(specs)
  BY DEF Removals
<1>2. DOMAIN acc.array = 1 .. Len(specs)
  BY DEF Removals
<1>3. ASSUME NEW j \in i .. acc.len - 1 PROVE j + 1 \in 1 .. Len(specs)
  BY <1>1
<1>4. shifted \in [1 .. Len(specs) -> Child]
  BY <1>2, <1>3 DEF Removals
<1>5. ASSUME ~acc.panic, acc.array[i] = acc.name, ~(i > acc.len)
      PROVE  acc.len - 1 \in 0 .. Len(specs)
  BY <1>1, <1>5
<1> HIDE DEF shifted
<1>6. RemoveEntry(acc, i) =
         IF acc.panic \/ acc.array[i] # acc.name THEN acc
         ELSE IF i > acc.len THEN [acc EXCEPT !.panic = TRUE]
         ELSE [acc EXCEPT !.len = acc.len - 1, !.array = shifted]
  BY DEF RemoveEntry, shifted
<1>7. [acc EXCEPT !.panic = TRUE] \in Removals
  BY DEF Removals
<1> QED
  BY <1>4, <1>5, <1>6, <1>7 DEF Removals

\* Removal is what the turns of the loop over the whole list lead to.
LEMMA RemovalTurns ==
    ASSUME NEW c \in Child, specs \in Seq(Child)
    PROVE  \E f \in [0 .. Len(specs) -> Removals] :
              /\ f[0] = RemovalStart(c)
              /\ \A i \in 1 .. Len(specs) : f[i] = RemoveEntry(f[i - 1], i)
              /\ Removal(c) = f[Len(specs)]
<1> DEFINE N == Len(specs)
           step == [p \in Removals \X (1 .. N) |-> RemoveEntry(p[1], p[2])]
           Turn(f) == [i \in 0 .. N |-> IF i = 0 THEN RemovalStart(c)
                                        ELSE RemoveEntry(f[i - 1], i)]
           after == CHOOSE f : f = Turn(f)
<1>1. N \in Nat /\ RemovalStart(c) \in Removals
  BY DEF Removals, RemovalStart
<1>2. step \in [Removals \X (1 .. N) -> Removals]
  BY RemoveEntryTyped
<1>3. PICK f \in [0 .. N -> Removals] :
         f[0] = RemovalStart(c) /\ \A i \in 1 .. N : f[i] = step[<<f[i - 1], i>>]
  <2> DEFINE X == Removals
             x0 == RemovalStart(c)
  <2>1. N \in Nat /\ x0 \in X /\ step \in LoopSteps(N, X)
    BY <1>1, <1>2 DEF LoopSteps
  <2> HIDE DEF step, N, X, x0
  <2>2. PICK f : IsLoop(f, N, X, x0, step)
    BY <2>1, LoopStates
  <2> QED
    BY <2>2 DEF X, x0, IsLoop
<1>4. \A i \in 1 .. N : f[i - 1] \in Removals /\ f[i] = RemoveEntry(f[i - 1], i)
  BY <1>1, <1>3
<1>5. f = Turn(f)
  BY <1>1, <1>3, <1>4
<1>6. after = Turn(after)
  <2> HIDE DEF Turn
  <2> QED BY <1>5
<1> HIDE DEF after
<1>7. \A i \in 0 .. N : after[i] = f[i]
  <2> DEFINE S == {n \in Nat : n <= N => after[n] = f[n]}
  <2>1. after[0] = RemovalStart(c) /\ \A i \in 1 .. N : after[i] = RemoveEntry(after[i - 1], i)
    BY <1>1, <1>6
  <2> HIDE DEF N, Turn, step
  <2>2. 0 \in S
    BY <1>3, <2>1
  <2>3. ASSUME NEW n \in Nat, n \in S
        PROVE  n + 1 \in S
    <3> SUFFICES ASSUME n + 1 <= N
                 PROVE  after[n + 1] = f[n + 1]
      OBVIOUS
    <3>1. n + 1 \in 1 .. N /\ n + 1 - 1 = n /\ after[n] = f[n]
      BY <1>1, <2>3
    <3> QED
      BY <1>4, <2>1, <3>1
  <2>4. \A n \in Nat : n \in S
    <3> HIDE DEF S
    <3> QED
      BY <2>2, <2>3, SetInduction
  <2> QED
    BY <1>1, <2>4
<1>8. Removal(c) = after[N]
  BY DEF Removal, after, RemovalStart
<1> QED
  BY <1>1, <1>3, <1>4, <1>7, <1>8

\* The list the loop leaves behind: the first entries of the array.
RemovedFrom(c) == SubSeq(Removal(c).array, 1, Removal(c).len)

\* It is a list of children.
LEMMA RemovedFromFacts ==
    ASSUME NEW c \in Child, specs \in Seq(Child)
    PROVE  /\ Removal(c) \in Removals
           /\ RemovedFrom(c) \in Seq(Child)
           /\ Len(RemovedFrom(c)) = Removal(c).len
           /\ \A i \in 1 .. Removal(c).len : RemovedFrom(c)[i] = Removal(c).array[i]
<1>1. Removal(c) \in Removals
  BY RemovalTurns
<1>2. Removal(c).array \in Seq(Child) /\ Len(Removal(c).array) = Len(specs)
  BY <1>1 DEF Removals
<1>3. Removal(c).len \in 0 .. Len(specs) /\ Len(specs) \in Nat
  BY <1>1 DEF Removals
<1> QED
  BY <1>1, <1>2, <1>3 DEF RemovedFrom

\* Every other name stays in the list, whatever is listed twice.
LEMMA RemovalKeepsOthers ==
    ASSUME NEW c \in Child, NEW d \in Child, d # c, specs \in Seq(Child), Listed(d)
    PROVE  \E i \in 1 .. Len(RemovedFrom(c)) : RemovedFrom(c)[i] = d
<1>1. PICK f \in [0 .. Len(specs) -> Removals] :
         /\ f[0] = RemovalStart(c)
         /\ \A i \in 1 .. Len(specs) : f[i] = RemoveEntry(f[i - 1], i)
         /\ Removal(c) = f[Len(specs)]
  BY RemovalTurns
<1> DEFINE N == Len(specs)
           Holds(acc) == acc.name = c /\ \E p \in 1 .. acc.len : acc.array[p] = d
           S == {n \in Nat : n <= N => Holds(f[n])}
<1>2. N \in Nat
  OBVIOUS
<1>3. 0 \in S
  BY <1>1 DEF RemovalStart, Listed
<1>4. ASSUME NEW n \in Nat, n \in S
      PROVE  n + 1 \in S
  <2> SUFFICES ASSUME n + 1 <= N
               PROVE  Holds(f[n + 1])
    OBVIOUS
  <2> DEFINE acc == f[n]
             i == n + 1
             new == f[n + 1]
  <2>1. i \in 1 .. N /\ acc \in Removals /\ new = RemoveEntry(acc, i)
    BY <1>1, <1>2
  <2>2. acc.name = c /\ acc.len \in 0 .. N /\ acc.array \in [1 .. N -> Child]
    BY <1>4, <2>1 DEF Removals
  <2>3. PICK p \in 1 .. acc.len : acc.array[p] = d
    BY <1>2, <1>4
  <2> HIDE DEF acc, i, new, N
  <2>4. CASE acc.panic \/ acc.array[i] # acc.name \/ i > acc.len
    <3>1. new.name = acc.name /\ new.len = acc.len /\ new.array = acc.array
      <4>1. new = acc \/ new = [acc EXCEPT !.panic = TRUE]
        BY <2>1, <2>4 DEF RemoveEntry
      <4> QED
        BY <2>1, <4>1 DEF Removals
    <3> QED
      BY <2>2, <2>3, <3>1 DEF new
  <2>5. CASE ~acc.panic /\ acc.array[i] = acc.name /\ ~(i > acc.len)
    <3>1. new.name = c /\ new.len = acc.len - 1
          /\ new.array = [j \in DOMAIN acc.array |->
                IF j \in i .. acc.len - 1 THEN acc.array[j + 1] ELSE acc.array[j]]
      BY <2>1, <2>2, <2>5 DEF RemoveEntry, Removals
    <3>2. CASE p < i
      <4>1. p \in 1 .. new.len /\ p \in 1 .. N /\ p \notin i .. acc.len - 1
        BY <1>2, <2>1, <2>2, <2>5, <3>1, <3>2
      <4> QED
        BY <2>2, <2>3, <3>1, <4>1 DEF i, new
    <3>3. CASE p > i
      <4>1. /\ p - 1 \in 1 .. new.len /\ p - 1 \in 1 .. N /\ p - 1 \in i .. acc.len - 1
            /\ p - 1 + 1 = p
        BY <1>2, <2>1, <2>2, <2>5, <3>1, <3>3
      <4>2. new.array[p - 1] = d
        BY <2>2, <2>3, <3>1, <4>1
      <4> QED
        BY <3>1, <4>1, <4>2 DEF i, new
    <3>4. p # i
      BY <2>2, <2>3, <2>5
    <3> QED
      BY <1>2, <2>1, <2>2, <3>2, <3>3, <3>4
  <2> QED
    BY <2>4, <2>5 DEF new
<1>5. Holds(f[N])
  <2> HIDE DEF Holds
  <2>1. N \in S
    <3> HIDE DEF S
    <3> QED
      BY <1>2, <1>3, <1>4, SetInduction
  <2> QED
    BY <1>2, <2>1
<1> QED
  BY <1>1, <1>5, RemovedFromFacts, SMTT(30)

\* A name that is listed once is gone from the list, the range does not panic,
\* and what is left is still listed once.
LEMMA RemovalDrops ==
    ASSUME NEW c \in Child, specs \in Seq(Child), ListedOnce
    PROVE  /\ ~Removal(c).panic
           /\ \A i \in 1 .. Len(RemovedFrom(c)) : RemovedFrom(c)[i] # c /\ Listed(RemovedFrom(c)[i])
           /\ \A i, j \in 1 .. Len(RemovedFrom(c)) : RemovedFrom(c)[i] = RemovedFrom(c)[j] => i = j
<1>1. PICK f \in [0 .. Len(specs) -> Removals] :
         /\ f[0] = RemovalStart(c)
         /\ \A i \in 1 .. Len(specs) : f[i] = RemoveEntry(f[i - 1], i)
         /\ Removal(c) = f[Len(specs)]
  BY RemovalTurns
<1> DEFINE N == Len(specs)
           Without(k) == [j \in 1 .. N |-> IF j \in k .. N - 1 THEN specs[j + 1] ELSE specs[j]]
           Before(acc, n) == /\ acc = RemovalStart(c)
                             /\ \A j \in 1 .. n : specs[j] # c
           After(acc, n) == /\ acc.name = c /\ ~acc.panic /\ acc.len = N - 1
                            /\ \E k \in 1 .. n : specs[k] = c /\ acc.array = Without(k)
           S == {n \in Nat : n <= N => Before(f[n], n) \/ After(f[n], n)}
<1>2. N \in Nat /\ specs \in [1 .. N -> Child]
  OBVIOUS
<1>3. 0 \in S
  BY <1>1
<1>4. ASSUME NEW n \in Nat, n \in S
      PROVE  n + 1 \in S
  <2> SUFFICES ASSUME n + 1 <= N
               PROVE  Before(f[n + 1], n + 1) \/ After(f[n + 1], n + 1)
    <3> HIDE DEF Before, After
    <3> QED
      OBVIOUS
  <2> DEFINE acc == f[n]
             i == n + 1
             new == f[n + 1]
  <2>1. i \in 1 .. N /\ acc \in Removals /\ new = RemoveEntry(acc, i)
    BY <1>1, <1>2
  <2>2. Before(acc, n) \/ After(acc, n)
    <3> HIDE DEF Before, After
    <3> QED
      BY <1>2, <1>4
  <2> HIDE DEF acc, new
  <2>3. ASSUME Before(acc, n) PROVE Before(new, i) \/ After(new, i)
    <3>1. CASE specs[i] # c
      <4>1. new = acc
        BY <2>1, <2>3, <3>1 DEF RemoveEntry, RemovalStart
      <4> QED
        BY <1>2, <2>3, <3>1, <4>1
    <3>2. CASE specs[i] = c
      <4>1. new.name = c /\ ~new.panic /\ new.len = N - 1 /\ new.array = Without(i)
        BY <1>2, <2>1, <2>3, <3>2 DEF RemoveEntry, RemovalStart
      <4> QED
        <5>1. i \in 1 .. i
          BY <1>2, <2>1
        <5> HIDE DEF Without, i
        <5> QED
          BY <3>2, <4>1, <5>1
    <3> QED
      BY <3>1, <3>2
  <2>4. ASSUME After(acc, n) PROVE After(new, i)
    <3>1. PICK k \in 1 .. n : specs[k] = c /\ acc.array = Without(k)
      BY <2>4
    <3>2. acc.array[i] # c
      <4>1. k \in 1 .. N /\ k < i
        BY <2>1
      <4>2. CASE i < N
        <5>1. i \in k .. N - 1 /\ i + 1 \in 1 .. N /\ i + 1 # k
          BY <1>2, <2>1, <4>1, <4>2
        <5>2. acc.array[i] = specs[i + 1]
          BY <2>1, <3>1, <5>1
        <5> QED
          BY <3>1, <4>1, <5>1, <5>2 DEF ListedOnce
      <4>3. CASE i = N
        <5>1. i \notin k .. N - 1
          BY <1>2, <4>3
        <5>2. acc.array[i] = specs[i]
          BY <2>1, <3>1, <5>1
        <5> QED
          BY <2>1, <3>1, <4>1, <5>2 DEF ListedOnce
      <4> QED
        BY <2>1, <4>2, <4>3
    <3>3. new = acc
      BY <2>1, <2>4, <3>2 DEF RemoveEntry
    <3> QED
      <4>1. k \in 1 .. i
        BY <1>2
      <4>2. acc.name = c /\ ~acc.panic /\ acc.len = N - 1
        BY <2>4
      <4> HIDE DEF Without, i
      <4> QED
        BY <3>1, <3>3, <4>1, <4>2
  <2>5. Before(new, i) \/ After(new, i)
    BY <2>2, <2>3, <2>4
  <2> QED
    BY <2>5 DEF new
<1>5. Before(Removal(c), N) \/ After(Removal(c), N)
  <2> HIDE DEF Before, After
  <2>1. N \in S
    <3> HIDE DEF S
    <3> QED
      BY <1>2, <1>3, <1>4, SetInduction
  <2> QED
    BY <1>1, <1>2, <2>1
<1> DEFINE new == RemovedFrom(c)
<1>6. CASE Before(Removal(c), N)
  <2>1. Len(new) = N /\ \A i \in 1 .. N : new[i] = specs[i] /\ specs[i] # c
    BY <1>2, <1>6, RemovedFromFacts DEF RemovalStart
  <2>2. ~Removal(c).panic
    BY <1>6 DEF RemovalStart
  <2> HIDE DEF new
  <2>3. \A i \in 1 .. Len(new) : new[i] # c /\ Listed(new[i])
    BY <2>1 DEF Listed
  <2>4. \A i, j \in 1 .. Len(new) : new[i] = new[j] => i = j
    BY <2>1 DEF ListedOnce
  <2> QED
    BY <2>2, <2>3, <2>4 DEF new
<1>7. CASE After(Removal(c), N)
  <2>1. PICK k \in 1 .. N : specs[k] = c /\ Removal(c).array = Without(k)
    BY <1>7
  <2> DEFINE from(i) == IF i < k THEN i ELSE i + 1
  <2>a. /\ Removal(c) \in Removals /\ Len(new) = Removal(c).len
        /\ \A i \in 1 .. Removal(c).len : new[i] = Removal(c).array[i]
    BY RemovedFromFacts
  <2> HIDE DEF new
  <2>2. Len(new) = N - 1 /\ N - 1 \in Nat
    BY <1>2, <1>7, <2>a DEF Removals
  <2>3. \A i \in 1 .. Len(new) : from(i) \in 1 .. N /\ from(i) # k /\ new[i] = specs[from(i)]
    <3> SUFFICES ASSUME NEW i \in 1 .. Len(new)
                 PROVE  from(i) \in 1 .. N /\ from(i) # k /\ new[i] = specs[from(i)]
      OBVIOUS
    <3>1. i \in 1 .. N /\ i < N /\ new[i] = Without(k)[i]
      <4>1. i \in 1 .. Removal(c).len /\ i \in 1 .. N /\ i < N
        BY <1>2, <2>2, <2>a
      <4> HIDE DEF Without
      <4> QED
        BY <2>1, <2>a, <4>1
    <3>2. CASE i < k
      BY <1>2, <3>1, <3>2
    <3>3. CASE ~(i < k)
      BY <1>2, <3>1, <3>3
    <3> QED
      BY <3>2, <3>3
  <2> HIDE DEF from
  <2>4. \A i \in 1 .. Len(new) : new[i] # c /\ Listed(new[i])
    BY <2>1, <2>3 DEF Listed, ListedOnce
  <2>5. \A i, j \in 1 .. Len(new) : new[i] = new[j] => i = j
    <3> SUFFICES ASSUME NEW i \in 1 .. Len(new), NEW j \in 1 .. Len(new), new[i] = new[j]
                 PROVE  i = j
      OBVIOUS
    <3>1. from(i) = from(j)
      BY <2>3 DEF ListedOnce
    <3> USE DEF from
    <3> QED
      BY <2>2, <3>1
  <2> QED
    BY <1>7, <2>4, <2>5 DEF new
<1> QED
  BY <1>5, <1>6, <1>7

-----------------------------------------------------------------------------
(* Type correctness.                                                       *)

Serving == {"spawn", "discard", "cancel"}

\* What TypeOK says of the variables other than pc.
Ranges ==
    /\ specs \in Seq(Child)
    /\ strategy \in Strategies
    /\ todo \in Seq(Child)
    /\ waiting \in Goroutine \cup {None}
    /\ source \in Child \cup {None}
    /\ erred \in BOOLEAN
    /\ children \in [Child -> Goroutine \cup {None}]
    /\ phase \in [Goroutine -> Phase]
    /\ owner \in [Goroutine -> Child \cup {None}]
    /\ restartCount \in 0 .. MaxRestartCount
    /\ ctxDone \in BOOLEAN
    /\ resources \in {"none", "allocated", "released"}
    /\ outcome \in {"ok", "crashed", "startFailed"}
    /\ reported \in [Child -> Event]

\* The supervisor is in its loop, or on its way to a restart, with nothing to
\* start or stop; processMsg is about one child, and has room to list it.
Place ==
    /\ pc \in Location \cup Serving
    /\ pc \in {"loop", "tolerance", "backoff"} => todo = << >>
    /\ pc \in Serving => Len(todo) = 1
    /\ pc \notin Serving => serving = None
    /\ pc \in {"spawn", "cancel"} => waiting \in Goroutine
    /\ pc = "discard" => waiting = None
    /\ pc = "spawn" => Len(specs) < MaxSpecs
    /\ Len(specs) <= MaxSpecs
    /\ WaitingKnown \/ pc \in Serving

ClientsTyped ==
    /\ client \in [Client -> [at : {"idle", "sending", "awaiting", "panicked"},
                              op : {"spawn", "terminate"},
                              name : Child \cup {None},
                              answer : {"none", "ok", "error"}]]
    /\ serving \in Client \cup {None}
    /\ ctrl \in {"open", "sending", "closed", "gone"}
    /\ ctrl # "open" => pc = "dead"
    /\ intact \in BOOLEAN

\* A client with a call under way, or with a callback, has a name.
ClientKnown ==
    \A k \in Client :
        (client[k].at \in {"sending", "awaiting"} \/ client[k].op = "terminate") =>
            client[k].name \in Child

DynTypeInv == Ranges /\ OwnerKnown /\ SourceKnown /\ Place /\ ClientsTyped /\ ClientKnown

-----------------------------------------------------------------------------
(* The steps of a dynamic supervisor, in groups.                           *)

\* While a message is processed, a step of the supervisor it extends is one of
\* the environment: a client function returns, or Terminate is called.
LEMMA AwayStep ==
    ASSUME pc \in Serving, Next
    PROVE  /\ UNCHANGED <<specs, strategy, pc, todo, waiting, source, erred, children, owner,
                          restartCount, resources, outcome, reported>>
           /\ UNCHANGED ctxDone \/ ctxDone' = TRUE
           /\ \/ UNCHANGED phase
              \/ \E g \in Goroutine : \E p \in {"failing", "completing"} :
                    /\ phase[g] \in {"starting", "running", "stopping"}
                    /\ phase[g] = "starting" => waiting = g
                    /\ phase' = [phase EXCEPT ![g] = p]
<1> USE DEF Serving, specVars, supVars, childVars
<1>1. ~Local /\ ~Shutdown /\ ~BackoffCancelled
  BY DEF Local, BuildNodes, BuildNodesFails, SpawnChild, AllStarted, SkipChild, CancelChild,
     AllStopped, Cleanup, CheckTolerance, RestartUncounted, BackoffElapses, Shutdown,
     BackoffCancelled, Starting, Stopping
<1>2. \A g \in Goroutine :
         /\ ~StartSucceeds(g) /\ ~StartFails(g) /\ ~ChildStopped(g) /\ ~ChildAlreadyGone(g)
         /\ ~ShutdownTimesOut(g) /\ ~Receive(g) /\ ~PanicUnknownChild(g)
  BY DEF StartSucceeds, StartFails, ChildStopped, ChildAlreadyGone, ShutdownTimesOut, Receive,
     PanicUnknownChild, Starting, Stopping
<1>3. CASE Terminate
  BY <1>3 DEF Terminate
<1>4. CASE Over
  BY <1>4 DEF Over, vars
<1>5. ASSUME NEW g \in Goroutine, ReturnsWithoutNotify(g) \/ Ends(g) \/ HonorsCancel(g)
      PROVE  /\ UNCHANGED <<specs, strategy, pc, todo, waiting, source, erred, children, owner,
                            restartCount, resources, outcome, reported, ctxDone>>
             /\ \E p \in {"failing", "completing"} :
                    /\ phase[g] \in {"starting", "running", "stopping"}
                    /\ phase[g] = "starting" => waiting = g
                    /\ phase' = [phase EXCEPT ![g] = p]
  BY <1>5 DEF ReturnsWithoutNotify, Ends, HonorsCancel, ReturnsFrom
<1> QED
  BY <1>1, <1>2, <1>3, <1>4, <1>5 DEF Next

\* A step of the supervisor it extends leaves "build" for good, and reaches the
\* loop and the restart loop with nothing left to do.
LEMMA HomeStep ==
    ASSUME pc \in Location, Next, Place
    PROVE  pc' \in {"loop", "tolerance", "backoff"} => todo' = << >>
<1> USE DEF Place, specVars, supVars, childVars, Starting, Stopping
<1>1. CASE Local
  BY <1>1
  DEF Local, BuildNodes, BuildNodesFails, SpawnChild, AllStarted, SkipChild, CancelChild,
      AllStopped, Cleanup, CheckTolerance, RestartUncounted, BackoffElapses, GiveUp,
      WaitThenRestart, BeginRestart
<1>2. CASE Shutdown \/ BackoffCancelled \/ Terminate \/ Over
  BY <1>2 DEF Shutdown, BackoffCancelled, Terminate, Over, vars
<1>3. ASSUME NEW g \in Goroutine,
             \/ StartSucceeds(g) \/ StartFails(g) \/ ReturnsWithoutNotify(g)
             \/ Ends(g) \/ HonorsCancel(g)
      PROVE  pc' \in {"loop", "tolerance", "backoff"} => todo' = << >>
  BY <1>3
  DEF StartSucceeds, StartFails, AbortStart, ReturnsWithoutNotify, Ends, HonorsCancel, ReturnsFrom
<1>4. ASSUME NEW g \in Goroutine,
             \/ ChildStopped(g) \/ ChildAlreadyGone(g) \/ ShutdownTimesOut(g)
             \/ Receive(g) \/ PanicUnknownChild(g)
      PROVE  pc' \in {"loop", "tolerance", "backoff"} => todo' = << >>
  BY <1>4
  DEF ChildStopped, ChildAlreadyGone, ShutdownTimesOut, Receive, PanicUnknownChild, EnterRestartLoop
<1> QED
  BY <1>1, <1>2, <1>3, <1>4 DEF Next

\* What the clients do, and the end of the goroutine: nothing the supervisor
\* keeps in its loop changes.
ClientActs ==
    \/ CloseControl \/ ErrorTaken \/ CloseTerminate
    \/ \E k \in Client :
          \/ \E c \in Child : BeginSpawn(k, c)
          \/ SpawnRefused(k) \/ BeginTerminate(k)
          \/ SendOnClosed(k) \/ SendTimesOut(k) \/ AwaitTimesOut(k) \/ GetAnswer(k)
          \/ ServeUnknown(k)

\* They leave the supervisor alone.
LEMMA ClientActsLocal == ClientActs => UNCHANGED vars
  BY DEF ClientActs, CloseControl, ErrorTaken, CloseTerminate, BeginSpawn, SpawnRefused,
     BeginTerminate, SendOnClosed, SendTimesOut, AwaitTimesOut, GetAnswer, ServeUnknown, staticVars

-----------------------------------------------------------------------------
(* Every step keeps the types.                                             *)

\* The calls of a client stay well formed.
LEMMA ClientActsTyped ==
    ASSUME ClientsTyped, ClientKnown, ClientActs, Place
    PROVE  ClientsTyped' /\ ClientKnown' /\ (serving = None => serving' = None)
<1> USE DEF ClientsTyped, ClientKnown
<1>0. UNCHANGED vars
  BY ClientActsLocal
<1>1. CASE CloseControl \/ ErrorTaken \/ CloseTerminate
  BY <1>0, <1>1 DEF CloseControl, ErrorTaken, CloseTerminate, clientVars, vars, supVars
<1>2. ASSUME NEW k \in Client, NEW c \in Child, BeginSpawn(k, c)
      PROVE  ClientsTyped' /\ ClientKnown' /\ (serving = None => serving' = None)
  BY <1>0, <1>2 DEF BeginSpawn, Unserved, vars, supVars
<1>3. ASSUME NEW k \in Client, SpawnRefused(k)
      PROVE  ClientsTyped' /\ ClientKnown' /\ (serving = None => serving' = None)
  BY <1>0, <1>3 DEF SpawnRefused, clientVars, vars, supVars
<1>4. ASSUME NEW k \in Client, BeginTerminate(k)
      PROVE  ClientsTyped' /\ ClientKnown' /\ (serving = None => serving' = None)
  BY <1>0, <1>4 DEF BeginTerminate, vars, supVars
<1>5. ASSUME NEW k \in Client, SendOnClosed(k)
      PROVE  ClientsTyped' /\ ClientKnown' /\ (serving = None => serving' = None)
  BY <1>0, <1>5 DEF SendOnClosed, HangUp, Idle, vars, supVars
<1>6. ASSUME NEW k \in Client, SendTimesOut(k)
      PROVE  ClientsTyped' /\ ClientKnown' /\ (serving = None => serving' = None)
  BY <1>0, <1>6 DEF SendTimesOut, HangUp, Idle, vars, supVars
<1>7. ASSUME NEW k \in Client, AwaitTimesOut(k)
      PROVE  ClientsTyped' /\ ClientKnown' /\ (serving = None => serving' = None)
  BY <1>0, <1>7 DEF AwaitTimesOut, HangUp, Idle, Unserved, vars, supVars
<1>8. ASSUME NEW k \in Client, GetAnswer(k)
      PROVE  ClientsTyped' /\ ClientKnown' /\ (serving = None => serving' = None)
  BY <1>0, <1>8, ZenonT(60) DEF GetAnswer, HangUp, Idle, vars, supVars
<1>9. ASSUME NEW k \in Client, ServeUnknown(k)
      PROVE  ClientsTyped' /\ ClientKnown' /\ (serving = None => serving' = None)
  BY <1>0, <1>9 DEF ServeUnknown, NotFound, Put, vars, supVars
<1> QED
  BY <1>1, <1>2, <1>3, <1>4, <1>5, <1>6, <1>7, <1>8, <1>9 DEF ClientActs

\* An answer changes nothing else of a client.
LEMMA AnswerTyped ==
    ASSUME ClientsTyped, ClientKnown, NEW a \in {"ok", "error"}, Answer(a)
    PROVE  /\ client' \in [Client -> [at : {"idle", "sending", "awaiting", "panicked"},
                                      op : {"spawn", "terminate"},
                                      name : Child \cup {None},
                                      answer : {"none", "ok", "error"}]]
           /\ \A k \in Client : /\ client'[k].at = client[k].at
                                /\ client'[k].op = client[k].op
                                /\ client'[k].name = client[k].name
           /\ ClientKnown'
<1>1. CASE UNCHANGED client
  BY <1>1 DEF ClientsTyped, ClientKnown
<1>2. CASE serving \in Client /\ client' = Put(serving, a)
  BY <1>2 DEF ClientsTyped, ClientKnown, Put
<1> QED
  BY <1>1, <1>2 DEF Answer, ClientsTyped

\* A message is taken from a client with a name.
LEMMA TakeTyped ==
    ASSUME DynTypeInv, NEW k \in Client, NEW p \in Serving, Take(k, p)
    PROVE  /\ client[k].name \in Child /\ todo' = <<client[k].name>>
           /\ client' = [client EXCEPT ![k].at = "awaiting"]
           /\ ClientsTyped' /\ ClientKnown' /\ pc' = p /\ pc = "loop" /\ ctrl = "open"
           /\ UNCHANGED <<specs, strategy, source, erred, children, restartCount, ctxDone,
                          resources, outcome, reported, ctrl, intact>>
  BY DEF DynTypeInv, ClientsTyped, ClientKnown, Take, specVars, Serving

\* The message of a Spawn, and of a callback.
LEMMA ServeSpawnTyped ==
    ASSUME DynTypeInv, NEW k \in Client, ServeSpawn(k)
    PROVE  DynTypeInv'
<1>1. Take(k, "spawn")
  BY DEF ServeSpawn
<1>2. /\ client[k].name \in Child /\ todo' = <<client[k].name>>
      /\ ClientsTyped' /\ ClientKnown' /\ pc' = "spawn"
      /\ UNCHANGED <<specs, strategy, source, erred, children, restartCount, ctxDone,
                     resources, outcome, reported>>
  BY <1>1, TakeTyped DEF Serving
<1>3. /\ waiting' \in Goroutine
      /\ phase' = [phase EXCEPT ![waiting'] = "starting"]
      /\ owner' = [owner EXCEPT ![waiting'] = client[k].name]
      /\ Len(specs) < MaxSpecs
  BY DEF ServeSpawn, FreeGoroutines
<1>4. Ranges' /\ OwnerKnown'
  BY <1>2, <1>3 DEF DynTypeInv, Ranges, OwnerKnown, Phase
<1>5. SourceKnown' /\ Place'
  BY <1>2, <1>3 DEF DynTypeInv, SourceKnown, Restarting, Place, Serving, Location, Ranges
<1> QED
  BY <1>2, <1>4, <1>5 DEF DynTypeInv

\* The child in the map under the name exists, or did once.
LEMMA ServeTerminateTyped ==
    ASSUME DynTypeInv, NEW k \in Client, ServeTerminate(k)
    PROVE  DynTypeInv'
<1>1. Take(k, "cancel")
  BY DEF ServeTerminate
<1>2. /\ client[k].name \in Child /\ todo' = <<client[k].name>>
      /\ ClientsTyped' /\ ClientKnown' /\ pc' = "cancel"
      /\ UNCHANGED <<specs, strategy, source, erred, children, restartCount, ctxDone,
                     resources, outcome, reported>>
  BY <1>1, TakeTyped DEF Serving
<1>3. /\ waiting' \in Goroutine
      /\ phase' = [phase EXCEPT ![waiting'] = IF @ = "running" THEN "stopping" ELSE @]
      /\ UNCHANGED owner
  BY <1>2 DEF ServeTerminate, DynTypeInv, Ranges
<1>4. Ranges' /\ OwnerKnown'
  BY <1>2, <1>3 DEF DynTypeInv, Ranges, OwnerKnown, Phase
<1>5. SourceKnown' /\ Place'
  BY <1>2, <1>3 DEF DynTypeInv, SourceKnown, Restarting, Place, Serving, Location, Ranges
<1> QED
  BY <1>2, <1>4, <1>5 DEF DynTypeInv

\* The list grows by one name, and there was room for it.
LEMMA SpawnSucceedsTyped ==
    ASSUME DynTypeInv, NEW g \in Goroutine, SpawnSucceeds(g)
    PROVE  DynTypeInv'
<1>1. /\ pc = "spawn" /\ phase[g] = "starting" /\ owner[g] \in Child
      /\ pc' = "loop" /\ todo' = << >> /\ waiting' = None /\ serving' = None
      /\ phase' = [phase EXCEPT ![g] = "running"]
      /\ specs' = Append(specs, owner[g])
      /\ children' = [children EXCEPT ![owner[g]] = g]
      /\ reported' = [reported EXCEPT ![owner[g]] = "Started"]
      /\ Answer("ok")
      /\ UNCHANGED <<strategy, source, erred, owner, restartCount, ctxDone, resources, outcome,
                     ctrl, intact>>
  BY DEF SpawnSucceeds, SpecsWith, RecordStart, Report, GoOn, DynTypeInv, OwnerKnown
<1>2. specs' \in Seq(Child) /\ Len(specs') = Len(specs) + 1
  BY <1>1 DEF DynTypeInv, Ranges
<1>3. Ranges' /\ OwnerKnown'
  BY <1>1, <1>2 DEF DynTypeInv, Ranges, OwnerKnown, Phase, Event
<1>4. SourceKnown' /\ Place'
  BY <1>1, <1>2, DynAssumption
  DEF DynTypeInv, SourceKnown, Restarting, Place, Serving, Location, WaitingKnown, Ranges
<1>5. ClientsTyped' /\ ClientKnown'
  BY <1>1, AnswerTyped DEF DynTypeInv, ClientsTyped
<1> QED
  BY <1>3, <1>4, <1>5 DEF DynTypeInv

\* The message is still about the same child.
LEMMA SpawnFailsTyped ==
    ASSUME DynTypeInv, NEW g \in Goroutine, SpawnFails(g)
    PROVE  DynTypeInv'
<1>1. /\ pc = "spawn" /\ phase[g] = "starting" /\ owner[g] \in Child
      /\ pc' = "discard" /\ waiting' = None
      /\ \E p \in {"failing", "completing"} : phase' = [phase EXCEPT ![g] = p]
      /\ reported' = [reported EXCEPT ![owner[g]] = "StartFailed"]
      /\ UNCHANGED <<specs, strategy, todo, source, erred, children, owner, restartCount,
                     ctxDone, resources, outcome, client, serving, ctrl, intact>>
  BY DEF SpawnFails, AfterFailedSpawn, Report, DynTypeInv, OwnerKnown, specVars, dynVars
<1>2. Ranges' /\ OwnerKnown'
  BY <1>1 DEF DynTypeInv, Ranges, OwnerKnown, Phase, Event
<1>3. SourceKnown' /\ Place'
  BY <1>1 DEF DynTypeInv, SourceKnown, Restarting, Place, Serving, Location, WaitingKnown
<1>4. ClientsTyped' /\ ClientKnown'
  BY <1>1 DEF DynTypeInv, ClientsTyped, ClientKnown
<1> QED
  BY <1>2, <1>3, <1>4 DEF DynTypeInv

\* The loop goes on with no message in hand.
LEMMA DiscardTyped ==
    ASSUME DynTypeInv, NEW g \in Goroutine, Discard(g)
    PROVE  DynTypeInv'
<1>1. /\ pc = "discard" /\ pc' = "loop" /\ todo' = << >> /\ waiting' = None /\ serving' = None
      /\ phase' = [phase EXCEPT ![g] = "free"]
      /\ owner' = [owner EXCEPT ![g] = None]
      /\ Answer("error")
      /\ intact' \in BOOLEAN
      /\ UNCHANGED <<specs, strategy, source, erred, children, restartCount, ctxDone, resources,
                     outcome, reported, ctrl>>
  BY DEF Discard, Exit, GoOn, DynTypeInv, ClientsTyped
<1>2. Ranges' /\ OwnerKnown'
  BY <1>1 DEF DynTypeInv, Ranges, OwnerKnown, Phase
<1>3. SourceKnown' /\ Place'
  BY <1>1 DEF DynTypeInv, SourceKnown, Restarting, Place, Serving, Location, WaitingKnown
<1>4. ClientsTyped' /\ ClientKnown'
  BY <1>1, AnswerTyped DEF DynTypeInv, ClientsTyped
<1> QED
  BY <1>2, <1>3, <1>4 DEF DynTypeInv

\* A list of one child has a head.
LEMMA HeadOfOne ==
    ASSUME NEW s \in Seq(Child), Len(s) = 1
    PROVE  Head(s) \in Child /\ Head(s) = s[1]
  OBVIOUS

\* What CancelFinished does in each of its three cases.
LEMMA CancelFinishedEffect ==
    ASSUME DynTypeInv, NEW g \in Goroutine, CancelFinished(g)
    PROVE  /\ pc = "cancel" /\ waiting = g /\ Head(todo) \in Child
           /\ waiting' = None /\ todo' = << >> /\ serving' = None
           /\ pc' = IF Removal(Head(todo)).panic THEN "panicked" ELSE "loop"
           /\ specs' = RemovedFrom(Head(todo))
           /\ children' = IF Listed(Head(todo)) THEN [children EXCEPT ![Head(todo)] = None]
                          ELSE children
           /\ UNCHANGED <<strategy, source, erred, restartCount, ctxDone, resources, outcome,
                          ctrl, intact>>
           /\ \/ /\ phase' = [phase EXCEPT ![g] = "free"]
                 /\ owner' = [owner EXCEPT ![g] = None]
              \/ UNCHANGED <<phase, owner>> /\ (phase[g] = "free" \/ HasShutdownTimeout(Head(todo)))
           /\ \/ UNCHANGED reported
              \/ \E e \in {"Failed", "Terminated"} :
                    reported' = [reported EXCEPT ![Head(todo)] = e]
           /\ \E a \in {"ok", "error"} : Answer(a)
<1>1. Head(todo) \in Child
  <2>1. pc = "cancel"
    BY DEF CancelFinished
  <2> QED
    BY <2>1, HeadOfOne DEF DynTypeInv, Ranges, Place, Serving
<1>2. /\ pc = "cancel" /\ waiting = g
      /\ specs' = RemovedFrom(Head(todo))
      /\ GoOn(IF Removal(Head(todo)).panic THEN "panicked" ELSE "loop")
      /\ children' = IF Listed(Head(todo)) THEN [children EXCEPT ![Head(todo)] = None]
                     ELSE children
      /\ UNCHANGED intact
  BY DEF CancelFinished, RemovedFrom
<1>3. CASE /\ Pending(g)
           /\ Exit(g)
           /\ Report(Head(todo), IF phase[g] = "failing" THEN "Failed" ELSE "Terminated")
           /\ Answer(IF phase[g] = "failing" THEN "error" ELSE "ok")
  BY <1>1, <1>2, <1>3 DEF GoOn, Exit, Report
<1>4. CASE /\ phase[g] = "free"
           /\ Answer("ok")
           /\ UNCHANGED <<phase, owner, reported>>
  BY <1>1, <1>2, <1>4 DEF GoOn
<1>5. CASE /\ phase[g] # "free" /\ HasShutdownTimeout(Head(todo))
           /\ LeaveBehind(g, phase[g])
           /\ Report(Head(todo), "Failed")
           /\ Answer("error")
  <2>1. \/ /\ phase' = [phase EXCEPT ![g] = "free"]
           /\ owner' = [owner EXCEPT ![g] = None]
        \/ UNCHANGED <<phase, owner>>
    BY <1>5 DEF LeaveBehind, DynTypeInv, Ranges
  <2> QED
    BY <1>1, <1>2, <1>5, <2>1 DEF GoOn, Report
<1> QED
  BY <1>3, <1>4, <1>5 DEF CancelFinished

\* The list shrinks, and stays a list of children.
LEMMA CancelFinishedTyped ==
    ASSUME DynTypeInv, NEW g \in Goroutine, CancelFinished(g)
    PROVE  DynTypeInv'
<1>1. /\ Head(todo) \in Child /\ specs \in Seq(Child) /\ Len(specs) <= MaxSpecs
      /\ phase \in [Goroutine -> Phase]
      /\ owner \in [Goroutine -> Child \cup {None}]
  BY CancelFinishedEffect DEF DynTypeInv, Ranges, Place
<1>2. specs' \in Seq(Child) /\ Len(specs') <= MaxSpecs
  BY <1>1, CancelFinishedEffect, RemovedFromFacts, DynAssumption DEF Removals
<1>3. Ranges' /\ OwnerKnown'
  <2>1. /\ phase' \in [Goroutine -> Phase]
        /\ owner' \in [Goroutine -> Child \cup {None}]
        /\ OwnerKnown'
    BY <1>1, CancelFinishedEffect DEF DynTypeInv, OwnerKnown, Phase
  <2>2. reported' \in [Child -> Event]
    BY <1>1, CancelFinishedEffect DEF DynTypeInv, Ranges, Event
  <2>3. children' \in [Child -> Goroutine \cup {None}]
    BY <1>1, CancelFinishedEffect DEF DynTypeInv, Ranges
  <2>4. /\ waiting' = None /\ todo' = << >>
        /\ UNCHANGED <<strategy, source, erred, restartCount, ctxDone, resources, outcome>>
    BY CancelFinishedEffect
  <2> QED
    BY <1>2, <2>1, <2>2, <2>3, <2>4 DEF DynTypeInv, Ranges
<1>4. SourceKnown' /\ Place'
  BY <1>2, CancelFinishedEffect
  DEF DynTypeInv, SourceKnown, Restarting, Place, Serving, Location, Ended, WaitingKnown
<1>5. PICK a \in {"ok", "error"} : Answer(a)
  BY CancelFinishedEffect
<1>6. ClientsTyped' /\ ClientKnown'
  <2>1. UNCHANGED <<ctrl, intact>> /\ serving' = None /\ pc = "cancel"
    BY CancelFinishedEffect
  <2> QED
    BY <1>5, <2>1, AnswerTyped DEF DynTypeInv, ClientsTyped
<1> QED
  BY <1>3, <1>4, <1>6 DEF DynTypeInv

\* Outside processMsg, a dynamic supervisor is where the one it extends can be.
LEMMA AtHome == DynTypeInv /\ pc \in Location => Typed
  BY DEF Typed, TypeOK, DynTypeInv, Ranges, Place, Serving, Location, Starting, Stopping, Ended

\* A dead supervisor stays dead.
LEMMA DeadStays ==
    ASSUME pc = "dead", Next
    PROVE  pc' = "dead"
<1> USE DEF supVars, specVars, childVars
<1>1. ~Local /\ ~Shutdown /\ ~BackoffCancelled
  BY DEF Local, BuildNodes, BuildNodesFails, SpawnChild, AllStarted, SkipChild, CancelChild,
     AllStopped, Cleanup, CheckTolerance, RestartUncounted, BackoffElapses, Shutdown,
     BackoffCancelled, Starting, Stopping
<1> QED
  BY <1>1
  DEF Next, Terminate, Over, vars, StartSucceeds, StartFails, ReturnsWithoutNotify, Ends,
      HonorsCancel, ReturnsFrom, ChildStopped, ChildAlreadyGone, ShutdownTimesOut, Receive,
      PanicUnknownChild, Starting, Stopping

\* Every step keeps the types.
LEMMA DynTypeStep ==
    ASSUME DynTypeInv, [DynNext]_<<vars, dynVars>>
    PROVE  DynTypeInv'
<1>1. CASE Next /\ UNCHANGED dynVars /\ pc \in Location
  <2>0. ctrl # "open" => pc' = "dead"
    BY <1>1, DeadStays DEF DynTypeInv, ClientsTyped
  <2>1. Typed
    BY <1>1, AtHome
  <2>2. Typed'
    BY <1>1, <2>1, TypedStep
  <2>3. specs' = specs
    BY <1>1, SpecsUnchanged
  <2>4. pc' \in {"loop", "tolerance", "backoff"} => todo' = << >>
    BY <1>1, HomeStep DEF DynTypeInv
  <2>5. pc' \in Location
    BY <2>2 DEF Typed, TypeOK
  <2>6. Place'
    BY <1>1, <2>2, <2>3, <2>4, <2>5
    DEF DynTypeInv, Place, Typed, Serving, Location, Starting, Stopping, Ended, dynVars
  <2>7. ClientsTyped' /\ ClientKnown'
    BY <1>1, <2>0 DEF DynTypeInv, ClientsTyped, ClientKnown, dynVars
  <2>8. Ranges' /\ OwnerKnown' /\ SourceKnown'
    BY <2>2 DEF Typed, TypeOK, Ranges
  <2> QED
    BY <2>6, <2>7, <2>8 DEF DynTypeInv
<1>2. CASE Next /\ UNCHANGED dynVars /\ pc \in Serving
  <2>1. Ranges' /\ OwnerKnown'
    BY <1>2, AwayStep DEF DynTypeInv, Ranges, OwnerKnown, Phase
  <2>2. SourceKnown' /\ Place'
    BY <1>2, AwayStep DEF DynTypeInv, SourceKnown, Place, WaitingKnown, dynVars
  <2>3. ClientsTyped' /\ ClientKnown'
    BY <1>2, AwayStep DEF DynTypeInv, ClientsTyped, ClientKnown, dynVars
  <2> QED
    BY <2>1, <2>2, <2>3 DEF DynTypeInv
<1>3. CASE ClientActs \/ UNCHANGED <<vars, dynVars>>
  <2>1. UNCHANGED vars
    BY <1>3, ClientActsLocal
  <2>2. Ranges' /\ OwnerKnown' /\ SourceKnown'
    BY <2>1
    DEF vars, specVars, supVars, childVars, DynTypeInv, Ranges, OwnerKnown, SourceKnown
  <2>3. ClientsTyped' /\ ClientKnown' /\ (serving = None => serving' = None)
    <3>1. CASE ClientActs
      BY <3>1, ClientActsTyped DEF DynTypeInv
    <3>2. CASE UNCHANGED <<vars, dynVars>>
      BY <3>2 DEF DynTypeInv, ClientsTyped, ClientKnown, dynVars, vars, supVars
    <3> QED
      BY <1>3, <3>1, <3>2
  <2>4. Place'
    BY <2>1, <2>3 DEF vars, specVars, supVars, DynTypeInv, Place, WaitingKnown
  <2> QED
    BY <2>2, <2>3, <2>4 DEF DynTypeInv
<1>4. ASSUME NEW k \in Client, ServeSpawn(k) \/ ServeTerminate(k)
      PROVE  DynTypeInv'
  BY <1>4, ServeSpawnTyped, ServeTerminateTyped
<1>5. ASSUME NEW g \in Goroutine,
             SpawnSucceeds(g) \/ SpawnFails(g) \/ Discard(g) \/ CancelFinished(g)
      PROVE  DynTypeInv'
  BY <1>5, SpawnSucceedsTyped, SpawnFailsTyped, DiscardTyped, CancelFinishedTyped
<1>6. pc \in Location \cup Serving
  BY DEF DynTypeInv, Place
<1> QED
  BY <1>1, <1>2, <1>3, <1>4, <1>5, <1>6 DEF DynNext, ClientActs

\* It starts in its loop's ranges, with nothing in hand.
LEMMA DynTypeInit == DynInit => DynTypeInv
<1> SUFFICES ASSUME DynInit
             PROVE  DynTypeInv
  OBVIOUS
<1>1. Typed
  BY TypeInvInit DEF DynInit, TypeInv
<1>2. specs = << >> /\ pc = "build" /\ todo = << >> /\ waiting = None
  BY DynAssumption DEF DynInit, Init
<1>3. Ranges /\ OwnerKnown /\ SourceKnown
  BY <1>1 DEF Typed, TypeOK, Ranges
<1>4. Place
  BY <1>2, DynAssumption DEF Place, DynInit, WaitingKnown, Serving, Location
<1>5. ClientsTyped /\ ClientKnown
  BY DEF DynInit, Idle, ClientsTyped, ClientKnown
<1> QED
  BY <1>3, <1>4, <1>5 DEF DynTypeInv

\* Every variable of a dynamic supervisor stays in its range, whatever its
\* clients and its children do; it is in its loop with nothing left to start or
\* stop, and each message it processes is about one child.
THEOREM DynTypeCorrect == DynSpec => []DynTypeOK
<1>1. DynTypeInv => DynTypeOK
  BY DEF DynTypeInv, DynTypeOK, Ranges, Place, ClientsTyped, WaitingKnown, Serving, Location,
     Starting, Stopping
<1>2. DynInit => DynTypeInv
  BY DynTypeInit
<1>3. DynTypeInv /\ [DynNext]_<<vars, dynVars>> => DynTypeInv'
  BY DynTypeStep
<1> QED
  BY <1>1, <1>2, <1>3, PTL DEF DynSpec

-----------------------------------------------------------------------------
(* Only what is listed is in the map.                                      *)

\* Every step of a dynamic supervisor keeps to the list: a name enters the map
\* and the list together, and the loop that removes it keeps the others.
LEMMA ListedStep ==
    ASSUME DynTypeInv, ListInv, [DynNext]_<<vars, dynVars>>
    PROVE  ListInv'
<1> USE DEF ListInv, MapNames, StartsListed, Starting, Stopping, Restarting, Serving
<1>1. CASE Next /\ pc \in Location
  <2>1. Typed /\ specs \in Seq(Child)
    BY <1>1, AtHome DEF Typed, TypeOK
  <2> QED
    BY <1>1, <2>1, HomeListed
<1>2. CASE Next /\ pc \in Serving
  <2>1. UNCHANGED <<specs, pc, children>>
    BY <1>2, AwayStep
  <2> QED
    BY <1>2, <2>1 DEF Names
<1>3. CASE ClientActs \/ UNCHANGED vars
  BY <1>3, ClientActsLocal DEF vars, specVars, supVars, childVars, Names
<1>4. ASSUME NEW k \in Client, ServeSpawn(k) \/ ServeTerminate(k)
      PROVE  ListInv'
  <2>1. pc' \in Serving /\ UNCHANGED <<specs, children>>
    BY <1>4 DEF ServeSpawn, ServeTerminate, Take, specVars
  <2> QED
    BY <2>1 DEF Names
<1>5. ASSUME NEW g \in Goroutine, SpawnSucceeds(g)
      PROVE  ListInv'
  <2>1. /\ owner[g] \in Child /\ pc' = "loop" /\ specs' = Append(specs, owner[g])
        /\ children' = [children EXCEPT ![owner[g]] = g]
    BY <1>5 DEF SpawnSucceeds, SpecsWith, RecordStart, GoOn, DynTypeInv, OwnerKnown
  <2>2. specs \in Seq(Child) /\ children \in [Child -> Goroutine \cup {None}]
    BY DEF DynTypeInv, Ranges
  <2>3. Len(specs') = Len(specs) + 1 /\ specs'[Len(specs) + 1] = owner[g]
        /\ \A i \in 1 .. Len(specs) : specs'[i] = specs[i]
    BY <2>1, <2>2
  <2>4. Names \subseteq Names' /\ owner[g] \in Names'
    BY <2>2, <2>3 DEF Names
  <2> QED
    BY <2>1, <2>2, <2>4
<1>6. ASSUME NEW g \in Goroutine, SpawnFails(g)
      PROVE  ListInv'
  BY <1>6 DEF SpawnFails, AfterFailedSpawn, specVars, Names
<1>7. ASSUME NEW g \in Goroutine, Discard(g)
      PROVE  ListInv'
  BY <1>7 DEF Discard, GoOn, Names
<1>8. ASSUME NEW g \in Goroutine, CancelFinished(g)
      PROVE  ListInv'
  <2>1. /\ Head(todo) \in Child /\ pc' \in {"panicked", "loop"}
        /\ specs' = RemovedFrom(Head(todo))
        /\ children' = IF Listed(Head(todo)) THEN [children EXCEPT ![Head(todo)] = None]
                       ELSE children
    BY <1>8, CancelFinishedEffect
  <2>2. specs \in Seq(Child) /\ children \in [Child -> Goroutine \cup {None}]
    BY DEF DynTypeInv, Ranges
  <2>3. \A c \in Child : c # Head(todo) /\ c \in Names => c \in Names'
    BY <2>1, <2>2, RemovalKeepsOthers DEF Listed, Names
  <2>4. children'[Head(todo)] = None
    BY <2>1, <2>2 DEF Listed, Names
  <2>5. \A c \in Child : c # Head(todo) => children'[c] = children[c]
    BY <2>1, <2>2
  <2> QED
    BY <2>1, <2>3, <2>4, <2>5
<1>9. pc \in Location \cup Serving
  BY DEF DynTypeInv, Place
<1> QED
  BY <1>1, <1>2, <1>3, <1>4, <1>5, <1>6, <1>7, <1>8, <1>9 DEF DynNext, ClientActs, dynVars

\* Whatever the clients spawn, how often, and whatever fails: what is in the map
\* is listed, so that a shutdown and a OneForAll restart reach it.
THEOREM DynMapIsListed == DynSpec => []MapIsListed
<1>1. DynInit => DynTypeInv /\ ListInv
  <2>1. DynInit => ListInv
    BY DEF DynInit, Init, NoChildren, ListInv, MapNames, StartsListed, Restarting, Starting
  <2> QED
    BY <2>1, DynTypeInit
<1>2. DynTypeInv /\ ListInv /\ [DynNext]_<<vars, dynVars>> => (DynTypeInv /\ ListInv)'
  BY DynTypeStep, ListedStep
<1>3. ListInv => MapIsListed
  BY DEF ListInv, MapNames, MapIsListed, Names, Listed
<1> QED
  BY <1>1, <1>2, <1>3, PTL DEF DynSpec

-----------------------------------------------------------------------------
(* What the messages do, for the proofs that follow.                       *)

\* A Spawn is received: a goroutine that did not exist, under no name in the
\* map, is started for it.
LEMMA ServeSpawnEffect ==
    ASSUME DynTypeInv, NEW k \in Client, ServeSpawn(k)
    PROVE  /\ pc = "loop" /\ waiting = None /\ client[k].name \in Child
           /\ client[k].at = "sending" /\ client[k].op = "spawn"
           /\ pc' = "spawn" /\ todo' = <<client[k].name>>
           /\ waiting' \in Goroutine /\ phase[waiting'] = "free"
           /\ \A c \in Child : children[c] # waiting'
           /\ phase' = [phase EXCEPT ![waiting'] = "starting"]
           /\ owner' = [owner EXCEPT ![waiting'] = client[k].name]
           /\ client' = [client EXCEPT ![k].at = "awaiting"]
           /\ UNCHANGED <<specs, source, children, intact>>
<1>1. Take(k, "spawn")
  BY DEF ServeSpawn
<1>2. waiting' \in FreeGoroutines
  BY DEF ServeSpawn
<1>3. \A c \in Child : children[c] # waiting'
  BY <1>2, NoneIsFresh DEF FreeGoroutines, Tracked
<1> QED
  BY <1>1, <1>2, <1>3, TakeTyped
  DEF ServeSpawn, Take, Serving, FreeGoroutines, DynTypeInv, Place, WaitingKnown, Starting, Stopping

\* A termination is received: the goroutine in the map under the name is told
\* to stop.
LEMMA ServeTerminateEffect ==
    ASSUME DynTypeInv, NEW k \in Client, ServeTerminate(k)
    PROVE  /\ pc = "loop" /\ waiting = None /\ client[k].name \in Child
           /\ client[k].op = "terminate"
           /\ pc' = "cancel" /\ todo' = <<client[k].name>>
           /\ waiting' \in Goroutine /\ waiting' = children[client[k].name]
           /\ phase' = [phase EXCEPT ![waiting'] = IF @ = "running" THEN "stopping" ELSE @]
           /\ client' = [client EXCEPT ![k].at = "awaiting"]
           /\ UNCHANGED <<specs, source, children, owner, intact>>
<1>1. Take(k, "cancel")
  BY DEF ServeTerminate
<1> QED
  BY <1>1, TakeTyped
  DEF ServeTerminate, Take, Serving, DynTypeInv, Ranges, Place, WaitingKnown, Starting, Stopping

\* What happens to a message that was received, in the order it can happen.
LEMMA AnswersKeep ==
    ASSUME DynTypeInv, NEW a \in {"ok", "error"}, Answer(a)
    PROVE  \A k \in Client : /\ client'[k].at = client[k].at
                             /\ client'[k].op = client[k].op
                             /\ client'[k].name = client[k].name
  BY AnswerTyped DEF DynTypeInv

\* The child spawned is listed last and enters the map.
LEMMA SpawnSucceedsEffect ==
    ASSUME DynTypeInv, NEW g \in Goroutine, SpawnSucceeds(g)
    PROVE  /\ pc = "spawn" /\ waiting = g /\ phase[g] = "starting" /\ owner[g] \in Child
           /\ pc' = "loop" /\ todo' = << >> /\ waiting' = None
           /\ phase' = [phase EXCEPT ![g] = "running"]
           /\ specs' = Append(specs, owner[g])
           /\ children' = [children EXCEPT ![owner[g]] = g]
           /\ reported' = [reported EXCEPT ![owner[g]] = "Started"]
           /\ \A k \in Client : /\ client'[k].at = client[k].at
                                /\ client'[k].op = client[k].op
                                /\ client'[k].name = client[k].name
           /\ UNCHANGED <<source, owner, ctxDone, intact>>
  BY AnswersKeep
  DEF SpawnSucceeds, SpecsWith, RecordStart, Report, GoOn, DynTypeInv, OwnerKnown

\* The goroutine whose start failed offers its end.
LEMMA SpawnFailsEffect ==
    ASSUME DynTypeInv, NEW g \in Goroutine, SpawnFails(g)
    PROVE  /\ pc = "spawn" /\ waiting = g /\ phase[g] = "starting" /\ owner[g] \in Child
           /\ pc' = "discard" /\ waiting' = None
           /\ \E p \in {"failing", "completing"} : phase' = [phase EXCEPT ![g] = p]
           /\ reported' = [reported EXCEPT ![owner[g]] = "StartFailed"]
           /\ UNCHANGED <<specs, todo, source, children, owner, client, ctxDone, intact>>
  BY DEF SpawnFails, AfterFailedSpawn, Report, DynTypeInv, OwnerKnown, specVars, dynVars

\* The end of some goroutine is received in place of the failed start.
LEMMA DiscardEffect ==
    ASSUME DynTypeInv, NEW g \in Goroutine, Discard(g)
    PROVE  /\ pc = "discard" /\ Pending(g) /\ waiting = None
           /\ pc' = "loop" /\ todo' = << >> /\ waiting' = None
           /\ phase' = [phase EXCEPT ![g] = "free"]
           /\ owner' = [owner EXCEPT ![g] = None]
           /\ \A k \in Client : /\ client'[k].at = client[k].at
                                /\ client'[k].op = client[k].op
                                /\ client'[k].name = client[k].name
           /\ intact' = (intact /\ owner[g] = Head(todo) /\ children[owner[g]] # g)
           /\ UNCHANGED <<specs, source, children, reported, ctxDone>>
  BY AnswersKeep DEF Discard, Exit, GoOn, DynTypeInv, Place

-----------------------------------------------------------------------------
(* The goroutines of a dynamic supervisor whose restarts start reliably.   *)

\* As in SupervisorProofs, and in processMsg.
DynWaitingFor ==
    waiting # None =>
        \/ pc \in Starting \cup {"spawn"} /\ phase[waiting] # "free" /\ owner[waiting] = Head(todo)
        \/ pc \in Stopping \cup {"cancel"} /\ children[Head(todo)] = waiting
DynOnlyWaitedStart ==
    \A g \in Goroutine :
        phase[g] = "starting" => pc \in Starting \cup {"spawn"} /\ waiting = g
DynFrame == MapOwned /\ DynWaitingFor /\ DynOnlyWaitedStart /\ NoRollback

\* Every step keeps it, even if a name is spawned twice.
LEMMA DynFrameStep ==
    ASSUME ReliableStarts, DynTypeInv, DynFrame, [DynNext]_<<vars, dynVars>>
    PROVE  DynFrame'
<1> USE DEF DynFrame, MapOwned, DynWaitingFor, DynOnlyWaitedStart, NoRollback, EntryDone, Starting,
            Stopping, Serving
<1>0. /\ children \in [Child -> Goroutine \cup {None}]
      /\ phase \in [Goroutine -> Phase] /\ owner \in [Goroutine -> Child \cup {None}]
      /\ todo \in Seq(Child) /\ waiting \in Goroutine \cup {None}
      /\ OwnerKnown /\ None \notin Child /\ None \notin Goroutine
  BY NoneIsFresh DEF DynTypeInv, Ranges
<1>1. CASE Next /\ pc \in Location
  <2>1. Typed /\ Frame
    BY <1>1, AtHome DEF Frame, Books, WaitingFor, OnlyWaitedStart, Location, Ended
  <2>2. Frame'
    BY <1>1, <2>1, ReliableStartsSucceed, FrameStep
  <2> QED
    BY <2>2 DEF Frame, Books, WaitingFor, OnlyWaitedStart
<1>2. CASE Next /\ pc \in Serving
  <2>1. /\ UNCHANGED <<pc, todo, waiting, children, owner>>
        /\ \/ UNCHANGED phase
           \/ \E g \in Goroutine : \E p \in {"failing", "completing"} :
                 /\ phase[g] \in {"starting", "running", "stopping"}
                 /\ phase' = [phase EXCEPT ![g] = p]
    BY <1>2, AwayStep
  <2>2. \A g \in Goroutine : /\ phase'[g] = "free" <=> phase[g] = "free"
                             /\ phase'[g] = "starting" => phase[g] = "starting"
    BY <1>0, <2>1
  <2>3. MapOwned'
    BY <1>0, <2>1, <2>2
  <2>4. DynWaitingFor' /\ DynOnlyWaitedStart' /\ NoRollback'
    BY <1>0, <2>1, <2>2
  <2> QED
    BY <2>3, <2>4
<1>3. CASE ClientActs \/ UNCHANGED vars
  BY <1>3, ClientActsLocal DEF vars, supVars, childVars
<1>4. ASSUME NEW k \in Client, ServeSpawn(k)
      PROVE  DynFrame'
  BY <1>0, <1>4, ServeSpawnEffect
<1>5. ASSUME NEW k \in Client, ServeTerminate(k)
      PROVE  DynFrame'
  BY <1>0, <1>5, ServeTerminateEffect
<1>6. ASSUME NEW g \in Goroutine, SpawnSucceeds(g)
      PROVE  DynFrame'
  BY <1>0, <1>6, SpawnSucceedsEffect
<1>7. ASSUME NEW g \in Goroutine, SpawnFails(g)
      PROVE  DynFrame'
  BY <1>0, <1>7, SpawnFailsEffect
<1>8. ASSUME NEW g \in Goroutine, Discard(g)
      PROVE  DynFrame'
  BY <1>0, <1>8, DiscardEffect DEF Pending
<1>9. ASSUME NEW g \in Goroutine, CancelFinished(g)
      PROVE  DynFrame'
  <2>1. /\ waiting = g /\ waiting' = None /\ pc = "cancel" /\ pc' \in {"panicked", "loop"}
        /\ Head(todo) \in Child
        /\ children' = IF Listed(Head(todo)) THEN [children EXCEPT ![Head(todo)] = None]
                       ELSE children
        /\ \/ /\ phase' = [phase EXCEPT ![g] = "free"]
              /\ owner' = [owner EXCEPT ![g] = None]
           \/ UNCHANGED <<phase, owner>>
    BY <1>9, CancelFinishedEffect
  <2>2. \A c \in Child : children'[c] \in {children[c], None}
    BY <1>0, <2>1
  <2> QED
    BY <1>0, <2>1, <2>2
<1>10. pc \in Location \cup Serving
  BY DEF DynTypeInv, Place
<1> QED
  BY <1>1, <1>2, <1>3, <1>4, <1>5, <1>6, <1>7, <1>8, <1>9, <1>10 DEF DynNext, ClientActs, dynVars

-----------------------------------------------------------------------------
(* As long as intact holds, a name is listed once and spawned by one       *)
(* client at a time.                                                       *)

Spawning(k) == client[k].op = "spawn" /\ client[k].at \in {"sending", "awaiting"}

SpawnsDiffer ==
    /\ \A k, l \in Client :
          Spawning(k) /\ Spawning(l) /\ client[k].name = client[l].name => k = l
    /\ \A k \in Client :
          Spawning(k) /\ client[k].at = "sending" =>
              client[k].name \notin Names /\ (pc = "spawn" => Head(todo) # client[k].name)
    /\ pc = "spawn" => Head(todo) \notin Names

NamesOnce == ListedOnce /\ SpawnsDiffer

\* Once intact is lost, it is lost for good.
LEMMA IntactBefore ==
    ASSUME DynTypeInv, [DynNext]_<<vars, dynVars>>, intact'
    PROVE  intact
  BY CancelFinishedEffect, DiscardEffect, SpawnSucceedsEffect, SpawnFailsEffect
  DEF DynNext, dynVars, clientVars, CloseControl, ErrorTaken, CloseTerminate, BeginSpawn,
      SpawnRefused,
      BeginTerminate, SendOnClosed, SendTimesOut, AwaitTimesOut, GetAnswer, ServeSpawn,
      ServeTerminate, ServeUnknown, Take

\* What the clients do, other than calling Spawn, begins no spawn; and a client
\* whose message was received does not send it again.
LEMMA ClientActsSpawn ==
    ASSUME DynTypeInv, ClientActs, NEW k \in Client, Spawning(k)',
           \A l \in Client, c \in Child : ~BeginSpawn(l, c)
    PROVE  /\ Spawning(k) /\ client'[k].name = client[k].name
           /\ client'[k].at = "sending" => client[k].at = "sending"
<1> USE DEF Spawning, DynTypeInv, ClientsTyped
<1>1. CASE CloseControl \/ ErrorTaken \/ CloseTerminate
  BY <1>1 DEF CloseControl, ErrorTaken, CloseTerminate, clientVars
<1>2. ASSUME NEW l \in Client,
             \/ SpawnRefused(l) \/ BeginTerminate(l) \/ SendOnClosed(l) \/ SendTimesOut(l)
             \/ AwaitTimesOut(l) \/ ServeUnknown(l)
      PROVE  /\ Spawning(k) /\ client'[k].name = client[k].name
             /\ client'[k].at = "sending" => client[k].at = "sending"
  BY <1>2
  DEF SpawnRefused, BeginTerminate, SendOnClosed, SendTimesOut, AwaitTimesOut, ServeUnknown,
      clientVars, HangUp, Idle, NotFound, Put
<1>3. ASSUME NEW l \in Client, GetAnswer(l)
      PROVE  /\ Spawning(k) /\ client'[k].name = client[k].name
             /\ client'[k].at = "sending" => client[k].at = "sending"
  BY <1>3 DEF GetAnswer, HangUp, Idle
<1> QED
  BY <1>1, <1>2, <1>3 DEF ClientActs

\* Every step that keeps intact keeps the names apart.
LEMMA NamesOnceStep ==
    ASSUME DynTypeInv, ListInv, DynFrame, NamesOnce, [DynNext]_<<vars, dynVars>>, intact'
    PROVE  NamesOnce'
<1> USE DEF NamesOnce, ListedOnce, SpawnsDiffer, Spawning, Serving
<1>0. /\ specs \in Seq(Child) /\ todo \in Seq(Child)
      /\ \A k \in Client : client[k].at = "sending" => client[k].name \in Child
      /\ client \in [Client -> [at : {"idle", "sending", "awaiting", "panicked"},
                                op : {"spawn", "terminate"},
                                name : Child \cup {None},
                                answer : {"none", "ok", "error"}]]
  BY DEF DynTypeInv, Ranges, ClientsTyped, ClientKnown
<1>1. CASE Next /\ UNCHANGED dynVars /\ pc \in Location
  <2>1. Typed
    BY <1>1, AtHome
  <2>2. pc' \in Location /\ specs' = specs
    BY <1>1, <2>1, TypedStep, SpecsUnchanged DEF Typed, TypeOK
  <2> QED
    BY <1>1, <2>2 DEF Names, dynVars, Location, Starting, Stopping, Ended
<1>2. CASE Next /\ UNCHANGED dynVars /\ pc \in Serving
  <2>1. UNCHANGED <<specs, pc, todo>>
    BY <1>2, AwayStep
  <2> QED
    BY <1>2, <2>1 DEF Names, dynVars
<1>3. CASE ClientActs
  <2>1. UNCHANGED <<specs, pc, todo>> /\ Names' = Names
    BY <1>3, ClientActsLocal DEF vars, specVars, supVars, Names
  <2>2. ASSUME NEW l \in Client, NEW c \in Child, BeginSpawn(l, c)
        PROVE  SpawnsDiffer'
    <3>1. /\ client' = [client EXCEPT ![l] = [at |-> "sending", op |-> "spawn",
                                             name |-> c, answer |-> "none"]]
          /\ c \notin Names
          /\ pc = "spawn" => Head(todo) # c
          /\ \A k \in Client : Spawning(k) => client[k].name # c
      BY <2>2 DEF BeginSpawn, Listed, BeingSpawned, Names
    <3> QED
      BY <1>0, <2>1, <3>1
  <2>3. CASE \A l \in Client, c \in Child : ~BeginSpawn(l, c)
    <3>1. \A k \in Client : Spawning(k)' =>
             /\ Spawning(k) /\ client'[k].name = client[k].name
             /\ client'[k].at = "sending" => client[k].at = "sending"
      BY <1>3, <2>3, ClientActsSpawn
    <3> QED
      BY <2>1, <3>1
  <2> QED
    BY <2>1, <2>2, <2>3
<1>4. CASE UNCHANGED <<vars, dynVars>>
  BY <1>4 DEF vars, specVars, supVars, dynVars, Names
<1>5. ASSUME NEW k \in Client, ServeSpawn(k)
      PROVE  NamesOnce'
  <2>1. /\ client[k].at = "sending" /\ client[k].op = "spawn"
        /\ pc' = "spawn" /\ Head(todo') = client[k].name
        /\ client' = [client EXCEPT ![k].at = "awaiting"]
        /\ specs' = specs
    <3>1. todo' = <<client[k].name>>
      BY <1>5, ServeSpawnEffect
    <3>2. Head(todo') = client[k].name
      BY <3>1
    <3> QED
      BY <1>5, <3>2, ServeSpawnEffect
  <2> QED
    BY <1>0, <2>1 DEF Names
<1>6. ASSUME NEW k \in Client, ServeTerminate(k)
      PROVE  NamesOnce'
  <2>1. /\ client[k].op = "terminate" /\ pc' = "cancel"
        /\ client' = [client EXCEPT ![k].at = "awaiting"]
        /\ specs' = specs
    BY <1>6, ServeTerminateEffect
  <2> QED
    BY <1>0, <2>1 DEF Names
<1>7. ASSUME NEW g \in Goroutine, SpawnSucceeds(g)
      PROVE  NamesOnce'
  <2>1. /\ pc = "spawn" /\ pc' = "loop" /\ specs' = Append(specs, Head(todo))
        /\ Head(todo) \in Child
        /\ \A k \in Client : /\ client'[k].at = client[k].at
                             /\ client'[k].op = client[k].op
                             /\ client'[k].name = client[k].name
    BY <1>7, SpawnSucceedsEffect, NoneIsFresh, ZenonT(60) DEF DynFrame, DynWaitingFor, Starting, Stopping
  <2>2. /\ Len(specs) \in Nat /\ Len(specs') = Len(specs) + 1 /\ specs'[Len(specs) + 1] = Head(todo)
        /\ \A i \in 1 .. Len(specs) : specs'[i] = specs[i]
    BY <1>0, <2>1
  <2>3. \A i \in 1 .. Len(specs) : specs[i] # Head(todo)
    BY <2>1 DEF Names
  <2>4. ListedOnce'
    BY <2>2, <2>3
  <2>5. \A c : c \in Names' => c \in Names \/ c = Head(todo)
    BY <2>2 DEF Names
  <2>6. SpawnsDiffer'
    BY <2>1, <2>5
  <2> QED
    BY <2>4, <2>6
<1>8. ASSUME NEW g \in Goroutine, SpawnFails(g)
      PROVE  NamesOnce'
  <2>1. pc' = "discard" /\ UNCHANGED <<specs, client>>
    BY <1>8, SpawnFailsEffect
  <2> QED
    BY <2>1 DEF Names
<1>9. ASSUME NEW g \in Goroutine, Discard(g)
      PROVE  NamesOnce'
  <2>1. /\ pc' = "loop" /\ specs' = specs
        /\ \A k \in Client : /\ client'[k].at = client[k].at
                             /\ client'[k].op = client[k].op
                             /\ client'[k].name = client[k].name
    BY <1>9, DiscardEffect
  <2> QED
    BY <2>1 DEF Names
<1>10. ASSUME NEW g \in Goroutine, CancelFinished(g)
       PROVE  NamesOnce'
  <2>1. /\ Head(todo) \in Child /\ pc' \in {"panicked", "loop"}
        /\ specs' = RemovedFrom(Head(todo))
    BY <1>10, CancelFinishedEffect
  <2>2. \A k \in Client : /\ client'[k].at = client[k].at
                          /\ client'[k].op = client[k].op
                          /\ client'[k].name = client[k].name
    <3>1. \/ Answer("ok")
          \/ Answer("error")
          \/ Answer(IF phase[g] = "failing" THEN "error" ELSE "ok")
      BY <1>10 DEF CancelFinished
    <3> QED
      BY <3>1, AnswersKeep
  <2>3. ListedOnce' /\ \A c : c \in Names' => c \in Names
    <3> DEFINE c == Head(todo)
    <3>1. /\ \A i \in 1 .. Len(specs') : Listed(specs'[i])
          /\ \A i, j \in 1 .. Len(specs') : specs'[i] = specs'[j] => i = j
      BY <1>0, <2>1, RemovalDrops
    <3> QED
      BY <3>1 DEF Names, Listed
  <2> QED
    BY <2>1, <2>2, <2>3
<1>11. pc \in Location \cup Serving
  BY DEF DynTypeInv, Place
<1> QED
  BY <1>1, <1>2, <1>3, <1>4, <1>5, <1>6, <1>7, <1>8, <1>9, <1>10, <1>11 DEF DynNext, ClientActs

-----------------------------------------------------------------------------
(* As long as intact holds, no goroutine is lost.                          *)

DynOrphansTimed ==
    \A g \in Goroutine : phase[g] # "free" =>
        \/ children[owner[g]] = g
        \/ waiting = g
        \/ pc = "discard" /\ owner[g] = Head(todo) /\ Pending(g)
        \/ HasShutdownTimeout(owner[g])

\* The goroutine whose start failed is all that is left under its name.
OneToDiscard ==
    pc = "discard" =>
        \A g, h \in Goroutine :
            /\ phase[g] # "free" /\ owner[g] = Head(todo)
            /\ phase[h] # "free" /\ owner[h] = Head(todo)
            => g = h \/ HasShutdownTimeout(Head(todo))

DynKeeping ==
    DynOrphansTimed /\ OneToDiscard /\ StartsDone /\ StopsRest /\ SourceOver /\ EndsStopped

\* Every step that keeps intact keeps it.
LEMMA DynKeepingStep ==
    ASSUME ReliableStarts, DynTypeInv, ListInv, DynFrame, NamesOnce, DynKeeping,
           [DynNext]_<<vars, dynVars>>, intact'
    PROVE  DynKeeping'
<1> USE DEF DynKeeping, DynOrphansTimed, OneToDiscard, StartsDone, StopsRest, SourceOver,
            EndsStopped, DoneWith, EntryDone, HasShutdownTimeout, Starting, Stopping, Serving
<1>0. /\ children \in [Child -> Goroutine \cup {None}]
      /\ phase \in [Goroutine -> Phase] /\ owner \in [Goroutine -> Child \cup {None}]
      /\ todo \in Seq(Child) /\ waiting \in Goroutine \cup {None} /\ source \in Child \cup {None}
      /\ OwnerKnown /\ None \notin Child /\ None \notin Goroutine
      /\ MapOwned /\ MapNames
  BY NoneIsFresh DEF DynTypeInv, Ranges, DynFrame, ListInv
<1>1. CASE Next /\ pc \in Location
  <2>1. Typed
    BY <1>1, AtHome
  <2>2. Frame /\ Keeping
    BY <1>1 DEF Frame, Books, WaitingFor, OnlyWaitedStart, Keeping, OrphansTimed, DynFrame, DynWaitingFor,
        DynOnlyWaitedStart, Location, Ended
  <2>3. Keeping' /\ pc' \in Location
    BY <1>1, <2>1, <2>2, ReliableStartsSucceed, KeepingStep, TypedStep DEF NamesOnce, Typed, TypeOK
  <2> QED
    BY <2>3 DEF Keeping, OrphansTimed, Location, Ended
<1>2. CASE Next /\ pc \in Serving
  <2>1. /\ UNCHANGED <<pc, todo, waiting, children, owner>>
        /\ \/ UNCHANGED phase
           \/ \E g \in Goroutine : \E p \in {"failing", "completing"} :
                 /\ phase[g] \in {"starting", "running", "stopping"}
                 /\ phase' = [phase EXCEPT ![g] = p]
    BY <1>2, AwayStep
  <2>2. \A g \in Goroutine : /\ phase'[g] = "free" <=> phase[g] = "free"
                             /\ Pending(g) => Pending(g)'
    BY <1>0, <2>1 DEF Pending
  <2> QED
    BY <1>0, <1>2, <2>1, <2>2
<1>3. CASE ClientActs \/ UNCHANGED vars
  BY <1>3, ClientActsLocal DEF vars, supVars, childVars, Pending
<1>4. ASSUME NEW k \in Client, ServeSpawn(k)
      PROVE  DynKeeping'
  <2>1. /\ pc = "loop" /\ waiting = None /\ pc' = "spawn"
        /\ waiting' \in Goroutine /\ phase[waiting'] = "free"
        /\ phase' = [phase EXCEPT ![waiting'] = "starting"]
        /\ owner' = [owner EXCEPT ![waiting'] = client[k].name]
        /\ UNCHANGED children
    BY <1>4, ServeSpawnEffect
  <2> QED
    BY <1>0, <2>1
<1>5. ASSUME NEW k \in Client, ServeTerminate(k)
      PROVE  DynKeeping'
  <2>1. /\ pc = "loop" /\ waiting = None /\ pc' = "cancel"
        /\ waiting' \in Goroutine
        /\ phase' = [phase EXCEPT ![waiting'] = IF @ = "running" THEN "stopping" ELSE @]
        /\ UNCHANGED <<children, owner>>
    BY <1>5, ServeTerminateEffect
  <2> QED
    BY <1>0, <2>1
<1>6. ASSUME NEW g \in Goroutine, SpawnSucceeds(g)
      PROVE  DynKeeping'
  <2>1. /\ pc = "spawn" /\ waiting = g /\ owner[g] \in Child /\ owner[g] = Head(todo)
        /\ pc' = "loop"
        /\ phase' = [phase EXCEPT ![g] = "running"]
        /\ children' = [children EXCEPT ![owner[g]] = g]
        /\ UNCHANGED owner
    BY <1>0, <1>6, SpawnSucceedsEffect DEF DynFrame, DynWaitingFor
  <2>2. children[Head(todo)] = None
    BY <1>0, <2>1 DEF NamesOnce, SpawnsDiffer, MapNames
  <2> QED
    BY <1>0, <2>1, <2>2 DEF OwnerKnown
<1>7. ASSUME NEW g \in Goroutine, SpawnFails(g)
      PROVE  DynKeeping'
  <2>1. /\ pc = "spawn" /\ waiting = g /\ phase[g] = "starting"
        /\ owner[g] \in Child /\ owner[g] = Head(todo)
        /\ pc' = "discard" /\ waiting' = None
        /\ \E p \in {"failing", "completing"} : phase' = [phase EXCEPT ![g] = p]
        /\ UNCHANGED <<todo, children, owner>>
    BY <1>0, <1>7, SpawnFailsEffect DEF DynFrame, DynWaitingFor
  <2>2. children[Head(todo)] = None
    BY <1>0, <2>1 DEF NamesOnce, SpawnsDiffer, MapNames
  <2>3. /\ Pending(g)'
        /\ \A h \in Goroutine : phase'[h] # "free" /\ h # g =>
              /\ phase[h] # "free"
              /\ children[owner[h]] = h \/ owner[h] \in Timed
    BY <1>0, <2>1 DEF Pending
  <2> QED
    BY <1>0, <2>1, <2>2, <2>3
<1>8. ASSUME NEW g \in Goroutine, Discard(g)
      PROVE  DynKeeping'
  <2>1. /\ pc = "discard" /\ waiting = None /\ pc' = "loop" /\ Pending(g)
        /\ phase' = [phase EXCEPT ![g] = "free"]
        /\ owner' = [owner EXCEPT ![g] = None]
        /\ owner[g] = Head(todo)
        /\ UNCHANGED children
    BY <1>8, DiscardEffect
  <2>2. \A h \in Goroutine : h # g /\ phase[h] # "free" =>
           children[owner[h]] = h \/ owner[h] \in Timed
    BY <1>0, <2>1 DEF Pending
  <2> QED
    BY <1>0, <2>1, <2>2
<1>9. ASSUME NEW g \in Goroutine, CancelFinished(g)
      PROVE  DynKeeping'
  <2>1. /\ pc = "cancel" /\ waiting = g /\ Head(todo) \in Child /\ pc' \in {"panicked", "loop"}
        /\ children' = IF Listed(Head(todo)) THEN [children EXCEPT ![Head(todo)] = None]
                       ELSE children
        /\ \/ /\ phase' = [phase EXCEPT ![g] = "free"]
              /\ owner' = [owner EXCEPT ![g] = None]
           \/ UNCHANGED <<phase, owner>> /\ (phase[g] = "free" \/ HasShutdownTimeout(Head(todo)))
    BY <1>9, CancelFinishedEffect
  <2>2. children[Head(todo)] = g
    BY <1>0, <2>1 DEF DynFrame, DynWaitingFor
  <2>3. children' = [children EXCEPT ![Head(todo)] = None]
    BY <1>0, <2>1, <2>2 DEF MapNames, Names, Listed
  <2>4. ASSUME NEW h \in Goroutine, phase'[h] # "free"
        PROVE  children'[owner'[h]] = h \/ owner'[h] \in Timed
    <3>1. phase[h] # "free" /\ owner'[h] = owner[h] /\ owner[h] \in Child
      BY <1>0, <2>1, <2>4 DEF OwnerKnown
    <3>2. CASE h = g
      BY <1>0, <2>1, <2>2, <2>4, <3>1, <3>2 DEF MapOwned
    <3>3. CASE h # g
      BY <1>0, <2>1, <2>2, <2>3, <3>1, <3>3
    <3> QED
      BY <3>2, <3>3
  <2> QED
    BY <2>1, <2>4
<1>10. pc \in Location \cup Serving
  BY DEF DynTypeInv, Place
<1> QED
  BY <1>1, <1>2, <1>3, <1>4, <1>5, <1>6, <1>7, <1>8, <1>9, <1>10 DEF DynNext, ClientActs, dynVars

\* The inductive invariant behind the theorems below.
DynInv ==
    /\ DynTypeInv
    /\ ListInv
    /\ DynFrame
    /\ intact => NamesOnce /\ DynKeeping

\* It holds before the boot, where there is nothing.
LEMMA DynInvInit == DynInit => DynInv
<1> SUFFICES ASSUME DynInit
             PROVE  ListInv /\ DynFrame /\ NamesOnce /\ DynKeeping
  BY DynTypeInit DEF DynInv
<1> USE DEF DynInit, Init, Starting, Stopping
<1>1. specs = << >>
  BY DynAssumption
<1>2. ListInv
  BY DEF ListInv, MapNames, NoChildren, StartsListed, Restarting
<1>3. DynFrame
  BY DEF DynFrame, MapOwned, EntryDone, NoChildren, DynWaitingFor, DynOnlyWaitedStart, NoRollback
<1>4. NamesOnce
  BY <1>1 DEF NamesOnce, ListedOnce, SpawnsDiffer, Spawning, Idle
<1>5. DynKeeping
  BY DEF DynKeeping, DynOrphansTimed, OneToDiscard, StartsDone, StopsRest, SourceOver, EndsStopped,
     DoneWith, EntryDone, NoChildren
<1> QED
  BY <1>2, <1>3, <1>4, <1>5

\* And every step keeps it.
LEMMA DynInvStep ==
    ASSUME ReliableStarts, DynInv, [DynNext]_<<vars, dynVars>>
    PROVE  DynInv'
  BY DynTypeStep, ListedStep, DynFrameStep, IntactBefore, NamesOnceStep, DynKeepingStep DEF DynInv

\* If restarts start reliably: as long as the clients spawn no name twice and no
\* failed spawn takes the end of another child for its own, every goroutine that
\* exists is in the map under its name, is being started, is the one whose
\* failed start is dealt with, or outlasted its Timeout.
THEOREM DynNothingOrphaned == ReliableStarts => (DynSpec => []DynNoOrphan)
<1> SUFFICES ASSUME ReliableStarts
             PROVE  DynSpec => []DynNoOrphan
  OBVIOUS
<1>1. DynInit => DynInv
  BY DynInvInit
<1>2. DynInv /\ [DynNext]_<<vars, dynVars>> => DynInv'
  BY DynInvStep
<1>3. DynInv => DynNoOrphan
  BY DEF DynInv, DynKeeping, DynOrphansTimed, DynNoOrphan
<1> QED
  BY <1>1, <1>2, <1>3, PTL DEF DynSpec

-----------------------------------------------------------------------------
(* What is remembered of a terminated worker.                              *)

\* In the loop, and while one child is restarted, no name last reported as
\* terminated is listed; while all children are restarted, such a name is still
\* to be started.  A dynamic supervisor boots without children.
Forgotten ==
    /\ pc \in {"build", "boot"} => Names = {}
    /\ pc \in {"loop", "tolerance", "backoff"} \cup Serving =>
          \A c \in Names : reported[c] # "Terminated"
    /\ pc = "restart" =>
          \A c \in Names :
              reported[c] = "Terminated" => \E i \in 1 .. Len(todo) : todo[i] = c

\* The steps of the supervisor it extends.
LEMMA HomeForgotten ==
    ASSUME ReliableStarts, Typed, ListInv, NoRollback, Forgotten, [Next]_vars
    PROVE  Forgotten'
<1> USE DEF Forgotten, Serving, Starting, Stopping, specVars
<1>0. /\ specs \in Seq(Child) /\ Names' = Names
      /\ todo \in Seq(Child) /\ reported \in [Child -> Event]
      /\ pc \in Location /\ WaitingKnown /\ OwnerKnown
      /\ \A c \in Names : c \in Child
  BY SpecsUnchanged DEF Typed, TypeOK, Names
<1>1. CASE BuildNodes \/ BuildNodesFails \/ CancelChild \/ Cleanup \/ SpawnChild
  BY <1>0, <1>1 DEF BuildNodes, BuildNodesFails, CancelChild, Cleanup, SpawnChild
<1>2. CASE AllStarted
  BY <1>0, <1>2 DEF AllStarted
<1>3. CASE SkipChild
  BY <1>0, <1>3 DEF SkipChild
<1>4. CASE AllStopped
  <2>1. CASE pc = "siblings"
    BY <1>0, <1>4, <2>1, OrdersList DEF AllStopped, RestartFromScratch
  <2> QED
    BY <1>0, <1>4, <2>1 DEF AllStopped, NoRollback
<1>5. CASE CheckTolerance \/ RestartUncounted \/ BackoffElapses
  <2>1. /\ pc \in {"tolerance", "backoff"} /\ UNCHANGED reported
        /\ pc' \in {"backoff", "shutdown", "restart", "siblings"}
    BY <1>5
    DEF CheckTolerance, RestartUncounted, BackoffElapses, GiveUp, WaitThenRestart, BeginRestart
  <2> QED
    BY <1>0, <2>1
<1>6. CASE Shutdown \/ BackoffCancelled \/ Terminate \/ UNCHANGED vars
  BY <1>0, <1>6 DEF Shutdown, BackoffCancelled, Terminate, vars, supVars
<1>7. ASSUME NEW g \in Goroutine, StartSucceeds(g)
      PROVE  Forgotten'
  <2>1. /\ pc \in Starting /\ pc' = pc /\ todo # << >> /\ todo' = Tail(todo)
        /\ owner[g] \in Child /\ owner[g] = Head(todo)
        /\ reported' = [reported EXCEPT ![owner[g]] = "Started"]
    BY <1>0, <1>7, NoneIsFresh
    DEF StartSucceeds, RecordStart, Report, WaitingKnown, OwnerKnown, ListInv, StartsListed
  <2>2. ASSUME pc = "restart", NEW c \in Names, reported'[c] = "Terminated"
        PROVE  \E i \in 1 .. Len(todo') : todo'[i] = c
    BY <1>0, <2>1, <2>2, RestInTail
  <2> QED
    BY <1>0, <2>1, <2>2
<1>8. ASSUME NEW g \in Goroutine, StartFails(g)
      PROVE  FALSE
  BY <1>8 DEF StartFails, ReliableStarts
<1>9. ASSUME NEW g \in Goroutine, ReturnsWithoutNotify(g) \/ Ends(g) \/ HonorsCancel(g)
      PROVE  Forgotten'
  BY <1>0, <1>9 DEF ReturnsWithoutNotify, Ends, HonorsCancel, ReturnsFrom, supVars
<1>10. ASSUME NEW g \in Goroutine, ChildStopped(g) \/ ChildAlreadyGone(g) \/ ShutdownTimesOut(g)
       PROVE  Forgotten'
  BY <1>0, <1>10 DEF ChildStopped, ChildAlreadyGone, ShutdownTimesOut
<1>11. ASSUME NEW g \in Goroutine, Receive(g) \/ PanicUnknownChild(g)
       PROVE  Forgotten'
  <2>1. /\ pc = "loop" /\ pc' \in {"loop", "tolerance", "panicked"}
        /\ \/ UNCHANGED reported
           \/ \E e \in {"Failed", "Completed"} : reported' = [reported EXCEPT ![owner[g]] = e]
    BY <1>11 DEF Receive, PanicUnknownChild, EnterRestartLoop, Report
  <2> QED
    BY <1>0, <2>1
<1> QED
  BY <1>1, <1>2, <1>3, <1>4, <1>5, <1>6, <1>7, <1>8, <1>9, <1>10, <1>11 DEF Next, Local, Over

\* Every step that keeps intact keeps it.
LEMMA ForgottenStep ==
    ASSUME ReliableStarts, DynInv, intact, Forgotten, [DynNext]_<<vars, dynVars>>
    PROVE  Forgotten'
<1>0. /\ specs \in Seq(Child) /\ todo \in Seq(Child) /\ reported \in [Child -> Event]
      /\ DynTypeInv /\ ListInv /\ NoRollback /\ ListedOnce
  BY DEF DynInv, DynTypeInv, Ranges, DynFrame, NamesOnce
<1>1. CASE Next /\ pc \in Location
  BY <1>0, <1>1, AtHome, HomeForgotten
<1>2. CASE Next /\ pc \in Serving
  <2>1. UNCHANGED <<specs, pc, todo, reported>>
    BY <1>2, AwayStep
  <2> QED
    BY <1>2, <2>1, ZenonT(60) DEF Forgotten, Names
<1>3. CASE ClientActs \/ UNCHANGED vars
  BY <1>3, ClientActsLocal DEF vars, specVars, supVars, Forgotten, Names, Serving
<1>4. ASSUME NEW k \in Client, ServeSpawn(k) \/ ServeTerminate(k)
      PROVE  Forgotten'
  <2>1. pc = "loop" /\ pc' \in Serving /\ UNCHANGED <<specs, reported>>
    BY <1>4 DEF ServeSpawn, ServeTerminate, Take, specVars, Serving
  <2> QED
    BY <2>1 DEF Forgotten, Names, Serving
<1>5. ASSUME NEW g \in Goroutine, SpawnSucceeds(g)
      PROVE  Forgotten'
  <2>1. /\ pc = "spawn" /\ pc' = "loop" /\ owner[g] \in Child /\ specs' = Append(specs, owner[g])
        /\ reported' = [reported EXCEPT ![owner[g]] = "Started"]
    BY <1>0, <1>5, SpawnSucceedsEffect
  <2>2. \A c \in Names' : c \in Child /\ (c \in Names \/ c = owner[g])
    BY <1>0, <2>1, SMTT(30) DEF Names
  <2> QED
    BY <1>0, <2>1, <2>2 DEF Forgotten, Serving
<1>6. ASSUME NEW g \in Goroutine, SpawnFails(g)
      PROVE  Forgotten'
  <2>1. /\ pc = "spawn" /\ pc' = "discard" /\ UNCHANGED specs
        /\ reported' = [reported EXCEPT ![owner[g]] = "StartFailed"]
    BY <1>0, <1>6, SpawnFailsEffect
  <2>2. \A c \in Names' : c \in Child /\ c \in Names
    BY <1>0, <2>1 DEF Names
  <2> QED
    BY <1>0, <2>1, <2>2 DEF Forgotten, Serving
<1>7. ASSUME NEW g \in Goroutine, Discard(g)
      PROVE  Forgotten'
  <2>1. pc = "discard" /\ pc' = "loop" /\ UNCHANGED <<specs, reported>>
    BY <1>0, <1>7, DiscardEffect
  <2> QED
    BY <2>1 DEF Forgotten, Names, Serving
<1>8. ASSUME NEW g \in Goroutine, CancelFinished(g)
      PROVE  Forgotten'
  <2>1. /\ pc = "cancel" /\ pc' \in {"panicked", "loop"} /\ Head(todo) \in Child
        /\ specs' = RemovedFrom(Head(todo))
    BY <1>0, <1>8, CancelFinishedEffect
  <2>2. \A c \in Names' : c \in Child /\ c \in Names /\ c # Head(todo)
    <3>1. \A i \in 1 .. Len(specs') : Listed(specs'[i]) /\ specs'[i] # Head(todo)
      BY <1>0, <2>1, RemovalDrops
    <3> QED
      BY <1>0, <3>1 DEF Names, Listed
  <2>3. UNCHANGED reported \/ \E e \in Event : reported' = [reported EXCEPT ![Head(todo)] = e]
    BY <1>8 DEF CancelFinished, Report, Event
  <2> QED
    BY <1>0, <2>1, <2>2, <2>3 DEF Forgotten, Serving
<1>9. pc \in Location \cup Serving
  BY <1>0 DEF DynTypeInv, Place
<1> QED
  BY <1>1, <1>2, <1>3, <1>4, <1>5, <1>6, <1>7, <1>8, <1>9 DEF DynNext, ClientActs, dynVars

\* If restarts start reliably, a worker that a client terminated is not listed
\* any more when the supervisor is back in its loop: no restart brings it back.
THEOREM TerminatedStaysForgotten == ReliableStarts => (DynSpec => []TerminatedIsForgotten)
<1> SUFFICES ASSUME ReliableStarts
             PROVE  DynSpec => []TerminatedIsForgotten
  OBVIOUS
<1> DEFINE Inv == DynInv /\ (intact => Forgotten)
<1>1. DynInit => Inv
  <2> SUFFICES ASSUME DynInit
               PROVE  Forgotten
    BY DynInvInit
  <2>1. pc = "build" /\ specs = << >>
    BY DynAssumption DEF DynInit, Init
  <2> QED
    BY <2>1 DEF Forgotten, Names, Serving
<1>2. Inv /\ [DynNext]_<<vars, dynVars>> => Inv'
  <2> SUFFICES ASSUME Inv, [DynNext]_<<vars, dynVars>>
               PROVE  Inv'
    OBVIOUS
  <2>1. DynInv'
    BY DynInvStep
  <2>2. ASSUME intact'
        PROVE  Forgotten'
    <3>1. intact
      BY <2>2, IntactBefore DEF DynInv
    <3> QED
      BY <3>1, ForgottenStep
  <2> QED
    BY <2>1, <2>2
<1>3. Inv => TerminatedIsForgotten
  BY DEF Forgotten, Serving, TerminatedIsForgotten, Listed, Names
<1> QED
  BY <1>1, <1>2, <1>3, PTL DEF DynSpec
=============================================================================
