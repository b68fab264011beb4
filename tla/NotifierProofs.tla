--------------------------- MODULE NotifierProofs ---------------------------
(***************************************************************************)
(* Proofs about ReliableNotifier, as Monitoring runs it, for every value   *)
(* of the constants: any number of supervisors, notifiers and events, any  *)
(* buffer sizes and criteria, any notifier that panics or hangs.           *)
(*                                                                         *)
(*   EventsInOrder     MonSpec => []OrderKept                              *)
(*   EveryLossIsKnown  MonSpec => []NothingLostSilently                    *)
(*   HealthReportIsRight                                                   *)
(*                     MonSpec => []HealthReportRight, if the criterion of *)
(*                     Health lets failures and starts pass                *)
(*                                                                         *)
(* The first two follow from one invariant, LineInv: for every notifier    *)
(* the events stand in line, from the ones it has got over the one in its  *)
(* worker's hand, its queue and the one that is broadcast to the ones in   *)
(* entrypointCh.  The third adds HealthInv: after a failure a process is   *)
(* said to have started before anything else is said of it, and failedEvs  *)
(* is what follows from the events the health check has got, whose order   *)
(* is that of the line.                                                    *)
(***************************************************************************)
EXTENDS Monitoring, FiniteSetTheorems, WellFoundedInduction, TLAPS

-----------------------------------------------------------------------------
(* The types, and what the workers and channels agree on.                  *)

NotifierTypes ==
    /\ settings \in [entrypointBufferSize : Nat, notifierBufferSize : Nat]
    /\ stream \in Seq(AnyEvent)
    /\ publishing \in [Publisher -> AnyEvent \cup {Nothing}]
    /\ entry \in Seq(Nat) /\ broadcast \in Nat /\ targets \subseteq Notifier
    /\ queue \in [Notifier -> Seq(Nat)]
    /\ worker \in [Notifier -> {"select", "notify", "panicked", "stopped"}]
    /\ hand \in [Notifier -> Nat]
    /\ got \in [Notifier -> Seq(Nat)]
    /\ lost \in [Notifier -> SUBSET Nat]

\* A channel without a buffer is empty; a worker has an event in hand exactly
\* while it is in the notifier's function.
ChannelsKept ==
    /\ settings.entrypointBufferSize = 0 => entry = << >>
    /\ settings.notifierBufferSize = 0 => \A n \in Notifier : queue[n] = << >>
    /\ \A n \in Notifier : hand[n] # 0 <=> worker[n] = "notify"
    /\ broadcast = 0 => targets = {}

-----------------------------------------------------------------------------
(* The line of the events.                                                 *)

Increasing(s) == \A i, j \in 1 .. Len(s) : i < j => s[i] < s[j]

\* i comes before what the entrypoint has still to send to n.
Before(n, i) ==
    /\ i \in 1 .. Len(stream)
    /\ \A k \in 1 .. Len(entry) : i < entry[k]
    /\ n \in targets => i < broadcast

EntryLine ==
    /\ Increasing(entry)
    /\ \A k \in 1 .. Len(entry) : entry[k] \in 1 .. Len(stream) /\ broadcast < entry[k]
    /\ broadcast <= Len(stream)

\* The line of one notifier.
InLine(n) ==
    /\ Increasing(got[n])
    /\ Increasing(queue[n])
    /\ \A i \in 1 .. Len(got[n]) : Before(n, got[n][i])
    /\ hand[n] # 0 => Before(n, hand[n]) /\ \A i \in 1 .. Len(got[n]) : got[n][i] < hand[n]
    /\ \A k \in 1 .. Len(queue[n]) :
          /\ Before(n, queue[n][k])
          /\ hand[n] < queue[n][k]
          /\ \A i \in 1 .. Len(got[n]) : got[n][i] < queue[n][k]

\* What is lost was sent, and is nowhere else.
LostApart(n) ==
    \A i \in lost[n] :
        /\ Before(n, i)
        /\ hand[n] # i
        /\ \A k \in 1 .. Len(got[n]) : got[n][k] # i
        /\ \A k \in 1 .. Len(queue[n]) : queue[n][k] # i

\* What was sent is somewhere, or was rejected.
Somewhere(n, i) ==
    \/ \E k \in 1 .. Len(queue[n]) : queue[n][k] = i
    \/ hand[n] = i
    \/ \E k \in 1 .. Len(got[n]) : got[n][k] = i
    \/ i \in lost[n]
    \/ stream[i] \notin Criterion[n]
Sent(n, i) ==
    /\ i \in 1 .. Len(stream)
    /\ \A k \in 1 .. Len(entry) : entry[k] # i
    /\ ~(broadcast = i /\ n \in targets)
AllKnown(n) == \A i \in Nat : Sent(n, i) => Somewhere(n, i)

Line(n) == InLine(n) /\ LostApart(n) /\ AllKnown(n)

LineInv == NotifierTypes /\ ChannelsKept /\ EntryLine /\ \A n \in Notifier : Line(n)

-----------------------------------------------------------------------------
(* The steps.                                                              *)

\* What a list of numbers and its tail have in common.
LEMMA TailOf ==
    ASSUME NEW s \in Seq(Nat), s # << >>
    PROVE  /\ Head(s) \in Nat /\ Head(s) = s[1] /\ 1 \in 1 .. Len(s)
           /\ Tail(s) \in Seq(Nat) /\ Len(Tail(s)) = Len(s) - 1
           /\ \A i \in 1 .. Len(Tail(s)) : Tail(s)[i] = s[i + 1] /\ i + 1 \in 1 .. Len(s)
           /\ \A i \in 1 .. Len(s) : i = 1 \/ (i - 1 \in 1 .. Len(Tail(s)) /\ Tail(s)[i - 1] = s[i])
  OBVIOUS

\* The tail of an increasing list increases, and its head is less than that.
LEMMA TailIncreases ==
    ASSUME NEW s \in Seq(Nat), s # << >>, Increasing(s)
    PROVE  Increasing(Tail(s)) /\ \A i \in 1 .. Len(Tail(s)) : Head(s) < Tail(s)[i]
<1>1. Len(s) \in Nat /\ \A i \in 1 .. Len(Tail(s)) : i \in Nat /\ 1 < i + 1
  OBVIOUS
<1>2. ASSUME NEW i \in 1 .. Len(Tail(s)), NEW j \in 1 .. Len(Tail(s)), i < j
      PROVE  Tail(s)[i] < Tail(s)[j]
  <2>1. i + 1 < j + 1
    BY <1>2
  <2> QED
    BY <2>1, TailOf DEF Increasing
<1>3. ASSUME NEW i \in 1 .. Len(Tail(s))
      PROVE  Head(s) < Tail(s)[i]
  BY <1>1, TailOf DEF Increasing
<1> QED
  BY <1>2, <1>3 DEF Increasing

\* What is appended to a list.
LEMMA AppendOf ==
    ASSUME NEW s \in Seq(Nat), NEW x \in Nat
    PROVE  /\ Append(s, x) \in Seq(Nat) /\ Len(Append(s, x)) = Len(s) + 1
           /\ Append(s, x)[Len(s) + 1] = x /\ Len(s) + 1 \in 1 .. Len(Append(s, x))
           /\ \A i \in 1 .. Len(s) : Append(s, x)[i] = s[i] /\ i \in 1 .. Len(Append(s, x))
           /\ \A i \in 1 .. Len(Append(s, x)) : i \in 1 .. Len(s) \/ i = Len(s) + 1
  OBVIOUS

\* An increasing list grows by something greater.
LEMMA AppendIncreases ==
    ASSUME NEW s \in Seq(Nat), NEW x \in Nat, Increasing(s), \A i \in 1 .. Len(s) : s[i] < x
    PROVE  Increasing(Append(s, x))
<1> SUFFICES ASSUME NEW i \in 1 .. Len(Append(s, x)), NEW j \in 1 .. Len(Append(s, x)), i < j
             PROVE  Append(s, x)[i] < Append(s, x)[j]
  BY DEF Increasing
<1>1. i \in 1 .. Len(s)
  OBVIOUS
<1>2. CASE j \in 1 .. Len(s)
  BY <1>1, <1>2, AppendOf DEF Increasing
<1>3. CASE j = Len(s) + 1
  BY <1>1, <1>3, AppendOf
<1> QED
  BY <1>2, <1>3, AppendOf

\* The line of a notifier whose channel and worker are left alone.
LEMMA SameLine ==
    ASSUME NEW n \in Notifier, Line(n), UNCHANGED <<stream, entry>>,
           n \in targets' <=> n \in targets, n \in targets => broadcast' = broadcast,
           queue'[n] = queue[n], hand'[n] = hand[n], got'[n] = got[n], lost'[n] = lost[n]
    PROVE  Line(n)'
  BY DEF Line, InLine, LostApart, AllKnown, Somewhere, Sent, Before, Increasing

\* An event enters the channel, or is handed to the entrypoint.
LEMMA EnterStep ==
    ASSUME LineInv, NEW p \in Publisher, Enter(p)
    PROVE  LineInv'
<1> USE DEF LineInv, entryVars, workerVars, treeVars
<1>0. /\ stream \in Seq(AnyEvent) /\ entry \in Seq(Nat) /\ broadcast \in Nat
      /\ Len(stream) \in Nat /\ targets \subseteq Notifier
      /\ publishing[p] \in AnyEvent
      /\ publishing' = [publishing EXCEPT ![p] = Nothing]
      /\ UNCHANGED <<queue, worker, hand, got, settings, lost>>
  BY DEF NotifierTypes, Enter
<1>1. /\ stream' = Append(stream, publishing[p])
      /\ stream' \in Seq(AnyEvent) /\ Len(stream') = Len(stream) + 1
      /\ \A i \in 1 .. Len(stream) : stream'[i] = stream[i] /\ i \in 1 .. Len(stream')
  BY <1>0 DEF Enter
<1>2. \/ /\ entry' = Append(entry, Len(stream')) /\ UNCHANGED <<broadcast, targets>>
         /\ settings.entrypointBufferSize # 0
      \/ /\ entry = << >> /\ entry' = << >> /\ broadcast = 0 /\ targets = {}
         /\ broadcast' = Len(stream') /\ targets' = Notifier
  <2>1. settings.entrypointBufferSize \in Nat /\ Len(entry) \in Nat
    BY <1>0 DEF NotifierTypes
  <2> QED
    BY <2>1 DEF Enter, HasRoom, EntrypointListens, ChannelsKept
<1>3. NotifierTypes'
  <2>0. Len(stream') \in Nat
    BY <1>0, <1>1
  <2>1. entry' \in Seq(Nat) /\ broadcast' \in Nat /\ targets' \subseteq Notifier
    <3>1. CASE entry' = Append(entry, Len(stream')) /\ UNCHANGED <<broadcast, targets>>
      BY <1>0, <2>0, <3>1, AppendOf
    <3>2. CASE entry' = << >> /\ broadcast' = Len(stream') /\ targets' = Notifier
      BY <2>0, <3>2
    <3> QED
      BY <1>2, <3>1, <3>2
  <2>2. publishing' \in [Publisher -> AnyEvent \cup {Nothing}]
    BY <1>0 DEF NotifierTypes
  <2> QED
    BY <1>0, <1>1, <2>1, <2>2 DEF NotifierTypes
<1>4. ChannelsKept'
  BY <1>0, <1>1, <1>2 DEF ChannelsKept
<1>5. EntryLine'
  <2>1. CASE entry' = Append(entry, Len(stream')) /\ UNCHANGED <<broadcast, targets>>
    <3>1. Len(stream') \in Nat /\ \A k \in 1 .. Len(entry) : entry[k] < Len(stream')
      BY <1>0, <1>1 DEF EntryLine
    <3>2. Increasing(Append(entry, Len(stream')))
      BY <1>0, <3>1, AppendIncreases DEF EntryLine
    <3>3. \A k \in 1 .. Len(entry') : entry'[k] \in 1 .. Len(stream') /\ broadcast < entry'[k]
      BY <1>0, <1>1, <2>1, AppendOf DEF EntryLine
    <3> QED
      BY <1>0, <1>1, <2>1, <3>2, <3>3 DEF EntryLine, Increasing
  <2>2. CASE entry' = << >> /\ broadcast' = Len(stream')
    BY <1>1, <2>2 DEF EntryLine, Increasing
  <2> QED
    BY <1>2, <2>1, <2>2
<1>6. ASSUME NEW n \in Notifier
      PROVE  Line(n)'
  <2>1. \A i \in Nat : Before(n, i) => Before(n, i)'
    <3>1. CASE entry' = Append(entry, Len(stream')) /\ UNCHANGED <<broadcast, targets>>
      BY <1>0, <1>1, <3>1, AppendOf DEF Before
    <3>2. CASE entry' = << >> /\ broadcast' = Len(stream')
      BY <1>0, <1>1, <3>2 DEF Before
    <3> QED
      BY <1>2, <3>1, <3>2
  <2>2. \A i \in Nat : Sent(n, i)' => Sent(n, i)
    <3>1. CASE entry' = Append(entry, Len(stream')) /\ UNCHANGED <<broadcast, targets>>
      BY <1>0, <1>1, <3>1, AppendOf DEF Sent
    <3>2. CASE entry = << >> /\ targets = {} /\ broadcast' = Len(stream') /\ targets' = Notifier
      BY <1>0, <1>1, <3>2 DEF Sent
    <3> QED
      BY <1>2, <3>1, <3>2
  <2>3. \A i \in Nat : Sent(n, i) /\ Somewhere(n, i) => Somewhere(n, i)'
    BY <1>0, <1>1 DEF Sent, Somewhere
  <2>4. got[n] \in Seq(Nat) /\ queue[n] \in Seq(Nat) /\ hand[n] \in Nat /\ lost[n] \subseteq Nat
    BY DEF NotifierTypes
  <2>5. \A i \in 1 .. Len(got[n]) : got[n][i] \in Nat
    BY <2>4
  <2>6. \A i \in 1 .. Len(queue[n]) : queue[n][i] \in Nat
    BY <2>4
  <2>7. InLine(n)' /\ LostApart(n)'
    BY <1>0, <2>1, <2>4, <2>5, <2>6 DEF Line, InLine, LostApart, Increasing
  <2> QED
    BY <2>2, <2>3, <2>7 DEF Line, AllKnown
<1> QED
  BY <1>3, <1>4, <1>5, <1>6

\* The entrypoint takes the next event.
LEMMA TakeEntryStep ==
    ASSUME LineInv, TakeEntry
    PROVE  LineInv'
<1> USE DEF LineInv, workerVars, treeVars
<1>0. /\ stream \in Seq(AnyEvent) /\ entry \in Seq(Nat) /\ entry # << >>
      /\ broadcast = 0 /\ targets = {} /\ targets' = Notifier
      /\ broadcast' = Head(entry) /\ entry' = Tail(entry)
      /\ UNCHANGED <<publishing, stream, queue, worker, hand, got, settings, lost>>
  BY DEF NotifierTypes, TakeEntry, EntrypointListens, ChannelsKept
<1>1. /\ Head(entry) \in 1 .. Len(stream) /\ Head(entry) # 0
      /\ \A i \in Nat : (\A k \in 1 .. Len(entry) : i < entry[k]) =>
            i < Head(entry) /\ \A k \in 1 .. Len(entry') : i < entry'[k]
      /\ \A i \in Nat : (\A k \in 1 .. Len(entry') : entry'[k] # i) /\ i # Head(entry) =>
            \A k \in 1 .. Len(entry) : entry[k] # i
  <2>1. Head(entry) = entry[1] /\ 1 \in 1 .. Len(entry) /\ Len(stream) \in Nat
    BY <1>0, TailOf
  <2>2. Head(entry) \in 1 .. Len(stream) /\ Head(entry) # 0
    BY <2>1 DEF EntryLine
  <2>3. \A k \in 1 .. Len(Tail(entry)) : Tail(entry)[k] = entry[k + 1] /\ k + 1 \in 1 .. Len(entry)
    BY <1>0, TailOf
  <2>4. \A k \in 1 .. Len(entry) :
           k = 1 \/ (k - 1 \in 1 .. Len(Tail(entry)) /\ Tail(entry)[k - 1] = entry[k])
    BY <1>0, TailOf
  <2>5. ASSUME NEW i \in Nat, \A k \in 1 .. Len(entry') : entry'[k] # i, i # Head(entry)
        PROVE  \A k \in 1 .. Len(entry) : entry[k] # i
    BY <1>0, <2>1, <2>4, <2>5
  <2> QED
    BY <1>0, <2>1, <2>2, <2>3, <2>5
<1>2. NotifierTypes'
  BY <1>0, TailOf DEF NotifierTypes
<1>3. ChannelsKept'
  BY <1>0, <1>1 DEF ChannelsKept
<1>4. EntryLine'
  <2>1. Increasing(entry') /\ \A k \in 1 .. Len(entry') : Head(entry) < entry'[k]
    BY <1>0, TailIncreases DEF EntryLine
  <2>2. \A k \in 1 .. Len(entry') : entry'[k] \in 1 .. Len(stream)
    BY <1>0, TailOf DEF EntryLine
  <2>3. Len(stream) \in Nat
    BY <1>0
  <2> QED
    BY <1>0, <1>1, <2>1, <2>2, <2>3 DEF EntryLine, Increasing
<1>5. ASSUME NEW n \in Notifier
      PROVE  Line(n)'
  <2>1. \A i \in Nat : Before(n, i) => Before(n, i)'
    BY <1>0, <1>1 DEF Before
  <2>2. \A i \in Nat : Sent(n, i)' => Sent(n, i)
    BY <1>0, <1>1 DEF Sent
  <2>3. \A i \in Nat : Somewhere(n, i) => Somewhere(n, i)'
    BY <1>0 DEF Somewhere
  <2>4. got[n] \in Seq(Nat) /\ queue[n] \in Seq(Nat) /\ hand[n] \in Nat /\ lost[n] \subseteq Nat
    BY DEF NotifierTypes
  <2>5. \A i \in 1 .. Len(got[n]) : got[n][i] \in Nat
    BY <2>4
  <2>6. \A i \in 1 .. Len(queue[n]) : queue[n][i] \in Nat
    BY <2>4
  <2>7. InLine(n)' /\ LostApart(n)'
    BY <1>0, <2>1, <2>4, <2>5, <2>6 DEF Line, InLine, LostApart, Increasing
  <2> QED
    BY <2>2, <2>3, <2>7 DEF Line, AllKnown
<1> QED
  BY <1>2, <1>3, <1>4, <1>5

\* A step of one notifier: the others are left alone.
OnlyOf(n) ==
    \A m \in Notifier \ {n} :
        /\ queue'[m] = queue[m] /\ hand'[m] = hand[m] /\ got'[m] = got[m] /\ lost'[m] = lost[m]
        /\ worker'[m] = worker[m]

\* The entrypoint has dealt with n: for the others nothing changes.
LEMMA TargetDoneOthers ==
    ASSUME LineInv, NEW n \in Notifier, TargetDone(n), OnlyOf(n), UNCHANGED <<stream, entry>>
    PROVE  /\ \A m \in Notifier \ {n} : Line(m)'
           /\ broadcast # 0 /\ broadcast \in Nat /\ broadcast \in 1 .. Len(stream)
           /\ broadcast' \in {0, broadcast} /\ (broadcast' = 0 => targets' = {})
           /\ n \notin targets' /\ targets' \subseteq targets
<1>1. /\ n \in targets /\ targets' = targets \ {n}
      /\ broadcast' = IF targets' = {} THEN 0 ELSE broadcast
  BY DEF TargetDone
<1>2. ASSUME NEW m \in Notifier, m # n
      PROVE  Line(m)'
  <2>1. /\ m \in targets' <=> m \in targets
        /\ m \in targets => broadcast' = broadcast
    BY <1>1, <1>2
  <2> QED
    BY <1>2, <2>1, SameLine DEF LineInv, OnlyOf
<1>3. broadcast # 0 /\ broadcast \in Nat /\ broadcast \in 1 .. Len(stream)
  BY <1>1 DEF LineInv, ChannelsKept, NotifierTypes, EntryLine
<1> QED
  BY <1>1, <1>2, <1>3

\* The event is offered to n: it is behind everything n has had.
LEMMA OfferStep ==
    ASSUME LineInv, NEW n \in Notifier, Offer(n)
    PROVE  LineInv'
<1> USE DEF LineInv, treeVars
<1>0. /\ queue \in [Notifier -> Seq(Nat)] /\ hand \in [Notifier -> Nat] /\ got \in [Notifier -> Seq(Nat)]
      /\ lost \in [Notifier -> SUBSET Nat] /\ stream \in Seq(AnyEvent) /\ entry \in Seq(Nat)
      /\ worker \in [Notifier -> {"select", "notify", "panicked", "stopped"}]
      /\ TargetDone(n) /\ n \in targets /\ n \notin targets'
      /\ UNCHANGED <<publishing, stream, entry, got, settings, lost>>
  BY DEF NotifierTypes, Offer, TargetDone
<1>1. \/ /\ queue' = [queue EXCEPT ![n] = Append(@, broadcast)] /\ UNCHANGED <<worker, hand>>
         /\ settings.notifierBufferSize # 0
      \/ /\ worker[n] = "select" /\ hand[n] = 0 /\ queue[n] = << >>
         /\ worker' = [worker EXCEPT ![n] = "notify"]
         /\ hand' = [hand EXCEPT ![n] = broadcast]
         /\ UNCHANGED queue
  <2>1. settings.notifierBufferSize \in Nat /\ Len(queue[n]) \in Nat
    BY <1>0 DEF NotifierTypes
  <2> QED
    BY <2>1 DEF Offer, HasRoom, ChannelsKept
<1>2. OnlyOf(n)
  BY <1>0, <1>1 DEF OnlyOf
<1>3. /\ \A m \in Notifier \ {n} : Line(m)'
      /\ broadcast # 0 /\ broadcast \in Nat /\ broadcast \in 1 .. Len(stream)
      /\ broadcast' \in {0, broadcast} /\ (broadcast' = 0 => targets' = {})
      /\ targets' \subseteq targets
  BY <1>0, <1>2, TargetDoneOthers
<1>4. NotifierTypes'
  <2>1. Append(queue[n], broadcast) \in Seq(Nat)
    BY <1>0, <1>3
  <2>2. /\ queue' \in [Notifier -> Seq(Nat)] /\ hand' \in [Notifier -> Nat]
        /\ worker' \in [Notifier -> {"select", "notify", "panicked", "stopped"}]
    BY <1>0, <1>1, <1>3, <2>1, ZenonT(60)
  <2> QED
    BY <1>0, <1>3, <2>2 DEF NotifierTypes
<1>5. ChannelsKept'
  BY <1>0, <1>1, <1>3 DEF ChannelsKept
<1>6. EntryLine'
  BY <1>0, <1>3 DEF EntryLine, Increasing
<1>7. Line(n)'
  <2>1. \A i \in Nat : Before(n, i) => Before(n, i)' /\ i < broadcast
    BY <1>0 DEF Before
  <2>2. \A i \in Nat : i = broadcast => Before(n, i)'
    BY <1>0, <1>3 DEF Before, EntryLine
  <2>3. \A i \in Nat : Sent(n, i)' => Sent(n, i) \/ i = broadcast
    BY <1>0, <1>3 DEF Sent
  <2>4. got[n] \in Seq(Nat) /\ queue[n] \in Seq(Nat) /\ hand[n] \in Nat /\ lost[n] \subseteq Nat
    BY <1>0
  <2>5. \A i \in 1 .. Len(got[n]) : got[n][i] \in Nat
    BY <2>4
  <2>6. \A i \in 1 .. Len(queue[n]) : queue[n][i] \in Nat
    BY <2>4
  <2>7. CASE queue' = [queue EXCEPT ![n] = Append(@, broadcast)] /\ UNCHANGED <<worker, hand>>
    <3>1. queue'[n] = Append(queue[n], broadcast)
      BY <1>0, <2>7
    <3>2. Increasing(Append(queue[n], broadcast))
      BY <1>3, <2>1, <2>4, <2>6, AppendIncreases DEF Line, InLine
    <3>3. /\ \A k \in 1 .. Len(queue'[n]) : k \in 1 .. Len(queue[n]) \/ queue'[n][k] = broadcast
          /\ \A k \in 1 .. Len(queue[n]) : queue'[n][k] = queue[n][k] /\ k \in 1 .. Len(queue'[n])
          /\ \E k \in 1 .. Len(queue'[n]) : queue'[n][k] = broadcast
      BY <1>3, <2>4, <3>1, AppendOf
    <3>4. InLine(n)'
      <4>1. ASSUME NEW k \in 1 .. Len(queue'[n])
            PROVE  /\ Before(n, queue[n][k])' /\ hand[n] < queue'[n][k]
                   /\ \A i \in 1 .. Len(got[n]) : got[n][i] < queue'[n][k]
        <5>1. CASE k \in 1 .. Len(queue[n])
          BY <2>1, <2>6, <3>3, <5>1 DEF Line, InLine
        <5>2. CASE queue'[n][k] = broadcast
          <6>1. hand[n] < broadcast
            BY <1>3, <2>1, <2>4 DEF Line, InLine
          <6>2. \A i \in 1 .. Len(got[n]) : got[n][i] < broadcast
            BY <2>1, <2>5 DEF Line, InLine
          <6> QED
            BY <1>3, <2>2, <5>2, <6>1, <6>2
        <5> QED
          BY <3>3, <5>1, <5>2
      <4>2. Increasing(queue[n])'
        BY <3>1, <3>2 DEF Increasing
      <4>3. Increasing(got[n])'
        BY <1>0 DEF Line, InLine, Increasing
      <4>4. /\ \A i \in 1 .. Len(got[n]) : Before(n, got[n][i])'
            /\ hand[n] # 0 => Before(n, hand[n])' /\ \A i \in 1 .. Len(got[n]) : got[n][i] < hand[n]
        BY <1>0, <2>1, <2>4, <2>5, <2>7 DEF Line, InLine
      <4> QED
        BY <1>0, <2>7, <4>1, <4>2, <4>3, <4>4 DEF InLine
    <3>5. LostApart(n)'
      BY <1>0, <2>1, <2>4, <2>7, <3>3 DEF Line, LostApart
    <3>6. AllKnown(n)'
      BY <1>0, <2>3, <2>7, <3>3, ZenonT(60) DEF Line, AllKnown, Somewhere
    <3> QED
      BY <3>4, <3>5, <3>6 DEF Line
  <2>8. CASE /\ hand[n] = 0 /\ queue[n] = << >> /\ UNCHANGED queue
             /\ hand' = [hand EXCEPT ![n] = broadcast]
    <3>1. hand'[n] = broadcast
      BY <1>0, <2>8
    <3>2. InLine(n)'
      BY <1>0, <1>3, <2>1, <2>2, <2>4, <2>5, <2>8, <3>1 DEF Line, InLine, Increasing
    <3>3. LostApart(n)'
      BY <1>0, <2>1, <2>4, <2>8, <3>1 DEF Line, LostApart
    <3>4. AllKnown(n)'
      <4>1. \A i \in Nat : Sent(n, i) => i # 0
        BY DEF Sent
      <4> QED
        BY <1>0, <1>3, <2>3, <2>8, <3>1, <4>1 DEF Line, AllKnown, Somewhere
    <3> QED
      BY <3>2, <3>3, <3>4 DEF Line
  <2> QED
    BY <1>1, <2>7, <2>8
<1> QED
  BY <1>3, <1>4, <1>5, <1>6, <1>7

\* The entrypoint gives up on n: what it skips is lost.
LEMMA SkipNotifierStep ==
    ASSUME LineInv, NEW n \in Notifier, SkipNotifier(n)
    PROVE  LineInv'
<1> USE DEF LineInv, treeVars, workerVars
<1>0. /\ queue \in [Notifier -> Seq(Nat)] /\ hand \in [Notifier -> Nat] /\ got \in [Notifier -> Seq(Nat)]
      /\ lost \in [Notifier -> SUBSET Nat] /\ stream \in Seq(AnyEvent) /\ entry \in Seq(Nat)
      /\ TargetDone(n) /\ n \in targets /\ n \notin targets'
      /\ lost' = [lost EXCEPT ![n] = @ \cup {broadcast}]
      /\ UNCHANGED <<publishing, stream, entry, queue, worker, hand, got, settings>>
  BY DEF NotifierTypes, SkipNotifier, TargetDone
<1>1. OnlyOf(n)
  BY <1>0 DEF OnlyOf
<1>2. /\ \A m \in Notifier \ {n} : Line(m)'
      /\ broadcast # 0 /\ broadcast \in Nat /\ broadcast \in 1 .. Len(stream)
      /\ broadcast' \in {0, broadcast} /\ (broadcast' = 0 => targets' = {})
      /\ targets' \subseteq targets
  BY <1>0, <1>1, TargetDoneOthers
<1>3. NotifierTypes'
  BY <1>0, <1>2 DEF NotifierTypes
<1>4. ChannelsKept'
  BY <1>0, <1>2 DEF ChannelsKept
<1>5. EntryLine'
  BY <1>0, <1>2 DEF EntryLine, Increasing
<1>6. Line(n)'
  <2>1. \A i \in Nat : Before(n, i) => Before(n, i)' /\ i < broadcast
    BY <1>0 DEF Before
  <2>2. \A i \in Nat : i = broadcast => Before(n, i)'
    BY <1>0, <1>2 DEF Before, EntryLine
  <2>3. \A i \in Nat : Sent(n, i)' => Sent(n, i) \/ i = broadcast
    BY <1>0, <1>2 DEF Sent
  <2>4. got[n] \in Seq(Nat) /\ queue[n] \in Seq(Nat) /\ hand[n] \in Nat /\ lost[n] \subseteq Nat
    BY <1>0
  <2>5. \A i \in 1 .. Len(got[n]) : got[n][i] \in Nat
    BY <2>4
  <2>6. \A i \in 1 .. Len(queue[n]) : queue[n][i] \in Nat
    BY <2>4
  <2>7. lost'[n] = lost[n] \cup {broadcast}
    BY <1>0
  <2>8. InLine(n)'
    BY <1>0, <2>1, <2>4, <2>5, <2>6 DEF Line, InLine, Increasing
  <2>9. LostApart(n)'
    BY <1>0, <1>2, <2>1, <2>2, <2>4, <2>5, <2>6, <2>7 DEF Line, InLine, LostApart
  <2>10. AllKnown(n)'
    BY <1>0, <2>3, <2>7 DEF Line, AllKnown, Somewhere
  <2> QED
    BY <2>8, <2>9, <2>10 DEF Line
<1> QED
  BY <1>2, <1>3, <1>4, <1>5, <1>6

\* A step that leaves the entrypoint alone leaves what was sent alone.
LEMMA SameSent ==
    ASSUME NEW n \in Notifier, UNCHANGED entryVars
    PROVE  /\ \A i \in Nat : Before(n, i)' <=> Before(n, i)
           /\ \A i \in Nat : Sent(n, i)' <=> Sent(n, i)
           /\ \A i \in Nat : Sent(n, i) => i # 0
  BY DEF entryVars, Before, Sent

\* The worker receives the head of its queue.
LEMMA ReceiveStep ==
    ASSUME LineInv, NEW n \in Notifier, Receive(n)
    PROVE  LineInv'
<1> USE DEF LineInv, entryVars, treeVars
<1>0. /\ queue \in [Notifier -> Seq(Nat)] /\ hand \in [Notifier -> Nat] /\ got \in [Notifier -> Seq(Nat)]
      /\ lost \in [Notifier -> SUBSET Nat]
      /\ worker \in [Notifier -> {"select", "notify", "panicked", "stopped"}]
      /\ worker[n] = "select" /\ hand[n] = 0 /\ queue[n] # << >>
      /\ worker' = [worker EXCEPT ![n] = "notify"]
      /\ hand' = [hand EXCEPT ![n] = Head(queue[n])]
      /\ queue' = [queue EXCEPT ![n] = Tail(queue[n])]
      /\ UNCHANGED <<publishing, stream, entry, broadcast, targets, got, settings, lost>>
  BY DEF NotifierTypes, ChannelsKept, Receive
<1>1. OnlyOf(n)
  BY <1>0 DEF OnlyOf
<1>2. \A m \in Notifier \ {n} : Line(m)'
  BY <1>0, <1>1, SameLine DEF OnlyOf
<1>3. /\ queue[n] \in Seq(Nat) /\ Head(queue[n]) \in Nat /\ Tail(queue[n]) \in Seq(Nat)
      /\ Head(queue[n]) = queue[n][1] /\ 1 \in 1 .. Len(queue[n])
      /\ \A k \in 1 .. Len(Tail(queue[n])) :
            Tail(queue[n])[k] = queue[n][k + 1] /\ k + 1 \in 1 .. Len(queue[n])
      /\ \A k \in 1 .. Len(queue[n]) :
            k = 1 \/ (k - 1 \in 1 .. Len(Tail(queue[n])) /\ Tail(queue[n])[k - 1] = queue[n][k])
  BY <1>0, TailOf
<1>4. hand'[n] = Head(queue[n]) /\ queue'[n] = Tail(queue[n]) /\ Head(queue[n]) # 0
  BY <1>0, <1>3 DEF Line, InLine, Before
<1>5. NotifierTypes'
  BY <1>0, <1>3 DEF NotifierTypes
<1>6. ChannelsKept'
  BY <1>0, <1>4 DEF ChannelsKept
<1>7. EntryLine'
  BY <1>0 DEF EntryLine, Increasing
<1>8. Line(n)'
  <2>1. \A i \in Nat : Before(n, i) => Before(n, i)'
    BY <1>0, SameSent
  <2>2. /\ got[n] \in Seq(Nat) /\ lost[n] \subseteq Nat
        /\ \A i \in 1 .. Len(got[n]) : got[n][i] \in Nat
        /\ \A i \in 1 .. Len(queue[n]) : queue[n][i] \in Nat
    BY <1>0
  <2>3. Increasing(Tail(queue[n])) /\ \A k \in 1 .. Len(Tail(queue[n])) : Head(queue[n]) < Tail(queue[n])[k]
    BY <1>0, <1>3, TailIncreases DEF Line, InLine
  <2>4. InLine(n)'
    <3>1. Increasing(queue[n])' /\ Increasing(got[n])'
      BY <1>0, <1>4, <2>3 DEF Line, InLine, Increasing
    <3>2. /\ \A i \in 1 .. Len(got[n]) : Before(n, got[n][i])'
          /\ Before(n, hand[n])' /\ \A i \in 1 .. Len(got[n]) : got[n][i] < hand'[n]
      BY <1>0, <1>3, <1>4, <2>1, <2>2 DEF Line, InLine
    <3>3. ASSUME NEW k \in 1 .. Len(queue'[n])
          PROVE  /\ Before(n, queue[n][k])' /\ hand'[n] < queue'[n][k]
                 /\ \A i \in 1 .. Len(got[n]) : got[n][i] < queue'[n][k]
      BY <1>3, <1>4, <2>1, <2>2, <2>3, SMTT(60) DEF Line, InLine
    <3> QED
      BY <1>0, <3>1, <3>2, <3>3 DEF InLine
  <2>5. LostApart(n)'
    BY <1>0, <1>3, <1>4, <2>1, <2>2 DEF Line, LostApart
  <2>6. AllKnown(n)'
    <3> SUFFICES ASSUME NEW i \in Nat, Sent(n, i)'
                 PROVE  Somewhere(n, i)'
      BY DEF AllKnown
    <3>1. Somewhere(n, i) /\ i # 0
      BY <1>0, SameSent DEF Line, AllKnown
    <3>2. CASE \E k \in 1 .. Len(queue[n]) : queue[n][k] = i
      <4>1. PICK k \in 1 .. Len(queue[n]) : queue[n][k] = i
        BY <3>2
      <4>2. CASE k = 1
        BY <1>3, <1>4, <4>1, <4>2 DEF Somewhere
      <4>3. CASE k # 1
        <5>1. k - 1 \in 1 .. Len(queue'[n]) /\ queue'[n][k - 1] = i
          BY <1>3, <1>4, <4>1, <4>3
        <5> QED
          BY <5>1 DEF Somewhere
      <4> QED
        BY <4>2, <4>3
    <3>3. CASE ~\E k \in 1 .. Len(queue[n]) : queue[n][k] = i
      BY <1>0, <3>1, <3>3 DEF Somewhere
    <3> QED
      BY <3>2, <3>3
  <2> QED
    BY <2>4, <2>5, <2>6 DEF Line
<1> QED
  BY <1>2, <1>5, <1>6, <1>7, <1>8

\* The notifier's function returns: the event goes from the hand to the events
\* got, or nowhere if the criterion rejects it.
LEMMA ReturnsStep ==
    ASSUME LineInv, NEW n \in Notifier, NotifierReturns(n)
    PROVE  LineInv'
<1> USE DEF LineInv, entryVars, treeVars
<1>0. /\ queue \in [Notifier -> Seq(Nat)] /\ hand \in [Notifier -> Nat] /\ got \in [Notifier -> Seq(Nat)]
      /\ lost \in [Notifier -> SUBSET Nat]
      /\ worker \in [Notifier -> {"select", "notify", "panicked", "stopped"}]
      /\ worker[n] = "notify" /\ hand[n] # 0
      /\ worker' = [worker EXCEPT ![n] = "select"]
      /\ hand' = [hand EXCEPT ![n] = 0]
      /\ \/ got' = [got EXCEPT ![n] = Append(got[n], hand[n])]
         \/ got' = got /\ stream[hand[n]] \notin Criterion[n]
      /\ UNCHANGED <<publishing, stream, entry, broadcast, targets, queue, settings, lost>>
  BY DEF NotifierTypes, ChannelsKept, NotifierReturns, Accepts
<1>1. OnlyOf(n)
  BY <1>0 DEF OnlyOf
<1>2. \A m \in Notifier \ {n} : Line(m)'
  BY <1>0, <1>1, SameLine DEF OnlyOf
<1>3. /\ got[n] \in Seq(Nat) /\ queue[n] \in Seq(Nat) /\ hand[n] \in Nat /\ lost[n] \subseteq Nat
      /\ \A i \in 1 .. Len(got[n]) : got[n][i] \in Nat
      /\ \A i \in 1 .. Len(queue[n]) : queue[n][i] \in Nat
  BY <1>0
<1>4. Append(got[n], hand[n]) \in Seq(Nat)
  BY <1>3
<1>5. NotifierTypes'
  BY <1>0, <1>4 DEF NotifierTypes
<1>6. ChannelsKept'
  BY <1>0 DEF ChannelsKept
<1>7. EntryLine'
  BY <1>0 DEF EntryLine, Increasing
<1>8. Line(n)'
  <2>1. \A i \in Nat : Before(n, i) => Before(n, i)'
    BY <1>0, SameSent
  <2>2. hand'[n] = 0
    BY <1>0
  <2>3. CASE got' = [got EXCEPT ![n] = Append(got[n], hand[n])]
    <3>1. got'[n] = Append(got[n], hand[n])
      BY <1>0, <2>3
    <3>2. Increasing(Append(got[n], hand[n]))
      BY <1>0, <1>3, AppendIncreases DEF Line, InLine
    <3>3. /\ \A k \in 1 .. Len(got'[n]) : k \in 1 .. Len(got[n]) \/ got'[n][k] = hand[n]
          /\ \A k \in 1 .. Len(got[n]) : got'[n][k] = got[n][k] /\ k \in 1 .. Len(got'[n])
          /\ \E k \in 1 .. Len(got'[n]) : got'[n][k] = hand[n]
      BY <1>3, <3>1, AppendOf, SMTT(30)
    <3>4. InLine(n)'
      <4>1. Increasing(queue[n])' /\ Increasing(got[n])'
        BY <1>0, <3>1, <3>2 DEF Line, InLine, Increasing
      <4>2. \A i \in 1 .. Len(got'[n]) : Before(n, got[n][i])'
        BY <1>0, <1>3, <2>1, <3>3 DEF Line, InLine
      <4>3. ASSUME NEW k \in 1 .. Len(queue[n])
            PROVE  /\ Before(n, queue[n][k])' /\ 0 < queue[n][k]
                   /\ \A i \in 1 .. Len(got'[n]) : got'[n][i] < queue[n][k]
        <5>1. /\ Before(n, queue[n][k]) /\ hand[n] < queue[n][k] /\ queue[n][k] \in Nat
              /\ \A i \in 1 .. Len(got[n]) : got[n][i] < queue[n][k]
          BY <1>0, <1>3 DEF Line, InLine
        <5>2. Before(n, queue[n][k])'
          BY <1>0, <2>1, <5>1
        <5>3. 0 < queue[n][k]
          BY <1>3, <5>1
        <5>4. \A i \in 1 .. Len(got'[n]) : got'[n][i] < queue[n][k]
          BY <3>3, <5>1
        <5> QED
          BY <5>2, <5>3, <5>4
      <4> QED
        BY <1>0, <2>2, <4>1, <4>2, <4>3 DEF InLine
    <3>5. LostApart(n)'
      BY <1>0, <1>3, <2>1, <2>2, <3>3, SMTT(30) DEF Line, LostApart, Before
    <3>6. AllKnown(n)'
      <4> SUFFICES ASSUME NEW i \in Nat, Sent(n, i)'
                   PROVE  Somewhere(n, i)'
        BY DEF AllKnown
      <4>1. Somewhere(n, i)
        BY <1>0, SameSent DEF Line, AllKnown
      <4> QED
        BY <1>0, <3>3, <4>1 DEF Somewhere
    <3> QED
      BY <3>4, <3>5, <3>6 DEF Line
  <2>4. CASE got' = got /\ stream[hand[n]] \notin Criterion[n]
    <3>1. InLine(n)'
      <4>1. Increasing(queue[n])' /\ Increasing(got[n])'
        BY <1>0, <2>4 DEF Line, InLine, Increasing
      <4>2. \A k \in 1 .. Len(queue[n]) : 0 < queue[n][k]
        BY <1>0, <1>3 DEF Line, InLine
      <4> QED
        BY <1>0, <1>3, <2>1, <2>2, <2>4, <4>1, <4>2 DEF Line, InLine
    <3>2. LostApart(n)'
      BY <1>0, <1>3, <2>1, <2>2, <2>4 DEF Line, LostApart, Before
    <3>3. AllKnown(n)'
      <4> SUFFICES ASSUME NEW i \in Nat, Sent(n, i)'
                   PROVE  Somewhere(n, i)'
        BY DEF AllKnown
      <4>1. Somewhere(n, i)
        BY <1>0, SameSent DEF Line, AllKnown
      <4> QED
        BY <1>0, <2>4, <4>1 DEF Somewhere
    <3> QED
      BY <3>1, <3>2, <3>3 DEF Line
  <2> QED
    BY <1>0, <2>3, <2>4
<1> QED
  BY <1>2, <1>5, <1>6, <1>7, <1>8

\* What is in the worker's hand is lost with it.
LEMMA HandLost ==
    ASSUME LineInv, NEW n \in Notifier, UNCHANGED entryVars,
           queue'[n] = queue[n], got'[n] = got[n], hand'[n] = 0,
           lost'[n] = lost[n] \cup (IF hand[n] = 0 THEN {} ELSE {hand[n]})
    PROVE  Line(n)'
<1> USE DEF LineInv
<1>1. /\ got[n] \in Seq(Nat) /\ queue[n] \in Seq(Nat) /\ hand[n] \in Nat /\ lost[n] \subseteq Nat
      /\ \A i \in 1 .. Len(got[n]) : got[n][i] \in Nat
      /\ \A i \in 1 .. Len(queue[n]) : queue[n][i] \in Nat
      /\ UNCHANGED <<stream, entry, broadcast, targets>>
  BY DEF NotifierTypes, entryVars
<1>2. /\ \A i \in Nat : Before(n, i) => Before(n, i)'
      /\ \A i \in Nat : Sent(n, i)' => Sent(n, i) /\ i # 0
      /\ \A i \in Nat : Before(n, i) => i # 0
  BY SameSent DEF Before
<1>3. InLine(n)'
  <2>1. Increasing(queue[n])' /\ Increasing(got[n])'
    BY DEF Line, InLine, Increasing
  <2>2. \A i \in 1 .. Len(got[n]) : Before(n, got[n][i])'
    BY <1>1, <1>2 DEF Line, InLine
  <2>3. ASSUME NEW k \in 1 .. Len(queue[n])
        PROVE  /\ Before(n, queue[n][k])' /\ 0 < queue[n][k]
               /\ \A i \in 1 .. Len(got[n]) : got[n][i] < queue[n][k]
    BY <1>1, <1>2 DEF Line, InLine
  <2> QED
    BY <2>1, <2>2, <2>3 DEF InLine
<1>4. LostApart(n)'
  <2> SUFFICES ASSUME NEW i \in lost'[n]
               PROVE  /\ Before(n, i)' /\ i # 0
                      /\ \A k \in 1 .. Len(got[n]) : got[n][k] # i
                      /\ \A k \in 1 .. Len(queue[n]) : queue[n][k] # i
    BY DEF LostApart
  <2>1. CASE i \in lost[n]
    BY <1>1, <1>2, <2>1 DEF Line, LostApart
  <2>2. CASE hand[n] # 0 /\ i = hand[n]
    <3>1. Before(n, hand[n])
      BY <2>2 DEF Line, InLine
    <3>2. Before(n, i)' /\ i # 0
      BY <1>1, <1>2, <2>2, <3>1
    <3>3. /\ \A k \in 1 .. Len(got[n]) : got[n][k] < hand[n]
          /\ \A k \in 1 .. Len(queue[n]) : hand[n] < queue[n][k]
      BY <2>2 DEF Line, InLine
    <3> QED
      BY <1>1, <2>2, <3>2, <3>3
  <2> QED
    BY <2>1, <2>2
<1>5. AllKnown(n)'
  <2> SUFFICES ASSUME NEW i \in Nat, Sent(n, i)'
               PROVE  Somewhere(n, i)'
    BY DEF AllKnown
  <2>1. Somewhere(n, i) /\ i # 0
    BY <1>2 DEF Line, AllKnown
  <2> QED
    BY <1>1, <2>1 DEF Somewhere
<1> QED
  BY <1>3, <1>4, <1>5 DEF Line

\* The notifier's function panics.
LEMMA PanicsStep ==
    ASSUME LineInv, NEW n \in Notifier, NotifierPanics(n)
    PROVE  LineInv'
<1> USE DEF LineInv, treeVars
<1>0. /\ hand \in [Notifier -> Nat] /\ lost \in [Notifier -> SUBSET Nat]
      /\ worker \in [Notifier -> {"select", "notify", "panicked", "stopped"}]
      /\ worker[n] = "notify" /\ hand[n] # 0
      /\ worker' = [worker EXCEPT ![n] = "panicked"]
      /\ hand' = [hand EXCEPT ![n] = 0]
      /\ lost' = [lost EXCEPT ![n] = @ \cup {hand[n]}]
      /\ UNCHANGED <<publishing, stream, entry, broadcast, targets, queue, got, settings>>
  BY DEF NotifierTypes, ChannelsKept, NotifierPanics, LoseEvent, entryVars
<1>1. OnlyOf(n)
  BY <1>0 DEF OnlyOf
<1>2. \A m \in Notifier \ {n} : Line(m)'
  BY <1>0, <1>1, SameLine DEF OnlyOf
<1>3. hand[n] \in Nat /\ lost'[n] = lost[n] \cup {hand[n]} /\ hand'[n] = 0
  BY <1>0
<1>4. Line(n)'
  BY <1>0, <1>3, HandLost DEF entryVars
<1>5. NotifierTypes'
  BY <1>0, <1>3 DEF NotifierTypes
<1>6. ChannelsKept'
  BY <1>0 DEF ChannelsKept
<1>7. EntryLine'
  BY <1>0 DEF EntryLine, Increasing
<1> QED
  BY <1>2, <1>4, <1>5, <1>6, <1>7

\* All the workers are stopped, whatever becomes of them then.
LEMMA StopStep ==
    ASSUME LineInv, StopWorkers, UNCHANGED <<publishing, entryVars, queue, settings, got>>,
           worker' \in [Notifier -> {"select", "stopped"}]
    PROVE  LineInv'
<1> USE DEF LineInv
<1>0. /\ hand' = [n \in Notifier |-> 0]
      /\ lost' = [n \in Notifier |-> lost[n] \cup (IF hand[n] = 0 THEN {} ELSE {hand[n]})]
      /\ UNCHANGED <<stream, entry, broadcast, targets>>
  BY DEF StopWorkers, LeftBehind, entryVars
<1>1. ASSUME NEW n \in Notifier
      PROVE  Line(n)'
  <2>1. /\ queue'[n] = queue[n] /\ got'[n] = got[n] /\ hand'[n] = 0
        /\ lost'[n] = lost[n] \cup (IF hand[n] = 0 THEN {} ELSE {hand[n]})
    BY <1>0
  <2> QED
    BY <2>1, HandLost
<1>2. \A n \in Notifier : hand[n] \in Nat /\ lost[n] \subseteq Nat
  BY DEF NotifierTypes
<1>3. /\ hand' \in [Notifier -> Nat] /\ lost' \in [Notifier -> SUBSET Nat]
      /\ worker' \in [Notifier -> {"select", "notify", "panicked", "stopped"}]
  BY <1>0, <1>2
<1>4. NotifierTypes'
  BY <1>0, <1>3 DEF NotifierTypes
<1>5. ChannelsKept'
  BY <1>0 DEF ChannelsKept
<1>6. EntryLine'
  BY <1>0 DEF EntryLine, Increasing
<1> QED
  BY <1>1, <1>4, <1>5, <1>6

\* A step that leaves the events and the channels alone.
LEMMA EventsAlone ==
    ASSUME LineInv, UNCHANGED <<entryVars, queue, hand, got, settings, lost>>,
           publishing' \in [Publisher -> AnyEvent \cup {Nothing}],
           worker' \in [Notifier -> {"select", "notify", "panicked", "stopped"}],
           \A n \in Notifier : worker'[n] = "notify" <=> worker[n] = "notify"
    PROVE  LineInv'
<1> USE DEF LineInv, entryVars
<1>0. UNCHANGED <<stream, entry, broadcast, targets, queue, hand, got, settings, lost>>
  OBVIOUS
<1>1. NotifierTypes'
  BY <1>0 DEF NotifierTypes
<1>2. ChannelsKept' /\ EntryLine'
  BY <1>0 DEF ChannelsKept, EntryLine, Increasing
<1>3. \A n \in Notifier : Line(n)'
  BY SameLine
<1> QED
  BY <1>1, <1>2, <1>3

\* Every step of the notifier.
LEMMA LineStep ==
    ASSUME LineInv, [MonNext]_monVars
    PROVE  LineInv'
<1>0. /\ publishing \in [Publisher -> AnyEvent \cup {Nothing}]
      /\ worker \in [Notifier -> {"select", "notify", "panicked", "stopped"}]
  BY DEF LineInv, NotifierTypes
<1>1. ASSUME NEW p \in Publisher, NEW ev \in AnyEvent, Notify(p, ev)
      PROVE  LineInv'
  <2>1. /\ publishing' \in [Publisher -> AnyEvent \cup {Nothing}]
        /\ UNCHANGED <<entryVars, queue, worker, hand, got, settings, lost>>
    BY <1>0, <1>1 DEF Notify, workerVars, treeVars
  <2> QED
    BY <1>0, <2>1, EventsAlone
<1>2. ASSUME NEW n \in Notifier, RestartWorker(n)
      PROVE  LineInv'
  <2>1. /\ worker[n] = "panicked" /\ worker' = [worker EXCEPT ![n] = "select"]
        /\ UNCHANGED <<publishing, entryVars, queue, hand, got, settings, lost>>
    BY <1>2 DEF RestartWorker
  <2>2. /\ worker' \in [Notifier -> {"select", "notify", "panicked", "stopped"}]
        /\ \A m \in Notifier : worker'[m] = "notify" <=> worker[m] = "notify"
    BY <1>0, <2>1
  <2> QED
    BY <1>0, <2>1, <2>2, EventsAlone
<1>3. CASE RestartSubtree \/ RootGivesUp \/ CancelNotifier
  <2>1. /\ StopWorkers /\ UNCHANGED <<publishing, entryVars, queue, settings, got>>
        /\ worker' \in [Notifier -> {"select", "stopped"}]
    BY <1>3 DEF RestartSubtree, RootGivesUp, CancelNotifier, SubtreeGivesUp, KeptQueues
  <2> QED
    BY <2>1, StopStep
<1>4. CASE StopEntrypoint
  BY <1>0, <1>4, EventsAlone DEF StopEntrypoint, workerVars
<1>5. CASE UNCHANGED monVars
  BY <1>0, <1>5, EventsAlone DEF monVars, notifierVars, workerVars, treeVars
<1>6. ASSUME NEW n \in Notifier,
             Offer(n) \/ SkipNotifier(n) \/ Receive(n) \/ NotifierPanics(n) \/ NotifierReturns(n)
      PROVE  LineInv'
  BY <1>6, OfferStep, SkipNotifierStep, ReceiveStep, PanicsStep, ReturnsStep
<1>7. CASE HealthReturns
  BY <1>6, <1>7, MonitoringAssumption DEF HealthReturns
<1> QED
  BY <1>1, <1>2, <1>3, <1>4, <1>5, <1>6, <1>7, EnterStep, TakeEntryStep
     DEF MonNext, OfTree, SupervisorNotifies

\* At the start nothing was sent.
LEMMA LineInit ==
    ASSUME MonInit
    PROVE  LineInv
<1> USE NotifierAssumption DEF MonInit, NotifierInit
<1>1. NotifierTypes
  <2>1. settings \in [entrypointBufferSize : Nat, notifierBufferSize : Nat]
    OBVIOUS
  <2>2. stream \in Seq(AnyEvent) /\ entry \in Seq(Nat)
    OBVIOUS
  <2>3. publishing \in [Publisher -> AnyEvent \cup {Nothing}]
    OBVIOUS
  <2>4. queue \in [Notifier -> Seq(Nat)] /\ got \in [Notifier -> Seq(Nat)]
    <3>1. << >> \in Seq(Nat)
      OBVIOUS
    <3> QED
      BY <3>1
  <2> QED
    BY <2>1, <2>2, <2>3, <2>4 DEF NotifierTypes
<1>2. ChannelsKept /\ EntryLine
  BY DEF ChannelsKept, EntryLine, Increasing
<1>3. \A n \in Notifier : Line(n)
  BY DEF Line, InLine, LostApart, AllKnown, Sent, Increasing
<1> QED
  BY <1>1, <1>2, <1>3 DEF LineInv

-----------------------------------------------------------------------------
(* What the line says.                                                     *)

\* A notifier sees the events in the order in which they were notified,
\* whatever panics and restarts come between.
THEOREM EventsInOrder == MonSpec => []OrderKept
<1>1. LineInv => OrderKept
  BY DEF LineInv, Line, InLine, Increasing, OrderKept
<1> QED
  BY <1>1, LineInit, LineStep, PTL DEF MonSpec

\* The elements of a queue.
LEMMA Members ==
    ASSUME NEW s \in Seq(Nat), NEW i
    PROVE  i \in ToSet(s) <=> \E k \in 1 .. Len(s) : s[k] = i
  BY DEF ToSet

\* An event that was sent to a notifier is in one of its places: its queue, its
\* hand, what it got, what was lost; or its criterion rejected it.
THEOREM EveryLossIsKnown == MonSpec => []NothingLostSilently
<1>1. ASSUME LineInv, NEW n \in Notifier, NEW i \in SentTo(n)
      PROVE  LET occupied == {k \in 1 .. 4 : Places(n, i)[k]} IN
                \/ Cardinality(occupied) = 1
                \/ occupied = {} /\ stream[i] \notin Criterion[n]
  <2> DEFINE inQueue == i \in ToSet(queue[n])
             inHand == hand[n] = i
             inGot == i \in ToSet(got[n])
             inLost == i \in lost[n]
             occupied == {k \in 1 .. 4 : Places(n, i)[k]}
  <2>1. /\ got[n] \in Seq(Nat) /\ queue[n] \in Seq(Nat) /\ hand[n] \in Nat /\ lost[n] \subseteq Nat
        /\ \A k \in 1 .. Len(got[n]) : got[n][k] \in Nat
        /\ \A k \in 1 .. Len(queue[n]) : queue[n][k] \in Nat
        /\ Line(n)
    BY <1>1 DEF LineInv, NotifierTypes
  <2>2. /\ inQueue <=> \E k \in 1 .. Len(queue[n]) : queue[n][k] = i
        /\ inGot <=> \E k \in 1 .. Len(got[n]) : got[n][k] = i
    BY <2>1, Members
  <2>3. i \in Nat /\ i # 0 /\ Sent(n, i)
    BY <1>1 DEF SentTo, Sent
  <2>4. Somewhere(n, i)
    BY <2>1, <2>3 DEF Line, AllKnown
  <2>5. inQueue \/ inHand \/ inGot \/ inLost \/ stream[i] \notin Criterion[n]
    BY <2>2, <2>4 DEF Somewhere
  <2>6. /\ inLost => ~inQueue /\ ~inHand /\ ~inGot
        /\ inQueue => ~inHand /\ ~inGot
        /\ inHand => ~inGot
    <3>1. inLost => ~inQueue /\ ~inHand /\ ~inGot
      BY <2>1, <2>2 DEF Line, LostApart
    <3>2. inQueue => ~inHand /\ ~inGot
      <4>1. /\ \A k \in 1 .. Len(queue[n]) : hand[n] < queue[n][k]
            /\ \A k \in 1 .. Len(queue[n]) : \A j \in 1 .. Len(got[n]) : got[n][j] < queue[n][k]
        BY <2>1 DEF Line, InLine
      <4> QED
        BY <2>1, <2>2, <2>3, <4>1, SMTT(30)
    <3>3. inHand => ~inGot
      BY <2>1, <2>2, <2>3, SMTT(30) DEF Line, InLine
    <3> QED
      BY <3>1, <3>2, <3>3
  <2>7. /\ Places(n, i)[1] <=> inQueue
        /\ Places(n, i)[2] <=> inHand
        /\ Places(n, i)[3] <=> inGot
        /\ Places(n, i)[4] <=> inLost
    BY DEF Places
  <2>8. /\ 1 \in occupied <=> inQueue
        /\ 2 \in occupied <=> inHand
        /\ 3 \in occupied <=> inGot
        /\ 4 \in occupied <=> inLost
        /\ \A k \in occupied : k = 1 \/ k = 2 \/ k = 3 \/ k = 4
    <3> HIDE DEF inQueue, inHand, inGot, inLost
    <3>1. 1 \in 1 .. 4 /\ 2 \in 1 .. 4 /\ 3 \in 1 .. 4 /\ 4 \in 1 .. 4
      OBVIOUS
    <3>2. \A k \in 1 .. 4 : k = 1 \/ k = 2 \/ k = 3 \/ k = 4
      OBVIOUS
    <3> QED
      BY <2>7, <3>1, <3>2, Zenon
  <2> HIDE DEF inQueue, inHand, inGot, inLost, occupied
  <2>9. inQueue => occupied = {1}
    BY <2>6, <2>8, Zenon
  <2>10. inHand => occupied = {2}
    BY <2>6, <2>8, Zenon
  <2>11. inGot => occupied = {3}
    BY <2>6, <2>8, Zenon
  <2>12. inLost => occupied = {4}
    BY <2>6, <2>8, Zenon
  <2>13. CASE inQueue \/ inHand \/ inGot \/ inLost
    <3>1. \A k \in Nat : Cardinality({k}) = 1
      BY FS_Singleton
    <3>2. 1 \in Nat /\ 2 \in Nat /\ 3 \in Nat /\ 4 \in Nat
      OBVIOUS
    <3>3. Cardinality(occupied) = 1
      BY <2>9, <2>10, <2>11, <2>12, <2>13, <3>1, <3>2, Zenon
    <3> QED
      BY <3>3 DEF occupied
  <2>14. CASE ~(inQueue \/ inHand \/ inGot \/ inLost)
    <3>1. stream[i] \notin Criterion[n]
      BY <2>5, <2>14, Zenon
    <3>2. occupied = {}
      BY <2>8, <2>14, Zenon
    <3> QED
      BY <3>1, <3>2 DEF occupied
  <2> QED
    BY <2>13, <2>14
<1>2. LineInv => NothingLostSilently
  BY <1>1 DEF NothingLostSilently
<1> QED
  BY <1>2, LineInit, LineStep, PTL DEF MonSpec-----------------------------------------------------------------------------
(* What is said of a process, and what the health check remembers of it.   *)

\* After a failure a process is said to have started before anything else is
\* said of it, failed starts aside.
FailedThenStarted ==
    \A i, j \in 1 .. Len(stream) :
        /\ i < j /\ stream[i].name = stream[j].name
        /\ stream[i].tag = "ProcessFailed"
        /\ stream[j].tag \notin {"ProcessStarted", "ProcessStartFailed"}
        => \E k \in i + 1 .. j - 1 :
              stream[k].name = stream[i].name /\ stream[k].tag = "ProcessStarted"

\* What a supervisor is about to say may follow, and nobody else speaks of it.
ToldInTurn ==
    \A p \in Publisher : publishing[p] # Nothing =>
        /\ MayFollow(LastTag(publishing[p].name), publishing[p])
        /\ \A q \in Publisher :
              publishing[q] # Nothing /\ publishing[q].name = publishing[p].name => q = p

\* The events that HandleEvent acts on.
Counts(ev) == ev.tag \in {"ProcessFailed", "ProcessStarted"}
Handled(i) == \E k \in 1 .. Len(got[Health]) : got[Health][k] = i
Remembered ==
    {i \in 1 .. Len(stream) :
        /\ Handled(i) /\ stream[i].tag = "ProcessFailed"
        /\ \A j \in i + 1 .. Len(stream) :
              ~(Handled(j) /\ stream[j].name = stream[i].name /\ Counts(stream[j]))}
HealthRemembers == failedEvs = {[name |-> stream[i].name, id |-> i] : i \in Remembered}

HealthInv == FailedThenStarted /\ ToldInTurn /\ HealthRemembers


\* A set of places that is not empty has a last one.
LEMMA LastPlace ==
    ASSUME NEW N \in Nat, NEW s \in SUBSET (1 .. N), s # {}
    PROVE  Max(s) \in s /\ \A i \in s : i <= Max(s)
<1> DEFINE Less == {ss \in Nat \X Nat : ss[1] < ss[2]}
           T == {N - i : i \in s}
<1>1. IsWellFoundedOn(Less, Nat)
  BY NatLessThanWellFounded DEF OpToRel
<1>0. \A i \in s : i \in Nat /\ i <= N
  OBVIOUS
<1>2. T \subseteq Nat /\ \E x \in T : TRUE
  <2>1. PICK i \in s : TRUE
    OBVIOUS
  <2>2. \A j \in s : N - j \in Nat
    BY <1>0
  <2> QED
    BY <2>1, <2>2
<1>3. PICK x \in T : \A y \in T : <<y, x>> \notin Less
  <2> HIDE DEF Less, T
  <2> QED
    BY <1>1, <1>2, WFMin
<1>4. PICK m \in s : x = N - m
  BY <1>3
<1>5. \A i \in s : m >= i
  <2> SUFFICES ASSUME NEW i \in s
               PROVE  m >= i
    OBVIOUS
  <2>1. N - i \in T /\ N - i \in Nat /\ N - m \in Nat
    OBVIOUS
  <2>2. ~(N - i < N - m)
    BY <1>3, <1>4, <2>1
  <2>3. i \in Nat /\ m \in Nat
    BY <1>0
  <2> QED
    BY <2>2, <2>3
<1>6. Max(s) \in s /\ \A i \in s : Max(s) >= i
  BY <1>5 DEF Max
<1> QED
  BY <1>6

\* The last that was said of a process.
LEMMA LastOfFacts ==
    ASSUME LineInv, NEW name, Told(name) # {}
    PROVE  /\ LastOf(name) \in Told(name) /\ LastOf(name) \in 1 .. Len(stream)
           /\ \A i \in Told(name) : i <= LastOf(name)
           /\ LastTag(name) = stream[LastOf(name)].tag
<1>1. Len(stream) \in Nat /\ Told(name) \in SUBSET (1 .. Len(stream))
  BY DEF LineInv, NotifierTypes, Told
<1> QED
  BY <1>1, LastPlace DEF LastOf, LastTag, Told

\* What one process does says nothing of another.
LEMMA ToldOfOthers ==
    ASSUME LineInv, NEW ev \in AnyEvent, stream' = Append(stream, ev), NEW name, ev.name # name
    PROVE  LastTag(name)' = LastTag(name)
<1>1. /\ stream \in Seq(AnyEvent) /\ Len(stream) \in Nat /\ Len(stream') = Len(stream) + 1
      /\ \A i \in 1 .. Len(stream) : stream'[i] = stream[i] /\ i \in 1 .. Len(stream')
      /\ stream'[Len(stream')] = ev
      /\ \A i \in 1 .. Len(stream') : i \in 1 .. Len(stream) \/ i = Len(stream')
  BY DEF LineInv, NotifierTypes
<1>2. Told(name)' = Told(name)
  BY <1>1 DEF Told
<1>3. CASE Told(name) = {}
  BY <1>2, <1>3 DEF LastTag
<1>4. CASE Told(name) # {}
  <2>1. LastOf(name) \in 1 .. Len(stream) /\ LastOf(name)' = LastOf(name)
    BY <1>2, <1>4, LastOfFacts DEF LastOf
  <2> QED
    BY <1>1, <1>2, <1>4, <2>1 DEF LastTag
<1> QED
  BY <1>3, <1>4

\* The event of a supervisor enters.
LEMMA HealthEnter ==
    ASSUME LineInv, HealthInv, NEW p \in Publisher, Enter(p), UNCHANGED failedEvs
    PROVE  HealthInv'
<1> DEFINE ev == publishing[p]
<1>1. /\ ev \in AnyEvent /\ ev # Nothing /\ stream' = Append(stream, ev)
      /\ publishing' = [publishing EXCEPT ![p] = Nothing] /\ got' = got
      /\ publishing \in [Publisher -> AnyEvent \cup {Nothing}]
  BY DEF LineInv, NotifierTypes, Enter, workerVars
<1>2. /\ Len(stream) \in Nat /\ Len(stream') = Len(stream) + 1
      /\ \A i \in 1 .. Len(stream) : stream'[i] = stream[i] /\ i \in 1 .. Len(stream')
      /\ stream'[Len(stream')] = ev
      /\ \A i \in 1 .. Len(stream') : i \in 1 .. Len(stream) \/ i = Len(stream')
  BY <1>1 DEF LineInv, NotifierTypes
<1>3. MayFollow(LastTag(ev.name), ev)
  BY <1>1 DEF HealthInv, ToldInTurn
<1> HIDE DEF ev
<1>4. FailedThenStarted'
  <2> SUFFICES ASSUME NEW i \in 1 .. Len(stream'), NEW j \in 1 .. Len(stream'),
                      i < j, stream'[i].name = stream'[j].name, stream'[i].tag = "ProcessFailed",
                      stream'[j].tag \notin {"ProcessStarted", "ProcessStartFailed"}
               PROVE  \E k \in i + 1 .. j - 1 :
                         stream'[k].name = stream'[i].name /\ stream'[k].tag = "ProcessStarted"
    BY DEF FailedThenStarted
  <2>1. i \in 1 .. Len(stream) /\ stream'[i] = stream[i]
    BY <1>2
  <2>2. CASE j \in 1 .. Len(stream)
    <3>1. PICK k \in i + 1 .. j - 1 : stream[k].name = stream[i].name /\ stream[k].tag = "ProcessStarted"
      BY <1>2, <2>1, <2>2 DEF HealthInv, FailedThenStarted
    <3>2. k \in 1 .. Len(stream)
      BY <1>2, <2>1, <2>2
    <3> QED
      BY <1>2, <2>1, <3>1, <3>2
  <2>3. CASE j = Len(stream')
    <3>1. i \in Told(ev.name)
      BY <1>2, <2>1, <2>3 DEF Told
    <3> DEFINE k == LastOf(ev.name)
    <3>2. /\ k \in 1 .. Len(stream) /\ i <= k /\ stream[k].name = ev.name
          /\ LastTag(ev.name) = stream[k].tag
      BY <3>1, LastOfFacts DEF Told
    <3>3. stream[k].tag = "ProcessStarted"
      BY <1>2, <1>3, <2>3, <3>2 DEF MayFollow
    <3>4. k # i
      BY <2>1, <3>3
    <3> HIDE DEF k
    <3>5. k \in i + 1 .. j - 1
      BY <1>2, <2>3, <3>2, <3>4
    <3> QED
      BY <1>2, <2>1, <2>3, <3>2, <3>3, <3>5
  <2> QED
    BY <1>2, <2>2, <2>3
<1>5. ToldInTurn'
  <2> SUFFICES ASSUME NEW q \in Publisher, publishing'[q] # Nothing
               PROVE  /\ MayFollow(LastTag(publishing[q].name)', publishing[q])
                      /\ publishing'[q] = publishing[q] /\ q # p
                      /\ \A r \in Publisher :
                            publishing'[r] # Nothing /\ publishing'[r].name = publishing'[q].name => r = q
    BY DEF ToldInTurn, MayFollow
  <2>1. q # p /\ publishing'[q] = publishing[q]
    BY <1>1
  <2>2. /\ publishing[q].name # ev.name
        /\ MayFollow(LastTag(publishing[q].name), publishing[q])
    BY <1>1, <2>1 DEF HealthInv, ToldInTurn, ev
  <2>3. LastTag(publishing[q].name)' = LastTag(publishing[q].name)
    BY <1>1, <2>1, <2>2, ToldOfOthers
  <2>4. \A r \in Publisher :
           publishing'[r] # Nothing /\ publishing'[r].name = publishing'[q].name => r = q
    BY <1>1, <2>1 DEF HealthInv, ToldInTurn
  <2> QED
    BY <2>1, <2>2, <2>3, <2>4
<1>6. HealthRemembers'
  <2>1. \A i : Handled(i) => i \in 1 .. Len(stream)
    BY MonitoringAssumption DEF LineInv, Line, InLine, Before, Handled
  <2>2. \A i : Handled(i)' <=> Handled(i)
    BY <1>1 DEF Handled
  <2>3. Remembered' = Remembered
    BY <1>2, <2>1, <2>2 DEF Remembered, Counts
  <2>4. \A i \in Remembered : stream'[i] = stream[i]
    BY <1>2 DEF Remembered
  <2> QED
    BY <2>3, <2>4 DEF HealthInv, HealthRemembers
<1> QED
  BY <1>4, <1>5, <1>6 DEF HealthInv

\* A supervisor notifies an event.
LEMMA HealthNotify ==
    ASSUME LineInv, HealthInv, NEW p \in Publisher, NEW ev \in AnyEvent, SupervisorNotifies(p, ev)
    PROVE  HealthInv'
<1>1. /\ publishing[p] = Nothing /\ publishing' = [publishing EXCEPT ![p] = ev]
      /\ publishing \in [Publisher -> AnyEvent \cup {Nothing}]
      /\ UNCHANGED <<stream, got, failedEvs>>
      /\ ~BeingTold(ev.name) /\ MayFollow(LastTag(ev.name), ev)
  BY DEF LineInv, NotifierTypes, SupervisorNotifies, OfTree, Notify, entryVars, workerVars
<1>2. \A name : LastTag(name)' = LastTag(name)
  BY <1>1 DEF LastTag, LastOf, Told
<1>3. FailedThenStarted' /\ HealthRemembers'
  BY <1>1 DEF HealthInv, FailedThenStarted, HealthRemembers, Remembered, Handled, Counts
<1>4. ToldInTurn'
  <2>1. \A q \in Publisher : publishing'[q] = IF q = p THEN ev ELSE publishing[q]
    BY <1>1
  <2>2. \A q \in Publisher : publishing[q] # Nothing => publishing[q].name # ev.name
    BY <1>1 DEF BeingTold
  <2> QED
    BY <1>1, <1>2, <2>1, <2>2 DEF HealthInv, ToldInTurn, MayFollow
<1> QED
  BY <1>3, <1>4 DEF HealthInv

\* A step that the health check has no part in.
LEMMA HealthAlone ==
    ASSUME HealthInv, UNCHANGED <<stream, publishing, failedEvs>>, got'[Health] = got[Health]
    PROVE  HealthInv'
<1>1. \A name : LastTag(name)' = LastTag(name)
  BY DEF LastTag, LastOf, Told
<1>2. FailedThenStarted' /\ HealthRemembers'
  BY DEF HealthInv, FailedThenStarted, HealthRemembers, Remembered, Handled, Counts
<1>3. ToldInTurn'
  BY <1>1 DEF HealthInv, ToldInTurn, MayFollow
<1> QED
  BY <1>2, <1>3 DEF HealthInv
\* HandleEvent, with the event in the hand of the health check's worker.
LEMMA HealthHandles ==
    ASSUME LineInv, HealthInv, HealthReturns
    PROVE  HealthInv'
<1> DEFINE id == hand[Health]
           ev == stream[id]
<1>1. /\ Health \in Notifier /\ id # 0 /\ id \in Nat /\ UNCHANGED <<stream, publishing>>
      /\ got \in [Notifier -> Seq(Nat)] /\ got[Health] \in Seq(Nat)
      /\ got' = IF Accepts(Health) THEN [got EXCEPT ![Health] = Append(@, id)] ELSE got
      /\ Line(Health)
  BY MonitoringAssumption
     DEF LineInv, NotifierTypes, ChannelsKept, HealthReturns, NotifierReturns, entryVars
<1>2. CASE ~Accepts(Health)
  BY <1>1, <1>2, HealthAlone DEF HealthReturns
<1>3. CASE Accepts(Health)
  <2>1. /\ id \in 1 .. Len(stream) /\ Len(stream) \in Nat
        /\ \A k \in 1 .. Len(got[Health]) : got[Health][k] < id /\ got[Health][k] \in 1 .. Len(stream)
    BY <1>1 DEF Line, InLine, Before, LineInv, NotifierTypes
  <2>2. got'[Health] = Append(got[Health], id)
    BY <1>1, <1>3
  <2>3. \A i : Handled(i)' <=> Handled(i) \/ i = id
    BY <1>1, <2>2, AppendOf DEF Handled
  <2>4. \A i : Handled(i) => i < id /\ i \in 1 .. Len(stream)
    BY <2>1 DEF Handled
  <2>5. failedEvs' = HandleEvent(failedEvs, id, ev)
    BY <1>3 DEF HealthReturns
  <2> HIDE DEF id, ev
  <2>6. ~Handled(id)
    BY <2>1, <2>4
  <2>7. FailedThenStarted' /\ ToldInTurn'
    <3>1. \A name : LastTag(name)' = LastTag(name)
      BY <1>1 DEF LastTag, LastOf, Told
    <3> QED
      BY <1>1, <3>1 DEF HealthInv, FailedThenStarted, ToldInTurn, MayFollow
  <2>8. ASSUME NEW i \in 1 .. Len(stream)
        PROVE  i \in Remembered' <=>
                   \/ i = id /\ ev.tag = "ProcessFailed"
                   \/ i \in Remembered /\ ~(ev.name = stream[i].name /\ Counts(ev))
    <3>0. stream[id] = ev
      BY DEF ev
    <3>1. CASE i = id
      <4>1. \A j \in id + 1 .. Len(stream) : ~Handled(j) /\ j # id
        BY <2>1, <2>4
      <4> QED
        BY <1>1, <2>1, <2>3, <2>6, <3>0, <3>1, <4>1 DEF Remembered, Counts
    <3>2. CASE i # id /\ Handled(i)
      <4>1. i < id
        BY <2>4, <3>2
      <4>2. id \in i + 1 .. Len(stream)
        BY <2>1, <4>1
      <4>3. \A j \in i + 1 .. Len(stream) : Handled(j)' <=> Handled(j) \/ j = id
        BY <2>3
      <4> QED
        BY <1>1, <2>3, <2>6, <3>0, <3>2, <4>2, <4>3 DEF Remembered, Counts
    <3>3. CASE i # id /\ ~Handled(i)
      BY <1>1, <2>3, <3>3 DEF Remembered
    <3> QED
      BY <3>1, <3>2, <3>3
  <2>9. Remembered \subseteq 1 .. Len(stream) /\ Remembered' \subseteq 1 .. Len(stream)
    BY <1>1 DEF Remembered
  <2>10. failedEvs = {[name |-> stream[i].name, id |-> i] : i \in Remembered}
    BY DEF HealthInv, HealthRemembers
  <2>11. Forget(failedEvs, ev.name) =
            {[name |-> stream[i].name, id |-> i] : i \in {k \in Remembered : stream[k].name # ev.name}}
    BY <2>10 DEF Forget
  <2>12. failedEvs' = {[name |-> stream[i].name, id |-> i] : i \in Remembered'}
    <3>1. CASE ev.tag = "ProcessFailed"
      <4>1. Remembered' = {k \in Remembered : stream[k].name # ev.name} \cup {id}
        BY <2>1, <2>8, <2>9, <3>1 DEF Counts
      <4>2. failedEvs' = Forget(failedEvs, ev.name) \cup {[name |-> ev.name, id |-> id]}
        BY <2>5, <3>1 DEF HandleEvent
      <4> QED
        BY <2>11, <4>1, <4>2 DEF ev
    <3>2. CASE ev.tag = "ProcessStarted"
      <4>1. Remembered' = {k \in Remembered : stream[k].name # ev.name}
        BY <2>1, <2>8, <2>9, <3>2 DEF Counts
      <4>2. failedEvs' = Forget(failedEvs, ev.name)
        BY <2>5, <3>2 DEF HandleEvent, HandleStarted
      <4> QED
        BY <2>11, <4>1, <4>2
    <3>3. CASE ~Counts(ev)
      <4>1. Remembered' = Remembered
        BY <2>1, <2>8, <2>9, <3>3 DEF Counts
      <4>2. failedEvs' = failedEvs
        BY <2>5, <3>3 DEF HandleEvent, Counts
      <4> QED
        BY <2>10, <4>1, <4>2
    <3> QED
      BY <3>1, <3>2, <3>3 DEF Counts
  <2> QED
    BY <1>1, <2>7, <2>12 DEF HealthInv, HealthRemembers
<1> QED
  BY <1>2, <1>3
\* Every step keeps what the health check remembers in accord with the events.
LEMMA HealthStep ==
    ASSUME LineInv, HealthInv, [MonNext]_monVars
    PROVE  HealthInv'
<1>1. ASSUME NEW p \in Publisher, OfTree(Enter(p))
      PROVE  HealthInv'
  BY <1>1, HealthEnter DEF OfTree
<1>2. ASSUME NEW n \in Notifier, OfTree(NotifierReturns(n)), n # Health
      PROVE  HealthInv'
  <2>1. UNCHANGED <<stream, publishing, failedEvs>> /\ got'[Health] = got[Health]
    BY <1>2, MonitoringAssumption DEF OfTree, NotifierReturns, entryVars, LineInv, NotifierTypes
  <2> QED
    BY <2>1, HealthAlone
<1>3. ASSUME UNCHANGED <<stream, publishing, failedEvs, got>>
      PROVE  HealthInv'
  BY <1>3, HealthAlone
<1>4. CASE OfTree(TakeEntry) \/ OfTree(RestartSubtree) \/ OfTree(RootGivesUp)
           \/ OfTree(CancelNotifier) \/ OfTree(StopEntrypoint)
  BY <1>3, <1>4
     DEF OfTree, TakeEntry, RestartSubtree, RootGivesUp, SubtreeGivesUp, CancelNotifier, StopEntrypoint,
         entryVars, workerVars
<1>5. ASSUME NEW n \in Notifier,
             \/ OfTree(Offer(n)) \/ OfTree(SkipNotifier(n)) \/ OfTree(Receive(n))
             \/ OfTree(NotifierPanics(n)) \/ OfTree(RestartWorker(n))
      PROVE  HealthInv'
  BY <1>3, <1>5
     DEF OfTree, Offer, SkipNotifier, Receive, NotifierPanics, RestartWorker, entryVars, workerVars
<1>6. CASE UNCHANGED monVars
  BY <1>3, <1>6 DEF monVars, notifierVars, entryVars, workerVars
<1> QED
  BY <1>1, <1>2, <1>4, <1>5, <1>6, HealthNotify, HealthHandles DEF MonNext

LEMMA HealthInit ==
    ASSUME MonInit
    PROVE  HealthInv
<1> USE DEF MonInit, NotifierInit
<1>1. FailedThenStarted /\ ToldInTurn
  BY DEF FailedThenStarted, ToldInTurn
<1>2. Remembered = {}
  BY DEF Remembered
<1> QED
  BY <1>1, <1>2 DEF HealthInv, HealthRemembers

\* What is remembered when the health check has had every event it acts on.
LEMMA RemembersDown ==
    ASSUME LineInv, HealthInv, \A i \in 1 .. Len(stream) : Counts(stream[i]) => Handled(i)
    PROVE  /\ \A i \in Remembered : stream[i].name \in Down /\ LastOf(stream[i].name) = i
           /\ \A name \in Down : LastOf(name) \in Remembered /\ stream[LastOf(name)].name = name
<1>0. Len(stream) \in Nat /\ \A i \in 1 .. Len(stream) : stream[i].name \in Name
  BY MonitoringAssumption DEF LineInv, NotifierTypes, EventRecord
<1>1. ASSUME NEW i \in Remembered
      PROVE  stream[i].name \in Down /\ LastOf(stream[i].name) = i
  <2> DEFINE name == stream[i].name
             last == LastOf(name)
  <2>1. /\ i \in 1 .. Len(stream) /\ stream[i].tag = "ProcessFailed"
        /\ \A j \in i + 1 .. Len(stream) : ~(stream[j].name = name /\ Counts(stream[j]))
    BY <1>0 DEF Remembered
  <2>2. i \in Told(name)
    BY <2>1 DEF Told
  <2>3. /\ last \in 1 .. Len(stream) /\ i <= last /\ stream[last].name = name
        /\ stream[last].tag # "ProcessStartFailed" /\ LastTag(name) = stream[last].tag
    BY <2>2, LastOfFacts DEF Told
  <2> HIDE DEF last
  <2>4. last = i
    <3> SUFFICES ASSUME i < last
                 PROVE  FALSE
      BY <1>0, <2>1, <2>3
    <3>1. last \in i + 1 .. Len(stream)
      BY <1>0, <2>1, <2>3
    <3>2. stream[last].tag # "ProcessStarted"
      BY <2>1, <2>3, <3>1 DEF Counts
    <3>3. PICK k \in i + 1 .. last - 1 : stream[k].name = name /\ stream[k].tag = "ProcessStarted"
      BY <2>1, <2>3, <3>2 DEF HealthInv, FailedThenStarted
    <3>4. k \in i + 1 .. Len(stream)
      BY <1>0, <2>1, <2>3, <3>3
    <3> QED
      BY <2>1, <3>3, <3>4 DEF Counts
  <2> QED
    BY <1>0, <2>1, <2>3, <2>4 DEF Down, last
<1>2. ASSUME NEW name \in Down
      PROVE  LastOf(name) \in Remembered /\ stream[LastOf(name)].name = name
  <2> DEFINE last == LastOf(name)
  <2>1. Told(name) # {} /\ LastTag(name) = "ProcessFailed"
    BY DEF Down, LastTag
  <2>2. /\ last \in 1 .. Len(stream) /\ \A j \in Told(name) : j <= last
        /\ stream[last].name = name /\ stream[last].tag = "ProcessFailed"
    BY <2>1, LastOfFacts DEF Told
  <2> HIDE DEF last
  <2>3. Handled(last)
    BY <2>2 DEF Counts
  <2>4. \A j \in last + 1 .. Len(stream) : ~(stream[j].name = name /\ Counts(stream[j]))
    <3> SUFFICES ASSUME NEW j \in last + 1 .. Len(stream), stream[j].name = name, Counts(stream[j])
                 PROVE  FALSE
      OBVIOUS
    <3>1. j \in 1 .. Len(stream) /\ ~(j <= last)
      BY <1>0, <2>2
    <3>2. j \in Told(name)
      BY <3>1 DEF Told, Counts
    <3> QED
      BY <2>2, <3>1, <3>2
  <2>5. last \in Remembered
    BY <2>2, <2>3, <2>4 DEF Remembered
  <2> QED
    BY <2>2, <2>5 DEF last
<1> QED
  BY <1>1, <1>2
\* When the health check has seen all, its report is about what is down.
LEMMA ReportOfDown ==
    ASSUME LineInv, HealthInv, HealthSawAll, {ev \in AnyEvent : Counts(ev)} \subseteq Criterion[Health]
    PROVE  \A late \in SUBSET (1 .. Len(stream)) :
              IsHealthyReport(GetHealthReport(failedEvs, late)) <=>
                  /\ Cardinality(Down) <= MaxAllowedFailures
                  /\ \A name \in Down : LastOf(name) \notin late
<1>0. Len(stream) \in Nat /\ \A i \in 1 .. Len(stream) : stream[i] \in AnyEvent
  BY DEF LineInv, NotifierTypes
<1>1. ASSUME NEW i \in 1 .. Len(stream), Counts(stream[i])
      PROVE  Handled(i)
  <2>1. Line(Health) /\ i \in Nat /\ i # 0
    BY MonitoringAssumption DEF LineInv
  <2>2. Sent(Health, i)
    BY DEF HealthSawAll, SentTo, Sent
  <2>3. Somewhere(Health, i)
    BY <2>1, <2>2 DEF Line, AllKnown
  <2>4. stream[i] \in Criterion[Health]
    BY <1>0, <1>1
  <2> QED
    BY <2>1, <2>3, <2>4 DEF HealthSawAll, Somewhere, Handled
<1>2. /\ \A i \in Remembered : stream[i].name \in Down /\ LastOf(stream[i].name) = i
      /\ \A name \in Down : LastOf(name) \in Remembered /\ stream[LastOf(name)].name = name
  BY <1>1, RemembersDown
<1>3. failedEvs = {[name |-> stream[i].name, id |-> i] : i \in Remembered}
  BY DEF HealthInv, HealthRemembers
<1>4. IsFiniteSet(Remembered)
  <2>1. IsFiniteSet(1 .. Len(stream)) /\ Remembered \in SUBSET (1 .. Len(stream))
    BY <1>0, FS_Interval DEF Remembered
  <2> QED
    BY <2>1, FS_Subset
<1>5. IsFiniteSet(Down) /\ Cardinality(Down) = Cardinality(Remembered)
  <2> DEFINE f == [i \in Remembered |-> stream[i].name]
  <2>1. f \in [Remembered -> Down] /\ \A i, j \in Remembered : f[i] = f[j] => i = j
    BY <1>2
  <2>2. \A name \in Down : \E i \in Remembered : f[i] = name
    BY <1>2
  <2>3. f \in Bijection(Remembered, Down)
    BY <2>1, <2>2 DEF Bijection, Injection, Surjection, IsInjective
  <2>4. ExistsBijection(Remembered, Down)
    BY <2>3 DEF ExistsBijection
  <2> QED
    BY <1>4, <2>4, FS_Bijection
<1>6. IsFiniteSet(failedEvs) /\ Cardinality(failedEvs) = Cardinality(Remembered)
  <2> DEFINE f == [i \in Remembered |-> [name |-> stream[i].name, id |-> i]]
  <2>1. f \in [Remembered -> failedEvs] /\ \A i, j \in Remembered : f[i] = f[j] => i = j
    BY <1>3
  <2>2. \A e \in failedEvs : \E i \in Remembered : f[i] = e
    BY <1>3
  <2>3. f \in Bijection(Remembered, failedEvs)
    BY <2>1, <2>2 DEF Bijection, Injection, Surjection, IsInjective
  <2>4. ExistsBijection(Remembered, failedEvs)
    BY <2>3 DEF ExistsBijection
  <2> QED
    BY <1>4, <2>4, FS_Bijection
<1>7. Cardinality(failedEvs) = Cardinality(Down) /\ Cardinality(Down) \in Nat
  BY <1>5, <1>6, FS_CardinalityType
<1> SUFFICES ASSUME NEW late \in SUBSET (1 .. Len(stream))
             PROVE  IsHealthyReport(GetHealthReport(failedEvs, late)) <=>
                        /\ Cardinality(Down) <= MaxAllowedFailures
                        /\ \A name \in Down : LastOf(name) \notin late
  OBVIOUS
<1> DEFINE report == GetHealthReport(failedEvs, late)
<1>8. report.failedProcesses = {} <=> Cardinality(Down) <= MaxAllowedFailures
  <2>1. TooMany(failedEvs) <=> ~(Cardinality(Down) <= MaxAllowedFailures)
    BY <1>7, HealthcheckAssumption DEF TooMany
  <2>2. TooMany(failedEvs) => failedEvs # {}
    <3>1. Cardinality({}) = 0
      BY FS_EmptySet
    <3>2. failedEvs = {} => Cardinality(Down) = 0
      BY <1>7, <3>1
    <3> QED
      BY <2>1, <3>2, HealthcheckAssumption
  <2>3. report.failedProcesses = IF TooMany(failedEvs) THEN {e.name : e \in failedEvs} ELSE {}
    BY DEF GetHealthReport
  <2> QED
    BY <2>1, <2>2, <2>3
<1>9. report.delayedRestartProcesses = {} <=> \A name \in Down : LastOf(name) \notin late
  <2>1. report.delayedRestartProcesses = {e.name : e \in {d \in failedEvs : d.id \in late}}
    BY DEF GetHealthReport
  <2>2. report.delayedRestartProcesses = {} <=> \A e \in failedEvs : e.id \notin late
    BY <2>1
  <2>3. (\A e \in failedEvs : e.id \notin late) <=> \A i \in Remembered : i \notin late
    <3>1. ASSUME NEW i \in Remembered
          PROVE  \E e \in failedEvs : e.id = i
      <4>1. [name |-> stream[i].name, id |-> i] \in failedEvs
        BY <1>3
      <4> QED
        BY <4>1
    <3>2. \A e \in failedEvs : e.id \in Remembered
      BY <1>3
    <3> QED
      BY <3>1, <3>2
  <2> HIDE DEF report
  <2> QED
    BY <1>2, <2>2, <2>3
<1> QED
  BY <1>8, <1>9 DEF IsHealthyReport

\* When every event has reached the health check and none was lost on the way,
\* GetHealthReport is healthy exactly if no more processes than allowed are
\* down after a failure, and none of them for longer than allowed; provided
\* that its criterion lets the failures and the starts pass.
THEOREM HealthReportIsRight ==
    ASSUME {ev \in AnyEvent : Counts(ev)} \subseteq Criterion[Health]
    PROVE  MonSpec => []HealthReportRight
<1>1. LineInv /\ HealthInv => HealthReportRight
  BY ReportOfDown DEF HealthReportRight
<1>2. MonInit => LineInv /\ HealthInv
  BY LineInit, HealthInit
<1>3. LineInv /\ HealthInv /\ [MonNext]_monVars => (LineInv /\ HealthInv)'
  BY LineStep, HealthStep
<1> QED
  BY <1>1, <1>2, <1>3, PTL DEF MonSpec
=============================================================================
