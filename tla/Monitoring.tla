------------------------------ MODULE Monitoring -----------------------------
(***************************************************************************)
(* A monitored supervision tree: its supervisors notify a reliable         *)
(* notifier, behind which are the health check (Health) and functions of   *)
(* the user, which may panic or hang.                                      *)
(***************************************************************************)
EXTENDS ReliableNotifier, Healthcheck, EventCriteria

CONSTANT Health  \* the notifier that is the health check

ASSUME MonitoringAssumption ==
    /\ Health \in Notifier \ Faulty
    /\ AnyEvent \subseteq EventRecord

VARIABLE failedEvs  \* of the HealthcheckMonitor

monVars == <<notifierVars, failedEvs>>

MonInit == NotifierInit /\ failedEvs = {}

\* What was said of a process.  A start that failed leaves it as it was.
Told(name) == {i \in 1 .. Len(stream) : stream[i].name = name /\ stream[i].tag # "ProcessStartFailed"}
LastOf(name) == Max(Told(name))
LastTag(name) == IF Told(name) = {} THEN "none" ELSE stream[LastOf(name)].tag

\* The events of a process as Supervisor notifies them.  Of the starts
\* that fail, those of a process that never ran are left out.
MayFollow(tag, ev) ==
    IF tag = "ProcessStarted"
    THEN ev.tag \in {"ProcessFailed", "ProcessCompleted", "ProcessTerminated"}
    ELSE ev.tag = "ProcessStarted" \/ (tag # "none" /\ ev.tag = "ProcessStartFailed")

\* A supervisor is sending an event of the process.  Two of them speak of a
\* sub-tree, in turn: it notifies its start before its parent knows that it
\* has started, and its parent notifies its failure before it starts it again.
BeingTold(name) == \E p \in Publisher : publishing[p] # Nothing /\ publishing[p].name = name

OfTree(action) == action /\ UNCHANGED failedEvs

SupervisorNotifies(p, ev) ==
    /\ ~BeingTold(ev.name)
    /\ MayFollow(LastTag(ev.name), ev)
    /\ OfTree(Notify(p, ev))

\* HandleEvent, as the function of Health.
HealthReturns ==
    /\ NotifierReturns(Health)
    /\ failedEvs' = IF Accepts(Health)
                    THEN HandleEvent(failedEvs, hand[Health], stream[hand[Health]])
                    ELSE failedEvs

MonNext ==
    \/ \E p \in Publisher :
          (\E ev \in AnyEvent : SupervisorNotifies(p, ev)) \/ OfTree(Enter(p))
    \/ OfTree(TakeEntry)
    \/ \E n \in Notifier :
          \/ OfTree(Offer(n)) \/ OfTree(SkipNotifier(n)) \/ OfTree(Receive(n))
          \/ OfTree(NotifierPanics(n)) \/ OfTree(RestartWorker(n))
    \/ HealthReturns \/ \E n \in Notifier \ {Health} : OfTree(NotifierReturns(n))
    \/ OfTree(RestartSubtree) \/ OfTree(RootGivesUp)
    \/ OfTree(CancelNotifier) \/ OfTree(StopEntrypoint)

\* The goroutines of the notifier and the health check run; goroutines blocked
\* on entrypointCh are queued.  Nothing is assumed of the user's functions.
MonFairness ==
    /\ \A p \in Publisher : SF_monVars(OfTree(Enter(p)))
    /\ WF_monVars(OfTree(Entrypoint))
    /\ WF_monVars(OfTree(Supervision))
    /\ WF_monVars(OfTree(Receive(Health)) \/ HealthReturns)

MonSpec == MonInit /\ [][MonNext]_monVars
MonFairSpec == MonSpec /\ MonFairness

-----------------------------------------------------------------------------
(* Properties.                                                             *)

\* When every event has reached the health check and none was lost on the way,
\* the report is healthy exactly if no more processes than allowed are down
\* after a failure, and none of them for longer than allowed.
Down == {name \in Name : LastTag(name) = "ProcessFailed"}
HealthSawAll ==
    /\ SentTo(Health) = 1 .. Len(stream)
    /\ queue[Health] = << >> /\ hand[Health] = 0 /\ lost[Health] = {}
HealthReportRight ==
    HealthSawAll =>
        \A late \in SUBSET (1 .. Len(stream)) :
            IsHealthyReport(GetHealthReport(failedEvs, late)) <=>
                /\ Cardinality(Down) <= MaxAllowedFailures
                /\ \A name \in Down : LastOf(name) \notin late
=============================================================================
