----------------------------- MODULE RuleEngine -----------------------------
(***************************************************************************)
(* RuleEngine (src/rules/rule_engine.cpp): the alert state machine behind  *)
(* every rule.  One engine belongs to one collector thread, so evaluations *)
(* never interleave; what is hard is the long sequence of legal windows.   *)
(*                                                                         *)
(* A sample is abstracted to the zone its value falls in.  validate keeps  *)
(* the recovery, warning and critical thresholds ordered, so the zones are *)
(* disjoint, in either direction of comparison.  A context keeps the       *)
(* fields that decide something; totals and maxima, which are only         *)
(* reported, are left out.                                                 *)
(***************************************************************************)
EXTENDS Naturals

CONSTANTS
  Configs,          \* the sets of enabled rule groups that are explored
  Targets,          \* CPUs, threads, devices or processes that come and go
  Windows,          \* each rule's *_warning_windows, *_critical_windows and
                    \* *_recovery_windows
  Cooldown,         \* cooldown_sec
  Ttl,              \* state_ttl_sec
  MaxTime,          \* bound: the clock
  MaxDrops,         \* bound: each of the queues' cumulative counters
  MaxEvaluations    \* bound: windows evaluated

Groups == {"memory", "self_protection", "cpu", "sched", "io", "process"}

ASSUME ConfigsAssumption == Configs \subseteq SUBSET Groups

\* The rules whose window counts are configured; validate lets most be 0.
Rules == {"memory", "self_rss", "queue", "cpu", "sched", "io"}

WindowCounts == [warning : Nat, critical : Nat, recovery : Nat]

ASSUME WindowsAssumption == Windows \in [Rules -> WindowCounts]
ASSUME TimesAssumption == Cooldown \in Nat /\ Ttl \in Nat \ {0}
ASSUME BoundsAssumption ==
  MaxTime \in Nat \ {0} /\ MaxDrops \in Nat /\ MaxEvaluations \in Nat

\* The four maps of contexts by target, and the three single contexts.
MapKeys == {"cpu", "sched", "io", "process"} \X Targets

Single == {"memory", "self_rss", "queue"}

SingleKeys == {<<s, s>> : s \in Single}

Keys == MapKeys \cup SingleKeys

Zones == {"recovered", "between", "warning", "critical"}

Levels == {"Warning", "Critical", "Recovery"}

VARIABLES
  config,    \* the enabled groups, fixed for the engine's life
  present,   \* the keys that have a context
  ctx,       \* the context of each key (fresh for a key not present)
  last,      \* last_queue_{drop,critical_drop,dispatcher_failure}_count_
  now,       \* the monotonic clock, never 0
  emitted,   \* the event the last evaluation returned
  evaluations, \* history: windows evaluated
  streak,    \* history: consecutive windows of each kind, per key
  said       \* history: the last event returned for the key's context

vars == <<config, present, ctx, last, now, emitted, evaluations, streak, said>>

RuleContext ==
  [state : {"Normal", "Warning", "Critical"}, hit_count : Nat,
   critical_hit_count : Nat, recovery_count : Nat, last_seen : Nat,
   last_activation : Nat, notification_active : BOOLEAN]

FreshContext ==
  [state |-> "Normal", hit_count |-> 0, critical_hit_count |-> 0,
   recovery_count |-> 0, last_seen |-> 0, last_activation |-> 0,
   notification_active |-> FALSE]

FreshStreak == [warn |-> 0, hit |-> 0, crit |-> 0, rec |-> 0]

NoEvent == [key |-> <<"none", "none">>, level |-> "none"]

---------------------------------------------------------------------------
\* A window, as evaluate_threshold sees it: the value's zone and the
\* external triggers.
Window(zone, warning, critical, blocked) ==
  [zone |-> zone, warning |-> warning, critical |-> critical,
   blocked |-> blocked]

PlainWindow(zone) == Window(zone, FALSE, FALSE, FALSE)

critical_hit(w) == w.zone = "critical" \/ w.critical

warning_hit(w) == w.zone \in {"warning", "critical"} \/ w.warning

recovered(w) == ~w.blocked /\ w.zone = "recovered"

cooldown_active(c) ==
  /\ Cooldown # 0
  /\ c.last_activation # 0
  /\ now - c.last_activation < Cooldown

Returns(c, level) == [ctx |-> c, level |-> level]

\* Mutant: only a rule in Normal can become Critical.
CriticalFromNormal(c, windows, w) ==
  LET d == [c EXCEPT !.hit_count = @ + 1, !.critical_hit_count = @ + 1,
                     !.recovery_count = 0]
  IN  IF /\ w.critical \/ d.critical_hit_count >= windows.critical
         /\ c.state = "Normal"
      THEN Returns([d EXCEPT !.state = "Critical", !.last_activation = now,
                             !.notification_active = TRUE], "Critical")
      ELSE Returns(d, "none")

CriticalWindow(c, windows, w) ==
  LET d == [c EXCEPT !.hit_count = @ + 1, !.critical_hit_count = @ + 1,
                     !.recovery_count = 0]
  IN  IF /\ w.critical \/ d.critical_hit_count >= windows.critical
         /\ c.state # "Critical"
      THEN Returns([d EXCEPT !.state = "Critical", !.last_activation = now,
                             !.notification_active = TRUE], "Critical")
      ELSE Returns(d, "none")

\* Mutant: an alert the cooldown silences is marked as announced.
SilencedIsAnnounced(c, windows, w) ==
  LET d == [c EXCEPT !.hit_count = @ + 1, !.critical_hit_count = 0,
                     !.recovery_count = 0]
  IN  IF (w.warning \/ d.hit_count >= windows.warning) /\ c.state = "Normal"
      THEN Returns([d EXCEPT !.state = "Warning",
                             !.last_activation =
                               IF cooldown_active(c) THEN @ ELSE now,
                             !.notification_active = TRUE],
                   IF cooldown_active(c) THEN "none" ELSE "Warning")
      ELSE Returns(d, "none")

WarningWindow(c, windows, w) ==
  LET d == [c EXCEPT !.hit_count = @ + 1, !.critical_hit_count = 0,
                     !.recovery_count = 0]
  IN  CASE ~(w.warning \/ d.hit_count >= windows.warning)
           \/ c.state # "Normal" -> Returns(d, "none")
        [] OTHER ->
           IF cooldown_active(c)
           THEN Returns([d EXCEPT !.state = "Warning"], "none")
           ELSE Returns([d EXCEPT !.state = "Warning",
                                  !.last_activation = now,
                                  !.notification_active = TRUE], "Warning")

\* Mutant: a return to Normal is announced although nothing was raised.
RecoveryAlwaysAnnounced(c, windows) ==
  LET d == [c EXCEPT !.recovery_count = @ + 1]
  IN  IF d.recovery_count < windows.recovery
      THEN Returns(d, "none")
      ELSE Returns([d EXCEPT !.state = "Normal", !.hit_count = 0,
                             !.critical_hit_count = 0,
                             !.notification_active = FALSE], "Recovery")

RecoveredWindow(c, windows) ==
  LET d == [c EXCEPT !.recovery_count = @ + 1]
      n == [d EXCEPT !.state = "Normal", !.hit_count = 0,
                     !.critical_hit_count = 0]
  IN  IF d.recovery_count < windows.recovery
      THEN Returns(d, "none")
      ELSE IF ~c.notification_active
           THEN Returns(n, "none")
           ELSE Returns([n EXCEPT !.notification_active = FALSE], "Recovery")

QuietWindow(c) ==
  Returns([c EXCEPT !.hit_count = 0, !.critical_hit_count = 0,
                    !.recovery_count = 0], "none")

\* What the window makes of a context, and the level it returns.
evaluate_threshold(context, windows, w) ==
  LET c == [context EXCEPT !.last_seen = now]
  IN  CASE critical_hit(w) -> CriticalWindow(c, windows, w)
        [] ~critical_hit(w) /\ warning_hit(w) -> WarningWindow(c, windows, w)
        [] ~warning_hit(w) /\ ~critical_hit(w) /\ recovered(w)
             /\ c.state # "Normal" -> RecoveredWindow(c, windows)
        [] OTHER -> QuietWindow(c)

---------------------------------------------------------------------------
\* Mutant: a context expires although its target was sampled within the TTL.
ExpiredEarly(k) == ctx[k].last_seen # 0 /\ now - ctx[k].last_seen + 1 >= Ttl

\* prune_expired_contexts, run for a sample of key k: the contexts of the
\* four maps that have not been seen for the TTL.  k itself was just seen.
Expired(k) == ctx[k].last_seen # 0 /\ now - ctx[k].last_seen >= Ttl

Pruned(key) == {k \in MapKeys \cap present : k # key /\ Expired(k)}

CountStreak(s, w) ==
  [warn |-> IF warning_hit(w) /\ ~critical_hit(w) THEN s.warn + 1 ELSE 0,
   hit  |-> IF warning_hit(w) \/ critical_hit(w) THEN s.hit + 1 ELSE 0,
   crit |-> IF critical_hit(w) THEN s.crit + 1 ELSE 0,
   rec  |-> IF ~warning_hit(w) /\ ~critical_hit(w) /\ recovered(w)
            THEN s.rec + 1 ELSE 0]

\* Process growth is already taken over its own window: one sample decides.
ProcessWindows == [warning |-> 1, critical |-> 1, recovery |-> 1]

WindowsOf(key) == IF key[1] = "process" THEN ProcessWindows
                  ELSE Windows[key[1]]

\* The make_ functions: of an event only the rule, the target and the level
\* are kept.
MakeEvent(key, level) == [key |-> key, level |-> level]

\* An evaluator: find or create the context of the key, erase the contexts
\* in gone, apply the window, and return the event if there is one.
Evaluate(key, gone, w) ==
  LET r == evaluate_threshold(ctx[key], WindowsOf(key), w)
  IN  /\ evaluations < MaxEvaluations
      /\ evaluations' = evaluations + 1
      /\ present' = (present \ gone) \cup {key}
      /\ ctx' = [k \in Keys |-> IF k = key THEN r.ctx
                                ELSE IF k \in gone THEN FreshContext
                                ELSE ctx[k]]
      /\ emitted' = IF r.level = "none" THEN NoEvent
                    ELSE MakeEvent(key, r.level)
      /\ streak' = [k \in Keys |-> IF k = key THEN CountStreak(streak[k], w)
                                   ELSE IF k \in gone THEN FreshStreak
                                   ELSE streak[k]]
      /\ said' = [k \in Keys |-> IF k = key /\ r.level # "none" THEN r.level
                                 ELSE IF k \in gone THEN "none"
                                 ELSE said[k]]
      /\ UNCHANGED <<config, now>>

evaluate_memory(zone) ==
  /\ "memory" \in config
  /\ Evaluate(<<"memory", "memory">>, {}, PlainWindow(zone))
  /\ UNCHANGED last

evaluate_self_rss(zone) ==
  /\ "self_protection" \in config
  /\ Evaluate(<<"self_rss", "self_rss">>, {}, PlainWindow(zone))
  /\ UNCHANGED last

evaluate_cpu_usage(cpu, zone) ==
  /\ "cpu" \in config
  /\ Evaluate(<<"cpu", cpu>>, Pruned(<<"cpu", cpu>>),
              PlainWindow(zone))
  /\ UNCHANGED last

\* Below the involuntary-switch threshold the wait time counts as 0.
evaluate_sched_delay(thread, zone, switch_hit) ==
  /\ "sched" \in config
  /\ Evaluate(<<"sched", thread>>, Pruned(<<"sched", thread>>),
              PlainWindow(IF switch_hit THEN zone ELSE "recovered"))
  /\ UNCHANGED last

\* A busy device with requests in flight triggers by itself, and a device
\* above its utilisation recovery level blocks recovery.
evaluate_io_delay(device, zone, util, in_flight) ==
  /\ "io" \in config
  /\ Evaluate(<<"io", device>>, Pruned(<<"io", device>>),
              Window(zone, util \in {"warning", "critical"} /\ in_flight,
                     util = "critical" /\ in_flight, util # "recovered"))
  /\ UNCHANGED last

evaluate_process_memory_growth(process, zone) ==
  /\ "process" \in config
  /\ Evaluate(<<"process", process>>, Pruned(<<"process", process>>),
              PlainWindow(zone))
  /\ UNCHANGED last

\* The snapshot's cumulative counters, none below its last value: events
\* dropped by the queues (the Critical ones among them) and pushes the
\* dispatchers failed.
evaluate_queue(zone, dropped, critical, failures) ==
  LET new_drop == dropped + failures > last.drop
      new_critical == critical > last.critical
      new_failure == failures > last.failures
  IN  /\ "self_protection" \in config
      /\ last' = [drop |-> dropped + failures, critical |-> critical,
                  failures |-> failures]
      /\ Evaluate(<<"queue", "queue">>, {},
                  Window(zone, new_drop \/ new_failure, new_critical,
                         new_drop \/ new_failure))

forget_process_memory(process) ==
  LET key == <<"process", process>>
  IN  /\ key \in present
      /\ present' = present \ {key}
      /\ ctx' = [ctx EXCEPT ![key] = FreshContext]
      /\ streak' = [streak EXCEPT ![key] = FreshStreak]
      /\ said' = [said EXCEPT ![key] = "none"]
      /\ emitted' = NoEvent
      /\ UNCHANGED <<config, last, now, evaluations>>

Tick ==
  /\ now < MaxTime
  /\ now' = now + 1
  /\ emitted' = NoEvent
  /\ UNCHANGED <<config, present, ctx, last, evaluations, streak, said>>

Init ==
  /\ config \in Configs
  /\ present = SingleKeys
  /\ ctx = [k \in Keys |-> FreshContext]
  /\ last = [drop |-> 0, critical |-> 0, failures |-> 0]
  /\ now = 1
  /\ emitted = NoEvent
  /\ evaluations = 0
  /\ streak = [k \in Keys |-> FreshStreak]
  /\ said = [k \in Keys |-> "none"]

Evaluations ==
  \E zone \in Zones :
    \/ evaluate_memory(zone)
    \/ evaluate_self_rss(zone)
    \/ \E dropped, critical, failures \in 0..MaxDrops :
         /\ dropped >= last.drop - last.failures
         /\ critical \in last.critical..dropped
         /\ failures >= last.failures
         /\ evaluate_queue(zone, dropped, critical, failures)
    \/ \E t \in Targets :
         \/ evaluate_cpu_usage(t, zone)
         \/ evaluate_process_memory_growth(t, zone)
         \/ \E hit \in BOOLEAN : evaluate_sched_delay(t, zone, hit)
         \/ \E util \in Zones, busy \in BOOLEAN :
              evaluate_io_delay(t, zone, util, busy)

Next ==
  \/ Evaluations
  \/ \E t \in Targets : forget_process_memory(t)
  \/ Tick

Spec == Init /\ [][Next]_vars

---------------------------------------------------------------------------
TypeOK ==
  /\ config \in Configs
  /\ present \subseteq Keys
  /\ ctx \in [Keys -> RuleContext]
  /\ last \in [drop : Nat, critical : Nat, failures : Nat]
  /\ now \in 1..MaxTime
  /\ emitted \in [key : Keys, level : Levels] \cup {NoEvent}
  /\ evaluations \in 0..MaxEvaluations
  /\ streak \in [Keys -> [warn : Nat, hit : Nat, crit : Nat, rec : Nat]]
  /\ said \in [Keys -> Levels \cup {"none"}]

\* The context knows whether its alert is open: notification_active is set
\* exactly while the last event returned for it is an activation; a context
\* in Normal has no open alert and one in Critical always has.
NotificationTracksEvents ==
  \A k \in Keys :
    /\ ctx[k].notification_active <=> said[k] \in {"Warning", "Critical"}
    /\ ctx[k].state = "Normal" => ~ctx[k].notification_active
    /\ ctx[k].state = "Critical" => ctx[k].notification_active

\* The events of one alert follow its life cycle: an alert opens with Warning
\* or Critical, may be raised to Critical once, and closes with one Recovery;
\* there is no second Warning, no Warning after Critical and no Recovery of
\* something that was never raised.
AlertLifeCycle ==
  [][emitted' # NoEvent =>
       LET before == said[emitted'.key]
       IN  CASE emitted'.level = "Warning" -> before \in {"none", "Recovery"}
             [] emitted'.level = "Critical" -> before # "Critical"
             [] OTHER -> before \in {"Warning", "Critical"}]_vars

\* No pressure is overlooked: enough critical windows in a row leave the rule
\* Critical, enough warning windows in a row leave it at least in Warning,
\* and enough recovered windows in a row leave it Normal.
StateFollowsPressure ==
  \A k \in Keys :
    LET w == WindowsOf(k)
        s == streak[k]
    IN  /\ s.crit > 0 /\ s.crit >= w.critical => ctx[k].state = "Critical"
        /\ s.warn > 0 /\ s.warn >= w.warning => ctx[k].state # "Normal"
        /\ s.rec > 0 /\ s.rec >= w.recovery => ctx[k].state = "Normal"

\* No alert flaps: a rule without external triggers leaves Normal for
\* Warning only after the configured number of windows over the threshold in
\* a row, and returns to Normal only after the configured number of
\* recovered windows in a row.
Hysteresis ==
  [][\A k \in Keys :
       LET w == WindowsOf(k)
       IN  /\ ctx[k].state = "Normal" /\ ctx'[k].state = "Warning"
              /\ k[1] \notin {"queue", "io"} => streak'[k].hit >= w.warning
           /\ ctx[k].state # "Normal" /\ ctx'[k].state = "Normal"
              /\ k \in present' => streak'[k].rec >= w.recovery]_vars

\* A Warning is announced only when the alert's last activation is at least
\* the cooldown ago, however often the rule has recovered in between.
CooldownKept ==
  [][emitted'.level = "Warning" =>
       LET c == ctx[emitted'.key]
       IN  \/ c.last_activation = 0
           \/ now - c.last_activation >= Cooldown]_vars

Open(level) == level \in {"Warning", "Critical"}

\* An open alert does not vanish: it ends with its Recovery event, unless the
\* process it is about was forgotten, or its target has not been sampled for
\* the TTL and a sample of another target prunes its context.
OpenAlertEnds ==
  [][\A k \in Keys :
       Open(said[k]) /\ ~Open(said'[k])
         => \/ emitted' = [key |-> k, level |-> "Recovery"]
            \/ k \in MapKeys /\ now - ctx[k].last_seen >= Ttl
            \/ k[1] = "process" /\ emitted' = NoEvent]_vars

\* An alert is raised to Critical by the threshold only after the configured
\* number of critical windows in a row.
ContinuousCritical ==
  [][\A k \in Keys :
       ctx[k].state # "Critical" /\ ctx'[k].state = "Critical"
         /\ k[1] \notin {"queue", "io", "process"}
         => streak'[k].crit >= WindowsOf(k).critical]_vars
=============================================================================
