-------------------------- MODULE RuleEngineProofs --------------------------
(***************************************************************************)
(* Proofs about RuleEngine for every configuration of windows, cooldown    *)
(* and TTL and any set of targets.                                         *)
(*                                                                         *)
(* A window changes one context, so everything follows from what           *)
(* evaluate_threshold does to one context, to the streaks of windows seen  *)
(* so far and to the last event said: Tracks is that inductive invariant.  *)
(* It relates the three counters of a context to the streaks they stand    *)
(* for, which no property mentions but each of them rests on.              *)
(***************************************************************************)
EXTENDS RuleEngine, TLAPS

WindowTypes == [zone : Zones, warning : BOOLEAN, critical : BOOLEAN,
                blocked : BOOLEAN]

Streaks == [warn : Nat, hit : Nat, crit : Nat, rec : Nat]

Sayings == Levels \cup {"none"}

\* What is said of an alert agrees with its state.
SaidAgrees(c, d) ==
  /\ c.notification_active <=> d \in {"Warning", "Critical"}
  /\ c.state = "Normal" => ~c.notification_active
  /\ c.state = "Critical" => c.notification_active
  /\ d = "Critical" => c.state = "Critical"

\* The counters of a context against the streaks they stand for.
CountersAgree(c, s) ==
  /\ s.crit <= c.critical_hit_count
  /\ s.warn <= c.hit_count
  /\ c.recovery_count <= s.rec
  /\ c.state # "Normal" => s.rec <= c.recovery_count
  /\ c.state = "Normal" => c.hit_count <= s.hit

\* The state is the one the streaks demand.
StateAgrees(win, c, s) ==
  /\ s.crit > 0 /\ s.crit >= win.critical => c.state = "Critical"
  /\ s.warn > 0 /\ s.warn >= win.warning => c.state # "Normal"
  /\ s.rec > 0 /\ s.rec >= win.recovery => c.state = "Normal"

Tracks(win, c, s, d) ==
  SaidAgrees(c, d) /\ CountersAgree(c, s) /\ StateAgrees(win, c, s)

IInv ==
  /\ TypeOK
  /\ \A k \in Keys : /\ Tracks(WindowsOf(k), ctx[k], streak[k], said[k])
                     /\ ctx[k].last_activation <= now

---------------------------------------------------------------------------
(***************************************************************************)
(* What evaluate_threshold does to one context.                            *)
(***************************************************************************)
\* The result r of window w, for a context c with streaks s and last event d.
Post(win, c, s, d, w, r) ==
  LET t == CountStreak(s, w)
  IN  /\ r.ctx \in RuleContext
      /\ r.level \in Sayings
      /\ Tracks(win, r.ctx, t, IF r.level = "none" THEN d ELSE r.level)
      /\ r.ctx.last_activation <= now
      /\ r.level = "Warning"
           => /\ ~Open(d)
              /\ c.last_activation = 0 \/ now - c.last_activation >= Cooldown
      /\ r.level = "Critical" => d # "Critical"
      /\ r.level = "Recovery" => Open(d)
      /\ c.state = "Normal" /\ r.ctx.state = "Warning" /\ ~w.warning
           => t.hit >= win.warning
      /\ c.state # "Normal" /\ r.ctx.state = "Normal" => t.rec >= win.recovery

\* A context and its history before a window.
Pre(win, c, s, d) ==
  /\ now \in Nat
  /\ win \in WindowCounts
  /\ c \in RuleContext
  /\ s \in Streaks
  /\ d \in Sayings
  /\ Tracks(win, c, s, d)
  /\ c.last_activation <= now

\* A critical window raises the alert once its counter or a trigger says so.
LEMMA CriticalPost ==
  ASSUME NEW win, NEW c, NEW s, NEW d, NEW w \in WindowTypes,
         Pre(win, c, s, d), critical_hit(w)
  PROVE  Post(win, c, s, d, w, CriticalWindow(c, win, w))
<1> DEFINE r == CriticalWindow(c, win, w)
           t == CountStreak(s, w)
           raised == /\ w.critical \/ c.critical_hit_count + 1 >= win.critical
                     /\ c.state # "Critical"
<1>1. t = [warn |-> 0, hit |-> s.hit + 1, crit |-> s.crit + 1, rec |-> 0]
  BY DEF CountStreak
<1>2. CASE raised
  <2>1. r = [ctx |-> [state |-> "Critical", hit_count |-> c.hit_count + 1,
                      critical_hit_count |-> c.critical_hit_count + 1,
                      recovery_count |-> 0, last_seen |-> c.last_seen,
                      last_activation |-> now,
                      notification_active |-> TRUE],
             level |-> "Critical"]
    BY <1>2 DEF CriticalWindow, Returns, Pre, RuleContext
  <2> HIDE DEF r, t
  <2>2. r.ctx \in RuleContext /\ r.level \in Sayings
    BY <2>1 DEF RuleContext, Pre, Sayings, Levels
  <2>3. d # "Critical"
    BY <1>2 DEF Pre, Tracks, SaidAgrees
  <2>4. SaidAgrees(r.ctx, "Critical")
    BY <2>1 DEF SaidAgrees
  <2>5. CountersAgree(r.ctx, t) /\ StateAgrees(win, r.ctx, t)
    BY <1>1, <2>1
    DEF CountersAgree, StateAgrees, Pre, Tracks, RuleContext, Streaks,
        WindowCounts
  <2>6. /\ r.level = "Critical" /\ r.ctx.state = "Critical"
        /\ r.ctx.last_activation <= now
    BY <2>1 DEF Pre
  <2>7. Tracks(win, r.ctx, t, IF r.level = "none" THEN d ELSE r.level)
    BY <2>4, <2>5, <2>6 DEF Tracks
  <2> QED BY <2>2, <2>3, <2>6, <2>7 DEF Post, t, r
<1>3. CASE ~raised
  <2>1. r = [ctx |-> [state |-> c.state, hit_count |-> c.hit_count + 1,
                      critical_hit_count |-> c.critical_hit_count + 1,
                      recovery_count |-> 0, last_seen |-> c.last_seen,
                      last_activation |-> c.last_activation,
                      notification_active |-> c.notification_active],
             level |-> "none"]
    BY <1>3 DEF CriticalWindow, Returns, Pre, RuleContext
  <2> HIDE DEF r, t
  <2>2. r.ctx \in RuleContext /\ r.level \in Sayings
    BY <2>1 DEF RuleContext, Pre, Sayings
  <2>3. SaidAgrees(r.ctx, d)
    BY <2>1 DEF SaidAgrees, Pre, Tracks
  <2>4. CountersAgree(r.ctx, t) /\ StateAgrees(win, r.ctx, t)
    BY <1>1, <1>3, <2>1
    DEF CountersAgree, StateAgrees, Pre, Tracks, RuleContext, Streaks,
        WindowCounts
  <2>5. /\ r.level = "none" /\ r.ctx.state = c.state
        /\ r.ctx.last_activation <= now
    BY <2>1 DEF Pre
  <2>6. Tracks(win, r.ctx, t, IF r.level = "none" THEN d ELSE r.level)
    BY <2>3, <2>4, <2>5 DEF Tracks
  <2>7. c.state = "Normal" => r.ctx.state # "Warning"
    BY <2>5
  <2> QED BY <2>2, <2>5, <2>6, <2>7 DEF Post, t, r
<1> QED BY <1>2, <1>3

\* A warning window opens an alert in Normal; within the cooldown it does so
\* silently.
LEMMA WarningPost ==
  ASSUME NEW win, NEW c, NEW s, NEW d, NEW w \in WindowTypes,
         Pre(win, c, s, d), ~critical_hit(w), warning_hit(w)
  PROVE  Post(win, c, s, d, w, WarningWindow(c, win, w))
<1> DEFINE r == WarningWindow(c, win, w)
           t == CountStreak(s, w)
           raised == /\ w.warning \/ c.hit_count + 1 >= win.warning
                     /\ c.state = "Normal"
<1>1. t = [warn |-> s.warn + 1, hit |-> s.hit + 1, crit |-> 0, rec |-> 0]
  BY DEF CountStreak
<1>2. raised /\ ~w.warning => t.hit >= win.warning
  BY <1>1 DEF Pre, Tracks, CountersAgree, RuleContext, Streaks, WindowCounts
<1>3. CASE raised /\ ~cooldown_active(c)
  <2>1. r = [ctx |-> [state |-> "Warning", hit_count |-> c.hit_count + 1,
                      critical_hit_count |-> 0, recovery_count |-> 0,
                      last_seen |-> c.last_seen, last_activation |-> now,
                      notification_active |-> TRUE],
             level |-> "Warning"]
    BY <1>3 DEF WarningWindow, Returns, Pre, RuleContext
  <2>2. c.last_activation = 0 \/ now - c.last_activation >= Cooldown
    BY <1>3, TimesAssumption DEF cooldown_active, Pre, RuleContext
  <2>3. ~Open(d)
    BY <1>3 DEF Pre, Tracks, SaidAgrees, Open
  <2> HIDE DEF r, t
  <2>4. r.ctx \in RuleContext /\ r.level \in Sayings
    BY <2>1 DEF RuleContext, Pre, Sayings, Levels
  <2>5. SaidAgrees(r.ctx, "Warning")
    BY <2>1 DEF SaidAgrees
  <2>6. CountersAgree(r.ctx, t) /\ StateAgrees(win, r.ctx, t)
    BY <1>1, <2>1
    DEF CountersAgree, StateAgrees, Pre, Tracks, RuleContext, Streaks,
        WindowCounts
  <2>7. /\ r.level = "Warning" /\ r.ctx.state = "Warning"
        /\ r.ctx.last_activation <= now
    BY <2>1 DEF Pre
  <2>8. Tracks(win, r.ctx, t, IF r.level = "none" THEN d ELSE r.level)
    BY <2>5, <2>6, <2>7 DEF Tracks
  <2> QED BY <1>2, <1>3, <2>2, <2>3, <2>4, <2>7, <2>8 DEF Post, t, r
<1>4. CASE raised /\ cooldown_active(c)
  <2>1. r = [ctx |-> [state |-> "Warning", hit_count |-> c.hit_count + 1,
                      critical_hit_count |-> 0, recovery_count |-> 0,
                      last_seen |-> c.last_seen,
                      last_activation |-> c.last_activation,
                      notification_active |-> c.notification_active],
             level |-> "none"]
    BY <1>4 DEF WarningWindow, Returns, Pre, RuleContext
  <2> HIDE DEF r, t
  <2>2. r.ctx \in RuleContext /\ r.level \in Sayings
    BY <2>1 DEF RuleContext, Pre, Sayings
  <2>3. SaidAgrees(r.ctx, d)
    BY <1>4, <2>1 DEF SaidAgrees, Pre, Tracks
  <2>4. CountersAgree(r.ctx, t) /\ StateAgrees(win, r.ctx, t)
    BY <1>1, <2>1
    DEF CountersAgree, StateAgrees, Pre, Tracks, RuleContext, Streaks,
        WindowCounts
  <2>5. /\ r.level = "none" /\ r.ctx.state = "Warning"
        /\ r.ctx.last_activation <= now
    BY <2>1 DEF Pre
  <2>6. Tracks(win, r.ctx, t, IF r.level = "none" THEN d ELSE r.level)
    BY <2>3, <2>4, <2>5 DEF Tracks
  <2> QED BY <1>2, <1>4, <2>2, <2>5, <2>6 DEF Post, t, r
<1>5. CASE ~raised
  <2>1. r = [ctx |-> [state |-> c.state, hit_count |-> c.hit_count + 1,
                      critical_hit_count |-> 0, recovery_count |-> 0,
                      last_seen |-> c.last_seen,
                      last_activation |-> c.last_activation,
                      notification_active |-> c.notification_active],
             level |-> "none"]
    BY <1>5 DEF WarningWindow, Returns, Pre, RuleContext
  <2> HIDE DEF r, t
  <2>2. r.ctx \in RuleContext /\ r.level \in Sayings
    BY <2>1 DEF RuleContext, Pre, Sayings
  <2>3. SaidAgrees(r.ctx, d)
    BY <2>1 DEF SaidAgrees, Pre, Tracks
  <2>4. CountersAgree(r.ctx, t) /\ StateAgrees(win, r.ctx, t)
    BY <1>1, <1>5, <2>1
    DEF CountersAgree, StateAgrees, Pre, Tracks, RuleContext, Streaks,
        WindowCounts
  <2>5. /\ r.level = "none" /\ r.ctx.state = c.state
        /\ r.ctx.last_activation <= now
    BY <2>1 DEF Pre
  <2>6. Tracks(win, r.ctx, t, IF r.level = "none" THEN d ELSE r.level)
    BY <2>3, <2>4, <2>5 DEF Tracks
  <2>7. c.state = "Normal" => r.ctx.state # "Warning"
    BY <2>5
  <2> QED BY <2>2, <2>5, <2>6, <2>7 DEF Post, t, r
<1> QED BY <1>3, <1>4, <1>5

\* A recovered window outside Normal counts towards the Recovery.
LEMMA RecoveredPost ==
  ASSUME NEW win, NEW c, NEW s, NEW d, NEW w \in WindowTypes,
         Pre(win, c, s, d), ~critical_hit(w), ~warning_hit(w), recovered(w),
         c.state # "Normal"
  PROVE  Post(win, c, s, d, w, RecoveredWindow(c, win))
<1> DEFINE r == RecoveredWindow(c, win)
           t == CountStreak(s, w)
           closed == c.recovery_count + 1 >= win.recovery
<1>1. t = [warn |-> 0, hit |-> 0, crit |-> 0, rec |-> s.rec + 1]
  BY DEF CountStreak
<1>2. CASE closed
  <2>1. r = [ctx |-> [state |-> "Normal", hit_count |-> 0,
                      critical_hit_count |-> 0,
                      recovery_count |-> c.recovery_count + 1,
                      last_seen |-> c.last_seen,
                      last_activation |-> c.last_activation,
                      notification_active |-> FALSE],
             level |-> IF c.notification_active THEN "Recovery" ELSE "none"]
    <3>1. c \in RuleContext /\ win.recovery \in Nat
      BY DEF Pre, WindowCounts
    <3>2. PICK e : e = [c EXCEPT !.recovery_count = @ + 1, !.state = "Normal",
                                 !.hit_count = 0, !.critical_hit_count = 0]
      OBVIOUS
    <3>3. e = [state |-> "Normal", hit_count |-> 0, critical_hit_count |-> 0,
               recovery_count |-> c.recovery_count + 1,
               last_seen |-> c.last_seen,
               last_activation |-> c.last_activation,
               notification_active |-> c.notification_active]
      BY <3>1, <3>2 DEF RuleContext
    <3>4. PICK f : f = [e EXCEPT !.notification_active = FALSE]
      OBVIOUS
    <3>5. f = [state |-> "Normal", hit_count |-> 0, critical_hit_count |-> 0,
               recovery_count |-> c.recovery_count + 1,
               last_seen |-> c.last_seen,
               last_activation |-> c.last_activation,
               notification_active |-> FALSE]
      BY <3>3, <3>4
    <3>6. r = IF ~c.notification_active THEN [ctx |-> e, level |-> "none"]
              ELSE [ctx |-> f, level |-> "Recovery"]
      BY <1>2, <3>1, <3>2, <3>4 DEF RecoveredWindow, Returns, RuleContext
    <3>7. c.notification_active \in BOOLEAN
      BY <3>1 DEF RuleContext
    <3>8. CASE c.notification_active
      BY <3>5, <3>6, <3>8
    <3>9. CASE ~c.notification_active
      <4>1. e = f
        BY <3>3, <3>5, <3>7, <3>9
      <4> QED BY <3>5, <3>6, <3>9, <4>1
    <3> QED BY <3>8, <3>9
  <2>2. t.rec >= win.recovery
    BY <1>1, <1>2
    DEF Pre, Tracks, CountersAgree, RuleContext, Streaks, WindowCounts
  <2>3. /\ r.level = "Recovery" => Open(d)
        /\ r.level \in {"Recovery", "none"}
        /\ r.level = "none" => ~Open(d)
    BY <2>1 DEF Pre, Tracks, SaidAgrees, Open
  <2> HIDE DEF r, t
  <2>4. r.ctx \in RuleContext /\ r.level \in Sayings
    BY <2>1, <2>3 DEF RuleContext, Pre, Sayings, Levels
  <2>5. SaidAgrees(r.ctx, IF r.level = "none" THEN d ELSE r.level)
    BY <2>1, <2>3 DEF SaidAgrees, Open
  <2>6. CountersAgree(r.ctx, t) /\ StateAgrees(win, r.ctx, t)
    BY <1>1, <2>1
    DEF CountersAgree, StateAgrees, Pre, Tracks, RuleContext, Streaks,
        WindowCounts
  <2>7. r.ctx.state = "Normal" /\ r.ctx.last_activation <= now
    BY <2>1 DEF Pre
  <2>8. Tracks(win, r.ctx, t, IF r.level = "none" THEN d ELSE r.level)
    BY <2>5, <2>6 DEF Tracks
  <2> QED BY <2>2, <2>3, <2>4, <2>7, <2>8 DEF Post, t, r
<1>3. CASE ~closed
  <2>1. r = [ctx |-> [state |-> c.state, hit_count |-> c.hit_count,
                      critical_hit_count |-> c.critical_hit_count,
                      recovery_count |-> c.recovery_count + 1,
                      last_seen |-> c.last_seen,
                      last_activation |-> c.last_activation,
                      notification_active |-> c.notification_active],
             level |-> "none"]
    BY <1>3 DEF RecoveredWindow, Returns, Pre, RuleContext, WindowCounts
  <2> HIDE DEF r, t
  <2>2. r.ctx \in RuleContext /\ r.level \in Sayings
    BY <2>1 DEF RuleContext, Pre, Sayings
  <2>3. SaidAgrees(r.ctx, d)
    BY <2>1 DEF SaidAgrees, Pre, Tracks
  <2>4. CountersAgree(r.ctx, t) /\ StateAgrees(win, r.ctx, t)
    BY <1>1, <1>3, <2>1
    DEF CountersAgree, StateAgrees, Pre, Tracks, RuleContext, Streaks,
        WindowCounts
  <2>5. /\ r.level = "none" /\ r.ctx.state = c.state
        /\ r.ctx.last_activation <= now
    BY <2>1 DEF Pre
  <2>6. Tracks(win, r.ctx, t, IF r.level = "none" THEN d ELSE r.level)
    BY <2>3, <2>4, <2>5 DEF Tracks
  <2> QED BY <2>2, <2>5, <2>6 DEF Post, t, r
<1> QED BY <1>2, <1>3

\* Any other window starts all counters over.
LEMMA QuietPost ==
  ASSUME NEW win, NEW c, NEW s, NEW d, NEW w \in WindowTypes,
         Pre(win, c, s, d), ~critical_hit(w), ~warning_hit(w),
         ~recovered(w) \/ c.state = "Normal"
  PROVE  Post(win, c, s, d, w, QuietWindow(c))
<1> DEFINE r == QuietWindow(c)
           t == CountStreak(s, w)
<1>1. t = [warn |-> 0, hit |-> 0, crit |-> 0,
           rec |-> IF recovered(w) THEN s.rec + 1 ELSE 0]
  BY DEF CountStreak
<1>2. /\ t.warn = 0 /\ t.hit = 0 /\ t.crit = 0 /\ t.rec \in Nat
      /\ c.state # "Normal" => t.rec = 0
  BY <1>1 DEF Pre, Streaks
<1>3. r = [ctx |-> [state |-> c.state, hit_count |-> 0,
                    critical_hit_count |-> 0, recovery_count |-> 0,
                    last_seen |-> c.last_seen,
                    last_activation |-> c.last_activation,
                    notification_active |-> c.notification_active],
           level |-> "none"]
  <2>1. c \in RuleContext
    BY DEF Pre
  <2>2. PICK e : e = [c EXCEPT !.hit_count = 0, !.critical_hit_count = 0,
                               !.recovery_count = 0]
    OBVIOUS
  <2>3. e = [state |-> c.state, hit_count |-> 0,
             critical_hit_count |-> 0, recovery_count |-> 0,
             last_seen |-> c.last_seen, last_activation |-> c.last_activation,
             notification_active |-> c.notification_active]
    BY <2>1, <2>2 DEF RuleContext
  <2> QED BY <2>2, <2>3 DEF QuietWindow, Returns
<1> HIDE DEF r, t
<1>4. r.ctx \in RuleContext /\ r.level \in Sayings
  BY <1>3 DEF RuleContext, Pre, Sayings
<1>5. SaidAgrees(r.ctx, d)
  BY <1>3 DEF SaidAgrees, Pre, Tracks
<1>6. CountersAgree(r.ctx, t) /\ StateAgrees(win, r.ctx, t)
  BY <1>2, <1>3 DEF CountersAgree, StateAgrees
<1>7. /\ r.level = "none" /\ r.ctx.state = c.state
      /\ r.ctx.last_activation <= now
  BY <1>3 DEF Pre
<1>8. Tracks(win, r.ctx, t, IF r.level = "none" THEN d ELSE r.level)
  BY <1>5, <1>6, <1>7 DEF Tracks
<1>9. c.state = "Normal" => r.ctx.state # "Warning"
  BY <1>7
<1> QED BY <1>4, <1>7, <1>8, <1>9 DEF Post, t, r

\* Whatever the window, evaluate_threshold keeps the context in step with
\* its history, and its events follow the rules of Post.
LEMMA ThresholdPost ==
  ASSUME NEW win, NEW c, NEW s, NEW d, NEW w \in WindowTypes,
         Pre(win, c, s, d)
  PROVE  Post(win, c, s, d, w, evaluate_threshold(c, win, w))
<1>1. PICK e : e = [c EXCEPT !.last_seen = now]
  OBVIOUS
<1>2. e = [state |-> c.state, hit_count |-> c.hit_count,
           critical_hit_count |-> c.critical_hit_count,
           recovery_count |-> c.recovery_count, last_seen |-> now,
           last_activation |-> c.last_activation,
           notification_active |-> c.notification_active]
  BY <1>1 DEF Pre, RuleContext
<1>3. Pre(win, e, s, d)
  <2>1. e \in RuleContext
    BY <1>2 DEF Pre, RuleContext
  <2>2. SaidAgrees(e, d)
    BY <1>2 DEF Pre, Tracks, SaidAgrees
  <2>3. CountersAgree(e, s)
    BY <1>2 DEF Pre, Tracks, CountersAgree
  <2>4. StateAgrees(win, e, s)
    BY <1>2 DEF Pre, Tracks, StateAgrees
  <2>5. e.last_activation <= now
    BY <1>2 DEF Pre
  <2> QED BY <2>1, <2>2, <2>3, <2>4, <2>5 DEF Pre, Tracks
<1>4. Post(win, e, s, d, w, evaluate_threshold(c, win, w))
  <2>1. CASE critical_hit(w)
    BY <1>1, <1>3, <2>1, CriticalPost DEF evaluate_threshold
  <2>2. CASE ~critical_hit(w) /\ warning_hit(w)
    BY <1>1, <1>3, <2>2, WarningPost DEF evaluate_threshold
  <2>3. CASE /\ ~critical_hit(w) /\ ~warning_hit(w)
             /\ recovered(w) /\ e.state # "Normal"
    BY <1>1, <1>3, <2>3, RecoveredPost DEF evaluate_threshold
  <2>4. CASE /\ ~critical_hit(w) /\ ~warning_hit(w)
             /\ ~recovered(w) \/ e.state = "Normal"
    BY <1>1, <1>3, <2>4, QuietPost DEF evaluate_threshold
  <2> QED BY <2>1, <2>2, <2>3, <2>4
<1>5. e.state = c.state /\ e.last_activation = c.last_activation
  BY <1>2
<1> QED BY <1>4, <1>5 DEF Post

---------------------------------------------------------------------------
(***************************************************************************)
(* The invariant.                                                          *)
(***************************************************************************)
\* Every key has its configured numbers of windows.
LEMMA WindowsOfType ==
  ASSUME NEW k \in Keys
  PROVE  WindowsOf(k) \in WindowCounts
<1>1. ProcessWindows \in WindowCounts
  BY DEF ProcessWindows, WindowCounts
<1>2. k[1] = "process" \/ k[1] \in Rules
  BY DEF Keys, MapKeys, SingleKeys, Single, Rules
<1> QED BY <1>1, <1>2, WindowsAssumption DEF WindowsOf

\* A context that was just created agrees with its empty history.
LEMMA FreshTracks ==
  ASSUME NEW win \in WindowCounts
  PROVE  /\ Tracks(win, FreshContext, FreshStreak, "none")
         /\ FreshContext \in RuleContext /\ FreshStreak \in Streaks
         /\ FreshContext.last_activation = 0
BY DEF Tracks, SaidAgrees, CountersAgree, StateAgrees, FreshContext,
       FreshStreak, RuleContext, Streaks

\* Initially nothing has been seen and nothing said.
LEMMA InitIInv == Init => IInv
<1> SUFFICES ASSUME Init PROVE IInv
  OBVIOUS
<1>1. TypeOK
  <2>1. FreshContext \in RuleContext /\ FreshStreak \in Streaks
    BY DEF FreshContext, FreshStreak, RuleContext, Streaks
  <2>2. last \in [drop : Nat, critical : Nat, failures : Nat]
    BY DEF Init
  <2> QED
    BY <2>1, <2>2, BoundsAssumption DEF Init, TypeOK, Streaks, Keys
<1>2. ASSUME NEW k \in Keys
      PROVE  /\ Tracks(WindowsOf(k), ctx[k], streak[k], said[k])
             /\ ctx[k].last_activation <= now
  BY WindowsOfType, FreshTracks DEF Init
<1> QED BY <1>1, <1>2 DEF IInv

\* An evaluation, as the invariant sees it: one key, the contexts that are
\* pruned for it, and one window.
EvaluatorStep(key, gone, w) ==
  /\ Evaluate(key, gone, w)
  /\ key \in Keys /\ w \in WindowTypes
  /\ gone \subseteq {k \in MapKeys : k # key /\ Expired(k)}
  /\ key[1] \notin {"queue", "io"} => ~w.warning
  /\ last' \in [drop : Nat, critical : Nat, failures : Nat]

\* Every evaluator is such a step.
LEMMA EvaluatorShape ==
  ASSUME TypeOK, Evaluations
  PROVE  \E key, gone, w : EvaluatorStep(key, gone, w)
<1>1. PICK zone \in Zones :
        \/ evaluate_memory(zone)
        \/ evaluate_self_rss(zone)
        \/ \E dropped, critical, failures \in 0..MaxDrops :
             evaluate_queue(zone, dropped, critical, failures)
        \/ \E t \in Targets :
             \/ evaluate_cpu_usage(t, zone)
             \/ evaluate_process_memory_growth(t, zone)
             \/ \E hit \in BOOLEAN : evaluate_sched_delay(t, zone, hit)
             \/ \E util \in Zones, busy \in BOOLEAN :
                  evaluate_io_delay(t, zone, util, busy)
  BY DEF Evaluations
<1> DEFINE LastOK == last' \in [drop : Nat, critical : Nat, failures : Nat]
<1>2. last' = last => LastOK
  BY DEF TypeOK
<1>3. ASSUME NEW z \in Zones
      PROVE  PlainWindow(z) \in WindowTypes /\ ~PlainWindow(z).warning
  BY DEF PlainWindow, Window, WindowTypes
<1>4. CASE evaluate_memory(zone)
  <2>1. EvaluatorStep(<<"memory", "memory">>, {}, PlainWindow(zone))
    BY <1>2, <1>3, <1>4
    DEF EvaluatorStep, evaluate_memory, Keys, SingleKeys, Single
  <2> QED BY <2>1
<1>5. CASE evaluate_self_rss(zone)
  <2>1. EvaluatorStep(<<"self_rss", "self_rss">>, {}, PlainWindow(zone))
    BY <1>2, <1>3, <1>5
    DEF EvaluatorStep, evaluate_self_rss, Keys, SingleKeys, Single
  <2> QED BY <2>1
<1>6. ASSUME NEW dropped \in 0..MaxDrops, NEW critical \in 0..MaxDrops,
             NEW failures \in 0..MaxDrops,
             evaluate_queue(zone, dropped, critical, failures)
      PROVE  \E key, gone, w : EvaluatorStep(key, gone, w)
  <2> DEFINE drop == dropped + failures > last.drop
                       \/ failures > last.failures
             w == Window(zone, drop, critical > last.critical, drop)
  <2>1. w \in WindowTypes
    BY DEF Window, WindowTypes
  <2>2. LastOK
    BY <1>6, BoundsAssumption DEF evaluate_queue
  <2>3. Evaluate(<<"queue", "queue">>, {}, w)
    BY <1>6 DEF evaluate_queue
  <2>4. <<"queue", "queue">> \in Keys
    BY DEF Keys, SingleKeys, Single
  <2> HIDE DEF w
  <2>5. EvaluatorStep(<<"queue", "queue">>, {}, w)
    BY <2>1, <2>2, <2>3, <2>4 DEF EvaluatorStep
  <2> QED BY <2>5
<1>7. ASSUME NEW t \in Targets, evaluate_cpu_usage(t, zone)
      PROVE  \E key, gone, w : EvaluatorStep(key, gone, w)
  <2>1. EvaluatorStep(<<"cpu", t>>, Pruned(<<"cpu", t>>), PlainWindow(zone))
    BY <1>2, <1>3, <1>7
    DEF EvaluatorStep, evaluate_cpu_usage, Keys, MapKeys, Pruned
  <2> QED BY <2>1
<1>8. ASSUME NEW t \in Targets, evaluate_process_memory_growth(t, zone)
      PROVE  \E key, gone, w : EvaluatorStep(key, gone, w)
  <2>1. EvaluatorStep(<<"process", t>>, Pruned(<<"process", t>>),
                      PlainWindow(zone))
    BY <1>2, <1>3, <1>8
    DEF EvaluatorStep, evaluate_process_memory_growth, Keys, MapKeys, Pruned
  <2> QED BY <2>1
<1>9. ASSUME NEW t \in Targets, NEW hit \in BOOLEAN,
             evaluate_sched_delay(t, zone, hit)
      PROVE  \E key, gone, w : EvaluatorStep(key, gone, w)
  <2> DEFINE z == IF hit THEN zone ELSE "recovered"
  <2>1. z \in Zones
    BY DEF Zones
  <2>2. EvaluatorStep(<<"sched", t>>, Pruned(<<"sched", t>>), PlainWindow(z))
    BY <1>2, <1>3, <1>9, <2>1
    DEF EvaluatorStep, evaluate_sched_delay, Keys, MapKeys, Pruned
  <2> QED BY <2>2
<1>10. ASSUME NEW t \in Targets, NEW util \in Zones, NEW busy \in BOOLEAN,
              evaluate_io_delay(t, zone, util, busy)
       PROVE  \E key, gone, w : EvaluatorStep(key, gone, w)
  <2> DEFINE w == Window(zone, util \in {"warning", "critical"} /\ busy,
                         util = "critical" /\ busy, util # "recovered")
  <2>1. w \in WindowTypes
    BY DEF Window, WindowTypes
  <2>2. Evaluate(<<"io", t>>, Pruned(<<"io", t>>), w) /\ LastOK
    BY <1>2, <1>10 DEF evaluate_io_delay
  <2> HIDE DEF w
  <2>3. EvaluatorStep(<<"io", t>>, Pruned(<<"io", t>>), w)
    BY <2>1, <2>2 DEF EvaluatorStep, Keys, MapKeys, Pruned
  <2> QED BY <2>3
<1> QED BY <1>1, <1>4, <1>5, <1>6, <1>7, <1>8, <1>9, <1>10

\* What an evaluation does, key by key.
EvaluatorEffect(key, gone, w, r) ==
  /\ Post(WindowsOf(key), ctx[key], streak[key], said[key], w, r)
  /\ ctx'[key] = r.ctx
  /\ streak'[key] = CountStreak(streak[key], w)
  /\ said'[key] = IF r.level = "none" THEN said[key] ELSE r.level
  /\ emitted' = IF r.level = "none" THEN NoEvent
                ELSE [key |-> key, level |-> r.level]
  /\ \A k \in Keys \ {key} :
       \/ /\ k \in gone
          /\ ctx'[k] = FreshContext
          /\ streak'[k] = FreshStreak
          /\ said'[k] = "none"
       \/ /\ k \notin gone
          /\ ctx'[k] = ctx[k]
          /\ streak'[k] = streak[k]
          /\ said'[k] = said[k]

\* An evaluation has that effect.
LEMMA EvaluatorEffects ==
  ASSUME IInv, NEW key, NEW gone, NEW w, EvaluatorStep(key, gone, w)
  PROVE  EvaluatorEffect(key, gone, w,
                         evaluate_threshold(ctx[key], WindowsOf(key), w))
<1> DEFINE r == evaluate_threshold(ctx[key], WindowsOf(key), w)
<1>1. key \in Keys /\ w \in WindowTypes /\ key \notin gone
  BY DEF EvaluatorStep
<1>2. Pre(WindowsOf(key), ctx[key], streak[key], said[key])
  <2>1. now \in Nat
    BY BoundsAssumption DEF IInv, TypeOK
  <2>2. /\ ctx[key] \in RuleContext /\ streak[key] \in Streaks
        /\ said[key] \in Sayings
    BY <1>1 DEF IInv, TypeOK, Streaks, Sayings
  <2> QED BY <1>1, <2>1, <2>2, WindowsOfType DEF Pre, IInv
<1>3. Post(WindowsOf(key), ctx[key], streak[key], said[key], w, r)
  BY <1>1, <1>2, ThresholdPost
<1> HIDE DEF r
<1>4. /\ ctx' = [k \in Keys |-> IF k = key THEN r.ctx
                                ELSE IF k \in gone THEN FreshContext
                                ELSE ctx[k]]
      /\ emitted' = IF r.level = "none" THEN NoEvent
                    ELSE [key |-> key, level |-> r.level]
      /\ streak' = [k \in Keys |-> IF k = key THEN CountStreak(streak[k], w)
                                   ELSE IF k \in gone THEN FreshStreak
                                   ELSE streak[k]]
      /\ said' = [k \in Keys |-> IF k = key /\ r.level # "none" THEN r.level
                                 ELSE IF k \in gone THEN "none"
                                 ELSE said[k]]
  BY DEF EvaluatorStep, Evaluate, MakeEvent, r
<1> QED BY <1>1, <1>3, <1>4 DEF EvaluatorEffect, r

\* A streak stays a record of numbers.
LEMMA CountStreakType ==
  ASSUME NEW s \in Streaks, NEW w
  PROVE  CountStreak(s, w) \in Streaks
BY DEF CountStreak, Streaks

\* An evaluation keeps the invariant.
LEMMA EvaluatorIInv ==
  ASSUME IInv, NEW key, NEW gone, NEW w, EvaluatorStep(key, gone, w)
  PROVE  IInv'
<1> DEFINE r == evaluate_threshold(ctx[key], WindowsOf(key), w)
<1>1. EvaluatorEffect(key, gone, w, r)
  BY EvaluatorEffects
<1> HIDE DEF r
<1>2. /\ key \in Keys /\ key \notin gone /\ gone \subseteq Keys
      /\ DOMAIN ctx' = Keys /\ DOMAIN streak' = Keys /\ DOMAIN said' = Keys
      /\ ctx' = [k \in Keys |-> ctx'[k]]
      /\ streak' = [k \in Keys |-> streak'[k]]
      /\ said' = [k \in Keys |-> said'[k]]
  BY DEF EvaluatorStep, Evaluate, Keys
<1>3. /\ now' = now /\ now \in Nat /\ config' = config
      /\ evaluations' \in 0..MaxEvaluations
      /\ present' \subseteq Keys
  BY <1>2, BoundsAssumption DEF EvaluatorStep, Evaluate, IInv, TypeOK
<1>4. ASSUME NEW k \in Keys
      PROVE  /\ ctx'[k] \in RuleContext
             /\ streak'[k] \in Streaks
             /\ said'[k] \in Sayings
             /\ Tracks(WindowsOf(k), ctx'[k], streak'[k], said'[k])
             /\ ctx'[k].last_activation <= now
  <2>1. /\ ctx[k] \in RuleContext /\ streak[k] \in Streaks
        /\ said[k] \in Sayings
        /\ Tracks(WindowsOf(k), ctx[k], streak[k], said[k])
        /\ ctx[k].last_activation <= now
    BY DEF IInv, TypeOK, Streaks, Sayings
  <2>2. CASE k = key
    BY <1>1, <2>1, <2>2, CountStreakType DEF EvaluatorEffect, Post
  <2>3. CASE k # key /\ k \in gone
    <3>1. ctx'[k] = FreshContext /\ streak'[k] = FreshStreak
          /\ said'[k] = "none"
      BY <1>1, <2>3 DEF EvaluatorEffect
    <3>2. 0 <= now /\ "none" \in Sayings
      BY <1>3 DEF Sayings
    <3> QED BY <3>1, <3>2, WindowsOfType, FreshTracks
  <2>4. CASE k # key /\ k \notin gone
    BY <1>1, <2>1, <2>4 DEF EvaluatorEffect
  <2> QED BY <2>2, <2>3, <2>4
<1>5. emitted' \in [key : Keys, level : Levels] \cup {NoEvent}
  <2>1. r.level \in Sayings
    BY <1>1 DEF EvaluatorEffect, Post
  <2> QED BY <1>1, <1>2, <2>1 DEF EvaluatorEffect, Sayings
<1>6. TypeOK'
  <2>1. /\ ctx' \in [Keys -> RuleContext]
        /\ streak' \in [Keys -> Streaks]
        /\ said' \in [Keys -> Sayings]
    BY <1>2, <1>4
  <2>2. config' \in Configs /\ now' \in 1..MaxTime
    BY <1>3 DEF IInv, TypeOK
  <2>3. last' \in [drop : Nat, critical : Nat, failures : Nat]
    BY DEF EvaluatorStep
  <2> QED BY <1>3, <1>5, <2>1, <2>2, <2>3 DEF TypeOK, Streaks, Sayings
<1> QED BY <1>3, <1>4, <1>6 DEF IInv

\* Forgetting a process starts its context and its history over.
LEMMA ForgetIInv ==
  ASSUME IInv, NEW t \in Targets, forget_process_memory(t)
  PROVE  IInv'
<1> DEFINE key == <<"process", t>>
<1>1. key \in Keys
  BY DEF Keys, MapKeys
<1>2. /\ ctx' = [ctx EXCEPT ![key] = FreshContext]
      /\ streak' = [streak EXCEPT ![key] = FreshStreak]
      /\ said' = [said EXCEPT ![key] = "none"]
      /\ present' = present \ {key}
      /\ emitted' = NoEvent
      /\ UNCHANGED <<config, last, now, evaluations>>
  BY DEF forget_process_memory
<1>3. /\ FreshContext \in RuleContext /\ FreshStreak \in Streaks
      /\ Tracks(WindowsOf(key), FreshContext, FreshStreak, "none")
      /\ FreshContext.last_activation = 0
  BY <1>1, WindowsOfType, FreshTracks
<1> HIDE DEF key
<1>4. TypeOK'
  BY <1>1, <1>2, <1>3 DEF IInv, TypeOK, Streaks
<1>5. ASSUME NEW k \in Keys
      PROVE  /\ Tracks(WindowsOf(k), ctx'[k], streak'[k], said'[k])
             /\ ctx'[k].last_activation <= now'
  <2>1. now' = now /\ now \in Nat
    BY <1>2, BoundsAssumption DEF IInv, TypeOK
  <2>2. CASE k = key
    BY <1>1, <1>2, <1>3, <2>1, <2>2 DEF IInv, TypeOK
  <2>3. CASE k # key
    BY <1>1, <1>2, <2>1, <2>3 DEF IInv, TypeOK
  <2> QED BY <2>2, <2>3
<1> QED BY <1>4, <1>5 DEF IInv

\* Time passes.
LEMMA TickIInv ==
  ASSUME IInv, Tick
  PROVE  IInv'
<1>1. TypeOK'
  BY BoundsAssumption DEF IInv, TypeOK, Tick
<1>2. ASSUME NEW k \in Keys
      PROVE  /\ Tracks(WindowsOf(k), ctx'[k], streak'[k], said'[k])
             /\ ctx'[k].last_activation <= now'
  <2>1. ctx[k].last_activation \in Nat /\ now \in Nat /\ now' = now + 1
    BY BoundsAssumption DEF IInv, TypeOK, RuleContext, Tick
  <2>2. /\ ctx'[k] = ctx[k] /\ streak'[k] = streak[k] /\ said'[k] = said[k]
        /\ ctx[k].last_activation <= now
    BY DEF IInv, Tick
  <2>3. Tracks(WindowsOf(k), ctx'[k], streak'[k], said'[k])
    BY <2>2 DEF IInv
  <2> QED BY <2>1, <2>2, <2>3
<1> QED BY <1>1, <1>2 DEF IInv

\* Every step keeps the invariant.
LEMMA StepIInv == IInv /\ [Next]_vars => IInv'
<1> SUFFICES ASSUME IInv, [Next]_vars PROVE IInv'
  OBVIOUS
<1>1. CASE Evaluations
  <2>1. PICK key, gone, w : EvaluatorStep(key, gone, w)
    BY <1>1, EvaluatorShape DEF IInv
  <2> QED BY <2>1, EvaluatorIInv
<1>2. ASSUME NEW t \in Targets, forget_process_memory(t) PROVE IInv'
  BY <1>2, ForgetIInv
<1>3. CASE Tick
  BY <1>3, TickIInv
<1>4. CASE UNCHANGED vars
  BY <1>4 DEF vars, IInv, TypeOK
<1> QED BY <1>1, <1>2, <1>3, <1>4 DEF Next

\* The inductive invariant, on which everything below rests.
THEOREM InductiveInvariant == Spec => []IInv
BY InitIInv, StepIInv, PTL DEF Spec

---------------------------------------------------------------------------
(***************************************************************************)
(* The properties.                                                         *)
(***************************************************************************)
\* The engine keeps its types: no counter of a context goes below 0 and no
\* state outside the three appears.
THEOREM TypeCorrect == Spec => []TypeOK
<1>1. IInv => TypeOK
  BY DEF IInv
<1> QED BY <1>1, InductiveInvariant, PTL

\* notification_active is set exactly while an announced alert is open.
THEOREM NotificationCorrect == Spec => []NotificationTracksEvents
<1>1. IInv => NotificationTracksEvents
  BY DEF IInv, NotificationTracksEvents, Tracks, SaidAgrees
<1> QED BY <1>1, InductiveInvariant, PTL

\* The state of a rule is the one its last windows demand.
THEOREM StateCorrect == Spec => []StateFollowsPressure
<1>1. IInv => StateFollowsPressure
  BY DEF IInv, StateFollowsPressure, Tracks, StateAgrees
<1> QED BY <1>1, InductiveInvariant, PTL

\* A step that is no evaluation returns no event.
LEMMA SilentStep ==
  ASSUME [Next]_vars, ~Evaluations, ~UNCHANGED vars
  PROVE  /\ emitted' = NoEvent
         /\ Tick \/ \E t \in Targets : forget_process_memory(t)
BY DEF Next, Tick, forget_process_memory

\* The events of an alert follow its life cycle.
THEOREM LifeCycleCorrect == Spec => AlertLifeCycle
<1> DEFINE A == emitted' # NoEvent =>
                  LET before == said[emitted'.key]
                  IN  CASE emitted'.level = "Warning" ->
                             before \in {"none", "Recovery"}
                        [] emitted'.level = "Critical" -> before # "Critical"
                        [] OTHER -> before \in {"Warning", "Critical"}
<1>1. IInv /\ [Next]_vars => A \/ UNCHANGED vars
  <2> SUFFICES ASSUME IInv, [Next]_vars, emitted' # NoEvent, ~UNCHANGED vars
               PROVE  A
    OBVIOUS
  <2>1. PICK key, gone, w : EvaluatorStep(key, gone, w)
    BY SilentStep, EvaluatorShape DEF IInv
  <2> DEFINE r == evaluate_threshold(ctx[key], WindowsOf(key), w)
  <2>2. EvaluatorEffect(key, gone, w, r)
    BY <2>1, EvaluatorEffects
  <2> HIDE DEF r
  <2>3. /\ emitted' = [key |-> key, level |-> r.level]
        /\ r.level \in Levels
    BY <2>2 DEF EvaluatorEffect, Post, Sayings
  <2>4. said[key] \in Sayings
    BY <2>1 DEF IInv, TypeOK, EvaluatorStep, Sayings
  <2>5. /\ r.level = "Warning" => said[key] \in {"none", "Recovery"}
        /\ r.level = "Critical" => said[key] # "Critical"
        /\ r.level = "Recovery" => said[key] \in {"Warning", "Critical"}
    BY <2>2, <2>4 DEF EvaluatorEffect, Post, Open, Sayings, Levels
  <2>6. emitted'.key = key /\ emitted'.level = r.level
    BY <2>3
  <2>7. r.level \in {"Warning", "Critical", "Recovery"}
    BY <2>3 DEF Levels
  <2> QED BY <2>5, <2>6, <2>7
<1> QED
  BY <1>1, InductiveInvariant, PTL DEF Spec, AlertLifeCycle

\* An alert neither opens nor closes before its number of windows in a row.
THEOREM HysteresisCorrect == Spec => Hysteresis
<1> DEFINE H(k) ==
      LET win == WindowsOf(k)
      IN  /\ ctx[k].state = "Normal" /\ ctx'[k].state = "Warning"
             /\ k[1] \notin {"queue", "io"} => streak'[k].hit >= win.warning
          /\ ctx[k].state # "Normal" /\ ctx'[k].state = "Normal"
             /\ k \in present' => streak'[k].rec >= win.recovery
<1>1. IInv /\ [Next]_vars => (\A k \in Keys : H(k)) \/ UNCHANGED vars
  <2> SUFFICES ASSUME IInv, [Next]_vars, ~UNCHANGED vars, NEW k \in Keys
               PROVE  H(k)
    OBVIOUS
  <2>1. CASE Evaluations
    <3>1. PICK key, gone, w : EvaluatorStep(key, gone, w)
      BY <2>1, EvaluatorShape DEF IInv
    <3> DEFINE r == evaluate_threshold(ctx[key], WindowsOf(key), w)
    <3>2. EvaluatorEffect(key, gone, w, r)
      BY <3>1, EvaluatorEffects
    <3> HIDE DEF r
    <3>3. CASE k = key
      <4>1. key[1] \notin {"queue", "io"} => ~w.warning
        BY <3>1 DEF EvaluatorStep
      <4> QED BY <3>2, <3>3, <4>1 DEF EvaluatorEffect, Post
    <3>4. CASE k # key /\ k \in gone
      <4>1. ctx'[k].state = "Normal" /\ k \notin present'
        BY <3>1, <3>2, <3>4
        DEF EvaluatorEffect, FreshContext, EvaluatorStep, Evaluate, MakeEvent
      <4> QED BY <4>1
    <3>5. CASE k # key /\ k \notin gone
      <4>1. ctx'[k] = ctx[k]
        BY <3>2, <3>5 DEF EvaluatorEffect
      <4> QED BY <4>1
    <3> QED BY <3>3, <3>4, <3>5
  <2>2. ASSUME NEW t \in Targets, forget_process_memory(t) PROVE H(k)
    <3>1. CASE k = <<"process", t>>
      <4>1. ctx'[k].state = "Normal" /\ k \notin present'
        BY <2>2, <3>1 DEF forget_process_memory, FreshContext, IInv, TypeOK
      <4> QED BY <4>1
    <3>2. CASE k # <<"process", t>>
      <4>1. ctx'[k] = ctx[k]
        BY <2>2, <3>2 DEF forget_process_memory, IInv, TypeOK
      <4> QED BY <4>1
    <3> QED BY <3>1, <3>2
  <2>3. CASE Tick
    BY <2>3 DEF Tick
  <2> QED BY <2>1, <2>2, <2>3, SilentStep
<1> QED
  BY <1>1, InductiveInvariant, PTL DEF Spec, Hysteresis

\* No Warning is announced within the cooldown of the last activation.
THEOREM CooldownCorrect == Spec => CooldownKept
<1> DEFINE C == emitted'.level = "Warning" =>
                  LET c == ctx[emitted'.key]
                  IN  \/ c.last_activation = 0
                      \/ now - c.last_activation >= Cooldown
<1>1. IInv /\ [Next]_vars => C \/ UNCHANGED vars
  <2> SUFFICES ASSUME IInv, [Next]_vars, emitted'.level = "Warning",
                      ~UNCHANGED vars
               PROVE  C
    OBVIOUS
  <2>1. emitted' # NoEvent
    BY DEF NoEvent
  <2>2. PICK key, gone, w : EvaluatorStep(key, gone, w)
    BY <2>1, SilentStep, EvaluatorShape DEF IInv
  <2> DEFINE r == evaluate_threshold(ctx[key], WindowsOf(key), w)
  <2>3. EvaluatorEffect(key, gone, w, r)
    BY <2>2, EvaluatorEffects
  <2> HIDE DEF r
  <2>4. emitted' = [key |-> key, level |-> r.level]
    BY <2>1, <2>3 DEF EvaluatorEffect
  <2>5. emitted'.key = key /\ r.level = "Warning"
    BY <2>4
  <2> QED BY <2>3, <2>5 DEF EvaluatorEffect, Post
<1> QED
  BY <1>1, InductiveInvariant, PTL DEF Spec, CooldownKept

\* An open alert ends with its Recovery, or its target was silent for the TTL
\* or a process that was forgotten.
THEOREM OpenAlertCorrect == Spec => OpenAlertEnds
<1> DEFINE E(k) ==
      Open(said[k]) /\ ~Open(said'[k])
        => \/ emitted' = [key |-> k, level |-> "Recovery"]
           \/ k \in MapKeys /\ now - ctx[k].last_seen >= Ttl
           \/ k[1] = "process" /\ emitted' = NoEvent
<1>1. IInv /\ [Next]_vars => (\A k \in Keys : E(k)) \/ UNCHANGED vars
  <2> SUFFICES ASSUME IInv, [Next]_vars, ~UNCHANGED vars, NEW k \in Keys,
                      Open(said[k]), ~Open(said'[k])
               PROVE  E(k)
    OBVIOUS
  <2>1. CASE Evaluations
    <3>1. PICK key, gone, w : EvaluatorStep(key, gone, w)
      BY <2>1, EvaluatorShape DEF IInv
    <3> DEFINE r == evaluate_threshold(ctx[key], WindowsOf(key), w)
    <3>2. EvaluatorEffect(key, gone, w, r)
      BY <3>1, EvaluatorEffects
    <3> HIDE DEF r
    <3>3. CASE k = key
      <4>1. r.level \in {"Recovery"}
        BY <3>2, <3>3 DEF EvaluatorEffect, Post, Sayings, Levels, Open
      <4> QED BY <3>2, <3>3, <4>1 DEF EvaluatorEffect
    <3>4. CASE k # key
      <4>1. k \in gone
        BY <3>2, <3>4 DEF EvaluatorEffect
      <4> QED BY <3>1, <4>1 DEF EvaluatorStep, Expired
    <3> QED BY <3>3, <3>4
  <2>2. ASSUME NEW t \in Targets, forget_process_memory(t) PROVE E(k)
    <3>1. k = <<"process", t>>
      BY <2>2 DEF forget_process_memory, IInv, TypeOK
    <3> QED BY <2>2, <3>1 DEF forget_process_memory
  <2>3. CASE Tick
    BY <2>3 DEF Tick
  <2> QED BY <2>1, <2>2, <2>3, SilentStep
<1> QED
  BY <1>1, InductiveInvariant, PTL DEF Spec, OpenAlertEnds
=============================================================================
