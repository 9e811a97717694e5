------------------------ MODULE MetricsConfigProofs ------------------------
(***************************************************************************)
(* Proofs about the two parts of the agent that stand alone, Metrics and   *)
(* Config.                                                                 *)
(*                                                                         *)
(* Metrics, for any descriptors, publishers and gauge families, and any    *)
(* number of starts, clients, events and passes.  The server closes only   *)
(* what is its own because the table of descriptors and its two numbers    *)
(* never disagree (DescriptorInv), and the thread that stops it knows how  *)
(* far it is (ServerInv).  A page counts what it should because an event   *)
(* under way is drawn and not recorded yet (EventInv, PageInv), and its    *)
(* families come from two passes at most (FamilyInv).                      *)
(*                                                                         *)
(* Config, for any numbers and words.  A rule that has been applied has    *)
(* nothing to correct any more (RuledTwice), and a later rule leaves it so *)
(* unless it changes a setting the first one looks at; so all the lists of *)
(* validate settle (Settles), but for the one rule that reads a setting a  *)
(* later rule corrects (AllowRule) and the order of the thresholds of the  *)
(* processor (CpuOrder), which a nan may leave open: it becomes a number   *)
(* after they are put in order.  The second call settles both              *)
(* (ValidateFacts).                                                        *)
(***************************************************************************)
EXTENDS Metrics, Config, SumLemmas

Measure == [of : Samples, pass : Nat]
Page == [sequence : Nat, low : Nat, late : Nat, total : Nat, high : Nat,
         families : {<<>>} \cup [1..Families -> SUBSET Measure]]
OnClient == {"client", "set", "render", "send"}

MetricsTypeOK ==
  /\ fds \in [Fds -> {"free", "listener", "client", "other"}]
  /\ listen_fd \in Fds \cup {-1} /\ wfd \in Fds \cup {0}
  /\ running \in BOOLEAN /\ shut \in BOOLEAN
  /\ spc \in {"idle", "shutdown", "close", "forget", "join"}
  /\ wpc \in {"none", "loop", "poll", "accept", "accepting", "left"}
               \cup OnClient
  /\ next_sequence \in Nat \ {0} /\ total \in Nat /\ recorded \in Nat
  /\ ppc \in [Publishers -> {"idle", "drawn"}]
  /\ families \in [1..Families -> SUBSET Measure] /\ batch \subseteq Measure
  /\ passes \in Nat /\ nextFamily \in 1..Families
  /\ page \in Page

\* The table of descriptors and the numbers of the server.
DescriptorInv ==
  /\ \A f \in Fds : fds[f] = "listener" <=> f = listen_fd /\ spc # "forget"
  /\ \A f \in Fds : fds[f] = "client" <=> f = wfd
  /\ wfd # 0 <=> wpc \in OnClient
  /\ ~strange

\* How far a stop is, and what the server thread may wait for.
ServerInv ==
  /\ running => spc = "idle"
  /\ spc = "idle" => IF running THEN listen_fd # -1
                     ELSE listen_fd = -1 /\ wpc = "none"
  /\ spc = "shutdown" /\ wpc # "none" => listen_fd # -1
  /\ spc \in {"close", "forget"} => listen_fd # -1 /\ shut
  /\ spc = "join" => listen_fd = -1 /\ (wpc = "accepting" => shut)

\* Every event under way has drawn its sequence and is not recorded.
EventInv == recorded + Cardinality(InFlight) <= next_sequence - 1

\* What the counter holds while a page is made.
PageInv ==
  /\ wpc \notin {"set", "render", "send"} => page = NoPage
  /\ wpc = "set" =>
       /\ page.families = <<>> /\ page.sequence # 0
       /\ page.low <= page.sequence - 1
       /\ page.sequence + Cardinality(InFlight) <= page.late + next_sequence
  /\ wpc = "render" =>
       /\ page.families = <<>> /\ page.low <= total
       /\ total + Cardinality(InFlight) <= page.late + next_sequence - 1

\* A family is of the pass that is being recorded, or of the one before.
FamilyInv ==
  /\ nextFamily # 1 => passes # 0 /\ \A m \in batch : m.pass = passes
  /\ \A f \in 1..Families : \A m \in families[f] :
       IF nextFamily = 1 \/ f < nextFamily THEN m.pass = passes
       ELSE m.pass = passes - 1

MetricsIInv ==
  /\ MetricsTypeOK /\ DescriptorInv /\ ServerInv /\ EventInv /\ PageInv
  /\ FamilyInv /\ PublishedTotalBounds /\ FamilyConsistent

---------------------------------------------------------------------------
\* The kernel gives out a descriptor that was free.
LEMMA LowestFree ==
  ASSUME Free # {}
  PROVE  Lowest \in Fds /\ fds[Lowest] = "free"
<1>1. Free \subseteq Nat
  BY MetricsAssumption DEF Free
<1>2. \E f \in Free : \A g \in Free : f <= g
  BY <1>1, Smallest
<1>3. Lowest \in Free
  BY <1>2 DEF Lowest
<1> QED BY <1>3 DEF Free

\* No descriptor is none.
LEMMA FdFacts == \A f \in Fds : f # 0 /\ f # -1 /\ f >= 0
BY MetricsAssumption

\* A table of descriptors with one of them changed.
LEMMA TableUpdate ==
  ASSUME NEW S, NEW T, NEW t \in [S -> T], NEW x \in S, NEW v \in T
  PROVE  /\ [t EXCEPT ![x] = v] \in [S -> T] /\ [t EXCEPT ![x] = v][x] = v
         /\ \A y \in S : y # x => [t EXCEPT ![x] = v][y] = t[y]
OBVIOUS

\* A page, field by field.
LEMMA PageFields ==
  ASSUME MetricsTypeOK
  PROVE  /\ page = [sequence |-> page.sequence, low |-> page.low,
                    late |-> page.late, total |-> page.total,
                    high |-> page.high, families |-> page.families]
         /\ page.sequence \in Nat /\ page.low \in Nat /\ page.late \in Nat
         /\ page.total \in Nat /\ page.high \in Nat
         /\ page.families \in {<<>>} \cup [1..Families -> SUBSET Measure]
<1>1. page \in Page
  BY DEF MetricsTypeOK
<1> QED BY <1>1 DEF Page

\* The publishers whose event is under way can be counted.
LEMMA InFlightFinite ==
  /\ IsFiniteSet(InFlight) /\ Cardinality(InFlight) \in Nat
  /\ InFlight \subseteq Publishers
<1>1. InFlight \in SUBSET Publishers
  BY DEF InFlight
<1>2. IsFiniteSet(InFlight)
  BY <1>1, MetricsAssumption, FS_Subset
<1> QED BY <1>1, <1>2, FS_CardinalityType

---------------------------------------------------------------------------
(***************************************************************************)
(* Types.                                                                  *)
(***************************************************************************)
\* At first every variable has its type.
LEMMA InitMetricsTypeOK == MetricsInit => MetricsTypeOK
<1> SUFFICES ASSUME MetricsInit PROVE MetricsTypeOK
  OBVIOUS
<1>1. page \in Page
  BY DEF MetricsInit, NoPage, Page
<1>2. families \in [1..Families -> SUBSET Measure] /\ batch \subseteq Measure
  BY DEF MetricsInit
<1>3. 1 \in 1..Families
  BY MetricsAssumption
<1>4. /\ fds \in [Fds -> {"free", "listener", "client", "other"}]
      /\ ppc \in [Publishers -> {"idle", "drawn"}]
  BY DEF MetricsInit
<1>5. /\ next_sequence = 1 /\ total = 0 /\ recorded = 0 /\ passes = 0
      /\ nextFamily = 1 /\ listen_fd = -1 /\ wfd = 0 /\ wpc = "none"
      /\ spc = "idle" /\ running = FALSE /\ shut = FALSE
  BY DEF MetricsInit
<1>6. /\ next_sequence \in Nat \ {0} /\ total \in Nat /\ recorded \in Nat
      /\ passes \in Nat /\ nextFamily \in 1..Families
  BY <1>3, <1>5
<1>7. /\ listen_fd \in Fds \cup {-1} /\ wfd \in Fds \cup {0}
      /\ running \in BOOLEAN /\ shut \in BOOLEAN
      /\ spc \in {"idle", "shutdown", "close", "forget", "join"}
      /\ wpc \in {"none", "loop", "poll", "accept", "accepting", "left"}
                   \cup OnClient
  BY <1>5
<1> QED BY <1>1, <1>2, <1>4, <1>6, <1>7 DEF MetricsTypeOK

\* The thread that starts and stops the server keeps the types,
LEMMA ServerTypeOK ==
  ASSUME MetricsTypeOK, ServerInv, ServerStep
  PROVE  MetricsTypeOK'
<1> DEFINE Kinds == {"free", "listener", "client", "other"}
<1>1. fds \in [Fds -> Kinds]
  BY DEF MetricsTypeOK
<1>2. CASE Start \/ StartFails
  <2>1. Lowest \in Fds
    BY <1>2, LowestFree DEF Start, StartFails
  <2>2. fds' \in [Fds -> Kinds]
    BY <1>1, <1>2, <2>1 DEF Start, StartFails
  <2> QED
    BY <1>2, <2>1, <2>2
    DEF Start, StartFails, MetricsTypeOK, worker, events, gauges
<1>3. CASE CloseListener
  <2>1. fds' \in [Fds -> Kinds]
    BY <1>1, <1>3 DEF CloseListener, Close
  <2> QED
    BY <1>3, <2>1 DEF CloseListener, MetricsTypeOK, worker, events, gauges
<1>4. CASE Stop \/ ShutdownListener \/ ForgetListener \/ Join
  BY <1>4
  DEF Stop, ShutdownListener, ForgetListener, Join, MetricsTypeOK, worker,
      events, gauges
<1> QED BY <1>2, <1>3, <1>4 DEF ServerStep

\* so does the thread of the server,
LEMMA WorkerTypeOK ==
  ASSUME MetricsTypeOK, PageInv, WorkerStep
  PROVE  MetricsTypeOK'
<1> DEFINE Kinds == {"free", "listener", "client", "other"}
<1>1. fds \in [Fds -> Kinds]
  BY DEF MetricsTypeOK
<1>2. CASE TestRunning \/ PollOnce \/ RunEnds \/ Accept \/ AnswerPlain
  BY <1>2
  DEF TestRunning, PollOnce, RunEnds, Accept, AnswerPlain, MetricsTypeOK,
      OnClient, server, events, gauges
<1>3. CASE Accepted
  <2>1. \/ UNCHANGED <<fds, wfd>> /\ wpc' = "loop"
        \/ /\ Lowest \in Fds /\ wfd' = Lowest /\ wpc' = "client"
           /\ fds' = [fds EXCEPT ![Lowest] = "client"]
    BY <1>3, LowestFree DEF Accepted
  <2>2. fds' \in [Fds -> Kinds] /\ wfd' \in Fds \cup {0}
    BY <1>1, <2>1 DEF MetricsTypeOK
  <2> QED
    BY <1>3, <2>1, <2>2
    DEF Accepted, MetricsTypeOK, OnClient, server, events, gauges
<1>4. CASE RenderBegins
  <2>1. page' = [sequence |-> next_sequence, low |-> recorded,
                 late |-> Cardinality(InFlight), total |-> 0, high |-> 0,
                 families |-> <<>>]
    BY <1>4 DEF RenderBegins, NoPage
  <2>2. /\ next_sequence \in Nat /\ recorded \in Nat
        /\ Cardinality(InFlight) \in Nat
    BY InFlightFinite DEF MetricsTypeOK
  <2>3. page' \in Page
    BY <2>1, <2>2 DEF Page
  <2> QED
    BY <1>4, <2>3
    DEF RenderBegins, MetricsTypeOK, OnClient, server, events, gauges
<1>5. CASE SetTotal
  <2>1. page.sequence - 1 \in Nat
    BY <1>5, PageFields DEF SetTotal, PageInv
  <2> QED
    BY <1>5, <2>1
    DEF SetTotal, MetricsTypeOK, OnClient, server, events, gauges
<1>6. CASE RenderPage
  <2>1. page' = [sequence |-> page.sequence, low |-> page.low,
                 late |-> page.late, total |-> total,
                 high |-> next_sequence - 1, families |-> families]
    BY <1>6, PageFields DEF RenderPage
  <2>2. next_sequence - 1 \in Nat /\ total \in Nat
    BY DEF MetricsTypeOK
  <2>3. families \in [1..Families -> SUBSET Measure]
    BY DEF MetricsTypeOK
  <2>4. page' \in Page
    BY <2>1, <2>2, <2>3, PageFields DEF Page
  <2> QED
    BY <1>6, <2>4
    DEF RenderPage, MetricsTypeOK, OnClient, server, events, gauges
<1>7. CASE SendAndClose
  <2>1. fds' \in [Fds -> Kinds]
    BY <1>1, <1>7 DEF SendAndClose, Close
  <2>2. page' \in Page
    BY <1>7 DEF SendAndClose, NoPage, Page
  <2> QED
    BY <1>7, <2>1, <2>2
    DEF SendAndClose, MetricsTypeOK, OnClient, server, events, gauges
<1> QED BY <1>2, <1>3, <1>4, <1>5, <1>6, <1>7 DEF WorkerStep

\* and so do the others.
LEMMA OtherTypeOK ==
  ASSUME MetricsTypeOK, OtherStep
  PROVE  MetricsTypeOK'
<1> DEFINE Kinds == {"free", "listener", "client", "other"}
<1>1. fds \in [Fds -> Kinds] /\ ppc \in [Publishers -> {"idle", "drawn"}]
  BY DEF MetricsTypeOK
<1>2. CASE Connect \/ Abort
  BY <1>2
  DEF Connect, Abort, MetricsTypeOK, OnClient, server, worker, events, gauges
<1>3. CASE OtherOpens
  <2>1. fds' \in [Fds -> Kinds]
    BY <1>1, <1>3, LowestFree DEF OtherOpens
  <2> QED
    BY <1>3, <2>1 DEF OtherOpens, MetricsTypeOK, server, worker, events, gauges
<1>4. ASSUME NEW f \in Fds, OtherCloses(f) PROVE MetricsTypeOK'
  <2>1. fds' \in [Fds -> Kinds]
    BY <1>1, <1>4 DEF OtherCloses
  <2> QED
    BY <1>4, <2>1
    DEF OtherCloses, MetricsTypeOK, server, worker, events, gauges
<1>5. ASSUME NEW p \in Publishers, Draw(p) \/ Refused(p) \/ record_event(p)
      PROVE  MetricsTypeOK'
  <2>1. ppc' \in [Publishers -> {"idle", "drawn"}]
    BY <1>1, <1>5 DEF Draw, Refused, record_event
  <2>2. /\ next_sequence' \in Nat \ {0} /\ total' \in Nat /\ recorded' \in Nat
    BY <1>5 DEF Draw, Refused, record_event, MetricsTypeOK
  <2>3. /\ UNCHANGED <<fds, server, worker, gauges>>
    BY <1>5 DEF Draw, Refused, record_event
  <2> QED BY <2>1, <2>2, <2>3 DEF MetricsTypeOK, server, worker, gauges
<1>6. CASE RecordFamily
  <2>1. /\ families' = [families EXCEPT ![nextFamily] = batch]
        /\ nextFamily' = (nextFamily % Families) + 1
        /\ UNCHANGED <<fds, server, worker, total, events, batch, passes>>
    BY <1>6 DEF RecordFamily, set_gauge_family
  <2>2. /\ families \in [1..Families -> SUBSET Measure]
        /\ nextFamily \in 1..Families /\ batch \in SUBSET Measure
    BY DEF MetricsTypeOK
  <2>3. families' \in [1..Families -> SUBSET Measure]
    BY <2>1, <2>2
  <2>4. nextFamily' \in 1..Families
    BY <2>1, <2>2, MetricsAssumption
  <2> QED
    BY <2>1, <2>3, <2>4 DEF MetricsTypeOK, server, worker, events
<1>7. ASSUME NEW S \in SUBSET Samples, BeginRecording(S)
      PROVE  MetricsTypeOK'
  <2>1. passes' = passes + 1 /\ passes \in Nat
    BY <1>7 DEF BeginRecording, MetricsTypeOK
  <2>2. batch' = {[of |-> s, pass |-> passes + 1] : s \in S}
    BY <1>7 DEF BeginRecording
  <2>3. batch' \in SUBSET Measure
    BY <2>1, <2>2 DEF Measure
  <2>4. 1 \in 1..Families /\ 2 \in 1..Families
    BY MetricsAssumption
  <2>5. families' \in [1..Families -> SUBSET Measure]
    <3>1. families \in [1..Families -> SUBSET Measure]
      BY DEF MetricsTypeOK
    <3>2. families' = [families EXCEPT ![1] = batch']
      BY <1>7 DEF BeginRecording
    <3> QED BY <2>3, <2>4, <3>1, <3>2
  <2> QED
    BY <1>7, <2>1, <2>3, <2>4, <2>5
    DEF BeginRecording, MetricsTypeOK, server, worker, events
<1> QED BY <1>2, <1>3, <1>4, <1>5, <1>6, <1>7 DEF OtherStep

---------------------------------------------------------------------------
(***************************************************************************)
(* The descriptors.                                                        *)
(***************************************************************************)
\* The thread that starts and stops the server keeps the table right, and
\* closes the listening socket once.
LEMMA ServerDescriptors ==
  ASSUME MetricsTypeOK, DescriptorInv, ServerInv, ServerStep
  PROVE  DescriptorInv' /\ ServerInv'
<1> DEFINE Kinds == {"free", "listener", "client", "other"}
<1>1. /\ fds \in [Fds -> Kinds] /\ wfd \in Fds \cup {0}
      /\ listen_fd \in Fds \cup {-1} /\ running \in BOOLEAN
  BY DEF MetricsTypeOK
<1>2. CASE Start \/ StartFails
  <2>1. Lowest \in Fds /\ fds[Lowest] = "free"
    BY <1>2, LowestFree DEF Start, StartFails
  <2>2. /\ fds' \in [Fds -> Kinds] /\ fds'[Lowest] = "listener"
        /\ \A f \in Fds : f # Lowest => fds'[f] = fds[f]
    BY <1>1, <1>2, <2>1, TableUpdate DEF Start, StartFails
  <2>3. /\ listen_fd = -1 /\ wpc = "none" /\ wfd = 0 /\ spc = "idle"
        /\ ~running
    BY <1>2 DEF Start, StartFails, DescriptorInv, ServerInv, OnClient
  <2>4. /\ listen_fd' = Lowest /\ wfd' = 0 /\ spc' \in {"idle", "shutdown"}
        /\ wpc' \in {"none", "loop"} /\ strange' = strange
    BY <1>2, <2>3 DEF Start, StartFails, worker
  <2>5. DescriptorInv'
    BY <2>1, <2>2, <2>3, <2>4, FdFacts DEF DescriptorInv, OnClient
  <2>6. ServerInv'
    BY <1>2, <2>1, <2>3, FdFacts DEF Start, StartFails, ServerInv, worker
  <2> QED BY <2>5, <2>6
<1>3. CASE Stop
  BY <1>3 DEF Stop, worker, DescriptorInv, ServerInv
<1>4. CASE ShutdownListener
  <2>1. /\ UNCHANGED <<fds, listen_fd, running, wpc, wfd, strange>>
        /\ spc = "shutdown"
        /\ \/ listen_fd # -1 /\ spc' = "close" /\ shut'
           \/ listen_fd = -1 /\ spc' = "join"
    BY <1>1, <1>4, FdFacts DEF ShutdownListener, worker
  <2> QED BY <2>1 DEF DescriptorInv, ServerInv
<1>5. CASE CloseListener
  <2>1. /\ UNCHANGED <<listen_fd, running, shut, wpc, wfd>>
        /\ spc = "close" /\ spc' = "forget" /\ listen_fd \in Fds
        /\ fds[listen_fd] = "listener"
    BY <1>1, <1>5 DEF CloseListener, worker, ServerInv, DescriptorInv
  <2>2. /\ fds'[listen_fd] = "free"
        /\ \A f \in Fds : f # listen_fd => fds'[f] = fds[f]
    BY <1>1, <1>5, <2>1, TableUpdate DEF CloseListener, Close
  <2>3. ~strange'
    BY <1>5, <2>1 DEF CloseListener, Close, DescriptorInv
  <2> QED BY <2>1, <2>2, <2>3 DEF DescriptorInv, ServerInv
<1>6. CASE ForgetListener
  BY <1>6, FdFacts DEF ForgetListener, worker, DescriptorInv, ServerInv
<1>7. CASE Join
  <2>1. /\ UNCHANGED <<fds, listen_fd, running, shut, wfd, strange>>
        /\ spc = "join" /\ spc' = "idle" /\ wpc' = "none"
        /\ wpc \in {"none", "left"}
    BY <1>7 DEF Join
  <2> QED BY <2>1 DEF DescriptorInv, ServerInv, OnClient
<1> QED BY <1>2, <1>3, <1>4, <1>5, <1>6, <1>7 DEF ServerStep

\* So does the thread of the server, which closes each client once.
LEMMA WorkerDescriptors ==
  ASSUME MetricsTypeOK, DescriptorInv, ServerInv, WorkerStep
  PROVE  DescriptorInv' /\ ServerInv'
<1> DEFINE Kinds == {"free", "listener", "client", "other"}
<1>1. /\ fds \in [Fds -> Kinds] /\ wfd \in Fds \cup {0}
      /\ listen_fd \in Fds \cup {-1} /\ running \in BOOLEAN
  BY DEF MetricsTypeOK
<1>2. UNCHANGED <<listen_fd, running, shut, spc>>
  BY DEF WorkerStep, TestRunning, PollOnce, RunEnds, Accept, Accepted,
         AnswerPlain, RenderBegins, SetTotal, RenderPage, SendAndClose, server
<1>3. ASSUME UNCHANGED <<fds, wfd, strange>>,
             wpc # "none", wpc' # "none",
             wpc \in OnClient <=> wpc' \in OnClient,
             wpc' = "accepting" => fds[listen_fd] = "listener" /\ listen_fd # -1
      PROVE  DescriptorInv' /\ ServerInv'
  <2>1. DescriptorInv'
    BY <1>2, <1>3 DEF DescriptorInv
  <2>2. ServerInv'
    BY <1>2, <1>3 DEF ServerInv
  <2> QED BY <2>1, <2>2
<1>4. CASE TestRunning \/ PollOnce \/ RunEnds
  BY <1>3, <1>4 DEF TestRunning, PollOnce, RunEnds, OnClient
<1>5. CASE Accept
  <2>1. /\ UNCHANGED <<fds, wfd, strange>> /\ wpc = "accept"
        /\ \/ wpc' = "loop"
           \/ /\ wpc' = "accepting" /\ listen_fd >= 0
              /\ fds[listen_fd] = "listener"
    BY <1>5 DEF Accept
  <2>2. listen_fd >= 0 => listen_fd # -1
    BY <1>1, FdFacts
  <2> QED BY <1>3, <2>1, <2>2 DEF OnClient
<1>6. CASE AnswerPlain \/ RenderBegins \/ SetTotal \/ RenderPage
  BY <1>3, <1>6 DEF AnswerPlain, RenderBegins, SetTotal, RenderPage, OnClient
<1>7. CASE Accepted
  <2>1. \/ UNCHANGED <<fds, wfd, strange>> /\ wpc' = "loop"
        \/ /\ Lowest \in Fds /\ wfd' = Lowest /\ wpc' = "client"
           /\ fds[Lowest] = "free" /\ strange' = strange
           /\ fds' = [fds EXCEPT ![Lowest] = "client"]
    BY <1>7, LowestFree DEF Accepted
  <2>2. wpc = "accepting" /\ wfd = 0
    BY <1>7 DEF Accepted, DescriptorInv, OnClient
  <2>3. CASE UNCHANGED <<fds, wfd, strange>> /\ wpc' = "loop"
    BY <1>3, <2>2, <2>3 DEF OnClient
  <2>4. CASE /\ Lowest \in Fds /\ wfd' = Lowest /\ wpc' = "client"
             /\ fds[Lowest] = "free" /\ strange' = strange
             /\ fds' = [fds EXCEPT ![Lowest] = "client"]
    <3>1. /\ fds'[Lowest] = "client"
          /\ \A f \in Fds : f # Lowest => fds'[f] = fds[f]
      BY <1>1, <2>4, TableUpdate
    <3>2. DescriptorInv'
      BY <1>2, <2>2, <2>4, <3>1, FdFacts DEF DescriptorInv, OnClient
    <3>3. ServerInv'
      BY <1>2, <2>2, <2>4 DEF ServerInv
    <3> QED BY <3>2, <3>3
  <2> QED BY <2>1, <2>3, <2>4
<1>8. CASE SendAndClose
  <2>1. wpc = "send" /\ wfd # 0 /\ wfd \in Fds /\ fds[wfd] = "client"
    BY <1>1, <1>8 DEF SendAndClose, DescriptorInv, OnClient
  <2>2. /\ fds'[wfd] = "free"
        /\ \A f \in Fds : f # wfd => fds'[f] = fds[f]
        /\ wfd' = 0 /\ wpc' = "loop"
    BY <1>1, <1>8, <2>1, TableUpdate DEF SendAndClose, Close
  <2>5. ~strange'
    BY <1>8, <2>1 DEF SendAndClose, Close, DescriptorInv
  <2>3. DescriptorInv'
    BY <1>2, <2>1, <2>2, <2>5, FdFacts DEF DescriptorInv, OnClient
  <2>4. ServerInv'
    BY <1>2, <2>1, <2>2 DEF ServerInv
  <2> QED BY <2>3, <2>4
<1> QED BY <1>4, <1>5, <1>6, <1>7, <1>8 DEF WorkerStep

\* The other threads take free descriptors and give back their own.
LEMMA OtherDescriptors ==
  ASSUME MetricsTypeOK, DescriptorInv, ServerInv, OtherStep
  PROVE  DescriptorInv' /\ ServerInv'
<1> DEFINE Kinds == {"free", "listener", "client", "other"}
<1>1. /\ fds \in [Fds -> Kinds] /\ wfd \in Fds \cup {0}
      /\ listen_fd \in Fds \cup {-1}
  BY DEF MetricsTypeOK
<1>2. UNCHANGED <<listen_fd, running, shut, spc, wpc, wfd, strange>>
  BY DEF OtherStep, Connect, Abort, OtherOpens, OtherCloses, Draw, Refused,
         record_event, RecordFamily, BeginRecording, server, worker
<1>3. ServerInv'
  BY <1>2 DEF ServerInv
<1>4. CASE OtherOpens
  <2>1. Lowest \in Fds /\ fds[Lowest] = "free"
    BY <1>4, LowestFree DEF OtherOpens
  <2>2. /\ fds'[Lowest] = "other"
        /\ \A f \in Fds : f # Lowest => fds'[f] = fds[f]
    BY <1>1, <1>4, <2>1, TableUpdate DEF OtherOpens
  <2> QED BY <1>2, <1>3, <2>1, <2>2 DEF DescriptorInv
<1>5. ASSUME NEW f \in Fds, OtherCloses(f) PROVE DescriptorInv'
  <2>1. /\ fds[f] = "other" /\ fds'[f] = "free"
        /\ \A g \in Fds : g # f => fds'[g] = fds[g]
    BY <1>1, <1>5, TableUpdate DEF OtherCloses
  <2> QED BY <1>2, <2>1 DEF DescriptorInv
<1>6. CASE UNCHANGED fds
  BY <1>2, <1>3, <1>6 DEF DescriptorInv
<1> QED
  BY <1>3, <1>4, <1>5, <1>6
  DEF OtherStep, Connect, Abort, Draw, Refused, record_event, RecordFamily,
      BeginRecording

---------------------------------------------------------------------------
(***************************************************************************)
(* The counter of published events.                                        *)
(***************************************************************************)
\* An event that is drawn is under way until it is refused or recorded.
LEMMA PublisherCount ==
  ASSUME MetricsTypeOK, NEW p \in Publishers
  PROVE  /\ Draw(p) => Cardinality(InFlight)' = Cardinality(InFlight) + 1
         /\ Refused(p) \/ record_event(p) =>
              Cardinality(InFlight)' = Cardinality(InFlight) - 1
<1>1. ppc \in [Publishers -> {"idle", "drawn"}]
  BY DEF MetricsTypeOK
<1>2. ASSUME Draw(p)
      PROVE  Cardinality(InFlight)' = Cardinality(InFlight) + 1
  <2>1. p \notin InFlight /\ InFlight' = InFlight \cup {p}
    BY <1>1, <1>2 DEF Draw, InFlight
  <2> QED BY <2>1, InFlightFinite, FS_AddElement
<1>3. ASSUME Refused(p) \/ record_event(p)
      PROVE  Cardinality(InFlight)' = Cardinality(InFlight) - 1
  <2>1. p \in InFlight /\ InFlight' = InFlight \ {p}
    BY <1>1, <1>3 DEF Refused, record_event, InFlight
  <2> QED BY <2>1, InFlightFinite, FS_RemoveElement
<1> QED BY <1>2, <1>3

\* The bounds of a page as they follow from the numbers.
LEMMA CountArithmetic ==
  ASSUME NEW r \in Nat, NEW i \in Nat, NEW n \in Nat, NEW t \in Nat,
         NEW l \in Nat, NEW q \in Nat, q # 0
  PROVE  /\ r + i <= n - 1 => r <= n - 1 /\ n + i <= i + n
         /\ q + i <= l + n => q - 1 + i <= l + n - 1 /\ q - 1 \in Nat
         /\ t + i <= l + n - 1 => t <= n - 1 + l
OBVIOUS

\* A page that is being made counts what it should.
LEMMA WorkerCounts ==
  ASSUME MetricsTypeOK, EventInv, PageInv, PublishedTotalBounds, WorkerStep
  PROVE  EventInv' /\ PageInv' /\ PublishedTotalBounds'
<1>1. UNCHANGED <<next_sequence, ppc, recorded>>
  BY DEF WorkerStep, TestRunning, PollOnce, RunEnds, Accept, Accepted,
         AnswerPlain, RenderBegins, SetTotal, RenderPage, SendAndClose, events
<1>2. /\ next_sequence \in Nat /\ total \in Nat /\ recorded \in Nat
      /\ Cardinality(InFlight) \in Nat /\ page.sequence \in Nat
      /\ page.late \in Nat /\ page.low \in Nat
  BY InFlightFinite, PageFields DEF MetricsTypeOK
<1>3. Cardinality(InFlight)' = Cardinality(InFlight)
  BY <1>1 DEF InFlight
<1>4. EventInv'
  BY <1>1, <1>3 DEF EventInv
<1>5. NoPage' = NoPage
  BY DEF NoPage
<1>6. CASE \/ TestRunning \/ PollOnce \/ RunEnds \/ Accept \/ Accepted
           \/ AnswerPlain
  <2>1. /\ page' = page /\ total' = total
        /\ wpc \notin {"set", "render", "send"}
        /\ wpc' \notin {"set", "render"}
    BY <1>6 DEF TestRunning, PollOnce, RunEnds, Accept, Accepted, AnswerPlain
  <2> QED BY <1>4, <1>5, <2>1 DEF PageInv, PublishedTotalBounds
<1>7. CASE RenderBegins
  <2>1. /\ page' = [sequence |-> next_sequence, low |-> recorded,
                    late |-> Cardinality(InFlight), total |-> 0, high |-> 0,
                    families |-> <<>>]
        /\ wpc' = "set"
    BY <1>7 DEF RenderBegins, NoPage
  <2>2. /\ page'.sequence = next_sequence /\ page'.low = recorded
        /\ page'.late = Cardinality(InFlight) /\ page'.families = <<>>
    BY <2>1
  <2>3. next_sequence # 0
    BY DEF MetricsTypeOK
  <2>4. /\ recorded <= next_sequence - 1
        /\ next_sequence + Cardinality(InFlight)
             <= Cardinality(InFlight) + next_sequence
    BY <1>2, <2>3, CountArithmetic DEF EventInv
  <2> QED
    BY <1>1, <1>3, <1>4, <2>1, <2>2, <2>3, <2>4
    DEF PageInv, PublishedTotalBounds
<1>8. CASE SetTotal
  <2>1. /\ total' = page.sequence - 1 /\ page' = page
        /\ wpc = "set" /\ wpc' = "render"
    BY <1>8 DEF SetTotal
  <2>2. /\ page.families = <<>> /\ page.sequence # 0
        /\ page.low <= page.sequence - 1
        /\ page.sequence + Cardinality(InFlight) <= page.late + next_sequence
    BY <2>1 DEF PageInv
  <2>3. page.sequence - 1 + Cardinality(InFlight)
          <= page.late + next_sequence - 1
    BY <1>2, <2>2, CountArithmetic
  <2> QED
    BY <1>1, <1>3, <1>4, <2>1, <2>2, <2>3 DEF PageInv, PublishedTotalBounds
<1>9. CASE RenderPage
  <2>1. /\ page' = [sequence |-> page.sequence, low |-> page.low,
                    late |-> page.late, total |-> total,
                    high |-> next_sequence - 1, families |-> families]
        /\ wpc = "render" /\ wpc' = "send"
    BY <1>9, PageFields DEF RenderPage
  <2>2. /\ page'.low = page.low /\ page'.late = page.late
        /\ page'.total = total /\ page'.high = next_sequence - 1
    BY <2>1
  <2>3. /\ page.low <= total
        /\ total + Cardinality(InFlight) <= page.late + next_sequence - 1
    BY <2>1 DEF PageInv
  <2>4. total <= next_sequence - 1 + page.late
    BY <1>2, <2>3, CountArithmetic
  <2> QED BY <1>4, <2>1, <2>2, <2>3, <2>4 DEF PageInv, PublishedTotalBounds
<1>10. CASE SendAndClose
  <2>1. page' = NoPage /\ wpc' = "loop"
    BY <1>10 DEF SendAndClose
  <2> QED BY <1>4, <1>5, <2>1 DEF PageInv, PublishedTotalBounds
<1> QED BY <1>6, <1>7, <1>8, <1>9, <1>10 DEF WorkerStep

\* The bounds stay when an event begins or ends.
LEMMA EventArithmetic ==
  ASSUME NEW r \in Nat, NEW i \in Nat, NEW n \in Nat, NEW t \in Nat,
         NEW l \in Nat, NEW q \in Nat
  PROVE  /\ r + i <= n - 1 =>
              /\ r + (i + 1) <= n + 1 - 1 /\ r + (i - 1) <= n - 1
              /\ r + 1 + (i - 1) <= n - 1
         /\ q + i <= l + n =>
              q + (i + 1) <= l + (n + 1) /\ q + (i - 1) <= l + n
         /\ t + i <= l + n - 1 =>
              /\ t + (i + 1) <= l + (n + 1) - 1 /\ t + (i - 1) <= l + n - 1
              /\ t + 1 + (i - 1) <= l + n - 1
         /\ \A m \in Nat : m <= t => m <= t + 1
OBVIOUS

\* Publishers keep the bounds,
LEMMA EventCounts ==
  ASSUME MetricsTypeOK, EventInv, PageInv, PublishedTotalBounds,
         NEW p \in Publishers, Draw(p) \/ Refused(p) \/ record_event(p)
  PROVE  EventInv' /\ PageInv' /\ PublishedTotalBounds'
<1>1. UNCHANGED <<page, wpc>> /\ NoPage' = NoPage
  BY DEF Draw, Refused, record_event, worker, NoPage
<1>2. PublishedTotalBounds'
  BY <1>1 DEF PublishedTotalBounds
<1>3. /\ next_sequence \in Nat /\ total \in Nat /\ recorded \in Nat
      /\ Cardinality(InFlight) \in Nat /\ page.sequence \in Nat
      /\ page.late \in Nat /\ page.low \in Nat
  BY InFlightFinite, PageFields DEF MetricsTypeOK
<1>4. CASE Draw(p)
  <2>1. /\ Cardinality(InFlight)' = Cardinality(InFlight) + 1
        /\ next_sequence' = next_sequence + 1
        /\ UNCHANGED <<total, recorded>>
    BY <1>4, PublisherCount DEF Draw
  <2>2. EventInv'
    BY <1>3, <2>1, EventArithmetic DEF EventInv
  <2>3. PageInv'
    BY <1>1, <1>3, <2>1, EventArithmetic DEF PageInv
  <2> QED BY <1>2, <2>2, <2>3
<1>5. CASE Refused(p)
  <2>1. /\ Cardinality(InFlight)' = Cardinality(InFlight) - 1
        /\ UNCHANGED <<total, recorded, next_sequence>>
    BY <1>5, PublisherCount DEF Refused
  <2> QED
    BY <1>1, <1>2, <1>3, <2>1, EventArithmetic DEF EventInv, PageInv
<1>6. CASE record_event(p)
  <2>1. /\ Cardinality(InFlight)' = Cardinality(InFlight) - 1
        /\ total' = total + 1 /\ recorded' = recorded + 1
        /\ next_sequence' = next_sequence
    BY <1>6, PublisherCount DEF record_event
  <2> QED
    BY <1>1, <1>2, <1>3, <2>1, EventArithmetic DEF EventInv, PageInv
<1> QED BY <1>4, <1>5, <1>6

\* and everybody else leaves them alone.
LEMMA QuietCounts ==
  ASSUME EventInv, PageInv, PublishedTotalBounds,
         UNCHANGED <<next_sequence, total, recorded, ppc, page, wpc>>
  PROVE  EventInv' /\ PageInv' /\ PublishedTotalBounds'
BY DEF EventInv, PageInv, PublishedTotalBounds, InFlight, NoPage

---------------------------------------------------------------------------
(***************************************************************************)
(* The gauge families.                                                     *)
(***************************************************************************)
\* A pass sets one family after the other.
LEMMA GaugesKeepFamilies ==
  ASSUME MetricsTypeOK, FamilyInv,
         RecordFamily \/ \E S \in SUBSET Samples : BeginRecording(S)
  PROVE  FamilyInv'
<1>1. /\ families \in [1..Families -> SUBSET Measure] /\ passes \in Nat
      /\ nextFamily \in 1..Families
  BY DEF MetricsTypeOK
<1>2. CASE RecordFamily
  <2>1. /\ families' = [families EXCEPT ![nextFamily] = batch]
        /\ nextFamily' = (nextFamily % Families) + 1
        /\ nextFamily > 1 /\ UNCHANGED <<batch, passes>>
    BY <1>2 DEF RecordFamily, set_gauge_family
  <2>2. nextFamily' = IF nextFamily = Families THEN 1 ELSE nextFamily + 1
    BY <1>1, <2>1, MetricsAssumption
  <2>3. /\ families'[nextFamily] = batch
        /\ \A f \in 1..Families : f # nextFamily => families'[f] = families[f]
    BY <1>1, <2>1
  <2>4. passes # 0 /\ \A m \in batch : m.pass = passes
    BY <1>1, <2>1 DEF FamilyInv
  <2>5. ASSUME NEW f \in 1..Families, NEW m \in families'[f]
        PROVE  IF nextFamily' = 1 \/ f < nextFamily' THEN m.pass = passes
               ELSE m.pass = passes - 1
    <3>1. CASE f = nextFamily
      BY <1>1, <2>2, <2>3, <2>4, <2>5, <3>1
    <3>2. CASE f # nextFamily
      <4>1. IF f < nextFamily THEN m.pass = passes ELSE m.pass = passes - 1
        BY <1>1, <2>1, <2>3, <2>5, <3>2 DEF FamilyInv
      <4>2. nextFamily' = 1 \/ f < nextFamily' <=> f < nextFamily
        BY <1>1, <2>1, <2>2, <3>2, MetricsAssumption
      <4> QED BY <4>1, <4>2
    <3> QED BY <3>1, <3>2
  <2> QED BY <2>1, <2>4, <2>5 DEF FamilyInv
<1>3. ASSUME NEW S \in SUBSET Samples, BeginRecording(S) PROVE FamilyInv'
  <2>1. /\ nextFamily = 1 /\ nextFamily' = 2 /\ passes' = passes + 1
        /\ batch' = {[of |-> s, pass |-> passes + 1] : s \in S}
        /\ families' = [families EXCEPT ![1] = batch']
    BY <1>3 DEF BeginRecording
  <2>2. passes' # 0 /\ \A m \in batch' : m.pass = passes'
    BY <1>1, <2>1
  <2>3. /\ families'[1] = batch'
        /\ \A f \in 1..Families : f # 1 => families'[f] = families[f]
    BY <1>1, <2>1, MetricsAssumption
  <2>4. ASSUME NEW f \in 1..Families, NEW m \in families'[f]
        PROVE  IF nextFamily' = 1 \/ f < nextFamily' THEN m.pass = passes'
               ELSE m.pass = passes' - 1
    <3>1. CASE f = 1
      BY <2>1, <2>2, <2>3, <2>4, <3>1
    <3>2. CASE f # 1
      <4>1. m.pass = passes
        BY <2>1, <2>3, <2>4, <3>2 DEF FamilyInv
      <4>2. ~(nextFamily' = 1 \/ f < nextFamily')
        BY <2>1, <3>2, MetricsAssumption
      <4> QED BY <1>1, <2>1, <4>1, <4>2
    <3> QED BY <3>1, <3>2
  <2> QED BY <2>2, <2>4 DEF FamilyInv
<1> QED BY <1>2, <1>3

\* Everybody else leaves the families alone, and a page copies them.
LEMMA FamiliesKept ==
  ASSUME MetricsTypeOK, FamilyInv, FamilyConsistent, MetricsNext
  PROVE  FamilyInv' /\ FamilyConsistent'
<1>1. CASE RenderPage
  <2>1. UNCHANGED gauges /\ page'.families = families
    BY <1>1, PageFields DEF RenderPage
  <2>2. FamilyInv'
    BY <2>1 DEF FamilyInv, gauges
  <2>3. families \in [1..Families -> SUBSET Measure] /\ passes \in Nat
        /\ nextFamily \in 1..Families
    BY DEF MetricsTypeOK
  <2>4. ASSUME NEW f \in 1..Families, NEW g \in 1..Families,
               NEW m \in families[f], NEW n \in families[g]
        PROVE  /\ f = g => m.pass = n.pass
               /\ f < g => m.pass - n.pass \in {0, 1}
    <3>1. /\ IF nextFamily = 1 \/ f < nextFamily THEN m.pass = passes
             ELSE m.pass = passes - 1
          /\ IF nextFamily = 1 \/ g < nextFamily THEN n.pass = passes
             ELSE n.pass = passes - 1
      BY DEF FamilyInv
    <3> QED BY <2>3, <3>1
  <2> QED BY <2>1, <2>2, <2>3, <2>4 DEF FamilyConsistent
<1>2. CASE RecordFamily \/ \E S \in SUBSET Samples : BeginRecording(S)
  <2>1. page' = page
    BY <1>2 DEF RecordFamily, BeginRecording, worker
  <2> QED BY <1>2, <2>1, GaugesKeepFamilies DEF FamilyConsistent
<1>3. CASE UNCHANGED gauges /\ page'.families \in {page.families, <<>>}
  <2>1. FamilyInv'
    BY <1>3 DEF FamilyInv, gauges
  <2>2. DOMAIN <<>> = {}
    OBVIOUS
  <2>3. FamilyConsistent'
    BY <1>3, <2>2 DEF FamilyConsistent
  <2> QED BY <2>1, <2>3
<1>4. NoPage.families = <<>>
  BY DEF NoPage
<1>5. ASSUME RenderBegins PROVE page'.families = <<>>
  BY <1>5 DEF RenderBegins, NoPage
<1>6. ASSUME MetricsNext, ~RenderPage, ~RecordFamily,
             ~(\E S \in SUBSET Samples : BeginRecording(S))
      PROVE  UNCHANGED gauges /\ page'.families \in {page.families, <<>>}
  <2>1. CASE ServerStep
    BY <2>1
    DEF ServerStep, Start, StartFails, Stop, ShutdownListener, CloseListener,
        ForgetListener, Join, worker
  <2>2. CASE WorkerStep
    BY <1>4, <1>5, <1>6, <2>2
    DEF WorkerStep, TestRunning, PollOnce, RunEnds, Accept, Accepted,
        AnswerPlain, RenderBegins, SetTotal, SendAndClose
  <2>3. CASE OtherStep
    BY <1>6, <2>3
    DEF OtherStep, Connect, Abort, OtherOpens, OtherCloses, Draw, Refused,
        record_event, worker
  <2> QED BY <1>6, <2>1, <2>2, <2>3 DEF MetricsNext
<1> QED BY <1>1, <1>2, <1>3, <1>6

---------------------------------------------------------------------------
\* Initially there is no server and no page.
LEMMA InitMetricsIInv == MetricsInit => MetricsIInv
<1> SUFFICES ASSUME MetricsInit PROVE MetricsIInv
  OBVIOUS
<1>1. MetricsTypeOK
  BY InitMetricsTypeOK
<1>2. DescriptorInv /\ ServerInv
  BY FdFacts DEF MetricsInit, DescriptorInv, ServerInv, OnClient
<1>3. EventInv
  <2>1. InFlight = {}
    BY DEF MetricsInit, InFlight
  <2>2. Cardinality(InFlight) = 0
    BY <2>1, FS_EmptySet
  <2> QED BY <2>2 DEF MetricsInit, EventInv
<1>4. PageInv /\ PublishedTotalBounds
  BY DEF MetricsInit, PageInv, PublishedTotalBounds
<1>5. FamilyInv
  BY DEF MetricsInit, FamilyInv
<1>6. FamilyConsistent
  <2>1. page.families = <<>> /\ DOMAIN <<>> = {}
    BY DEF MetricsInit, NoPage
  <2> QED BY <2>1 DEF FamilyConsistent
<1> QED BY <1>1, <1>2, <1>3, <1>4, <1>5, <1>6 DEF MetricsIInv

\* Every step keeps the invariant.
LEMMA NextMetricsIInv ==
  MetricsIInv /\ [MetricsNext]_metricsVars => MetricsIInv'
<1> SUFFICES ASSUME MetricsIInv, [MetricsNext]_metricsVars
             PROVE  MetricsIInv'
  OBVIOUS
<1>1. /\ MetricsTypeOK /\ DescriptorInv /\ ServerInv /\ EventInv /\ PageInv
      /\ FamilyInv /\ PublishedTotalBounds /\ FamilyConsistent
  BY DEF MetricsIInv
<1>2. CASE MetricsNext
  <2>1. MetricsTypeOK'
    BY <1>1, <1>2, ServerTypeOK, WorkerTypeOK, OtherTypeOK DEF MetricsNext
  <2>2. DescriptorInv' /\ ServerInv'
    BY <1>1, <1>2, ServerDescriptors, WorkerDescriptors, OtherDescriptors
    DEF MetricsNext
  <2>3. EventInv' /\ PageInv' /\ PublishedTotalBounds'
    <3>1. CASE ServerStep
      <4>1. /\ UNCHANGED <<next_sequence, total, recorded, ppc, page>>
            /\ wpc' = wpc \/ (wpc \in {"none", "left"}
                              /\ wpc' \in {"none", "loop"})
        BY <1>1, <3>1
        DEF ServerStep, Start, StartFails, Stop, ShutdownListener,
            CloseListener, ForgetListener, Join, worker, events, ServerInv
      <4> QED
        BY <1>1, <4>1
        DEF EventInv, PageInv, PublishedTotalBounds, InFlight, NoPage
    <3>2. CASE WorkerStep
      BY <1>1, <3>2, WorkerCounts
    <3>3. ASSUME NEW p \in Publishers, Draw(p) \/ Refused(p) \/ record_event(p)
          PROVE  EventInv' /\ PageInv' /\ PublishedTotalBounds'
      BY <1>1, <3>3, EventCounts
    <3>4. ASSUME OtherStep,
                 ~(\E p \in Publishers :
                     Draw(p) \/ Refused(p) \/ record_event(p))
          PROVE  UNCHANGED <<next_sequence, total, recorded, ppc, page, wpc>>
      BY <3>4
      DEF OtherStep, Connect, Abort, OtherOpens, OtherCloses, RecordFamily,
          BeginRecording, worker, events
    <3> QED
      BY <1>1, <1>2, <3>1, <3>2, <3>3, <3>4, QuietCounts DEF MetricsNext
  <2>4. FamilyInv' /\ FamilyConsistent'
    BY <1>1, <1>2, FamiliesKept
  <2> QED BY <2>1, <2>2, <2>3, <2>4 DEF MetricsIInv
<1>3. CASE UNCHANGED metricsVars
  BY <1>1, <1>3
  DEF metricsVars, server, worker, events, gauges, MetricsIInv, MetricsTypeOK,
      DescriptorInv, ServerInv, EventInv, PageInv, FamilyInv, InFlight,
      PublishedTotalBounds, FamilyConsistent, NoPage
<1> QED BY <1>2, <1>3

\* The invariant holds in every reachable state.
THEOREM MetricsInductiveInvariant == MetricsSpec => []MetricsIInv
<1>1. MetricsInit => MetricsIInv
  BY InitMetricsIInv
<1>2. MetricsIInv /\ [MetricsNext]_metricsVars => MetricsIInv'
  BY NextMetricsIInv
<1> QED BY <1>1, <1>2, PTL DEF MetricsSpec

\* MetricsServer closes a descriptor only while it is its own, although the
\* listening socket and its number are given up by another thread than the
\* one that polls them; after a stop nothing of it is left.
THEOREM ClosesOwnCorrect == MetricsSpec => []ClosesOwn
<1>1. MetricsIInv => ClosesOwn
  <2> SUFFICES ASSUME MetricsIInv PROVE ClosesOwn
    OBVIOUS
  <2>1. MetricsTypeOK /\ DescriptorInv /\ ServerInv
    BY DEF MetricsIInv
  <2>2. ASSUME spc = "idle", ~running, NEW f \in Fds
        PROVE  fds[f] \in {"free", "other"}
    <3>1. fds[f] \in {"free", "listener", "client", "other"}
      BY DEF MetricsTypeOK, MetricsIInv
    <3>2. listen_fd = -1 /\ wpc = "none"
      BY <2>1, <2>2 DEF ServerInv
    <3>3. wfd = 0
      BY <2>1, <3>2 DEF DescriptorInv, OnClient
    <3> QED BY <2>1, <3>1, <3>2, <3>3, FdFacts DEF DescriptorInv
  <2> QED BY <2>1, <2>2 DEF ClosesOwn, DescriptorInv
<1> QED BY <1>1, MetricsInductiveInvariant, PTL

\* MetricsServer::stop never waits in join for a thread that sits in accept
\* and that nothing wakes.
THEOREM StopCorrect == MetricsSpec => []StopNotStuck
<1>1. MetricsIInv => StopNotStuck
  BY DEF MetricsIInv, ServerInv, StopNotStuck
<1> QED BY <1>1, MetricsInductiveInvariant, PTL

\* minilisysm_events_published_total, which publish_event adds to while
\* render_metrics sets it, counts every event recorded before the scrape and
\* none that was not drawn, but for those under way.
THEOREM PublishedTotalCorrect == MetricsSpec => []PublishedTotalBounds
<1>1. MetricsIInv => PublishedTotalBounds
  BY DEF MetricsIInv
<1> QED BY <1>1, MetricsInductiveInvariant, PTL

\* A scrape between two set_gauge_family calls of a pass shows whole families
\* of that pass and of the one before.
THEOREM FamiliesCorrect == MetricsSpec => []FamilyConsistent
<1>1. MetricsIInv => FamilyConsistent
  BY DEF MetricsIInv
<1> QED BY <1>1, MetricsInductiveInvariant, PTL

---------------------------------------------------------------------------
(***************************************************************************)
(* Configurations and corrections.                                         *)
(***************************************************************************)
\* The settings by type: switches (Flags), words that are compared in lower
\* case, fractions (Doubles), and the rest, which is unsigned.
Unsigned == ConfigKeys \ (Flags \cup Words \cup Doubles)
LowerWords == Words \ {"metrics_allowed_clients"}

\* What a double may be.
Double == Int \cup {nan}

\* A value that the member of MonitorConfig can hold.
Fits(key, value) ==
  /\ key \in Flags => value \in BOOLEAN
  /\ key \in Unsigned => value \in Nat
  /\ key \in Doubles => value \in Double
  /\ key \in LowerWords => value \in DOMAIN Lower

Typed(c) ==
  /\ c = [key \in ConfigKeys |-> c[key]]
  /\ \A key \in ConfigKeys : Fits(key, c[key])

Kinds == {"at_least", "not_below", "not_above", "zero_means", "below",
          "part_of", "percent", "one_of"}

Rule == [rule : Kinds, key : ConfigKeys, n : Nat \cup SUBSET DOMAIN Lower,
         by : ConfigKeys]

Numeric(r) ==
  \/ r.key \in Unsigned /\ r.by \in Unsigned
  \/ r.key \in Doubles /\ r.by \in Doubles

\* A rule that fits the type of its keys.
Sound(r) ==
  \/ r.rule = "at_least" /\ r.key \in Unsigned /\ r.n \in Nat
  \/ r.rule \in {"not_below", "not_above"} /\ Numeric(r) /\ r.by # r.key
  \/ /\ r.rule \in {"zero_means", "part_of"} /\ r.by # r.key
     /\ r.key \in Unsigned /\ r.by \in Unsigned
  \/ r.rule = "percent" /\ r.key \in Doubles /\ r.n \in Nat
  \/ /\ r.rule = "one_of" /\ r.key \in LowerWords
     /\ r.n \subseteq DOMAIN Lower /\ Default[r.key] \in r.n

\* A rule that has nothing to correct.
Settled(c, r) == Ruled(c, r) = c[r.key]

AllSettled(c, L) == \A i \in 1..Len(L) : Settled(c, L[i])
KeysOf(L) == {L[i].key : i \in 1..Len(L)}
UsesOf(L) == KeysOf(L) \cup {L[i].by : i \in 1..Len(L)}
Unchanged(c, d, K) == \A key \in ConfigKeys \ K : d[key] = c[key]

\* No rule of L changes what an earlier one looks at.
Independent(L) ==
  \A i, j \in 1..Len(L) :
    i < j => L[j].key # L[i].key /\ L[j].key # L[i].by

\* The rules of L leave a configuration that none of them would change.
Settles(L) ==
  /\ L \in Seq(Rule)
  /\ \A c : Typed(c) => LET d == Corrected(c, L)
                        IN  /\ Typed(d) /\ AllSettled(d, L)
                            /\ Unchanged(c, d, KeysOf(L))

---------------------------------------------------------------------------
(***************************************************************************)
(* The fold over a list of corrections.                                    *)
(***************************************************************************)
\* The largest of some indices is one of them.
LEMMA LargestIndex ==
  ASSUME NEW n \in Nat, NEW s \in SUBSET (1..n), s # {}
  PROVE  Max(s) \in s /\ \A y \in s : Max(s) >= y
<1> DEFINE U == {m \in Nat : \A y \in s : y <= m}
<1>1. n \in U /\ U \subseteq Nat
  OBVIOUS
<1>2. PICK x \in U : \A m \in U : x <= m
  BY <1>1, Smallest
<1>3. x \in s
  <2> SUFFICES ASSUME x \notin s PROVE FALSE
    OBVIOUS
  <2>1. \A y \in s : y \in Nat /\ y >= 1 /\ y <= x /\ y # x
    BY <1>2
  <2>2. \A y \in s : y <= x - 1
    BY <1>2, <2>1
  <2>3. x - 1 \in Nat
    <3>1. PICK y \in s : TRUE
      OBVIOUS
    <3> QED BY <1>2, <2>1, <3>1
  <2>4. x - 1 \in U
    BY <2>2, <2>3
  <2> QED BY <1>2, <2>4
<1>4. \E y \in s : \A z \in s : y >= z
  BY <1>2, <1>3
<1> QED BY <1>4 DEF Max

\* What the fold over the rules L has made of c after the indices of s.
Folded(f, c, L, s) ==
  IF s = {} THEN c ELSE Correct(f[s \ {Max(s)}], L[Max(s)])

\* The recursion of the fold has a solution.
LEMMA FoldSolved ==
  ASSUME NEW n \in Nat, NEW c, NEW L
  PROVE  \E f : f = [s \in SUBSET (1..n) |-> Folded(f, c, L, s)]
<1> DEFINE S == 1..n
           Level(m) == {s \in SUBSET S : Cardinality(s) <= m}
           Q == {m \in Nat :
                   \E f : f = [s \in Level(m) |-> Folded(f, c, L, s)]}
<1>a. IsFiniteSet(S) /\ Cardinality(S) \in Nat
  BY FS_Interval, FS_CardinalityType
<1>1. \A s \in SUBSET S : /\ Cardinality(s) \in Nat
                          /\ Cardinality(s) = 0 <=> s = {}
                          /\ s # {} => /\ s \ {Max(s)} \in SUBSET S
                                       /\ Cardinality(s \ {Max(s)})
                                            = Cardinality(s) - 1
  <2> SUFFICES ASSUME NEW s \in SUBSET S
               PROVE  /\ Cardinality(s) \in Nat
                      /\ Cardinality(s) = 0 <=> s = {}
                      /\ s # {} => /\ s \ {Max(s)} \in SUBSET S
                                   /\ Cardinality(s \ {Max(s)})
                                        = Cardinality(s) - 1
    OBVIOUS
  <2>1. IsFiniteSet(s)
    BY <1>a, FS_Subset
  <2>2. Cardinality(s) \in Nat /\ (Cardinality(s) = 0 <=> s = {})
    BY <2>1, FS_CardinalityType, FS_EmptySet
  <2>3. s # {} => Max(s) \in s
    BY LargestIndex
  <2> QED BY <2>1, <2>2, <2>3, FS_RemoveElement
<1>2. 0 \in Q
  <2> DEFINE g == [s \in Level(0) |-> c]
  <2>1. \A s \in Level(0) : s = {}
    <3>1. \A k \in Nat : k <= 0 => k = 0
      OBVIOUS
    <3> QED BY <1>1, <3>1
  <2>2. g = [s \in Level(0) |-> Folded(g, c, L, s)]
    BY <2>1 DEF Folded
  <2> QED BY <2>2
<1>3. ASSUME NEW m \in Nat, m \in Q PROVE m + 1 \in Q
  <2>1. PICK f : f = [s \in Level(m) |-> Folded(f, c, L, s)]
    BY <1>3
  <2> DEFINE g == [s \in Level(m + 1) |-> Folded(f, c, L, s)]
  <2>2. ASSUME NEW s \in Level(m + 1) PROVE g[s] = Folded(g, c, L, s)
    <3>1. CASE s = {}
      BY <3>1 DEF Folded
    <3>2. CASE s # {}
      <4> DEFINE t == s \ {Max(s)}
      <4>1. t \in Level(m) /\ t \in Level(m + 1)
        <5>1. s \in SUBSET S /\ Cardinality(s) <= m + 1
          OBVIOUS
        <5>2. t \in SUBSET S /\ Cardinality(t) = Cardinality(s) - 1
          BY <1>1, <3>2, <5>1
        <5>3. Cardinality(s) \in Nat
          BY <1>1, <5>1
        <5> QED BY <5>1, <5>2, <5>3
      <4>2. f[t] = Folded(f, c, L, t) /\ g[t] = Folded(f, c, L, t)
        BY <2>1, <4>1
      <4> QED BY <3>2, <4>2 DEF Folded
    <3> QED BY <3>1, <3>2
  <2>3. g = [s \in Level(m + 1) |-> Folded(g, c, L, s)]
    BY <2>2
  <2> HIDE DEF g
  <2> QED BY <2>3
<1> HIDE DEF Q
<1>4. Nat \subseteq Q
  BY <1>2, <1>3, NumbersFrom0
<1>5. Cardinality(S) \in Q
  BY <1>a, <1>4
<1>6. Level(Cardinality(S)) = SUBSET S
  <2>1. \A s \in SUBSET S : Cardinality(s) <= Cardinality(S)
    BY <1>a, FS_Subset
  <2> QED BY <2>1
<1> QED BY <1>5, <1>6 DEF Q

\* The states of a configuration while the rules of L are applied to it.
Course(C, c, L) ==
  /\ C[0] = c /\ C[Len(L)] = Corrected(c, L)
  /\ \A i \in 1..Len(L) : C[i] = Correct(C[i - 1], L[i])

\* Every list of corrections has a course.
LEMMA CourseExists ==
  ASSUME NEW R, NEW L \in Seq(R), NEW c
  PROVE  \E C : Course(C, c, L)
<1> DEFINE n == Len(L)
           iter == CHOOSE f : f = [s \in SUBSET (1..n) |-> Folded(f, c, L, s)]
           C == [i \in 0..n |-> iter[1..i]]
<1>1. n \in Nat /\ DOMAIN L = 1..n
  OBVIOUS
<1>2. Corrected(c, L) = iter[1..n]
  BY <1>1 DEF Corrected, FoldLeft, MapThenFoldSet, Folded
<1>3. iter = [s \in SUBSET (1..n) |-> Folded(iter, c, L, s)]
  BY <1>1, FoldSolved
<1> HIDE DEF n, iter
<1>4. C[0] = c
  <2>1. 1..0 = {} /\ {} \in SUBSET (1..n) /\ 0 \in 0..n
    BY <1>1
  <2>2. iter[{}] = c
    BY <1>3, <2>1 DEF Folded
  <2> QED BY <2>1, <2>2
<1>5. C[n] = Corrected(c, L)
  BY <1>1, <1>2
<1>6. ASSUME NEW i \in 1..n PROVE C[i] = Correct(C[i - 1], L[i])
  <2>1. 1..i \in SUBSET (1..n) /\ 1..i # {} /\ i \in 0..n /\ i - 1 \in 0..n
    BY <1>1
  <2>2. Max(1..i) = i
    <3>1. i \in Nat /\ i \in 1..i
      BY <1>1
    <3>2. Max(1..i) \in 1..i /\ \A y \in 1..i : Max(1..i) >= y
      BY <1>1, <2>1, LargestIndex
    <3>3. Max(1..i) >= i
      BY <3>1, <3>2
    <3> QED BY <3>1, <3>2, <3>3
  <2>3. (1..i) \ {i} = 1..(i - 1)
    BY <1>1
  <2>4. iter[1..i] = Folded(iter, c, L, 1..i)
    BY <1>3, <2>1
  <2>5. iter[1..i] = Correct(iter[1..(i - 1)], L[i])
    BY <2>1, <2>2, <2>3, <2>4 DEF Folded
  <2> QED BY <2>1, <2>5
<1> HIDE DEF C
<1>7. Course(C, c, L)
  BY <1>4, <1>5, <1>6 DEF Course, n
<1> QED BY <1>7

\* Rules are applied one list after the other.
LEMMA CorrectedConcat ==
  ASSUME NEW R, NEW A \in Seq(R), NEW B \in Seq(R), NEW c
  PROVE  Corrected(c, A \o B) = Corrected(Corrected(c, A), B)
<1> DEFINE a == Len(A)
           b == Len(B)
<1>1. /\ A \o B \in Seq(R) /\ Len(A \o B) = a + b /\ a \in Nat /\ b \in Nat
      /\ \A i \in 1..a : (A \o B)[i] = A[i]
      /\ \A i \in 1..b : (A \o B)[a + i] = B[i]
  OBVIOUS
<1>2. PICK C : Course(C, c, A \o B)
  BY <1>1, CourseExists
<1>3. PICK D : Course(D, c, A)
  BY CourseExists
<1>4. PICK E : Course(E, Corrected(c, A), B)
  BY CourseExists
<1> DEFINE P == {i \in Nat : i <= a => C[i] = D[i]}
           Q == {i \in Nat : i <= b => C[a + i] = E[i]}
<1> HIDE DEF a, b
<1>5. 0 \in P
  BY <1>2, <1>3 DEF Course
<1>6. ASSUME NEW i \in Nat, i \in P PROVE i + 1 \in P
  <2> SUFFICES ASSUME i + 1 <= a PROVE C[i + 1] = D[i + 1]
    OBVIOUS
  <2>1. i + 1 \in 1..a /\ i + 1 \in 1..(a + b) /\ i <= a /\ (i + 1) - 1 = i
    BY <1>1
  <2>2. C[i + 1] = Correct(C[i], A[i + 1])
    BY <1>1, <1>2, <2>1 DEF Course
  <2>3. D[i + 1] = Correct(D[i], A[i + 1])
    BY <1>3, <2>1 DEF Course, a
  <2> QED BY <1>6, <2>1, <2>2, <2>3
<1>7. C[a] = Corrected(c, A)
  <2> HIDE DEF P
  <2>1. Nat \subseteq P
    BY <1>5, <1>6, NumbersFrom0
  <2>2. C[a] = D[a]
    BY <1>1, <2>1 DEF P
  <2> QED BY <1>3, <2>2 DEF Course, a
<1>8. 0 \in Q
  <2>1. a + 0 = a
    BY <1>1
  <2> QED BY <1>4, <1>7, <2>1 DEF Course
<1>9. ASSUME NEW i \in Nat, i \in Q PROVE i + 1 \in Q
  <2> SUFFICES ASSUME i + 1 <= b PROVE C[a + (i + 1)] = E[i + 1]
    OBVIOUS
  <2>1. /\ i + 1 \in 1..b /\ a + (i + 1) \in 1..(a + b) /\ i <= b
        /\ (i + 1) - 1 = i /\ (a + (i + 1)) - 1 = a + i
    BY <1>1
  <2>2. C[a + (i + 1)] = Correct(C[a + i], B[i + 1])
    BY <1>1, <1>2, <2>1 DEF Course
  <2>3. E[i + 1] = Correct(E[i], B[i + 1])
    BY <1>4, <2>1 DEF Course, b
  <2> QED BY <1>9, <2>1, <2>2, <2>3
<1>10. C[a + b] = E[b]
  <2> HIDE DEF Q
  <2>1. Nat \subseteq Q
    BY <1>8, <1>9, NumbersFrom0
  <2> QED BY <1>1, <2>1 DEF Q
<1> QED BY <1>1, <1>2, <1>4, <1>10 DEF Course, b

---------------------------------------------------------------------------
(***************************************************************************)
(* One correction.                                                         *)
(***************************************************************************)
\* Every setting is a flag, a word, a number or a fraction.
LEMMA KeyKinds ==
  /\ Flags \subseteq ConfigKeys /\ Words \subseteq ConfigKeys
  /\ Doubles \subseteq ConfigKeys /\ LowerWords \subseteq ConfigKeys
  /\ Flags \cap Words = {} /\ Flags \cap Doubles = {}
  /\ Words \cap Doubles = {} /\ Unsigned \subseteq ConfigKeys
  /\ Unsigned \cap (Flags \cup Words \cup Doubles) = {}
BY DEF Flags, Words, Doubles, LowerWords, Unsigned, ConfigKeys, Default

\* Numbers are compared as numbers.
LEMMA LessOfNumbers == \A a, b \in Int : Less(a, b) <=> a < b
BY ConfigAssumption DEF Less

\* A setting is assigned.
LEMMA AssignTyped ==
  ASSUME NEW c, Typed(c), NEW key \in ConfigKeys, NEW v, Fits(key, v)
  PROVE  /\ Typed([c EXCEPT ![key] = v])
         /\ [c EXCEPT ![key] = v][key] = v
         /\ \A k \in ConfigKeys : k # key => [c EXCEPT ![key] = v][k] = c[k]
<1> DEFINE d == [c EXCEPT ![key] = v]
<1>1. DOMAIN c = ConfigKeys
  BY DEF Typed
<1>2. d = [k \in ConfigKeys |-> IF k = key THEN v ELSE c[k]]
  BY <1>1
<1> HIDE DEF d
<1>3. d[key] = v /\ \A k \in ConfigKeys : k # key => d[k] = c[k]
  BY <1>2
<1>4. d = [k \in ConfigKeys |-> d[k]]
  BY <1>2
<1>5. \A k \in ConfigKeys : Fits(k, d[k])
  BY <1>3 DEF Typed
<1>6. Typed(d)
  BY <1>4, <1>5 DEF Typed
<1> QED BY <1>3, <1>6 DEF d

\* The same of a switch.
LEMMA SetFlag ==
  ASSUME NEW c, Typed(c), NEW key \in Flags, NEW d,
         d = [k \in ConfigKeys |-> d[k]], d[key] \in BOOLEAN,
         \A k \in ConfigKeys : k # key => d[k] = c[k]
  PROVE  Typed(d)
<1>1. Fits(key, d[key])
  BY KeyKinds DEF Fits, LowerWords
<1>2. \A k \in ConfigKeys : Fits(k, d[k])
  BY <1>1 DEF Typed
<1> QED BY <1>2 DEF Typed

\* What a rule makes of a value fits its key, and it makes the same of it again.
LEMMA RuledTwice ==
  ASSUME NEW c, Typed(c), NEW r \in Rule, Sound(r),
         NEW d, d[r.key] = Ruled(c, r), r.by # r.key => d[r.by] = c[r.by]
  PROVE  Fits(r.key, Ruled(c, r)) /\ Settled(d, r)
<1>1. r.key \in ConfigKeys /\ r.by \in ConfigKeys
  BY DEF Rule
<1>2. Fits(r.key, c[r.key]) /\ Fits(r.by, c[r.by])
  BY <1>1 DEF Typed
<1>3. CASE r.rule = "at_least" /\ r.key \in Unsigned /\ r.n \in Nat
  <2>1. Ruled(c, r) = Larger(c[r.key], r.n) /\ c[r.key] \in Nat
    BY <1>2, <1>3 DEF Ruled, Fits
  <2>2. Ruled(d, r) = Larger(Larger(c[r.key], r.n), r.n)
    BY <1>3, <2>1 DEF Ruled
  <2> QED BY <1>3, <2>1, <2>2, KeyKinds, LessOfNumbers
        DEF Larger, Settled, Fits, LowerWords
<1>4. CASE r.rule \in {"not_below", "not_above"} /\ Numeric(r) /\ r.by # r.key
  <2>1. /\ c[r.key] \in Double /\ c[r.by] \in Double
        /\ r.key \in Unsigned => c[r.key] \in Nat /\ c[r.by] \in Nat
        /\ r.key \notin Flags /\ r.key \notin LowerWords
    BY <1>2, <1>4, KeyKinds DEF Fits, Numeric, LowerWords, Double
  <2>2. CASE r.rule = "not_below"
    <3>1. Ruled(c, r) = Larger(c[r.key], c[r.by])
      BY <2>2 DEF Ruled
    <3>2. Ruled(d, r) = Larger(Larger(c[r.key], c[r.by]), c[r.by])
      BY <1>4, <2>2, <3>1 DEF Ruled
    <3> QED BY <2>1, <3>1, <3>2 DEF Larger, Less, Settled, Fits, Double
  <2>3. CASE r.rule = "not_above"
    <3>1. Ruled(c, r) = Smaller(c[r.key], c[r.by])
      BY <2>3 DEF Ruled
    <3>2. Ruled(d, r) = Smaller(Smaller(c[r.key], c[r.by]), c[r.by])
      BY <1>4, <2>3, <3>1 DEF Ruled
    <3> QED BY <2>1, <3>1, <3>2 DEF Smaller, Less, Settled, Fits, Double
  <2> QED BY <1>4, <2>2, <2>3
<1>5. CASE /\ r.rule \in {"zero_means", "part_of"} /\ r.by # r.key
           /\ r.key \in Unsigned /\ r.by \in Unsigned
  <2>1. /\ c[r.key] \in Nat /\ c[r.by] \in Nat
        /\ r.key \notin Flags /\ r.key \notin LowerWords
        /\ r.key \notin Doubles
    BY <1>2, <1>5, KeyKinds DEF Fits, LowerWords
  <2>2. CASE r.rule = "zero_means"
    <3> DEFINE F(x) == IF x = 0 THEN c[r.by] ELSE x
    <3>1. Ruled(c, r) = F(c[r.key])
      BY <2>2 DEF Ruled
    <3>2. Ruled(d, r) = F(F(c[r.key]))
      BY <1>5, <2>2, <3>1 DEF Ruled
    <3> QED BY <2>1, <3>1, <3>2 DEF Settled, Fits
  <2>3. CASE r.rule = "part_of"
    <3> DEFINE F(x) == IF x = 0 \/ x > c[r.by] THEN Smaller(4, c[r.by])
                       ELSE x
    <3>1. Ruled(c, r) = F(c[r.key])
      BY <2>3 DEF Ruled
    <3>2. Ruled(d, r) = F(F(c[r.key]))
      BY <1>5, <2>3, <3>1 DEF Ruled
    <3> QED BY <2>1, <3>1, <3>2, LessOfNumbers DEF Settled, Fits, Smaller
  <2> QED BY <1>5, <2>2, <2>3
<1>6. CASE r.rule = "percent" /\ r.key \in Doubles /\ r.n \in Nat
  <2>1. /\ c[r.key] \in Double /\ r.key \notin Flags
        /\ r.key \notin LowerWords
        /\ r.key \notin Unsigned
    BY <1>2, <1>6, KeyKinds DEF Fits, LowerWords
  <2> DEFINE F(x) == Larger(0, Smaller(r.n, x))
  <2>2. Ruled(c, r) = F(c[r.key])
    BY <1>6 DEF Ruled
  <2>3. Ruled(d, r) = F(F(c[r.key]))
    BY <1>6, <2>2 DEF Ruled
  <2>4. F(c[r.key]) \in Nat /\ F(F(c[r.key])) = F(c[r.key])
    BY <1>6, <2>1, ConfigAssumption DEF Smaller, Larger, Less, Double
  <2> QED BY <1>6, <2>1, <2>2, <2>3, <2>4 DEF Settled, Fits, Double
<1>7. CASE /\ r.rule = "one_of" /\ r.key \in LowerWords
           /\ r.n \subseteq DOMAIN Lower /\ Default[r.key] \in r.n
  <2>1. r.key \notin Flags /\ r.key \notin Doubles /\ r.key \notin Unsigned
    BY <1>7, KeyKinds DEF LowerWords
  <2>2. Ruled(c, r) = IF c[r.key] \in r.n THEN c[r.key] ELSE Default[r.key]
    BY <1>7 DEF Ruled
  <2>3. Ruled(d, r) = IF d[r.key] \in r.n THEN d[r.key] ELSE Default[r.key]
    BY <1>7 DEF Ruled
  <2>4. Ruled(c, r) \in r.n
    BY <1>7, <2>2
  <2> QED BY <1>7, <2>1, <2>3, <2>4 DEF Settled, Fits
<1> QED BY <1>3, <1>4, <1>5, <1>6, <1>7 DEF Sound

\* One rule: the configuration keeps its type, the rule is settled, and only
\* the value of its key changes.
LEMMA CorrectSettles ==
  ASSUME NEW c, Typed(c), NEW r \in Rule, Sound(r)
  PROVE  /\ Typed(Correct(c, r)) /\ Settled(Correct(c, r), r)
         /\ Correct(c, r)[r.key] = Ruled(c, r)
         /\ Unchanged(c, Correct(c, r), {r.key})
<1>1. r.key \in ConfigKeys /\ r.by \in ConfigKeys
  BY DEF Rule
<1>2. Fits(r.key, Ruled(c, r))
  <2> DEFINE d == [k \in {r.key, r.by} |-> IF k = r.key THEN Ruled(c, r)
                                           ELSE c[k]]
  <2>1. d[r.key] = Ruled(c, r) /\ (r.by # r.key => d[r.by] = c[r.by])
    OBVIOUS
  <2> HIDE DEF d
  <2> QED BY <2>1, RuledTwice
<1>3. /\ Typed(Correct(c, r)) /\ Correct(c, r)[r.key] = Ruled(c, r)
      /\ \A k \in ConfigKeys : k # r.key => Correct(c, r)[k] = c[k]
  BY <1>1, <1>2, AssignTyped DEF Correct
<1>4. Settled(Correct(c, r), r)
  BY <1>1, <1>3, RuledTwice
<1> QED BY <1>3, <1>4 DEF Unchanged

\* A rule looks at two settings.
LEMMA SettledFrame ==
  ASSUME NEW c, NEW d, NEW r, d[r.key] = c[r.key], d[r.by] = c[r.by]
  PROVE  Ruled(d, r) = Ruled(c, r) /\ (Settled(d, r) <=> Settled(c, r))
BY DEF Ruled, Settled

\* A settled rule changes nothing.
LEMMA SettledCorrect ==
  ASSUME NEW c, Typed(c), NEW r \in Rule, Settled(c, r)
  PROVE  Correct(c, r) = c
<1>1. c = [k \in ConfigKeys |-> c[k]] /\ r.key \in ConfigKeys
  BY DEF Typed, Rule
<1>2. Correct(c, r) = [c EXCEPT ![r.key] = c[r.key]]
  BY DEF Settled, Correct
<1> QED BY <1>1, <1>2

---------------------------------------------------------------------------
(***************************************************************************)
(* Lists of corrections.                                                   *)
(***************************************************************************)
\* Two lists, one after the other.
LEMMA ConcatFacts ==
  ASSUME NEW A \in Seq(Rule), NEW B \in Seq(Rule)
  PROVE  /\ A \o B \in Seq(Rule)
         /\ KeysOf(A \o B) = KeysOf(A) \cup KeysOf(B)
         /\ UsesOf(A \o B) = UsesOf(A) \cup UsesOf(B)
         /\ \A c : AllSettled(c, A \o B) <=> AllSettled(c, A)
                                             /\ AllSettled(c, B)
<1> DEFINE a == Len(A)
           b == Len(B)
           M == A \o B
<1>1. /\ M \in Seq(Rule) /\ Len(M) = a + b /\ a \in Nat /\ b \in Nat
      /\ \A i \in 1..a : M[i] = A[i]
      /\ \A i \in 1..b : M[a + i] = B[i]
  OBVIOUS
<1> HIDE DEF a, b, M
<1>2. /\ \A i \in 1..a : i \in 1..(a + b)
      /\ \A i \in 1..b : a + i \in 1..(a + b)
      /\ \A i \in 1..(a + b) : i \in 1..a \/ (i - a \in 1..b /\ a + (i - a) = i)
  BY <1>1
<1>3. /\ \A i \in 1..Len(A) : \E j \in 1..Len(M) : M[j] = A[i]
      /\ \A i \in 1..Len(B) : \E j \in 1..Len(M) : M[j] = B[i]
      /\ \A i \in 1..Len(M) : \/ \E j \in 1..Len(A) : A[j] = M[i]
                              \/ \E j \in 1..Len(B) : B[j] = M[i]
  <2>1. \A i \in 1..a : \E j \in 1..(a + b) : M[j] = A[i]
    BY <1>1, <1>2
  <2>2. \A i \in 1..b : \E j \in 1..(a + b) : M[j] = B[i]
    BY <1>1, <1>2
  <2>3. ASSUME NEW i \in 1..(a + b)
        PROVE  \/ \E j \in 1..a : A[j] = M[i]
               \/ \E j \in 1..b : B[j] = M[i]
    <3>1. CASE i \in 1..a
      BY <1>1, <3>1
    <3>2. CASE i - a \in 1..b /\ a + (i - a) = i
      <4>1. B[i - a] = M[i]
        BY <1>1, <3>2
      <4> QED BY <3>2, <4>1
    <3> QED BY <1>2, <3>1, <3>2
  <2> QED BY <1>1, <2>1, <2>2, <2>3 DEF a, b
<1> HIDE <1>1, <1>2
<1> DEFINE From(N) == {N[i] : i \in 1..Len(N)}
<1>4. From(M) = From(A) \cup From(B)
  <2>1. ASSUME NEW r \in From(M) PROVE r \in From(A) \cup From(B)
    <3>1. PICK i \in 1..Len(M) : r = M[i]
      BY <2>1
    <3> QED BY <1>3, <3>1
  <2>2. ASSUME NEW r \in From(A) PROVE r \in From(M)
    <3>1. PICK i \in 1..Len(A) : r = A[i]
      BY <2>2
    <3> QED BY <1>3, <3>1
  <2>3. ASSUME NEW r \in From(B) PROVE r \in From(M)
    <3>1. PICK i \in 1..Len(B) : r = B[i]
      BY <2>3
    <3> QED BY <1>3, <3>1
  <2> QED BY <2>1, <2>2, <2>3
<1>5. \A N : /\ KeysOf(N) = {r.key : r \in From(N)}
             /\ UsesOf(N) = {r.key : r \in From(N)}
                               \cup {r.by : r \in From(N)}
  BY Zenon DEF KeysOf, UsesOf
<1> HIDE DEF From
<1>6. /\ KeysOf(M) = KeysOf(A) \cup KeysOf(B)
      /\ UsesOf(M) = UsesOf(A) \cup UsesOf(B)
  <2>1. /\ {r.key : r \in From(M)} = {r.key : r \in From(A)}
                                       \cup {r.key : r \in From(B)}
        /\ {r.by : r \in From(M)} = {r.by : r \in From(A)}
                                      \cup {r.by : r \in From(B)}
    BY <1>4
  <2> QED BY <1>5, <2>1
<1>7. \A c : AllSettled(c, M) <=> AllSettled(c, A) /\ AllSettled(c, B)
  BY <1>3, Zenon DEF AllSettled
<1> QED BY <1>1, <1>6, <1>7 DEF M

\* The same of rules.
LEMMA RulesConcat ==
  \A A, B \in Seq(Rule) : \A c :
    Corrected(c, A \o B) = Corrected(Corrected(c, A), B)
BY CorrectedConcat

\* A list of which no rule has anything to correct changes nothing.
LEMMA SettledCorrected ==
  ASSUME NEW c, Typed(c), NEW L \in Seq(Rule), AllSettled(c, L)
  PROVE  Corrected(c, L) = c
<1>1. PICK C : Course(C, c, L)
  BY CourseExists
<1> DEFINE n == Len(L)
           P == {i \in Nat : i <= n => C[i] = c}
<1>2. n \in Nat /\ \A i \in 1..n : L[i] \in Rule
  OBVIOUS
<1>3. 0 \in P
  BY <1>1 DEF Course
<1>4. ASSUME NEW i \in Nat, i \in P PROVE i + 1 \in P
  <2> SUFFICES ASSUME i + 1 <= n PROVE C[i + 1] = c
    OBVIOUS
  <2>1. i + 1 \in 1..n /\ i <= n /\ (i + 1) - 1 = i
    BY <1>2
  <2>2. C[i + 1] = Correct(c, L[i + 1])
    BY <1>1, <1>4, <2>1 DEF Course
  <2>3. Correct(c, L[i + 1]) = c
    BY <1>2, <2>1, SettledCorrect DEF AllSettled
  <2> QED BY <2>2, <2>3
<1> HIDE DEF P
<1>5. Nat \subseteq P
  BY <1>3, <1>4, NumbersFrom0
<1>6. C[n] = c
  BY <1>2, <1>5 DEF P
<1> QED BY <1>1, <1>6 DEF Course

\* Sound rules, applied one after the other: the configuration keeps its type,
\* and only the keys of the rules so far have changed.
LEMMA CourseTyped ==
  ASSUME NEW c, Typed(c), NEW L \in Seq(Rule), NEW C, Course(C, c, L),
         \A i \in 1..Len(L) : Sound(L[i])
  PROVE  \A m \in 0..Len(L) :
           /\ Typed(C[m])
           /\ \A k \in ConfigKeys :
                (\A i \in 1..m : L[i].key # k) => C[m][k] = c[k]
<1> DEFINE n == Len(L)
           Kept(m) == \A k \in ConfigKeys :
                        (\A i \in 1..m : L[i].key # k) => C[m][k] = c[k]
           P == {m \in Nat : m <= n => Typed(C[m]) /\ Kept(m)}
<1>1. n \in Nat /\ \A i \in 1..n : L[i] \in Rule
  OBVIOUS
<1>2. 0 \in P
  BY DEF Course
<1>3. ASSUME NEW m \in Nat, m \in P PROVE m + 1 \in P
  <2> SUFFICES ASSUME m + 1 <= n PROVE Typed(C[m + 1]) /\ Kept(m + 1)
    OBVIOUS
  <2>1. m + 1 \in 1..n /\ m <= n /\ (m + 1) - 1 = m
    BY <1>1
  <2>2. C[m + 1] = Correct(C[m], L[m + 1])
    BY <2>1 DEF Course
  <2>3. Typed(C[m]) /\ Kept(m) /\ L[m + 1] \in Rule /\ Sound(L[m + 1])
    BY <1>1, <1>3, <2>1
  <2>4. /\ Typed(C[m + 1])
        /\ Unchanged(C[m], C[m + 1], {L[m + 1].key})
    BY <2>2, <2>3, CorrectSettles
  <2>5. Kept(m + 1)
    <3> SUFFICES ASSUME NEW k \in ConfigKeys,
                        \A i \in 1..(m + 1) : L[i].key # k
                 PROVE  C[m + 1][k] = c[k]
      OBVIOUS
    <3>1. m + 1 \in 1..(m + 1) /\ \A i \in 1..m : i \in 1..(m + 1)
      OBVIOUS
    <3>2. L[m + 1].key # k /\ \A i \in 1..m : L[i].key # k
      BY <3>1
    <3>3. C[m + 1][k] = C[m][k]
      BY <2>4, <3>2 DEF Unchanged
    <3>4. C[m][k] = c[k]
      BY <2>3, <3>2
    <3> QED BY <3>3, <3>4
  <2> QED BY <2>4, <2>5
<1> HIDE DEF P
<1>4. Nat \subseteq P
  BY <1>2, <1>3, NumbersFrom0
<1>5. \A m \in 0..n : m \in Nat /\ m <= n
  BY <1>1
<1> QED BY <1>4, <1>5 DEF P

\* Independent sound rules are all settled in the end.
LEMMA IndependentSettles ==
  ASSUME NEW L \in Seq(Rule), \A i \in 1..Len(L) : Sound(L[i]), Independent(L)
  PROVE  Settles(L)
<1> SUFFICES ASSUME NEW c, Typed(c)
             PROVE  /\ Typed(Corrected(c, L)) /\ AllSettled(Corrected(c, L), L)
                    /\ Unchanged(c, Corrected(c, L), KeysOf(L))
  BY DEF Settles
<1>1. PICK C : Course(C, c, L)
  BY CourseExists
<1> DEFINE n == Len(L)
<1>2. n \in Nat /\ n \in 0..n /\ \A i \in 1..n : L[i] \in Rule
  OBVIOUS
<1>3. C[n] = Corrected(c, L)
  BY <1>1 DEF Course
<1>4. /\ Typed(C[n])
      /\ \A k \in ConfigKeys :
           (\A i \in 1..n : L[i].key # k) => C[n][k] = c[k]
  BY <1>1, <1>2, CourseTyped
<1>5. Unchanged(c, C[n], KeysOf(L))
  BY <1>4 DEF Unchanged, KeysOf
<1>6. ASSUME NEW i \in 1..n PROVE Settled(C[n], L[i])
  <2> DEFINE P == {m \in Nat : i + m <= n => Settled(C[i + m], L[i])}
  <2>1. 0 \in P
    <3>1. i + 0 = i /\ i - 1 \in 0..n /\ i \in 1..n
      BY <1>2
    <3>2. C[i] = Correct(C[i - 1], L[i]) /\ Typed(C[i - 1])
      BY <1>1, <3>1, CourseTyped DEF Course
    <3>3. Settled(C[i], L[i])
      BY <1>2, <3>2, CorrectSettles
    <3> QED BY <3>1, <3>3
  <2>2. ASSUME NEW m \in Nat, m \in P PROVE m + 1 \in P
    <3> SUFFICES ASSUME i + (m + 1) <= n PROVE Settled(C[i + (m + 1)], L[i])
      OBVIOUS
    <3> DEFINE j == i + (m + 1)
    <3>1. j \in 1..n /\ j - 1 = i + m /\ i + m \in 0..n /\ i < j
          /\ i + m <= n
      BY <1>2
    <3> HIDE DEF j
    <3>2. C[j] = Correct(C[i + m], L[j]) /\ Typed(C[i + m])
      BY <1>1, <3>1, CourseTyped DEF Course
    <3>3. Unchanged(C[i + m], C[j], {L[j].key})
      BY <1>2, <3>1, <3>2, CorrectSettles
    <3>4. L[j].key # L[i].key /\ L[j].key # L[i].by
      BY <3>1 DEF Independent
    <3>5. L[i].key \in ConfigKeys /\ L[i].by \in ConfigKeys
      BY <1>2 DEF Rule
    <3>6. /\ C[j][L[i].key] = C[i + m][L[i].key]
          /\ C[j][L[i].by] = C[i + m][L[i].by]
      BY <3>3, <3>4, <3>5 DEF Unchanged
    <3>7. Settled(C[i + m], L[i])
      BY <2>2, <3>1
    <3>8. Settled(C[j], L[i])
      BY <3>6, <3>7, SettledFrame
    <3> QED BY <3>8 DEF j
  <2> HIDE DEF P
  <2>3. Nat \subseteq P
    BY <2>1, <2>2, NumbersFrom0
  <2>4. n - i \in Nat /\ i + (n - i) = n
    BY <1>2
  <2>5. n - i \in P
    BY <2>3, <2>4
  <2>6. Settled(C[i + (n - i)], L[i])
    BY <1>2, <2>4, <2>5 DEF P
  <2> QED BY <2>4, <2>6
<1>7. AllSettled(C[n], L)
  BY <1>6 DEF AllSettled
<1> QED BY <1>3, <1>4, <1>5, <1>7

\* A list keeps what another one looks at.
LEMMA AllSettledFrame ==
  ASSUME NEW L \in Seq(Rule), NEW c, NEW d, NEW K, Unchanged(c, d, K),
         AllSettled(c, L), UsesOf(L) \cap K = {}
  PROVE  AllSettled(d, L)
<1> SUFFICES ASSUME NEW i \in 1..Len(L) PROVE Settled(d, L[i])
  BY DEF AllSettled
<1>1. L[i] \in Rule
  OBVIOUS
<1>2. L[i].key \in ConfigKeys \ K /\ L[i].by \in ConfigKeys \ K
  BY <1>1 DEF UsesOf, KeysOf, Rule
<1>3. d[L[i].key] = c[L[i].key] /\ d[L[i].by] = c[L[i].by]
  BY <1>2 DEF Unchanged
<1>4. Settled(c, L[i])
  BY DEF AllSettled
<1> QED BY <1>3, <1>4, SettledFrame

\* Two lists of which the second changes nothing the first one looks at.
LEMMA SettlesConcat ==
  ASSUME NEW A, NEW B, Settles(A), Settles(B), UsesOf(A) \cap KeysOf(B) = {}
  PROVE  Settles(A \o B)
<1>1. A \in Seq(Rule) /\ B \in Seq(Rule)
  BY DEF Settles
<1>2. /\ A \o B \in Seq(Rule) /\ KeysOf(A \o B) = KeysOf(A) \cup KeysOf(B)
      /\ \A c : AllSettled(c, A \o B) <=> AllSettled(c, A) /\ AllSettled(c, B)
  BY <1>1, ConcatFacts
<1> SUFFICES ASSUME NEW c, Typed(c)
             PROVE  /\ Typed(Corrected(c, A \o B))
                    /\ AllSettled(Corrected(c, A \o B), A \o B)
                    /\ Unchanged(c, Corrected(c, A \o B), KeysOf(A \o B))
  BY <1>2 DEF Settles
<1> DEFINE d == Corrected(c, A)
           e == Corrected(d, B)
<1>3. Corrected(c, A \o B) = e
  BY <1>1, CorrectedConcat
<1>4. Typed(d) /\ AllSettled(d, A) /\ Unchanged(c, d, KeysOf(A))
  BY DEF Settles
<1>5. Typed(e) /\ AllSettled(e, B) /\ Unchanged(d, e, KeysOf(B))
  BY <1>4 DEF Settles
<1> HIDE DEF d, e
<1>6. AllSettled(e, A)
  BY <1>1, <1>4, <1>5, AllSettledFrame
<1>7. Unchanged(c, e, KeysOf(A) \cup KeysOf(B))
  BY <1>4, <1>5 DEF Unchanged
<1> QED BY <1>2, <1>3, <1>5, <1>6, <1>7

\* The only rule that changes its key, and of which no other rule changes what
\* it looks at, is applied to what was there before the list.
LEMMA CorrectedAlone ==
  ASSUME NEW c, Typed(c), NEW L \in Seq(Rule),
         \A i \in 1..Len(L) : Sound(L[i]), NEW i \in 1..Len(L),
         \A j \in 1..Len(L) :
           j # i => L[j].key # L[i].key /\ L[j].key # L[i].by
  PROVE  Corrected(c, L)[L[i].key] = Ruled(c, L[i])
<1>1. PICK C : Course(C, c, L)
  BY CourseExists
<1> DEFINE n == Len(L)
<1>2. n \in Nat /\ L[i] \in Rule /\ i \in 1..n /\ i - 1 \in 0..n
  OBVIOUS
<1>3. L[i].key \in ConfigKeys /\ L[i].by \in ConfigKeys
  BY <1>2 DEF Rule
<1>4. /\ C[i - 1][L[i].key] = c[L[i].key]
      /\ L[i].by # L[i].key => C[i - 1][L[i].by] = c[L[i].by]
  <2>1. \A j \in 1..(i - 1) : j \in 1..n /\ j # i
    BY <1>2
  <2> QED BY <1>1, <1>2, <1>3, <2>1, CourseTyped
<1>5. Ruled(C[i - 1], L[i]) = Ruled(c, L[i])
  BY <1>4, SettledFrame
<1>6. C[i] = Correct(C[i - 1], L[i]) /\ Typed(C[i - 1])
  BY <1>1, <1>2, CourseTyped DEF Course
<1>7. C[i][L[i].key] = Ruled(c, L[i])
  BY <1>2, <1>5, <1>6, CorrectSettles
<1> DEFINE P == {m \in Nat : i + m <= n => C[i + m][L[i].key]
                                             = Ruled(c, L[i])}
<1>8. 0 \in P
  <2>1. i + 0 = i
    BY <1>2
  <2> QED BY <1>7, <2>1
<1>9. ASSUME NEW m \in Nat, m \in P PROVE m + 1 \in P
  <2> SUFFICES ASSUME i + (m + 1) <= n
               PROVE  C[i + (m + 1)][L[i].key] = Ruled(c, L[i])
    OBVIOUS
  <2> DEFINE j == i + (m + 1)
  <2>1. /\ j \in 1..n /\ j - 1 = i + m /\ i + m \in 0..n /\ j # i
        /\ i + m <= n
    BY <1>2
  <2> HIDE DEF j
  <2>2. C[j] = Correct(C[i + m], L[j]) /\ Typed(C[i + m]) /\ L[j] \in Rule
    BY <1>1, <2>1, CourseTyped DEF Course
  <2>3. Unchanged(C[i + m], C[j], {L[j].key})
    BY <2>1, <2>2, CorrectSettles
  <2>4. C[j][L[i].key] = C[i + m][L[i].key]
    BY <1>3, <2>1, <2>3 DEF Unchanged
  <2>5. C[j][L[i].key] = Ruled(c, L[i])
    BY <1>9, <2>1, <2>4
  <2> QED BY <2>5 DEF j
<1> HIDE DEF P
<1>10. Nat \subseteq P
  BY <1>8, <1>9, NumbersFrom0
<1>11. n - i \in Nat /\ i + (n - i) = n
  BY <1>2
<1>12. C[n][L[i].key] = Ruled(c, L[i])
  BY <1>2, <1>10, <1>11 DEF P
<1> QED BY <1>1, <1>12 DEF Course

---------------------------------------------------------------------------
(***************************************************************************)
(* The lists of validate.                                                  *)
(***************************************************************************)
\* The rules fit their keys.
LEMMA SoundRules ==
  /\ \A key \in Unsigned, n \in Nat :
       AtLeast(key, n) \in Rule /\ Sound(AtLeast(key, n))
  /\ \A key, by \in Unsigned : key # by =>
       /\ NotBelow(key, by) \in Rule /\ Sound(NotBelow(key, by))
       /\ NotAbove(key, by) \in Rule /\ Sound(NotAbove(key, by))
       /\ ZeroMeans(key, by) \in Rule /\ Sound(ZeroMeans(key, by))
       /\ PartOf(key, by) \in Rule /\ Sound(PartOf(key, by))
  /\ \A key, by \in Doubles : key # by =>
       /\ NotBelow(key, by) \in Rule /\ Sound(NotBelow(key, by))
       /\ NotAbove(key, by) \in Rule /\ Sound(NotAbove(key, by))
  /\ \A key \in Doubles : Percent(key) \in Rule /\ Sound(Percent(key))
  /\ \A key \in LowerWords, words \in SUBSET DOMAIN Lower :
       Default[key] \in words =>
         OneOf(key, words) \in Rule /\ Sound(OneOf(key, words))
<1> USE KeyKinds
<1>1. ASSUME NEW key \in Unsigned, NEW n \in Nat
      PROVE  AtLeast(key, n) \in Rule /\ Sound(AtLeast(key, n))
  BY DEF AtLeast, Rule, Kinds, Sound
<1>2. ASSUME NEW key \in Unsigned, NEW by \in Unsigned, key # by
      PROVE  /\ NotBelow(key, by) \in Rule /\ Sound(NotBelow(key, by))
             /\ NotAbove(key, by) \in Rule /\ Sound(NotAbove(key, by))
             /\ ZeroMeans(key, by) \in Rule /\ Sound(ZeroMeans(key, by))
             /\ PartOf(key, by) \in Rule /\ Sound(PartOf(key, by))
  BY <1>2 DEF NotBelow, NotAbove, ZeroMeans, PartOf, Rule, Kinds, Sound, Numeric
<1>3. ASSUME NEW key \in Doubles, NEW by \in Doubles, key # by
      PROVE  /\ NotBelow(key, by) \in Rule /\ Sound(NotBelow(key, by))
             /\ NotAbove(key, by) \in Rule /\ Sound(NotAbove(key, by))
  BY <1>3 DEF NotBelow, NotAbove, Rule, Kinds, Sound, Numeric
<1>4. ASSUME NEW key \in Doubles
      PROVE  Percent(key) \in Rule /\ Sound(Percent(key))
  BY DEF Percent, Rule, Kinds, Sound
<1>5. ASSUME NEW key \in LowerWords, NEW words \in SUBSET DOMAIN Lower,
             Default[key] \in words
      PROVE  OneOf(key, words) \in Rule /\ Sound(OneOf(key, words))
  BY <1>5 DEF OneOf, Rule, Kinds, Sound
<1> QED BY <1>1, <1>2, <1>3, <1>4, <1>5

\* Two thresholds that are held apart by a third one.
LEMMA ThresholdsSettle ==
  ASSUME NEW warning, NEW critical, NEW recovery,
         warning # critical, warning # recovery, critical # recovery,
         {warning, critical, recovery} \subseteq Unsigned
           \/ {warning, critical, recovery} \subseteq Doubles
  PROVE  LET L == Thresholds(warning, critical, recovery)
         IN  /\ Settles(L) /\ KeysOf(L) = {critical, recovery}
             /\ UsesOf(L) = {warning, critical, recovery}
<1> DEFINE L == Thresholds(warning, critical, recovery)
           a == NotBelow(critical, warning)
           b == NotAbove(recovery, warning)
<1>1. a \in Rule /\ b \in Rule /\ Sound(a) /\ Sound(b)
  BY SoundRules
<1>2. /\ a.key = critical /\ a.by = warning
      /\ b.key = recovery /\ b.by = warning
  BY DEF NotBelow, NotAbove
<1>3. L = <<a, b>>
  BY DEF Thresholds
<1> HIDE DEF L, a, b
<1>4. /\ L \in Seq(Rule) /\ Len(L) = 2 /\ L[1] = a /\ L[2] = b
      /\ \A i \in 1..2 : i = 1 \/ i = 2
  BY <1>1, <1>3
<1>5. Independent(L) /\ \A i \in 1..Len(L) : Sound(L[i])
  BY <1>1, <1>2, <1>4 DEF Independent
<1>6. /\ KeysOf(L) = {critical, recovery}
      /\ UsesOf(L) = {warning, critical, recovery}
  BY <1>2, <1>4 DEF KeysOf, UsesOf
<1>7. Settles(L)
  BY <1>4, <1>5, IndependentSettles
<1> QED BY <1>6, <1>7 DEF L

FirstKeys == {"fast_collect_interval_ms", "dispatcher_idle_sleep_ms",
              "sink_idle_sleep_ms"}

\* Before the check of the clients.
LEMMA FirstSettles ==
  Settles(First) /\ KeysOf(First) = FirstKeys /\ UsesOf(First) = FirstKeys
<1>1. FirstKeys \subseteq Unsigned
  BY DEF FirstKeys, Unsigned, ConfigKeys, Default, Flags, Words, Doubles
<1>2. First \in Seq(Rule) /\ \A i \in 1..Len(First) : Sound(First[i])
  BY <1>1, SoundRules DEF First, FirstKeys
<1>3. Independent(First)
  BY DEF Independent, First, AtLeast
<1>4. KeysOf(First) = FirstKeys /\ UsesOf(First) = KeysOf(First)
  BY DEF KeysOf, UsesOf, First, AtLeast, FirstKeys
<1> QED BY <1>2, <1>3, <1>4, IndependentSettles

\* A list of one rule.
LEMMA OneSettles ==
  ASSUME NEW r \in Rule, Sound(r)
  PROVE  /\ Settles(<<r>>) /\ KeysOf(<<r>>) = {r.key}
         /\ UsesOf(<<r>>) = {r.key, r.by}
<1> DEFINE L == <<r>>
<1>1. /\ L \in Seq(Rule) /\ Len(L) = 1 /\ L[1] = r
      /\ \A i \in 1..1 : i = 1
  OBVIOUS
<1> HIDE DEF L
<1>2. Independent(L) /\ \A i \in 1..Len(L) : Sound(L[i])
  BY <1>1 DEF Independent
<1>3. KeysOf(L) = {r.key} /\ UsesOf(L) = {r.key, r.by}
  BY <1>1 DEF KeysOf, UsesOf
<1> QED BY <1>1, <1>2, <1>3, IndependentSettles DEF L

LogKeys == {"agent_log_level", "agent_log_rotation", "agent_log_rotate_mb",
            "agent_log_rotate_files", "agent_log_async_queue_size"}

\* The settings of the log.
LEMMA LogSettles ==
  Settles(LogRules) /\ KeysOf(LogRules) = LogKeys /\ UsesOf(LogRules) = LogKeys
<1>1. {"agent_log_rotate_mb", "agent_log_rotate_files",
       "agent_log_async_queue_size"} \subseteq Unsigned
  BY DEF Unsigned, ConfigKeys, Default, Flags, Words, Doubles
<1>2. /\ {"agent_log_level", "agent_log_rotation"} \subseteq LowerWords
      /\ Default["agent_log_level"] \in Levels
      /\ Default["agent_log_rotation"] \in Rotations
      /\ Levels \in SUBSET DOMAIN Lower /\ Rotations \in SUBSET DOMAIN Lower
  BY ConfigAssumption
     DEF LowerWords, Words, Default, Levels, Rotations, KnownWords
<1>3. LogRules \in Seq(Rule) /\ \A i \in 1..Len(LogRules) : Sound(LogRules[i])
  BY <1>1, <1>2, SoundRules DEF LogRules
<1>4. Independent(LogRules)
  BY DEF Independent, LogRules, AtLeast, OneOf
<1>5. KeysOf(LogRules) = LogKeys /\ UsesOf(LogRules) = KeysOf(LogRules)
  BY DEF KeysOf, UsesOf, LogRules, AtLeast, OneOf, LogKeys
<1> QED BY <1>3, <1>4, <1>5, IndependentSettles

QueueKeys == {"event_queue_capacity", "critical_reserved_slots"}

\* The capacity is corrected before the reserve that must be below it.
LEMMA QueueSettles ==
  /\ Settles(QueueRules) /\ KeysOf(QueueRules) = QueueKeys
  /\ UsesOf(QueueRules) = QueueKeys
<1> DEFINE cap == "event_queue_capacity"
           res == "critical_reserved_slots"
           a == AtLeast(cap, 16)
           b == Below(res, cap)
           L == QueueRules
<1>1. cap \in Unsigned /\ res \in Unsigned /\ cap # res
  BY DEF Unsigned, ConfigKeys, Default, Flags, Words, Doubles
<1>2. a \in Rule /\ Sound(a)
  BY <1>1, SoundRules
<1>3. /\ b \in Rule /\ b.rule = "below" /\ b.key = res /\ b.by = cap
      /\ a.rule = "at_least" /\ a.key = cap /\ a.by = cap /\ a.n = 16
  BY <1>1, KeyKinds DEF AtLeast, Below, Rule, Kinds
<1>4. L = <<a, b>>
  BY DEF QueueRules
<1> HIDE DEF L, a, b
<1>5. /\ L \in Seq(Rule) /\ Len(L) = 2 /\ L[1] = a /\ L[2] = b
      /\ \A i \in 1..2 : i = 1 \/ i = 2
  BY <1>2, <1>3, <1>4
<1>6. KeysOf(L) = {cap, res} /\ UsesOf(L) = {cap, res}
  BY <1>3, <1>5 DEF KeysOf, UsesOf
<1>7. ASSUME NEW c, Typed(c)
      PROVE  /\ Typed(Corrected(c, L)) /\ AllSettled(Corrected(c, L), L)
             /\ Unchanged(c, Corrected(c, L), KeysOf(L))
  <2>1. PICK C : Course(C, c, L)
    BY <1>5, CourseExists
  <2>2. /\ C[0] = c /\ C[1] = Correct(C[0], a) /\ C[2] = Correct(C[1], b)
        /\ C[2] = Corrected(c, L)
    BY <1>5, <2>1 DEF Course
  <2>3. /\ Typed(C[1]) /\ Settled(C[1], a) /\ Unchanged(c, C[1], {cap})
        /\ C[1][cap] = Ruled(c, a)
    BY <1>2, <1>3, <1>7, <2>2, CorrectSettles
  <2> DEFINE w == C[1][cap]
             v == C[1][res]
  <2>4. w \in Nat /\ v \in Nat /\ w >= 16
    <3>1. cap \in ConfigKeys /\ res \in ConfigKeys
      BY <1>1, KeyKinds
    <3>2. w \in Nat /\ v \in Nat
      BY <1>1, <2>3, <3>1 DEF Typed, Fits
    <3>3. w = Larger(c[cap], 16) /\ c[cap] \in Nat
      BY <1>1, <1>3, <1>7, <2>3, <3>1 DEF Ruled, Typed, Fits
    <3> QED BY <3>2, <3>3, LessOfNumbers DEF Larger
  <2>5. Ruled(C[1], b) = IF v >= w THEN w - 1 ELSE v
    BY <1>3 DEF Ruled
  <2>6. Ruled(C[1], b) \in Nat /\ Ruled(C[1], b) < w
    BY <2>4, <2>5
  <2>7. Fits(res, Ruled(C[1], b))
    BY <1>1, <2>6, KeyKinds DEF Fits, LowerWords
  <2>8. /\ Typed(C[2]) /\ C[2][res] = Ruled(C[1], b)
        /\ \A k \in ConfigKeys : k # res => C[2][k] = C[1][k]
    <3>1. C[2] = [C[1] EXCEPT ![res] = Ruled(C[1], b)]
      BY <1>3, <2>2 DEF Correct
    <3>2. res \in ConfigKeys
      BY <1>1, KeyKinds
    <3> HIDE DEF res
    <3> QED BY <2>3, <2>7, <3>1, <3>2, AssignTyped
  <2>9. C[2][cap] = w
    BY <1>1, <2>8, KeyKinds
  <2>10. Settled(C[2], a)
    BY <1>3, <2>3, <2>9, SettledFrame
  <2>11. Settled(C[2], b)
    <3>1. Ruled(C[2], b) = IF C[2][res] >= w THEN w - 1 ELSE C[2][res]
      BY <1>3, <2>9 DEF Ruled
    <3> QED BY <1>3, <2>4, <2>6, <2>8, <3>1 DEF Settled
  <2>12. Unchanged(c, C[2], {cap, res})
    BY <2>3, <2>8 DEF Unchanged
  <2> QED BY <1>5, <1>6, <2>2, <2>8, <2>10, <2>11, <2>12 DEF AllSettled
<1> QED BY <1>5, <1>6, <1>7 DEF L, Settles, QueueKeys

\* What is corrected before the check of the memory thresholds.
LEMMA SecondSettles ==
  /\ Settles(Second) /\ KeysOf(Second) = LogKeys \cup QueueKeys
  /\ UsesOf(Second) = LogKeys \cup QueueKeys
<1>1. LogKeys \cap QueueKeys = {}
  BY DEF LogKeys, QueueKeys
<1>2. Settles(Second)
  BY <1>1, LogSettles, QueueSettles, SettlesConcat DEF Second
<1>3. LogRules \in Seq(Rule) /\ QueueRules \in Seq(Rule)
  BY LogSettles, QueueSettles DEF Settles
<1> QED BY <1>2, <1>3, LogSettles, QueueSettles, ConcatFacts DEF Second

SelfKeys == {"mem_available_recovery_mb", "queue_critical_percent",
             "queue_recovery_percent", "self_rss_hard_limit_mb",
             "self_rss_recovery_mb"}
SelfUses == SelfKeys \cup {"mem_available_warning_mb",
                           "queue_warning_percent", "self_rss_soft_limit_mb"}

\* The thresholds of the agent itself.
LEMMA SelfSettles ==
  /\ Settles(SelfRules) /\ KeysOf(SelfRules) = SelfKeys
  /\ UsesOf(SelfRules) = SelfUses
<1> DEFINE A == <<NotBelow("mem_available_recovery_mb",
                           "mem_available_warning_mb")>>
           B == Thresholds("queue_warning_percent", "queue_critical_percent",
                           "queue_recovery_percent")
           C == Thresholds("self_rss_soft_limit_mb", "self_rss_hard_limit_mb",
                           "self_rss_recovery_mb")
<1>1. SelfUses \subseteq Unsigned
  BY DEF SelfUses, SelfKeys, Unsigned, ConfigKeys, Default, Flags, Words,
         Doubles
<1>2. /\ Settles(A) /\ KeysOf(A) = {"mem_available_recovery_mb"}
      /\ UsesOf(A) = {"mem_available_recovery_mb", "mem_available_warning_mb"}
  <2> DEFINE r == NotBelow("mem_available_recovery_mb",
                           "mem_available_warning_mb")
  <2>1. r \in Rule /\ Sound(r)
    BY <1>1, SoundRules DEF SelfUses, SelfKeys
  <2>2. /\ r.key = "mem_available_recovery_mb"
        /\ r.by = "mem_available_warning_mb"
    BY DEF NotBelow
  <2> HIDE DEF r
  <2> QED BY <2>1, <2>2, OneSettles DEF r
<1>3. /\ Settles(B)
      /\ KeysOf(B) = {"queue_critical_percent", "queue_recovery_percent"}
      /\ UsesOf(B) = {"queue_warning_percent", "queue_critical_percent",
                      "queue_recovery_percent"}
  BY <1>1, ThresholdsSettle DEF SelfUses, SelfKeys
<1>4. /\ Settles(C)
      /\ KeysOf(C) = {"self_rss_hard_limit_mb", "self_rss_recovery_mb"}
      /\ UsesOf(C) = {"self_rss_soft_limit_mb", "self_rss_hard_limit_mb",
                      "self_rss_recovery_mb"}
  BY <1>1, ThresholdsSettle DEF SelfUses, SelfKeys
<1>5. SelfRules = (A \o B) \o C
  BY DEF SelfRules
<1> HIDE DEF A, B, C
<1>6. /\ Settles(A \o B) /\ KeysOf(A \o B) = KeysOf(A) \cup KeysOf(B)
      /\ UsesOf(A \o B) = UsesOf(A) \cup UsesOf(B)
  <2>1. UsesOf(A) \cap KeysOf(B) = {}
    BY <1>2, <1>3
  <2> QED BY <1>2, <1>3, <2>1, SettlesConcat, ConcatFacts DEF Settles
<1>7. /\ Settles((A \o B) \o C)
      /\ KeysOf((A \o B) \o C) = KeysOf(A \o B) \cup KeysOf(C)
      /\ UsesOf((A \o B) \o C) = UsesOf(A \o B) \cup UsesOf(C)
  <2>1. UsesOf(A \o B) \cap KeysOf(C) = {}
    BY <1>2, <1>3, <1>4, <1>6
  <2> QED BY <1>4, <1>6, <2>1, SettlesConcat, ConcatFacts DEF Settles
<1> QED BY <1>2, <1>3, <1>4, <1>5, <1>6, <1>7 DEF SelfKeys, SelfUses

EbpfKeys == {"sched_wait_sum_critical_us", "sched_ebpf_min_wait_us",
             "sched_ebpf_ringbuf_kb", "sched_ebpf_max_events_per_poll",
             "sched_ebpf_allowlist_refresh_ms",
             "sched_ebpf_aggregate_window_ms",
             "sched_ebpf_aggregate_max_entries"}
EbpfUses == EbpfKeys \cup {"sched_wait_sum_warning_us",
                           "sched_proc_cache_refresh_ms"}

\* The settings of the eBPF collector.
LEMMA EbpfSettles ==
  /\ Settles(EbpfRules) /\ KeysOf(EbpfRules) = EbpfKeys
  /\ UsesOf(EbpfRules) = EbpfUses
<1>1. EbpfUses \subseteq Unsigned
  BY DEF EbpfUses, EbpfKeys, Unsigned, ConfigKeys, Default, Flags, Words,
         Doubles
<1>2. /\ EbpfRules \in Seq(Rule)
      /\ \A i \in 1..Len(EbpfRules) : Sound(EbpfRules[i])
  BY <1>1, SoundRules DEF EbpfRules, EbpfUses, EbpfKeys
<1>3. Independent(EbpfRules)
  BY DEF Independent, EbpfRules, AtLeast, NotBelow, ZeroMeans
<1>4. KeysOf(EbpfRules) = EbpfKeys /\ UsesOf(EbpfRules) = EbpfUses
  BY DEF KeysOf, UsesOf, EbpfRules, AtLeast, NotBelow, ZeroMeans, EbpfKeys,
         EbpfUses
<1> QED BY <1>2, <1>3, <1>4, IndependentSettles

ProcKeys == {"sched_proc_cache_refresh_ms", "sched_proc_max_scan_threads",
             "sched_collector_overrun_warning_ms", "sched_delay_source",
             "sched_wait_sum_recovery_us", "sched_max_targets"}
ProcUses == ProcKeys \cup {"low_freq_collect_interval_ms",
                           "sched_wait_sum_warning_us"}

\* The settings of the other scheduler-delay collector.
LEMMA ProcSettles ==
  /\ Settles(ProcRules) /\ KeysOf(ProcRules) = ProcKeys
  /\ UsesOf(ProcRules) = ProcUses
  /\ \A i \in 1..Len(ProcRules) : Sound(ProcRules[i])
<1>1. ProcUses \ {"sched_delay_source"} \subseteq Unsigned
  BY DEF ProcUses, ProcKeys, Unsigned, ConfigKeys, Default, Flags, Words,
         Doubles
<1>2. /\ "sched_delay_source" \in LowerWords
      /\ Default["sched_delay_source"] \in Sources
      /\ Sources \in SUBSET DOMAIN Lower
  BY ConfigAssumption DEF LowerWords, Words, Default, Sources, KnownWords
<1>3. /\ ProcRules \in Seq(Rule)
      /\ \A i \in 1..Len(ProcRules) : Sound(ProcRules[i])
  BY <1>1, <1>2, SoundRules DEF ProcRules, ProcUses, ProcKeys
<1>4. Independent(ProcRules)
  BY DEF Independent, ProcRules, AtLeast, NotAbove, ZeroMeans, OneOf
<1>5. KeysOf(ProcRules) = ProcKeys /\ UsesOf(ProcRules) = ProcUses
  BY DEF KeysOf, UsesOf, ProcRules, AtLeast, NotAbove, ZeroMeans, OneOf,
         ProcKeys, ProcUses
<1> QED BY <1>3, <1>4, <1>5, IndependentSettles

SinkKeys == {"cache_max_mb", "file_rotate_mb", "network_batch_size",
             "network_flush_interval_ms", "network_retry_base_ms",
             "network_retry_max_ms", "network_wal_max_mb",
             "network_wal_segment_mb"}

\* The settings of the sinks.
LEMMA SinkSettles ==
  /\ Settles(SinkRules) /\ KeysOf(SinkRules) = SinkKeys
  /\ UsesOf(SinkRules) = SinkKeys
<1>1. SinkKeys \subseteq Unsigned
  BY DEF SinkKeys, Unsigned, ConfigKeys, Default, Flags, Words, Doubles
<1>2. /\ SinkRules \in Seq(Rule)
      /\ \A i \in 1..Len(SinkRules) : Sound(SinkRules[i])
  BY <1>1, SoundRules DEF SinkRules, SinkKeys
<1>3. Independent(SinkRules)
  BY DEF Independent, SinkRules, AtLeast, NotBelow, PartOf
<1>4. KeysOf(SinkRules) = SinkKeys /\ UsesOf(SinkRules) = KeysOf(SinkRules)
  BY DEF KeysOf, UsesOf, SinkRules, AtLeast, NotBelow, PartOf, SinkKeys
<1> QED BY <1>2, <1>3, <1>4, IndependentSettles

UsageKeys == {"process_memory_growth_critical_mb",
              "process_memory_growth_recovery_mb",
              "process_memory_growth_window_sec", "io_await_critical_ms",
              "io_await_recovery_ms", "io_util_critical_percent",
              "io_util_recovery_percent", "io_max_targets"}
UsageUses == UsageKeys \cup {"process_memory_growth_warning_mb",
                             "io_await_warning_ms", "io_util_warning_percent"}

\* The settings of the memory growth and of the I/O.
LEMMA UsageSettles ==
  /\ Settles(UsageRules) /\ KeysOf(UsageRules) = UsageKeys
  /\ UsesOf(UsageRules) = UsageUses
<1> DEFINE A == Thresholds("process_memory_growth_warning_mb",
                           "process_memory_growth_critical_mb",
                           "process_memory_growth_recovery_mb")
           B == <<AtLeast("process_memory_growth_window_sec", 1)>>
           C == Thresholds("io_await_warning_ms", "io_await_critical_ms",
                           "io_await_recovery_ms")
           D == Thresholds("io_util_warning_percent",
                           "io_util_critical_percent",
                           "io_util_recovery_percent")
           E == <<AtLeast("io_max_targets", 1)>>
<1>1. /\ {"process_memory_growth_warning_mb",
          "process_memory_growth_critical_mb",
          "process_memory_growth_recovery_mb",
          "process_memory_growth_window_sec", "io_max_targets"}
            \subseteq Unsigned
      /\ {"io_await_warning_ms", "io_await_critical_ms",
          "io_await_recovery_ms", "io_util_warning_percent",
          "io_util_critical_percent", "io_util_recovery_percent"}
            \subseteq Doubles
  BY DEF Unsigned, ConfigKeys, Default, Flags, Words, Doubles
<1>2. /\ Settles(A)
      /\ KeysOf(A) = {"process_memory_growth_critical_mb",
                      "process_memory_growth_recovery_mb"}
      /\ UsesOf(A) = {"process_memory_growth_warning_mb",
                      "process_memory_growth_critical_mb",
                      "process_memory_growth_recovery_mb"}
  BY <1>1, ThresholdsSettle
<1>3. \A key \in Unsigned :
        LET L == <<AtLeast(key, 1)>>
        IN  Settles(L) /\ KeysOf(L) = {key} /\ UsesOf(L) = {key}
  <2> TAKE key \in Unsigned
  <2>1. AtLeast(key, 1) \in Rule /\ Sound(AtLeast(key, 1))
    BY SoundRules
  <2>2. AtLeast(key, 1).key = key /\ AtLeast(key, 1).by = key
    BY DEF AtLeast
  <2> QED BY <2>1, <2>2, OneSettles
<1>4. /\ Settles(B) /\ KeysOf(B) = {"process_memory_growth_window_sec"}
      /\ UsesOf(B) = {"process_memory_growth_window_sec"}
  BY <1>1, <1>3
<1>5. /\ Settles(C)
      /\ KeysOf(C) = {"io_await_critical_ms", "io_await_recovery_ms"}
      /\ UsesOf(C) = {"io_await_warning_ms", "io_await_critical_ms",
                      "io_await_recovery_ms"}
  BY <1>1, ThresholdsSettle
<1>6. /\ Settles(D)
      /\ KeysOf(D) = {"io_util_critical_percent", "io_util_recovery_percent"}
      /\ UsesOf(D) = {"io_util_warning_percent", "io_util_critical_percent",
                      "io_util_recovery_percent"}
  BY <1>1, ThresholdsSettle
<1>7. /\ Settles(E) /\ KeysOf(E) = {"io_max_targets"}
      /\ UsesOf(E) = {"io_max_targets"}
  BY <1>1, <1>3
<1>8. UsageRules = (((A \o B) \o C) \o D) \o E
  BY DEF UsageRules
<1> HIDE DEF A, B, C, D, E
<1> DEFINE AB == A \o B
           ABC == AB \o C
           ABCD == ABC \o D
           L == ABCD \o E
<1>9. /\ Settles(AB) /\ KeysOf(AB) = KeysOf(A) \cup KeysOf(B)
      /\ UsesOf(AB) = UsesOf(A) \cup UsesOf(B)
  <2>1. UsesOf(A) \cap KeysOf(B) = {}
    BY <1>2, <1>4
  <2> QED BY <1>2, <1>4, <2>1, SettlesConcat, ConcatFacts DEF Settles
<1> HIDE DEF AB
<1>10. /\ Settles(ABC) /\ KeysOf(ABC) = KeysOf(AB) \cup KeysOf(C)
       /\ UsesOf(ABC) = UsesOf(AB) \cup UsesOf(C)
  <2>1. UsesOf(AB) \cap KeysOf(C) = {}
    BY <1>2, <1>4, <1>5, <1>9
  <2> QED BY <1>5, <1>9, <2>1, SettlesConcat, ConcatFacts DEF Settles
<1> HIDE DEF ABC
<1>11. /\ Settles(ABCD) /\ KeysOf(ABCD) = KeysOf(ABC) \cup KeysOf(D)
       /\ UsesOf(ABCD) = UsesOf(ABC) \cup UsesOf(D)
  <2>1. UsesOf(ABC) \cap KeysOf(D) = {}
    BY <1>2, <1>4, <1>5, <1>6, <1>9, <1>10
  <2> QED BY <1>6, <1>10, <2>1, SettlesConcat, ConcatFacts DEF Settles
<1> HIDE DEF ABCD
<1>12. /\ Settles(L) /\ KeysOf(L) = KeysOf(ABCD) \cup KeysOf(E)
       /\ UsesOf(L) = UsesOf(ABCD) \cup UsesOf(E)
  <2>1. UsesOf(ABCD) \cap KeysOf(E) = {}
    BY <1>2, <1>4, <1>5, <1>6, <1>7, <1>9, <1>10, <1>11
  <2> QED BY <1>7, <1>11, <2>1, SettlesConcat, ConcatFacts DEF Settles
<1>13. UsageRules = L
  BY <1>8 DEF AB, ABC, ABCD
<1> HIDE DEF L
<1>14. KeysOf(L) = UsageKeys
  BY <1>2, <1>4, <1>5, <1>6, <1>7, <1>9, <1>10, <1>11, <1>12 DEF UsageKeys
<1>15. UsesOf(L) = UsageUses
  BY <1>2, <1>4, <1>5, <1>6, <1>7, <1>9, <1>10, <1>11, <1>12
     DEF UsageUses, UsageKeys
<1> QED BY <1>12, <1>13, <1>14, <1>15

CpuKeys == {"cpu_usage_critical_percent", "cpu_usage_recovery_percent",
            "cpu_usage_mode", "cpu_usage_warning_percent",
            "cpu_usage_continuous_warning_windows",
            "cpu_usage_continuous_critical_windows",
            "cpu_usage_recovery_windows"}

\* The rules of the CPU: the thresholds are put in order before they are
\* limited to percentages.
CpuOrder == Thresholds("cpu_usage_warning_percent",
                       "cpu_usage_critical_percent",
                       "cpu_usage_recovery_percent")
CpuLimits == <<OneOf("cpu_usage_mode", Modes),
               Percent("cpu_usage_warning_percent"),
               Percent("cpu_usage_critical_percent"),
               Percent("cpu_usage_recovery_percent"),
               AtLeast("cpu_usage_continuous_warning_windows", 1),
               AtLeast("cpu_usage_continuous_critical_windows", 1),
               AtLeast("cpu_usage_recovery_windows", 1)>>

\* No threshold of the processor is nan.
CpuNumbers(c) == \A k \in CpuThresholds : c[k] \in Int

\* Where the thresholds are found.
LEMMA ThresholdKeys ==
  /\ CpuThresholds \subseteq Doubles /\ CpuThresholds \subseteq ConfigKeys
  /\ CpuThresholds \subseteq CpuKeys
BY DEF CpuThresholds, Doubles, ConfigKeys, Default, CpuKeys

\* The thresholds are in order after the first two rules.
LEMMA OrderSettles ==
  /\ Settles(CpuOrder)
  /\ KeysOf(CpuOrder) = CpuThresholds \ {"cpu_usage_warning_percent"}
  /\ UsesOf(CpuOrder) = CpuThresholds
<1>1. CpuThresholds \subseteq Doubles
  BY ThresholdKeys
<1> QED BY <1>1, ThresholdsSettle DEF CpuThresholds, CpuOrder

\* The limits hold after the rest of them.
LEMMA LimitsSettle ==
  /\ Settles(CpuLimits) /\ KeysOf(CpuLimits) = CpuKeys
  /\ UsesOf(CpuLimits) = CpuKeys
  /\ \A i \in 1..Len(CpuLimits) : Sound(CpuLimits[i])
<1>1. /\ {"cpu_usage_continuous_warning_windows",
          "cpu_usage_continuous_critical_windows",
          "cpu_usage_recovery_windows"} \subseteq Unsigned
      /\ CpuThresholds \subseteq Doubles
  BY ThresholdKeys DEF Unsigned, ConfigKeys, Default, Flags, Words, Doubles
<1>2. /\ "cpu_usage_mode" \in LowerWords
      /\ Default["cpu_usage_mode"] \in Modes
      /\ Modes \in SUBSET DOMAIN Lower
  BY ConfigAssumption DEF LowerWords, Words, Default, Modes, KnownWords
<1>3. /\ CpuLimits \in Seq(Rule)
      /\ \A i \in 1..Len(CpuLimits) : Sound(CpuLimits[i])
  BY <1>1, <1>2, SoundRules DEF CpuLimits, CpuThresholds
<1>4. Independent(CpuLimits)
  BY DEF Independent, CpuLimits, AtLeast, OneOf, Percent
<1>5. KeysOf(CpuLimits) = CpuKeys /\ UsesOf(CpuLimits) = KeysOf(CpuLimits)
  BY DEF KeysOf, UsesOf, CpuLimits, AtLeast, OneOf, Percent, CpuKeys
<1> QED BY <1>3, <1>4, <1>5, IndependentSettles

\* std::max and std::min around a threshold, which make 100 of a nan.
Clamp(x) == Larger(0, Smaller(100, x))

\* Thresholds that are limited are percentages.
LEMMA LimitsBound ==
  ASSUME NEW c, Typed(c), AllSettled(c, CpuLimits)
  PROVE  CpuNumbers(c) /\ \A k \in CpuThresholds : c[k] \in 0..100
<1>1. ASSUME NEW k \in CpuThresholds PROVE c[k] \in 0..100
  <2>1. c[k] \in Double
    BY ThresholdKeys DEF Typed, Fits
  <2>2. Settled(c, Percent(k))
    <3>1. /\ Len(CpuLimits) = 7
          /\ CpuLimits[2] = Percent("cpu_usage_warning_percent")
          /\ CpuLimits[3] = Percent("cpu_usage_critical_percent")
          /\ CpuLimits[4] = Percent("cpu_usage_recovery_percent")
      BY DEF CpuLimits
    <3>2. /\ Settled(c, CpuLimits[2]) /\ Settled(c, CpuLimits[3])
          /\ Settled(c, CpuLimits[4])
      BY <3>1 DEF AllSettled
    <3> QED BY <3>1, <3>2 DEF CpuThresholds
  <2>3. c[k] = Clamp(c[k])
    BY <2>2 DEF Settled, Ruled, Percent, Clamp
  <2> QED BY <2>1, <2>3, ConfigAssumption
          DEF Clamp, Larger, Smaller, Less, Double
<1> QED BY <1>1 DEF CpuNumbers

\* The two lists are those of the CPU.
LEMMA CpuShape ==
  /\ CpuRules = CpuOrder \o CpuLimits /\ CpuRules \in Seq(Rule)
  /\ KeysOf(CpuRules) = CpuKeys /\ UsesOf(CpuRules) = CpuKeys
  /\ \A c : AllSettled(c, CpuRules) <=> AllSettled(c, CpuOrder)
                                        /\ AllSettled(c, CpuLimits)
<1>1. CpuRules = CpuOrder \o CpuLimits
  BY DEF CpuRules, CpuOrder, CpuLimits
<1>2. CpuOrder \in Seq(Rule) /\ CpuLimits \in Seq(Rule)
  BY OrderSettles, LimitsSettle DEF Settles
<1>3. /\ CpuOrder \o CpuLimits \in Seq(Rule)
      /\ KeysOf(CpuOrder \o CpuLimits) = KeysOf(CpuOrder) \cup KeysOf(CpuLimits)
      /\ UsesOf(CpuOrder \o CpuLimits) = UsesOf(CpuOrder) \cup UsesOf(CpuLimits)
      /\ \A c : AllSettled(c, CpuOrder \o CpuLimits)
                  <=> AllSettled(c, CpuOrder) /\ AllSettled(c, CpuLimits)
  BY <1>2, ConcatFacts
<1>4. /\ KeysOf(CpuOrder) \cup KeysOf(CpuLimits) = CpuKeys
      /\ UsesOf(CpuOrder) \cup UsesOf(CpuLimits) = CpuKeys
  BY OrderSettles, LimitsSettle, ThresholdKeys
<1> QED BY <1>1, <1>3, <1>4

\* What the limits make of the thresholds.
LEMMA Clamped ==
  ASSUME NEW c, Typed(c), NEW k \in CpuThresholds
  PROVE  Corrected(c, CpuLimits)[k] = Clamp(c[k])
<1>1. ASSUME NEW i \in {2, 3, 4}
      PROVE  Corrected(c, CpuLimits)[CpuLimits[i].key]
               = Ruled(c, CpuLimits[i])
  <2>1. i \in 1..Len(CpuLimits)
    BY DEF CpuLimits
  <2>2. \A j \in 1..Len(CpuLimits) :
          j # i => /\ CpuLimits[j].key # CpuLimits[i].key
                   /\ CpuLimits[j].key # CpuLimits[i].by
    BY DEF CpuLimits, AtLeast, OneOf, Percent
  <2>3. CpuLimits \in Seq(Rule) /\ \A m \in 1..Len(CpuLimits) :
                                     Sound(CpuLimits[m])
    BY LimitsSettle DEF Settles
  <2> QED BY <2>1, <2>2, <2>3, CorrectedAlone
<1>2. Percent(k).key = k /\ Ruled(c, Percent(k)) = Clamp(c[k])
  BY DEF Percent, Ruled, Clamp
<1>3. /\ CpuLimits[2] = Percent("cpu_usage_warning_percent")
      /\ CpuLimits[3] = Percent("cpu_usage_critical_percent")
      /\ CpuLimits[4] = Percent("cpu_usage_recovery_percent")
  BY DEF CpuLimits
<1>4. \E i \in {2, 3, 4} : CpuLimits[i] = Percent(k)
  BY <1>3 DEF CpuThresholds
<1> QED BY <1>1, <1>2, <1>4

\* Thresholds that are numbers are numbers still when they are in order.
LEMMA OrderedNumbers ==
  ASSUME NEW c, Typed(c), CpuNumbers(c)
  PROVE  CpuNumbers(Corrected(c, CpuOrder))
<1> DEFINE d == Corrected(c, CpuOrder)
           warn == "cpu_usage_warning_percent"
           crit == "cpu_usage_critical_percent"
           rec == "cpu_usage_recovery_percent"
<1>1. /\ CpuOrder \in Seq(Rule) /\ Len(CpuOrder) = 2
      /\ CpuOrder[1] = NotBelow(crit, warn)
      /\ CpuOrder[2] = NotAbove(rec, warn)
  BY OrderSettles DEF Settles, CpuOrder, Thresholds
<1>2. /\ NotBelow(crit, warn).key = crit /\ NotBelow(crit, warn).by = warn
      /\ NotAbove(rec, warn).key = rec /\ NotAbove(rec, warn).by = warn
      /\ Ruled(c, NotBelow(crit, warn)) = Larger(c[crit], c[warn])
      /\ Ruled(c, NotAbove(rec, warn)) = Smaller(c[rec], c[warn])
  BY DEF NotBelow, NotAbove, Ruled
<1>3. Sound(NotBelow(crit, warn)) /\ Sound(NotAbove(rec, warn))
  BY SoundRules, ThresholdKeys DEF CpuThresholds
<1>4. c[warn] \in Int /\ c[crit] \in Int /\ c[rec] \in Int
  BY DEF CpuNumbers, CpuThresholds
<1>5. d[warn] = c[warn]
  <2>1. Unchanged(c, d, CpuThresholds \ {warn})
    BY OrderSettles DEF Settles
  <2>2. warn \in ConfigKeys \ (CpuThresholds \ {warn})
    BY ThresholdKeys DEF CpuThresholds
  <2> HIDE DEF d
  <2> QED BY <2>1, <2>2 DEF Unchanged
<1>6. ASSUME NEW i \in 1..2
      PROVE  d[CpuOrder[i].key] = Ruled(c, CpuOrder[i])
  <2>1. \A j \in 1..2 : j = 1 \/ j = 2
    OBVIOUS
  <2>2. \A j \in 1..Len(CpuOrder) : Sound(CpuOrder[j])
    BY <1>1, <1>3, <2>1
  <2>3. \A j \in 1..Len(CpuOrder) :
          j # i => /\ CpuOrder[j].key # CpuOrder[i].key
                   /\ CpuOrder[j].key # CpuOrder[i].by
    BY <1>1, <1>2, <2>1
  <2>4. i \in 1..Len(CpuOrder)
    BY <1>1
  <2> QED BY <1>1, <2>2, <2>3, <2>4, CorrectedAlone
<1>7. d[crit] = Larger(c[crit], c[warn]) /\ d[rec] = Smaller(c[rec], c[warn])
  <2>1. 1 \in 1..2 /\ 2 \in 1..2
    OBVIOUS
  <2> HIDE DEF d
  <2> QED BY <1>1, <1>2, <1>6, <2>1
<1> HIDE DEF d
<1>8. d[warn] \in Int /\ d[crit] \in Int /\ d[rec] \in Int
  BY <1>4, <1>5, <1>7 DEF Larger, Smaller
<1> QED BY <1>8 DEF d, CpuNumbers, CpuThresholds

\* The settings of the CPU.  To limit the thresholds to percentages keeps the
\* order they have been put in, unless one of them was nan.
LEMMA CpuFacts ==
  ASSUME NEW c, Typed(c)
  PROVE  LET d == Corrected(c, CpuRules)
         IN  /\ Typed(d) /\ Unchanged(c, d, CpuKeys)
             /\ AllSettled(d, CpuLimits)
             /\ CpuNumbers(c) => AllSettled(d, CpuOrder)
<1> DEFINE warn == "cpu_usage_warning_percent"
           crit == "cpu_usage_critical_percent"
           rec == "cpu_usage_recovery_percent"
           d == Corrected(c, CpuOrder)
           e == Corrected(d, CpuLimits)
<1>1. Corrected(c, CpuRules) = e
  <2>1. CpuOrder \in Seq(Rule) /\ CpuLimits \in Seq(Rule)
    BY OrderSettles, LimitsSettle DEF Settles
  <2> QED BY <2>1, CpuShape, RulesConcat
<1>2. /\ Typed(d) /\ AllSettled(d, CpuOrder)
      /\ Unchanged(c, d, CpuThresholds \ {warn})
  BY OrderSettles DEF Settles
<1>3. Typed(e) /\ AllSettled(e, CpuLimits) /\ Unchanged(d, e, CpuKeys)
  BY <1>2, LimitsSettle DEF Settles
<1>4. \A k \in CpuThresholds : e[k] = Clamp(d[k])
  BY <1>2, Clamped
<1>5. CpuNumbers(c) => CpuNumbers(d)
  BY OrderedNumbers
<1> HIDE DEF d, e
<1>6. Unchanged(c, e, CpuKeys)
  BY <1>2, <1>3, ThresholdKeys DEF Unchanged
<1>7. ASSUME CpuNumbers(d) PROVE AllSettled(e, CpuOrder)
  <2>1. d[warn] \in Int /\ d[crit] \in Int /\ d[rec] \in Int
    BY <1>7 DEF CpuNumbers, CpuThresholds
  <2>2. /\ Len(CpuOrder) = 2 /\ CpuOrder[1] = NotBelow(crit, warn)
        /\ CpuOrder[2] = NotAbove(rec, warn)
    BY DEF CpuOrder, Thresholds
  <2>3. Larger(d[crit], d[warn]) = d[crit] /\ Smaller(d[rec], d[warn]) = d[rec]
    <3>1. Settled(d, NotBelow(crit, warn)) /\ Settled(d, NotAbove(rec, warn))
      BY <1>2, <2>2 DEF AllSettled
    <3> QED BY <3>1 DEF Settled, Ruled, NotBelow, NotAbove
  <2>4. Larger(e[crit], e[warn]) = e[crit] /\ Smaller(e[rec], e[warn]) = e[rec]
    <3>1. /\ e[warn] = Clamp(d[warn]) /\ e[crit] = Clamp(d[crit])
          /\ e[rec] = Clamp(d[rec])
      BY <1>4 DEF CpuThresholds
    <3>2. d[warn] <= d[crit] /\ d[rec] <= d[warn]
      BY <2>1, <2>3, LessOfNumbers DEF Larger, Smaller
    <3>3. \A x, y \in Int : x <= y => /\ Clamp(x) \in Int /\ Clamp(y) \in Int
                                      /\ Clamp(x) <= Clamp(y)
      BY LessOfNumbers DEF Clamp, Larger, Smaller
    <3>4. /\ e[warn] \in Int /\ e[crit] \in Int /\ e[rec] \in Int
          /\ e[warn] <= e[crit] /\ e[rec] <= e[warn]
      BY <2>1, <3>1, <3>2, <3>3
    <3> QED BY <3>4, LessOfNumbers DEF Larger, Smaller
  <2>5. Settled(e, NotBelow(crit, warn)) /\ Settled(e, NotAbove(rec, warn))
    BY <2>4 DEF Settled, Ruled, NotBelow, NotAbove
  <2>6. \A i \in 1..2 : i = 1 \/ i = 2
    OBVIOUS
  <2> QED BY <2>2, <2>5, <2>6 DEF AllSettled
<1> QED BY <1>1, <1>3, <1>5, <1>6, <1>7

FrontKeys == SelfKeys \cup EbpfKeys
BackKeys == ProcKeys \cup UsageKeys \cup CpuKeys \cup SinkKeys
FrontRules == SelfRules \o EbpfRules
BackRules == ((ProcRules \o UsageRules) \o CpuRules) \o SinkRules

\* What the rules after those of the eBPF collector settle in any case.
BackSettled(c) ==
  /\ AllSettled(c, ProcRules) /\ AllSettled(c, UsageRules)
  /\ AllSettled(c, CpuLimits) /\ AllSettled(c, SinkRules)

\* The rules up to those of the eBPF collector.
LEMMA FrontSettles ==
  /\ Settles(FrontRules) /\ KeysOf(FrontRules) = FrontKeys
  /\ \A c : AllSettled(c, FrontRules) <=> AllSettled(c, SelfRules)
                                     /\ AllSettled(c, EbpfRules)
<1>1. SelfUses \cap EbpfKeys = {}
  BY DEF SelfUses, SelfKeys, EbpfKeys
<1>2. SelfRules \in Seq(Rule) /\ EbpfRules \in Seq(Rule)
  BY SelfSettles, EbpfSettles DEF Settles
<1> QED BY <1>1, <1>2, SelfSettles, EbpfSettles, SettlesConcat, ConcatFacts
        DEF FrontRules, FrontKeys

\* The rules after them.
LEMMA BackShape ==
  /\ BackRules \in Seq(Rule)
  /\ \A c : AllSettled(c, BackRules) <=> BackSettled(c)
                                         /\ AllSettled(c, CpuOrder)
<1> DEFINE P2 == ProcRules \o UsageRules
           P3 == P2 \o CpuRules
<1>1. /\ ProcRules \in Seq(Rule) /\ UsageRules \in Seq(Rule)
      /\ CpuRules \in Seq(Rule) /\ SinkRules \in Seq(Rule)
  BY ProcSettles, UsageSettles, CpuShape, SinkSettles DEF Settles
<1>2. /\ P2 \in Seq(Rule)
      /\ \A c : AllSettled(c, P2) <=> AllSettled(c, ProcRules)
                                      /\ AllSettled(c, UsageRules)
  BY <1>1, ConcatFacts
<1> HIDE DEF P2
<1>3. /\ P3 \in Seq(Rule)
      /\ \A c : AllSettled(c, P3) <=> AllSettled(c, P2)
                                      /\ AllSettled(c, CpuRules)
  BY <1>1, <1>2, ConcatFacts
<1>4. BackRules = P3 \o SinkRules
  BY DEF BackRules, P2
<1> HIDE DEF P3
<1>5. /\ BackRules \in Seq(Rule)
      /\ \A c : AllSettled(c, BackRules) <=> AllSettled(c, P3)
                                        /\ AllSettled(c, SinkRules)
  BY <1>1, <1>3, <1>4, ConcatFacts
<1> QED BY <1>2, <1>3, <1>5, CpuShape DEF BackSettled

\* What they establish.
LEMMA BackFacts ==
  ASSUME NEW c, Typed(c)
  PROVE  LET d == Corrected(c, BackRules)
         IN  /\ Typed(d) /\ BackSettled(d) /\ Unchanged(c, d, BackKeys)
             /\ CpuNumbers(c) => AllSettled(d, CpuOrder)
<1> DEFINE P2 == ProcRules \o UsageRules
           P3 == P2 \o CpuRules
           u == Corrected(c, P2)
           v == Corrected(u, CpuRules)
           w == Corrected(v, SinkRules)
<1>1. /\ ProcUses \cap UsageKeys = {}
      /\ (ProcUses \cup UsageUses) \cap CpuKeys = {}
      /\ (ProcUses \cup UsageUses \cup CpuKeys) \cap SinkKeys = {}
      /\ CpuThresholds \subseteq ConfigKeys \ (ProcKeys \cup UsageKeys)
  BY DEF ProcUses, ProcKeys, UsageUses, UsageKeys, CpuKeys, SinkKeys,
         CpuThresholds, ConfigKeys, Default
<1>2. /\ ProcRules \in Seq(Rule) /\ UsageRules \in Seq(Rule)
      /\ CpuRules \in Seq(Rule) /\ SinkRules \in Seq(Rule)
      /\ CpuOrder \in Seq(Rule) /\ CpuLimits \in Seq(Rule)
  BY ProcSettles, UsageSettles, CpuShape, OrderSettles, LimitsSettle,
     SinkSettles DEF Settles
<1>3. /\ Settles(P2) /\ KeysOf(P2) = ProcKeys \cup UsageKeys
      /\ UsesOf(P2) = ProcUses \cup UsageUses /\ P2 \in Seq(Rule)
      /\ \A x : AllSettled(x, P2) <=> AllSettled(x, ProcRules)
                                      /\ AllSettled(x, UsageRules)
  BY <1>1, <1>2, ProcSettles, UsageSettles, SettlesConcat, ConcatFacts
<1>4. BackRules = P3 \o SinkRules
  BY DEF BackRules
<1> HIDE DEF P2
<1>5. P3 \in Seq(Rule) /\ Corrected(c, P3) = v
  BY <1>2, <1>3, RulesConcat
<1> HIDE DEF P3
<1>6. Corrected(c, BackRules) = w
  BY <1>2, <1>4, <1>5, RulesConcat
<1>7. /\ Typed(u) /\ AllSettled(u, P2)
      /\ Unchanged(c, u, ProcKeys \cup UsageKeys)
  BY <1>3 DEF Settles
<1> HIDE DEF u
<1>8. /\ Typed(v) /\ Unchanged(u, v, CpuKeys) /\ AllSettled(v, CpuLimits)
      /\ CpuNumbers(u) => AllSettled(v, CpuOrder)
  BY <1>7, CpuFacts
<1> HIDE DEF v
<1>9. /\ Typed(w) /\ AllSettled(w, SinkRules) /\ Unchanged(v, w, SinkKeys)
  BY <1>8, SinkSettles DEF Settles
<1> HIDE DEF w
<1>10. AllSettled(v, P2)
  BY <1>1, <1>3, <1>7, <1>8, AllSettledFrame
<1>11. AllSettled(w, P2)
  <2>1. UsesOf(P2) \cap SinkKeys = {}
    BY <1>1, <1>3
  <2> QED BY <1>3, <1>9, <1>10, <2>1, AllSettledFrame
<1>12. AllSettled(w, CpuLimits)
  <2>1. UsesOf(CpuLimits) \cap SinkKeys = {}
    BY <1>1, LimitsSettle
  <2> QED BY <1>2, <1>8, <1>9, <2>1, AllSettledFrame
<1>13. ASSUME CpuNumbers(c) PROVE AllSettled(w, CpuOrder)
  <2>1. CpuNumbers(u)
    BY <1>1, <1>7, <1>13 DEF CpuNumbers, Unchanged
  <2>2. UsesOf(CpuOrder) \cap SinkKeys = {}
    BY <1>1, OrderSettles, ThresholdKeys
  <2> QED BY <1>2, <1>8, <1>9, <2>1, <2>2, AllSettledFrame
<1>14. Unchanged(c, w, BackKeys)
  BY <1>7, <1>8, <1>9 DEF Unchanged, BackKeys
<1> QED BY <1>3, <1>6, <1>9, <1>11, <1>12, <1>13, <1>14 DEF BackSettled

\* The third list is the one half and then the other.
LEMMA CorrectedThird ==
  ASSUME NEW c
  PROVE  Corrected(c, Third) = Corrected(Corrected(c, FrontRules), BackRules)
<1> DEFINE T1 == FrontRules \o ProcRules
           T2 == T1 \o UsageRules
           T3 == T2 \o CpuRules
           P2 == ProcRules \o UsageRules
           P3 == P2 \o CpuRules
           f == Corrected(c, FrontRules)
<1>1. /\ FrontRules \in Seq(Rule) /\ ProcRules \in Seq(Rule)
      /\ UsageRules \in Seq(Rule) /\ CpuRules \in Seq(Rule)
      /\ SinkRules \in Seq(Rule)
  BY FrontSettles, ProcSettles, UsageSettles, CpuShape, SinkSettles
     DEF Settles
<1>2. Third = T3 \o SinkRules /\ BackRules = P3 \o SinkRules
  BY DEF Third, FrontRules, BackRules
<1>3. /\ T1 \in Seq(Rule) /\ T2 \in Seq(Rule) /\ T3 \in Seq(Rule)
      /\ P2 \in Seq(Rule) /\ P3 \in Seq(Rule)
  BY <1>1
<1>4. Corrected(c, T1) = Corrected(f, ProcRules)
  BY <1>1, RulesConcat
<1> HIDE DEF T1
<1>5. Corrected(c, T2) = Corrected(f, P2)
  <2>1. Corrected(c, T2) = Corrected(Corrected(c, T1), UsageRules)
    BY <1>1, <1>3, RulesConcat
  <2>2. Corrected(f, P2) = Corrected(Corrected(f, ProcRules), UsageRules)
    BY <1>1, RulesConcat
  <2> QED BY <1>4, <2>1, <2>2
<1> HIDE DEF T2, P2
<1>6. Corrected(c, T3) = Corrected(f, P3)
  <2>1. Corrected(c, T3) = Corrected(Corrected(c, T2), CpuRules)
    BY <1>1, <1>3, RulesConcat
  <2>2. Corrected(f, P3) = Corrected(Corrected(f, P2), CpuRules)
    BY <1>1, <1>3, RulesConcat
  <2> QED BY <1>5, <2>1, <2>2
<1> HIDE DEF T3, P3
<1>7. Corrected(c, T3 \o SinkRules) = Corrected(Corrected(c, T3), SinkRules)
  BY <1>1, <1>3, RulesConcat
<1>8. Corrected(f, P3 \o SinkRules) = Corrected(Corrected(f, P3), SinkRules)
  BY <1>1, <1>3, RulesConcat
<1> QED BY <1>2, <1>6, <1>7, <1>8

\* Two rules need not be settled: the allowlist's refresh, as the setting that
\* it is taken from is corrected after it, and the order of the thresholds of
\* the processor.
AllowRule == EbpfRules[5]
AlmostSettled(c) ==
  /\ AllSettled(c, SelfRules) /\ BackSettled(c)
  /\ \A i \in 1..Len(EbpfRules) : i # 5 => Settled(c, EbpfRules[i])
LastSettled(c) == Settled(c, AllowRule) /\ AllSettled(c, CpuOrder)

\* A refresh of the cache that needs no correction is not changed.
LEMMA CacheKept ==
  ASSUME NEW c, Typed(c), Settled(c, ProcRules[1])
  PROVE  LET cache == "sched_proc_cache_refresh_ms"
         IN  Corrected(c, BackRules)[cache] = c[cache]
<1> DEFINE cache == "sched_proc_cache_refresh_ms"
           low == "low_freq_collect_interval_ms"
           r == ProcRules[1]
           g == Corrected(c, ProcRules)
           u == Corrected(g, UsageRules)
           v == Corrected(u, CpuRules)
           w == Corrected(v, SinkRules)
<1>1. /\ ProcRules \in Seq(Rule) /\ UsageRules \in Seq(Rule)
      /\ CpuRules \in Seq(Rule) /\ SinkRules \in Seq(Rule)
  BY ProcSettles, UsageSettles, CpuShape, SinkSettles DEF Settles
<1>2. Corrected(c, BackRules) = w
  <2>1. /\ ProcRules \o UsageRules \in Seq(Rule)
        /\ (ProcRules \o UsageRules) \o CpuRules \in Seq(Rule)
    BY <1>1
  <2> DEFINE P2 == ProcRules \o UsageRules
             P3 == P2 \o CpuRules
  <2>2. Corrected(c, P2) = u
    BY <1>1, RulesConcat
  <2>3. Corrected(c, P3) = Corrected(Corrected(c, P2), CpuRules)
    <3> HIDE DEF P2
    <3> QED BY <1>1, <2>1, RulesConcat DEF P2
  <2>4. Corrected(c, P3) = v
    BY <2>2, <2>3
  <2>5. BackRules = P3 \o SinkRules /\ P3 \in Seq(Rule)
    BY <2>1 DEF BackRules
  <2> HIDE DEF P3, v
  <2>6. Corrected(c, P3 \o SinkRules)
          = Corrected(Corrected(c, P3), SinkRules)
    BY <1>1, <2>5, RulesConcat
  <2> QED BY <2>4, <2>5, <2>6
<1>3. Typed(g) /\ Typed(u) /\ Typed(v)
  <2>1. Typed(g) /\ Typed(u)
    BY ProcSettles, UsageSettles DEF Settles
  <2> QED BY <2>1, CpuFacts
<1>4. /\ Unchanged(g, u, UsageKeys) /\ Unchanged(u, v, CpuKeys)
      /\ Unchanged(v, w, SinkKeys)
  <2>1. Unchanged(g, u, UsageKeys) /\ Unchanged(v, w, SinkKeys)
    BY <1>3, UsageSettles, SinkSettles DEF Settles
  <2> QED BY <1>3, <2>1, CpuFacts
<1>5. /\ r.key = cache /\ r.by = low /\ 1 \in 1..Len(ProcRules)
      /\ \A j \in 1..Len(ProcRules) :
           j # 1 => ProcRules[j].key # cache /\ ProcRules[j].key # low
  BY DEF ProcRules, AtLeast, NotAbove, ZeroMeans, OneOf
<1>6. /\ cache \in ConfigKeys \ UsageKeys /\ cache \in ConfigKeys \ CpuKeys
      /\ cache \in ConfigKeys \ SinkKeys
  BY DEF UsageKeys, CpuKeys, SinkKeys, ConfigKeys, Default
<1>7. g[r.key] = Ruled(c, r)
  <2>1. \A j \in 1..Len(ProcRules) :
          j # 1 => /\ ProcRules[j].key # ProcRules[1].key
                   /\ ProcRules[j].key # ProcRules[1].by
    BY <1>5
  <2>2. 1 \in 1..Len(ProcRules)
    BY <1>5
  <2>3. \A i \in 1..Len(ProcRules) : Sound(ProcRules[i])
    BY ProcSettles
  <2> QED BY <1>1, <2>1, <2>2, <2>3, CorrectedAlone
<1> HIDE DEF r, g, u, v, w
<1>8. w[cache] = g[cache]
  BY <1>4, <1>6 DEF Unchanged
<1>9. g[cache] = c[cache]
  BY <1>5, <1>7 DEF Settled, r
<1> QED BY <1>2, <1>8, <1>9

\* What the third list establishes, once and twice.
LEMMA ThirdSettles ==
  ASSUME NEW c, Typed(c)
  PROVE  LET d == Corrected(c, Third)
         IN  /\ Typed(d) /\ AlmostSettled(d)
             /\ Unchanged(c, d, FrontKeys \cup BackKeys)
             /\ CpuNumbers(c) => AllSettled(d, CpuOrder)
             /\ AlmostSettled(c) => LastSettled(d)
<1> DEFINE f == Corrected(c, FrontRules)
           d == Corrected(f, BackRules)
           cache == "sched_proc_cache_refresh_ms"
           low == "low_freq_collect_interval_ms"
           allow == "sched_ebpf_allowlist_refresh_ms"
<1>1. Corrected(c, Third) = d
  BY CorrectedThird
<1>2. /\ Typed(f) /\ AllSettled(f, SelfRules) /\ AllSettled(f, EbpfRules)
      /\ Unchanged(c, f, FrontKeys)
  BY FrontSettles DEF Settles
<1>3. /\ Typed(d) /\ BackSettled(d) /\ Unchanged(f, d, BackKeys)
      /\ CpuNumbers(f) => AllSettled(d, CpuOrder)
  BY <1>2, BackFacts
<1>4. Unchanged(c, d, FrontKeys \cup BackKeys)
  BY <1>2, <1>3 DEF Unchanged
<1>5. AllSettled(d, SelfRules)
  <2>1. SelfUses \cap BackKeys = {}
    BY DEF SelfUses, SelfKeys, BackKeys, ProcKeys, UsageKeys, CpuKeys, SinkKeys
  <2>2. SelfRules \in Seq(Rule) /\ UsesOf(SelfRules) = SelfUses
    BY SelfSettles DEF Settles
  <2> HIDE DEF f, d
  <2> QED BY <1>2, <1>3, <2>1, <2>2, AllSettledFrame
<1>6. /\ Len(EbpfRules) = 7 /\ AllowRule.key = allow /\ AllowRule.by = cache
      /\ \A i \in 1..7 : EbpfRules[i] \in Rule
      /\ \A i \in 1..7 : i # 5 => /\ EbpfRules[i].key # cache
                                  /\ EbpfRules[i].by # cache
  <2>1. /\ Len(EbpfRules) = 7 /\ AllowRule.key = allow /\ AllowRule.by = cache
        /\ \A i \in 1..7 : i # 5 => /\ EbpfRules[i].key # cache
                                    /\ EbpfRules[i].by # cache
    BY DEF AllowRule, EbpfRules, AtLeast, NotBelow, ZeroMeans
  <2>2. EbpfRules \in Seq(Rule)
    BY EbpfSettles DEF Settles
  <2>3. \A i \in 1..Len(EbpfRules) : EbpfRules[i] \in Rule
    BY <2>2
  <2> QED BY <2>1, <2>3
<1>7. EbpfUses \cap BackKeys = {cache}
  BY DEF EbpfUses, EbpfKeys, BackKeys, ProcKeys, UsageKeys, CpuKeys, SinkKeys
<1> HIDE DEF f, d
<1>8. ASSUME NEW i \in 1..7, i # 5 PROVE Settled(d, EbpfRules[i])
  <2>1. EbpfRules[i].key \in EbpfUses /\ EbpfRules[i].by \in EbpfUses
    BY <1>6, EbpfSettles DEF UsesOf, KeysOf
  <2>2. /\ EbpfRules[i].key \in ConfigKeys \ BackKeys
        /\ EbpfRules[i].by \in ConfigKeys \ BackKeys
    BY <1>6, <1>7, <1>8, <2>1 DEF Rule
  <2>3. /\ d[EbpfRules[i].key] = f[EbpfRules[i].key]
        /\ d[EbpfRules[i].by] = f[EbpfRules[i].by]
    BY <1>3, <2>2 DEF Unchanged
  <2>4. Settled(f, EbpfRules[i])
    BY <1>2, <1>6 DEF AllSettled
  <2> QED BY <2>3, <2>4, SettledFrame
<1>9. AlmostSettled(d)
  BY <1>3, <1>5, <1>6, <1>8 DEF AlmostSettled
<1>11. ASSUME CpuNumbers(c) PROVE AllSettled(d, CpuOrder)
  <2>1. CpuThresholds \subseteq ConfigKeys \ FrontKeys
    BY DEF CpuThresholds, FrontKeys, SelfKeys, EbpfKeys, ConfigKeys, Default
  <2> QED BY <1>2, <1>3, <1>11, <2>1 DEF CpuNumbers, Unchanged
<1>10. ASSUME AlmostSettled(c) PROVE Settled(d, AllowRule)
  <2> DEFINE r == ProcRules[1]
  <2>1. r.key = cache /\ r.by = low /\ 1 \in 1..Len(ProcRules)
    BY DEF ProcRules, ZeroMeans
  <2>2. Settled(c, r)
    BY <1>10, <2>1 DEF AlmostSettled, BackSettled, AllSettled
  <2>3. f[cache] = c[cache] /\ f[low] = c[low]
    <3>1. cache \in ConfigKeys \ FrontKeys /\ low \in ConfigKeys \ FrontKeys
      BY DEF FrontKeys, SelfKeys, EbpfKeys, ConfigKeys, Default
    <3> QED BY <1>2, <3>1 DEF Unchanged
  <2>4. Settled(f, r)
    BY <2>1, <2>2, <2>3, SettledFrame
  <2>5. d[cache] = f[cache]
    BY <1>2, <2>4, CacheKept DEF d
  <2>6. d[allow] = f[allow]
    <3>1. allow \in ConfigKeys \ BackKeys
      BY DEF BackKeys, ProcKeys, UsageKeys, CpuKeys, SinkKeys, ConfigKeys,
             Default
    <3> QED BY <1>3, <3>1 DEF Unchanged
  <2>7. Settled(f, AllowRule)
    BY <1>2, <1>6 DEF AllSettled, AllowRule
  <2> QED BY <1>6, <2>5, <2>6, <2>7, SettledFrame
<1>12. AlmostSettled(c) => CpuNumbers(c)
  BY LimitsBound DEF AlmostSettled, BackSettled
<1> QED BY <1>1, <1>3, <1>4, <1>9, <1>10, <1>11, <1>12 DEF LastSettled

---------------------------------------------------------------------------
(***************************************************************************)
(* validate.                                                               *)
(***************************************************************************)
LowerKeys == {"agent_log_level", "agent_log_rotation", "cpu_usage_mode"}
ThirdKeys == FrontKeys \cup BackKeys
Verdict == {"metrics_allowed_clients", "mem_available_critical_mb",
            "mem_available_warning_mb"}

\* What a configuration is after each part of validate.
Ready(c) ==
  /\ Typed(c) /\ AllSettled(c, First)
  /\ \A k \in LowerKeys : Lower[c[k]] = c[k]
  /\ c.metrics_enable => c.metrics_port # 0
Steady(c) == c.state_ttl_sec # 0 /\ AllSettled(c, Second)

\* Why validate gives up.
BadClients(c) == c.metrics_allowed_clients = "invalid"
BadMemory(c) == c.mem_available_critical_mb > c.mem_available_warning_mb
Fails(c) == BadClients(c) \/ BadMemory(c)

\* What has been validated once, and twice.
Once(c) ==
  /\ Ready(c)
  /\ ~BadClients(c) => Steady(c)
  /\ ~BadClients(c) /\ BadMemory(c) => c.memory_rule_enable = FALSE
  /\ ~Fails(c) => AlmostSettled(c)
Twice(c) == Once(c) /\ (~Fails(c) => LastSettled(c))

\* Which parts of validate look at which settings.
LEMMA KeysApart ==
  /\ Verdict \subseteq ConfigKeys /\ LowerKeys \subseteq LowerWords
  /\ LowerKeys \subseteq ConfigKeys
  /\ {"metrics_enable", "metrics_port", "state_ttl_sec", "memory_rule_enable"}
       \subseteq ConfigKeys
  /\ "metrics_enable" \in Flags /\ "memory_rule_enable" \in Flags
  /\ {"state_ttl_sec", "metrics_port", "mem_available_critical_mb",
      "mem_available_warning_mb"} \subseteq Unsigned
  /\ Verdict \cap (LowerKeys \cup FirstKeys \cup LogKeys \cup QueueKeys
                   \cup ThirdKeys) = {}
  /\ {"metrics_enable", "metrics_port", "state_ttl_sec", "memory_rule_enable"}
       \cap (LowerKeys \cup FirstKeys \cup LogKeys \cup QueueKeys
             \cup ThirdKeys) = {}
  /\ FirstKeys \cap (LowerKeys \cup LogKeys \cup QueueKeys \cup ThirdKeys) = {}
  /\ (LogKeys \cup QueueKeys) \cap ThirdKeys = {}
  /\ LowerKeys \cap (LogKeys \cup QueueKeys)
       = {"agent_log_level", "agent_log_rotation"}
  /\ LowerKeys \cap ThirdKeys = {"cpu_usage_mode"}
  /\ CpuThresholds \subseteq ConfigKeys \ (LowerKeys \cup FirstKeys
        \cup LogKeys \cup QueueKeys \cup {"metrics_enable", "state_ttl_sec"})
<1>1. /\ Verdict \subseteq ConfigKeys /\ LowerKeys \subseteq LowerWords
      /\ LowerKeys \subseteq ConfigKeys
      /\ {"metrics_enable", "metrics_port", "state_ttl_sec",
          "memory_rule_enable"} \subseteq ConfigKeys
      /\ "metrics_enable" \in Flags /\ "memory_rule_enable" \in Flags
      /\ {"state_ttl_sec", "metrics_port", "mem_available_critical_mb",
          "mem_available_warning_mb"} \subseteq Unsigned
  BY DEF Verdict, LowerKeys, LowerWords, ConfigKeys, Default, Unsigned,
         Flags, Words, Doubles
<1> USE DEF LowerKeys, FirstKeys, LogKeys, QueueKeys, ThirdKeys, FrontKeys,
            BackKeys, SelfKeys, EbpfKeys, ProcKeys, UsageKeys, CpuKeys,
            SinkKeys, Verdict
<1>2. Verdict \cap (LowerKeys \cup FirstKeys \cup LogKeys \cup QueueKeys
                    \cup ThirdKeys) = {}
  OBVIOUS
<1>3. {"metrics_enable", "metrics_port", "state_ttl_sec",
       "memory_rule_enable"}
        \cap (LowerKeys \cup FirstKeys \cup LogKeys \cup QueueKeys
              \cup ThirdKeys) = {}
  OBVIOUS
<1>4. FirstKeys \cap (LowerKeys \cup LogKeys \cup QueueKeys \cup ThirdKeys)
        = {}
  OBVIOUS
<1>5. (LogKeys \cup QueueKeys) \cap ThirdKeys = {}
  OBVIOUS
<1>6. LowerKeys \cap (LogKeys \cup QueueKeys)
        = {"agent_log_level", "agent_log_rotation"}
  OBVIOUS
<1>7. LowerKeys \cap ThirdKeys = {"cpu_usage_mode"}
  OBVIOUS
<1>8. CpuThresholds \subseteq ConfigKeys \ (LowerKeys \cup FirstKeys
        \cup LogKeys \cup QueueKeys \cup {"metrics_enable", "state_ttl_sec"})
  BY DEF CpuThresholds, ConfigKeys, Default
<1> QED BY <1>1, <1>2, <1>3, <1>4, <1>5, <1>6, <1>7, <1>8

\* A word that a rule has chosen is known, so it is in lower case.
LEMMA ChosenWord ==
  ASSUME NEW c, NEW key, NEW words, Default[key] \in words,
         words \subseteq KnownWords, Settled(c, OneOf(key, words))
  PROVE  Lower[c[key]] = c[key]
<1>1. c[key] = IF c[key] \in words THEN c[key] ELSE Default[key]
  BY DEF Settled, Ruled, OneOf
<1>2. c[key] \in words
  BY <1>1
<1> QED BY <1>2, ConfigAssumption

\* Words in lower case.
LEMMA InLowerCaseFacts ==
  ASSUME NEW c, Typed(c)
  PROVE  LET d == InLowerCase(c)
         IN  /\ Typed(d) /\ Unchanged(c, d, LowerKeys)
             /\ \A k \in LowerKeys : d[k] = Lower[c[k]]
<1> DEFINE d == InLowerCase(c)
<1>1. DOMAIN c = ConfigKeys
  BY DEF Typed
<1>2. d = [k \in ConfigKeys |-> IF k \in LowerKeys THEN Lower[c[k]] ELSE c[k]]
  BY <1>1, KeysApart DEF InLowerCase, LowerKeys
<1> HIDE DEF d
<1>3. \A k \in LowerKeys : d[k] = Lower[c[k]]
  BY <1>2, KeysApart
<1>4. Unchanged(c, d, LowerKeys)
  BY <1>2 DEF Unchanged
<1>5. \A k \in ConfigKeys : Fits(k, d[k])
  <2> SUFFICES ASSUME NEW k \in ConfigKeys PROVE Fits(k, d[k])
    OBVIOUS
  <2>1. Fits(k, c[k])
    BY DEF Typed
  <2>2. CASE k \in LowerKeys
    <3>1. /\ k \in LowerWords /\ k \notin Flags /\ k \notin Unsigned
          /\ k \notin Doubles
      BY <2>2, KeysApart, KeyKinds DEF LowerWords
    <3>2. Lower[c[k]] \in DOMAIN Lower
      BY <2>1, <3>1, ConfigAssumption DEF Fits
    <3> QED BY <1>3, <2>2, <3>1, <3>2 DEF Fits
  <2>3. CASE k \notin LowerKeys
    BY <1>4, <2>1, <2>3 DEF Unchanged
  <2> QED BY <2>2, <2>3
<1>6. d = [k \in ConfigKeys |-> d[k]]
  BY <1>2
<1> QED BY <1>3, <1>4, <1>5, <1>6 DEF Typed, d

\* Changes of settings that a list does not look at.
LEMMA SettledApart ==
  ASSUME NEW L, Settles(L), NEW c, NEW d, NEW K, Unchanged(c, d, K),
         AllSettled(c, L), UsesOf(L) \cap K = {}
  PROVE  AllSettled(d, L)
BY AllSettledFrame DEF Settles

\* What the first part of validate establishes.
LEMMA PreparedFacts ==
  ASSUME NEW c, Typed(c)
  PROVE  LET d == Prepared(c)
         IN  /\ Ready(d)
             /\ Unchanged(c, d, LowerKeys \cup FirstKeys
                                  \cup {"metrics_enable"})
<1> DEFINE a == InLowerCase(c)
           b == Corrected(a, First)
           on == "metrics_enable"
           port == "metrics_port"
           d == Prepared(c)
<1>1. /\ Typed(a) /\ Unchanged(c, a, LowerKeys)
      /\ \A k \in LowerKeys : a[k] = Lower[c[k]]
  BY InLowerCaseFacts
<1> HIDE DEF a
<1>2. Typed(b) /\ AllSettled(b, First) /\ Unchanged(a, b, FirstKeys)
  BY <1>1, FirstSettles DEF Settles
<1>3. d = [b EXCEPT ![on] = b[on] /\ b[port] # 0]
  BY DEF Prepared, a
<1> HIDE DEF b, d
<1>4. on \in ConfigKeys /\ on \in Flags /\ on \notin LowerKeys \cup FirstKeys
  BY KeysApart
<1>5. /\ Typed(d) /\ d[on] = (b[on] /\ b[port] # 0)
      /\ \A k \in ConfigKeys : k # on => d[k] = b[k]
  <2>1. DOMAIN b = ConfigKeys
    BY <1>2 DEF Typed
  <2>2. d[on] = (b[on] /\ b[port] # 0)
    BY <1>3, <1>4, <2>1
  <2>3. /\ d = [k \in ConfigKeys |-> d[k]]
        /\ \A k \in ConfigKeys : k # on => d[k] = b[k]
    BY <1>3, <2>1
  <2>4. d[on] \in BOOLEAN
    BY <2>2
  <2>5. Typed(d)
    BY <1>2, <1>4, <2>3, <2>4, SetFlag
  <2> QED BY <2>2, <2>3, <2>5
<1>6. AllSettled(d, First)
  <2>1. Unchanged(b, d, {on}) /\ UsesOf(First) \cap {on} = {}
    BY <1>4, <1>5, FirstSettles DEF Unchanged
  <2> QED BY <1>2, <2>1, FirstSettles, SettledApart
<1>7. ASSUME NEW k \in LowerKeys PROVE Lower[d[k]] = d[k]
  <2>1. k \in ConfigKeys \ FirstKeys /\ k # on /\ k \in LowerWords
    BY <1>4, KeysApart
  <2>2. d[k] = Lower[c[k]]
    BY <1>1, <1>2, <1>5, <2>1 DEF Unchanged
  <2>3. c[k] \in DOMAIN Lower
    BY <2>1 DEF Typed, Fits
  <2> QED BY <2>2, <2>3, ConfigAssumption
<1>8. d[on] => d[port] # 0
  <2>1. port \in ConfigKeys /\ port # on
    BY KeysApart
  <2> QED BY <1>5, <2>1
<1>9. Unchanged(c, d, LowerKeys \cup FirstKeys \cup {on})
  BY <1>1, <1>2, <1>5 DEF Unchanged
<1> QED BY <1>5, <1>6, <1>7, <1>8, <1>9 DEF Ready, d

\* It changes nothing the second time.
LEMMA PreparedFixed ==
  ASSUME NEW c, Ready(c)
  PROVE  Prepared(c) = c
<1>1. Typed(c) /\ c = [k \in ConfigKeys |-> c[k]] /\ DOMAIN c = ConfigKeys
  BY DEF Ready, Typed
<1>2. InLowerCase(c) = c
  <2> DEFINE d == InLowerCase(c)
  <2>1. Typed(d) /\ \A k \in ConfigKeys : d[k] = c[k]
    BY <1>1, InLowerCaseFacts DEF Ready, Unchanged
  <2>2. d = [k \in ConfigKeys |-> d[k]]
    BY <2>1 DEF Typed
  <2> HIDE DEF d
  <2>3. d = c
    BY <1>1, <2>1, <2>2
  <2> QED BY <2>3 DEF d
<1>3. Corrected(c, First) = c
  BY <1>1, FirstSettles, SettledCorrected DEF Settles, Ready
<1>4. "metrics_enable" \in ConfigKeys /\ c["metrics_enable"] \in BOOLEAN
  BY <1>1, KeysApart DEF Typed, Fits
<1>5. (c["metrics_enable"] /\ c["metrics_port"] # 0) = c["metrics_enable"]
  BY <1>4 DEF Ready
<1>6. Prepared(c) = [c EXCEPT !["metrics_enable"] = c["metrics_enable"]]
  BY <1>2, <1>3, <1>5 DEF Prepared
<1> QED BY <1>1, <1>4, <1>6

\* What the second part establishes.
LEMMA BoundedFacts ==
  ASSUME NEW c, Ready(c)
  PROVE  LET d == Bounded(c)
         IN  /\ Ready(d) /\ Steady(d)
             /\ Unchanged(c, d, LogKeys \cup QueueKeys \cup {"state_ttl_sec"})
<1> DEFINE ttl == "state_ttl_sec"
           v == IF c[ttl] = 0 THEN 3600 ELSE c[ttl]
           b == [c EXCEPT ![ttl] = v]
           K == LogKeys \cup QueueKeys
           d == Corrected(b, Second)
<1>1. ttl \in ConfigKeys /\ ttl \in Unsigned /\ ttl \notin K
  BY KeysApart
<1>2. c[ttl] \in Nat /\ v \in Nat /\ v # 0
  <2>1. c[ttl] \in Nat
    BY <1>1 DEF Ready, Typed, Fits
  <2> QED BY <2>1
<1>3. Fits(ttl, v)
  BY <1>1, <1>2, KeyKinds DEF Fits, LowerWords
<1>4. Bounded(c) = d
  BY DEF Bounded
<1> HIDE DEF v, ttl
<1>5. /\ Typed(b) /\ b[ttl] = v
      /\ \A k \in ConfigKeys : k # ttl => b[k] = c[k]
  BY <1>1, <1>3, AssignTyped DEF Ready
<1> HIDE DEF b, d
<1>6. Typed(d) /\ AllSettled(d, Second) /\ Unchanged(b, d, K)
  BY <1>5, SecondSettles DEF Settles, d
<1>7. Steady(d)
  BY <1>1, <1>2, <1>5, <1>6 DEF Steady, Unchanged, ttl
<1>8. Unchanged(c, d, K \cup {ttl})
  BY <1>5, <1>6 DEF Unchanged
<1>9. AllSettled(d, First)
  <2>1. UsesOf(First) \cap (K \cup {ttl}) = {}
    BY FirstSettles, KeysApart DEF ttl
  <2> QED BY <1>8, <2>1, FirstSettles, SettledApart DEF Ready
<1>10. ASSUME NEW k \in LowerKeys PROVE Lower[d[k]] = d[k]
  <2>1. AllSettled(d, LogRules)
    <3>1. LogRules \in Seq(Rule) /\ QueueRules \in Seq(Rule)
      BY LogSettles, QueueSettles DEF Settles
    <3> QED BY <1>6, <3>1, ConcatFacts DEF Second
  <2>2. CASE k = "agent_log_level"
    <3>1. Settled(d, OneOf(k, Levels))
      BY <2>1, <2>2 DEF AllSettled, LogRules
    <3>2. Default[k] \in Levels /\ Levels \subseteq KnownWords
      BY <2>2 DEF Default, Levels, KnownWords
    <3> QED BY <3>1, <3>2, ChosenWord
  <2>3. CASE k = "agent_log_rotation"
    <3>1. Settled(d, OneOf(k, Rotations))
      BY <2>1, <2>3 DEF AllSettled, LogRules
    <3>2. Default[k] \in Rotations /\ Rotations \subseteq KnownWords
      BY <2>3 DEF Default, Rotations, KnownWords
    <3> QED BY <3>1, <3>2, ChosenWord
  <2>4. CASE k = "cpu_usage_mode"
    <3>1. k \in ConfigKeys \ (K \cup {ttl})
      BY <2>4, KeysApart DEF ttl, LowerKeys
    <3> QED BY <1>8, <3>1 DEF Ready, Unchanged
  <2> QED BY <2>2, <2>3, <2>4 DEF LowerKeys
<1>11. d["metrics_enable"] => d["metrics_port"] # 0
  <2>1. {"metrics_enable", "metrics_port"} \subseteq ConfigKeys \ (K \cup {ttl})
    BY KeysApart DEF ttl
  <2>2. /\ d["metrics_enable"] = c["metrics_enable"]
        /\ d["metrics_port"] = c["metrics_port"]
    BY <1>8, <2>1 DEF Unchanged
  <2> QED BY <2>2 DEF Ready
<1>12. Ready(d)
  BY <1>6, <1>9, <1>10, <1>11 DEF Ready
<1> QED BY <1>4, <1>7, <1>8, <1>12 DEF ttl

\* It changes nothing the second time.
LEMMA BoundedFixed ==
  ASSUME NEW c, Ready(c), Steady(c)
  PROVE  Bounded(c) = c
<1>1. Typed(c) /\ c = [k \in ConfigKeys |-> c[k]]
  BY DEF Ready, Typed
<1>2. [c EXCEPT !["state_ttl_sec"] = c["state_ttl_sec"]] = c
  BY <1>1, KeysApart
<1>3. Bounded(c)
        = Corrected([c EXCEPT !["state_ttl_sec"] = c["state_ttl_sec"]], Second)
  BY DEF Bounded, Steady
<1>4. Corrected(c, Second) = c
  BY <1>1, SecondSettles, SettledCorrected DEF Settles, Steady
<1> QED BY <1>2, <1>3, <1>4

\* What the third part establishes.
LEMMA ThirdFacts ==
  ASSUME NEW c, Ready(c), Steady(c)
  PROVE  LET d == Corrected(c, Third)
         IN  /\ Ready(d) /\ Steady(d) /\ AlmostSettled(d)
             /\ Unchanged(c, d, ThirdKeys)
             /\ CpuNumbers(c) => AllSettled(d, CpuOrder)
             /\ AlmostSettled(c) => LastSettled(d)
<1> DEFINE d == Corrected(c, Third)
<1>1. Typed(c)
  BY DEF Ready
<1>2. /\ Typed(d) /\ AlmostSettled(d) /\ Unchanged(c, d, ThirdKeys)
      /\ CpuNumbers(c) => AllSettled(d, CpuOrder)
      /\ AlmostSettled(c) => LastSettled(d)
  BY <1>1, ThirdSettles DEF ThirdKeys
<1> HIDE DEF d
<1>3. AllSettled(d, First) /\ AllSettled(d, Second)
  <2>1. /\ UsesOf(First) \cap ThirdKeys = {}
        /\ UsesOf(Second) \cap ThirdKeys = {}
    BY FirstSettles, SecondSettles, KeysApart
  <2> QED BY <1>2, <2>1, FirstSettles, SecondSettles, SettledApart
          DEF Ready, Steady
<1>4. ASSUME NEW k \in LowerKeys PROVE Lower[d[k]] = d[k]
  <2>1. CASE k = "cpu_usage_mode"
    <3>1. AllSettled(d, CpuLimits)
      BY <1>2 DEF AlmostSettled, BackSettled
    <3>2. 1 \in 1..Len(CpuLimits) /\ CpuLimits[1] = OneOf(k, Modes)
      BY <2>1 DEF CpuLimits
    <3>3. Settled(d, OneOf(k, Modes))
      BY <3>1, <3>2 DEF AllSettled
    <3>4. Default[k] \in Modes /\ Modes \subseteq KnownWords
      BY <2>1 DEF Default, Modes, KnownWords
    <3> QED BY <3>3, <3>4, ChosenWord
  <2>2. CASE k # "cpu_usage_mode"
    <3>1. k \in ConfigKeys \ ThirdKeys
      BY <2>2, KeysApart
    <3> QED BY <1>2, <3>1 DEF Ready, Unchanged
  <2> QED BY <2>1, <2>2
<1>5. /\ d["metrics_enable"] = c["metrics_enable"]
      /\ d["metrics_port"] = c["metrics_port"]
      /\ d["state_ttl_sec"] = c["state_ttl_sec"]
  <2>1. {"metrics_enable", "metrics_port", "state_ttl_sec"}
          \subseteq ConfigKeys \ ThirdKeys
    BY KeysApart
  <2> QED BY <1>2, <2>1 DEF Unchanged
<1>6. Ready(d) /\ Steady(d)
  BY <1>2, <1>3, <1>4, <1>5 DEF Ready, Steady
<1> QED BY <1>2, <1>6 DEF d

\* It changes nothing once every rule is settled.
LEMMA ThirdFixed ==
  ASSUME NEW c, Typed(c), AlmostSettled(c), LastSettled(c)
  PROVE  Corrected(c, Third) = c
<1>1. FrontRules \in Seq(Rule) /\ BackRules \in Seq(Rule)
  BY FrontSettles, BackShape DEF Settles
<1>2. AllSettled(c, EbpfRules)
  BY DEF AlmostSettled, LastSettled, AllSettled, AllowRule
<1>3. AllSettled(c, FrontRules) /\ AllSettled(c, BackRules)
  BY <1>2, FrontSettles, BackShape DEF AlmostSettled, LastSettled
<1>4. Corrected(c, FrontRules) = c /\ Corrected(c, BackRules) = c
  BY <1>1, <1>3, SettledCorrected
<1> QED BY <1>4, CorrectedThird

\* What validate does with any configuration.
LEMMA ValidateFacts ==
  ASSUME NEW c, Typed(c)
  PROVE  LET v == validate(c)
         IN  /\ Once(v.config) /\ (v.failed \/ ~Fails(v.config))
             /\ Once(c) => Twice(v.config)
             /\ ~v.failed /\ CpuNumbers(c) => AllSettled(v.config, CpuOrder)
<1> DEFINE v == validate(c)
           d == Prepared(c)
           e == Bounded(d)
           off == "memory_rule_enable"
           f == [e EXCEPT ![off] = FALSE]
           g == Corrected(e, Third)
           Same(x, y) == \A k \in Verdict : y[k] = x[k]
<1>1. Verdict \subseteq ConfigKeys \ (LowerKeys \cup FirstKeys \cup LogKeys
        \cup QueueKeys \cup ThirdKeys \cup {"metrics_enable", "state_ttl_sec",
                                            "memory_rule_enable"})
  BY KeysApart DEF Verdict
<1>2. /\ Ready(d) /\ Same(c, d)
      /\ \A k \in CpuThresholds : d[k] = c[k]
  BY <1>1, PreparedFacts, KeysApart DEF Unchanged
<1>3. v = IF BadClients(d) THEN [config |-> d, failed |-> TRUE]
          ELSE IF BadMemory(e) THEN [config |-> f, failed |-> TRUE]
          ELSE [config |-> g, failed |-> FALSE]
  BY DEF validate, BadClients, BadMemory
<1> HIDE DEF d, v
<1>4. /\ Ready(e) /\ Steady(e) /\ Same(d, e)
      /\ \A k \in CpuThresholds : e[k] = d[k]
  BY <1>1, <1>2, BoundedFacts, KeysApart DEF Unchanged
<1> HIDE DEF e
<1>5. \A x, y : Same(x, y) => /\ BadClients(y) <=> BadClients(x)
                              /\ BadMemory(y) <=> BadMemory(x)
  BY DEF Verdict, BadClients, BadMemory
<1>6. Once(c) /\ ~BadClients(c) => e = c
  <2> SUFFICES ASSUME Once(c), ~BadClients(c) PROVE e = c
    OBVIOUS
  <2>1. d = c
    BY PreparedFixed DEF Once, d
  <2> QED BY <2>1, BoundedFixed DEF Once, e
<1>7. CASE BadClients(d)
  <2>1. v.config = d /\ v.failed = TRUE
    BY <1>3, <1>7
  <2>2. Once(d) /\ Fails(d) /\ Twice(d)
    BY <1>2, <1>7 DEF Once, Twice, Fails
  <2> QED BY <2>1, <2>2 DEF v
<1>8. CASE ~BadClients(d) /\ BadMemory(e)
  <2>1. v.config = f /\ v.failed = TRUE
    BY <1>3, <1>8
  <2>2. off \in ConfigKeys /\ off \in Flags
    BY KeysApart
  <2>3. /\ Typed(f) /\ f[off] = FALSE
        /\ \A k \in ConfigKeys : k # off => f[k] = e[k]
    <3>1. DOMAIN e = ConfigKeys
      BY <1>4 DEF Ready, Typed
    <3>2. f[off] = FALSE
      BY <2>2, <3>1
    <3>3. /\ f = [k \in ConfigKeys |-> f[k]]
          /\ \A k \in ConfigKeys : k # off => f[k] = e[k]
      BY <3>1
    <3> HIDE DEF f
    <3>4. Typed(f)
      BY <1>4, <2>2, <3>2, <3>3, SetFlag DEF Ready
    <3> QED BY <3>2, <3>3, <3>4
  <2>4. Unchanged(e, f, {off})
    BY <2>3 DEF Unchanged
  <2> HIDE DEF f
  <2>5. AllSettled(f, First) /\ AllSettled(f, Second)
    <3>1. UsesOf(First) \cap {off} = {} /\ UsesOf(Second) \cap {off} = {}
      BY FirstSettles, SecondSettles, KeysApart
    <3> QED BY <1>4, <2>4, <3>1, FirstSettles, SecondSettles, SettledApart
            DEF Ready, Steady
  <2>6. \A k \in LowerKeys \cup Verdict
                 \cup {"metrics_enable", "metrics_port", "state_ttl_sec"} :
          f[k] = e[k]
    BY <2>3, KeysApart DEF LowerKeys, Verdict
  <2>7. Ready(f) /\ Steady(f)
    BY <1>4, <2>3, <2>5, <2>6 DEF Ready, Steady
  <2>8. BadMemory(f) /\ ~BadClients(f)
    BY <1>4, <1>5, <1>8, <2>6
  <2>9. Once(f) /\ Fails(f) /\ Twice(f)
    BY <2>3, <2>7, <2>8 DEF Once, Twice, Fails
  <2> QED BY <2>1, <2>9 DEF v
<1>9. CASE ~BadClients(d) /\ ~BadMemory(e)
  <2>1. v.config = g /\ v.failed = FALSE
    BY <1>3, <1>9
  <2>2. /\ Ready(g) /\ Steady(g) /\ AlmostSettled(g)
        /\ AlmostSettled(e) => LastSettled(g)
        /\ CpuNumbers(e) => AllSettled(g, CpuOrder)
        /\ Unchanged(e, g, ThirdKeys)
    BY <1>4, ThirdFacts
  <2> HIDE DEF g
  <2>3. Same(e, g)
    BY <1>1, <2>2 DEF Unchanged
  <2>4. ~Fails(g) /\ ~Fails(c)
    BY <1>2, <1>4, <1>5, <1>9, <2>3 DEF Fails
  <2>5. Once(g)
    BY <2>2, <2>4 DEF Once, Fails
  <2>6. Once(c) => Twice(g)
    BY <1>6, <2>2, <2>4, <2>5 DEF Once, Twice, Fails
  <2>7. CpuNumbers(c) => AllSettled(g, CpuOrder)
    BY <1>2, <1>4, <2>2 DEF CpuNumbers
  <2> QED BY <2>1, <2>4, <2>5, <2>6, <2>7 DEF v
<1> QED BY <1>7, <1>8, <1>9

\* What has been validated twice is a fixed point.
LEMMA TwiceFixed ==
  ASSUME NEW c, Twice(c)
  PROVE  validate(c).config = c
<1>1. Ready(c) /\ Typed(c) /\ c = [k \in ConfigKeys |-> c[k]]
  BY DEF Twice, Once, Ready, Typed
<1>2. Prepared(c) = c
  BY <1>1, PreparedFixed
<1>3. CASE BadClients(c)
  BY <1>2, <1>3 DEF validate, BadClients
<1>4. CASE ~BadClients(c)
  <2>1. Bounded(c) = c
    BY <1>1, <1>4, BoundedFixed DEF Twice, Once
  <2>2. CASE BadMemory(c)
    <3>1. [c EXCEPT !["memory_rule_enable"] = FALSE] = c
      BY <1>1, <1>4, <2>2, KeysApart DEF Twice, Once
    <3> QED BY <1>2, <1>4, <2>1, <2>2, <3>1
            DEF validate, BadClients, BadMemory
  <2>3. CASE ~BadMemory(c)
    <3>1. Corrected(c, Third) = c
      BY <1>1, <1>4, <2>3, ThirdFixed DEF Twice, Once, Fails
    <3> QED BY <1>2, <1>4, <2>1, <2>3, <3>1
            DEF validate, BadClients, BadMemory
  <2> QED BY <2>2, <2>3
<1> QED BY <1>3, <1>4

---------------------------------------------------------------------------
(***************************************************************************)
(* A validated configuration is one the parts of the agent can rely on.    *)
(***************************************************************************)
\* What a settled rule says of numbers.
LEMMA SettledNumbers ==
  ASSUME NEW c, NEW k, NEW b, c[k] \in Int, c[b] \in Int
  PROVE  /\ Settled(c, NotBelow(k, b)) => c[k] >= c[b]
         /\ Settled(c, NotAbove(k, b)) => c[k] <= c[b]
         /\ Settled(c, Below(k, b)) => c[k] < c[b]
         /\ Settled(c, PartOf(k, b)) /\ c[b] >= 1 => c[k] \in 1..c[b]
                                                     \/ c[k] < 0
<1>1. Settled(c, NotBelow(k, b)) => c[k] >= c[b]
  BY LessOfNumbers DEF Settled, Ruled, NotBelow, Larger
<1>2. Settled(c, NotAbove(k, b)) => c[k] <= c[b]
  BY LessOfNumbers DEF Settled, Ruled, NotAbove, Smaller
<1>3. Settled(c, Below(k, b)) => c[k] < c[b]
  BY DEF Settled, Ruled, Below
<1>4. Settled(c, PartOf(k, b)) /\ c[b] >= 1
        => c[k] \in 1..c[b] \/ c[k] < 0
  BY LessOfNumbers DEF Settled, Ruled, PartOf, Smaller
<1> QED BY <1>1, <1>2, <1>3, <1>4

\* What a settled minimum says.
LEMMA SettledAtLeast ==
  ASSUME NEW c, NEW k, c[k] \in Int, NEW n \in Int, Settled(c, AtLeast(k, n))
  PROVE  c[k] >= n
BY LessOfNumbers DEF Settled, Ruled, AtLeast, Larger

\* Settled thresholds are in order.
LEMMA SettledThresholds ==
  ASSUME NEW c, NEW L, AllSettled(c, L), NEW i \in Int, NEW j \in Int,
         i \in 1..Len(L), j \in 1..Len(L), NEW w, NEW k, NEW r,
         L[i] = NotBelow(k, w), L[j] = NotAbove(r, w),
         c[w] \in Double, c[k] \in Double, c[r] \in Double
  PROVE  Ordered(c, w, k, r)
<1>1. Settled(c, NotBelow(k, w)) /\ Settled(c, NotAbove(r, w))
  BY DEF AllSettled
<1>2. Larger(c[k], c[w]) = c[k] /\ Smaller(c[r], c[w]) = c[r]
  BY <1>1 DEF Settled, Ruled, NotBelow, NotAbove
<1> QED BY <1>2 DEF Ordered, Larger, Smaller, Less, Double

\* The keys SafeConfig looks at that hold natural numbers.
Amounts == {
  "critical_reserved_slots", "event_queue_capacity", "state_ttl_sec",
  "mem_available_critical_mb", "mem_available_warning_mb",
  "mem_available_recovery_mb", "queue_warning_percent",
  "queue_critical_percent", "queue_recovery_percent",
  "self_rss_soft_limit_mb", "self_rss_hard_limit_mb", "self_rss_recovery_mb",
  "sched_wait_sum_warning_us", "sched_wait_sum_critical_us",
  "sched_wait_sum_recovery_us", "process_memory_growth_warning_mb",
  "process_memory_growth_critical_mb", "process_memory_growth_recovery_mb",
  "file_rotate_mb", "cache_max_mb", "network_wal_segment_mb",
  "network_wal_max_mb", "network_retry_base_ms", "network_retry_max_ms",
  "network_batch_size", "sched_max_targets", "io_max_targets",
  "sched_ebpf_max_events_per_poll", "sched_proc_max_scan_threads"}

\* They have the type of the members they are read from.
LEMMA SafeTypes ==
  ASSUME NEW c, Typed(c)
  PROVE  /\ \A k \in Amounts : c[k] \in Nat
         /\ \A k \in Doubles : c[k] \in Double
<1>1. Amounts \subseteq Unsigned
  BY DEF Amounts, Unsigned, ConfigKeys, Default, Flags, Words, Doubles
<1> QED BY <1>1, KeyKinds DEF Typed, Fits

\* Where no rule has anything to correct and validate does not give up, the
\* configuration is safe.
LEMMA SettledIsSafe ==
  ASSUME NEW c, Once(c), ~Fails(c), AllSettled(c, CpuOrder)
  PROVE  SafeConfig(c)
<1>1. Typed(c) /\ Steady(c) /\ AlmostSettled(c)
  BY DEF Once, Ready, Fails
<1>2. /\ \A k \in Amounts : c[k] \in Nat
      /\ \A k \in Doubles : c[k] \in Double
      /\ Nat \subseteq Double
  BY <1>1, SafeTypes DEF Double
<1>3. /\ AllSettled(c, LogRules) /\ AllSettled(c, QueueRules)
      /\ AllSettled(c, SelfRules) /\ AllSettled(c, ProcRules)
      /\ AllSettled(c, UsageRules) /\ AllSettled(c, CpuLimits)
      /\ AllSettled(c, SinkRules)
  <2>1. LogRules \in Seq(Rule) /\ QueueRules \in Seq(Rule)
    BY LogSettles, QueueSettles DEF Settles
  <2> QED BY <1>1, <2>1, ConcatFacts
          DEF Steady, Second, AlmostSettled, BackSettled
<1>4. c.critical_reserved_slots < c.event_queue_capacity
  <2>1. /\ 2 \in 1..Len(QueueRules)
        /\ QueueRules[2]
             = Below("critical_reserved_slots", "event_queue_capacity")
    BY DEF QueueRules
  <2>2. Settled(c, Below("critical_reserved_slots", "event_queue_capacity"))
    BY <1>3, <2>1 DEF AllSettled
  <2>3. /\ c["critical_reserved_slots"] \in Int
        /\ c["event_queue_capacity"] \in Int
    BY <1>2 DEF Amounts
  <2> QED BY <2>2, <2>3, SettledNumbers
<1>5. c.mem_available_critical_mb <= c.mem_available_warning_mb
  BY <1>2 DEF Fails, BadMemory, Amounts
<1>6. c.mem_available_warning_mb <= c.mem_available_recovery_mb
  <2>1. /\ 1 \in 1..Len(SelfRules)
        /\ SelfRules[1] = NotBelow("mem_available_recovery_mb",
                                   "mem_available_warning_mb")
    BY DEF SelfRules, Thresholds
  <2>2. Settled(c, NotBelow("mem_available_recovery_mb",
                            "mem_available_warning_mb"))
    BY <1>3, <2>1 DEF AllSettled
  <2>3. /\ c["mem_available_warning_mb"] \in Int
        /\ c["mem_available_recovery_mb"] \in Int
    BY <1>2 DEF Amounts
  <2> QED BY <2>2, <2>3, SettledNumbers
<1>7. Ordered(c, "queue_warning_percent", "queue_critical_percent",
              "queue_recovery_percent")
  <2>1. /\ 2 \in 1..Len(SelfRules) /\ 3 \in 1..Len(SelfRules)
        /\ SelfRules[2] = NotBelow("queue_critical_percent",
                                   "queue_warning_percent")
        /\ SelfRules[3] = NotAbove("queue_recovery_percent",
                                   "queue_warning_percent")
    BY DEF SelfRules, Thresholds
  <2>2. /\ c["queue_warning_percent"] \in Double
        /\ c["queue_critical_percent"] \in Double
        /\ c["queue_recovery_percent"] \in Double
    BY <1>2 DEF Amounts
  <2> QED BY <1>3, <2>1, <2>2, SettledThresholds
<1>8. Ordered(c, "self_rss_soft_limit_mb", "self_rss_hard_limit_mb",
              "self_rss_recovery_mb")
  <2>1. /\ 4 \in 1..Len(SelfRules) /\ 5 \in 1..Len(SelfRules)
        /\ SelfRules[4] = NotBelow("self_rss_hard_limit_mb",
                                   "self_rss_soft_limit_mb")
        /\ SelfRules[5] = NotAbove("self_rss_recovery_mb",
                                   "self_rss_soft_limit_mb")
    BY DEF SelfRules, Thresholds
  <2>2. /\ c["self_rss_soft_limit_mb"] \in Double
        /\ c["self_rss_hard_limit_mb"] \in Double
        /\ c["self_rss_recovery_mb"] \in Double
    BY <1>2 DEF Amounts
  <2> QED BY <1>3, <2>1, <2>2, SettledThresholds
<1>9. Ordered(c, "sched_wait_sum_warning_us", "sched_wait_sum_critical_us",
              "sched_wait_sum_recovery_us")
  <2>1. /\ 1 \in 1..Len(EbpfRules) /\ 5 \in 1..Len(ProcRules)
        /\ EbpfRules[1] = NotBelow("sched_wait_sum_critical_us",
                                   "sched_wait_sum_warning_us")
        /\ ProcRules[5] = NotAbove("sched_wait_sum_recovery_us",
                                   "sched_wait_sum_warning_us")
    BY DEF EbpfRules, ProcRules
  <2>2. /\ Settled(c, NotBelow("sched_wait_sum_critical_us",
                               "sched_wait_sum_warning_us"))
        /\ Settled(c, NotAbove("sched_wait_sum_recovery_us",
                               "sched_wait_sum_warning_us"))
    BY <1>1, <1>3, <2>1 DEF AllSettled, AlmostSettled
  <2>3. /\ c["sched_wait_sum_warning_us"] \in Int
        /\ c["sched_wait_sum_critical_us"] \in Int
        /\ c["sched_wait_sum_recovery_us"] \in Int
    BY <1>2 DEF Amounts
  <2> QED BY <2>2, <2>3, SettledNumbers, LessOfNumbers DEF Ordered
<1>10. Ordered(c, "process_memory_growth_warning_mb",
               "process_memory_growth_critical_mb",
               "process_memory_growth_recovery_mb")
  <2>1. /\ 1 \in 1..Len(UsageRules) /\ 2 \in 1..Len(UsageRules)
        /\ UsageRules[1] = NotBelow("process_memory_growth_critical_mb",
                                    "process_memory_growth_warning_mb")
        /\ UsageRules[2] = NotAbove("process_memory_growth_recovery_mb",
                                    "process_memory_growth_warning_mb")
    BY DEF UsageRules, Thresholds
  <2>2. /\ c["process_memory_growth_warning_mb"] \in Double
        /\ c["process_memory_growth_critical_mb"] \in Double
        /\ c["process_memory_growth_recovery_mb"] \in Double
    BY <1>2 DEF Amounts
  <2> QED BY <1>3, <2>1, <2>2, SettledThresholds
<1>11. Ordered(c, "io_await_warning_ms", "io_await_critical_ms",
               "io_await_recovery_ms")
  <2>1. /\ 4 \in 1..Len(UsageRules) /\ 5 \in 1..Len(UsageRules)
        /\ UsageRules[4] = NotBelow("io_await_critical_ms",
                                    "io_await_warning_ms")
        /\ UsageRules[5] = NotAbove("io_await_recovery_ms",
                                    "io_await_warning_ms")
    BY DEF UsageRules, Thresholds
  <2>2. /\ c["io_await_warning_ms"] \in Double
        /\ c["io_await_critical_ms"] \in Double
        /\ c["io_await_recovery_ms"] \in Double
    BY <1>2 DEF Doubles
  <2> QED BY <1>3, <2>1, <2>2, SettledThresholds
<1>12. Ordered(c, "io_util_warning_percent", "io_util_critical_percent",
               "io_util_recovery_percent")
  <2>1. /\ 6 \in 1..Len(UsageRules) /\ 7 \in 1..Len(UsageRules)
        /\ UsageRules[6] = NotBelow("io_util_critical_percent",
                                    "io_util_warning_percent")
        /\ UsageRules[7] = NotAbove("io_util_recovery_percent",
                                    "io_util_warning_percent")
    BY DEF UsageRules, Thresholds
  <2>2. /\ c["io_util_warning_percent"] \in Double
        /\ c["io_util_critical_percent"] \in Double
        /\ c["io_util_recovery_percent"] \in Double
    BY <1>2 DEF Doubles
  <2> QED BY <1>3, <2>1, <2>2, SettledThresholds
<1>13. Ordered(c, "cpu_usage_warning_percent", "cpu_usage_critical_percent",
               "cpu_usage_recovery_percent")
  <2>1. /\ 1 \in 1..Len(CpuOrder) /\ 2 \in 1..Len(CpuOrder)
        /\ CpuOrder[1] = NotBelow("cpu_usage_critical_percent",
                                  "cpu_usage_warning_percent")
        /\ CpuOrder[2] = NotAbove("cpu_usage_recovery_percent",
                                  "cpu_usage_warning_percent")
    BY DEF CpuOrder, Thresholds
  <2>2. /\ c["cpu_usage_warning_percent"] \in Double
        /\ c["cpu_usage_critical_percent"] \in Double
        /\ c["cpu_usage_recovery_percent"] \in Double
    BY <1>2 DEF Doubles
  <2> QED BY <2>1, <2>2, SettledThresholds
<1>16. \A k \in CpuThresholds : c[k] \in 0..100
  BY <1>1, <1>3, LimitsBound
<1>14. /\ c.file_rotate_mb \in 1..c.cache_max_mb
       /\ c.network_wal_segment_mb \in 1..c.network_wal_max_mb
       /\ c.network_retry_base_ms \in 1..c.network_retry_max_ms
       /\ c.network_batch_size >= 1
  <2>1. /\ Len(SinkRules) = 8
        /\ SinkRules[1] = AtLeast("cache_max_mb", 1)
        /\ SinkRules[2] = PartOf("file_rotate_mb", "cache_max_mb")
        /\ SinkRules[3] = AtLeast("network_batch_size", 1)
        /\ SinkRules[5] = AtLeast("network_retry_base_ms", 1)
        /\ SinkRules[6] = NotBelow("network_retry_max_ms",
                                   "network_retry_base_ms")
        /\ SinkRules[7] = AtLeast("network_wal_max_mb", 1)
        /\ SinkRules[8] = PartOf("network_wal_segment_mb",
                                 "network_wal_max_mb")
    BY DEF SinkRules
  <2>2. \A i \in 1..8 : Settled(c, SinkRules[i])
    BY <1>3, <2>1 DEF AllSettled
  <2>3. /\ Settled(c, AtLeast("cache_max_mb", 1))
        /\ Settled(c, PartOf("file_rotate_mb", "cache_max_mb"))
        /\ Settled(c, AtLeast("network_batch_size", 1))
        /\ Settled(c, AtLeast("network_retry_base_ms", 1))
        /\ Settled(c, NotBelow("network_retry_max_ms",
                               "network_retry_base_ms"))
        /\ Settled(c, AtLeast("network_wal_max_mb", 1))
        /\ Settled(c, PartOf("network_wal_segment_mb", "network_wal_max_mb"))
    BY <2>1, <2>2
  <2>4. /\ c.cache_max_mb \in Nat /\ c.file_rotate_mb \in Nat
        /\ c.network_batch_size \in Nat /\ c.network_retry_base_ms \in Nat
        /\ c.network_retry_max_ms \in Nat /\ c.network_wal_max_mb \in Nat
        /\ c.network_wal_segment_mb \in Nat
    BY <1>2 DEF Amounts
  <2>5. /\ c.cache_max_mb >= 1 /\ c.network_batch_size >= 1
        /\ c.network_retry_base_ms >= 1 /\ c.network_wal_max_mb >= 1
    BY <2>3, <2>4, SettledAtLeast
  <2>6. c.file_rotate_mb \in 1..c.cache_max_mb
    BY <2>3, <2>4, <2>5, SettledNumbers
  <2>7. c.network_wal_segment_mb \in 1..c.network_wal_max_mb
    BY <2>3, <2>4, <2>5, SettledNumbers
  <2>8. c.network_retry_max_ms >= c.network_retry_base_ms
    BY <2>3, <2>4, SettledNumbers
  <2> QED BY <2>4, <2>5, <2>6, <2>7, <2>8
<1>15. /\ c["io_max_targets"] >= 1 /\ c["sched_max_targets"] >= 1
       /\ c["sched_ebpf_max_events_per_poll"] >= 1
       /\ c["sched_proc_max_scan_threads"] >= 1 /\ c["state_ttl_sec"] >= 1
  <2>1. 8 \in 1..Len(UsageRules) /\ UsageRules[8] = AtLeast("io_max_targets", 1)
    BY DEF UsageRules, Thresholds
  <2>2. /\ 2 \in 1..Len(ProcRules) /\ 6 \in 1..Len(ProcRules)
        /\ ProcRules[2] = AtLeast("sched_proc_max_scan_threads", 1)
        /\ ProcRules[6] = AtLeast("sched_max_targets", 1)
        /\ 4 \in 1..Len(EbpfRules)
        /\ EbpfRules[4] = AtLeast("sched_ebpf_max_events_per_poll", 1)
    BY DEF ProcRules, EbpfRules
  <2>3. /\ Settled(c, AtLeast("io_max_targets", 1))
        /\ Settled(c, AtLeast("sched_proc_max_scan_threads", 1))
        /\ Settled(c, AtLeast("sched_max_targets", 1))
        /\ Settled(c, AtLeast("sched_ebpf_max_events_per_poll", 1))
    BY <1>1, <1>3, <2>1, <2>2 DEF AllSettled, AlmostSettled
  <2>4. /\ c["io_max_targets"] \in Nat /\ c["sched_max_targets"] \in Nat
        /\ c["sched_ebpf_max_events_per_poll"] \in Nat
        /\ c["sched_proc_max_scan_threads"] \in Nat
        /\ c["state_ttl_sec"] \in Nat
    BY <1>2 DEF Amounts
  <2>5. c["state_ttl_sec"] # 0
    BY <1>1 DEF Steady
  <2>6. /\ c["io_max_targets"] >= 1 /\ c["sched_max_targets"] >= 1
        /\ c["sched_ebpf_max_events_per_poll"] >= 1
        /\ c["sched_proc_max_scan_threads"] >= 1
    BY <2>3, <2>4, SettledAtLeast
  <2> QED BY <2>4, <2>5, <2>6
<1> QED BY <1>4, <1>5, <1>6, <1>7, <1>8, <1>9, <1>10, <1>11, <1>12, <1>13,
           <1>14, <1>15, <1>16 DEF SafeConfig

\* Whatever the file holds, a configuration that validate accepts when it is
\* called once more is safe, and so is one that it accepts the first time if
\* the thresholds of the processor were numbers: a nan among them becomes 100
\* only after they have been put in order.
THEOREM ValidatedIsSafe ==
  ASSUME NEW c, Typed(c)
  PROVE  LET v == validate(c)
             w == validate(v.config)
         IN  /\ ~w.failed => SafeConfig(w.config)
             /\ ~v.failed /\ CpuNumbers(c) => SafeConfig(v.config)
<1> DEFINE v == validate(c)
           w == validate(v.config)
<1>1. /\ Once(v.config) /\ (v.failed \/ ~Fails(v.config))
      /\ ~v.failed /\ CpuNumbers(c) => AllSettled(v.config, CpuOrder)
  BY ValidateFacts
<1>2. Typed(v.config)
  BY <1>1 DEF Once, Ready
<1> HIDE DEF v
<1>3. Twice(w.config) /\ (w.failed \/ ~Fails(w.config))
  BY <1>1, <1>2, ValidateFacts
<1> HIDE DEF w
<1>4. ~w.failed => SafeConfig(w.config)
  BY <1>3, SettledIsSafe DEF Twice, LastSettled
<1>5. ~v.failed /\ CpuNumbers(c) => SafeConfig(v.config)
  BY <1>1, SettledIsSafe
<1> QED BY <1>4, <1>5 DEF v, w

\* validate is not idempotent, but a third call changes nothing.
THEOREM ValidatedTwiceIsFixed ==
  ASSUME NEW c, Typed(c)
  PROVE  LET d == validate(validate(c).config).config
         IN  validate(d).config = d
<1> DEFINE e == validate(c).config
           d == validate(e).config
<1>1. Once(e)
  BY ValidateFacts
<1>2. Typed(e)
  BY <1>1 DEF Once, Ready
<1> HIDE DEF e
<1>3. Twice(d)
  BY <1>1, <1>2, ValidateFacts
<1> HIDE DEF d
<1>4. validate(d).config = d
  BY <1>3, TwiceFixed
<1> QED BY <1>4 DEF d, e

\* The second call leaves no refresh of 0 behind, unless the interval it is
\* taken from in the end is 0 itself: this is what the scheduler-delay
\* collectors are proved under.
THEOREM RefreshesWork ==
  ASSUME NEW c, Typed(c)
  PROVE  LET v == validate(validate(c).config)
             d == v.config
         IN  ~v.failed /\ d.low_freq_collect_interval_ms # 0 =>
               /\ d.sched_proc_cache_refresh_ms # 0
               /\ d.sched_ebpf_allowlist_refresh_ms # 0
<1> DEFINE e == validate(c).config
           v == validate(e)
           d == v.config
<1>1. Once(e)
  BY ValidateFacts
<1>2. Typed(e)
  BY <1>1 DEF Once, Ready
<1> HIDE DEF e
<1>3. Twice(d) /\ (v.failed \/ ~Fails(d))
  BY <1>1, <1>2, ValidateFacts
<1> HIDE DEF v
<1>4. ASSUME ~v.failed
      PROVE  /\ d["sched_proc_cache_refresh_ms"] = 0
                  => d["low_freq_collect_interval_ms"] = 0
             /\ d["sched_ebpf_allowlist_refresh_ms"] = 0
                  => d["sched_proc_cache_refresh_ms"] = 0
  <2>1. AlmostSettled(d) /\ Settled(d, AllowRule)
    BY <1>3, <1>4 DEF Twice, Once, LastSettled
  <2> HIDE DEF d
  <2>2. AllSettled(d, ProcRules)
    BY <2>1 DEF AlmostSettled, BackSettled
  <2>3. /\ AllowRule = ZeroMeans("sched_ebpf_allowlist_refresh_ms",
                                "sched_proc_cache_refresh_ms")
        /\ 1 \in 1..Len(ProcRules)
        /\ ProcRules[1] = ZeroMeans("sched_proc_cache_refresh_ms",
                                    "low_freq_collect_interval_ms")
    BY DEF AllowRule, EbpfRules, ProcRules
  <2>4. Settled(d, ProcRules[1])
    BY <2>2, <2>3 DEF AllSettled
  <2> QED BY <2>1, <2>3, <2>4 DEF Settled, Ruled, ZeroMeans
<1> QED BY <1>4 DEF d, v, e

---------------------------------------------------------------------------
(***************************************************************************)
(* main.                                                                   *)
(***************************************************************************)
\* The defaults have the types of the members.
LEMMA DefaultTyped == Typed(Default)
<1>1. Default = [key \in ConfigKeys |-> Default[key]]
  <2>1. Default = [key \in DOMAIN Default |-> Default[key]]
    BY DEF Default
  <2> QED BY <2>1 DEF ConfigKeys
<1>2. \A key \in Flags : Default[key] \in BOOLEAN
  <2>1. /\ Default["enable"] = TRUE /\ Default["metrics_enable"] = TRUE
        /\ Default["memory_rule_enable"] = TRUE
    BY DEF Default
  <2> QED BY <2>1 DEF Flags
<1>3. \A key \in Doubles : Default[key] \in Int
  BY DEF Doubles, Default
<1>4. \A key \in LowerWords : Default[key] \in DOMAIN Lower
  <2>1. \A key \in LowerWords : Default[key] \in KnownWords
    BY DEF LowerWords, Words, Default, KnownWords, Levels, Rotations, Modes,
           Sources
  <2> QED BY <2>1, ConfigAssumption
<1>5. \A key \in Unsigned : Default[key] \in Nat
  BY DEF Unsigned, ConfigKeys, Flags, Words, Doubles, Default
<1> QED BY <1>1, <1>2, <1>3, <1>4, <1>5 DEF Typed, Fits, Double

\* A line of the file leaves them so.
LEMMA AssignedTyped ==
  ASSUME NEW c, Typed(c), NEW key \in ConfigKeys, NEW value \in Values(key)
  PROVE  Typed(Assigned(c, key, value))
<1> DEFINE drop == /\ key \notin Words \cup Flags
                   /\ \/ key \notin Doubles /\ value < 0
                      \/ key = "metrics_port" /\ value >= 2^16
<1>1. CASE drop
  BY <1>1 DEF Assigned
<1>2. CASE ~drop
  <2>1. Assigned(c, key, value) = [c EXCEPT ![key] = value]
    BY <1>2 DEF Assigned
  <2>2. Fits(key, value)
    <3>1. CASE key \in Flags
      <4>1. value \in BOOLEAN
        BY <3>1, KeyKinds DEF Values, Words
      <4> QED BY <3>1, <4>1, KeyKinds DEF Fits, LowerWords
    <3>2. CASE key \in Words
      <4>1. key \notin Flags /\ key \notin Doubles /\ key \notin Unsigned
        BY <3>2, KeyKinds
      <4>2. key # "metrics_allowed_clients" => value \in DOMAIN Lower
        BY <3>2, <4>1, ConfigAssumption DEF Values
      <4> QED BY <4>1, <4>2 DEF Fits, LowerWords
    <3>3. CASE key \notin Flags \cup Words
      <4>1. value \in Double /\ (key \notin Doubles => value \in Int)
        <5>1. key # "metrics_allowed_clients"
          BY <3>3 DEF Words
        <5> QED BY <3>3, <5>1, ConfigAssumption DEF Values, Double
      <4>2. key \in Unsigned => value \in Nat
        BY <1>2, <3>3, <4>1, KeyKinds
      <4> QED BY <3>3, <4>1, <4>2 DEF Fits, LowerWords
    <3> QED BY <3>1, <3>2, <3>3
  <2>3. Typed([c EXCEPT ![key] = value])
    BY <2>2, AssignTyped
  <2> QED BY <2>1, <2>3
<1> QED BY <1>1, <1>2

\* A line of the file.
Line(l) ==
  \E key \in ConfigKeys : \E value \in Values(key) :
    l = [key |-> key, value |-> value]

\* The configuration has been validated once after it was loaded, and twice
\* from there on; an error that is not set is one validate did not find.
ConfigIInv ==
  /\ mpc \in {"load", "validate", "start", "running", "failed"}
  /\ Line(file[1]) /\ Line(file[2])
  /\ mpc = "validate" => Once(config)
  /\ mpc \in {"start", "running", "failed"} =>
       Twice(config) /\ (error \/ ~Fails(config))

\* The settings a line may be paired with are settings.
LEMMA PartnersAreKeys ==
  ASSUME NEW j
  PROVE  Partners(j) \subseteq ConfigKeys
<1>1. /\ First \in Seq(Rule) /\ Second \in Seq(Rule) /\ Third \in Seq(Rule)
  <2>1. First \in Seq(Rule) /\ Second \in Seq(Rule)
    BY FirstSettles, SecondSettles DEF Settles
  <2>2. /\ SelfRules \in Seq(Rule) /\ EbpfRules \in Seq(Rule)
        /\ ProcRules \in Seq(Rule) /\ UsageRules \in Seq(Rule)
        /\ CpuRules \in Seq(Rule) /\ SinkRules \in Seq(Rule)
    BY SelfSettles, EbpfSettles, ProcSettles, UsageSettles, CpuShape,
       SinkSettles DEF Settles
  <2> QED BY <2>1, <2>2 DEF Third
<1>2. \A L \in Seq(Rule) : \A r \in ToSet(L) : r \in Rule
  BY DEF ToSet
<1>3. First \o Second \o Third \in Seq(Rule)
  BY <1>1
<1>4. \A r \in ToSet(First \o Second \o Third) : r.by \in ConfigKeys
  BY <1>2, <1>3 DEF Rule
<1>5. {"metrics_allowed_clients", "metrics_port", "mem_available_critical_mb"}
        \subseteq ConfigKeys
  BY KeysApart DEF Verdict
<1> QED BY <1>4, <1>5 DEF Partners

\* The agent has not read its file.
LEMMA ConfigInitInv == ConfigInit => ConfigIInv
<1> SUFFICES ASSUME ConfigInit PROVE ConfigIInv
  OBVIOUS
<1>1. PICK j \in ConfigKeys, k \in ConfigKeys :
        \E v \in Values(j), w \in Values(k) :
          file = <<[key |-> j, value |-> v], [key |-> k, value |-> w]>>
  BY PartnersAreKeys DEF ConfigInit
<1>2. Line(file[1]) /\ Line(file[2])
  BY <1>1 DEF Line
<1> QED BY <1>2 DEF ConfigIInv, ConfigInit

\* Every step of main keeps the invariant.
LEMMA ConfigStep == ConfigIInv /\ [ConfigNext]_configVars => ConfigIInv'
<1> SUFFICES ASSUME ConfigIInv, [ConfigNext]_configVars PROVE ConfigIInv'
  OBVIOUS
<1>1. ASSUME load_or_default PROVE ConfigIInv'
  <2> DEFINE a == Assigned(Default, file[1].key, file[1].value)
             b == Assigned(a, file[2].key, file[2].value)
  <2>1. PICK j \in ConfigKeys : \E v \in Values(j) :
          file[1] = [key |-> j, value |-> v]
    BY DEF ConfigIInv, Line
  <2>2. PICK v \in Values(j) : file[1] = [key |-> j, value |-> v]
    BY <2>1
  <2>3. PICK k \in ConfigKeys : \E w \in Values(k) :
          file[2] = [key |-> k, value |-> w]
    BY DEF ConfigIInv, Line
  <2>4. PICK w \in Values(k) : file[2] = [key |-> k, value |-> w]
    BY <2>3
  <2>5. a = Assigned(Default, j, v) /\ b = Assigned(a, k, w)
    BY <2>2, <2>4
  <2> HIDE DEF a, b
  <2>6. Typed(a)
    BY <2>1, <2>2, <2>5, DefaultTyped, AssignedTyped
  <2>7. Typed(b)
    BY <2>3, <2>4, <2>5, <2>6, AssignedTyped
  <2>8. Once(validate(b).config)
    BY <2>7, ValidateFacts
  <2>9. config' = validate(b).config /\ mpc' = "validate" /\ file' = file
    BY <1>1 DEF load_or_default, a, b
  <2> QED BY <2>8, <2>9 DEF ConfigIInv
<1>2. ASSUME ValidateAgain PROVE ConfigIInv'
  <2>1. Once(config) /\ Typed(config)
    BY <1>2 DEF ConfigIInv, ValidateAgain, Once, Ready
  <2>2. Twice(validate(config).config)
        /\ (validate(config).failed \/ ~Fails(validate(config).config))
    BY <2>1, ValidateFacts
  <2> QED BY <1>2, <2>2 DEF ConfigIInv, ValidateAgain
<1>3. ASSUME StartMonitor PROVE ConfigIInv'
  BY <1>3 DEF ConfigIInv, StartMonitor
<1>4. ASSUME UNCHANGED configVars PROVE ConfigIInv'
  BY <1>4 DEF ConfigIInv, configVars
<1> QED BY <1>1, <1>2, <1>3, <1>4 DEF ConfigNext

\* The invariant holds in every state.
THEOREM ConfigIInvHolds == ConfigSpec => []ConfigIInv
BY ConfigInitInv, ConfigStep, PTL DEF ConfigSpec

\* An agent that runs without a configuration error has queues, thresholds,
\* sinks and limits its parts can rely on, whatever two lines the file holds,
\* a nan for any of the doubles included.
THEOREM AcceptedConfigCorrect == ConfigSpec => []AcceptedConfigIsSafe
<1>1. ConfigIInv => AcceptedConfigIsSafe
  BY SettledIsSafe DEF ConfigIInv, AcceptedConfigIsSafe, Twice, LastSettled
<1> QED BY <1>1, ConfigIInvHolds, PTL

\* The agent runs with a configuration that validate would leave alone: the
\* second call has settled the one rule that the first may leave open.
THEOREM FixedPointCorrect == ConfigSpec => []RunsOnFixedPoint
<1>1. ConfigIInv => RunsOnFixedPoint
  BY TwiceFixed DEF ConfigIInv, RunsOnFixedPoint
<1> QED BY <1>1, ConfigIInvHolds, PTL
=============================================================================
