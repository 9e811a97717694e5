------------------------------- MODULE Metrics -------------------------------
(***************************************************************************)
(* The metrics of the agent: the server with its one thread                *)
(* (src/runtime/metrics_server.cpp), the registry (metric_registry.cpp)    *)
(* and what the other threads record in it (monitor_metrics.cpp,           *)
(* Monitor::publish_event and Monitor::render_metrics in monitor.cpp).     *)
(*                                                                         *)
(* Descriptors are numbers the kernel gives out again: the sinks open and  *)
(* close files and sockets all the time.  Of the registry one counter is   *)
(* kept, minilisysm_events_published_total, which events add to and every  *)
(* scrape sets, and the gauge families of record_sched_delay, which name   *)
(* threads that come and go; the other gauges are set one by one.          *)
(***************************************************************************)
EXTENDS Integers, Sequences, FiniteSets

CONSTANTS
  Fds,         \* descriptors
  Publishers,  \* the threads that publish events
  Samples,     \* threads of which the scheduler-delay collector has samples
  Families,    \* how many gauge families a pass sets, one after the other
  MaxServers,  \* bound: starts of the server
  MaxClients,  \* bound: connections
  MaxEvents,   \* bound: events
  MaxPasses    \* bound: passes of the scheduler-delay collector

\* The agent has its standard input: no descriptor it opens is 0.
ASSUME MetricsAssumption ==
  /\ Fds \subseteq Nat \ {0}
  /\ IsFiniteSet(Publishers)
  /\ Families \in Nat \ {0, 1}

VARIABLES
  busy,        \* bound: the other threads at work, chosen once
  fds,         \* what each descriptor is
  listen_fd, running,
  shut,        \* the listening socket was shut down
  backlog,     \* connections that wait to be accepted
  clients,     \* connections so far
  spc,         \* where the thread inside start or stop is
  servers,     \* starts so far
  wpc,         \* where the server thread is
  wfd,         \* its client_fd, 0 for none
  next_sequence, total, \* minilisysm_events_published_total
  ppc,         \* where each publisher is
  recorded,    \* history: events recorded
  families,    \* the samples of each gauge family, with their pass
  batch,       \* the samples of the pass that is being recorded
  passes, nextFamily,
  page,        \* the response, and what was true when it was begun
  strange      \* history: a descriptor was closed that is not the server's

server == <<listen_fd, running, shut, spc, servers>>
worker == <<wpc, wfd, page>>
events == <<busy, next_sequence, ppc, recorded>>
gauges == <<families, batch, passes, nextFamily>>
metricsVars == <<fds, server, backlog, clients, worker, total, events, gauges,
                 strange>>

NoPage == [sequence |-> 0, low |-> 0, late |-> 0, total |-> 0, high |-> 0,
           families |-> <<>>]

MetricsInit ==
  /\ busy \in {"files", "events", "gauges"}
  /\ fds = [f \in Fds |-> "free"]
  /\ listen_fd = -1 /\ running = FALSE /\ shut = FALSE
  /\ backlog = 0 /\ clients = 0 /\ spc = "idle" /\ servers = 0
  /\ wpc = "none" /\ wfd = 0 /\ page = NoPage
  /\ next_sequence = 1 /\ total = 0 /\ recorded = 0
  /\ ppc = [p \in Publishers |-> "idle"]
  /\ families = [f \in 1..Families |-> {}]
  /\ batch = {} /\ passes = 0 /\ nextFamily = 1
  /\ strange = FALSE

---------------------------------------------------------------------------
(***************************************************************************)
(* Descriptors, and the other side of the connections.                     *)
(***************************************************************************)
Free == {f \in Fds : fds[f] = "free"}

\* The kernel gives out the smallest.
Lowest == CHOOSE f \in Free : \A g \in Free : f <= g

Close(f) ==
  /\ fds' = [fds EXCEPT ![f] = "free"]
  /\ strange' = (strange \/ fds[f] = "other" \/ fds[f] = "free")

\* Another thread of the agent opens or closes a file or a connection.
OtherOpens ==
  /\ Free # {} /\ \A f \in Fds : fds[f] # "other"
  /\ fds' = [fds EXCEPT ![Lowest] = "other"]
  /\ UNCHANGED <<server, backlog, clients, worker, total, events, gauges,
                 strange>>

OtherCloses(f) ==
  /\ fds[f] = "other"
  /\ fds' = [fds EXCEPT ![f] = "free"]
  /\ UNCHANGED <<server, backlog, clients, worker, total, events, gauges,
                 strange>>

Listening == \E f \in Fds : fds[f] = "listener"

Connect ==
  /\ Listening /\ ~shut /\ clients < MaxClients
  /\ backlog' = backlog + 1 /\ clients' = clients + 1
  /\ UNCHANGED <<fds, server, worker, total, events, gauges, strange>>

\* A client goes before it is accepted.
Abort ==
  /\ backlog > 0
  /\ backlog' = backlog - 1
  /\ UNCHANGED <<fds, server, clients, worker, total, events, gauges, strange>>

---------------------------------------------------------------------------
(***************************************************************************)
(* MetricsServer::start and stop, called one after the other by Monitor    *)
(* and once more by the destructor.                                        *)
(***************************************************************************)
Start ==
  /\ spc = "idle" /\ ~running /\ servers < MaxServers /\ Free # {}
  /\ servers' = servers + 1
  /\ fds' = [fds EXCEPT ![Lowest] = "listener"]
  /\ listen_fd' = Lowest
  /\ running' = TRUE /\ shut' = FALSE
  /\ wpc' = "loop"
  /\ UNCHANGED <<backlog, clients, spc, wfd, page, total, events, gauges,
                 strange>>

\* open_listener fails after socket, and closes what it has opened.
StartFails ==
  /\ spc = "idle" /\ ~running /\ servers < MaxServers /\ Free # {}
  /\ servers' = servers + 1
  /\ fds' = [fds EXCEPT ![Lowest] = "listener"]
  /\ listen_fd' = Lowest
  /\ spc' = "shutdown" /\ shut' = FALSE
  /\ UNCHANGED <<backlog, clients, running, worker, total, events, gauges,
                 strange>>

Stop ==
  /\ spc = "idle" /\ servers > 0
  /\ running' = FALSE
  /\ spc' = "shutdown"
  /\ UNCHANGED <<fds, backlog, clients, listen_fd, shut, servers, worker,
                 total, events, gauges, strange>>

\* Mutant: the listening socket is only closed.
ShutdownMissing ==
  /\ spc = "shutdown"
  /\ spc' = IF listen_fd >= 0 THEN "close" ELSE "join"
  /\ UNCHANGED <<fds, listen_fd, running, servers, shut, backlog, clients,
                 worker, total, events, gauges, strange>>

\* It wakes a thread that waits in accept, and refuses who is in the backlog.
ShutdownListener ==
  /\ spc = "shutdown"
  /\ IF listen_fd >= 0
     THEN spc' = "close" /\ shut' = TRUE /\ backlog' = 0
     ELSE spc' = "join" /\ UNCHANGED <<shut, backlog>>
  /\ UNCHANGED <<fds, listen_fd, running, servers, clients, worker, total,
                 events, gauges, strange>>

CloseListener ==
  /\ spc = "close"
  /\ Close(listen_fd)
  /\ spc' = "forget"
  /\ UNCHANGED <<listen_fd, running, shut, servers, backlog, clients, worker,
                 total, events, gauges>>

\* Mutant: the number of the closed socket is kept.
ForgetNothing ==
  /\ spc = "forget"
  /\ spc' = "join"
  /\ UNCHANGED <<fds, listen_fd, running, shut, servers, backlog, clients,
                 worker, total, events, gauges, strange>>

ForgetListener ==
  /\ spc = "forget"
  /\ listen_fd' = -1
  /\ spc' = "join"
  /\ UNCHANGED <<fds, running, shut, servers, backlog, clients, worker, total,
                 events, gauges, strange>>

Join ==
  /\ spc = "join" /\ wpc \in {"none", "left"}
  /\ wpc' = "none"
  /\ spc' = "idle"
  /\ UNCHANGED <<fds, listen_fd, running, shut, servers, backlog, clients,
                 wfd, page, total, events, gauges, strange>>

---------------------------------------------------------------------------
(***************************************************************************)
(* MetricsServer::run and handle_client.                                   *)
(***************************************************************************)
TestRunning ==
  /\ wpc = "loop" /\ running
  /\ wpc' = "poll"
  /\ UNCHANGED <<fds, server, backlog, clients, wfd, page, total, events,
                 gauges, strange>>

\* The descriptor was read before.  A listener has input when a client waits
\* or it was shut down, and poll keeps one that is closed meanwhile; another
\* descriptor that has got its number may have some.
HasInput ==
  listen_fd >= 0 /\ fds[listen_fd] = "listener" => backlog > 0 \/ shut

\* poll returns, in time or after 200 ms, and the client may go again.
PollOnce ==
  /\ wpc = "poll"
  /\ \/ wpc' = "loop"
     \/ HasInput /\ wpc' = "accept"
  /\ UNCHANGED <<fds, server, backlog, clients, wfd, page, total, events,
                 gauges, strange>>

RunEnds ==
  /\ wpc = "loop" /\ ~running
  /\ wpc' = "left"
  /\ UNCHANGED <<fds, server, backlog, clients, wfd, page, total, events,
                 gauges, strange>>

\* listen_fd_ is read anew.  No other descriptor of the agent listens.
Accept ==
  /\ wpc = "accept"
  /\ IF listen_fd >= 0 /\ fds[listen_fd] = "listener" /\ ~shut
     THEN wpc' = "accepting" ELSE wpc' = "loop"
  /\ UNCHANGED <<fds, server, backlog, clients, wfd, page, total, events,
                 gauges, strange>>

\* Inside accept: a client is there, or the socket is shut down.
Accepted ==
  /\ wpc = "accepting"
  /\ \/ /\ backlog > 0 /\ Free # {}
        /\ backlog' = backlog - 1
        /\ fds' = [fds EXCEPT ![Lowest] = "client"]
        /\ wfd' = Lowest /\ wpc' = "client"
     \/ /\ shut
        /\ wpc' = "loop"
        /\ UNCHANGED <<fds, backlog, wfd>>
  /\ UNCHANGED <<server, clients, page, total, events, gauges, strange>>

\* A client that is not allowed, sends nothing in time, or asks for another
\* page: a response without metrics.
AnswerPlain ==
  /\ wpc = "client"
  /\ wpc' = "send"
  /\ UNCHANGED <<fds, server, backlog, clients, wfd, page, total, events,
                 gauges, strange>>

InFlight == {p \in Publishers : ppc[p] # "idle"}

\* render_metrics reads its arguments,
RenderBegins ==
  /\ wpc = "client"
  /\ page' = [NoPage EXCEPT !.sequence = next_sequence, !.low = recorded,
                            !.late = Cardinality(InFlight)]
  /\ wpc' = "set"
  /\ UNCHANGED <<fds, server, backlog, clients, wfd, total, events, gauges,
                 strange>>

\* Mutant: the sequence of the next event is taken for the number of events.
SetNext ==
  /\ wpc = "set"
  /\ total' = page.sequence
  /\ wpc' = "render"
  /\ UNCHANGED <<fds, server, backlog, clients, wfd, page, events, gauges,
                 strange>>

\* render sets the counter, under the lock of the registry,
SetTotal ==
  /\ wpc = "set"
  /\ total' = page.sequence - 1
  /\ wpc' = "render"
  /\ UNCHANGED <<fds, server, backlog, clients, wfd, page, events, gauges,
                 strange>>

\* and render_prometheus copies the registry under the same lock, later.
RenderPage ==
  /\ wpc = "render"
  /\ page' = [page EXCEPT !.total = total, !.high = next_sequence - 1,
                          !.families = families]
  /\ wpc' = "send"
  /\ UNCHANGED <<fds, server, backlog, clients, wfd, total, events, gauges,
                 strange>>

\* The response is sent, or the client does not take it.
SendAndClose ==
  /\ wpc = "send"
  /\ Close(wfd)
  /\ wfd' = 0 /\ page' = NoPage /\ wpc' = "loop"
  /\ UNCHANGED <<server, backlog, clients, total, events, gauges>>

---------------------------------------------------------------------------
(***************************************************************************)
(* The other threads.                                                      *)
(***************************************************************************)
\* publish_event: the sequence is drawn, the queue takes the event or not,
\* and record_event counts it.
Draw(p) ==
  /\ ppc[p] = "idle" /\ next_sequence <= MaxEvents
  /\ next_sequence' = next_sequence + 1
  /\ ppc' = [ppc EXCEPT ![p] = "drawn"]
  /\ UNCHANGED <<busy, fds, server, backlog, clients, worker, total, recorded,
                 gauges, strange>>

Refused(p) ==
  /\ ppc[p] = "drawn"
  /\ ppc' = [ppc EXCEPT ![p] = "idle"]
  /\ UNCHANGED <<busy, fds, server, backlog, clients, worker, total,
                 next_sequence, recorded, gauges, strange>>

record_event(p) ==
  /\ ppc[p] = "drawn"
  /\ ppc' = [ppc EXCEPT ![p] = "idle"]
  /\ total' = total + 1 /\ recorded' = recorded + 1
  /\ UNCHANGED <<busy, fds, server, backlog, clients, worker, next_sequence,
                 gauges, strange>>

\* record_sched_delay with the samples of a pass.
BeginRecording(S) ==
  /\ nextFamily = 1 /\ passes < MaxPasses
  /\ passes' = passes + 1
  /\ batch' = {[of |-> s, pass |-> passes + 1] : s \in S}
  /\ nextFamily' = 2
  /\ families' = [families EXCEPT ![1] = batch']
  /\ UNCHANGED <<fds, server, backlog, clients, worker, total, events,
                 strange>>

\* Mutant: the samples are set without the old ones being erased.
FamilySetOneByOne ==
  {m \in families[nextFamily] : \A n \in batch : n.of # m.of} \cup batch

\* set_gauge_family.
set_gauge_family == batch

RecordFamily ==
  /\ nextFamily > 1
  /\ families' = [families EXCEPT ![nextFamily] = set_gauge_family]
  /\ nextFamily' = (nextFamily % Families) + 1
  /\ UNCHANGED <<fds, server, backlog, clients, worker, total, events, batch,
                 passes, strange>>

---------------------------------------------------------------------------
ServerStep ==
  \/ Start \/ StartFails \/ Stop \/ ShutdownListener \/ CloseListener
  \/ ForgetListener \/ Join

WorkerStep ==
  \/ TestRunning \/ PollOnce \/ RunEnds \/ Accept \/ Accepted
  \/ AnswerPlain \/ RenderBegins \/ SetTotal \/ RenderPage
  \/ SendAndClose

\* The sinks, the publishers and the scheduler-delay collector have nothing
\* in common but the lock of the registry.
OtherStep ==
  \/ Connect \/ Abort
  \/ /\ busy = "files"
     /\ OtherOpens \/ \E f \in Fds : OtherCloses(f)
  \/ /\ busy = "events"
     /\ \E p \in Publishers : Draw(p) \/ Refused(p) \/ record_event(p)
  \/ /\ busy = "gauges"
     /\ RecordFamily \/ \E S \in SUBSET Samples : BeginRecording(S)

MetricsNext == ServerStep \/ WorkerStep \/ OtherStep

MetricsSpec == MetricsInit /\ [][MetricsNext]_metricsVars

---------------------------------------------------------------------------
\* MetricsServer closes only descriptors that are its own, however often it
\* is started and stopped and whoever gets the numbers in between, and after
\* a stop it has none.
ClosesOwn ==
  /\ ~strange
  /\ spc = "idle" /\ ~running =>
       \A f \in Fds : fds[f] \in {"free", "other"}

\* A stop never waits for a thread that waits for a client: if the client
\* that poll reported has gone, accept is woken by the shutdown.
StopNotStuck == spc = "join" /\ wpc = "accepting" => shut

\* A scrape counts every event that was published when it began, and no more
\* than were drawn when the page was made and those that were under way when
\* it began, which may count twice.
PublishedTotalBounds ==
  wpc = "send" /\ page # NoPage =>
    page.low <= page.total /\ page.total <= page.high + page.late

\* The samples of a family on a page are those of one pass, without the
\* threads that have gone, and a later family is at most one pass behind.
FamilyConsistent ==
  \A f, g \in DOMAIN page.families :
    \A m \in page.families[f], n \in page.families[g] :
      /\ f = g => m.pass = n.pass
      /\ f < g => m.pass - n.pass \in {0, 1}
=============================================================================
