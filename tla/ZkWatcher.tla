------------------------------ MODULE ZkWatcher ------------------------------
(***************************************************************************)
(* The watcher a consumer's selector reads: registry/zk/watch.go, with the *)
(* part of registry/zk/zk_client.go it runs on.  For one service,          *)
(* watchService reports the provider nodes it finds and starts a goroutine *)
(* per node (watchServiceNode) that waits for the node's deletion, and one *)
(* (watchDir) that waits for changes of the directory and reports the      *)
(* differences (handleZkNodeEvent).  They all send on one bounded channel, *)
(* which the selector reads with Next.                                     *)
(*                                                                         *)
(* ZooKeeper is external: nodes come and go; a watch is set together with  *)
(* the read it belongs to and fires once; each notification also goes to   *)
(* the session channel that handleZkEvent reads; and a client that is      *)
(* disconnected is closed for good by handleZkEvent.                       *)
(***************************************************************************)
EXTENDS Naturals, Sequences, FiniteSets, SequencesExt

CONSTANTS
  Nodes,      \* the provider nodes there may be
  EventsCap,  \* Wactch_Event_Channel_Size
  DirCap,     \* ZKCLIENT_EVENT_CHANNEL_SIZE
  MaxChanges, \* bound: how often nodes come and go
  MayEnd,     \* whether the client ends in this instance
  None        \* no path yet

ASSUME WatcherAssumption ==
  /\ EventsCap \in Nat \ {0} /\ DirCap \in Nat \ {0} /\ MaxChanges \in Nat
  /\ MayEnd \in BOOLEAN /\ IsFiniteSet(Nodes) /\ None \notin Nodes

VARIABLES
  nodes,     \* the nodes in ZooKeeper
  changes,   \* how often they have changed
  removed,   \* history: the nodes that were removed at some time
  exit,      \* zookeeperClient.exit is closed
  conn,      \* zookeeperClient.conn is not nil
  sess,      \* notifications on the session channel, not yet handled
  hz,        \* where handleZkEvent is; in "send" it holds the client's lock
  reg,       \* watchDir's channel is in eventRegistry
  evt,       \* how many notifications are in watchDir's channel
  svc,       \* where watchService is
  svcTodo,   \* the children watchService has still to report
  dubboPath, \* its variable dubboPath, which its goroutines capture
  dir,       \* where watchDir is
  base,      \* watchDir's variable children
  cw,        \* the watch on the directory: "none", "armed" or "fired"
  dirTodo,   \* what handleZkNodeEvent has still to send
  gs,        \* the goroutines that run watchServiceNode, in order of creation
  events,    \* the channel events
  reader,    \* whether the selector still calls Next
  view       \* the providers the selector knows from the events it read

zkVars     == <<nodes, changes, removed>>
clientVars == <<exit, conn, sess, hz>>
regVars    == <<reg, evt>>
svcVars    == <<svc, svcTodo, dubboPath>>
dirVars    == <<dir, base, cw, dirTodo>>
readVars   == <<reader, view>>
vars == <<nodes, changes, removed, exit, conn, sess, hz, reg, evt, svc, svcTodo,
          dubboPath, dir, base, cw, dirTodo, gs, events, reader, view>>

Event == [act : {"Add", "Del"}, url : Nodes, by : {"svc", "dir"}]

Goroutine == [url : Nodes, path : Nodes \cup {None}, by : {"svc", "dir"},
              st : {"start", "exist", "wait", "fired", "send", "done"}]
Entry == [act : {"Add", "Del"}, url : Nodes]

SetTypes ==
  /\ nodes \in SUBSET Nodes /\ removed \in SUBSET Nodes
  /\ base \in SUBSET Nodes /\ view \in SUBSET Nodes
  /\ dubboPath \in Nodes \cup {None}

FlagTypes ==
  /\ exit \in BOOLEAN /\ conn \in BOOLEAN /\ reg \in BOOLEAN
  /\ hz \in {"idle", "send", "done"} /\ svc \in {"get", "add", "done"}
  /\ dir \in {"off", "getw", "failed", "backoff", "watch", "children", "emit", "done"}
  /\ cw \in {"none", "armed", "fired"} /\ reader \in {"next", "gone"}

CountTypes == changes \in 0 .. MaxChanges /\ sess \in Nat /\ evt \in 0 .. DirCap

QueueTypes ==
  /\ svcTodo \in Seq(Nodes) /\ dirTodo \in Seq(Entry)
  /\ gs \in Seq(Goroutine)
  /\ events \in Seq(Event) /\ Len(events) <= EventsCap

\* watchDir starts when watchService is through; its channel is registered
\* exactly while it may wait for it.
Registration == /\ (dir = "off") <=> (svc # "done")
                /\ (dir = "backoff") <=> reg

TypeOK == SetTypes /\ FlagTypes /\ CountTypes /\ QueueTypes /\ Registration

Init ==
  /\ nodes \in SUBSET Nodes /\ changes = 0 /\ removed = {}
  /\ exit = FALSE /\ conn = TRUE /\ sess = 0 /\ hz = "idle"
  /\ reg = FALSE /\ evt = 0
  /\ svc = "get" /\ svcTodo = <<>> /\ dubboPath = None
  /\ dir = "off" /\ base = {} /\ cw = "none" /\ dirTodo = <<>>
  /\ gs = <<>> /\ events = <<>>
  /\ reader = "next" /\ view = {}

-----------------------------------------------------------------------------
(***************************************************************************)
(* ZooKeeper: a node comes or goes, and the watches on it fire.            *)
(***************************************************************************)
Change(n) ==
  /\ changes < MaxChanges
  /\ changes' = changes + 1
  /\ nodes' = IF n \in nodes THEN nodes \ {n} ELSE nodes \cup {n}
  /\ removed' = removed \cup (nodes \cap {n})
  /\ cw' = IF cw = "armed" /\ conn THEN "fired" ELSE cw
  /\ sess' = IF cw = "armed" /\ conn THEN sess + 1 ELSE sess
  /\ gs' = [g \in DOMAIN gs |->
              IF gs[g].st = "wait" /\ gs[g].path = n /\ n \in nodes /\ conn
              THEN [gs[g] EXCEPT !.st = "fired"] ELSE gs[g]]
  /\ UNCHANGED <<exit, conn, hz, regVars, svcVars, dir, base, dirTodo, events, readVars>>

-----------------------------------------------------------------------------
(***************************************************************************)
(* The client: handleZkEvent, stop and Close.                              *)
(***************************************************************************)
Unlocked == hz # "send"

\* handleZkEvent, a notification about the directory: with the lock held, pass
\* it on to watchDir's channel if it is registered.
HzNotify ==
  /\ hz = "idle" /\ sess > 0
  /\ sess' = sess - 1
  /\ hz' = IF reg THEN "send" ELSE "idle"
  /\ UNCHANGED <<zkVars, exit, conn, regVars, svcVars, dirVars, gs, events, readVars>>

\* *e <- struct{}{}, which blocks while the channel is full.
HzSend ==
  /\ hz = "send" /\ evt < DirCap
  /\ evt' = evt + 1
  /\ hz' = "idle"
  /\ UNCHANGED <<zkVars, exit, conn, sess, reg, svcVars, dirVars, gs, events, readVars>>

\* handleZkEvent, StateDisconnected: stop the client.
Disconnect ==
  /\ MayEnd /\ hz = "idle"
  /\ exit' = TRUE
  /\ hz' = "done"
  /\ UNCHANGED <<zkVars, conn, sess, regVars, svcVars, dirVars, gs, events, readVars>>

\* handleZkEvent, case <-z.exit.
HzExit ==
  /\ hz = "idle" /\ exit
  /\ hz' = "done"
  /\ UNCHANGED <<zkVars, exit, conn, sess, regVars, svcVars, dirVars, gs, events, readVars>>

\* zookeeperWatcher.Stop, zookeeperClient.Close: stop.
Stop ==
  /\ MayEnd /\ ~exit
  /\ exit' = TRUE
  /\ UNCHANGED <<zkVars, conn, sess, hz, regVars, svcVars, dirVars, gs, events, readVars>>

\* Close (after its wait) and handleZkEvent: the connection is closed.
CloseConn ==
  /\ exit /\ hz = "done" /\ conn
  /\ conn' = FALSE
  /\ UNCHANGED <<zkVars, exit, sess, hz, regVars, svcVars, dirVars, gs, events, readVars>>

-----------------------------------------------------------------------------
(***************************************************************************)
(* Sending on w.events, and the goroutine started for a node.              *)
(***************************************************************************)
SendEvent(act, n, by) ==
  /\ Len(events) < EventsCap
  /\ events' = Append(events, [act |-> act, url |-> n, by |-> by])

\* Mutant: the closure reads the enclosing function's variable, as watchService's does.
StartedLate(n, path, by) == [url |-> n, path |-> None, by |-> by, st |-> "start"]

Started(n, path, by) ==
  [url |-> n, path |-> path, by |-> by, st |-> IF path = None THEN "start" ELSE "exist"]

(***************************************************************************)
(* watchService.                                                           *)
(***************************************************************************)
\* getChildren fails when there are no children; the list is then nil.
SvcChildren ==
  /\ svc = "get" /\ Unlocked
  /\ \/ conn /\ \E s \in SetToSeqs(nodes) : svcTodo' = s
     \/ exit /\ svcTodo' = <<>>
  /\ svc' = "add"
  /\ UNCHANGED <<zkVars, clientVars, regVars, dubboPath, dirVars, gs, events, readVars>>

\* Report a child, and start the goroutine that watches it.  The closure reads
\* the variable dubboPath only when it runs.
SvcAdd ==
  /\ svc = "add" /\ svcTodo # <<>>
  /\ SendEvent("Add", Head(svcTodo), "svc")
  /\ dubboPath' = Head(svcTodo)
  /\ gs' = Append(gs, Started(Head(svcTodo), None, "svc"))
  /\ svcTodo' = Tail(svcTodo)
  /\ UNCHANGED <<zkVars, clientVars, regVars, svc, dirVars, readVars>>

\* The list is done: start watchDir.
SvcDone ==
  /\ svc = "add" /\ svcTodo = <<>>
  /\ svc' = "done"
  /\ dir' = "getw"
  /\ UNCHANGED <<zkVars, clientVars, regVars, svcTodo, dubboPath, base, cw, dirTodo, gs,
                 events, readVars>>

-----------------------------------------------------------------------------
(***************************************************************************)
(* watchServiceNode, and what its goroutine does when it returns true.     *)
(***************************************************************************)
SetStage(g, st) == gs' = [gs EXCEPT ![g].st = st]

NodeStart(g) ==
  /\ gs[g].st = "start"
  /\ gs' = [gs EXCEPT ![g].st = "exist", ![g].path = dubboPath]
  /\ UNCHANGED <<zkVars, clientVars, regVars, svcVars, dirVars, events, readVars>>

\* existW: an error, and the end, when the node does not exist.
NodeExistW(g) ==
  /\ gs[g].st = "exist" /\ Unlocked
  /\ \/ conn /\ SetStage(g, IF gs[g].path \in nodes THEN "wait" ELSE "done")
     \/ exit /\ SetStage(g, "done")
  /\ UNCHANGED <<zkVars, clientVars, regVars, svcVars, dirVars, events, readVars>>

\* Mutant: the goroutine does not look at client.done().
NodeDoneBlind(g) ==
  /\ gs[g].st = "fired" /\ exit
  /\ SetStage(g, "done")
  /\ UNCHANGED <<zkVars, clientVars, regVars, svcVars, dirVars, events, readVars>>

\* case <-w.client.done().
NodeDone(g) ==
  /\ gs[g].st \in {"wait", "fired"} /\ exit
  /\ SetStage(g, "done")
  /\ UNCHANGED <<zkVars, clientVars, regVars, svcVars, dirVars, events, readVars>>

\* case zkEvent = <-keyEventCh, EventNodeDeleted.
NodeDeleted(g) ==
  /\ gs[g].st = "fired"
  /\ SetStage(g, "send")
  /\ UNCHANGED <<zkVars, clientVars, regVars, svcVars, dirVars, events, readVars>>

NodeReport(g) ==
  /\ gs[g].st = "send"
  /\ SendEvent("Del", gs[g].url, gs[g].by)
  /\ SetStage(g, "done")
  /\ UNCHANGED <<zkVars, clientVars, regVars, svcVars, dirVars, readVars>>

-----------------------------------------------------------------------------
(***************************************************************************)
(* watchDir and handleZkNodeEvent.                                         *)
(***************************************************************************)
\* Mutant: the list of the last round is kept when the watch is set again.
DirGetChildrenWKeeps ==
  /\ dir = "getw" /\ Unlocked /\ conn
  /\ cw' = "armed"
  /\ dir' = IF nodes = {} THEN "failed" ELSE "watch"
  /\ base' = IF base = {} THEN nodes ELSE base
  /\ UNCHANGED <<zkVars, clientVars, regVars, svcVars, dirTodo, gs, events, readVars>>

\* getChildrenW sets a watch also when it reports an error for want of children.
DirGetChildrenW ==
  /\ dir = "getw" /\ Unlocked
  /\ \/ /\ conn
        /\ cw' = "armed"
        /\ IF nodes = {}
           THEN dir' = "failed" /\ UNCHANGED base
           ELSE dir' = "watch" /\ base' = nodes
     \/ /\ exit
        /\ dir' = "failed"
        /\ UNCHANGED <<base, cw>>
  /\ UNCHANGED <<zkVars, clientVars, regVars, svcVars, dirTodo, gs, events, readVars>>

\* Clear the event channel, register it.
DirRegister ==
  /\ dir = "failed" /\ Unlocked
  /\ dir' = "backoff"
  /\ reg' = TRUE
  /\ evt' = 0
  /\ UNCHANGED <<zkVars, clientVars, svcVars, base, cw, dirTodo, gs, events, readVars>>

\* Mutant: the channel stays registered.
DirUnregisterForgets ==
  /\ dir = "backoff" /\ Unlocked
  /\ UNCHANGED reg

\* Unregistering needs the client's lock; one step with the select before it.
DirUnregister ==
  /\ dir = "backoff" /\ Unlocked
  /\ reg' = FALSE

\* case <-time.After(...).
DirTimer ==
  /\ DirUnregister
  /\ dir' = "getw"
  /\ UNCHANGED <<zkVars, clientVars, evt, svcVars, base, cw, dirTodo, gs, events, readVars>>

\* case <-event: handleZkNodeEvent(zkPath, nil, conf).
DirNotified ==
  /\ DirUnregister /\ evt > 0
  /\ evt' = evt - 1
  /\ dir' = "children"
  /\ base' = {}
  /\ UNCHANGED <<zkVars, clientVars, svcVars, cw, dirTodo, gs, events, readVars>>

\* case <-w.client.done(), in both selects.
DirDone ==
  /\ exit
  /\ \/ DirUnregister
     \/ dir = "watch" /\ UNCHANGED reg
  /\ dir' = "done"
  /\ UNCHANGED <<zkVars, clientVars, evt, svcVars, base, cw, dirTodo, gs, events, readVars>>

\* Mutant: the test of the event's type is the wrong way round.
DirChangedSkips ==
  /\ dir = "watch" /\ cw = "fired"
  /\ dir' = "getw"
  /\ UNCHANGED <<zkVars, clientVars, regVars, svcVars, base, cw, dirTodo, gs, events,
                 readVars>>

\* case zkEvent = <-childEventCh, EventNodeChildrenChanged.
DirChanged ==
  /\ dir = "watch" /\ cw = "fired"
  /\ dir' = "children"
  /\ UNCHANGED <<zkVars, clientVars, regVars, svcVars, base, cw, dirTodo, gs, events,
                 readVars>>

Entries(act, s) == [i \in 1 .. Len(s) |-> [act |-> act, url |-> s[i]]]

\* Mutant: the loop over the old children has its test the wrong way round.
DirChildrenInverted ==
  /\ dir = "children" /\ Unlocked /\ conn /\ nodes # {}
  /\ dir' = "emit"
  /\ \E a \in SetToSeqs(nodes \ base), d \in SetToSeqs(base \cap nodes) :
       dirTodo' = Entries("Add", a) \o Entries("Del", d)
  /\ UNCHANGED <<zkVars, clientVars, regVars, svcVars, base, cw, gs, events, readVars>>

\* handleZkNodeEvent: compare the children with the old list; without children
\* getChildren fails, and it returns.
DirChildren ==
  /\ dir = "children" /\ Unlocked
  /\ \/ /\ conn /\ nodes # {}
        /\ dir' = "emit"
        /\ \E a \in SetToSeqs(nodes \ base), d \in SetToSeqs(base \ nodes) :
             dirTodo' = Entries("Add", a) \o Entries("Del", d)
     \/ /\ (conn /\ nodes = {}) \/ exit
        /\ dir' = "getw"
        /\ UNCHANGED dirTodo
  /\ UNCHANGED <<zkVars, clientVars, regVars, svcVars, base, cw, gs, events, readVars>>

\* One round of its loops; an added node gets a goroutine that watches it.
DirEmit ==
  /\ dir = "emit" /\ dirTodo # <<>>
  /\ LET e == Head(dirTodo) IN
       /\ SendEvent(e.act, e.url, "dir")
       /\ gs' = IF e.act = "Add" THEN Append(gs, Started(e.url, e.url, "dir")) ELSE gs
  /\ dirTodo' = Tail(dirTodo)
  /\ UNCHANGED <<zkVars, clientVars, regVars, svcVars, dir, base, cw, readVars>>

DirEmitted ==
  /\ dir = "emit" /\ dirTodo = <<>>
  /\ dir' = "getw"
  /\ UNCHANGED <<zkVars, clientVars, regVars, svcVars, base, cw, dirTodo, gs, events,
                 readVars>>

-----------------------------------------------------------------------------
(***************************************************************************)
(* Next, and the selector that calls it and applies what it returns.       *)
(***************************************************************************)
ReadEvent ==
  /\ reader = "next" /\ events # <<>>
  /\ events' = Tail(events)
  /\ view' = IF Head(events).act = "Add" THEN view \cup {Head(events).url}
             ELSE IF exit THEN view ELSE view \ {Head(events).url}
  /\ UNCHANGED <<zkVars, clientVars, regVars, svcVars, dirVars, gs, reader>>

ReadStopped ==
  /\ reader = "next" /\ exit
  /\ reader' = "gone"
  /\ UNCHANGED <<zkVars, clientVars, regVars, svcVars, dirVars, gs, events, view>>

-----------------------------------------------------------------------------
HzStep == HzNotify \/ HzSend \/ HzExit \/ CloseConn
SvcStep == SvcChildren \/ SvcAdd \/ SvcDone
NodeStep(g) == NodeStart(g) \/ NodeExistW(g) \/ NodeDone(g) \/ NodeDeleted(g) \/ NodeReport(g)
DirStep == \/ DirGetChildrenW \/ DirRegister \/ DirTimer \/ DirNotified \/ DirDone
           \/ DirChanged \/ DirChildren \/ DirEmit \/ DirEmitted
ReadStep == ReadEvent \/ ReadStopped

Next ==
  \/ \E n \in Nodes : Change(n)
  \/ HzStep \/ Disconnect \/ Stop
  \/ SvcStep \/ DirStep \/ ReadStep
  \/ \E g \in DOMAIN gs : NodeStep(g)

Spec == Init /\ [][Next]_vars

\* Goroutines that can run do (watchServiceNode takes finitely many steps, so
\* fairness to all of its goroutines together is fairness to each); Go's select
\* does not pass over client.done() for ever.
Fairness ==
  /\ WF_vars(HzStep) /\ WF_vars(SvcStep) /\ WF_vars(DirStep) /\ WF_vars(ReadStep)
  /\ SF_vars(DirDone)
  /\ WF_vars(\E g \in DOMAIN gs : NodeStep(g))

FairSpec == Spec /\ Fairness

-----------------------------------------------------------------------------
(***************************************************************************)
(* Properties.                                                             *)
(***************************************************************************)
\* handleZkNodeEvent: a Del sent by watchDir, or by a goroutine it started, is
\* about a node that was really removed.
DirDelTrue ==
  \A i \in 1 .. Len(events) :
    events[i].act = "Del" /\ events[i].by = "dir" => events[i].url \in removed

\* watchDir: while its watch has not fired, the list it will compare with is
\* the directory's; it never sleeps on an outdated list.
DirUpToDate == dir = "watch" /\ cw = "armed" /\ conn => base = nodes

\* watchDir, handleZkNodeEvent: a node that appears for the first time while
\* watchDir waits is reported, unless it goes away or the client ends.
NewNodeHeard ==
  \A n \in Nodes :
    (dir = "watch" /\ n \in nodes \ (base \cup removed))
      ~> (n \in view \/ n \in removed \/ exit)

\* watchServiceNode, watchDir, handleZkEvent: once the client is done no
\* goroutine waits for ZooKeeper any more; it has ended, or is stuck on a
\* channel that nobody reads.
Stuck == Len(events) = EventsCap
NoneWaits ==
  exit ~> /\ hz = "done" /\ ~conn
          /\ svc = "done" \/ Stuck
          /\ dir = "done" \/ Stuck
          /\ \A g \in DOMAIN gs : gs[g].st = "done" \/ Stuck

(***************************************************************************)
(* The inductive invariant behind DirDelTrue.                              *)
(***************************************************************************)
\* What watchDir took for the children is still there or was removed.
BaseKnown == base \subseteq nodes \cup removed

TodoTrue ==
  \A i \in 1 .. Len(dirTodo) : dirTodo[i].act = "Del" => dirTodo[i].url \in removed

\* The goroutines handleZkNodeEvent starts watch the node they report.
NodeTrue ==
  \A g \in 1 .. Len(gs) : gs[g].by = "dir" =>
    /\ gs[g].path = gs[g].url /\ gs[g].st # "start"
    /\ gs[g].st \in {"fired", "send"} => gs[g].url \in removed

DirInv == BaseKnown /\ TodoTrue /\ NodeTrue /\ DirDelTrue /\ DirUpToDate

(***************************************************************************)
(* What comments in the code say, and the code does not do.                *)
(***************************************************************************)
\* watch.go: only a delete event makes the watcher send a Del.
DelTrue ==
  \A i \in 1 .. Len(events) : events[i].act = "Del" => events[i].url \in removed
=============================================================================
