--------------------------- MODULE ZkWatcherProofs ---------------------------
(***************************************************************************)
(* Proofs about ZkWatcher, for every finite set of nodes, every channel    *)
(* capacity and any number of changes: its types, that a Del from          *)
(* watchDir's side is about a node that was removed, and that watchDir     *)
(* never waits on an outdated list.                                        *)
(***************************************************************************)
EXTENDS ZkWatcher, FiniteSetTheorems, SequenceTheorems, TLAPS

\* The orders a range loop may take over a set of nodes are sequences of it.
LEMMA OrdersAreSequences ==
  ASSUME NEW S \in SUBSET Nodes, NEW s \in SetToSeqs(S)
  PROVE  s \in Seq(S)
<1>1. Cardinality(S) \in Nat
  BY WatcherAssumption, FS_Subset, FS_CardinalityType
<1>2. s \in [1 .. Cardinality(S) -> S]
  BY DEF SetToSeqs
<1> QED
  BY <1>1, <1>2

\* What handleZkNodeEvent queues for a list of nodes.
LEMMA EntriesFacts ==
  ASSUME NEW S \in SUBSET Nodes, NEW s \in Seq(S), NEW act \in {"Add", "Del"}
  PROVE  /\ Entries(act, s) \in Seq(Entry)
         /\ Len(Entries(act, s)) = Len(s)
         /\ \A i \in 1 .. Len(s) : /\ Entries(act, s)[i].act = act
                                   /\ Entries(act, s)[i].url \in S
<1>1. Len(s) \in Nat /\ \A i \in 1 .. Len(s) : s[i] \in S
  OBVIOUS
<1>2. Entries(act, s) \in [1 .. Len(s) -> Entry]
  BY <1>1 DEF Entries, Entry
<1> QED
  BY <1>1, <1>2 DEF Entries

Stage == {"start", "exist", "wait", "fired", "send", "done"}

\* What moving a goroutine on does to the list of goroutines.
LEMMA StageFacts ==
  ASSUME NEW q \in Seq(Goroutine), NEW g \in DOMAIN q, NEW st \in Stage
  PROVE  /\ [q EXCEPT ![g].st = st] \in Seq(Goroutine)
         /\ Len([q EXCEPT ![g].st = st]) = Len(q)
         /\ \A h \in 1 .. Len(q) :
              [q EXCEPT ![g].st = st][h] = IF h = g THEN [q[g] EXCEPT !.st = st] ELSE q[h]
<1>1. q[g] \in Goroutine /\ g \in 1 .. Len(q)
  OBVIOUS
<1>2. [q[g] EXCEPT !.st = st] \in Goroutine
  BY <1>1 DEF Goroutine, Stage
<1>3. [q EXCEPT ![g].st = st] = [q EXCEPT ![g] = [q[g] EXCEPT !.st = st]]
  OBVIOUS
<1> QED
  BY <1>1, <1>2, <1>3, ExceptSeq

\* The goroutine started for a node is one.
LEMMA StartedFacts ==
  ASSUME NEW n \in Nodes, NEW path \in Nodes \cup {None}, NEW by \in {"svc", "dir"}
  PROVE  /\ Started(n, path, by) \in Goroutine
         /\ Started(n, path, by).by = by /\ Started(n, path, by).url = n
         /\ Started(n, path, by).path = path
         /\ Started(n, path, by).st \in {"start", "exist"}
BY DEF Started, Goroutine

\* watch.go, zk_client.go: the state of the watcher is well typed, and
\* watchDir's channel is registered exactly while it waits to retry.
THEOREM TypeCorrect == Spec => []TypeOK
<1>1. Init => TypeOK
  <2> SUFFICES ASSUME Init PROVE TypeOK
    OBVIOUS
  <2>1. SetTypes
    BY DEF Init, SetTypes
  <2>2. FlagTypes /\ Registration
    BY DEF Init, FlagTypes, Registration
  <2>3. CountTypes
    BY WatcherAssumption DEF Init, CountTypes
  <2>4. QueueTypes
    BY WatcherAssumption DEF Init, QueueTypes
  <2> QED
    BY <2>1, <2>2, <2>3, <2>4 DEF TypeOK
<1>2. TypeOK /\ [Next]_vars => TypeOK'
  <2> SUFFICES ASSUME TypeOK, [Next]_vars PROVE TypeOK'
    OBVIOUS
  <2> USE WatcherAssumption DEF TypeOK, zkVars, clientVars, regVars, svcVars, dirVars, readVars
  <2>1. ASSUME NEW n \in Nodes, Change(n) PROVE TypeOK'
    <3>1. SetTypes'
      BY <2>1 DEF SetTypes, Change
    <3>2. FlagTypes'
      BY <2>1 DEF FlagTypes, Change
    <3>3. CountTypes'
      BY <2>1 DEF CountTypes, Change
    <3>4. QueueTypes'
      <4> DEFINE moved(g) == IF gs[g].st = "wait" /\ gs[g].path = n /\ n \in nodes /\ conn
                             THEN [gs[g] EXCEPT !.st = "fired"] ELSE gs[g]
      <4>1. DOMAIN gs = 1 .. Len(gs) /\ Len(gs) \in Nat
        BY DEF QueueTypes
      <4>2. \A g \in 1 .. Len(gs) : moved(g) \in Goroutine
        <5>1. \A g \in 1 .. Len(gs) : gs[g] \in Goroutine
          BY DEF QueueTypes
        <5> QED
          BY <5>1 DEF Goroutine
      <4>3. gs' = [g \in 1 .. Len(gs) |-> moved(g)]
        BY <2>1, <4>1 DEF Change
      <4>4. gs' \in Seq(Goroutine)
        <5> HIDE DEF moved
        <5> QED BY <4>1, <4>2, <4>3
      <4> QED
        BY <2>1, <4>4 DEF QueueTypes, Change
    <3>5. Registration'
      BY <2>1 DEF Registration, Change
    <3> QED
      BY <3>1, <3>2, <3>3, <3>4, <3>5
  <2>2. ASSUME HzNotify PROVE TypeOK'
    <3>1. SetTypes'
      BY <2>2 DEF SetTypes, HzNotify
    <3>2. FlagTypes'
      BY <2>2 DEF FlagTypes, HzNotify
    <3>3. CountTypes'
      BY <2>2 DEF CountTypes, HzNotify
    <3>4. QueueTypes'
      BY <2>2 DEF QueueTypes, HzNotify
    <3>5. Registration'
      BY <2>2 DEF Registration, HzNotify
    <3> QED
      BY <3>1, <3>2, <3>3, <3>4, <3>5
  <2>3. ASSUME HzSend PROVE TypeOK'
    <3>1. SetTypes'
      BY <2>3 DEF SetTypes, HzSend
    <3>2. FlagTypes'
      BY <2>3 DEF FlagTypes, HzSend
    <3>3. CountTypes'
      BY <2>3 DEF CountTypes, HzSend
    <3>4. QueueTypes'
      BY <2>3 DEF QueueTypes, HzSend
    <3>5. Registration'
      BY <2>3 DEF Registration, HzSend
    <3> QED
      BY <3>1, <3>2, <3>3, <3>4, <3>5
  <2>4. ASSUME Disconnect PROVE TypeOK'
    <3>1. SetTypes'
      BY <2>4 DEF SetTypes, Disconnect
    <3>2. FlagTypes'
      BY <2>4 DEF FlagTypes, Disconnect
    <3>3. CountTypes'
      BY <2>4 DEF CountTypes, Disconnect
    <3>4. QueueTypes'
      BY <2>4 DEF QueueTypes, Disconnect
    <3>5. Registration'
      BY <2>4 DEF Registration, Disconnect
    <3> QED
      BY <3>1, <3>2, <3>3, <3>4, <3>5
  <2>5. ASSUME HzExit PROVE TypeOK'
    <3>1. SetTypes'
      BY <2>5 DEF SetTypes, HzExit
    <3>2. FlagTypes'
      BY <2>5 DEF FlagTypes, HzExit
    <3>3. CountTypes'
      BY <2>5 DEF CountTypes, HzExit
    <3>4. QueueTypes'
      BY <2>5 DEF QueueTypes, HzExit
    <3>5. Registration'
      BY <2>5 DEF Registration, HzExit
    <3> QED
      BY <3>1, <3>2, <3>3, <3>4, <3>5
  <2>6. ASSUME Stop PROVE TypeOK'
    <3>1. SetTypes'
      BY <2>6 DEF SetTypes, Stop
    <3>2. FlagTypes'
      BY <2>6 DEF FlagTypes, Stop
    <3>3. CountTypes'
      BY <2>6 DEF CountTypes, Stop
    <3>4. QueueTypes'
      BY <2>6 DEF QueueTypes, Stop
    <3>5. Registration'
      BY <2>6 DEF Registration, Stop
    <3> QED
      BY <3>1, <3>2, <3>3, <3>4, <3>5
  <2>7. ASSUME CloseConn PROVE TypeOK'
    <3>1. SetTypes'
      BY <2>7 DEF SetTypes, CloseConn
    <3>2. FlagTypes'
      BY <2>7 DEF FlagTypes, CloseConn
    <3>3. CountTypes'
      BY <2>7 DEF CountTypes, CloseConn
    <3>4. QueueTypes'
      BY <2>7 DEF QueueTypes, CloseConn
    <3>5. Registration'
      BY <2>7 DEF Registration, CloseConn
    <3> QED
      BY <3>1, <3>2, <3>3, <3>4, <3>5
  <2>8. ASSUME SvcChildren PROVE TypeOK'
    <3>1. SetTypes'
      BY <2>8 DEF SetTypes, SvcChildren
    <3>2. FlagTypes'
      BY <2>8 DEF FlagTypes, SvcChildren
    <3>3. CountTypes'
      BY <2>8 DEF CountTypes, SvcChildren
    <3>4. QueueTypes'
      <4>1. \A s \in SetToSeqs(nodes) : s \in Seq(Nodes)
        BY OrdersAreSequences, SeqMonotonic DEF SetTypes
      <4>2. svcTodo' \in Seq(Nodes)
        <5>1. CASE svcTodo' = <<>>
          BY <5>1
        <5>2. CASE \E s \in SetToSeqs(nodes) : svcTodo' = s
          BY <4>1, <5>2
        <5> QED
          BY <2>8, <5>1, <5>2 DEF SvcChildren
      <4>3. UNCHANGED <<dirTodo, gs, events>>
        BY <2>8 DEF SvcChildren
      <4> QED
        BY <4>2, <4>3 DEF QueueTypes
    <3>5. Registration'
      BY <2>8 DEF Registration, SvcChildren
    <3> QED
      BY <3>1, <3>2, <3>3, <3>4, <3>5
  <2>9. ASSUME SvcAdd PROVE TypeOK'
    <3>1. SetTypes'
      <4>1. Head(svcTodo) \in Nodes
        BY <2>9 DEF QueueTypes, SvcAdd
      <4> QED
        BY <2>9, <4>1 DEF SetTypes, SvcAdd
    <3>2. FlagTypes'
      BY <2>9 DEF FlagTypes, SvcAdd, SendEvent, Started
    <3>3. CountTypes'
      BY <2>9 DEF CountTypes, SvcAdd, SendEvent, Started
    <3>4. QueueTypes'
      <4>1. Head(svcTodo) \in Nodes /\ Tail(svcTodo) \in Seq(Nodes)
        BY <2>9 DEF QueueTypes, SvcAdd
      <4>2. [act |-> "Add", url |-> Head(svcTodo), by |-> "svc"] \in Event
        BY <4>1 DEF Event
      <4>3. Started(Head(svcTodo), None, "svc") \in Goroutine
        BY <4>1, StartedFacts
      <4> QED
        BY <2>9, <4>1, <4>2, <4>3 DEF QueueTypes, SvcAdd, SendEvent
    <3>5. Registration'
      BY <2>9 DEF Registration, SvcAdd, SendEvent, Started
    <3> QED
      BY <3>1, <3>2, <3>3, <3>4, <3>5
  <2>10. ASSUME SvcDone PROVE TypeOK'
    <3>1. SetTypes'
      BY <2>10 DEF SetTypes, SvcDone
    <3>2. FlagTypes'
      BY <2>10 DEF FlagTypes, SvcDone
    <3>3. CountTypes'
      BY <2>10 DEF CountTypes, SvcDone
    <3>4. QueueTypes'
      BY <2>10 DEF QueueTypes, SvcDone
    <3>5. Registration'
      BY <2>10 DEF Registration, SvcDone
    <3> QED
      BY <3>1, <3>2, <3>3, <3>4, <3>5
  <2>11. ASSUME NEW g \in DOMAIN gs, NodeStart(g) PROVE TypeOK'
    <3>1. SetTypes'
      BY <2>11 DEF SetTypes, NodeStart
    <3>2. FlagTypes'
      BY <2>11 DEF FlagTypes, NodeStart
    <3>3. CountTypes'
      BY <2>11 DEF CountTypes, NodeStart
    <3>4. QueueTypes'
      <4>1. gs[g] \in Goroutine /\ g \in 1 .. Len(gs)
        BY <2>11 DEF QueueTypes
      <4>2. [gs[g] EXCEPT !.st = "exist", !.path = dubboPath] \in Goroutine
        BY <4>1 DEF Goroutine, SetTypes
      <4>3. gs' = [gs EXCEPT ![g] = [gs[g] EXCEPT !.st = "exist", !.path = dubboPath]]
        BY <2>11, <4>1 DEF NodeStart, QueueTypes, Goroutine
      <4>4. gs' \in Seq(Goroutine)
        BY <4>1, <4>2, <4>3, ExceptSeq DEF QueueTypes
      <4> QED
        BY <2>11, <4>4 DEF QueueTypes, NodeStart
    <3>5. Registration'
      BY <2>11 DEF Registration, NodeStart
    <3> QED
      BY <3>1, <3>2, <3>3, <3>4, <3>5
  <2>12. ASSUME NEW g \in DOMAIN gs, NodeExistW(g) PROVE TypeOK'
    <3>1. SetTypes'
      BY <2>12 DEF SetTypes, NodeExistW, SetStage
    <3>2. FlagTypes'
      BY <2>12 DEF FlagTypes, NodeExistW, SetStage
    <3>3. CountTypes'
      BY <2>12 DEF CountTypes, NodeExistW, SetStage
    <3>4. QueueTypes'
      BY <2>12, StageFacts DEF QueueTypes, NodeExistW, SetStage, Stage
    <3>5. Registration'
      BY <2>12 DEF Registration, NodeExistW, SetStage
    <3> QED
      BY <3>1, <3>2, <3>3, <3>4, <3>5
  <2>13. ASSUME NEW g \in DOMAIN gs, NodeDone(g) PROVE TypeOK'
    <3>1. SetTypes'
      BY <2>13 DEF SetTypes, NodeDone, SetStage
    <3>2. FlagTypes'
      BY <2>13 DEF FlagTypes, NodeDone, SetStage
    <3>3. CountTypes'
      BY <2>13 DEF CountTypes, NodeDone, SetStage
    <3>4. QueueTypes'
      BY <2>13, StageFacts DEF QueueTypes, NodeDone, SetStage, Stage
    <3>5. Registration'
      BY <2>13 DEF Registration, NodeDone, SetStage
    <3> QED
      BY <3>1, <3>2, <3>3, <3>4, <3>5
  <2>14. ASSUME NEW g \in DOMAIN gs, NodeDeleted(g) PROVE TypeOK'
    <3>1. SetTypes'
      BY <2>14 DEF SetTypes, NodeDeleted, SetStage
    <3>2. FlagTypes'
      BY <2>14 DEF FlagTypes, NodeDeleted, SetStage
    <3>3. CountTypes'
      BY <2>14 DEF CountTypes, NodeDeleted, SetStage
    <3>4. QueueTypes'
      BY <2>14, StageFacts DEF QueueTypes, NodeDeleted, SetStage, Stage
    <3>5. Registration'
      BY <2>14 DEF Registration, NodeDeleted, SetStage
    <3> QED
      BY <3>1, <3>2, <3>3, <3>4, <3>5
  <2>15. ASSUME NEW g \in DOMAIN gs, NodeReport(g) PROVE TypeOK'
    <3>1. SetTypes'
      BY <2>15 DEF SetTypes, NodeReport, SetStage, SendEvent
    <3>2. FlagTypes'
      BY <2>15 DEF FlagTypes, NodeReport, SetStage, SendEvent
    <3>3. CountTypes'
      BY <2>15 DEF CountTypes, NodeReport, SetStage, SendEvent
    <3>4. QueueTypes'
      <4>1. gs[g] \in Goroutine
        BY DEF QueueTypes
      <4>2. [act |-> "Del", url |-> gs[g].url, by |-> gs[g].by] \in Event
        BY <4>1 DEF Goroutine, Event
      <4>3. gs' \in Seq(Goroutine)
        BY <2>15, StageFacts DEF QueueTypes, NodeReport, SetStage, Stage
      <4> QED
        BY <2>15, <4>2, <4>3 DEF QueueTypes, NodeReport, SendEvent
    <3>5. Registration'
      BY <2>15 DEF Registration, NodeReport, SetStage, SendEvent
    <3> QED
      BY <3>1, <3>2, <3>3, <3>4, <3>5
  <2>16. ASSUME DirGetChildrenW PROVE TypeOK'
    <3>1. SetTypes'
      BY <2>16 DEF SetTypes, DirGetChildrenW
    <3>2. FlagTypes'
      BY <2>16 DEF FlagTypes, DirGetChildrenW
    <3>3. CountTypes'
      BY <2>16 DEF CountTypes, DirGetChildrenW
    <3>4. QueueTypes'
      BY <2>16 DEF QueueTypes, DirGetChildrenW
    <3>5. Registration'
      BY <2>16 DEF Registration, DirGetChildrenW
    <3> QED
      BY <3>1, <3>2, <3>3, <3>4, <3>5
  <2>17. ASSUME DirRegister PROVE TypeOK'
    <3>1. SetTypes'
      BY <2>17 DEF SetTypes, DirRegister
    <3>2. FlagTypes'
      BY <2>17 DEF FlagTypes, DirRegister
    <3>3. CountTypes'
      BY <2>17 DEF CountTypes, DirRegister
    <3>4. QueueTypes'
      BY <2>17 DEF QueueTypes, DirRegister
    <3>5. Registration'
      BY <2>17 DEF Registration, DirRegister
    <3> QED
      BY <3>1, <3>2, <3>3, <3>4, <3>5
  <2>18. ASSUME DirTimer PROVE TypeOK'
    <3>1. SetTypes'
      BY <2>18 DEF SetTypes, DirTimer, DirUnregister
    <3>2. FlagTypes'
      BY <2>18 DEF FlagTypes, DirTimer, DirUnregister
    <3>3. CountTypes'
      BY <2>18 DEF CountTypes, DirTimer, DirUnregister
    <3>4. QueueTypes'
      BY <2>18 DEF QueueTypes, DirTimer, DirUnregister
    <3>5. Registration'
      BY <2>18 DEF Registration, DirTimer, DirUnregister
    <3> QED
      BY <3>1, <3>2, <3>3, <3>4, <3>5
  <2>19. ASSUME DirNotified PROVE TypeOK'
    <3>1. SetTypes'
      BY <2>19 DEF SetTypes, DirNotified, DirUnregister
    <3>2. FlagTypes'
      BY <2>19 DEF FlagTypes, DirNotified, DirUnregister
    <3>3. CountTypes'
      BY <2>19 DEF CountTypes, DirNotified, DirUnregister
    <3>4. QueueTypes'
      BY <2>19 DEF QueueTypes, DirNotified, DirUnregister
    <3>5. Registration'
      BY <2>19 DEF Registration, DirNotified, DirUnregister
    <3> QED
      BY <3>1, <3>2, <3>3, <3>4, <3>5
  <2>20. ASSUME DirDone PROVE TypeOK'
    <3>1. SetTypes'
      BY <2>20 DEF SetTypes, DirDone, DirUnregister
    <3>2. FlagTypes'
      BY <2>20 DEF FlagTypes, DirDone, DirUnregister
    <3>3. CountTypes'
      BY <2>20 DEF CountTypes, DirDone, DirUnregister
    <3>4. QueueTypes'
      BY <2>20 DEF QueueTypes, DirDone, DirUnregister
    <3>5. Registration'
      BY <2>20 DEF Registration, DirDone, DirUnregister
    <3> QED
      BY <3>1, <3>2, <3>3, <3>4, <3>5
  <2>21. ASSUME DirChanged PROVE TypeOK'
    <3>1. SetTypes'
      BY <2>21 DEF SetTypes, DirChanged
    <3>2. FlagTypes'
      BY <2>21 DEF FlagTypes, DirChanged
    <3>3. CountTypes'
      BY <2>21 DEF CountTypes, DirChanged
    <3>4. QueueTypes'
      BY <2>21 DEF QueueTypes, DirChanged
    <3>5. Registration'
      BY <2>21 DEF Registration, DirChanged
    <3> QED
      BY <3>1, <3>2, <3>3, <3>4, <3>5
  <2>22. ASSUME DirChildren PROVE TypeOK'
    <3>1. SetTypes'
      BY <2>22 DEF SetTypes, DirChildren
    <3>2. FlagTypes'
      BY <2>22 DEF FlagTypes, DirChildren
    <3>3. CountTypes'
      BY <2>22 DEF CountTypes, DirChildren
    <3>4. QueueTypes'
      <4>1. ASSUME NEW a \in SetToSeqs(nodes \ base), NEW d \in SetToSeqs(base \ nodes)
            PROVE  Entries("Add", a) \o Entries("Del", d) \in Seq(Entry)
        <5>1. a \in Seq(nodes \ base) /\ d \in Seq(base \ nodes)
          BY OrdersAreSequences DEF SetTypes
        <5>2. Entries("Add", a) \in Seq(Entry) /\ Entries("Del", d) \in Seq(Entry)
          BY <5>1, EntriesFacts DEF SetTypes
        <5> QED
          BY <5>2, ConcatProperties
      <4> QED
        BY <2>22, <4>1 DEF QueueTypes, DirChildren
    <3>5. Registration'
      BY <2>22 DEF Registration, DirChildren
    <3> QED
      BY <3>1, <3>2, <3>3, <3>4, <3>5
  <2>23. ASSUME DirEmit PROVE TypeOK'
    <3>1. SetTypes'
      BY <2>23 DEF SetTypes, DirEmit, SendEvent, Started
    <3>2. FlagTypes'
      BY <2>23 DEF FlagTypes, DirEmit, SendEvent, Started
    <3>3. CountTypes'
      BY <2>23 DEF CountTypes, DirEmit, SendEvent, Started
    <3>4. QueueTypes'
      <4> DEFINE e == Head(dirTodo)
      <4>1. e \in Entry /\ Tail(dirTodo) \in Seq(Entry)
        BY <2>23 DEF QueueTypes, DirEmit
      <4>2. e.act \in {"Add", "Del"} /\ e.url \in Nodes
        BY <4>1 DEF Entry
      <4>3. [act |-> e.act, url |-> e.url, by |-> "dir"] \in Event
        BY <4>2 DEF Event
      <4>4. Started(e.url, e.url, "dir") \in Goroutine
        BY <4>2, StartedFacts
      <4> QED
        BY <2>23, <4>1, <4>3, <4>4 DEF QueueTypes, DirEmit, SendEvent
    <3>5. Registration'
      BY <2>23 DEF Registration, DirEmit, SendEvent, Started
    <3> QED
      BY <3>1, <3>2, <3>3, <3>4, <3>5
  <2>24. ASSUME DirEmitted PROVE TypeOK'
    <3>1. SetTypes'
      BY <2>24 DEF SetTypes, DirEmitted
    <3>2. FlagTypes'
      BY <2>24 DEF FlagTypes, DirEmitted
    <3>3. CountTypes'
      BY <2>24 DEF CountTypes, DirEmitted
    <3>4. QueueTypes'
      BY <2>24 DEF QueueTypes, DirEmitted
    <3>5. Registration'
      BY <2>24 DEF Registration, DirEmitted
    <3> QED
      BY <3>1, <3>2, <3>3, <3>4, <3>5
  <2>25. ASSUME ReadEvent PROVE TypeOK'
    <3>1. SetTypes'
      <4>1. Head(events) \in Event
        BY <2>25 DEF QueueTypes, ReadEvent
      <4> QED
        BY <2>25, <4>1 DEF SetTypes, ReadEvent, Event
    <3>2. FlagTypes'
      BY <2>25 DEF FlagTypes, ReadEvent
    <3>3. CountTypes'
      BY <2>25 DEF CountTypes, ReadEvent
    <3>4. QueueTypes'
      BY <2>25 DEF QueueTypes, ReadEvent
    <3>5. Registration'
      BY <2>25 DEF Registration, ReadEvent
    <3> QED
      BY <3>1, <3>2, <3>3, <3>4, <3>5
  <2>26. ASSUME ReadStopped PROVE TypeOK'
    <3>1. SetTypes'
      BY <2>26 DEF SetTypes, ReadStopped
    <3>2. FlagTypes'
      BY <2>26 DEF FlagTypes, ReadStopped
    <3>3. CountTypes'
      BY <2>26 DEF CountTypes, ReadStopped
    <3>4. QueueTypes'
      BY <2>26 DEF QueueTypes, ReadStopped
    <3>5. Registration'
      BY <2>26 DEF Registration, ReadStopped
    <3> QED
      BY <3>1, <3>2, <3>3, <3>4, <3>5
  <2>27. CASE UNCHANGED vars
    BY <2>27 DEF vars, SetTypes, FlagTypes, CountTypes, QueueTypes, Registration
  <2> QED
    BY <2>1, <2>2, <2>3, <2>4, <2>5, <2>6, <2>7, <2>8, <2>9, <2>10, <2>11, <2>12,
       <2>13, <2>14, <2>15, <2>16, <2>17, <2>18, <2>19, <2>20, <2>21, <2>22, <2>23,
       <2>24, <2>25, <2>26, <2>27
       DEF Next, HzStep, SvcStep, NodeStep, DirStep, ReadStep
<1> QED
  BY <1>1, <1>2, PTL DEF Spec

\* watch.go, watchDir and handleZkNodeEvent: the inductive invariant.
THEOREM DirInvariant == Spec => []DirInv
<1>1. Init => DirInv
  BY DEF Init, DirInv, BaseKnown, TodoTrue, NodeTrue, DirDelTrue, DirUpToDate
<1>2. TypeOK /\ TypeOK' /\ DirInv /\ [Next]_vars => DirInv'
  <2> SUFFICES ASSUME TypeOK, TypeOK', DirInv, [Next]_vars PROVE DirInv'
    OBVIOUS
  <2> USE DEF DirInv, zkVars, clientVars, regVars, svcVars, dirVars, readVars
  <2>1. ASSUME NEW n \in Nodes, Change(n) PROVE DirInv'
    <3>1. BaseKnown'
      BY <2>1 DEF BaseKnown, Change
    <3>2. TodoTrue'
      BY <2>1 DEF TodoTrue, Change
    <3>3. NodeTrue'
      BY <2>1 DEF NodeTrue, Change
    <3>4. DirDelTrue'
      BY <2>1 DEF DirDelTrue, Change
    <3>5. DirUpToDate'
      BY <2>1 DEF DirUpToDate, Change
    <3> QED
      BY <3>1, <3>2, <3>3, <3>4, <3>5
  <2>2. ASSUME HzNotify PROVE DirInv'
    BY <2>2 DEF BaseKnown, TodoTrue, NodeTrue, DirDelTrue, DirUpToDate, HzNotify
  <2>3. ASSUME HzSend PROVE DirInv'
    BY <2>3 DEF BaseKnown, TodoTrue, NodeTrue, DirDelTrue, DirUpToDate, HzSend
  <2>4. ASSUME Disconnect PROVE DirInv'
    BY <2>4 DEF BaseKnown, TodoTrue, NodeTrue, DirDelTrue, DirUpToDate, Disconnect
  <2>5. ASSUME HzExit PROVE DirInv'
    BY <2>5 DEF BaseKnown, TodoTrue, NodeTrue, DirDelTrue, DirUpToDate, HzExit
  <2>6. ASSUME Stop PROVE DirInv'
    BY <2>6 DEF BaseKnown, TodoTrue, NodeTrue, DirDelTrue, DirUpToDate, Stop
  <2>7. ASSUME CloseConn PROVE DirInv'
    <3>1. DirUpToDate'
      BY <2>7 DEF DirUpToDate, CloseConn
    <3>2. BaseKnown' /\ TodoTrue' /\ NodeTrue' /\ DirDelTrue'
      BY <2>7 DEF BaseKnown, TodoTrue, NodeTrue, DirDelTrue, CloseConn
    <3> QED
      BY <3>1, <3>2
  <2>8. ASSUME SvcChildren PROVE DirInv'
    BY <2>8 DEF BaseKnown, TodoTrue, NodeTrue, DirDelTrue, DirUpToDate, SvcChildren
  <2>9. ASSUME SvcAdd PROVE DirInv'
    <3>1. NodeTrue'
      BY <2>9 DEF NodeTrue, SvcAdd, SendEvent, Started
    <3>2. DirDelTrue'
      BY <2>9 DEF DirDelTrue, SvcAdd, SendEvent, Started
    <3>3. BaseKnown' /\ TodoTrue' /\ DirUpToDate'
      BY <2>9 DEF BaseKnown, TodoTrue, DirUpToDate, SvcAdd, SendEvent, Started
    <3> QED
      BY <3>1, <3>2, <3>3
  <2>10. ASSUME SvcDone PROVE DirInv'
    <3>1. DirUpToDate'
      BY <2>10 DEF DirUpToDate, SvcDone
    <3>2. BaseKnown' /\ TodoTrue' /\ NodeTrue' /\ DirDelTrue'
      BY <2>10 DEF BaseKnown, TodoTrue, NodeTrue, DirDelTrue, SvcDone
    <3> QED
      BY <3>1, <3>2
  <2>11. ASSUME NEW g \in DOMAIN gs, NodeStart(g) PROVE DirInv'
    <3>1. NodeTrue'
      <4>1. gs \in Seq(Goroutine) /\ gs[g].st = "start"
        BY <2>11 DEF NodeStart, TypeOK, QueueTypes
      <4>2. removed' = removed
        BY <2>11 DEF NodeStart
      <4>3. gs[g].by # "dir"
        BY <4>1 DEF NodeTrue
      <4>4. /\ Len(gs') = Len(gs) /\ gs'[g].by = gs[g].by
            /\ \A h \in 1 .. Len(gs) : h # g => gs'[h] = gs[h]
        <5> DEFINE r == [gs[g] EXCEPT !.st = "exist", !.path = dubboPath]
        <5>1. gs' = [gs EXCEPT ![g] = r]
          BY <2>11, <4>1 DEF NodeStart, Goroutine
        <5>2. gs[g] \in Goroutine
          BY <4>1
        <5>3. r.by = gs[g].by
          BY <5>2 DEF Goroutine
        <5> HIDE DEF r
        <5>4. gs'[g] = r /\ \A h \in 1 .. Len(gs) : h # g => gs'[h] = gs[h]
          BY <4>1, <5>1
        <5>5. Len(gs') = Len(gs)
          <6>1. DOMAIN gs' = 1 .. Len(gs) /\ Len(gs) \in Nat
            BY <4>1, <5>1
          <6>2. gs' \in Seq(Goroutine)
            BY DEF TypeOK, QueueTypes
          <6> QED
            BY <6>1, <6>2, LenProperties
        <5> QED
          BY <5>3, <5>4, <5>5
      <4> QED
        BY <4>1, <4>2, <4>3, <4>4 DEF NodeTrue
    <3>2. BaseKnown' /\ TodoTrue' /\ DirDelTrue' /\ DirUpToDate'
      BY <2>11 DEF BaseKnown, TodoTrue, DirDelTrue, DirUpToDate, NodeStart
    <3> QED
      BY <3>1, <3>2
  <2>12. ASSUME NEW g \in DOMAIN gs, NodeExistW(g) PROVE DirInv'
    <3>1. NodeTrue'
      <4>1. PICK st \in {"wait", "done"} : gs' = [gs EXCEPT ![g].st = st]
        BY <2>12 DEF NodeExistW, SetStage
      <4>2. gs \in Seq(Goroutine) /\ gs[g] \in Goroutine
        BY DEF TypeOK, QueueTypes
      <4>3. removed' = removed
        BY <2>12 DEF NodeExistW
      <4>4. /\ Len(gs') = Len(gs)
            /\ \A h \in 1 .. Len(gs) :
                 gs'[h] = IF h = g THEN [gs[g] EXCEPT !.st = st] ELSE gs[h]
        <5>1. [gs EXCEPT ![g].st = st] = [gs EXCEPT ![g] = [gs[g] EXCEPT !.st = st]]
          OBVIOUS
        <5>2. gs' = [gs EXCEPT ![g] = [gs[g] EXCEPT !.st = st]]
          BY <4>1, <5>1
        <5> QED
          BY <4>2, <5>2
      <4> QED
        BY <4>2, <4>3, <4>4 DEF NodeTrue, Goroutine
    <3>2. BaseKnown' /\ TodoTrue' /\ DirDelTrue' /\ DirUpToDate'
      BY <2>12 DEF BaseKnown, TodoTrue, DirDelTrue, DirUpToDate, NodeExistW, SetStage
    <3> QED
      BY <3>1, <3>2
  <2>13. ASSUME NEW g \in DOMAIN gs, NodeDone(g) PROVE DirInv'
    <3>1. NodeTrue'
      BY <2>13 DEF NodeTrue, NodeDone, SetStage
    <3>2. BaseKnown' /\ TodoTrue' /\ DirDelTrue' /\ DirUpToDate'
      BY <2>13 DEF BaseKnown, TodoTrue, DirDelTrue, DirUpToDate, NodeDone, SetStage
    <3> QED
      BY <3>1, <3>2
  <2>14. ASSUME NEW g \in DOMAIN gs, NodeDeleted(g) PROVE DirInv'
    <3>1. NodeTrue'
      BY <2>14 DEF NodeTrue, NodeDeleted, SetStage
    <3>2. BaseKnown' /\ TodoTrue' /\ DirDelTrue' /\ DirUpToDate'
      BY <2>14 DEF BaseKnown, TodoTrue, DirDelTrue, DirUpToDate, NodeDeleted, SetStage
    <3> QED
      BY <3>1, <3>2
  <2>15. ASSUME NEW g \in DOMAIN gs, NodeReport(g) PROVE DirInv'
    <3>1. NodeTrue'
      BY <2>15 DEF NodeTrue, NodeReport, SetStage, SendEvent
    <3>2. DirDelTrue'
      <4> DEFINE e == [act |-> "Del", url |-> gs[g].url, by |-> gs[g].by]
      <4>1. e.by = "dir" => e.url \in removed
        BY <2>15 DEF NodeReport, NodeTrue, TypeOK, QueueTypes
      <4>2. events' = Append(events, e) /\ removed' = removed
        BY <2>15 DEF NodeReport, SendEvent
      <4>3. events \in Seq(Event)
        BY DEF TypeOK, QueueTypes
      <4> HIDE DEF e
      <4> QED
        BY <4>1, <4>2, <4>3 DEF DirDelTrue
    <3>3. BaseKnown' /\ TodoTrue' /\ DirUpToDate'
      BY <2>15 DEF BaseKnown, TodoTrue, DirUpToDate, NodeReport, SetStage, SendEvent
    <3> QED
      BY <3>1, <3>2, <3>3
  <2>16. ASSUME DirGetChildrenW PROVE DirInv'
    <3>1. BaseKnown'
      BY <2>16 DEF BaseKnown, DirGetChildrenW
    <3>2. DirUpToDate'
      BY <2>16 DEF DirUpToDate, DirGetChildrenW
    <3>3. TodoTrue' /\ NodeTrue' /\ DirDelTrue'
      BY <2>16 DEF TodoTrue, NodeTrue, DirDelTrue, DirGetChildrenW
    <3> QED
      BY <3>1, <3>2, <3>3
  <2>17. ASSUME DirRegister PROVE DirInv'
    <3>1. DirUpToDate'
      BY <2>17 DEF DirUpToDate, DirRegister
    <3>2. BaseKnown' /\ TodoTrue' /\ NodeTrue' /\ DirDelTrue'
      BY <2>17 DEF BaseKnown, TodoTrue, NodeTrue, DirDelTrue, DirRegister
    <3> QED
      BY <3>1, <3>2
  <2>18. ASSUME DirTimer PROVE DirInv'
    <3>1. DirUpToDate'
      BY <2>18 DEF DirUpToDate, DirTimer, DirUnregister
    <3>2. BaseKnown' /\ TodoTrue' /\ NodeTrue' /\ DirDelTrue'
      BY <2>18 DEF BaseKnown, TodoTrue, NodeTrue, DirDelTrue, DirTimer, DirUnregister
    <3> QED
      BY <3>1, <3>2
  <2>19. ASSUME DirNotified PROVE DirInv'
    <3>1. BaseKnown'
      BY <2>19 DEF BaseKnown, DirNotified, DirUnregister
    <3>2. DirUpToDate'
      BY <2>19 DEF DirUpToDate, DirNotified, DirUnregister
    <3>3. TodoTrue' /\ NodeTrue' /\ DirDelTrue'
      BY <2>19 DEF TodoTrue, NodeTrue, DirDelTrue, DirNotified, DirUnregister
    <3> QED
      BY <3>1, <3>2, <3>3
  <2>20. ASSUME DirDone PROVE DirInv'
    <3>1. DirUpToDate'
      BY <2>20 DEF DirUpToDate, DirDone, DirUnregister
    <3>2. BaseKnown' /\ TodoTrue' /\ NodeTrue' /\ DirDelTrue'
      BY <2>20 DEF BaseKnown, TodoTrue, NodeTrue, DirDelTrue, DirDone, DirUnregister
    <3> QED
      BY <3>1, <3>2
  <2>21. ASSUME DirChanged PROVE DirInv'
    <3>1. DirUpToDate'
      BY <2>21 DEF DirUpToDate, DirChanged
    <3>2. BaseKnown' /\ TodoTrue' /\ NodeTrue' /\ DirDelTrue'
      BY <2>21 DEF BaseKnown, TodoTrue, NodeTrue, DirDelTrue, DirChanged
    <3> QED
      BY <3>1, <3>2
  <2>22. ASSUME DirChildren PROVE DirInv'
    <3>1. TodoTrue'
      <4>1. ASSUME NEW a \in SetToSeqs(nodes \ base), NEW d \in SetToSeqs(base \ nodes),
                   dirTodo' = Entries("Add", a) \o Entries("Del", d),
                   NEW i \in 1 .. Len(dirTodo'), dirTodo'[i].act = "Del"
            PROVE  dirTodo'[i].url \in removed
        <5>1. a \in Seq(nodes \ base) /\ d \in Seq(base \ nodes)
          BY OrdersAreSequences DEF TypeOK, SetTypes
        <5>2. /\ Entries("Add", a) \in Seq(Entry) /\ Len(Entries("Add", a)) = Len(a)
              /\ \A j \in 1 .. Len(a) : Entries("Add", a)[j].act = "Add"
          BY <5>1, EntriesFacts DEF TypeOK, SetTypes
        <5>3. /\ Entries("Del", d) \in Seq(Entry) /\ Len(Entries("Del", d)) = Len(d)
              /\ \A j \in 1 .. Len(d) : Entries("Del", d)[j].url \in base \ nodes
          BY <5>1, EntriesFacts DEF TypeOK, SetTypes
        <5>4. /\ Len(dirTodo') = Len(a) + Len(d)
              /\ dirTodo'[i] = IF i <= Len(a) THEN Entries("Add", a)[i]
                               ELSE Entries("Del", d)[i - Len(a)]
          <6> DEFINE A == Entries("Add", a)
                     D == Entries("Del", d)
          <6>1. dirTodo' = A \o D /\ A \in Seq(Entry) /\ D \in Seq(Entry)
            BY <4>1, <5>2, <5>3
          <6>2. Len(A) = Len(a) /\ Len(D) = Len(d)
            BY <5>2, <5>3
          <6> HIDE DEF A, D
          <6>3. /\ Len(dirTodo') = Len(A) + Len(D)
                /\ dirTodo'[i] = IF i <= Len(A) THEN A[i] ELSE D[i - Len(A)]
            BY <6>1
          <6> QED
            BY <6>2, <6>3 DEF A, D
        <5>5. i > Len(a) /\ i - Len(a) \in 1 .. Len(d)
          BY <4>1, <5>1, <5>2, <5>4
        <5>6. dirTodo'[i].url \in base \ nodes
          BY <5>1, <5>3, <5>4, <5>5
        <5> QED
          BY <5>6 DEF BaseKnown
      <4>2. removed' = removed
        BY <2>22 DEF DirChildren
      <4>3. CASE UNCHANGED dirTodo
        BY <4>2, <4>3 DEF TodoTrue
      <4>4. CASE \E a \in SetToSeqs(nodes \ base), d \in SetToSeqs(base \ nodes) :
                   dirTodo' = Entries("Add", a) \o Entries("Del", d)
        BY <4>1, <4>2, <4>4 DEF TodoTrue
      <4> QED
        BY <2>22, <4>3, <4>4 DEF DirChildren
    <3>2. DirUpToDate'
      BY <2>22 DEF DirUpToDate, DirChildren
    <3>3. BaseKnown' /\ NodeTrue' /\ DirDelTrue'
      BY <2>22 DEF BaseKnown, NodeTrue, DirDelTrue, DirChildren
    <3> QED
      BY <3>1, <3>2, <3>3
  <2>23. ASSUME DirEmit PROVE DirInv'
    <3>1. TodoTrue'
      BY <2>23 DEF TodoTrue, DirEmit, SendEvent, Started
    <3>2. NodeTrue'
      <4>1. Head(dirTodo) \in Entry
        BY <2>23 DEF DirEmit, TypeOK, QueueTypes
      <4>2. Head(dirTodo).url \in Nodes /\ Head(dirTodo).url # None
        BY <4>1, WatcherAssumption DEF Entry
      <4> DEFINE r == Started(Head(dirTodo).url, Head(dirTodo).url, "dir")
      <4>3. r.path = r.url /\ r.st = "exist"
        BY <4>2 DEF Started
      <4>4. gs' = gs \/ gs' = Append(gs, r)
        BY <2>23 DEF DirEmit
      <4>5. gs \in Seq(Goroutine) /\ removed' = removed
        BY <2>23 DEF DirEmit, TypeOK, QueueTypes
      <4> HIDE DEF r
      <4> QED
        BY <4>3, <4>4, <4>5 DEF NodeTrue
    <3>3. DirDelTrue'
      <4> DEFINE e == [act |-> Head(dirTodo).act, url |-> Head(dirTodo).url, by |-> "dir"]
      <4>1. e.act = "Del" => e.url \in removed
        BY <2>23 DEF DirEmit, TodoTrue, TypeOK, QueueTypes
      <4>2. events' = Append(events, e) /\ removed' = removed
        BY <2>23 DEF DirEmit, SendEvent
      <4>3. events \in Seq(Event)
        BY DEF TypeOK, QueueTypes
      <4> HIDE DEF e
      <4> QED
        BY <4>1, <4>2, <4>3 DEF DirDelTrue
    <3>4. BaseKnown' /\ DirUpToDate'
      BY <2>23 DEF BaseKnown, DirUpToDate, DirEmit, SendEvent, Started
    <3> QED
      BY <3>1, <3>2, <3>3, <3>4
  <2>24. ASSUME DirEmitted PROVE DirInv'
    <3>1. DirUpToDate'
      BY <2>24 DEF DirUpToDate, DirEmitted
    <3>2. BaseKnown' /\ TodoTrue' /\ NodeTrue' /\ DirDelTrue'
      BY <2>24 DEF BaseKnown, TodoTrue, NodeTrue, DirDelTrue, DirEmitted
    <3> QED
      BY <3>1, <3>2
  <2>25. ASSUME ReadEvent PROVE DirInv'
    <3>1. DirDelTrue'
      BY <2>25 DEF DirDelTrue, ReadEvent
    <3>2. BaseKnown' /\ TodoTrue' /\ NodeTrue' /\ DirUpToDate'
      BY <2>25 DEF BaseKnown, TodoTrue, NodeTrue, DirUpToDate, ReadEvent
    <3> QED
      BY <3>1, <3>2
  <2>26. ASSUME ReadStopped PROVE DirInv'
    BY <2>26 DEF BaseKnown, TodoTrue, NodeTrue, DirDelTrue, DirUpToDate, ReadStopped
  <2>27. CASE UNCHANGED vars
    BY <2>27 DEF vars, BaseKnown, TodoTrue, NodeTrue, DirDelTrue, DirUpToDate
  <2> QED
    BY <2>1, <2>2, <2>3, <2>4, <2>5, <2>6, <2>7, <2>8, <2>9, <2>10, <2>11, <2>12,
       <2>13, <2>14, <2>15, <2>16, <2>17, <2>18, <2>19, <2>20, <2>21, <2>22, <2>23,
       <2>24, <2>25, <2>26, <2>27
       DEF Next, HzStep, SvcStep, NodeStep, DirStep, ReadStep
<1> QED
  BY <1>1, <1>2, TypeCorrect, PTL DEF Spec

\* watch.go, handleZkNodeEvent: a Del from watchDir's side is about a node that
\* was removed.
THEOREM DelsAreTrue == Spec => []DirDelTrue
BY DirInvariant, PTL DEF DirInv

\* watch.go, watchDir: while its watch has not fired, its list is the directory's.
THEOREM ListIsUpToDate == Spec => []DirUpToDate
BY DirInvariant, PTL DEF DirInv
=============================================================================
