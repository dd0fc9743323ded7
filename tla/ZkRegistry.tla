----------------------------- MODULE ZkRegistry -----------------------------
(***************************************************************************)
(* The ZooKeeper registries of consumers and providers: registry/zk/       *)
(* consumer.go, provider.go and registry.go.  Users call Register, which   *)
(* creates an ephemeral node for a service; the goroutine handleZkRestart  *)
(* waits for the end of the client's session, opens a new one and          *)
(* registers the services again; Close ends both.                          *)
(*                                                                         *)
(* register is shared by both: it takes the registry's lock three times,   *)
(* to validate the client, to create the directory and to create the node, *)
(* and lets go of it in between.  A client is named by its session.        *)
(*                                                                         *)
(* ZooKeeper is external.  A session that lost its connection is given up  *)
(* by its client at once (zookeeperClient.handleZkEvent), while its        *)
(* ephemeral nodes stay until the server lets it expire.                   *)
(***************************************************************************)
EXTENDS Naturals, Sequences, FiniteSets, SequencesExt

CONSTANTS
  Users,        \* the goroutines that call Register
  Confs,        \* the service configurations, all of one service name
  Provider,     \* TRUE: providerZookeeperRegistry, FALSE: consumerZookeeperRegistry
  MaxSessions,  \* bound: how many sessions ZooKeeper grants
  MaxList,      \* bound: how long handleZkRestart's slice services gets
  MayClose,     \* whether Close is called in this instance
  MayRefuse,    \* whether newZookeeperClient may fail
  HR, None      \* the goroutine handleZkRestart; no client, no configuration

ASSUME RegistryAssumption ==
  /\ MaxSessions \in Nat \ {0} /\ MaxList \in Nat
  /\ {Provider, MayClose, MayRefuse} \subseteq BOOLEAN
  /\ HR \notin Users /\ None \notin Confs \cup Nat /\ IsFiniteSet(Confs)

Sessions == 1 .. MaxSessions
Actors == Users \cup {HR}

VARIABLES
  client,    \* r.client: a session, or None
  services,  \* r.services: the configurations recorded
  zkPath,    \* provider: how often the service name was used in a URL (0 or 1)
  granted,   \* how many sessions there have been
  gone,      \* the sessions whose client is done (client.exit is closed)
  nodes,     \* the ephemeral nodes: [conf, suffix, owner]
  at,        \* [Actors -> where the goroutine is]
  conf,      \* [Actors -> the configuration it registers]
  suffix,    \* [Actors -> the number in the URL path it registers]
  list,      \* handleZkRestart's slice services
  idx,       \* its position in the slice
  done,      \* the channel r.done is closed
  closing    \* where Close is

zkVars == <<granted, gone, nodes>>
vars == <<client, services, zkPath, granted, gone, nodes, at, conf, suffix, list, idx,
          done, closing>>

RegisterStages == {"validate", "create", "temp"}
UserStages == RegisterStages \cup {"idle", "record", "ok", "err", "panic"}
HrStages == RegisterStages \cup {"select", "reconnect", "copy", "panic", "done"}

SessionTypes ==
  /\ granted \in Sessions /\ gone \in SUBSET (1 .. granted)
  /\ client \in (1 .. granted) \cup {None}
  /\ nodes \in SUBSET [conf : Confs, suffix : {0, 1}, owner : 1 .. granted]
ActorTypes ==
  /\ at \in [Actors -> UserStages \cup HrStages]
  /\ at[HR] \in HrStages /\ \A u \in Users : at[u] \in UserStages
  /\ conf \in [Actors -> Confs \cup {None}] /\ suffix \in [Actors -> {0, 1}]
  /\ \A a \in Actors : at[a] \in RegisterStages \cup {"record"} => conf[a] \in Confs
RegistryTypes ==
  /\ services \in SUBSET Confs /\ zkPath \in {0, 1}
  /\ list \in Seq(Confs) /\ idx \in 0 .. Len(list)
  /\ done \in BOOLEAN /\ closing \in {"no", "wait", "closed", "panic"}
TypeOK == SessionTypes /\ ActorTypes /\ RegistryTypes

Init ==
  /\ client = 1 /\ services = {} /\ zkPath = 0
  /\ granted = 1 /\ gone = {} /\ nodes = {}
  /\ at = [a \in Actors |-> IF a = HR THEN "select" ELSE "idle"]
  /\ conf = [a \in Actors |-> None] /\ suffix = [a \in Actors |-> 0]
  /\ list = <<>> /\ idx = 0
  /\ done = FALSE /\ closing = "no"

-----------------------------------------------------------------------------
(***************************************************************************)
(* ZooKeeper.                                                              *)
(***************************************************************************)
\* The current session loses its connection; its client gives it up.  (The last
\* session of the bound stays.)
Disconnect ==
  /\ client # None /\ client \notin gone /\ granted < MaxSessions
  /\ gone' = gone \cup {client}
  /\ UNCHANGED <<client, services, zkPath, granted, nodes, at, conf, suffix, list, idx,
                 done, closing>>

OwnedBy(k) == {n \in nodes : n.owner = k}

\* The server lets a session expire that its client has given up.
Expire(k) ==
  /\ k \in gone /\ OwnedBy(k) # {}
  /\ nodes' = nodes \ OwnedBy(k)
  /\ UNCHANGED <<client, services, zkPath, granted, gone, at, conf, suffix, list, idx,
                 done, closing>>

-----------------------------------------------------------------------------
(***************************************************************************)
(* register: three critical sections.  Step(a, s) moves a on; Fail(a) is   *)
(* its error return.                                                       *)
(***************************************************************************)
Step(a, s) == at' = [at EXCEPT ![a] = s]
Fail(a) == Step(a, IF a = HR THEN "reconnect" ELSE "err")

\* validateZookeeperClient: a new client when there is none.
ValidateClient ==
  \/ client # None /\ UNCHANGED <<client, granted>>
  \/ /\ client = None /\ granted < MaxSessions
     /\ granted' = granted + 1
     /\ client' = granted + 1

RegisterValidate(a) ==
  /\ at[a] = "validate"
  /\ \/ ValidateClient /\ Step(a, "create")
     \/ /\ MayRefuse /\ client = None
        /\ Fail(a)
        /\ UNCHANGED <<client, granted>>
  /\ UNCHANGED <<services, zkPath, gone, nodes, conf, suffix, list, idx, done, closing>>

\* The provider's URL path has the number of its service name appended if that
\* was used before.  The number is stored under the new name, so it never
\* exceeds 1.  No lock is held: next to another goroutine at the same place, the
\* read of the map may miss its write.
Racing(a) == \E b \in Actors \ {a} : at[b] = "temp"
PathNumber(a) == IF Racing(a) THEN {0, zkPath} ELSE {zkPath}

\* Mutant: the number is counted under the plain service name.
RegisterCreateCounts(a) ==
  /\ at[a] = "create" /\ client # None /\ client \notin gone
  /\ Step(a, "temp")
  /\ zkPath' = zkPath + 1
  /\ UNCHANGED <<client, services, zkVars, conf, suffix, list, idx, done, closing>>

\* zookeeperClient.Create needs a connection; a directory that exists is fine.
CreateOk == client \in Sessions \ gone

\* r.client.Create: a nil client panics, a dead one reports an error; then the
\* name of the node is put together.
RegisterCreate(a) ==
  /\ at[a] = "create"
  /\ IF CreateOk
     THEN /\ Step(a, "temp")
          /\ zkPath' = IF Provider THEN 1 ELSE 0
          /\ \E n \in PathNumber(a) : suffix' = [suffix EXCEPT ![a] = n]
     ELSE /\ IF client = None THEN Step(a, "panic") ELSE Fail(a)
          /\ UNCHANGED <<zkPath, suffix>>
  /\ UNCHANGED <<client, services, zkVars, conf, list, idx, done, closing>>

\* Go's runtime ends the process when it notices two goroutines in the map.
PathRace(a) ==
  /\ Provider /\ at[a] = "temp" /\ Racing(a)
  /\ Step(a, "panic")
  /\ UNCHANGED <<client, services, zkPath, zkVars, conf, suffix, list, idx, done, closing>>

NodeNamed(a) == [conf |-> conf[a], suffix |-> suffix[a]]

Exists(n) == \E m \in nodes : m.conf = n.conf /\ m.suffix = n.suffix

\* What follows a registration: Register records it, handleZkRestart goes on.
Registered(a) ==
  IF a # HR THEN Step(a, "record") /\ UNCHANGED <<conf, idx>>
  ELSE IF idx < Len(list)
  THEN /\ idx' = idx + 1
       /\ conf' = [conf EXCEPT ![HR] = list[idx + 1]]
       /\ Step(HR, "validate")
  ELSE Step(HR, "select") /\ UNCHANGED <<conf, idx>>

\* Mutant: an error of the registration is only logged.
RegisterTempLogs(a) ==
  /\ at[a] = "temp"
  /\ LET n == NodeNamed(a) IN
       /\ nodes' = IF client = None \/ client \in gone \/ Exists(n) THEN nodes
                   ELSE nodes \cup {[conf |-> n.conf, suffix |-> n.suffix, owner |-> client]}
       /\ Registered(a)
  /\ UNCHANGED <<client, services, zkPath, granted, gone, suffix, list, done, closing>>

\* registerTempZookeeperNode: creating a node that exists is an error.
RegisterTemp(a) ==
  /\ at[a] = "temp"
  /\ LET n == NodeNamed(a) IN
       IF client = None THEN Step(a, "panic") /\ UNCHANGED <<nodes, conf, idx>>
       ELSE IF client \in gone \/ Exists(n) THEN Fail(a) /\ UNCHANGED <<nodes, conf, idx>>
       ELSE /\ nodes' = nodes \cup {[conf |-> n.conf, suffix |-> n.suffix, owner |-> client]}
            /\ Registered(a)
  /\ UNCHANGED <<client, services, zkPath, granted, gone, suffix, list, done, closing>>

-----------------------------------------------------------------------------
(***************************************************************************)
(* Register.                                                               *)
(***************************************************************************)
\* The service must not be recorded yet.  Nobody calls Register after Close.
RegisterCheck(u, c) ==
  /\ at[u] = "idle" /\ closing = "no"
  /\ Step(u, IF c \in services THEN "err" ELSE "validate")
  /\ conf' = [conf EXCEPT ![u] = c]
  /\ UNCHANGED <<client, services, zkPath, zkVars, suffix, list, idx, done, closing>>

\* The map is nil once closeRegisters has run; writing to it panics.
RegisterRecord(u) ==
  /\ at[u] = "record"
  /\ IF closing = "closed"
     THEN Step(u, "panic") /\ UNCHANGED services
     ELSE Step(u, "ok") /\ services' = services \cup {conf[u]}
  /\ UNCHANGED <<client, zkPath, zkVars, conf, suffix, list, idx, done, closing>>

-----------------------------------------------------------------------------
(***************************************************************************)
(* handleZkRestart.                                                        *)
(***************************************************************************)
\* case <-r.client.done().
HrLost ==
  /\ at[HR] = "select" /\ client \in gone
  /\ client' = None
  /\ Step(HR, "reconnect")
  /\ UNCHANGED <<services, zkPath, zkVars, conf, suffix, list, idx, done, closing>>

\* The inner loop, after its timer: validate the client; the log line then
\* dereferences it, also when there is none.
HrReconnect ==
  /\ at[HR] = "reconnect"
  /\ \/ ValidateClient /\ Step(HR, "copy")
     \/ /\ MayRefuse /\ client = None
        /\ Step(HR, "panic")
        /\ UNCHANGED <<client, granted>>
  /\ UNCHANGED <<services, zkPath, gone, nodes, conf, suffix, list, idx, done, closing>>

\* What is appended to the slice.  (Beyond MaxList, only what it lacks.)
Copied ==
  IF Len(list) + Cardinality(services) <= MaxList THEN services ELSE services \ ToSet(list)

\* Append the services to the slice, in the map's order, and start to register
\* them.
HrCopy ==
  /\ at[HR] = "copy"
  /\ \E s \in SetToSeqs(Copied) :
       LET l == list \o s IN
         /\ list' = l
         /\ IF l = <<>> THEN Step(HR, "select") /\ UNCHANGED <<conf, idx>>
            ELSE idx' = 1 /\ conf' = [conf EXCEPT ![HR] = l[1]] /\ Step(HR, "validate")
  /\ UNCHANGED <<client, services, zkPath, zkVars, suffix, done, closing>>

\* Mutant: only the outer loop looks at r.done.
HrDoneOuter ==
  /\ at[HR] = "select" /\ done
  /\ Step(HR, "done")
  /\ UNCHANGED <<client, services, zkPath, zkVars, conf, suffix, list, idx, done, closing>>

\* case <-r.done, in both loops.
HrDone ==
  /\ at[HR] \in {"select", "reconnect"} /\ done
  /\ Step(HR, "done")
  /\ UNCHANGED <<client, services, zkPath, zkVars, conf, suffix, list, idx, done, closing>>

-----------------------------------------------------------------------------
(***************************************************************************)
(* Close.                                                                  *)
(***************************************************************************)
CloseSignal ==
  /\ MayClose /\ closing = "no"
  /\ closing' = "wait"
  /\ done' = TRUE
  /\ UNCHANGED <<client, services, zkPath, zkVars, at, conf, suffix, list, idx>>

\* Mutant: the services are dropped, the client is left open.
CloseRegistersOnly ==
  /\ closing = "wait" /\ at[HR] = "done"
  /\ closing' = "closed" /\ client' = None
  /\ services' = {}
  /\ UNCHANGED <<nodes, gone>>
  /\ UNCHANGED <<zkPath, granted, at, conf, suffix, list, idx, done>>

\* wg.Wait, then closeRegisters: closing the session deletes its nodes; a nil
\* client panics.
CloseRegisters ==
  /\ closing = "wait" /\ at[HR] = "done"
  /\ IF client = None
     THEN closing' = "panic" /\ UNCHANGED <<client, services, nodes, gone>>
     ELSE /\ closing' = "closed"
          /\ client' = None
          /\ services' = {}
          /\ gone' = gone \cup {client}
          /\ nodes' = IF client \in gone THEN nodes ELSE nodes \ OwnedBy(client)
  /\ UNCHANGED <<zkPath, granted, at, conf, suffix, list, idx, done>>

-----------------------------------------------------------------------------
RegisterStep(a) == RegisterValidate(a) \/ RegisterCreate(a) \/ RegisterTemp(a) \/ PathRace(a)
HrStep == HrLost \/ HrReconnect \/ HrCopy \/ HrDone \/ RegisterStep(HR)

\* Nothing recovers from a panic: it ends the process.
Panicked == closing = "panic" \/ \E a \in Actors : at[a] = "panic"

Next ==
  \/ \E k \in Sessions : Expire(k)
  \/ /\ ~Panicked
     /\ \/ Disconnect
        \/ \E u \in Users : \/ \E c \in Confs : RegisterCheck(u, c)
                            \/ RegisterStep(u) \/ RegisterRecord(u)
        \/ HrStep
        \/ CloseSignal \/ CloseRegisters

Spec == Init /\ [][Next]_vars

\* Goroutines that can run do, ZooKeeper lets dead sessions expire, and Go's
\* select does not pass over r.done for ever.
Fairness ==
  /\ WF_vars(~Panicked /\ HrStep) /\ SF_vars(~Panicked /\ HrDone)
  /\ \A u \in Users : WF_vars(~Panicked /\ (RegisterStep(u) \/ RegisterRecord(u)))
  /\ \A k \in Sessions : WF_vars(Expire(k))
  /\ WF_vars(~Panicked /\ CloseRegisters)

FairSpec == Spec /\ Fairness

-----------------------------------------------------------------------------
(***************************************************************************)
(* Properties.                                                             *)
(***************************************************************************)
Up(c) == \E n \in nodes : n.conf = c /\ n.owner = client /\ client \notin gone

\* validateZookeeperClient, handleZkRestart, closeRegisters: no session is left
\* behind connected: one that is not the registry's client has been closed.
NoSessionLeak == \A k \in 1 .. granted : k \notin gone => k = client

\* handleZkRestart: when it goes back to wait for the next loss, every service
\* recorded when it copied them has a node of the new session, unless that
\* session is lost again.
WaitsComplete ==
  at[HR] = "temp" /\ at'[HR] = "select" =>
    \A i \in 1 .. Len(list) : Up(list[i])' \/ client' \in gone'
RestartComplete == [][WaitsComplete]_vars

\* Close, handleZkRestart: Close comes to an end, also while handleZkRestart
\* fails to reconnect, unless a goroutine panics on a nil client meanwhile.
CloseEnds == (closing = "wait") ~> (closing = "closed" \/ Panicked)

(***************************************************************************)
(* What comments in the code say, and the code does not do.                *)
(***************************************************************************)
\* handleZkRestart: it connects to ZooKeeper "until it succeeds": the loop that
\* re-registers the services comes to an end once sessions stay up.
Reconnected == (at[HR] = "reconnect") ~> (at[HR] = "select")

=============================================================================
