-------------------------- MODULE ZkRegistryProofs --------------------------
(***************************************************************************)
(* Proofs about ZkRegistry, for every number of users, of configurations   *)
(* and of sessions: its types, that no session is leaked, and that a       *)
(* restart which comes to its end has registered everything.               *)
(***************************************************************************)
EXTENDS ZkRegistry, FiniteSetTheorems, SequenceTheorems, TLAPS

-----------------------------------------------------------------------------
(***************************************************************************)
(* Operators.                                                              *)
(***************************************************************************)
\* handleZkRestart, the copy of the services: an order of a finite set of
\* configurations is a sequence of configurations.
LEMMA OrderIsSequence ==
  ASSUME NEW S, IsFiniteSet(S), NEW s \in SetToSeqs(S)
  PROVE  s \in Seq(S)
<1>1. Cardinality(S) \in Nat  BY FS_CardinalityType
<1>2. s \in [1 .. Cardinality(S) -> S]  BY DEF SetToSeqs
<1>. QED  BY <1>1, <1>2

\* handleZkRestart, the copy of the services: the slice stays one of
\* configurations.
LEMMA CopyTypes ==
  ASSUME TypeOK, NEW s \in SetToSeqs(Copied)
  PROVE  list \o s \in Seq(Confs)
<1>1. Copied \subseteq Confs  BY DEF TypeOK, RegistryTypes, Copied
<1>2. IsFiniteSet(Copied)  BY <1>1, RegistryAssumption, FS_Subset
<1>3. s \in Seq(Copied)  BY <1>2, OrderIsSequence
<1>4. s \in Seq(Confs)  BY <1>1, <1>3, SeqMonotonic
<1>. QED  BY <1>4, ConcatProperties DEF TypeOK, RegistryTypes

-----------------------------------------------------------------------------
(***************************************************************************)
(* The types.                                                              *)
(***************************************************************************)
\* Step: a goroutine moves on to a place of its own.
LEMMA StepTypes ==
  ASSUME ActorTypes, NEW a \in Actors, NEW s, Step(a, s),
         s \in UserStages \cup HrStages,
         a = HR => s \in HrStages, a # HR => s \in UserStages
  PROVE  /\ at' \in [Actors -> UserStages \cup HrStages]
         /\ at'[HR] \in HrStages /\ \A u \in Users : at'[u] \in UserStages
         /\ at'[a] = s /\ \A b \in Actors \ {a} : at'[b] = at[b]
<1>1. /\ at \in [Actors -> UserStages \cup HrStages]
      /\ at[HR] \in HrStages /\ \A u \in Users : at[u] \in UserStages
      /\ at' = [at EXCEPT ![a] = s]
      /\ HR \in Actors /\ HR \notin Users /\ Users \subseteq Actors
  BY RegistryAssumption DEF ActorTypes, Step, Actors
<1>2. at' \in [Actors -> UserStages \cup HrStages]  BY <1>1
<1>3. at'[a] = s /\ \A b \in Actors \ {a} : at'[b] = at[b]  BY <1>1
<1>4. at'[HR] \in HrStages
  <2>1. CASE a = HR  BY <2>1, <1>3
  <2>2. CASE a # HR  BY <2>2, <1>1, <1>3
  <2>. QED  BY <2>1, <2>2
<1>5. ASSUME NEW u \in Users PROVE at'[u] \in UserStages
  <2>1. CASE a = u  BY <2>1, <1>1, <1>3
  <2>2. CASE a # u  BY <2>2, <1>1, <1>3
  <2>. QED  BY <2>1, <2>2
<1>. QED  BY <1>2, <1>3, <1>4, <1>5

\* Init has the types.
LEMMA InitTypes == Init => TypeOK
<1> SUFFICES ASSUME Init PROVE TypeOK  OBVIOUS
<1>1. SessionTypes  BY RegistryAssumption DEF Init, SessionTypes, Sessions
<1>2. ActorTypes
  BY RegistryAssumption DEF Init, ActorTypes, Actors, UserStages, HrStages, RegisterStages
<1>3. RegistryTypes
  <2>1. services \in SUBSET Confs /\ zkPath \in {0, 1} /\ list \in Seq(Confs)
        /\ closing \in {"no", "wait", "closed", "panic"}
    BY DEF Init
  <2>2. idx \in 0 .. Len(list)  BY DEF Init
  <2>3. done \in BOOLEAN  BY DEF Init
  <2>. QED  BY <2>1, <2>2, <2>3 DEF RegistryTypes
<1>. QED  BY <1>1, <1>2, <1>3 DEF TypeOK

\* The steps of a registration keep the types.
LEMMA RegisterTypes ==
  ASSUME TypeOK, NEW a \in Actors, RegisterStep(a)
  PROVE  TypeOK'
<1> USE RegistryAssumption
<1>1. CASE RegisterValidate(a)
  <2>1. ActorTypes'
    <3>1. \E s \in {"create", "reconnect", "err"} :
             /\ Step(a, s) /\ (s = "reconnect" => a = HR) /\ (s = "err" => a # HR)
      BY <1>1 DEF RegisterValidate, Fail
    <3>2. PICK s \in {"create", "reconnect", "err"} :
             /\ Step(a, s) /\ (s = "reconnect" => a = HR) /\ (s = "err" => a # HR)
      BY <3>1
    <3>. QED
      BY <1>1, <3>2, StepTypes
      DEF TypeOK, ActorTypes, RegisterValidate, UserStages, HrStages, RegisterStages
  <2>2. SessionTypes'
    BY <1>1 DEF RegisterValidate, ValidateClient, TypeOK, SessionTypes, Sessions
  <2>3. RegistryTypes'  BY <1>1 DEF RegisterValidate, TypeOK, RegistryTypes
  <2>. QED  BY <2>1, <2>2, <2>3 DEF TypeOK
<1>2. CASE RegisterCreate(a)
  <2>1. zkPath' \in {0, 1} /\ suffix' \in [Actors -> {0, 1}]
    <3>1. CASE CreateOk
      <4>1. PICK m \in PathNumber(a) : suffix' = [suffix EXCEPT ![a] = m]
        BY <1>2, <3>1 DEF RegisterCreate
      <4>2. m \in {0, 1}  BY <4>1 DEF PathNumber, TypeOK, RegistryTypes
      <4>3. zkPath' \in {0, 1}  BY <1>2, <3>1 DEF RegisterCreate
      <4>. QED  BY <4>1, <4>2, <4>3 DEF TypeOK, ActorTypes
    <3>2. CASE ~CreateOk
      BY <1>2, <3>2 DEF RegisterCreate, TypeOK, RegistryTypes, ActorTypes
    <3>. QED  BY <3>1, <3>2
  <2>2. ActorTypes'
    <3>1. PICK s \in {"temp", "panic", "reconnect", "err"} :
             /\ Step(a, s) /\ (s = "reconnect" => a = HR) /\ (s = "err" => a # HR)
      BY <1>2 DEF RegisterCreate, Fail
    <3>. QED
      BY <1>2, <2>1, <3>1, StepTypes
      DEF TypeOK, ActorTypes, RegisterCreate, UserStages, HrStages, RegisterStages
  <2>3. SessionTypes'  BY <1>2 DEF RegisterCreate, zkVars, TypeOK, SessionTypes
  <2>4. RegistryTypes'  BY <1>2, <2>1 DEF RegisterCreate, TypeOK, RegistryTypes
  <2>. QED  BY <2>2, <2>3, <2>4 DEF TypeOK
<1>3. CASE RegisterTemp(a)
  <2>1. conf[a] \in Confs /\ suffix[a] \in {0, 1}
    BY <1>3 DEF RegisterTemp, TypeOK, ActorTypes, RegisterStages
  <2>2. SessionTypes'
    <3>1. CASE nodes' = nodes  BY <1>3, <3>1 DEF RegisterTemp, TypeOK, SessionTypes
    <3>2. CASE /\ client # None
               /\ nodes' = nodes \cup {[conf |-> conf[a], suffix |-> suffix[a],
                                        owner |-> client]}
      BY <1>3, <2>1, <3>2 DEF RegisterTemp, TypeOK, SessionTypes
    <3>. QED  BY <1>3, <3>1, <3>2 DEF RegisterTemp, NodeNamed
  <2>3. ActorTypes' /\ idx' \in 0 .. Len(list)
    <3>1. CASE UNCHANGED <<conf, idx>>
      <4>1. PICK s \in {"panic", "reconnect", "err", "record", "select"} :
               /\ Step(a, s) /\ (s \in {"reconnect", "select"} => a = HR)
               /\ (s \in {"err", "record"} => a # HR)
        BY <1>3, <3>1 DEF RegisterTemp, Fail, Registered, TypeOK, RegistryTypes
      <4>. QED
        BY <1>3, <2>1, <3>1, <4>1, StepTypes
        DEF TypeOK, ActorTypes, RegistryTypes, RegisterTemp, UserStages, HrStages, RegisterStages
    <3>2. CASE /\ a = HR /\ idx < Len(list) /\ idx' = idx + 1
               /\ conf' = [conf EXCEPT ![HR] = list[idx + 1]] /\ Step(HR, "validate")
      <4>1. idx + 1 \in 1 .. Len(list) /\ list[idx + 1] \in Confs
        BY <3>2, ElementOfSeq, LenProperties DEF TypeOK, RegistryTypes
      <4>2. conf' \in [Actors -> Confs \cup {None}]
             /\ conf'[HR] \in Confs /\ \A b \in Actors \ {HR} : conf'[b] = conf[b]
        BY <3>2, <4>1 DEF TypeOK, ActorTypes
      <4>. QED
        BY <1>3, <3>2, <4>1, <4>2, StepTypes
        DEF TypeOK, ActorTypes, RegisterTemp, UserStages, HrStages, RegisterStages
    <3>. QED  BY <1>3, <3>1, <3>2 DEF RegisterTemp, Registered
  <2>4. RegistryTypes'  BY <1>3, <2>3 DEF RegisterTemp, TypeOK, RegistryTypes
  <2>. QED  BY <2>2, <2>3, <2>4 DEF TypeOK
<1>4. CASE PathRace(a)
  <2>1. ActorTypes'
    BY <1>4, StepTypes
    DEF PathRace, TypeOK, ActorTypes, UserStages, HrStages, RegisterStages
  <2>2. SessionTypes'  BY <1>4 DEF PathRace, zkVars, TypeOK, SessionTypes
  <2>3. RegistryTypes'  BY <1>4 DEF PathRace, TypeOK, RegistryTypes
  <2>. QED  BY <2>1, <2>2, <2>3 DEF TypeOK
<1>. QED  BY <1>1, <1>2, <1>3, <1>4 DEF RegisterStep

\* Every step keeps the types.
LEMMA NextTypes == TypeOK /\ [Next]_vars => TypeOK'
<1> SUFFICES ASSUME TypeOK, [Next]_vars PROVE TypeOK'  OBVIOUS
<1> USE RegistryAssumption
<1>1. CASE \E k \in Sessions : Expire(k)
  <2>1. SessionTypes'  BY <1>1 DEF Expire, TypeOK, SessionTypes
  <2>2. ActorTypes'  BY <1>1 DEF Expire, TypeOK, ActorTypes
  <2>3. RegistryTypes'  BY <1>1 DEF Expire, TypeOK, RegistryTypes
  <2>. QED  BY <2>1, <2>2, <2>3 DEF TypeOK
<1>2. CASE Disconnect
  <2>1. SessionTypes'  BY <1>2 DEF Disconnect, TypeOK, SessionTypes
  <2>2. ActorTypes'  BY <1>2 DEF Disconnect, TypeOK, ActorTypes
  <2>3. RegistryTypes'  BY <1>2 DEF Disconnect, TypeOK, RegistryTypes
  <2>. QED  BY <2>1, <2>2, <2>3 DEF TypeOK
<1>3. ASSUME NEW u \in Users, NEW c \in Confs, RegisterCheck(u, c)
      PROVE  TypeOK'
  <2>1. u \in Actors /\ u # HR  BY DEF Actors
  <2>2. ActorTypes'
    <3>1. PICK s \in {"err", "validate"} : Step(u, s)  BY <1>3 DEF RegisterCheck
    <3>2. /\ conf' \in [Actors -> Confs \cup {None}]
          /\ conf'[u] \in Confs /\ \A b \in Actors \ {u} : conf'[b] = conf[b]
      BY <1>3, <2>1 DEF RegisterCheck, TypeOK, ActorTypes
    <3>. QED
      BY <1>3, <2>1, <3>1, <3>2, StepTypes
      DEF RegisterCheck, TypeOK, ActorTypes, UserStages, HrStages, RegisterStages
  <2>3. SessionTypes'  BY <1>3 DEF RegisterCheck, zkVars, TypeOK, SessionTypes
  <2>4. RegistryTypes'  BY <1>3 DEF RegisterCheck, TypeOK, RegistryTypes
  <2>. QED  BY <2>2, <2>3, <2>4 DEF TypeOK
<1>4. ASSUME NEW a \in Actors, RegisterStep(a) PROVE TypeOK'
  BY <1>4, RegisterTypes
<1>5. ASSUME NEW u \in Users, RegisterRecord(u) PROVE TypeOK'
  <2>1. u \in Actors /\ u # HR  BY DEF Actors
  <2>2. ActorTypes'
    <3>1. PICK s \in {"panic", "ok"} : Step(u, s)  BY <1>5 DEF RegisterRecord
    <3>. QED
      BY <1>5, <2>1, <3>1, StepTypes
      DEF RegisterRecord, TypeOK, ActorTypes, UserStages, HrStages, RegisterStages
  <2>3. SessionTypes'  BY <1>5 DEF RegisterRecord, zkVars, TypeOK, SessionTypes
  <2>4. services' \in SUBSET Confs
    BY <1>5, <2>1 DEF RegisterRecord, TypeOK, ActorTypes, RegistryTypes
  <2>5. RegistryTypes'  BY <1>5, <2>4 DEF RegisterRecord, TypeOK, RegistryTypes
  <2>. QED  BY <2>2, <2>3, <2>5 DEF TypeOK
<1>6. CASE HrLost
  <2>1. HR \in Actors  BY DEF Actors
  <2>2. ActorTypes'
    BY <1>6, <2>1, StepTypes
    DEF HrLost, TypeOK, ActorTypes, UserStages, HrStages, RegisterStages
  <2>3. SessionTypes'  BY <1>6 DEF HrLost, zkVars, TypeOK, SessionTypes
  <2>4. RegistryTypes'  BY <1>6 DEF HrLost, TypeOK, RegistryTypes
  <2>. QED  BY <2>2, <2>3, <2>4 DEF TypeOK
<1>7. CASE HrReconnect
  <2>1. HR \in Actors  BY DEF Actors
  <2>2. ActorTypes'
    <3>1. PICK s \in {"copy", "panic"} : Step(HR, s)  BY <1>7 DEF HrReconnect
    <3>. QED
      BY <1>7, <2>1, <3>1, StepTypes
      DEF HrReconnect, TypeOK, ActorTypes, UserStages, HrStages, RegisterStages
  <2>3. SessionTypes'
    BY <1>7 DEF HrReconnect, ValidateClient, TypeOK, SessionTypes, Sessions
  <2>4. RegistryTypes'  BY <1>7 DEF HrReconnect, TypeOK, RegistryTypes
  <2>. QED  BY <2>2, <2>3, <2>4 DEF TypeOK
<1>8. CASE HrCopy
  <2>1. HR \in Actors  BY DEF Actors
  <2>2. PICK s \in SetToSeqs(Copied) :
          /\ list' = list \o s
          /\ IF list' = <<>> THEN Step(HR, "select") /\ UNCHANGED <<conf, idx>>
             ELSE idx' = 1 /\ conf' = [conf EXCEPT ![HR] = (list')[1]] /\ Step(HR, "validate")
    BY <1>8 DEF HrCopy
  <2>3. list' \in Seq(Confs)  BY <2>2, CopyTypes
  <2>4. ActorTypes' /\ idx' \in 0 .. Len(list')
    <3>1. CASE list' = <<>>
      <4>1. Len(list) = 0
        <5>1. s \in Seq(Confs)
          <6>1. Copied \subseteq Confs  BY DEF TypeOK, RegistryTypes, Copied
          <6>. QED  BY <6>1, FS_Subset, OrderIsSequence, SeqMonotonic
        <5>2. Len(list \o s) = Len(list) + Len(s) /\ Len(list) \in Nat /\ Len(s) \in Nat
          BY <5>1, ConcatProperties, LenProperties DEF TypeOK, RegistryTypes
        <5>. QED  BY <2>2, <3>1, <5>2
      <4>2. idx' \in 0 .. Len(list')  BY <2>2, <3>1, <4>1 DEF TypeOK, RegistryTypes
      <4>. QED
        BY <1>8, <2>1, <2>2, <3>1, <4>2, StepTypes
        DEF HrCopy, TypeOK, ActorTypes, UserStages, HrStages, RegisterStages
    <3>2. CASE list' # <<>>
      <4>1. 1 \in 1 .. Len(list') /\ (list')[1] \in Confs
        BY <2>3, <3>2, EmptySeq, LenProperties, ElementOfSeq
      <4>2. /\ conf' \in [Actors -> Confs \cup {None}]
            /\ conf'[HR] \in Confs /\ \A b \in Actors \ {HR} : conf'[b] = conf[b]
        BY <2>1, <2>2, <3>2, <4>1 DEF TypeOK, ActorTypes
      <4>. QED
        BY <1>8, <2>1, <2>2, <3>2, <4>1, <4>2, StepTypes
        DEF HrCopy, TypeOK, ActorTypes, UserStages, HrStages, RegisterStages
    <3>. QED  BY <3>1, <3>2
  <2>5. SessionTypes'  BY <1>8 DEF HrCopy, zkVars, TypeOK, SessionTypes
  <2>6. RegistryTypes'  BY <1>8, <2>3, <2>4 DEF HrCopy, TypeOK, RegistryTypes
  <2>. QED  BY <2>4, <2>5, <2>6 DEF TypeOK
<1>9. CASE HrDone
  <2>1. HR \in Actors  BY DEF Actors
  <2>2. ActorTypes'
    BY <1>9, <2>1, StepTypes
    DEF HrDone, TypeOK, ActorTypes, UserStages, HrStages, RegisterStages
  <2>3. SessionTypes'  BY <1>9 DEF HrDone, zkVars, TypeOK, SessionTypes
  <2>4. RegistryTypes'  BY <1>9 DEF HrDone, TypeOK, RegistryTypes
  <2>. QED  BY <2>2, <2>3, <2>4 DEF TypeOK
<1>10. CASE CloseSignal
  <2>1. SessionTypes'  BY <1>10 DEF CloseSignal, zkVars, TypeOK, SessionTypes
  <2>2. ActorTypes'  BY <1>10 DEF CloseSignal, TypeOK, ActorTypes
  <2>3. done' \in BOOLEAN  BY <1>10 DEF CloseSignal
  <2>4. RegistryTypes'  BY <1>10, <2>3 DEF CloseSignal, TypeOK, RegistryTypes
  <2>. QED  BY <2>1, <2>2, <2>4 DEF TypeOK
<1>11. CASE CloseRegisters
  <2>1. SessionTypes'  BY <1>11 DEF CloseRegisters, TypeOK, SessionTypes
  <2>2. ActorTypes'  BY <1>11 DEF CloseRegisters, TypeOK, ActorTypes
  <2>3. RegistryTypes'  BY <1>11 DEF CloseRegisters, TypeOK, RegistryTypes
  <2>. QED  BY <2>1, <2>2, <2>3 DEF TypeOK
<1>12. CASE UNCHANGED vars
  <2>1. SessionTypes'  BY <1>12 DEF vars, TypeOK, SessionTypes
  <2>2. ActorTypes'  BY <1>12 DEF vars, TypeOK, ActorTypes
  <2>3. RegistryTypes'  BY <1>12 DEF vars, TypeOK, RegistryTypes
  <2>. QED  BY <2>1, <2>2, <2>3 DEF TypeOK
<1>. QED
  BY <1>1, <1>2, <1>3, <1>4, <1>5, <1>6, <1>7, <1>8, <1>9, <1>10, <1>11, <1>12
  DEF Next, HrStep, Actors

\* All actions: the registry's variables have their types.
THEOREM TypeCorrect == Spec => []TypeOK
<1>. QED  BY InitTypes, NextTypes, PTL DEF Spec

-----------------------------------------------------------------------------
(***************************************************************************)
(* Sessions.                                                               *)
(***************************************************************************)
\* validateZookeeperClient, handleZkRestart, closeRegisters: at most one
\* session is connected at any time, the one of r.client: the client is
\* dropped only when its session has been given up or closed, and a new one is
\* opened only when there is none.
THEOREM SessionsKept == Spec => []NoSessionLeak
<1>1. Init => NoSessionLeak
  BY DEF Init, NoSessionLeak
<1>2. TypeOK /\ NoSessionLeak /\ [Next]_vars => NoSessionLeak'
  <2> SUFFICES ASSUME TypeOK, NoSessionLeak, [Next]_vars PROVE NoSessionLeak'  OBVIOUS
  <2> USE RegistryAssumption DEF NoSessionLeak
  <2>1. ASSUME ValidateClient, gone' = gone PROVE NoSessionLeak'
    <3>1. CASE client # None
      BY <2>1, <3>1 DEF ValidateClient
    <3>2. CASE client = None
      <4>1. \A k \in 1 .. granted : k \in gone
        BY <3>2 DEF TypeOK, SessionTypes
      <4>2. granted \in Nat /\ granted' = granted + 1 /\ client' = granted + 1
        BY <2>1, <3>2 DEF ValidateClient, TypeOK, SessionTypes, Sessions
      <4>. QED  BY <2>1, <4>1, <4>2
    <3>. QED  BY <3>1, <3>2
  <2>2. ASSUME NEW a \in Actors, RegisterStep(a) PROVE NoSessionLeak'
    <3>1. CASE RegisterValidate(a)
      <4>1. CASE ValidateClient  BY <2>1, <3>1, <4>1 DEF RegisterValidate
      <4>2. CASE UNCHANGED <<client, granted>>  BY <3>1, <4>2 DEF RegisterValidate
      <4>. QED  BY <3>1, <4>1, <4>2 DEF RegisterValidate
    <3>2. CASE RegisterCreate(a)  BY <3>2 DEF RegisterCreate, zkVars
    <3>3. CASE RegisterTemp(a)  BY <3>3 DEF RegisterTemp
    <3>4. CASE PathRace(a)  BY <3>4 DEF PathRace, zkVars
    <3>. QED  BY <2>2, <3>1, <3>2, <3>3, <3>4 DEF RegisterStep
  <2>3. CASE \E k \in Sessions : Expire(k)  BY <2>3 DEF Expire
  <2>4. CASE Disconnect  BY <2>4 DEF Disconnect
  <2>5. CASE \E u \in Users, c \in Confs : RegisterCheck(u, c)
    BY <2>5 DEF RegisterCheck, zkVars
  <2>6. CASE \E u \in Users : RegisterRecord(u)  BY <2>6 DEF RegisterRecord, zkVars
  <2>7. CASE HrLost  BY <2>7 DEF HrLost, zkVars
  <2>8. CASE HrReconnect
    <3>1. CASE ValidateClient  BY <2>1, <2>8, <3>1 DEF HrReconnect
    <3>2. CASE UNCHANGED <<client, granted>>  BY <2>8, <3>2 DEF HrReconnect
    <3>. QED  BY <2>8, <3>1, <3>2 DEF HrReconnect
  <2>9. CASE HrCopy  BY <2>9 DEF HrCopy, zkVars
  <2>10. CASE HrDone  BY <2>10 DEF HrDone, zkVars
  <2>11. CASE CloseSignal  BY <2>11 DEF CloseSignal, zkVars
  <2>12. CASE CloseRegisters  BY <2>12 DEF CloseRegisters
  <2>13. CASE UNCHANGED vars  BY <2>13 DEF vars
  <2>. QED
    BY <2>2, <2>3, <2>4, <2>5, <2>6, <2>7, <2>8, <2>9, <2>10, <2>11, <2>12, <2>13
    DEF Next, HrStep, Actors
<1>. QED  BY <1>1, <1>2, TypeCorrect, PTL DEF Spec

-----------------------------------------------------------------------------
(***************************************************************************)
(* The restart.                                                            *)
(***************************************************************************)
\* While handleZkRestart registers the services again it keeps the client it
\* connected, and what comes before its position in the slice is registered
\* for that client's session, or that session is lost.
RestartProgress ==
  /\ at[HR] \in RegisterStages \cup {"copy"} => client # None
  /\ at[HR] \in RegisterStages =>
       /\ idx >= 1 /\ conf[HR] = list[idx]
       /\ \A j \in 1 .. (idx - 1) : Up(list[j]) \/ client \in gone

\* Steps after which handleZkRestart is where it was and no node of a session
\* that is connected is gone keep its progress.
LEMMA ProgressFrame ==
  ASSUME RestartProgress, at'[HR] = at[HR], conf'[HR] = conf[HR], UNCHANGED <<list, idx>>,
         client' = client, gone \subseteq gone',
         \A m \in nodes : m.owner \notin gone => m \in nodes'
  PROVE  RestartProgress'
<1>1. ASSUME NEW c, Up(c) \/ client \in gone PROVE Up(c)' \/ client' \in gone'
  BY <1>1 DEF Up
<1>. QED  BY <1>1 DEF RestartProgress

\* A goroutine other than handleZkRestart leaves its place alone.
LEMMA OtherStep ==
  ASSUME TypeOK, NEW a \in Actors, a # HR, NEW s, Step(a, s)
  PROVE  at'[HR] = at[HR]
<1>1. at \in [Actors -> UserStages \cup HrStages] /\ HR \in Actors
  BY DEF TypeOK, ActorTypes, Actors
<1>. QED  BY <1>1 DEF Step

\* handleZkRestart moves itself.
LEMMA OwnStep ==
  ASSUME TypeOK, NEW s, Step(HR, s)
  PROVE  at'[HR] = s
<1>1. at \in [Actors -> UserStages \cup HrStages] /\ HR \in Actors
  BY DEF TypeOK, ActorTypes, Actors
<1>. QED  BY <1>1 DEF Step

\* A registration by a user, next to handleZkRestart.
LEMMA UserProgress ==
  ASSUME TypeOK, RestartProgress, NEW u \in Users, RegisterStep(u)
  PROVE  RestartProgress'
<1>1. u \in Actors /\ u # HR  BY RegistryAssumption DEF Actors
<1>2. at'[HR] = at[HR]
  <2>1. \E s : Step(u, s)
    BY <1>1 DEF RegisterStep, RegisterValidate, RegisterCreate, RegisterTemp, PathRace,
                Fail, Registered
  <2>. QED  BY <1>1, <2>1, OtherStep
<1>3. CASE RegisterValidate(u)
  <2>1. CASE client' = client
    BY <1>2, <1>3, <2>1, ProgressFrame DEF RegisterValidate
  <2>2. CASE client' # client
    <3>1. client = None  BY <1>3, <2>2 DEF RegisterValidate, ValidateClient
    <3>2. at[HR] \notin RegisterStages \cup {"copy"}  BY <3>1 DEF RestartProgress
    <3>. QED  BY <1>2, <3>2 DEF RestartProgress
  <2>. QED  BY <2>1, <2>2
<1>4. CASE RegisterCreate(u)
  BY <1>2, <1>4, ProgressFrame DEF RegisterCreate, zkVars
<1>5. CASE RegisterTemp(u)
  <2>1. nodes \subseteq nodes' /\ UNCHANGED <<conf, idx, list, client, gone>>
    BY <1>1, <1>5 DEF RegisterTemp, Registered
  <2>. QED  BY <1>2, <2>1, ProgressFrame
<1>6. CASE PathRace(u)  BY <1>2, <1>6, ProgressFrame DEF PathRace, zkVars
<1>. QED  BY <1>3, <1>4, <1>5, <1>6 DEF RegisterStep

\* registerTempZookeeperNode on behalf of handleZkRestart, when it succeeds:
\* everything up to the position in the slice is registered.
LEMMA TempDone ==
  ASSUME TypeOK, RestartProgress, RegisterTemp(HR), at'[HR] \in {"validate", "select"}
  PROVE  /\ client' = client /\ gone' = gone
         /\ \A j \in 1 .. idx : Up(list[j])' \/ client' \in gone'
         /\ \/ at'[HR] = "validate" /\ idx' = idx + 1 /\ idx < Len(list) /\ conf'[HR] = list[idx + 1]
            \/ at'[HR] = "select" /\ idx = Len(list)
<1>1. HR \in Actors /\ at[HR] = "temp" /\ HR \notin Users
  BY RegistryAssumption DEF Actors, RegisterTemp
<1>2. idx \in Nat /\ idx >= 1 /\ conf[HR] = list[idx] /\ idx <= Len(list) /\ Len(list) \in Nat
  BY <1>1, LenProperties DEF RestartProgress, RegisterStages, TypeOK, RegistryTypes
<1>3. /\ nodes' = nodes \cup {[conf |-> conf[HR], suffix |-> suffix[HR], owner |-> client]}
      /\ client \notin gone /\ Registered(HR)
  <2>1. ~Step(HR, "panic") /\ ~Step(HR, "reconnect")  BY OwnStep
  <2>. QED  BY <2>1 DEF RegisterTemp, Fail, NodeNamed
<1>4. UNCHANGED <<client, gone, list>>  BY DEF RegisterTemp
<1>5. \E m \in nodes' : m.conf = list[idx] /\ m.owner = client
  <2> DEFINE m == [conf |-> conf[HR], suffix |-> suffix[HR], owner |-> client]
  <2>1. m \in nodes' /\ m.conf = conf[HR] /\ m.owner = client  BY <1>3
  <2>. QED  BY <2>1, <1>2
<1>6. ASSUME NEW j \in 1 .. idx PROVE Up(list[j])' \/ client' \in gone'
  <2>1. CASE j = idx  BY <2>1, <1>3, <1>4, <1>5 DEF Up
  <2>2. CASE j # idx
    <3>1. Up(list[j]) \/ client \in gone
      BY <2>2, <1>1, <1>2 DEF RestartProgress, RegisterStages
    <3>. QED  BY <3>1, <1>3, <1>4 DEF Up
  <2>. QED  BY <2>1, <2>2
<1>7. \/ at'[HR] = "validate" /\ idx' = idx + 1 /\ idx < Len(list) /\ conf'[HR] = list[idx + 1]
      \/ at'[HR] = "select" /\ idx = Len(list)
  <2>1. CASE idx < Len(list)
    <3>1. Step(HR, "validate") /\ idx' = idx + 1 /\ conf' = [conf EXCEPT ![HR] = list[idx + 1]]
      BY <2>1, <1>3 DEF Registered
    <3>2. conf'[HR] = list[idx + 1]  BY <3>1, <1>1 DEF TypeOK, ActorTypes
    <3>. QED  BY <2>1, <3>1, <3>2, OwnStep
  <2>2. CASE ~(idx < Len(list))
    <3>1. Step(HR, "select")  BY <2>2, <1>3 DEF Registered
    <3>. QED  BY <2>2, <3>1, <1>2, OwnStep
  <2>. QED  BY <2>1, <2>2
<1>. QED  BY <1>4, <1>6, <1>7

\* A registration by handleZkRestart.
LEMMA HrProgress ==
  ASSUME TypeOK, RestartProgress, RegisterStep(HR)
  PROVE  RestartProgress'
<1>1. HR \in Actors  BY DEF Actors
<1>2. CASE RegisterValidate(HR)
  <2>1. at[HR] = "validate" /\ client # None
    BY <1>2 DEF RegisterValidate, RestartProgress, RegisterStages
  <2>2. Step(HR, "create") /\ client' = client
    BY <1>2, <2>1 DEF RegisterValidate, ValidateClient
  <2>3. at'[HR] = "create"  BY <2>2, OwnStep
  <2>4. UNCHANGED <<client, gone, nodes, list, idx, conf>>
    BY <1>2, <2>2 DEF RegisterValidate
  <2>. QED  BY <2>1, <2>3, <2>4 DEF RestartProgress, RegisterStages, Up
<1>3. CASE RegisterCreate(HR)
  <2>1. at[HR] = "create" /\ client # None
    BY <1>3 DEF RegisterCreate, RestartProgress, RegisterStages
  <2>2. at'[HR] \in {"temp", "reconnect"}
    BY <1>3, <2>1, OwnStep DEF RegisterCreate, Fail
  <2>3. UNCHANGED <<client, gone, nodes, list, idx, conf>>
    BY <1>3 DEF RegisterCreate, zkVars
  <2>. QED  BY <2>1, <2>2, <2>3 DEF RestartProgress, RegisterStages, Up
<1>4. CASE RegisterTemp(HR)
  <2>1. at[HR] = "temp" /\ client # None /\ client' = client
    BY <1>4 DEF RegisterTemp, RestartProgress, RegisterStages
  <2>2. at'[HR] \in {"reconnect", "validate", "select"}
    BY <1>4, <2>1, OwnStep DEF RegisterTemp, Fail, Registered
  <2>3. CASE at'[HR] \in {"reconnect", "select"}
    BY <2>3 DEF RestartProgress, RegisterStages
  <2>4. CASE at'[HR] = "validate"
    <3>1. /\ gone' = gone /\ \A j \in 1 .. idx : Up(list[j])' \/ client' \in gone'
          /\ idx' = idx + 1 /\ conf'[HR] = list[idx + 1]
      BY <1>4, <2>4, TempDone
    <3>2. list' = list /\ idx \in Nat
      BY <1>4, LenProperties DEF RegisterTemp, TypeOK, RegistryTypes
    <3>3. idx' >= 1 /\ conf'[HR] = list'[idx'] /\ 1 .. (idx' - 1) = 1 .. idx
      BY <3>1, <3>2
    <3>. QED  BY <2>1, <3>1, <3>2, <3>3 DEF RestartProgress
  <2>. QED  BY <2>2, <2>3, <2>4
<1>5. CASE PathRace(HR)
  <2>1. at'[HR] = "panic"  BY <1>5, OwnStep DEF PathRace
  <2>. QED  BY <2>1 DEF RestartProgress, RegisterStages
<1>. QED  BY <1>2, <1>3, <1>4, <1>5 DEF RegisterStep

\* Every step keeps the progress of a restart.
LEMMA NextProgress == TypeOK /\ RestartProgress /\ [Next]_vars => RestartProgress'
<1> SUFFICES ASSUME TypeOK, RestartProgress, [Next]_vars PROVE RestartProgress'  OBVIOUS
<1> USE RegistryAssumption
<1>1. CASE \E k \in Sessions : Expire(k)
  BY <1>1, ProgressFrame DEF Expire, OwnedBy
<1>2. CASE Disconnect  BY <1>2, ProgressFrame DEF Disconnect
<1>3. ASSUME NEW u \in Users, NEW c \in Confs, RegisterCheck(u, c)
      PROVE  RestartProgress'
  <2>1. u \in Actors /\ u # HR /\ HR \in Actors  BY DEF Actors
  <2>2. at'[HR] = at[HR]  BY <1>3, <2>1, OtherStep DEF RegisterCheck
  <2>3. conf'[HR] = conf[HR]  BY <1>3, <2>1 DEF RegisterCheck, TypeOK, ActorTypes
  <2>. QED  BY <1>3, <2>2, <2>3, ProgressFrame DEF RegisterCheck, zkVars
<1>4. ASSUME NEW u \in Users, RegisterStep(u) PROVE RestartProgress'
  BY <1>4, UserProgress
<1>5. ASSUME NEW u \in Users, RegisterRecord(u) PROVE RestartProgress'
  <2>1. u \in Actors /\ u # HR  BY DEF Actors
  <2>2. at'[HR] = at[HR]  BY <1>5, <2>1, OtherStep DEF RegisterRecord
  <2>. QED  BY <1>5, <2>2, ProgressFrame DEF RegisterRecord, zkVars
<1>6. CASE HrLost
  <2>1. at'[HR] = "reconnect"  BY <1>6, OwnStep DEF HrLost
  <2>. QED  BY <2>1 DEF RestartProgress, RegisterStages
<1>7. CASE HrReconnect
  <2>1. CASE at'[HR] = "panic"  BY <2>1 DEF RestartProgress, RegisterStages
  <2>2. CASE at'[HR] # "panic"
    <3>1. ValidateClient /\ at'[HR] = "copy"  BY <1>7, <2>2, OwnStep DEF HrReconnect
    <3>2. client' # None  BY <3>1 DEF ValidateClient, TypeOK, SessionTypes, Sessions
    <3>. QED  BY <3>1, <3>2 DEF RestartProgress, RegisterStages
  <2>. QED  BY <2>1, <2>2
<1>8. CASE HrCopy
  <2>1. CASE at'[HR] = "select"  BY <2>1 DEF RestartProgress, RegisterStages
  <2>2. CASE at'[HR] # "select"
    <3>1. /\ idx' = 1 /\ conf' = [conf EXCEPT ![HR] = list'[1]] /\ at'[HR] = "validate"
          /\ client' = client /\ at[HR] = "copy"
      BY <1>8, <2>2, OwnStep DEF HrCopy
    <3>2. conf'[HR] = list'[1]  BY <3>1 DEF TypeOK, ActorTypes, Actors
    <3>3. client' # None  BY <3>1 DEF RestartProgress
    <3>. QED  BY <3>1, <3>2, <3>3 DEF RestartProgress, RegisterStages
  <2>. QED  BY <2>1, <2>2
<1>9. CASE HrDone
  <2>1. at'[HR] = "done"  BY <1>9, OwnStep DEF HrDone
  <2>. QED  BY <2>1 DEF RestartProgress, RegisterStages
<1>10. CASE RegisterStep(HR)  BY <1>10, HrProgress
<1>11. CASE CloseSignal  BY <1>11, ProgressFrame DEF CloseSignal, zkVars
<1>12. CASE CloseRegisters
  <2>1. at'[HR] = "done"  BY <1>12 DEF CloseRegisters
  <2>. QED  BY <2>1 DEF RestartProgress, RegisterStages
<1>13. CASE UNCHANGED vars  BY <1>13, ProgressFrame DEF vars
<1>. QED
  BY <1>1, <1>2, <1>3, <1>4, <1>5, <1>6, <1>7, <1>8, <1>9, <1>10, <1>11, <1>12, <1>13
  DEF Next, HrStep

\* handleZkRestart: the only step that takes it from a registration back to
\* its wait is the registration of the last service of the slice.
LEMMA RestartEnd ==
  ASSUME TypeOK, [Next]_vars, at[HR] = "temp", at'[HR] = "select"
  PROVE  RegisterTemp(HR)
<1> USE RegistryAssumption
<1>1. ASSUME NEW u \in Users, NEW s, Step(u, s) PROVE FALSE
  <2>1. u \in Actors /\ u # HR  BY DEF Actors
  <2>. QED  BY <1>1, <2>1, OtherStep
<1>2. ASSUME NEW u \in Users, RegisterStep(u) PROVE FALSE
  BY <1>1, <1>2
  DEF RegisterStep, RegisterValidate, RegisterCreate, RegisterTemp, PathRace, Fail, Registered
<1>3. ASSUME NEW u \in Users, (\E c \in Confs : RegisterCheck(u, c)) \/ RegisterRecord(u)
      PROVE  FALSE
  BY <1>1, <1>3 DEF RegisterCheck, RegisterRecord
<1>4. ~(HrLost \/ HrReconnect \/ HrCopy \/ HrDone)
  BY DEF HrLost, HrReconnect, HrCopy, HrDone
<1>5. ~(\E k \in Sessions : Expire(k)) /\ ~Disconnect /\ ~CloseSignal /\ ~CloseRegisters
      /\ ~UNCHANGED vars
  BY DEF Expire, Disconnect, CloseSignal, CloseRegisters, vars
<1>6. RegisterStep(HR)  BY <1>2, <1>3, <1>4, <1>5 DEF Next, HrStep
<1>7. ~RegisterValidate(HR) /\ ~RegisterCreate(HR)  BY DEF RegisterValidate, RegisterCreate
<1>8. ~PathRace(HR)  BY OwnStep DEF PathRace
<1>. QED  BY <1>6, <1>7, <1>8 DEF RegisterStep

\* handleZkRestart, register: when it goes back to wait for the next loss of
\* the session, every service of its slice has an ephemeral node of the session
\* of r.client, unless that session is lost again, whatever users register and
\* however sessions end meanwhile.
THEOREM RestartRegistersAll == Spec => RestartComplete
<1>1. Init => RestartProgress  BY DEF Init, RestartProgress, RegisterStages, Actors
<1>2. TypeOK /\ RestartProgress /\ [Next]_vars => [WaitsComplete]_vars
  <2> SUFFICES ASSUME TypeOK, RestartProgress, [Next]_vars,
                      at[HR] = "temp", at'[HR] = "select", NEW i \in 1 .. Len(list)
               PROVE  Up(list[i])' \/ client' \in gone'
    BY DEF WaitsComplete
  <2>1. RegisterTemp(HR)  BY RestartEnd
  <2>. QED  BY <2>1, TempDone
<1>. QED  BY <1>1, <1>2, NextProgress, TypeCorrect, PTL DEF Spec, RestartComplete
=============================================================================
