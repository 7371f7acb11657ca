---------------------------- MODULE OperationsProofs ---------------------------
(* Proofs about what those who run the decoys deal with: the operator, for    *)
(* any specs and any number of edits and crashes, whichever calls to the API  *)
(* fail; the webhook forwarder and the limit of the dashboard's API, for any  *)
(* limits and windows; the dashboard's cache, queues and paged lists, for any *)
(* sessions, events and clients.                                              *)
EXTENDS Operator, Alerting, ApiLimiter, Dashboard, DashboardPages,
        SequenceTheorems, FiniteSetTheorems, WellFoundedInduction, TLAPS

-----------------------------------------------------------------------------
(* The operator.                                                              *)

(* The inductive invariant: what is already applied at each place of the      *)
(* handler.                                                                   *)
SecretFits == seen.creds => secret = SecretOf(seen)
DeploymentFits ==
    /\ deployment # Absent /\ deployment.port = seen.port
    /\ seen.creds => deployment.creds
    /\ SecretFits
ServiceFits == service # Absent /\ service.port = seen.port

AppliedSoFar ==
    /\ pc \in {"deployment", "write deployment"} => SecretFits
    /\ pc \in {"service", "write service"} => DeploymentFits
    /\ pc = "readiness" => DeploymentFits /\ ServiceFits
    /\ pc \in {"record", "status"} /\ outcome # "Error" => DeploymentFits /\ ServiceFits

CompleteFits ==
    complete /\ decoy # "gone" =>
        /\ deployment # Absent /\ deployment.port = handled.port
        /\ service # Absent /\ service.port = handled.port
        /\ handled.creds => deployment.creds /\ secret = SecretOf(handled)

Handling ==
    /\ pc # "idle" => decoy \in {"live", "deleting"}
    /\ pc \notin {"idle", "status"} => ~complete
    /\ pc = "status" => handled = seen /\ complete = (outcome # "Error")
    /\ pc = "write deployment" => found = (deployment # Absent)

(* The type invariant in two parts: the solver that knows arithmetic is poor   *)
(* at Boolean values.                                                         *)
Booleans ==
    /\ found \in BOOLEAN /\ complete \in BOOLEAN /\ pods \in BOOLEAN
    /\ deployment # Absent => deployment.creds \in BOOLEAN
ValuesFit ==
    /\ decoy \in {"absent", "live", "deleting", "gone"}
    /\ want \in Specs /\ handled \in Specs \cup {Never}
    /\ phase \in {"none", "Deploying", "Active"}
    /\ pc \in {"idle", "secret", "write secret", "deployment", "write deployment",
              "service", "write service", "readiness", "record", "status"}
    /\ seen \in Specs \cup {Never} /\ (pc # "idle" => seen \in Specs)
    /\ outcome \in {"none", "Deploying", "Active", "Error"}
    /\ secret \in [of : Specs, owned : BOOLEAN] \cup {Absent}
    /\ edits \in 0..MaxEdits /\ crashes \in 0..MaxCrashes

OperatorInv == Booleans /\ ValuesFit /\ ReferencesResolve /\ CompleteFits /\ AppliedSoFar /\ Handling

LEMMA TypeParts == Booleans /\ ValuesFit => TypeOK
BY DEF Booleans, ValuesFit, TypeOK

LEMMA InitInv == Init => OperatorInv
<1> SUFFICES ASSUME Init PROVE OperatorInv
  OBVIOUS
<1>1. Booleans
  BY DEF Init, Booleans
<1>2. ValuesFit
  BY OperatorAssumption DEF Init, ValuesFit
<1>3. ReferencesResolve /\ CompleteFits /\ AppliedSoFar /\ Handling
  BY DEF Init, ReferencesResolve, CompleteFits, AppliedSoFar, Handling
<1> QED
  BY <1>1, <1>2, <1>3 DEF OperatorInv

(* The objects of a spec are objects.                                         *)
LEMMA ObjectsExist ==
    ASSUME NEW s \in Specs
    PROVE  /\ SecretOf(s) # Absent /\ SecretOf(s) \in [of : Specs, owned : BOOLEAN]
           /\ DeploymentOf(s) # Absent /\ DeploymentOf(s).port = s.port
           /\ DeploymentOf(s).creds = s.creds /\ s.creds \in BOOLEAN
           /\ ServiceOf(s) # Absent /\ ServiceOf(s).port = s.port
BY OperatorAssumption DEF SecretOf, DeploymentOf, ServiceOf

(* A patch keeps the port it is compatible with and never takes the           *)
(* credentials away.                                                          *)
LEMMA PatchKeeps ==
    ASSUME NEW s \in Specs, deployment.creds \in BOOLEAN
    PROVE  /\ PatchedDeployment(s) # Absent
           /\ PatchedDeployment(s).port = s.port
           /\ PatchedDeployment(s).creds = (s.creds \/ deployment.creds)
<1>1. (s.creds \/ deployment.creds) \in BOOLEAN
  OBVIOUS
<1> QED
  BY <1>1, OperatorAssumption DEF PatchedDeployment

-----------------------------------------------------------------------------
(* The steps.                                                                 *)
LEMMA UserStep ==
    ASSUME OperatorInv, Create \/ Edit \/ Delete
    PROVE  OperatorInv'
<1> USE DEF OperatorInv, userVars, kopfVars, handlerVars, objects
<1>1. CASE Create
  <2>1. Booleans' /\ ValuesFit'
    <3>1. Booleans'
      BY <1>1 DEF Create, Booleans
    <3>2. ValuesFit'
      BY <1>1 DEF Create, ValuesFit
    <3> QED
      BY <3>1, <3>2
  <2>2. ReferencesResolve' /\ CompleteFits'
    BY <1>1 DEF Create, ReferencesResolve, CompleteFits
  <2>3. AppliedSoFar' /\ Handling'
    BY <1>1 DEF Create, AppliedSoFar, Handling, SecretFits, DeploymentFits, ServiceFits
  <2> QED
    BY <2>1, <2>2, <2>3
<1>2. CASE Edit
  <2>1. Booleans' /\ ValuesFit'
    <3>1. Booleans'
      BY <1>2 DEF Edit, Booleans
    <3>2. edits' \in 0..MaxEdits
      <4>1. edits \in 0..MaxEdits /\ MaxEdits \in Nat
        BY OperatorAssumption DEF ValuesFit
      <4>2. edits < MaxEdits /\ edits' = edits + 1
        BY <1>2 DEF Edit
      <4> QED
        BY <4>1, <4>2
    <3>3. ValuesFit'
      BY <1>2, <3>2 DEF Edit, ValuesFit
    <3> QED
      BY <3>1, <3>3
  <2>2. ReferencesResolve' /\ CompleteFits'
    BY <1>2 DEF Edit, ReferencesResolve, CompleteFits
  <2>3. AppliedSoFar' /\ Handling'
    BY <1>2 DEF Edit, AppliedSoFar, Handling, SecretFits, DeploymentFits, ServiceFits
  <2> QED
    BY <2>1, <2>2, <2>3
<1>3. CASE Delete
  <2>1. Booleans' /\ ValuesFit'
    <3>1. Booleans'
      BY <1>3 DEF Delete, Booleans
    <3>2. ValuesFit'
      BY ZenonT(30), <1>3 DEF Delete, ValuesFit
    <3> QED
      BY <3>1, <3>2
  <2>2. ReferencesResolve' /\ CompleteFits'
    BY <1>3 DEF Delete, ReferencesResolve, CompleteFits
  <2>3. AppliedSoFar' /\ Handling'
    BY <1>3 DEF Delete, AppliedSoFar, Handling, SecretFits, DeploymentFits, ServiceFits
  <2> QED
    BY <2>1, <2>2, <2>3
<1> QED
  BY <1>1, <1>2, <1>3

(* Pods come and go; objects go only when the Decoy is gone, and with it the  *)
(* handler.                                                                   *)
LEMMA ClusterStep ==
    ASSUME OperatorInv, PodReady \/ PodDies \/ Collect
    PROVE  OperatorInv'
<1> USE DEF OperatorInv, userVars, kopfVars, handlerVars, objects
<1>1. CASE PodReady \/ PodDies
  <2>1. Booleans' /\ ValuesFit'
    <3>1. Booleans'
      BY <1>1 DEF PodReady, PodDies, Booleans
    <3>2. ValuesFit'
      BY ZenonT(30), <1>1 DEF PodReady, PodDies, ValuesFit
    <3> QED
      BY <3>1, <3>2
  <2>2. UNCHANGED <<decoy, handled, phase, complete, pc, seen, found, outcome, secret, deployment, service>>
    BY <1>1 DEF PodReady, PodDies
  <2>3. ReferencesResolve' /\ CompleteFits' /\ AppliedSoFar' /\ Handling'
    BY <2>2 DEF ReferencesResolve, CompleteFits, AppliedSoFar, Handling, SecretFits,
       DeploymentFits, ServiceFits
  <2> QED
    BY <2>1, <2>2, <2>3
<1>2. CASE Collect
  <2>1. decoy = "gone" /\ pc = "idle"
    BY <1>2 DEF Collect, Handling
  <2>2. Booleans'
    BY <1>2 DEF Collect, Booleans
  <2>3. ValuesFit'
    BY <1>2 DEF Collect, ValuesFit
  <2>4. ReferencesResolve' /\ CompleteFits' /\ AppliedSoFar' /\ Handling'
    BY <1>2, <2>1 DEF Collect, ReferencesResolve, CompleteFits, AppliedSoFar, Handling
  <2> QED
    BY <2>2, <2>3, <2>4
<1> QED
  BY <1>1, <1>2

LEMMA KopfStep ==
    ASSUME OperatorInv, Handle \/ DeleteDecoy \/ Crash
    PROVE  OperatorInv'
<1> USE DEF OperatorInv, userVars, kopfVars, handlerVars, objects, Goto
<1>1. CASE Handle
  <2>1. Booleans' /\ ValuesFit'
    <3>1. Booleans'
      BY <1>1 DEF Handle, Booleans
    <3>2. ValuesFit'
      BY <1>1 DEF Handle, ValuesFit
    <3> QED
      BY <3>1, <3>2
  <2>2. ReferencesResolve' /\ CompleteFits'
    BY <1>1 DEF Handle, ReferencesResolve, CompleteFits, SecretFits
  <2>3. AppliedSoFar' /\ Handling'
    BY <1>1 DEF Handle, AppliedSoFar, Handling, SecretFits
  <2> QED
    BY <2>1, <2>2, <2>3
<1>2. CASE DeleteDecoy
  <2>1. Booleans' /\ ValuesFit'
    <3>1. Booleans'
      BY <1>2 DEF DeleteDecoy, Booleans
    <3>2. ValuesFit'
      BY <1>2 DEF DeleteDecoy, ValuesFit
    <3> QED
      BY <3>1, <3>2
  <2>2. ReferencesResolve' /\ CompleteFits'
    BY <1>2 DEF DeleteDecoy, ReferencesResolve, CompleteFits
  <2>3. AppliedSoFar' /\ Handling'
    BY <1>2 DEF DeleteDecoy, AppliedSoFar, Handling
  <2> QED
    BY <2>1, <2>2, <2>3
<1>3. CASE Crash
  <2>1. Booleans' /\ ValuesFit'
    <3>1. Booleans'
      BY <1>3 DEF Crash, Booleans
    <3>2. crashes' \in 0..MaxCrashes
      <4>1. crashes \in 0..MaxCrashes /\ MaxCrashes \in Nat
        BY OperatorAssumption DEF ValuesFit
      <4>2. crashes < MaxCrashes /\ crashes' = crashes + 1
        BY <1>3 DEF Crash
      <4> QED
        BY <4>1, <4>2
    <3>3. ValuesFit'
      BY <1>3, <3>2 DEF Crash, ValuesFit
    <3> QED
      BY <3>1, <3>3
  <2>2. ReferencesResolve' /\ CompleteFits'
    BY <1>3 DEF Crash, ReferencesResolve, CompleteFits
  <2>3. AppliedSoFar' /\ Handling'
    BY <1>3 DEF Crash, AppliedSoFar, Handling
  <2> QED
    BY <2>1, <2>2, <2>3
<1> QED
  BY <1>1, <1>2, <1>3

(* A read changes no object: the handler goes on to the write, or to its end. *)
LEMMA ReadStep ==
    ASSUME OperatorInv, ReadSecret \/ ReadDeployment \/ ReadService
    PROVE  OperatorInv'
<1> USE DEF OperatorInv, userVars, kopfVars, handlerVars, objects, Goto, Fails, Read, Steps
<1>1. CASE ReadSecret
  <2>1. Booleans' /\ ValuesFit'
    <3>1. Booleans'
      BY <1>1 DEF ReadSecret, Booleans
    <3>2. ValuesFit'
      BY <1>1 DEF ReadSecret, ValuesFit
    <3> QED
      BY <3>1, <3>2
  <2>2. ReferencesResolve' /\ CompleteFits'
    BY <1>1 DEF ReadSecret, ReferencesResolve, CompleteFits
  <2>3. AppliedSoFar' /\ Handling'
    BY <1>1 DEF ReadSecret, AppliedSoFar, Handling
  <2> QED
    BY <2>1, <2>2, <2>3
<1>2. CASE ReadDeployment
  <2>1. Booleans' /\ ValuesFit'
    <3>1. Booleans'
      BY <1>2 DEF ReadDeployment, Booleans
    <3>2. ValuesFit'
      BY <1>2 DEF ReadDeployment, ValuesFit
    <3> QED
      BY <3>1, <3>2
  <2>2. ReferencesResolve' /\ CompleteFits'
    BY <1>2 DEF ReadDeployment, ReferencesResolve, CompleteFits, SecretFits
  <2>3. AppliedSoFar' /\ Handling'
    BY <1>2 DEF ReadDeployment, AppliedSoFar, Handling, SecretFits
  <2> QED
    BY <2>1, <2>2, <2>3
<1>3. CASE ReadService
  <2>1. Booleans' /\ ValuesFit'
    <3>1. Booleans'
      BY <1>3 DEF ReadService, Booleans
    <3>2. ValuesFit'
      BY <1>3 DEF ReadService, ValuesFit
    <3> QED
      BY <3>1, <3>2
  <2>2. ReferencesResolve' /\ CompleteFits'
    BY <1>3 DEF ReadService, ReferencesResolve, CompleteFits, SecretFits, DeploymentFits
  <2>3. AppliedSoFar' /\ Handling'
    BY <1>3 DEF ReadService, AppliedSoFar, Handling, SecretFits, DeploymentFits
  <2> QED
    BY <2>1, <2>2, <2>3
<1> QED
  BY <1>1, <1>2, <1>3

(* Whether the write took effect or not, the handler goes on only if it       *)
(* returned.                                                                  *)
LEMMA WriteSecretStep ==
    ASSUME OperatorInv, WriteSecret
    PROVE  OperatorInv'
<1> USE DEF OperatorInv
<1>1. /\ pc = "write secret" /\ UNCHANGED <<userVars, kopfVars, seen, found, crashes, pods, deployment, service>>
      /\ \/ secret' = SecretOf(seen) /\ pc' = "deployment" /\ outcome' = outcome
         \/ (secret' = SecretOf(seen) \/ secret' = secret) /\ outcome' = "Error" /\ pc' = "record"
  BY DEF WriteSecret, Written, Steps, Fails, Goto
<1>2. seen \in Specs /\ decoy \in {"live", "deleting"} /\ ~complete
  BY <1>1 DEF ValuesFit, Handling
<1>3. SecretOf(seen) # Absent /\ SecretOf(seen) \in [of : Specs, owned : BOOLEAN]
  BY <1>2, ObjectsExist
<1>4. Booleans' /\ ValuesFit'
  <2>1. Booleans'
    BY <1>1, <1>3 DEF Booleans, userVars, kopfVars
  <2>2. ValuesFit'
    BY <1>1, <1>3 DEF ValuesFit, userVars, kopfVars
  <2> QED
    BY <2>1, <2>2
<1>5. ReferencesResolve' /\ CompleteFits'
  BY <1>1, <1>2, <1>3 DEF ReferencesResolve, CompleteFits, userVars, kopfVars
<1>6. AppliedSoFar' /\ Handling'
  BY <1>1, <1>2 DEF AppliedSoFar, Handling, SecretFits, userVars, kopfVars
<1> QED
  BY <1>4, <1>5, <1>6

LEMMA WriteDeploymentStep ==
    ASSUME OperatorInv, WriteDeployment
    PROVE  OperatorInv'
<1> USE DEF OperatorInv
<1> DEFINE Applied == deployment' = IF found THEN PatchedDeployment(seen) ELSE DeploymentOf(seen)
<1>1. /\ pc = "write deployment" /\ UNCHANGED <<userVars, kopfVars, seen, found, crashes, pods, secret, service>>
      /\ \/ Applied /\ pc' = "service" /\ outcome' = outcome
         \/ (Applied \/ deployment' = deployment) /\ outcome' = "Error" /\ pc' = "record"
  BY DEF WriteDeployment, Written, Steps, Fails, Goto
<1>2. seen \in Specs /\ decoy \in {"live", "deleting"} /\ ~complete /\ SecretFits
      /\ found = (deployment # Absent)
  BY <1>1 DEF ValuesFit, Handling, AppliedSoFar
<1>3. ASSUME Applied
      PROVE  /\ deployment' # Absent /\ deployment'.port = seen.port
             /\ deployment'.creds \in BOOLEAN /\ (seen.creds => deployment'.creds)
             /\ deployment'.creds => seen.creds \/ (deployment # Absent /\ deployment.creds)
  <2>1. CASE found
    <3>1. deployment # Absent /\ deployment.creds \in BOOLEAN
      BY <1>2, <2>1 DEF Booleans
    <3>2. deployment' = PatchedDeployment(seen)
      BY <1>3, <2>1
    <3> QED
      BY <3>1, <3>2, <1>2, PatchKeeps, ObjectsExist
  <2>2. CASE ~found
    BY <1>2, <1>3, <2>2, ObjectsExist
  <2> QED
    BY <1>2, <2>1, <2>2
<1>4. SecretOf(seen) # Absent
  BY <1>2, ObjectsExist
<1> HIDE DEF Applied
<1>5. Booleans' /\ ValuesFit'
  <2>1. Booleans'
    BY <1>1, <1>3 DEF Booleans, userVars, kopfVars
  <2>2. ValuesFit'
    BY <1>1, <1>3 DEF ValuesFit, userVars, kopfVars
  <2> QED
    BY <2>1, <2>2
<1>6. ReferencesResolve' /\ CompleteFits'
  BY <1>1, <1>2, <1>3, <1>4 DEF ReferencesResolve, CompleteFits, SecretFits, userVars, kopfVars
<1>7. AppliedSoFar' /\ Handling'
  BY <1>1, <1>2, <1>3 DEF AppliedSoFar, Handling, SecretFits, DeploymentFits, userVars, kopfVars
<1> QED
  BY <1>5, <1>6, <1>7

LEMMA WriteServiceStep ==
    ASSUME OperatorInv, WriteService
    PROVE  OperatorInv'
<1> USE DEF OperatorInv
<1>1. /\ pc = "write service" /\ UNCHANGED <<userVars, kopfVars, seen, found, crashes, pods, secret, deployment>>
      /\ \/ service' = ServiceOf(seen) /\ pc' = "readiness" /\ outcome' = outcome
         \/ (service' = ServiceOf(seen) \/ service' = service) /\ outcome' = "Error" /\ pc' = "record"
  BY DEF WriteService, Written, Steps, Fails, Goto
<1>2. seen \in Specs /\ decoy \in {"live", "deleting"} /\ ~complete /\ DeploymentFits
  BY <1>1 DEF ValuesFit, Handling, AppliedSoFar
<1>3. ServiceOf(seen) # Absent /\ ServiceOf(seen).port = seen.port
  BY <1>2, ObjectsExist
<1>4. Booleans' /\ ValuesFit'
  <2>1. Booleans'
    BY <1>1 DEF Booleans, userVars, kopfVars
  <2>2. ValuesFit'
    BY <1>1 DEF ValuesFit, userVars, kopfVars
  <2> QED
    BY <2>1, <2>2
<1>5. ReferencesResolve' /\ CompleteFits'
  BY <1>1, <1>2, <1>3 DEF ReferencesResolve, CompleteFits, userVars, kopfVars
<1>6. AppliedSoFar' /\ Handling'
  BY <1>1, <1>2, <1>3 DEF AppliedSoFar, Handling, SecretFits, DeploymentFits, ServiceFits,
     userVars, kopfVars
<1> QED
  BY <1>4, <1>5, <1>6

(* The end of a handling.                                                     *)
LEMMA EndStep ==
    ASSUME OperatorInv, Readiness \/ Record \/ PostStatus
    PROVE  OperatorInv'
<1> USE DEF OperatorInv, userVars, kopfVars, handlerVars, objects, Goto
<1>1. CASE Readiness
  <2>1. Booleans' /\ ValuesFit'
    <3>1. Booleans'
      BY <1>1 DEF Readiness, Booleans
    <3>2. ValuesFit'
      BY <1>1 DEF Readiness, ValuesFit
    <3> QED
      BY <3>1, <3>2
  <2>2. ReferencesResolve' /\ CompleteFits'
    BY <1>1 DEF Readiness, ReferencesResolve, CompleteFits, SecretFits, DeploymentFits, ServiceFits
  <2>3. AppliedSoFar' /\ Handling'
    BY <1>1 DEF Readiness, AppliedSoFar, Handling, SecretFits, DeploymentFits, ServiceFits
  <2> QED
    BY <2>1, <2>2, <2>3
<1>2. CASE Record
  <2>1. Booleans' /\ ValuesFit'
    <3>1. Booleans'
      BY <1>2 DEF Record, Booleans
    <3>2. ValuesFit'
      BY <1>2 DEF Record, ValuesFit
    <3> QED
      BY <3>1, <3>2
  <2>2. ReferencesResolve' /\ CompleteFits'
    <3>1. CASE outcome = "Error"
      <4>1. ~complete'
        BY <1>2, <3>1 DEF Record
      <4> QED
        BY <1>2, <4>1 DEF Record, ReferencesResolve, CompleteFits
    <3>2. CASE outcome # "Error"
      <4>1. DeploymentFits /\ ServiceFits
        BY <1>2, <3>2 DEF Record, AppliedSoFar
      <4> QED
        BY <1>2, <4>1 DEF Record, ReferencesResolve, CompleteFits, DeploymentFits, ServiceFits, SecretFits
    <3> QED
      BY <3>1, <3>2
  <2>3. AppliedSoFar' /\ Handling'
    BY <1>2 DEF Record, AppliedSoFar, Handling, SecretFits, DeploymentFits, ServiceFits
  <2> QED
    BY <2>1, <2>2, <2>3
<1>3. CASE PostStatus
  <2>1. outcome \in CrdPhases => outcome \in {"Deploying", "Active"} /\ DeploymentFits /\ ServiceFits
    BY <1>3 DEF PostStatus, CrdPhases, ValuesFit, AppliedSoFar
  <2>2. Booleans'
    BY <1>3 DEF PostStatus, Booleans
  <2>3. ValuesFit'
    BY <1>3, <2>1 DEF PostStatus, ValuesFit
  <2>4. ReferencesResolve' /\ CompleteFits'
    BY <1>3, <2>1 DEF PostStatus, ReferencesResolve, CompleteFits, DeploymentFits, ServiceFits
  <2>5. AppliedSoFar' /\ Handling'
    BY <1>3 DEF PostStatus, AppliedSoFar, Handling
  <2> QED
    BY <2>2, <2>3, <2>4, <2>5
<1> QED
  BY <1>1, <1>2, <1>3

LEMMA InvStep == OperatorInv /\ [Next]_vars => OperatorInv'
<1> SUFFICES ASSUME OperatorInv, [Next]_vars PROVE OperatorInv'
  OBVIOUS
<1>1. CASE Create \/ Edit \/ Delete
  BY <1>1, UserStep
<1>2. CASE PodReady \/ PodDies \/ Collect
  BY <1>2, ClusterStep
<1>3. CASE Handle \/ DeleteDecoy \/ Crash
  BY <1>3, KopfStep
<1>4. CASE ReconcileDecoy
  <2>1. CASE ReadSecret \/ ReadDeployment \/ ReadService
    BY <2>1, ReadStep
  <2>2. CASE WriteSecret \/ WriteDeployment \/ WriteService
    BY <2>2, WriteSecretStep, WriteDeploymentStep, WriteServiceStep
  <2>3. CASE Readiness \/ Record \/ PostStatus
    BY <2>3, EndStep
  <2> QED
    BY <1>4, <2>1, <2>2, <2>3 DEF ReconcileDecoy
<1>5. CASE UNCHANGED vars
  <2>0. /\ decoy' = decoy /\ want' = want /\ edits' = edits
        /\ handled' = handled /\ phase' = phase /\ complete' = complete
        /\ pc' = pc /\ seen' = seen /\ found' = found /\ outcome' = outcome /\ crashes' = crashes
        /\ secret' = secret /\ deployment' = deployment /\ service' = service /\ pods' = pods
    BY <1>5 DEF vars, userVars, kopfVars, handlerVars, objects
  <2>1. Booleans'
    BY <2>0 DEF Booleans, OperatorInv
  <2>2. ValuesFit'
    <3>1. ValuesFit
      BY DEF OperatorInv
    <3>2. /\ decoy' \in {"absent", "live", "deleting", "gone"}
          /\ want' \in Specs /\ handled' \in Specs \cup {Never}
          /\ phase' \in {"none", "Deploying", "Active"}
      BY ONLY <2>0, <3>1 DEF ValuesFit
    <3>3. /\ pc' \in {"idle", "secret", "write secret", "deployment", "write deployment",
                      "service", "write service", "readiness", "record", "status"}
          /\ seen' \in Specs \cup {Never} /\ (pc' # "idle" => seen' \in Specs)
      BY ONLY <2>0, <3>1 DEF ValuesFit
    <3>4. /\ outcome' \in {"none", "Deploying", "Active", "Error"}
          /\ secret' \in [of : Specs, owned : BOOLEAN] \cup {Absent}
          /\ edits' \in 0..MaxEdits /\ crashes' \in 0..MaxCrashes
      BY ONLY <2>0, <3>1 DEF ValuesFit
    <3> QED
      BY ONLY <3>2, <3>3, <3>4 DEF ValuesFit
  <2>3. ReferencesResolve' /\ CompleteFits'
    BY <2>0 DEF ReferencesResolve, CompleteFits, OperatorInv
  <2>4. AppliedSoFar' /\ Handling'
    BY <2>0 DEF AppliedSoFar, Handling, SecretFits, DeploymentFits, ServiceFits, OperatorInv
  <2> QED
    BY <2>1, <2>2, <2>3, <2>4 DEF OperatorInv
<1> QED
  BY <1>1, <1>2, <1>3, <1>4, <1>5 DEF Next

-----------------------------------------------------------------------------
(* In every reachable state the inductive invariant holds, whichever calls    *)
(* fail and wherever the operator dies.                                       *)
THEOREM InvAlways == Spec => []OperatorInv
BY InitInv, InvStep, PTL DEF Spec

(* The variables stay in their types; a phase is one the CRD admits, whatever *)
(* reconcile_decoy puts into its patch.                                       *)
THEOREM TypeCorrect == Spec => []TypeOK
<1>1. OperatorInv => TypeOK
  BY TypeParts DEF OperatorInv
<1> QED
  BY <1>1, InvAlways, PTL

(* The secret a deployment names exists, and so do the objects behind a       *)
(* phase: reconcile_decoy makes them in this order and stops at an error.     *)
THEOREM ReferencesAlwaysResolve == Spec => []ReferencesResolve
<1>1. OperatorInv => ReferencesResolve
  BY DEF OperatorInv
<1> QED
  BY <1>1, InvAlways, PTL

(* A secret is one of a spec that allows credentials.                         *)
SecretAllowed ==
    /\ pc \in {"secret", "write secret"} => seen.creds
    /\ secret # Absent => secret.of.creds

LEMMA SecretAllowedStep == OperatorInv /\ SecretAllowed /\ [Next]_vars => SecretAllowed'
<1> SUFFICES ASSUME OperatorInv, SecretAllowed, [Next]_vars PROVE SecretAllowed'
  OBVIOUS
<1> USE DEF SecretAllowed, userVars, kopfVars, handlerVars, objects, Goto
<1>1. CASE Create \/ Edit \/ Delete \/ PodReady \/ PodDies
  BY <1>1 DEF Create, Edit, Delete, PodReady, PodDies
<1>2. CASE Collect
  BY <1>2 DEF Collect
<1>3. CASE Handle \/ DeleteDecoy \/ Crash
  BY <1>3 DEF Handle, DeleteDecoy, Crash
<1>4. CASE ReadSecret \/ ReadDeployment \/ ReadService
  BY <1>4 DEF ReadSecret, ReadDeployment, ReadService, Read, Steps, Fails
<1>5. CASE WriteSecret
  <2>1. /\ pc = "write secret" /\ seen' = seen /\ pc' \in {"deployment", "record"}
        /\ secret' = SecretOf(seen) \/ secret' = secret
    BY <1>5 DEF WriteSecret, Written, Steps, Fails
  <2>2. SecretOf(seen).of = seen
    BY DEF SecretOf
  <2>3. seen.creds
    BY <2>1
  <2>4. secret' = SecretOf(seen) => secret'.of.creds
    BY <2>2, <2>3
  <2>5. secret' # Absent => secret'.of.creds
    BY <2>1, <2>4
  <2> QED
    BY <2>1, <2>5
<1>6. CASE WriteDeployment \/ WriteService
  <2>1. secret' = secret /\ pc' \in {"service", "readiness", "record"}
    BY <1>6 DEF WriteDeployment, WriteService, Written, Steps, Fails
  <2> QED
    BY <2>1
<1>7. CASE Readiness \/ Record \/ PostStatus
  BY <1>7 DEF Readiness, Record, PostStatus
<1>8. CASE UNCHANGED vars
  <2>1. pc' = pc /\ seen' = seen /\ secret' = secret
    BY <1>8 DEF vars
  <2> QED
    BY <2>1
<1> QED
  BY <1>1, <1>2, <1>3, <1>4, <1>5, <1>6, <1>7, <1>8 DEF Next, ReconcileDecoy

(* A handling that ended without an error has left every object as its spec   *)
(* asks, but for credentials: what is left of them was allowed by an earlier  *)
(* spec.                                                                      *)
THEOREM CompleteAlwaysApplied == Spec => []CompleteIsApplied
<1>1. Init => SecretAllowed
  BY DEF Init, SecretAllowed
<1>2. ASSUME OperatorInv, SecretAllowed PROVE CompleteIsApplied
  <2>1. SUFFICES ASSUME complete, decoy # "gone"
                 PROVE  /\ deployment # Absent /\ deployment.port = handled.port
                        /\ service # Absent /\ service.port = handled.port
                        /\ handled.creds => deployment.creds /\ secret = SecretOf(handled)
                        /\ deployment.creds => secret # Absent /\ secret.of.creds
    BY DEF CompleteIsApplied
  <2> QED
    BY <1>2, <2>1 DEF OperatorInv, CompleteFits, ReferencesResolve, SecretAllowed
<1> QED
  BY <1>1, <1>2, InvAlways, SecretAllowedStep, PTL DEF Spec

-----------------------------------------------------------------------------
(* What the limiters remember.                                                *)

\* A set of naturals that has a bound has a greatest element.
LEMMA Greatest ==
    ASSUME NEW S \in SUBSET Nat, NEW e \in S, NEW b \in Nat, \A n \in S : n <= b
    PROVE  \E m \in S : \A k \in S : k <= m
<1> DEFINE T == {b - n : n \in S}
<1>1. T \subseteq Nat
  OBVIOUS
<1>2. b - e \in T
  OBVIOUS
<1>3. T # {}
  BY <1>2
<1>4. PICK x \in T : \A y \in T : ~ (<<y, x>> \in OpToRel(<, Nat))
  BY <1>1, <1>3, WFMin, NatLessThanWellFounded, Zenon
<1>5. \A y \in T : ~ (y < x)
  BY <1>1, <1>4 DEF OpToRel
<1>6. PICK m \in S : x = b - m
  OBVIOUS
<1>7. ASSUME NEW k \in S PROVE k <= m
  <2>1. ~ (b - k < x)
    BY <1>5
  <2>2. k \in Nat /\ m \in Nat
    OBVIOUS
  <2> QED
    BY <2>1, <2>2, <1>6
<1> QED
  BY <1>7

\* Since returns the times from some place on: all before it have expired, the
\* first of them has not.
LEMMA SinceIsTheRest ==
    ASSUME NEW times \in Seq(Nat), NEW from \in Int
    PROVE  \E n \in 0 .. Len(times) :
               /\ Since(times, from) = SubSeq(times, n + 1, Len(times))
               /\ \A i \in 1 .. n : times[i] < from
               /\ n < Len(times) => times[n + 1] >= from
<1> DEFINE S == Expired(times, from)
           max == CHOOSE m \in S : \A k \in S : k <= m
<1>1. Len(times) \in Nat
  BY LenProperties
<1>2. S \in SUBSET Nat /\ 0 \in S /\ \A n \in S : n <= Len(times)
  BY <1>1 DEF Expired
<1>3. \E m \in S : \A k \in S : k <= m
  <2> HIDE DEF S
  <2> QED
    BY <1>1, <1>2, Greatest
<1>4. max \in S /\ \A k \in S : k <= max
  BY <1>3, Zenon
<1>5. Since(times, from) = SubSeq(times, max + 1, Len(times))
  BY Zenon DEF Since
<1>6. max \in 0 .. Len(times) /\ \A i \in 1 .. max : times[i] < from
  BY <1>4 DEF Expired
<1>7. ASSUME max < Len(times) PROVE times[max + 1] >= from
  <2>1. max + 1 \notin S
    <3> HIDE DEF max, S
    <3> QED
      BY <1>1, <1>2, <1>4
  <2>2. \E i \in 1 .. max + 1 : ~ (times[i] < from)
    <3> HIDE DEF max
    <3> QED
      BY <2>1, <1>1, <1>6, <1>7 DEF Expired
  <2>3. max + 1 \in 1 .. Len(times) /\ times[max + 1] \in Nat
    <3> HIDE DEF max
    <3> QED
      BY <1>1, <1>6, <1>7, ElementOfSeq
  <2> HIDE DEF max
  <2> QED
    BY <2>2, <2>3, <1>6
<1> QED
  <2> HIDE DEF max
  <2> QED
    BY <1>5, <1>6, <1>7

\* memory is what is left of the history all: only what is earlier than from
\* was taken off its front.
Remembers(memory, all, from) ==
    \E k \in 0 .. Len(all) :
        /\ memory = SubSeq(all, k + 1, Len(all))
        /\ \A i \in 1 .. k : all[i] < from
InOrder(times, now) ==
    /\ \A i \in 1 .. Len(times) : times[i] <= now
    /\ \A i, j \in 1 .. Len(times) : i <= j => times[i] <= times[j]

\* Tails of sequences, by their elements.
LEMMA Tails ==
    ASSUME NEW all \in Seq(Nat), NEW k \in 0 .. Len(all)
    PROVE  /\ SubSeq(all, k + 1, Len(all)) \in Seq(Nat)
           /\ Len(SubSeq(all, k + 1, Len(all))) = Len(all) - k
           /\ \A i \in 1 .. Len(all) - k : SubSeq(all, k + 1, Len(all))[i] = all[k + i]
<1>1. Len(all) \in Nat
  BY LenProperties
<1>2. k + 1 \in 1 .. Len(all) + 1
  BY <1>1
<1>3. \A i \in k + 1 .. Len(all) : all[i] \in Nat
  BY <1>1, ElementOfSeq
<1> QED
  BY <1>1, <1>2, <1>3, SubSeqProperties

LEMMA Elements ==
    ASSUME NEW all \in Seq(Nat)
    PROVE  Len(all) \in Nat /\ \A i \in 1 .. Len(all) : all[i] \in Nat
BY LenProperties, ElementOfSeq

\* Purging a memory leaves a memory, and of the history just what is recent.
LEMMA SinceOfMemory ==
    ASSUME NEW all \in Seq(Nat), NEW memory, NEW from \in Int,
           Remembers(memory, all, from)
    PROVE  \E n \in 0 .. Len(all) :
               /\ Since(memory, from) = SubSeq(all, n + 1, Len(all))
               /\ \A i \in 1 .. n : all[i] < from
               /\ n < Len(all) => all[n + 1] >= from
<1>1. PICK k \in 0 .. Len(all) : /\ memory = SubSeq(all, k + 1, Len(all))
                                 /\ \A i \in 1 .. k : all[i] < from
  BY DEF Remembers
<1>2. /\ memory \in Seq(Nat) /\ Len(memory) = Len(all) - k
      /\ \A i \in 1 .. Len(memory) : memory[i] = all[k + i]
  BY <1>1, Tails
<1>3. PICK m \in 0 .. Len(memory) :
          /\ Since(memory, from) = SubSeq(memory, m + 1, Len(memory))
          /\ \A i \in 1 .. m : memory[i] < from
          /\ m < Len(memory) => memory[m + 1] >= from
  BY <1>2, SinceIsTheRest
<1>4. Len(all) \in Nat /\ k + m \in 0 .. Len(all)
  BY <1>2, Elements
<1>5. SubSeq(memory, m + 1, Len(memory)) = SubSeq(all, k + m + 1, Len(all))
  <2> DEFINE a == SubSeq(memory, m + 1, Len(memory))
             b == SubSeq(all, k + m + 1, Len(all))
  <2>1. /\ a \in Seq(Nat) /\ Len(a) = Len(memory) - m
        /\ \A i \in 1 .. Len(memory) - m : a[i] = memory[m + i]
    BY <1>2, Tails
  <2>2. /\ b \in Seq(Nat) /\ Len(b) = Len(all) - (k + m)
        /\ \A i \in 1 .. Len(all) - (k + m) : b[i] = all[(k + m) + i]
    BY <1>4, Tails
  <2> HIDE DEF a, b
  <2>0. k \in Nat /\ m \in Nat /\ Len(memory) \in Nat /\ m <= Len(memory)
    BY <1>2, <1>4
  <2>3. Len(a) = Len(b)
    BY <2>1, <2>2, <1>2, <1>4
  <2>4. ASSUME NEW i \in 1 .. Len(a) PROVE a[i] = b[i]
    <3>0. i \in 1 .. Len(memory) - m
      BY <2>1
    <3>1. m + i \in 1 .. Len(memory)
      BY <3>0, <2>0
    <3>2. memory[m + i] = all[k + (m + i)]
      BY <3>1, <1>2
    <3>4. k \in Nat /\ m \in Nat /\ i \in Nat
      BY <3>0, <2>0
    <3>5. k + (m + i) = (k + m) + i
      BY <3>4
    <3>3. i \in 1 .. Len(memory) - m /\ i \in 1 .. Len(all) - (k + m)
      BY <3>0, <2>1, <2>2, <2>3
    <3> QED
      BY <2>1, <2>2, <3>2, <3>3, <3>5
  <2>5. a = b
    BY <2>1, <2>2, <2>3, <2>4, SeqEqual
  <2> QED
    BY <2>5 DEF a, b
<1>6. ASSUME NEW i \in 1 .. k + m PROVE all[i] < from
  <2>1. CASE i <= k
    BY <2>1, <1>1
  <2>2. CASE i > k
    <3>1. k \in Nat /\ m \in Nat /\ m <= Len(memory) /\ Len(memory) \in Nat
      BY <1>2, <1>4
    <3>2. i \in Nat /\ i <= k + m
      BY <3>1
    <3>3. i - k \in 1 .. m /\ i - k \in 1 .. Len(memory) /\ k + (i - k) = i
      BY <2>2, <3>1, <3>2
    <3>4. memory[i - k] < from /\ memory[i - k] = all[k + (i - k)]
      BY <3>3, <1>2, <1>3
    <3> QED
      BY <3>3, <3>4
  <2> QED
    BY <2>1, <2>2
<1>7. ASSUME k + m < Len(all) PROVE all[(k + m) + 1] >= from
  <2>1. m < Len(memory) /\ m + 1 \in 1 .. Len(memory) /\ k + (m + 1) = (k + m) + 1
    BY <1>7, <1>2, <1>4
  <2>2. memory[m + 1] >= from /\ memory[m + 1] = all[k + (m + 1)]
    BY <2>1, <1>2, <1>3
  <2> QED
    BY <2>1, <2>2
<1> QED
  BY <1>3, <1>4, <1>5, <1>6, <1>7

\* What happens later than the memory was purged does not disturb it, and an
\* addition to both keeps it.
LEMMA RemembersLater ==
    ASSUME NEW all \in Seq(Nat), NEW memory, NEW from \in Int, NEW later \in Int,
           from <= later, Remembers(memory, all, from)
    PROVE  Remembers(memory, all, later)
<1>1. PICK k \in 0 .. Len(all) : /\ memory = SubSeq(all, k + 1, Len(all))
                                 /\ \A i \in 1 .. k : all[i] < from
  BY DEF Remembers
<1>2. \A i \in 1 .. k : all[i] < later
  BY <1>1, Elements
<1> QED
  BY <1>1, <1>2 DEF Remembers

LEMMA RemembersAppend ==
    ASSUME NEW all \in Seq(Nat), NEW memory, NEW from \in Int, NEW t \in Nat,
           Remembers(memory, all, from)
    PROVE  Remembers(Append(memory, t), Append(all, t), from)
<1>1. PICK k \in 0 .. Len(all) : /\ memory = SubSeq(all, k + 1, Len(all))
                                 /\ \A i \in 1 .. k : all[i] < from
  BY DEF Remembers
<1> DEFINE longer == Append(all, t)
           b == SubSeq(longer, k + 1, Len(longer))
           a == Append(memory, t)
<1>2. Len(all) \in Nat /\ k \in Nat /\ k <= Len(all)
  BY Elements
<1>3. /\ memory \in Seq(Nat) /\ Len(memory) = Len(all) - k
      /\ \A i \in 1 .. Len(memory) : memory[i] = all[k + i]
  BY <1>1, Tails
<1>4. /\ longer \in Seq(Nat) /\ Len(longer) = Len(all) + 1 /\ longer[Len(all) + 1] = t
      /\ \A i \in 1 .. Len(all) : longer[i] = all[i]
  BY AppendProperties
<1>5. /\ a \in Seq(Nat) /\ Len(a) = Len(memory) + 1 /\ a[Len(memory) + 1] = t
      /\ \A i \in 1 .. Len(memory) : a[i] = memory[i]
  BY <1>3, AppendProperties
<1> HIDE DEF longer, a
<1>6. k \in 0 .. Len(longer)
  BY <1>2, <1>4
<1>7. /\ b \in Seq(Nat) /\ Len(b) = Len(longer) - k
      /\ \A i \in 1 .. Len(longer) - k : b[i] = longer[k + i]
  BY <1>4, <1>6, Tails
<1> HIDE DEF b
<1>8. Len(a) = Len(b)
  BY <1>2, <1>3, <1>4, <1>5, <1>7
<1>9. ASSUME NEW i \in 1 .. Len(a) PROVE a[i] = b[i]
  <2>1. b[i] = longer[k + i]
    BY <1>7, <1>8
  <2>2. CASE i = Len(a)
    <3>1. k + i = Len(all) + 1
      BY <2>2, <1>2, <1>3, <1>5
    <3> QED
      BY <3>1, <2>1, <2>2, <1>4, <1>5
  <2>3. CASE i # Len(a)
    <3>1. i \in 1 .. Len(memory) /\ k + i \in 1 .. Len(all)
      BY SMTT(30), <2>3, <1>2, <1>3, <1>5
    <3> QED
      BY <3>1, <2>1, <1>3, <1>4, <1>5
  <2> QED
    BY <2>2, <2>3
<1>10. a = b
  BY <1>5, <1>7, <1>8, <1>9, SeqEqual
<1>11. ASSUME NEW i \in 1 .. k PROVE longer[i] < from
  <2>1. i \in 1 .. Len(all)
    BY <1>2
  <2> QED
    BY <2>1, <1>1, <1>4
<1> QED
  BY <1>6, <1>10, <1>11 DEF Remembers, a, b, longer

\* A history in order stays so when the present is added to it.
LEMMA InOrderAppend ==
    ASSUME NEW all \in Seq(Nat), NEW now \in Nat, InOrder(all, now)
    PROVE  InOrder(Append(all, now), now)
<1> DEFINE longer == Append(all, now)
<1>1. /\ longer \in Seq(Nat) /\ Len(longer) = Len(all) + 1 /\ longer[Len(all) + 1] = now
      /\ \A i \in 1 .. Len(all) : longer[i] = all[i]
  BY AppendProperties
<1>2. Len(all) \in Nat /\ \A i \in 1 .. Len(all) : all[i] \in Nat /\ all[i] <= now
  BY Elements DEF InOrder
<1> HIDE DEF longer
<1>3. ASSUME NEW i \in 1 .. Len(longer) PROVE longer[i] <= now
  BY SMTT(30), <1>1, <1>2
<1>4. ASSUME NEW i \in 1 .. Len(longer), NEW j \in 1 .. Len(longer), i <= j
      PROVE  longer[i] <= longer[j]
  <2>1. CASE j = Len(all) + 1
    BY <2>1, <1>1, <1>3
  <2>2. CASE j # Len(all) + 1
    <3>1. i \in 1 .. Len(all) /\ j \in 1 .. Len(all)
      BY SMTT(30), <2>2, <1>1, <1>2, <1>4
    <3> QED
      BY <3>1, <1>1, <1>4 DEF InOrder
  <2> QED
    BY <2>1, <2>2
<1> QED
  BY <1>3, <1>4 DEF InOrder, longer

\* How many of the memory's times are recent tells how old those of the history are.
LEMMA CountTells ==
    ASSUME NEW all \in Seq(Nat), NEW memory, NEW from \in Int, NEW now \in Nat,
           Remembers(memory, all, from), InOrder(all, now), NEW limit \in Nat \ {0}
    PROVE  Len(Since(memory, from)) >= limit <=>
               Len(all) >= limit /\ all[Len(all) + 1 - limit] >= from
<1>1. PICK n \in 0 .. Len(all) : /\ Since(memory, from) = SubSeq(all, n + 1, Len(all))
                                 /\ \A i \in 1 .. n : all[i] < from
                                 /\ n < Len(all) => all[n + 1] >= from
  BY SinceOfMemory
<1>2. Len(Since(memory, from)) = Len(all) - n
  BY <1>1, Tails
<1>3. Len(all) \in Nat /\ \A i \in 1 .. Len(all) : all[i] \in Nat
  BY Elements
<1>4. ASSUME Len(all) - n >= limit
      PROVE  Len(all) >= limit /\ all[Len(all) + 1 - limit] >= from
  <2>1. /\ n < Len(all) /\ n + 1 \in 1 .. Len(all) /\ Len(all) + 1 - limit \in 1 .. Len(all)
        /\ n + 1 <= Len(all) + 1 - limit
    BY <1>3, <1>4
  <2>2. all[n + 1] <= all[Len(all) + 1 - limit]
    BY <2>1 DEF InOrder
  <2>3. all[n + 1] >= from
    BY <2>1, <1>1
  <2>4. /\ all[n + 1] \in Nat /\ all[Len(all) + 1 - limit] \in Nat
        /\ Len(all) >= limit
    BY <2>1, <1>3, <1>4
  <2> QED
    BY <2>2, <2>3, <2>4
<1>5. ASSUME Len(all) >= limit, all[Len(all) + 1 - limit] >= from
      PROVE  Len(all) - n >= limit
  <2>1. SUFFICES ASSUME ~ (Len(all) - n >= limit) PROVE FALSE
    OBVIOUS
  <2>2. Len(all) + 1 - limit \in 1 .. n /\ Len(all) + 1 - limit \in 1 .. Len(all)
    BY <2>1, <1>3, <1>5
  <2> QED
    BY SMTT(30), <2>2, <1>1, <1>3, <1>5
<1> QED
  BY <1>2, <1>4, <1>5

-----------------------------------------------------------------------------
(* The webhook forwarder.                                                     *)

\* How long a call may have been under way when its n-th attempt begins: the
\* requests before it and the sleeps between them.
Spent(n) == n * PostTimeout + <<0, 1, 3, 7>>[n + 1]

CallType == call \in [at : {"idle", "posting", "waiting"}, attempt : 0 .. Attempts - 1,
                      began : Nat, since : Nat, until : Nat]
HistoryType ==
    /\ time \in Nat
    /\ sendTimes \in Seq(Nat) /\ delivered \in Seq(Nat)
InTime ==
    /\ call.at = "posting" =>
          /\ call.began <= time /\ time <= call.since + PostTimeout
          /\ call.since <= call.began + Spent(call.attempt)
    /\ call.at = "waiting" =>
          /\ call.began <= time /\ time <= call.until
          /\ call.until <= call.began + Spent(call.attempt + 1)
\* The check that let the call through holds until the call is over.
Cleared ==
    call.at # "idle" =>
        /\ delivered # << >> => time - delivered[Len(delivered)] >= Gap
        /\ Len(delivered) >= RateLimit =>
              delivered[Len(delivered) + 1 - RateLimit] < time - Window
AlertInv ==
    /\ HistoryType /\ CallType /\ InTime
    /\ InOrder(delivered, time) /\ Remembers(sendTimes, delivered, time - Window)
    /\ Cleared /\ Spaced

LEMMA Constants ==
    /\ RateLimit \in Nat \ {0} /\ Window \in Nat /\ Gap \in Nat /\ PostTimeout \in Nat
    /\ MaxTime \in Nat /\ Gap <= Window /\ Attempts = 3
BY AlertingAssumption DEF AlertingAssumption

\* The sums, one attempt at a time.
LEMMA Sums ==
    /\ Spent(0) = 0 /\ Spent(1) = PostTimeout + 1 /\ Spent(2) = 2 * PostTimeout + 3
    /\ Spent(3) = 3 * PostTimeout + 7 /\ HoldUp = 3 * PostTimeout + 7
    /\ Backoff(0) = 1 /\ Backoff(1) = 2 /\ Backoff(2) = 4
BY Constants DEF Spent, HoldUp, Backoff

LEMMA AlertInitInv == AlertInit => AlertInv
<1> SUFFICES ASSUME AlertInit PROVE AlertInv
  OBVIOUS
<1>1. Len(<< >>) = 0 /\ << >> \in Seq(Nat)
  OBVIOUS
<1>2. HistoryType /\ CallType
  BY <1>1, Constants DEF AlertInit, HistoryType, CallType, NoCall
<1>3. InTime /\ Cleared /\ Spaced
  BY <1>1 DEF AlertInit, NoCall, InTime, Cleared, Spaced
<1>4. InOrder(delivered, time)
  BY <1>1 DEF AlertInit, InOrder
<1>5. Remembers(sendTimes, delivered, time - Window)
  <2>1. 0 \in 0 .. Len(delivered) /\ SubSeq(delivered, 1, Len(delivered)) = << >>
    BY <1>1 DEF AlertInit
  <2> QED
    BY <2>1 DEF AlertInit, Remembers
<1> QED
  BY <1>2, <1>3, <1>4, <1>5 DEF AlertInv

\* The limiter's answer, from what was delivered.
LEMMA LimitedTells == AlertInv => JudgesRightly
<1> SUFFICES ASSUME AlertInv PROVE JudgesRightly
  OBVIOUS
<1> DEFINE L == Len(delivered)
<1>1. /\ time \in Nat /\ delivered \in Seq(Nat) /\ InOrder(delivered, time)
      /\ Remembers(sendTimes, delivered, time - Window)
      /\ time - Window \in Int
  BY Constants DEF AlertInv, HistoryType
<1>2. L \in Nat /\ \A i \in 1 .. L : delivered[i] \in Nat
  BY <1>1, Elements
<1>3. Len(Purged) >= RateLimit <=> L >= RateLimit /\ delivered[L + 1 - RateLimit] >= time - Window
  BY <1>1, Constants, CountTells DEF Purged
<1>4. PICK n \in 0 .. L : /\ Purged = SubSeq(delivered, n + 1, L)
                          /\ \A i \in 1 .. n : delivered[i] < time - Window
  BY <1>1, SinceOfMemory DEF Purged
<1>5. /\ Purged \in Seq(Nat) /\ Len(Purged) = L - n
      /\ \A i \in 1 .. L - n : Purged[i] = delivered[n + i]
  BY <1>1, <1>4, Tails
<1>6. CASE n < L
  <2>1. Purged # << >> /\ Purged[Len(Purged)] = delivered[L] /\ delivered # << >>
    <3>1. L - n \in 1 .. L - n /\ n + (L - n) = L /\ L - n # 0 /\ L # 0
      BY <1>2, <1>6
    <3>2. Purged[L - n] = delivered[L]
      BY <3>1, <1>5
    <3>3. Purged # << >> /\ Purged[Len(Purged)] = Purged[L - n]
      BY <3>1, <1>5
    <3>4. delivered # << >>
      BY <1>1, <3>1, EmptySeq
    <3> QED
      BY <3>2, <3>3, <3>4
  <2> QED
    <3>1. Len(Purged) >= RateLimit <=> L >= RateLimit /\ L + 1 - RateLimit \in Recent(Window)
      BY SMTT(30), <1>1, <1>2, <1>3, Constants DEF Recent
    <3> HIDE DEF L
    <3> QED
      BY <2>1, <3>1 DEF Limited, JudgesRightly, L
<1>7. CASE n = L
  <2>1. Purged = << >> /\ Len(Purged) = 0
    BY <1>2, <1>5, <1>7
  <2>2. ~ Limited(Purged)
    BY <2>1, Constants DEF Limited
  <2>3. ~ (delivered # << >> /\ time - delivered[Len(delivered)] < Gap)
    <3>1. SUFFICES ASSUME delivered # << >> PROVE time - delivered[L] >= Gap
      BY <1>1, <1>2, Constants
    <3>2. L \in 1 .. n
      BY <3>1, <1>1, <1>2, <1>7, EmptySeq
    <3> QED
      BY <3>2, <1>1, <1>2, <1>4, Constants
  <2>4. ~ (L >= RateLimit /\ L + 1 - RateLimit \in Recent(Window))
    BY <1>1, <1>2, <1>3, <2>1, Constants DEF Recent
  <2> QED
    BY <2>2, <2>3, <2>4 DEF JudgesRightly
<1> QED
  BY <1>2, <1>6, <1>7

\* Nothing but time, memory and call change, or the call is over: the parts
\* of the invariant an action may disturb, each by itself.
LEMMA PurgedRemembers ==
    ASSUME AlertInv
    PROVE  Purged \in Seq(Nat) /\ Remembers(Purged, delivered, time - Window)
<1>1. /\ time \in Nat /\ delivered \in Seq(Nat)
      /\ Remembers(sendTimes, delivered, time - Window) /\ time - Window \in Int
  BY Constants DEF AlertInv, HistoryType
<1>2. PICK n \in 0 .. Len(delivered) :
          /\ Purged = SubSeq(delivered, n + 1, Len(delivered))
          /\ \A i \in 1 .. n : delivered[i] < time - Window
  BY <1>1, SinceOfMemory DEF Purged
<1> QED
  BY <1>1, <1>2, Tails DEF Remembers

LEMMA DropInv ==
    ASSUME AlertInv, NEW level \in 0 .. 4, Drop(level) PROVE AlertInv'
<1>1. /\ sendTimes' = Purged /\ time' = time /\ call' = call
      /\ delivered' = delivered
  BY DEF Drop
<1>2. HistoryType' /\ CallType' /\ InTime'
  BY <1>1, PurgedRemembers DEF AlertInv, HistoryType, CallType, InTime
<1>3. InOrder(delivered, time)' /\ Remembers(sendTimes, delivered, time - Window)'
  BY <1>1, PurgedRemembers DEF AlertInv
<1>4. Cleared' /\ Spaced'
  BY <1>1 DEF AlertInv, Cleared, Spaced
<1> QED
  BY <1>2, <1>3, <1>4 DEF AlertInv

LEMMA DispatchInv ==
    ASSUME AlertInv, NEW level \in 0 .. 4, Dispatch(level) PROVE AlertInv'
<1>1. /\ sendTimes' = Purged /\ time' = time
      /\ delivered' = delivered
      /\ ~ Limited(Purged)
  BY DEF Dispatch
<1>2. call' = [at |-> "posting", attempt |-> 0, began |-> time, since |-> time, until |-> 0]
  BY DEF Dispatch, NoCall
<1>3. HistoryType' /\ CallType'
  BY <1>1, <1>2, PurgedRemembers, Constants DEF AlertInv, HistoryType, CallType
<1>4. InTime'
  <2>1. time \in Nat
    BY DEF AlertInv, HistoryType
  <2>2. /\ call'.at = "posting" /\ call'.attempt = 0 /\ call'.began = time
        /\ call'.since = time
    BY <1>2
  <2>3. time <= time + PostTimeout /\ time <= time + Spent(0)
    BY <2>1, Constants, Sums
  <2> QED
    BY <1>1, <2>1, <2>2, <2>3 DEF InTime
<1>5. InOrder(delivered, time)' /\ Remembers(sendTimes, delivered, time - Window)'
  BY <1>1, PurgedRemembers DEF AlertInv
<1>6. Cleared'
  <2>1. /\ ~ (delivered # << >> /\ time - delivered[Len(delivered)] < Gap)
        /\ ~ (Len(delivered) >= RateLimit /\ Len(delivered) + 1 - RateLimit \in Recent(Window))
    BY <1>1, LimitedTells DEF JudgesRightly
  <2>2. delivered \in Seq(Nat) /\ time \in Nat
    BY DEF AlertInv, HistoryType
  <2>3. Len(delivered) \in Nat /\ \A i \in 1 .. Len(delivered) : delivered[i] \in Nat
    BY <2>2, Elements
  <2>4. delivered # << >> => Len(delivered) \in 1 .. Len(delivered)
    BY <2>2, <2>3, EmptySeq
  <2>5. delivered # << >> => time - delivered[Len(delivered)] >= Gap
    BY <2>1, <2>2, <2>3, <2>4, Constants
  <2>6. ASSUME Len(delivered) >= RateLimit
        PROVE  delivered[Len(delivered) + 1 - RateLimit] < time - Window
    <3>1. Len(delivered) + 1 - RateLimit \in 1 .. Len(delivered)
      BY <2>3, <2>6, Constants
    <3>2. ~ (time - delivered[Len(delivered) + 1 - RateLimit] <= Window)
      BY <2>1, <2>6, <3>1 DEF Recent
    <3> QED
      BY <3>1, <3>2, <2>2, <2>3, Constants
  <2> QED
    BY <1>1, <2>5, <2>6 DEF Cleared
<1>7. Spaced'
  BY <1>1 DEF AlertInv, Spaced
<1> QED
  BY <1>3, <1>4, <1>5, <1>6, <1>7 DEF AlertInv

\* A delivery is recorded when it is known.
LEMMA SucceedInv == ASSUME AlertInv, Succeed PROVE AlertInv'
<1>1. /\ sendTimes' = Append(sendTimes, time) /\ delivered' = Append(delivered, time)
      /\ call' = NoCall /\ time' = time
      /\ call.at = "posting"
  BY DEF Succeed, Return
<1>2. /\ time \in Nat /\ sendTimes \in Seq(Nat) /\ delivered \in Seq(Nat)
      /\ time - Window \in Int
  BY Constants DEF AlertInv, HistoryType
<1>3. HistoryType' /\ CallType'
  BY <1>1, <1>2, Constants, AppendProperties DEF HistoryType, CallType, NoCall
<1>4. InTime' /\ Cleared'
  BY <1>1 DEF InTime, Cleared, NoCall
<1>5. InOrder(delivered, time)'
  BY <1>1, <1>2, InOrderAppend DEF AlertInv
<1>6. Remembers(sendTimes, delivered, time - Window)'
  BY <1>1, <1>2, RemembersAppend DEF AlertInv
<1>7. Spaced'
  <2> DEFINE longer == Append(delivered, time)
  <2>1. Len(delivered) \in Nat
    BY <1>2, Elements
  <2>2. /\ Len(longer) = Len(delivered) + 1 /\ longer[Len(delivered) + 1] = time
        /\ \A i \in 1 .. Len(delivered) : longer[i] = delivered[i]
    BY <1>2, AppendProperties
  <2> HIDE DEF longer
  <2>3. ASSUME NEW i \in 1 .. Len(longer) - 1 PROVE longer[i + 1] - longer[i] >= Gap
    <3>1. i \in 1 .. Len(delivered)
      BY <2>1, <2>2
    <3>2. CASE i = Len(delivered)
      <4>1. delivered # << >>
        BY <3>1, <1>2
      <4>2. time - delivered[Len(delivered)] >= Gap
        BY <4>1, <1>1 DEF AlertInv, Cleared
      <4> QED
        BY <4>2, <3>1, <3>2, <2>2
    <3>3. CASE i # Len(delivered)
      <4>1. i \in 1 .. Len(delivered) - 1 /\ i + 1 \in 1 .. Len(delivered)
        BY <3>1, <3>3, <2>1
      <4> QED
        BY <4>1, <3>1, <2>2 DEF AlertInv, Spaced
    <3> QED
      BY <3>2, <3>3
  <2> QED
    BY <1>1, <2>3 DEF Spaced, longer
<1> QED
  BY <1>3, <1>4, <1>5, <1>6, <1>7 DEF AlertInv

\* What a call that goes on, or is over, leaves as it was.
LEMMA CallOnly ==
    ASSUME AlertInv, UNCHANGED <<time, sendTimes, delivered>>,
           CallType', InTime',
           call'.at # "idle" => call.at # "idle"
    PROVE  AlertInv'
<1>1. HistoryType'
  BY DEF AlertInv, HistoryType
<1>2. InOrder(delivered, time)' /\ Remembers(sendTimes, delivered, time - Window)'
  BY DEF AlertInv
<1>3. Cleared' /\ Spaced'
  BY DEF AlertInv, Cleared, Spaced
<1> QED
  BY <1>1, <1>2, <1>3 DEF AlertInv

LEMMA ReturnFits == ASSUME Return PROVE CallType' /\ InTime' /\ call'.at = "idle"
<1>1. call' = NoCall
  BY DEF Return
<1> QED
  BY <1>1, Constants DEF NoCall, CallType, InTime

LEMMA SleepFits ==
    ASSUME AlertInv, Sleep, call.at = "posting", time' = time
    PROVE  CallType' /\ InTime'
<1> DEFINE until == time + Backoff(call.attempt)
<1>1. /\ call.at \in {"idle", "posting", "waiting"} /\ call.attempt \in 0 .. Attempts - 1
      /\ call.began \in Nat /\ call.since \in Nat /\ time \in Nat
      /\ DOMAIN call = {"at", "attempt", "began", "since", "until"}
  BY DEF AlertInv, CallType, HistoryType
<1>2. call.attempt \in {0, 1, 2}
  BY <1>1, Constants
<1>3. /\ call'.at = "waiting" /\ call'.attempt = call.attempt /\ call'.began = call.began
      /\ call'.since = call.since /\ call'.until = until
      /\ call' = [at |-> "waiting", attempt |-> call.attempt, began |-> call.began,
                  since |-> call.since, until |-> until]
  <2> HIDE DEF until
  <2>1. call' = [call EXCEPT !.at = "waiting", !.until = until]
    BY DEF Sleep, until
  <2>2. call = [at |-> call.at, attempt |-> call.attempt, began |-> call.began,
                since |-> call.since, until |-> call.until]
    BY DEF AlertInv, CallType
  <2> QED
    BY <2>1, <2>2
<1>4. /\ call.began <= time /\ time <= call.since + PostTimeout
      /\ call.since <= call.began + Spent(call.attempt)
  BY DEF AlertInv, InTime
<1>5. Backoff(call.attempt) \in Nat /\ until \in Nat /\ time <= until
  BY <1>1, <1>2, Sums
<1>6. until <= call.began + Spent(call.attempt + 1)
  <2>1. CASE call.attempt = 0
    BY <2>1, <1>1, <1>4, Sums, Constants
  <2>2. CASE call.attempt = 1
    BY <2>2, <1>1, <1>4, Sums, Constants
  <2>3. CASE call.attempt = 2
    BY <2>3, <1>1, <1>4, Sums, Constants
  <2> QED
    BY <1>2, <2>1, <2>2, <2>3
<1> HIDE DEF until
<1>7. CallType'
  BY <1>1, <1>3, <1>5 DEF CallType
<1>8. InTime'
  BY <1>3, <1>4, <1>5, <1>6 DEF InTime
<1> QED
  BY <1>7, <1>8

LEMMA WakeFits ==
    ASSUME AlertInv, Wake, call.attempt < Attempts - 1 PROVE CallType' /\ InTime'
<1>1. /\ call.at = "waiting" /\ time >= call.until /\ time' = time
      /\ Post(call.attempt + 1)
  BY DEF Wake
<1>2. /\ call.attempt \in 0 .. Attempts - 1
      /\ call.began \in Nat /\ call.until \in Nat /\ time \in Nat
  BY DEF AlertInv, CallType, HistoryType
<1>3. call.attempt \in {0, 1} /\ call.attempt + 1 \in 0 .. Attempts - 1
  BY <1>2, Constants
<1>4. call' = [at |-> "posting", attempt |-> call.attempt + 1, began |-> call.began,
               since |-> time, until |-> call.until]
  <2> DEFINE next == call.attempt + 1
  <2> HIDE DEF next
  <2>1. call' = [call EXCEPT !.at = "posting", !.attempt = next, !.since = time]
    BY <1>1 DEF Post, next
  <2>2. call = [at |-> call.at, attempt |-> call.attempt, began |-> call.began,
                since |-> call.since, until |-> call.until]
    BY DEF AlertInv, CallType
  <2>3. call' = [at |-> "posting", attempt |-> next, began |-> call.began,
                 since |-> time, until |-> call.until]
    BY <2>1, <2>2
  <2> QED
    BY <2>3 DEF next
<1>5. /\ call.began <= time /\ time <= call.until
      /\ call.until <= call.began + Spent(call.attempt + 1)
  BY <1>1 DEF AlertInv, InTime
<1>6. /\ time <= time + PostTimeout /\ time <= call.began + Spent(call.attempt + 1)
  <2>1. CASE call.attempt = 0
    BY <2>1, <1>2, <1>5, Sums, Constants
  <2>2. CASE call.attempt = 1
    BY <2>2, <1>2, <1>5, Sums, Constants
  <2> QED
    BY <1>3, <2>1, <2>2
<1>7. CallType'
  BY <1>2, <1>3, <1>4 DEF CallType
<1>8. InTime'
  <2>1. /\ call'.at = "posting" /\ call'.attempt = call.attempt + 1
        /\ call'.began = call.began /\ call'.since = time
    BY <1>4
  <2> QED
    BY <1>1, <1>5, <1>6, <2>1 DEF InTime
<1> QED
  BY <1>7, <1>8

LEMMA SecondInv == ASSUME AlertInv, SecondPasses PROVE AlertInv'
<1>1. /\ time' = time + 1 /\ sendTimes' = sendTimes /\ call' = call
      /\ delivered' = delivered
      /\ call.at = "posting" => time < call.since + PostTimeout
      /\ call.at = "waiting" => time < call.until
  BY DEF SecondPasses
<1>2. /\ time \in Nat /\ delivered \in Seq(Nat) /\ time - Window \in Int
      /\ call.began \in Nat /\ call.since \in Nat /\ call.until \in Nat
  BY Constants DEF AlertInv, HistoryType, CallType
<1>3. Len(delivered) \in Nat /\ \A i \in 1 .. Len(delivered) : delivered[i] \in Nat
  BY <1>2, Elements
<1>4. HistoryType' /\ CallType'
  BY <1>1, <1>2 DEF AlertInv, HistoryType, CallType
<1>5. InTime'
  <2>1. call.at = "posting" => call.began <= time + 1 /\ time + 1 <= call.since + PostTimeout
    BY <1>1, <1>2, Constants DEF AlertInv, InTime
  <2>2. call.at = "waiting" => call.began <= time + 1 /\ time + 1 <= call.until
    BY <1>1, <1>2 DEF AlertInv, InTime
  <2> QED
    BY <1>1, <2>1, <2>2 DEF AlertInv, InTime
<1>6. InOrder(delivered, time + 1)
  BY <1>2, <1>3 DEF AlertInv, InOrder
<1>7. Remembers(sendTimes, delivered, (time + 1) - Window)
  <2>1. time - Window <= (time + 1) - Window /\ (time + 1) - Window \in Int
    BY <1>2, Constants
  <2> QED
    BY <2>1, <1>2, RemembersLater DEF AlertInv
<1>8. Cleared'
  <2>1. delivered # << >> => Len(delivered) \in 1 .. Len(delivered)
    BY <1>2, <1>3, EmptySeq
  <2>2. Len(delivered) >= RateLimit => Len(delivered) + 1 - RateLimit \in 1 .. Len(delivered)
    BY <1>3, Constants
  <2> QED
    BY SMTT(30), <1>1, <1>2, <1>3, <2>1, <2>2, Constants DEF AlertInv, Cleared
<1>9. Spaced'
  BY <1>1 DEF AlertInv, Spaced
<1> QED
  BY <1>1, <1>4, <1>5, <1>6, <1>7, <1>8, <1>9 DEF AlertInv

LEMMA AlertStepInv == AlertInv /\ [AlertNext]_alertVars => AlertInv'
<1> SUFFICES ASSUME AlertInv, [AlertNext]_alertVars PROVE AlertInv'
  OBVIOUS
<1>1. time \in Nat
  BY DEF AlertInv, HistoryType
<1>2. ASSUME NEW level \in 0 .. 4, Drop(level) \/ Dispatch(level) PROVE AlertInv'
  BY <1>2, DropInv, DispatchInv
<1>3. CASE Succeed
  BY <1>3, SucceedInv
<1>4. CASE Refuse
  <2>1. CallType' /\ InTime' /\ call'.at = "idle"
    BY <1>4, ReturnFits DEF Refuse
  <2> QED
    BY <2>1, <1>1, <1>4, CallOnly DEF Refuse
<1>5. CASE Busy
  <2>1. CallType' /\ InTime'
    BY <1>5, SleepFits DEF Busy
  <2> QED
    BY <2>1, <1>1, <1>5, CallOnly DEF Busy
<1>6. CASE Fail
  <2>1. UNCHANGED <<time, sendTimes, delivered>>
    BY <1>6 DEF Fail
  <2>2. Sleep \/ Return
    BY <1>6 DEF Fail
  <2>3. CallType' /\ InTime'
    BY <2>2, <1>6, SleepFits, ReturnFits DEF Fail
  <2> QED
    BY <2>1, <2>3, <1>6, CallOnly DEF Fail
<1>7. CASE Wake
  <2>1. CallType' /\ InTime'
    BY <1>7, WakeFits, ReturnFits DEF Wake
  <2> QED
    BY <2>1, <1>1, <1>7, CallOnly DEF Wake
<1>8. CASE SecondPasses
  BY <1>8, SecondInv
<1>9. CASE UNCHANGED alertVars
  BY <1>9 DEF alertVars, AlertInv, HistoryType, CallType, InTime, InOrder, Remembers, Cleared, Spaced
<1> QED
  BY <1>2, <1>3, <1>4, <1>5, <1>6, <1>7, <1>8, <1>9 DEF AlertNext

LEMMA AlertAlways == AlertSpec => []AlertInv
BY AlertInitInv, AlertStepInv, PTL DEF AlertSpec

\* At all times the limiter, which knows of what it recorded only, answers as
\* if it knew all that was delivered.
THEOREM AlwaysJudgesRightly == AlertSpec => []JudgesRightly
BY AlertAlways, LimitedTells, PTL

\* Two alerts are never closer than Gap, although the request is awaited
\* between the check and the record.
THEOREM AlwaysSpaced == AlertSpec => []Spaced
<1>1. AlertInv => Spaced
  BY DEF AlertInv
<1> QED
  BY <1>1, AlertAlways, PTL

\* The types, and that a call never holds up the collector's loop for longer
\* than its three requests and its sleeps.
THEOREM AlertTypeCorrect == AlertSpec => []AlertTypeOK
<1>1. ASSUME AlertInv PROVE AlertTypeOK
  <2>1. HistoryType /\ CallType /\ InTime
    BY <1>1 DEF AlertInv
  <2>2. {time} \cup {delivered[i] : i \in DOMAIN delivered} \subseteq Nat
    BY <2>1, ElementOfSeq, LenProperties DEF HistoryType
  <2>3. ASSUME call.at # "idle" PROVE time - call.began <= HoldUp
    <3>1. /\ call.at \in {"posting", "waiting"} /\ call.attempt \in {0, 1, 2}
          /\ call.began \in Nat /\ call.since \in Nat /\ call.until \in Nat /\ time \in Nat
      BY <2>1, <2>3, Constants DEF CallType, HistoryType
    <3>2. CASE call.at = "posting"
      <4>1. /\ time <= call.since + PostTimeout
            /\ call.since <= call.began + Spent(call.attempt)
        BY <2>1, <3>2 DEF InTime
      <4>2. CASE call.attempt = 0
        BY <4>1, <4>2, <3>1, Sums, Constants
      <4>3. CASE call.attempt = 1
        BY <4>1, <4>3, <3>1, Sums, Constants
      <4>4. CASE call.attempt = 2
        BY <4>1, <4>4, <3>1, Sums, Constants
      <4> QED
        BY <3>1, <4>2, <4>3, <4>4
    <3>3. CASE call.at = "waiting"
      <4>1. time <= call.until /\ call.until <= call.began + Spent(call.attempt + 1)
        BY <2>1, <3>3 DEF InTime
      <4>2. CASE call.attempt = 0
        BY <4>1, <4>2, <3>1, Sums, Constants
      <4>3. CASE call.attempt = 1
        BY <4>1, <4>3, <3>1, Sums, Constants
      <4>4. CASE call.attempt = 2
        BY <4>1, <4>4, <3>1, Sums, Constants
      <4> QED
        BY <3>1, <4>2, <4>3, <4>4
    <3> QED
      BY <3>1, <3>2, <3>3
  <2> QED
    BY <2>1, <2>2, <2>3 DEF AlertTypeOK, HistoryType, CallType
<1> QED
  BY <1>1, AlertAlways, PTL

\* What is delivered keeps the promise of a sliding window: each step of the
\* forwarder is a step of RateWindow or leaves clock and deliveries alone.
THEOREM AlertsImplementRateWindow == AlertSpec => KeepsTheLimit
<1>1. AlertInit => Promise!WindowInit
  BY DEF AlertInit, Promise!WindowInit
<1>2. AlertInv /\ [AlertNext]_alertVars => [Promise!WindowNext]_<<time, delivered>>
  <2> SUFFICES ASSUME AlertInv, [AlertNext]_alertVars, ~ UNCHANGED <<time, delivered>>
               PROVE  Promise!WindowNext
    OBVIOUS
  <2>1. CASE Succeed
    <3>1. call.at # "idle" /\ delivered' = Append(delivered, time) /\ time' = time
      BY <2>1 DEF Succeed
    <3>2. time \in Nat /\ delivered \in Seq(Nat)
      BY DEF AlertInv, HistoryType
    <3>3. Len(delivered) \in Nat /\ \A i \in 1 .. Len(delivered) : delivered[i] \in Nat
      BY <3>2, Elements
    <3>4. ASSUME Len(delivered) >= RateLimit
          PROVE  time - delivered[Len(delivered) + 1 - RateLimit] >= Window
      <4>1. Len(delivered) + 1 - RateLimit \in 1 .. Len(delivered)
        BY <3>3, <3>4, Constants
      <4>2. delivered[Len(delivered) + 1 - RateLimit] < time - Window
        BY <3>1, <3>4 DEF AlertInv, Cleared
      <4> QED
        BY <4>1, <4>2, <3>2, <3>3, Constants
    <3> QED
      BY <3>1, <3>4 DEF Promise!WindowNext, Promise!Admit, Promise!Room
  <2>2. CASE SecondPasses
    BY <2>2 DEF SecondPasses, Promise!WindowNext, Promise!TimePasses
  <2>3. CASE UNCHANGED alertVars
    BY <2>3 DEF alertVars
  <2> QED
    BY <2>1, <2>2, <2>3 DEF AlertNext, Drop, Dispatch, Refuse, Busy, Fail, Wake
<1> QED
  BY <1>1, <1>2, AlertAlways, PTL DEF AlertSpec, KeepsTheLimit, Promise!WindowSpec

-----------------------------------------------------------------------------
(* The limit of the API.                                                      *)

LimiterInv ==
    /\ second \in Nat /\ requests \in Seq(Nat) /\ let \in Seq(Nat)
    /\ InOrder(let, second)
    /\ Remembers(requests, let, second - WindowSeconds + 1)

LEMMA LimiterConstants == MaxRequests \in Nat \ {0} /\ WindowSeconds \in Nat
BY LimiterAssumption DEF LimiterAssumption

LEMMA LimiterInitInv == LimiterInit => LimiterInv
<1> SUFFICES ASSUME LimiterInit PROVE LimiterInv
  OBVIOUS
<1>1. Len(<< >>) = 0 /\ << >> \in Seq(Nat)
  OBVIOUS
<1>2. InOrder(let, second)
  BY <1>1 DEF LimiterInit, InOrder
<1>3. 0 \in 0 .. Len(let) /\ SubSeq(let, 1, Len(let)) = << >>
  BY <1>1 DEF LimiterInit
<1>4. Remembers(requests, let, second - WindowSeconds + 1)
  BY <1>3 DEF LimiterInit, Remembers
<1> QED
  BY <1>1, <1>2, <1>4 DEF LimiterInit, LimiterInv

\* What is unexpired remembers, and counts what was let through lately.
LEMMA UnexpiredTells ==
    ASSUME LimiterInv
    PROVE  /\ Unexpired \in Seq(Nat)
           /\ Remembers(Unexpired, let, second - WindowSeconds + 1)
           /\ RefusedRightly
<1> DEFINE from == second - WindowSeconds + 1
<1>1. /\ second \in Nat /\ let \in Seq(Nat) /\ from \in Int
      /\ InOrder(let, second) /\ Remembers(requests, let, from)
  BY LimiterConstants DEF LimiterInv
<1>2. PICK n \in 0 .. Len(let) : /\ Unexpired = SubSeq(let, n + 1, Len(let))
                                 /\ \A i \in 1 .. n : let[i] < from
  <2> HIDE DEF from
  <2> QED
    BY <1>1, SinceOfMemory DEF Unexpired, from
<1>3. Unexpired \in Seq(Nat) /\ Remembers(Unexpired, let, from)
  <2> HIDE DEF from
  <2> QED
    BY <1>1, <1>2, Tails DEF Remembers
<1>4. Len(Unexpired) >= MaxRequests <=>
          Len(let) >= MaxRequests /\ let[Len(let) + 1 - MaxRequests] >= from
  <2> HIDE DEF from
  <2> QED
    BY <1>1, CountTells, LimiterConstants DEF Unexpired, from
<1>5. Len(let) >= MaxRequests => let[Len(let) + 1 - MaxRequests] \in Nat
  <2>1. Len(let) \in Nat /\ \A i \in 1 .. Len(let) : let[i] \in Nat
    BY <1>1, Elements
  <2> QED
    BY <2>1, LimiterConstants
<1>6. RefusedRightly
  BY SMTT(30), <1>1, <1>4, <1>5, LimiterConstants DEF RefusedRightly
<1> QED
  BY <1>3, <1>6

LEMMA LimiterStepInv == LimiterInv /\ [LimiterNext]_limiterVars => LimiterInv'
<1> SUFFICES ASSUME LimiterInv, [LimiterNext]_limiterVars PROVE LimiterInv'
  OBVIOUS
<1>1. /\ second \in Nat /\ let \in Seq(Nat) /\ requests \in Seq(Nat)
      /\ second - WindowSeconds + 1 \in Int
      /\ InOrder(let, second) /\ Remembers(requests, let, second - WindowSeconds + 1)
  BY LimiterConstants DEF LimiterInv
<1>2. Unexpired \in Seq(Nat) /\ Remembers(Unexpired, let, second - WindowSeconds + 1)
  BY UnexpiredTells
<1>3. CASE Allow
  <2>1. /\ requests' = Append(Unexpired, second) /\ let' = Append(let, second)
        /\ second' = second
    BY <1>3 DEF Allow, Through
  <2>2. requests' \in Seq(Nat) /\ let' \in Seq(Nat)
    BY <1>1, <1>2, <2>1, AppendProperties
  <2>3. InOrder(let', second)
    BY <1>1, <2>1, InOrderAppend
  <2>4. Remembers(requests', let', second - WindowSeconds + 1)
    BY <1>1, <1>2, <2>1, RemembersAppend
  <2> QED
    BY <1>1, <2>1, <2>2, <2>3, <2>4 DEF LimiterInv
<1>4. CASE Deny
  <2>1. requests' = Unexpired /\ let' = let /\ second' = second
    BY <1>4 DEF Deny
  <2> QED
    BY <1>1, <1>2, <2>1 DEF LimiterInv
<1>5. CASE SecondGoes
  <2>1. requests' = requests /\ let' = let /\ second' = second + 1
    BY <1>5 DEF SecondGoes
  <2>2. /\ second - WindowSeconds + 1 <= (second + 1) - WindowSeconds + 1
        /\ (second + 1) - WindowSeconds + 1 \in Int
    BY <1>1, LimiterConstants
  <2>3. Remembers(requests, let, (second + 1) - WindowSeconds + 1)
    BY <1>1, <2>2, RemembersLater
  <2>4. InOrder(let, second + 1)
    BY <1>1, Elements DEF InOrder
  <2> QED
    BY <1>1, <2>1, <2>3, <2>4 DEF LimiterInv
<1>6. CASE UNCHANGED limiterVars
  BY <1>6 DEF limiterVars, LimiterInv, InOrder, Remembers
<1> QED
  BY <1>3, <1>4, <1>5, <1>6 DEF LimiterNext

LEMMA LimiterAlways == LimiterSpec => []LimiterInv
BY LimiterInitInv, LimiterStepInv, PTL DEF LimiterSpec

\* Requests that were refused count for nothing.
THEOREM AlwaysRefusedRightly == LimiterSpec => []RefusedRightly
<1>1. LimiterInv => RefusedRightly
  BY UnexpiredTells
<1> QED
  BY <1>1, LimiterAlways, PTL

\* The API keeps the promise of a sliding window.
THEOREM LimiterImplementsRateWindow == LimiterSpec => LimiterKeepsTheLimit
<1>1. LimiterInit => LimiterPromise!WindowInit
  BY DEF LimiterInit, LimiterPromise!WindowInit
<1>2. LimiterInv /\ [LimiterNext]_limiterVars => [LimiterPromise!WindowNext]_<<second, let>>
  <2> SUFFICES ASSUME LimiterInv, [LimiterNext]_limiterVars, ~ UNCHANGED <<second, let>>
               PROVE  LimiterPromise!WindowNext
    OBVIOUS
  <2>1. CASE Allow
    <3>1. let' = Append(let, second) /\ second' = second /\ Len(Unexpired) < MaxRequests
      BY <2>1 DEF Allow, Through
    <3>2. second \in Nat /\ Unexpired \in Seq(Nat) /\ let \in Seq(Nat) /\ RefusedRightly
      BY UnexpiredTells DEF LimiterInv
    <3>3. /\ Len(Unexpired) \in Nat /\ Len(let) \in Nat
          /\ \A i \in 1 .. Len(let) : let[i] \in Nat
      BY <3>2, Elements
    <3>4. ASSUME Len(let) >= MaxRequests
          PROVE  second - let[Len(let) + 1 - MaxRequests] >= WindowSeconds
      <4>1. ~ (second - let[Len(let) + 1 - MaxRequests] < WindowSeconds)
        BY <3>1, <3>2, <3>3, <3>4, LimiterConstants DEF RefusedRightly
      <4>2. let[Len(let) + 1 - MaxRequests] \in Nat
        BY <3>3, <3>4, LimiterConstants
      <4> QED
        BY <4>1, <4>2, <3>2, LimiterConstants
    <3> QED
      BY <3>1, <3>4 DEF LimiterPromise!WindowNext, LimiterPromise!Admit, LimiterPromise!Room
  <2>2. CASE SecondGoes
    BY <2>2 DEF SecondGoes, LimiterPromise!WindowNext, LimiterPromise!TimePasses
  <2>3. CASE UNCHANGED limiterVars
    BY <2>3 DEF limiterVars
  <2> QED
    BY <2>1, <2>2, <2>3 DEF LimiterNext, Deny
<1> QED
  BY <1>1, <1>2, LimiterAlways, PTL
     DEF LimiterSpec, LimiterKeepsTheLimit, LimiterPromise!WindowSpec

-----------------------------------------------------------------------------
(* What the promise of a sliding window is worth: any Limit + 1 admissions in *)
(* a row span Span seconds.                                                   *)

Apart(times, limit, span) ==
    \A i \in 1 .. Len(times) - limit : times[i + limit] - times[i] >= span

LEMMA ApartAppend ==
    ASSUME NEW times \in Seq(Nat), NEW now \in Nat, NEW limit \in Nat \ {0}, NEW span \in Nat,
           Apart(times, limit, span),
           Len(times) >= limit => now - times[Len(times) + 1 - limit] >= span
    PROVE  Append(times, now) \in Seq(Nat) /\ Apart(Append(times, now), limit, span)
<1> DEFINE longer == Append(times, now)
<1>1. /\ longer \in Seq(Nat) /\ Len(longer) = Len(times) + 1 /\ longer[Len(times) + 1] = now
      /\ \A i \in 1 .. Len(times) : longer[i] = times[i]
  BY AppendProperties
<1>2. Len(times) \in Nat
  BY Elements
<1> HIDE DEF longer
<1>3. ASSUME NEW i \in 1 .. Len(longer) - limit PROVE longer[i + limit] - longer[i] >= span
  <2> DEFINE n == Len(times)
  <2>0. n \in Nat /\ limit \in Nat \ {0} /\ i \in 1 .. (n + 1) - limit
    BY <1>1, <1>2
  <2> HIDE DEF n
  <2>1. i \in 1 .. n /\ i \in Nat /\ i + limit <= n + 1
    BY ONLY <2>0
  <2>2. CASE i + limit = n + 1
    <3>1. i = n + 1 - limit /\ n >= limit
      BY ONLY <2>0, <2>1, <2>2
    <3>2. longer[i + limit] = now /\ longer[i] = times[i]
      BY <2>1, <2>2, <1>1 DEF n
    <3> QED
      BY <3>1, <3>2 DEF n
  <2>3. CASE i + limit # n + 1
    <3>1. i \in 1 .. n - limit /\ i + limit \in 1 .. n
      BY ONLY <2>0, <2>1, <2>3
    <3>2. i \in 1 .. Len(times) - limit /\ i + limit \in 1 .. Len(times) /\ i \in 1 .. Len(times)
      BY <2>1, <3>1 DEF n
    <3>3. longer[i] = times[i] /\ longer[i + limit] = times[i + limit]
      BY <3>2, <1>1
    <3>4. times[i + limit] - times[i] >= span
      BY <3>2 DEF Apart
    <3> QED
      BY <3>3, <3>4
  <2> QED
    BY <2>2, <2>3
<1> QED
  BY <1>1, <1>3 DEF Apart, longer

\* No stretch of Window seconds sees more than RateLimit alerts delivered.
THEOREM DeliveredWithinLimit == AlertSpec => []Promise!WithinLimit
<1> DEFINE I == time \in Nat /\ delivered \in Seq(Nat) /\ Promise!WithinLimit
<1>1. Promise!WindowInit => I
  <2>1. Len(<< >>) = 0 /\ << >> \in Seq(Nat)
    OBVIOUS
  <2> QED
    BY <2>1, Constants DEF Promise!WindowInit, Promise!WithinLimit
<1>2. I /\ [Promise!WindowNext]_<<time, delivered>> => I'
  <2> SUFFICES ASSUME I, [Promise!WindowNext]_<<time, delivered>> PROVE I'
    OBVIOUS
  <2>1. CASE Promise!Admit
    <3>1. Apart(delivered, RateLimit, Window)
      BY DEF Promise!WithinLimit, Apart
    <3>2. /\ Len(delivered) >= RateLimit => time - delivered[Len(delivered) + 1 - RateLimit] >= Window
          /\ delivered' = Append(delivered, time) /\ time' = time
      BY <2>1 DEF Promise!Admit, Promise!Room
    <3>3. delivered' \in Seq(Nat) /\ Apart(delivered', RateLimit, Window)
      BY <3>1, <3>2, Constants, ApartAppend
    <3> QED
      BY <3>2, <3>3 DEF Promise!WithinLimit, Apart
  <2>2. CASE Promise!TimePasses
    BY <2>2 DEF Promise!TimePasses, Promise!WithinLimit
  <2>3. CASE UNCHANGED <<time, delivered>>
    BY <2>3 DEF Promise!WithinLimit
  <2> QED
    BY <2>1, <2>2, <2>3 DEF Promise!WindowNext
<1>3. Promise!WindowSpec => []I
  BY <1>1, <1>2, PTL DEF Promise!WindowSpec
<1>4. I => Promise!WithinLimit
  OBVIOUS
<1> QED
  BY <1>3, <1>4, AlertsImplementRateWindow, PTL DEF KeepsTheLimit

\* No stretch of WindowSeconds sees more than MaxRequests requests let through.
THEOREM LetThroughWithinLimit == LimiterSpec => []LimiterPromise!WithinLimit
<1> DEFINE I == second \in Nat /\ let \in Seq(Nat) /\ LimiterPromise!WithinLimit
<1>1. LimiterPromise!WindowInit => I
  <2>1. Len(<< >>) = 0 /\ << >> \in Seq(Nat)
    OBVIOUS
  <2> QED
    BY <2>1, LimiterConstants DEF LimiterPromise!WindowInit, LimiterPromise!WithinLimit
<1>2. I /\ [LimiterPromise!WindowNext]_<<second, let>> => I'
  <2> SUFFICES ASSUME I, [LimiterPromise!WindowNext]_<<second, let>> PROVE I'
    OBVIOUS
  <2>1. CASE LimiterPromise!Admit
    <3>1. Apart(let, MaxRequests, WindowSeconds)
      BY DEF LimiterPromise!WithinLimit, Apart
    <3>2. /\ Len(let) >= MaxRequests => second - let[Len(let) + 1 - MaxRequests] >= WindowSeconds
          /\ let' = Append(let, second) /\ second' = second
      BY <2>1 DEF LimiterPromise!Admit, LimiterPromise!Room
    <3>3. let' \in Seq(Nat) /\ Apart(let', MaxRequests, WindowSeconds)
      BY <3>1, <3>2, LimiterConstants, ApartAppend
    <3> QED
      BY <3>2, <3>3 DEF LimiterPromise!WithinLimit, Apart
  <2>2. CASE LimiterPromise!TimePasses
    BY <2>2 DEF LimiterPromise!TimePasses, LimiterPromise!WithinLimit
  <2>3. CASE UNCHANGED <<second, let>>
    BY <2>3 DEF LimiterPromise!WithinLimit
  <2> QED
    BY <2>1, <2>2, <2>3 DEF LimiterPromise!WindowNext
<1>3. LimiterPromise!WindowSpec => []I
  BY <1>1, <1>2, PTL DEF LimiterPromise!WindowSpec
<1>4. I => LimiterPromise!WithinLimit
  OBVIOUS
<1> QED
  BY <1>3, <1>4, LimiterImplementsRateWindow, PTL DEF LimiterKeepsTheLimit

-----------------------------------------------------------------------------
(* The dashboard.                                                             *)

\* What is left when an element is taken out.
LEMMA RemovedAt ==
    ASSUME NEW S, NEW c \in Seq(S), NEW p \in 1 .. Len(c)
    PROVE  /\ RemoveAt(c, p) \in Seq(S) /\ Len(RemoveAt(c, p)) = Len(c) - 1
           /\ \A i \in 1 .. Len(c) - 1 : RemoveAt(c, p)[i] = IF i < p THEN c[i] ELSE c[i + 1]
<1> DEFINE m == Len(c)
           a == SubSeq(c, 1, p - 1)
           b == SubSeq(c, p + 1, m)
           r == a \o b
<1>1. m \in Nat /\ p \in 1 .. m
  OBVIOUS
<1>2. /\ a \in Seq(S) /\ Len(a) = p - 1 /\ \A i \in 1 .. p - 1 : a[i] = c[i]
  <2>1. \A i \in 1 .. p - 1 : c[i] \in S
    BY <1>1, ElementOfSeq
  <2>2. /\ a \in Seq(S) /\ Len(a) = IF 1 <= p - 1 THEN p - 1 - 1 + 1 ELSE 0
        /\ \A i \in 1 .. p - 1 - 1 + 1 : a[i] = c[1 + i - 1]
    BY <1>1, <2>1, SubSeqProperties
  <2>3. p - 1 - 1 + 1 = p - 1 /\ \A i \in 1 .. p - 1 : 1 + i - 1 = i
    BY <1>1
  <2> QED
    BY <1>1, <2>2, <2>3
<1>3. b \in Seq(S) /\ Len(b) = m - p /\ \A i \in 1 .. m - p : b[i] = c[p + i]
  <2>1. \A i \in p + 1 .. m : c[i] \in S
    BY <1>1, ElementOfSeq
  <2>2. /\ b \in Seq(S) /\ Len(b) = IF p + 1 <= m THEN m - (p + 1) + 1 ELSE 0
        /\ \A i \in 1 .. m - (p + 1) + 1 : b[i] = c[p + 1 + i - 1]
    BY <1>1, <2>1, SubSeqProperties
  <2> HIDE DEF b, m
  <2>3. m - (p + 1) + 1 = m - p /\ (IF p + 1 <= m THEN m - (p + 1) + 1 ELSE 0) = m - p
    BY <1>1
  <2>4. ASSUME NEW i \in 1 .. m - p PROVE b[i] = c[p + i]
    <3>1. i \in 1 .. m - (p + 1) + 1 /\ p + 1 + i - 1 = p + i
      BY <1>1, <2>3
    <3> QED
      BY <3>1, <2>2
  <2> QED
    BY <2>2, <2>3, <2>4
<1> HIDE DEF a, b
<1>4. /\ r \in Seq(S) /\ Len(r) = Len(a) + Len(b)
      /\ \A i \in 1 .. Len(a) + Len(b) : r[i] = IF i <= Len(a) THEN a[i] ELSE b[i - Len(a)]
  BY <1>2, <1>3, ConcatProperties
<1>5. Len(r) = m - 1
  BY <1>1, <1>2, <1>3, <1>4
<1> HIDE DEF r, m
<1>6. ASSUME NEW i \in 1 .. m - 1 PROVE r[i] = IF i < p THEN c[i] ELSE c[i + 1]
  <2>1. CASE i < p
    BY <1>1, <1>2, <1>3, <1>4, <2>1
  <2>2. CASE i >= p
    <3>1. i - (p - 1) \in 1 .. m - p /\ i \in 1 .. Len(a) + Len(b) /\ ~ (i <= Len(a))
      BY <1>1, <1>2, <1>3, <2>2
    <3>2. r[i] = b[i - (p - 1)]
      BY <1>2, <1>4, <3>1
    <3>3. b[i - (p - 1)] = c[p + (i - (p - 1))] /\ p + (i - (p - 1)) = i + 1
      BY <1>1, <1>3, <3>1
    <3> QED
      BY <1>1, <2>2, <3>2, <3>3
  <2>3. i < p \/ i >= p
    BY <1>1
  <2> QED
    BY <2>1, <2>2, <2>3
<1>7. RemoveAt(c, p) = r
  BY DEF RemoveAt, r, a, b, m
<1> QED
  BY <1>4, <1>5, <1>6, <1>7 DEF m

\* What the cache tells of a session is what that announced last, but for the
\* sessions that were dropped.
Tells ==
    \A s \in Sids, f \in Fields :
        told[s][f] = said[s][f] \/ (told[s][f] = NoValue /\ s \in forgotten)
CacheType ==
    /\ order \in Seq(Sids) /\ Len(order) <= MaxSessionCache
    /\ told \in [Sids -> Known] /\ eventCount \in 0 .. MaxEvents
    /\ said \in [Sids -> Known] /\ announced \in [Sids -> 0 .. eventCount]
    /\ forgotten \subseteq Sids
LatestType == latest \in [sid : Sids \cup {NoValue}, own : Known, shown : Known]
StreamType ==
    /\ subscribers \subseteq Clients /\ queue \in [Clients -> Seq(Nat)]
    /\ stream \in [Clients -> {"none", "opening", "failed", "left"}]
    /\ joined \in [Clients -> 0 .. eventCount]
DashboardInv ==
    /\ CacheType /\ LatestType /\ StreamType
    /\ Tells /\ RightlyAttributed /\ LeastRecentlyTold /\ SubscribersSeeAll

LEMMA DashboardConstants ==
    /\ NoValue \notin Sids /\ NoValue \notin Values
    /\ MaxSessionCache \in Nat \ {0} /\ QueueSize \in Nat \ {0} /\ MaxEvents \in Nat
BY DashboardAssumption DEF DashboardAssumption

LEMMA Fits == ASSUME NEW fields \in Known, NEW own \in Known PROVE Update(fields, own) \in Known
BY DEF Known, Update

LEMMA DashboardInitInv == DashboardInit => DashboardInv
<1> SUFFICES ASSUME DashboardInit PROVE DashboardInv
  OBVIOUS
<1>1. Nothing \in Known
  BY DEF Nothing, Known
<1>2. Len(<< >>) = 0 /\ << >> \in Seq(Sids) /\ << >> \in Seq(Nat) /\ DOMAIN << >> = {}
  OBVIOUS
<1>3. CacheType
  BY <1>1, <1>2, DashboardConstants DEF DashboardInit, CacheType
<1>4. LatestType
  BY <1>1 DEF DashboardInit, LatestType
<1>5. StreamType
  BY <1>2 DEF DashboardInit, StreamType
<1>6. Tells
  <2>1. told = said
    BY DEF DashboardInit
  <2> QED
    BY <2>1 DEF Tells
<1>7. RightlyAttributed
  BY DEF DashboardInit, RightlyAttributed, Nothing
<1>8. LeastRecentlyTold
  BY <1>2 DEF DashboardInit, LeastRecentlyTold
<1>9. SubscribersSeeAll
  BY DEF DashboardInit, SubscribersSeeAll
<1> QED
  BY <1>3, <1>4, <1>5, <1>6, <1>7, <1>8, <1>9 DEF DashboardInv

\* The elements of a sequence, by their places.
LEMMA SetOf == ASSUME NEW S, NEW c \in Seq(S) PROVE ToSet(c) = {c[i] : i \in 1 .. Len(c)}
BY DEF ToSet

\* move_to_end: the others stay in their order before the session.
LEMMA MovedIs ==
    ASSUME CacheType, LeastRecentlyTold, NEW sid \in Sids
    PROVE  /\ Moved(sid) \in Seq(Sids) /\ Len(Moved(sid)) \in Nat \ {0}
           /\ Moved(sid)[Len(Moved(sid))] = sid
           /\ Len(Moved(sid)) = Len(order) + (IF sid \in ToSet(order) THEN 0 ELSE 1)
           /\ \A i \in 1 .. Len(Moved(sid)) - 1 :
                 Moved(sid)[i] # sid /\ Moved(sid)[i] \in ToSet(order)
           /\ \A i, j \in 1 .. Len(Moved(sid)) - 1 : i < j =>
                 announced[Moved(sid)[i]] < announced[Moved(sid)[j]]
           /\ \A s \in ToSet(order) : s # sid =>
                 \E i \in 1 .. Len(Moved(sid)) - 1 : Moved(sid)[i] = s
<1> DEFINE n == Len(order)
           m == Moved(sid)
<1>1. /\ order \in Seq(Sids) /\ n \in Nat /\ \A i \in 1 .. n : order[i] \in Sids
      /\ ToSet(order) = {order[i] : i \in 1 .. n} /\ DOMAIN order = 1 .. n
      /\ announced \in [Sids -> 0 .. eventCount] /\ eventCount \in Nat
  BY SetOf, ElementOfSeq, LenProperties DEF CacheType
<1>2. \A i, j \in 1 .. n : i < j => announced[order[i]] < announced[order[j]]
  BY <1>1 DEF LeastRecentlyTold
<1>3. \A i \in 1 .. n : announced[order[i]] \in Nat
  BY <1>1
<1>4. \A i, j \in 1 .. n : i # j => order[i] # order[j]
  <2>1. SUFFICES ASSUME NEW i \in 1 .. n, NEW j \in 1 .. n, i < j PROVE order[i] # order[j]
    BY <1>1
  <2> QED
    BY <2>1, <1>2, <1>3
<1>5. CASE sid \in ToSet(order)
  <2> DEFINE p == Position(sid)
             r == RemoveAt(order, p)
  <2>1. p \in 1 .. n /\ order[p] = sid
    <3>1. \E i \in DOMAIN order : order[i] = sid
      BY <1>1, <1>5
    <3> QED
      BY <3>1, <1>1 DEF Position
  <2> HIDE DEF p
  <2>2. /\ r \in Seq(Sids) /\ Len(r) = n - 1
        /\ \A i \in 1 .. n - 1 : r[i] = IF i < p THEN order[i] ELSE order[i + 1]
    BY <1>1, <2>1, RemovedAt
  <2>3. m = Append(r, sid)
    BY <1>5 DEF Moved, p
  <2> HIDE DEF r
  <2>4. /\ m \in Seq(Sids) /\ Len(m) = n /\ m[n] = sid
        /\ \A i \in 1 .. n - 1 : m[i] = IF i < p THEN order[i] ELSE order[i + 1]
    <3>1. /\ Append(r, sid) \in Seq(Sids) /\ Len(Append(r, sid)) = Len(r) + 1
          /\ Append(r, sid)[Len(r) + 1] = sid
          /\ \A i \in 1 .. Len(r) : Append(r, sid)[i] = r[i]
      BY <2>2, AppendProperties
    <3> HIDE DEF m
    <3>2. Len(r) \in Nat /\ Len(r) + 1 = n
      BY <2>1, <2>2, <1>1
    <3>3. m \in Seq(Sids) /\ Len(m) = n /\ m[n] = sid /\ \A i \in 1 .. n - 1 : m[i] = r[i]
      BY <3>1, <3>2, <2>2, <2>3
    <3> QED
      BY <3>3, <2>2
  <2> HIDE DEF m
  <2>5. ASSUME NEW i \in 1 .. n - 1 PROVE m[i] # sid /\ m[i] \in ToSet(order)
    <3>1. i \in 1 .. n /\ i + 1 \in 1 .. n
      BY <1>1
    <3>2. ASSUME NEW q \in 1 .. n, q # p PROVE order[q] # sid /\ order[q] \in ToSet(order)
      BY <3>2, <2>1, <1>1, <1>4
    <3>3. CASE i < p
      <4>1. m[i] = order[i] /\ i # p
        BY <3>3, <2>4, <2>1
      <4> QED
        BY <4>1, <3>1, <3>2
    <3>4. CASE ~ (i < p)
      <4>1. m[i] = order[i + 1] /\ i + 1 # p
        BY <3>4, <2>4, <2>1
      <4> QED
        BY <4>1, <3>1, <3>2
    <3> QED
      BY <3>3, <3>4
  <2>6. ASSUME NEW i \in 1 .. n - 1, NEW j \in 1 .. n - 1, i < j
        PROVE  announced[m[i]] < announced[m[j]]
    <3> DEFINE a == IF i < p THEN i ELSE i + 1
               b == IF j < p THEN j ELSE j + 1
    <3>1. a \in 1 .. n /\ b \in 1 .. n /\ a < b
      BY <2>6, <2>1, <1>1
    <3>2. m[i] = order[a] /\ m[j] = order[b]
      BY <2>4
    <3> HIDE DEF a, b
    <3> QED
      BY <3>1, <3>2, <1>2
  <2>7. ASSUME NEW s \in ToSet(order), s # sid PROVE \E i \in 1 .. n - 1 : m[i] = s
    <3>1. PICK k \in 1 .. n : order[k] = s
      BY <1>1
    <3>2. k # p
      BY <2>1, <2>7, <3>1
    <3>3. CASE k < p
      <4>1. k \in 1 .. n - 1
        BY <3>3, <2>1, <1>1
      <4> QED
        BY <4>1, <3>1, <3>3, <2>4
    <3>4. CASE k > p
      <4>1. k - 1 \in 1 .. n - 1 /\ ~ (k - 1 < p) /\ (k - 1) + 1 = k
        BY <3>4, <2>1, <1>1
      <4> QED
        BY <4>1, <3>1, <2>4
    <3> QED
      BY <3>2, <3>3, <3>4, <2>1
  <2>8. n \in Nat \ {0}
    BY <2>1, <1>1
  <2> QED
    BY <1>5, <2>4, <2>5, <2>6, <2>7, <2>8 DEF m
<1>6. CASE sid \notin ToSet(order)
  <2>1. m = Append(order, sid)
    BY <1>6 DEF Moved
  <2>2. /\ m \in Seq(Sids) /\ Len(m) = n + 1 /\ m[n + 1] = sid
        /\ \A i \in 1 .. n : m[i] = order[i]
    <3> HIDE DEF m
    <3> QED
      BY <2>1, <1>1, AppendProperties
  <2> HIDE DEF m
  <2>3. Len(m) - 1 = n /\ Len(m) \in Nat \ {0}
    BY <2>2, <1>1
  <2>4. \A i \in 1 .. n : m[i] # sid /\ m[i] \in ToSet(order)
    BY <2>2, <1>1, <1>6
  <2>5. \A i, j \in 1 .. n : i < j => announced[m[i]] < announced[m[j]]
    BY <2>2, <1>2
  <2>6. \A s \in ToSet(order) : \E i \in 1 .. n : m[i] = s
    BY <2>2, <1>1
  <2> QED
    BY <1>6, <2>2, <2>3, <2>4, <2>5, <2>6 DEF m
<1> QED
  BY <1>5, <1>6

\* The two ways a session is put into the cache, by what stays.
LEMMA CacheSessionLeaves ==
    ASSUME DashboardInv, NEW sid \in Sids, NEW own \in Known,
           CacheSession(sid, own), eventCount' = eventCount + 1, eventCount < MaxEvents,
           said' = [said EXCEPT ![sid] = Update(@, own)],
           announced' = [announced EXCEPT ![sid] = eventCount + 1]
    PROVE  CacheType' /\ Tells' /\ LeastRecentlyTold'
<1> DEFINE n == Len(order)
           m == Moved(sid)
           first == Head(m)
           now == eventCount + 1
<1>1. /\ order \in Seq(Sids) /\ n \in Nat /\ n <= MaxSessionCache
      /\ told \in [Sids -> Known] /\ said \in [Sids -> Known]
      /\ announced \in [Sids -> 0 .. eventCount] /\ eventCount \in Nat /\ forgotten \subseteq Sids
      /\ \A s \in Sids : announced[s] \in Nat /\ announced[s] <= eventCount
      /\ MaxSessionCache \in Nat \ {0} /\ eventCount \in 0 .. MaxEvents /\ MaxEvents \in Nat
  BY DashboardConstants, LenProperties DEF DashboardInv, CacheType
<1>2. /\ m \in Seq(Sids) /\ Len(m) \in Nat \ {0} /\ m[Len(m)] = sid
      /\ Len(m) = n + (IF sid \in ToSet(order) THEN 0 ELSE 1)
      /\ \A i \in 1 .. Len(m) - 1 : m[i] # sid /\ m[i] \in ToSet(order)
      /\ \A i, j \in 1 .. Len(m) - 1 : i < j => announced[m[i]] < announced[m[j]]
      /\ \A s \in ToSet(order) : s # sid => \E i \in 1 .. Len(m) - 1 : m[i] = s
  BY MovedIs DEF DashboardInv
<1>3. \A s \in Sids \ ToSet(order) : announced[s] # 0 =>
          n = MaxSessionCache /\ \A t \in ToSet(order) : announced[s] < announced[t]
  BY DEF DashboardInv, LeastRecentlyTold
<1>4. /\ announced' \in [Sids -> 0 .. eventCount'] /\ eventCount' \in 0 .. MaxEvents
      /\ announced'[sid] = now
      /\ \A s \in Sids : s # sid => announced'[s] = announced[s]
  BY <1>1
<1>5. Update(told[sid], own) \in Known /\ Update(said[sid], own) \in Known /\ Nothing \in Known
  <2>1. Nothing \in Known
    BY DEF Nothing, Known
  <2> QED
    BY <2>1, <1>1, Fits
<1>6. said' \in [Sids -> Known]
  BY <1>1, <1>5
<1>7. ToSet(order) \subseteq Sids
  BY <1>1, SetOf, ElementOfSeq
<1> DEFINE kept == [told EXCEPT ![sid] = Update(@, own)]
<1>8. kept \in [Sids -> Known]
  BY <1>1, <1>5
<1>9. \A s \in Sids, f \in Fields :
          kept[s][f] = said'[s][f] \/ (kept[s][f] = NoValue /\ s \in forgotten)
  <2> SUFFICES ASSUME NEW s \in Sids, NEW f \in Fields
               PROVE  kept[s][f] = said'[s][f] \/ (kept[s][f] = NoValue /\ s \in forgotten)
    OBVIOUS
  <2>1. told[s][f] = said[s][f] \/ (told[s][f] = NoValue /\ s \in forgotten)
    BY DEF DashboardInv, Tells
  <2>2. CASE s = sid
    <3>1. /\ kept[s] = Update(told[sid], own) /\ said'[s] = Update(said[sid], own)
      BY <1>1, <2>2
    <3>2. /\ kept[s][f] = IF own[f] # NoValue THEN own[f] ELSE told[s][f]
          /\ said'[s][f] = IF own[f] # NoValue THEN own[f] ELSE said[s][f]
      BY <3>1, <2>2 DEF Update
    <3> HIDE DEF kept
    <3> QED
      BY <3>2, <2>1
  <2>3. CASE s # sid
    BY <2>1, <2>3, <1>1
  <2> QED
    BY <2>2, <2>3
\* The sessions in m, which are in order by what they announced now.
<1>10. ASSUME NEW i \in 1 .. Len(m), NEW j \in 1 .. Len(m), i < j
       PROVE  announced'[m[i]] < announced'[m[j]]
  <2>1. i \in 1 .. Len(m) - 1 /\ m[i] \in Sids /\ m[i] # sid
    BY <1>2, <1>7, <1>10
  <2>2. announced'[m[i]] = announced[m[i]] /\ announced[m[i]] \in Nat /\ announced[m[i]] <= eventCount
    BY <2>1, <1>1, <1>4
  <2>3. CASE j = Len(m)
    <3>1. announced'[m[j]] = now
      BY <2>3, <1>2, <1>4
    <3> QED
      BY <2>2, <3>1, <1>1
  <2>4. CASE j # Len(m)
    <3>1. j \in 1 .. Len(m) - 1
      BY <2>4, <1>2
    <3>2. m[j] \in Sids /\ m[j] # sid /\ announced[m[i]] < announced[m[j]]
      BY <2>1, <3>1, <1>2, <1>7, <1>10
    <3> QED
      BY <2>2, <3>2, <1>4
  <2> QED
    BY <2>3, <2>4
<1>11. ToSet(m) = {m[i] : i \in 1 .. Len(m)}
  BY <1>2, SetOf
<1>12. ToSet(order) \subseteq ToSet(m) /\ sid \in ToSet(m)
  <2>1. Len(m) \in 1 .. Len(m)
    BY <1>2
  <2>2. sid \in ToSet(m)
    BY <2>1, <1>2, <1>11
  <2>3. ASSUME NEW s \in ToSet(order), s # sid PROVE s \in ToSet(m)
    <3>1. PICK i \in 1 .. Len(m) - 1 : m[i] = s
      BY <2>3, <1>2
    <3>2. i \in 1 .. Len(m)
      BY <1>2
    <3> QED
      BY <3>1, <3>2, <1>11
  <2> QED
    BY <2>2, <2>3
<1>13. ASSUME NEW t \in ToSet(m) PROVE t = sid \/ t \in ToSet(order)
  <2>1. PICK i \in 1 .. Len(m) : m[i] = t
    BY <1>11
  <2>2. i = Len(m) \/ i \in 1 .. Len(m) - 1
    BY <1>2
  <2> QED
    BY <2>1, <2>2, <1>2
\* Whoever was outside and is still, announced before all of them.
<1>14. ASSUME NEW s \in Sids \ ToSet(m), announced'[s] # 0
       PROVE  n = MaxSessionCache /\ \A t \in ToSet(m) : announced'[s] < announced'[t]
  <2>1. s # sid /\ s \notin ToSet(order) /\ announced'[s] = announced[s]
    BY <1>4, <1>12
  <2>2. n = MaxSessionCache /\ \A t \in ToSet(order) : announced[s] < announced[t]
    BY <2>1, <1>3, <1>14
  <2>3. ASSUME NEW t \in ToSet(m) PROVE announced'[s] < announced'[t]
    <3>1. CASE t = sid
      BY <3>1, <2>1, <1>1, <1>4
    <3>2. CASE t # sid
      BY <3>2, <2>1, <2>2, <1>4, <1>7, <1>13
    <3> QED
      BY <3>1, <3>2
  <2> QED
    BY <2>2, <2>3
<1>15. CASE Len(m) <= MaxSessionCache
  <2>1. order' = m /\ told' = kept /\ forgotten' = forgotten
    BY <1>15 DEF CacheSession
  <2> HIDE DEF m, kept
  <2>2. CacheType'
    BY <1>1, <1>2, <1>4, <1>6, <1>8, <1>15, <2>1 DEF CacheType
  <2>3. Tells'
    BY <1>9, <2>1 DEF Tells
  <2>4. DOMAIN order' = 1 .. Len(m)
    BY <1>2, <2>1
  <2>5. \A i, j \in DOMAIN order' : i < j => announced'[order'[i]] < announced'[order'[j]]
    BY <2>1, <2>4, <1>10
  <2>6. \A s \in Sids \ ToSet(order') : announced'[s] # 0 =>
            /\ Len(order') = MaxSessionCache
            /\ \A t \in ToSet(order') : announced'[s] < announced'[t]
    <3>1. n = MaxSessionCache => Len(m) = MaxSessionCache
      BY <1>1, <1>2, <1>15
    <3> QED
      BY <3>1, <2>1, <1>14
  <2>7. LeastRecentlyTold'
    BY <2>5, <2>6 DEF LeastRecentlyTold
  <2> QED
    BY <2>2, <2>3, <2>7
<1>16. CASE ~ (Len(m) <= MaxSessionCache)
  <2> DEFINE rest == Tail(m)
  <2>1. /\ order' = rest /\ told' = [kept EXCEPT ![first] = Nothing]
        /\ forgotten' = forgotten \cup {first}
    BY <1>16 DEF CacheSession
  <2>2. n = MaxSessionCache /\ Len(m) = n + 1 /\ Len(m) - 1 \in Nat \ {0}
    BY <1>1, <1>2, <1>16
  <2>3. /\ first = m[1] /\ rest \in Seq(Sids) /\ Len(rest) = n
        /\ \A i \in 1 .. n : rest[i] = m[i + 1]
    <3> HIDE DEF m
    <3>1. m # << >>
      BY <1>2
    <3> QED
      BY <3>1, <1>2, <2>2, HeadTailProperties
  <2>4. 1 \in 1 .. Len(m) - 1 /\ first # sid /\ first \in Sids
    BY <2>2, <2>3, <1>2, <1>7
  <2> HIDE DEF m, kept, first, rest
  <2>5. CacheType'
    <3>1. told' \in [Sids -> Known]
      BY <1>5, <1>8, <2>1
    <3> QED
      BY <3>1, <1>1, <1>4, <1>6, <2>1, <2>2, <2>3, <2>4 DEF CacheType
  <2>6. Tells'
    <3> SUFFICES ASSUME NEW s \in Sids, NEW f \in Fields
                 PROVE  told'[s][f] = said'[s][f] \/ (told'[s][f] = NoValue /\ s \in forgotten')
      BY DEF Tells
    <3>1. CASE s = first
      <4>1. told'[s] = Nothing
        BY <3>1, <1>8, <2>1
      <4> QED
        BY <4>1, <3>1, <2>1 DEF Nothing
    <3>2. CASE s # first
      <4>1. told'[s] = kept[s]
        BY <3>2, <1>8, <2>1
      <4> QED
        BY <4>1, <1>9, <2>1
    <3> QED
      BY <3>1, <3>2
  <2>7. DOMAIN order' = 1 .. n /\ ToSet(order') = {rest[i] : i \in 1 .. n}
    BY <2>1, <2>3, SetOf
  <2>8. ASSUME NEW i \in 1 .. n, NEW j \in 1 .. n, i < j
        PROVE  announced'[rest[i]] < announced'[rest[j]]
    <3>1. i + 1 \in 1 .. Len(m) /\ j + 1 \in 1 .. Len(m) /\ i + 1 < j + 1
      BY <2>2, <2>8, <1>1
    <3> QED
      BY <3>1, <2>3, <1>10
  <2>9. ToSet(order') \subseteq ToSet(m)
    <3> SUFFICES ASSUME NEW i \in 1 .. n PROVE rest[i] \in ToSet(m)
      BY <2>7
    <3>1. i + 1 \in 1 .. Len(m)
      BY <2>2, <1>1
    <3> QED
      BY <3>1, <2>3, <1>11
  <2>10. ASSUME NEW t \in ToSet(order') PROVE announced'[first] < announced'[t]
    <3>1. PICK i \in 1 .. n : rest[i] = t
      BY <2>7
    <3>2. i + 1 \in 1 .. Len(m) /\ 1 \in 1 .. Len(m) /\ 1 < i + 1
      BY <2>2, <1>1
    <3> QED
      BY <3>1, <3>2, <2>3, <1>10
  <2>11. ASSUME NEW s \in Sids \ ToSet(order'), announced'[s] # 0
         PROVE  \A t \in ToSet(order') : announced'[s] < announced'[t]
    <3>1. CASE s = first
      BY <3>1, <2>10
    <3>2. CASE s # first
      <4>1. s \notin ToSet(m)
        <5>1. SUFFICES ASSUME NEW i \in 1 .. Len(m), m[i] = s PROVE FALSE
          BY <1>11
        <5>2. i # 1
          BY <3>2, <5>1, <2>3
        <5>3. i - 1 \in 1 .. n /\ (i - 1) + 1 = i
          BY <5>2, <2>2, <1>1
        <5>4. rest[i - 1] = s
          BY <5>1, <5>3, <2>3
        <5> QED
          BY <5>3, <5>4, <2>7
      <4> QED
        BY <4>1, <2>9, <2>11, <1>14
    <3> QED
      BY <3>1, <3>2
  <2>12. LeastRecentlyTold'
    BY <2>1, <2>2, <2>3, <2>7, <2>8, <2>11 DEF LeastRecentlyTold
  <2> QED
    BY <2>5, <2>6, <2>12
<1> QED
  BY <1>15, <1>16

\* What every queue gets, by the clients that stay subscribed.
LEMMA OfferFits ==
    ASSUME DashboardInv, Offer, eventCount' = eventCount + 1
    PROVE  StreamType' /\ SubscribersSeeAll'
<1>1. /\ subscribers' = {c \in subscribers : Len(queue[c]) < QueueSize}
      /\ queue' = [c \in Clients |->
                      IF c \in subscribers' THEN Append(queue[c], eventCount') ELSE queue[c]]
      /\ stream' = stream /\ joined' = joined
  BY DEF Offer
<1>2. /\ subscribers \subseteq Clients /\ queue \in [Clients -> Seq(Nat)]
      /\ joined \in [Clients -> 0 .. eventCount] /\ eventCount \in Nat /\ QueueSize \in Nat
  BY DashboardConstants DEF DashboardInv, StreamType, CacheType
<1>3. eventCount' \in Nat /\ subscribers' \subseteq Clients
  BY <1>1, <1>2
<1>4. \A c \in Clients : Append(queue[c], eventCount') \in Seq(Nat)
  BY <1>2, <1>3, AppendProperties
<1>5. queue' \in [Clients -> Seq(Nat)]
  BY <1>1, <1>2, <1>4
<1>6. joined' \in [Clients -> 0 .. eventCount']
  <2>1. \A n \in 0 .. eventCount : n \in 0 .. eventCount + 1
    BY <1>2
  <2> QED
    BY <2>1, <1>1, <1>2
<1>7. StreamType'
  BY <1>1, <1>3, <1>5, <1>6 DEF DashboardInv, StreamType
<1>8. ASSUME NEW c \in subscribers'
      PROVE  /\ eventCount' - joined'[c] <= QueueSize
             /\ queue'[c] = [i \in 1 .. eventCount' - joined'[c] |-> joined'[c] + i]
  <2> DEFINE n == eventCount - joined[c]
             q == queue[c]
             longer == Append(q, eventCount + 1)
             all == [i \in 1 .. n + 1 |-> joined[c] + i]
  <2>1. c \in subscribers /\ c \in Clients /\ Len(q) < QueueSize /\ q \in Seq(Nat)
    BY <1>1, <1>2
  <2>2. q = [i \in 1 .. n |-> joined[c] + i]
    BY <2>1 DEF DashboardInv, SubscribersSeeAll
  <2>3. joined[c] \in Nat /\ n \in Nat /\ eventCount' - joined'[c] = n + 1 /\ joined[c] + n = eventCount
    BY <1>1, <1>2, <2>1
  <2>4. Len(q) = n /\ \A i \in 1 .. n : q[i] = joined[c] + i
    <3>1. DOMAIN q = 1 .. n
      BY <2>2
    <3>2. DOMAIN q = 1 .. Len(q) /\ Len(q) \in Nat
      BY <2>1, LenProperties
    <3> HIDE DEF n
    <3>3. Len(q) = n
      BY <3>1, <3>2, <2>3
    <3> QED
      BY <3>3, <2>2
  <2>5. queue'[c] = longer
    BY <1>1, <2>1, <1>3
  <2>6. /\ longer \in Seq(Nat) /\ Len(longer) = n + 1 /\ longer[n + 1] = eventCount + 1
        /\ \A i \in 1 .. n : longer[i] = q[i]
    <3> HIDE DEF n, q
    <3> QED
      BY <1>2, <2>1, <2>4, AppendProperties
  <2>7. all \in Seq(Nat) /\ Len(all) = n + 1
    <3> HIDE DEF n
    <3>1. \A i \in 1 .. n + 1 : joined[c] + i \in Nat
      BY <2>3
    <3>2. all \in [1 .. n + 1 -> Nat] /\ n + 1 \in Nat
      BY <3>1, <2>3
    <3> HIDE DEF all
    <3> QED
      BY <3>2, IsASeq, LenProperties
  <2>8. ASSUME NEW i \in 1 .. n + 1 PROVE longer[i] = all[i]
    <3> HIDE DEF longer, n, q
    <3>1. all[i] = joined[c] + i
      OBVIOUS
    <3> HIDE DEF all
    <3>2. CASE i = n + 1
      <4>1. joined[c] + (n + 1) = eventCount + 1
        BY <2>3, <1>2
      <4> QED
        BY <4>1, <3>1, <3>2, <2>6
    <3>3. CASE i # n + 1
      <4>1. i \in 1 .. n
        BY <3>3, <2>3
      <4> QED
        BY <4>1, <3>1, <2>4, <2>6
    <3> QED
      BY <3>2, <3>3
  <2>9. longer = all
    <3> HIDE DEF longer, all, n
    <3> QED
      BY <2>6, <2>7, <2>8, SeqEqual
  <2>10. eventCount' - joined'[c] <= QueueSize
    <3> HIDE DEF n, q
    <3> QED
      BY <1>2, <2>1, <2>3, <2>4
  <2> HIDE DEF longer, n
  <2> QED
    BY <1>1, <2>3, <2>5, <2>9, <2>10
<1> QED
  BY <1>7, <1>8 DEF SubscribersSeeAll

LEMMA ReceiveInv ==
    ASSUME DashboardInv, NEW sid \in Sids \cup {NoValue}, NEW opens \in BOOLEAN,
           NEW own \in Known, Receive(sid, opens, own)
    PROVE  DashboardInv'
<1>1. eventCount < MaxEvents /\ eventCount' = eventCount + 1 /\ Offer
  BY DEF Receive
<1>2. StreamType' /\ SubscribersSeeAll'
  BY <1>1, OfferFits
<1>3. CacheType' /\ Tells' /\ LeastRecentlyTold'
  <2>1. CASE Announces(sid, opens, own)
    <3>1. /\ CacheSession(sid, own) /\ said' = [said EXCEPT ![sid] = Update(@, own)]
          /\ announced' = [announced EXCEPT ![sid] = eventCount + 1]
      BY <2>1, <1>1 DEF Receive
    <3>2. sid \in Sids
      BY <2>1 DEF Announces
    <3> QED
      BY <3>1, <3>2, <1>1, CacheSessionLeaves
  <2>2. CASE ~ Announces(sid, opens, own)
    <3>1. /\ order' = order /\ told' = told /\ said' = said /\ announced' = announced
          /\ forgotten' = forgotten
      BY <2>2 DEF Receive
    <3>2. /\ announced \in [Sids -> 0 .. eventCount] /\ eventCount \in 0 .. MaxEvents
          /\ MaxEvents \in Nat
      BY DashboardConstants DEF DashboardInv, CacheType
    <3>3. eventCount' \in 0 .. MaxEvents
      BY <3>2, <1>1
    <3>4. announced \in [Sids -> 0 .. eventCount']
      <4>1. \A n \in 0 .. eventCount : n \in 0 .. eventCount + 1
        BY <3>2
      <4> QED
        BY <4>1, <3>2, <1>1
    <3>5. CacheType'
      BY <3>1, <3>3, <3>4 DEF DashboardInv, CacheType
    <3>6. Tells' /\ LeastRecentlyTold'
      BY <3>1 DEF DashboardInv, Tells, LeastRecentlyTold
    <3> QED
      BY <3>5, <3>6
  <2> QED
    BY <2>1, <2>2
<1> DEFINE cached == IF sid = NoValue THEN Nothing ELSE told'[sid]
<1>4. latest' = [sid |-> sid, own |-> own, shown |-> Update(cached, own)]
  BY DEF Receive, Shown
<1>5. cached \in Known
  <2>1. Nothing \in Known
    BY DEF Nothing, Known
  <2>2. told' \in [Sids -> Known]
    BY <1>3 DEF CacheType
  <2> QED
    BY <2>1, <2>2
<1>6. LatestType'
  <2> HIDE DEF cached
  <2>1. Update(cached, own) \in Known
    BY <1>5, Fits
  <2> QED
    BY <2>1, <1>4 DEF LatestType
<1>7. RightlyAttributed'
  <2> SUFFICES ASSUME NEW f \in Fields
               PROVE  IF latest'.own[f] # NoValue THEN latest'.shown[f] = latest'.own[f]
                      ELSE IF latest'.sid = NoValue THEN latest'.shown[f] = NoValue
                      ELSE \/ latest'.shown[f] = said'[latest'.sid][f]
                           \/ latest'.shown[f] = NoValue /\ latest'.sid \in forgotten'
    BY DEF RightlyAttributed
  <2>1. latest'.sid = sid /\ latest'.own = own
    BY <1>4
  <2>2. latest'.shown[f] = IF own[f] # NoValue THEN own[f] ELSE cached[f]
    <3> HIDE DEF cached
    <3> QED
      BY <1>4 DEF Update
  <2>3. CASE own[f] # NoValue
    <3> HIDE DEF cached
    <3> QED
      BY <2>1, <2>2, <2>3
  <2>4. CASE own[f] = NoValue /\ sid = NoValue
    BY <2>1, <2>2, <2>4 DEF Nothing
  <2>5. CASE own[f] = NoValue /\ sid # NoValue
    <3>1. \/ told'[sid][f] = said'[sid][f]
          \/ told'[sid][f] = NoValue /\ sid \in forgotten'
      BY <2>5, <1>3 DEF Tells
    <3> QED
      BY <3>1, <2>1, <2>2, <2>5
  <2> QED
    BY <2>3, <2>4, <2>5
<1> QED
  BY <1>2, <1>3, <1>6, <1>7 DEF DashboardInv

\* The steps of a stream leave the cache alone.
LEMMA StreamStepInv ==
    ASSUME DashboardInv, UNCHANGED cacheVars, StreamType', SubscribersSeeAll'
    PROVE  DashboardInv'
<1>1. /\ order' = order /\ told' = told /\ eventCount' = eventCount /\ latest' = latest
      /\ said' = said /\ announced' = announced /\ forgotten' = forgotten
  BY DEF cacheVars
<1>2. CacheType' /\ LatestType'
  BY <1>1 DEF DashboardInv, CacheType, LatestType
<1>3. Tells' /\ RightlyAttributed' /\ LeastRecentlyTold'
  BY <1>1 DEF DashboardInv, Tells, RightlyAttributed, LeastRecentlyTold
<1> QED
  BY <1>2, <1>3 DEF DashboardInv

LEMMA OpenInv == ASSUME DashboardInv, NEW c \in Clients, OpenStream(c) PROVE DashboardInv'
<1>1. /\ subscribers' = subscribers \cup {c} /\ queue' = [queue EXCEPT ![c] = << >>]
      /\ stream' = [stream EXCEPT ![c] = "opening"]
      /\ joined' = [joined EXCEPT ![c] = eventCount] /\ UNCHANGED cacheVars
  BY DEF OpenStream
<1>2. /\ subscribers \subseteq Clients /\ queue \in [Clients -> Seq(Nat)]
      /\ stream \in [Clients -> {"none", "opening", "failed", "left"}]
      /\ joined \in [Clients -> 0 .. eventCount] /\ eventCount \in Nat /\ eventCount' = eventCount
      /\ QueueSize \in Nat
  BY <1>1, DashboardConstants DEF DashboardInv, StreamType, CacheType, cacheVars
<1>3. << >> \in Seq(Nat) /\ eventCount \in 0 .. eventCount
  BY <1>2
<1>4. StreamType'
  BY <1>1, <1>2, <1>3 DEF StreamType
<1>5. SubscribersSeeAll'
  <2> SUFFICES ASSUME NEW d \in subscribers'
               PROVE  /\ eventCount' - joined'[d] <= QueueSize
                      /\ queue'[d] = [i \in 1 .. eventCount' - joined'[d] |-> joined'[d] + i]
    BY DEF SubscribersSeeAll
  <2>1. CASE d = c
    <3>1. queue'[d] = << >> /\ joined'[d] = eventCount /\ eventCount' - joined'[d] = 0
      BY <2>1, <1>1, <1>2
    <3>2. [i \in 1 .. 0 |-> joined'[d] + i] = << >>
      OBVIOUS
    <3> QED
      BY <3>1, <3>2, <1>2
  <2>2. CASE d # c
    <3>1. d \in subscribers /\ d \in Clients
      BY <2>2, <1>1, <1>2
    <3>2. joined'[d] = joined[d] /\ queue'[d] = queue[d]
      BY <2>2, <3>1, <1>1, <1>2
    <3>3. /\ eventCount - joined[d] <= QueueSize
          /\ queue[d] = [i \in 1 .. eventCount - joined[d] |-> joined[d] + i]
      BY <3>1 DEF DashboardInv, SubscribersSeeAll
    <3> QED
      BY <3>2, <3>3, <1>2
  <2> QED
    BY <2>1, <2>2
<1> QED
  BY <1>1, <1>4, <1>5, StreamStepInv

LEMMA FirstStepInv == ASSUME DashboardInv, NEW c \in Clients, FirstStep(c) PROVE DashboardInv'
<1>1. /\ subscribers' = subscribers \ {c} /\ queue' = queue /\ joined' = joined
      /\ stream' = [stream EXCEPT ![c] = "failed"] /\ UNCHANGED cacheVars
      /\ eventCount' = eventCount
  BY DEF FirstStep, cacheVars
<1>2. StreamType' /\ SubscribersSeeAll'
  BY <1>1 DEF DashboardInv, StreamType, SubscribersSeeAll
<1> QED
  BY <1>1, <1>2, StreamStepInv

LEMMA LeaveInv == ASSUME DashboardInv, NEW c \in Clients, Leave(c) PROVE DashboardInv'
<1>1. /\ subscribers' = subscribers /\ queue' = queue /\ joined' = joined
      /\ stream' = [stream EXCEPT ![c] = "left"] /\ UNCHANGED cacheVars
      /\ eventCount' = eventCount
  BY DEF Leave, cacheVars
<1>2. StreamType' /\ SubscribersSeeAll'
  BY <1>1 DEF DashboardInv, StreamType, SubscribersSeeAll
<1> QED
  BY <1>1, <1>2, StreamStepInv

LEMMA DashboardStepInv == DashboardInv /\ [DashboardNext]_dashboardVars => DashboardInv'
<1> SUFFICES ASSUME DashboardInv, [DashboardNext]_dashboardVars PROVE DashboardInv'
  OBVIOUS
<1>1. CASE \E sid \in Sids \cup {NoValue}, opens \in BOOLEAN, own \in Known :
               Receive(sid, opens, own)
  BY <1>1, ReceiveInv
<1>2. CASE \E c \in Clients : OpenStream(c) \/ FirstStep(c) \/ Leave(c)
  BY <1>2, OpenInv, FirstStepInv, LeaveInv
<1>3. CASE UNCHANGED dashboardVars
  <2>1. /\ UNCHANGED cacheVars /\ UNCHANGED <<subscribers, queue, stream, joined>>
        /\ eventCount' = eventCount
    BY <1>3 DEF dashboardVars, streamVars, cacheVars
  <2>2. StreamType' /\ SubscribersSeeAll'
    BY <2>1 DEF DashboardInv, StreamType, SubscribersSeeAll
  <2> QED
    BY <2>1, <2>2, StreamStepInv
<1> QED
  BY <1>1, <1>2, <1>3 DEF DashboardNext

LEMMA DashboardAlways == DashboardSpec => []DashboardInv
BY DashboardInitInv, DashboardStepInv, PTL DEF DashboardSpec

\* The types, and that the cache never holds more than it may.
THEOREM DashboardTypeCorrect == DashboardSpec => []DashboardTypeOK
<1>1. DashboardInv => DashboardTypeOK
  BY DEF DashboardInv, CacheType, LatestType, StreamType, DashboardTypeOK
<1> QED
  BY <1>1, DashboardAlways, PTL

\* No event is ever shown with another session's address or user, or with one
\* its own session has superseded.
THEOREM AlwaysRightlyAttributed == DashboardSpec => []RightlyAttributed
<1>1. DashboardInv => RightlyAttributed
  BY DEF DashboardInv
<1> QED
  BY <1>1, DashboardAlways, PTL

\* The cache is what an OrderedDict with move_to_end should make it: the
\* sessions told last, no other dropped, none dropped early.
THEOREM AlwaysLeastRecentlyTold == DashboardSpec => []LeastRecentlyTold
<1>1. DashboardInv => LeastRecentlyTold
  BY DEF DashboardInv
<1> QED
  BY <1>1, DashboardAlways, PTL

\* A queue misses no event while it is subscribed and does not stay for good.
THEOREM SubscribersAlwaysSeeAll == DashboardSpec => []SubscribersSeeAll
<1>1. DashboardInv => SubscribersSeeAll
  BY DEF DashboardInv
<1> QED
  BY <1>1, DashboardAlways, PTL

-----------------------------------------------------------------------------
(* The pages of the dashboard's lists.                                        *)

TableFits(R) == R \subseteq Rows /\ IsFiniteSet(R)

\* A page holds what its places leave of the limit.
LEMMA PageSize ==
    ASSUME NEW S, IsFiniteSet(S), NEW place \in Bijection(S, 0 .. Cardinality(S) - 1),
           NEW o \in Nat
    PROVE  /\ Page(place, o) \subseteq S /\ IsFiniteSet(Page(place, o))
           /\ Cardinality(Page(place, o)) =
                IF o + PageLimit <= Cardinality(S) THEN PageLimit
                ELSE IF o <= Cardinality(S) THEN Cardinality(S) - o ELSE 0
<1> DEFINE n == Cardinality(S)
           P == Page(place, o)
           m == IF o + PageLimit <= n THEN o + PageLimit ELSE n
           g == [x \in P |-> place[x]]
<1>1. n \in Nat /\ PageLimit \in Nat \ {0}
  BY FS_CardinalityType, PagesAssumption
<1>2. /\ place \in [S -> 0 .. n - 1] /\ DOMAIN place = S
      /\ \A x, y \in S : place[x] = place[y] => x = y
      /\ \A i \in 0 .. n - 1 : \E x \in S : place[x] = i
  BY DEF Bijection, Injection, Surjection, IsInjective
<1>3. P = {x \in S : place[x] >= o /\ place[x] < o + PageLimit}
  BY <1>2 DEF Page
<1>4. P \subseteq S /\ IsFiniteSet(P)
  BY <1>3, FS_Subset
<1> HIDE DEF P
<1>5. ASSUME NEW x \in P PROVE place[x] \in o .. m - 1
  BY <1>1, <1>2, <1>3
<1>6. ASSUME NEW i \in o .. m - 1 PROVE \E x \in P : place[x] = i
  <2>1. i \in 0 .. n - 1 /\ i >= o /\ i < o + PageLimit
    BY <1>1
  <2>2. PICK x \in S : place[x] = i
    BY <1>2, <2>1
  <2> QED
    BY <2>1, <2>2, <1>3
<1>7. g \in Bijection(P, o .. m - 1)
  <2>1. g \in [P -> o .. m - 1] /\ \A x \in P : g[x] = place[x]
    BY <1>5
  <2> HIDE DEF g, m
  <2>2. \A x, y \in P : g[x] = g[y] => x = y
    BY <2>1, <1>2, <1>4
  <2>3. \A i \in o .. m - 1 : \E x \in P : g[x] = i
    BY <2>1, <1>6
  <2> QED
    BY <2>1, <2>2, <2>3 DEF Bijection, Injection, Surjection, IsInjective
<1>8. Cardinality(P) = Cardinality(o .. m - 1)
  <2>1. ExistsBijection(P, o .. m - 1)
    BY <1>7 DEF ExistsBijection
  <2> QED
    BY <2>1, <1>4, FS_Bijection
<1>9. Cardinality(o .. m - 1) = IF o > m - 1 THEN 0 ELSE m - 1 - o + 1
  <2>1. o \in Int /\ m - 1 \in Int
    BY <1>1
  <2> QED
    BY <2>1, FS_Interval
<1>10. Cardinality(P) = IF o + PageLimit <= n THEN PageLimit ELSE IF o <= n THEN n - o ELSE 0
  BY <1>8, <1>9, <1>1
<1> QED
  BY <1>4, <1>10 DEF P

\* The items of each list are finite in number.
LEMMA ItemsFinite ==
    ASSUME NEW R, TableFits(R), NEW list \in Lists
    PROVE  IsFiniteSet(Items(list, R))
<1>1. IsFiniteSet(Timeline(R)) /\ IsFiniteSet(R)
  BY FS_Subset DEF Timeline, TableFits
<1>2. IsFiniteSet(Listed(R))
  <2> DEFINE V == {r \in R : "sessions" \notin r.hidden}
             f == [r \in V |-> r.sid]
  <2>1. IsFiniteSet(V)
    BY FS_Subset DEF TableFits
  <2>2. f \in Surjection(V, Listed(R))
    <3>1. \A r \in V : r.sid \in Listed(R)
      BY DEF Listed, Visible, TableFits, Rows
    <3>2. \A s \in Listed(R) : \E r \in V : r.sid = s
      BY DEF Listed, Visible
    <3> QED
      BY <3>1, <3>2 DEF Surjection
  <2> HIDE DEF f, V
  <2> QED
    BY <2>1, <2>2, FS_Surjection
<1> QED
  BY <1>1, <1>2 DEF Items, Lists

\* A session's stamp is that of its last row.
LEMMA SessionStamp ==
    ASSUME NEW R, TableFits(R), NEW sid \in Listed(R)
    PROVE  LET t == StampOf("sessions", R, sid)
           IN  /\ t \in Nat
               /\ \E q \in Visible(R, sid) : q.ts = t
               /\ \A r \in Visible(R, sid) : r.ts \in Nat /\ r.ts <= t
<1> DEFINE T == {r.ts : r \in Visible(R, sid)}
<1>1. PICK e \in Visible(R, sid) : TRUE
  BY DEF Listed
<1>2. T \subseteq 1 .. LastStamp /\ e.ts \in T
  BY <1>1 DEF Visible, TableFits, Rows
<1>3. T \in SUBSET Nat /\ LastStamp \in Nat /\ \A n \in T : n <= LastStamp
  BY <1>2, PagesAssumption
<1>4. StampOf("sessions", R, sid) = Max(T)
  BY DEF StampOf
<1>5. \A r \in Visible(R, sid) : r.ts \in T
  OBVIOUS
<1>6. \A t \in T : \E q \in Visible(R, sid) : q.ts = t
  OBVIOUS
<1> HIDE DEF T
<1>7. \E m \in T : \A k \in T : k <= m
  BY <1>2, <1>3, Greatest
<1>8. Max(T) \in T /\ \A k \in T : Max(T) >= k
  <2>1. \E m \in T : \A k \in T : m >= k
    BY <1>7, <1>3
  <2> QED
    BY <2>1 DEF Max
<1> QED
  BY <1>3, <1>4, <1>5, <1>6, <1>8

LEMMA StampIsNat ==
    ASSUME NEW R, TableFits(R), NEW list \in Lists, NEW x \in Items(list, R)
    PROVE  StampOf(list, R, x) \in Nat
<1>1. CASE list = "sessions"
  BY <1>1, SessionStamp DEF Items
<1>2. CASE list \in {"timeline", "recent"}
  <2>1. StampOf(list, R, x) = x.ts /\ x \in Rows
    BY <1>2 DEF StampOf, Items, Timeline, TableFits
  <2> QED
    BY <2>1, PagesAssumption DEF Rows
<1> QED
  BY <1>1, <1>2 DEF Lists

\* What comes before an item are items.
LEMMA RankIsNat ==
    ASSUME NEW R, TableFits(R), NEW list \in Lists, NEW x
    PROVE  IsFiniteSet(Ahead(list, R, x)) /\ Rank(list, R, x) \in Nat
<1>1. Ahead(list, R, x) \subseteq Items(list, R)
  BY DEF Ahead
<1> QED
  BY <1>1, ItemsFinite, FS_Subset, FS_CardinalityType DEF Rank

\* Other items than one that is alone come before it or after it.
LEMMA AloneCompares ==
    ASSUME NEW R, TableFits(R), NEW list \in Lists,
           NEW x \in Items(list, R), Alone(list, R, x), NEW y \in Items(list, R), x # y
    PROVE  y \in Ahead(list, R, x) \/ x \in Ahead(list, R, y)
<1>1. StampOf(list, R, x) \in Nat /\ StampOf(list, R, y) \in Nat
  BY StampIsNat
<1>2. StampOf(list, R, x) # StampOf(list, R, y)
  <2>1. CASE list = "sessions"
    <3>1. x \in Listed(R) /\ y \in Listed(R) /\ y \in Visits \ {x}
      BY <2>1 DEF Items, Listed
    <3>2. PICK q \in Visible(R, y) : q.ts = StampOf(list, R, y)
      BY <2>1, <3>1, SessionStamp
    <3>3. \A sid \in Visits \ {x} : \A r \in Visible(R, sid) : r.ts # StampOf(list, R, x)
      BY <2>1 DEF Alone
    <3> QED
      BY <3>1, <3>2, <3>3
  <2>2. CASE list \in {"timeline", "recent"}
    BY <2>2 DEF Alone, StampOf
  <2> QED
    BY <2>1, <2>2 DEF Lists
<1> QED
  BY <1>1, <1>2 DEF Ahead

\* Wherever a statement puts equal timestamps, it puts an item that is alone
\* behind those that come before it.
LEMMA AlonePlace ==
    ASSUME NEW R, TableFits(R), NEW list \in Lists, NEW place \in Orders(list, R),
           NEW x \in Items(list, R), Alone(list, R, x)
    PROVE  place[x] = Rank(list, R, x)
<1> DEFINE S == Items(list, R)
           n == Cardinality(S)
           A == Ahead(list, R, x)
           g == [y \in A |-> place[y]]
<1>1. IsFiniteSet(S) /\ n \in Nat /\ A \subseteq S /\ IsFiniteSet(A) /\ Cardinality(A) \in Nat
  BY ItemsFinite, FS_CardinalityType, RankIsNat DEF Ahead
<1>2. /\ place \in [S -> 0 .. n - 1]
      /\ \A y, z \in S : place[y] = place[z] => y = z
      /\ \A i \in 0 .. n - 1 : \E y \in S : place[y] = i
      /\ \A y, z \in S : y \in Ahead(list, R, z) => place[y] < place[z]
  BY DEF Orders, Bijection, Injection, Surjection, IsInjective
<1>3. \A y \in S : x # y => y \in A \/ x \in Ahead(list, R, y)
  BY AloneCompares
<1>4. place[x] \in 0 .. n - 1 /\ \A y \in A : place[y] \in 0 .. place[x] - 1
  BY <1>1, <1>2
<1>5. ASSUME NEW i \in 0 .. place[x] - 1 PROVE \E y \in A : place[y] = i
  <2>1. i \in 0 .. n - 1 /\ i < place[x]
    BY <1>1, <1>4
  <2>2. PICK y \in S : place[y] = i
    BY <2>1, <1>2
  <2>3. y # x /\ ~ (place[x] < place[y])
    BY <2>1, <2>2, <1>1, <1>4
  <2>4. x \notin Ahead(list, R, y)
    BY <2>2, <2>3, <1>2
  <2> QED
    BY <2>2, <2>3, <2>4, <1>3
<1>6. g \in Bijection(A, 0 .. place[x] - 1)
  <2>1. g \in [A -> 0 .. place[x] - 1] /\ \A y \in A : g[y] = place[y]
    BY <1>4
  <2> HIDE DEF g, A
  <2>2. \A y, z \in A : g[y] = g[z] => y = z
    BY <2>1, <1>1, <1>2
  <2>3. \A i \in 0 .. place[x] - 1 : \E y \in A : g[y] = i
    BY <2>1, <1>5
  <2> QED
    BY <2>1, <2>2, <2>3 DEF Bijection, Injection, Surjection, IsInjective
<1> HIDE DEF g, A
<1>7. Cardinality(A) = Cardinality(0 .. place[x] - 1)
  <2>1. ExistsBijection(A, 0 .. place[x] - 1)
    BY <1>6 DEF ExistsBijection
  <2> QED
    BY <2>1, <1>1, FS_Bijection
<1>8. Cardinality(0 .. place[x] - 1) = place[x]
  <2>1. 0 \in Int /\ place[x] - 1 \in Int /\ place[x] \in Nat
    BY <1>1, <1>4
  <2>2. Cardinality(0 .. place[x] - 1) = IF 0 > place[x] - 1 THEN 0 ELSE place[x] - 1 - 0 + 1
    BY <2>1, FS_Interval
  <2> QED
    BY <2>1, <2>2
<1> QED
  BY <1>7, <1>8 DEF Rank, A

\* Rows that are added take no item away.
LEMMA ItemsGrow ==
    ASSUME NEW R, NEW Q, R \subseteq Q, NEW list \in Lists
    PROVE  Items(list, R) \subseteq Items(list, Q)
  BY DEF Items, Lists, Listed, Visible, Timeline

\* They put nothing that has not moved further to the front, and leave nothing
\* alone that was not.
LEMMA RankGrows ==
    ASSUME NEW R, NEW Q, TableFits(R), TableFits(Q), R \subseteq Q, NEW list \in Lists,
           NEW x \in Items(list, R), list = "sessions" => Visible(Q, x) = Visible(R, x)
    PROVE  /\ Rank(list, Q, x) >= Rank(list, R, x)
           /\ Alone(list, Q, x) => Alone(list, R, x)
<1>1. StampOf(list, Q, x) = StampOf(list, R, x)
  BY DEF StampOf
<1>2. \A t : Visible(R, t) \subseteq Visible(Q, t)
  BY DEF Visible
<1>3. Items(list, R) \subseteq Items(list, Q)
  BY ItemsGrow
<1>4. ASSUME NEW y \in Ahead(list, R, x) PROVE y \in Ahead(list, Q, x)
  <2>1. y \in Items(list, R) /\ y \in Items(list, Q)
    BY <1>3 DEF Ahead
  <2>2. /\ StampOf(list, R, y) \in Nat /\ StampOf(list, Q, y) \in Nat
        /\ StampOf(list, R, x) \in Nat
    BY <2>1, StampIsNat
  <2>3. CASE list = "sessions"
    <3>1. PICK q \in Visible(R, y) : q.ts = StampOf(list, R, y)
      BY <2>1, <2>3, SessionStamp DEF Items
    <3>2. q \in Visible(Q, y)
      BY <3>1, <1>2
    <3>3. \A r \in Visible(Q, y) : r.ts \in Nat /\ r.ts <= StampOf(list, Q, y)
      BY <2>1, <2>3, SessionStamp DEF Items
    <3>4. StampOf(list, R, y) <= StampOf(list, Q, y)
      BY <3>1, <3>2, <3>3
    <3>5. StampOf(list, R, y) > StampOf(list, R, x)
      BY <2>3 DEF Ahead
    <3>6. StampOf(list, Q, y) > StampOf(list, Q, x)
      BY <3>4, <3>5, <2>2, <1>1
    <3> QED
      BY <3>6, <2>1, <2>3 DEF Ahead
  <2>4. CASE list \in {"timeline", "recent"}
    BY <2>4, <2>1 DEF Ahead, StampOf
  <2> QED
    BY <2>3, <2>4 DEF Lists
<1>5. Rank(list, Q, x) >= Rank(list, R, x)
  <2>1. Ahead(list, R, x) \subseteq Ahead(list, Q, x)
    BY <1>4
  <2> QED
    BY <2>1, RankIsNat, FS_Subset DEF Rank
<1>6. Alone(list, Q, x) => Alone(list, R, x)
  BY <1>1, <1>2, <1>3 DEF Alone
<1> QED
  BY <1>5, <1>6
-----------------------------------------------------------------------------
(* The inductive invariant: while nothing is written the client has got as    *)
(* many items as lie before its offset, and with no two timestamps equal      *)
(* those; what is written adds rows.                                          *)
WalkType ==
    walk \in [list : Lists, at : {"idle", "asking", "counted", "done"}, offset : Nat,
              total : Nat, got : Nat, seen : SUBSET (Visits \cup Rows)]
AllAlone == \A x \in Items(walk.list, table) : Alone(walk.list, table, x)
Undisturbed ==
    LET items == Items(walk.list, table)
        n == Cardinality(items)
    IN table = before =>
        /\ walk.got = IF walk.offset <= n THEN walk.offset ELSE n
        /\ walk.at \in {"counted", "done"} => walk.total = n
        /\ walk.at = "done" => walk.offset >= n
        /\ AllAlone =>
              /\ walk.seen = {x \in items : Rank(walk.list, table, x) < walk.offset}
              /\ walk.got = Cardinality(walk.seen)
PagesInv ==
    /\ TableFits(table) /\ before \subseteq table /\ WalkType
    /\ walk.at = "idle" => walk.offset = 0 /\ walk.got = 0 /\ walk.seen = {}
    /\ NoneSkipped /\ Undisturbed

LEMMA PagesInitInv == ASSUME PagesInit PROVE PagesInv
<1>1. IsFiniteSet({}) /\ Cardinality({}) = 0
  BY FS_EmptySet
<1>2. TableFits(table) /\ before \subseteq table /\ WalkType
  BY <1>1 DEF PagesInit, TableFits, WalkType, Lists
<1>3. walk.list = "sessions" /\ walk.seen = {} /\ walk.got = 0 /\ walk.at = "idle" /\ walk.offset = 0
  BY DEF PagesInit
<1>4. Items("sessions", {}) = {}
  BY DEF Items, Listed, Visible
<1>5. NoneSkipped
  BY <1>3, <1>4 DEF NoneSkipped, PagesInit
<1>6. Undisturbed
  BY <1>1, <1>3, <1>4 DEF Undisturbed, PagesInit
<1> QED
  BY <1>2, <1>3, <1>5, <1>6 DEF PagesInv

LEMMA StoreInv == ASSUME PagesInv, NEW row \in Rows, Store(row) PROVE PagesInv'
<1>1. /\ TableFits(table) /\ before \subseteq table /\ WalkType
      /\ walk.at = "idle" => walk.offset = 0 /\ walk.got = 0 /\ walk.seen = {}
      /\ NoneSkipped
  BY DEF PagesInv
<1>2. table' = table \cup {row} /\ before' = before /\ walk' = walk
      /\ \A r \in table : r.id # row.id
  BY DEF Store
<1>3. TableFits(table') /\ before \subseteq table' /\ table \subseteq table'
  BY <1>1, <1>2, FS_AddElement DEF TableFits
<1>4. row \notin before
  BY <1>1, <1>2
<1>5. Undisturbed'
  BY <1>2, <1>4 DEF Undisturbed
<1>6. walk.list \in Lists
  BY <1>1 DEF WalkType
<1>7. ASSUME NEW x \in Items(walk.list, before)
      PROVE  /\ x \in Items(walk.list, table')
             /\ (walk.list = "sessions" => Visible(table', x) = Visible(before, x))
                /\ Alone(walk.list, table', x) =>
                   \/ x \in walk.seen
                   \/ walk.at # "done" /\ Rank(walk.list, table', x) >= walk.offset
  <2>1. x \in Items(walk.list, table)
    BY <1>1 DEF NoneSkipped
  <2>2. x \in Items(walk.list, table')
    BY <2>1, <1>3, <1>6, ItemsGrow
  <2>3. ASSUME walk.list = "sessions" => Visible(table', x) = Visible(before, x),
               Alone(walk.list, table', x), x \notin walk.seen
        PROVE  walk.at # "done" /\ Rank(walk.list, table', x) >= walk.offset
    <3>1. Visible(before, x) \subseteq Visible(table, x) /\ Visible(table, x) \subseteq Visible(table', x)
      BY <1>1, <1>3 DEF Visible
    <3>2. walk.list = "sessions" => /\ Visible(table, x) = Visible(before, x)
                                    /\ Visible(table', x) = Visible(table, x)
      BY <2>3, <3>1
    <3>3. Rank(walk.list, table', x) >= Rank(walk.list, table, x) /\ Alone(walk.list, table, x)
      BY <2>1, <2>3, <3>2, <1>1, <1>3, <1>6, RankGrows
    <3>4. walk.at # "done" /\ Rank(walk.list, table, x) >= walk.offset
      BY <2>3, <3>2, <3>3, <1>1 DEF NoneSkipped, Unmoved
    <3>5. Rank(walk.list, table', x) \in Nat /\ Rank(walk.list, table, x) \in Nat /\ walk.offset \in Nat
      BY <1>1, <1>3, <1>6, RankIsNat DEF WalkType
    <3> QED
      BY <3>3, <3>4, <3>5
  <2> QED
    BY <2>2, <2>3
<1>8. NoneSkipped'
  BY <1>2, <1>7 DEF NoneSkipped, Unmoved
<1> QED
  BY <1>1, <1>2, <1>3, <1>5, <1>8 DEF PagesInv, WalkType

LEMMA BeginInv == ASSUME PagesInv, NEW list \in Lists, BeginWalk(list) PROVE PagesInv'
<1>1. TableFits(table) /\ WalkType /\ walk.offset = 0 /\ walk.got = 0 /\ walk.seen = {}
  BY DEF PagesInv, BeginWalk
<1>2. table' = table /\ before' = table /\ walk' \in [list : Lists,
        at : {"idle", "asking", "counted", "done"}, offset : Nat,
        total : Nat, got : Nat, seen : SUBSET (Visits \cup Rows)]
      /\ walk'.list = list /\ walk'.at = "asking" /\ walk'.offset = 0 /\ walk'.got = 0 /\ walk'.seen = {}
  BY <1>1 DEF BeginWalk, WalkType
<1>3. \A x : Rank(list, table, x) \in Nat
  BY <1>1, RankIsNat
<1>4. NoneSkipped'
  BY <1>2, <1>3 DEF NoneSkipped
<1>5. Undisturbed'
  <2>1. {x \in Items(list, table) : Rank(list, table, x) < 0} = {}
    BY <1>3
  <2>2. Cardinality(Items(list, table)) \in Nat
    BY <1>1, ItemsFinite, FS_CardinalityType
  <2> QED
    BY <1>2, <2>1, <2>2, FS_EmptySet DEF Undisturbed
<1> QED
  BY <1>1, <1>2, <1>4, <1>5 DEF PagesInv, WalkType, TableFits

LEMMA CountInv == ASSUME PagesInv, CountItems PROVE PagesInv'
<1>1. TableFits(table) /\ before \subseteq table /\ WalkType /\ NoneSkipped /\ Undisturbed
  BY DEF PagesInv
<1>2. Cardinality(Items(walk.list, table)) \in Nat
  BY <1>1, ItemsFinite, FS_CardinalityType DEF WalkType
<1>3. /\ table' = table /\ before' = before /\ walk.at = "asking"
      /\ walk'.list = walk.list /\ walk'.at = "counted" /\ walk'.offset = walk.offset
      /\ walk'.got = walk.got /\ walk'.seen = walk.seen
      /\ walk'.total = Cardinality(Items(walk.list, table))
      /\ WalkType'
  BY <1>1, <1>2 DEF CountItems, WalkType
<1>4. NoneSkipped'
  BY <1>1, <1>3 DEF NoneSkipped, Unmoved
<1>5. Undisturbed'
  BY <1>1, <1>3 DEF Undisturbed, AllAlone
<1> QED
  BY <1>1, <1>3, <1>4, <1>5 DEF PagesInv, TableFits

LEMMA ReadInv == ASSUME PagesInv, ReadPage PROVE PagesInv'
<1> DEFINE list == walk.list
           o == walk.offset
           items == Items(list, table)
           n == Cardinality(items)
<1>1. /\ TableFits(table) /\ before \subseteq table /\ WalkType /\ NoneSkipped /\ Undisturbed
      /\ walk.at = "counted" /\ list \in Lists /\ o \in Nat /\ walk.got \in Nat
  BY DEF PagesInv, ReadPage, WalkType
<1>2. PICK place \in Orders(list, table) :
        walk' = [walk EXCEPT !.at = IF Cardinality(Page(place, o)) < PageLimit THEN "done" ELSE "asking",
                             !.offset = @ + PageLimit,
                             !.got = @ + Cardinality(Page(place, o)), !.seen = @ \cup Page(place, o)]
  BY DEF ReadPage
<1> DEFINE page == Page(place, o)
<1>3. IsFiniteSet(items) /\ n \in Nat /\ PageLimit \in Nat \ {0}
      /\ \A x : Rank(list, table, x) \in Nat
  BY <1>1, ItemsFinite, FS_CardinalityType, PagesAssumption, RankIsNat
<1>4. /\ place \in Bijection(items, 0 .. n - 1) /\ DOMAIN place = items
      /\ \A x \in items : place[x] \in 0 .. n - 1
  <2>1. place \in Bijection(items, 0 .. n - 1)
    BY DEF Orders
  <2>2. place \in [items -> 0 .. n - 1]
    BY <2>1 DEF Bijection, Injection
  <2> QED
    BY <2>1, <2>2
<1>5. /\ page \subseteq items /\ IsFiniteSet(page)
      /\ Cardinality(page) =
           IF o + PageLimit <= n THEN PageLimit ELSE IF o <= n THEN n - o ELSE 0
  BY <1>1, <1>3, <1>4, PageSize
<1>6. Cardinality(page) \in Nat /\ (Cardinality(page) < PageLimit <=> n < o + PageLimit)
  BY <1>1, <1>3, <1>5
<1>7. items \subseteq Visits \cup Rows
  BY <1>1 DEF Items, Lists, Listed, Timeline, TableFits
<1>8. /\ table' = table /\ before' = before /\ walk'.list = list
      /\ walk'.at = (IF n < o + PageLimit THEN "done" ELSE "asking")
      /\ walk'.offset = o + PageLimit /\ walk'.got = walk.got + Cardinality(page)
      /\ walk'.seen = walk.seen \cup page /\ walk'.total = walk.total
      /\ WalkType'
  <2>1. page \subseteq Visits \cup Rows
    BY <1>5, <1>7
  <2> HIDE DEF page, n
  <2>2. /\ walk.seen \cup page \subseteq Visits \cup Rows /\ walk.total \in Nat
        /\ walk.got + Cardinality(page) \in Nat /\ o + PageLimit \in Nat
    BY <1>1, <1>3, <1>6, <2>1 DEF WalkType
  <2>3. walk' = [list |-> list, at |-> IF n < o + PageLimit THEN "done" ELSE "asking",
                 offset |-> o + PageLimit, total |-> walk.total,
                 got |-> walk.got + Cardinality(page), seen |-> walk.seen \cup page]
    BY <1>2, <1>1, <1>6 DEF WalkType, page
  <2>4. table' = table /\ before' = before
    BY DEF ReadPage
  <2>5. list \in Lists
    BY <1>1
  <2> HIDE DEF o, list
  <2>6. WalkType'
    BY <2>2, <2>3, <2>5 DEF WalkType
  <2>7. walk'.list = list /\ walk'.at = IF n < o + PageLimit THEN "done" ELSE "asking"
    BY <2>3
  <2>8. /\ walk'.offset = o + PageLimit /\ walk'.got = walk.got + Cardinality(page)
        /\ walk'.seen = walk.seen \cup page /\ walk'.total = walk.total
    BY <2>3
  <2> QED
    BY <2>4, <2>6, <2>7, <2>8
<1>9. \A x \in items : Alone(list, table, x) => place[x] = Rank(list, table, x)
  BY <1>1, AlonePlace
<1>10. ASSUME NEW x \in items, Alone(list, table, x)
       PROVE  /\ x \in page <=> Rank(list, table, x) >= o /\ Rank(list, table, x) < o + PageLimit
              /\ Rank(list, table, x) < n
  BY <1>10, <1>3, <1>4, <1>9 DEF Page
<1>11. NoneSkipped'
  <2>1. SUFFICES ASSUME NEW x \in Items(list, before)
                 PROVE  /\ x \in items
                        /\ Unmoved(x) /\ Alone(list, table, x) =>
                              \/ x \in walk.seen \cup page
                              \/ walk'.at # "done" /\ Rank(list, table, x) >= o + PageLimit
    BY <1>8 DEF NoneSkipped, Unmoved
  <2>2. x \in items /\ (Unmoved(x) /\ Alone(list, table, x) =>
                           x \in walk.seen \/ Rank(list, table, x) >= o)
    BY <1>1 DEF NoneSkipped
  <2>3. Alone(list, table, x) /\ Rank(list, table, x) >= o =>
           x \in page \/ Rank(list, table, x) >= o + PageLimit
    BY <1>1, <1>3, <1>10, <2>2
  <2>4. Alone(list, table, x) /\ Rank(list, table, x) >= o + PageLimit => walk'.at # "done"
    BY <1>1, <1>3, <1>8, <1>10, <2>2
  <2> QED
    BY <2>2, <2>3, <2>4
<1>12. Undisturbed'
  <2>1. SUFFICES ASSUME table = before
                 PROVE  /\ walk'.got = IF o + PageLimit <= n THEN o + PageLimit ELSE n
                        /\ walk.total = n
                        /\ walk'.at = "done" => o + PageLimit >= n
                        /\ AllAlone =>
                             /\ walk.seen \cup page =
                                  {x \in items : Rank(list, table, x) < o + PageLimit}
                             /\ walk'.got = Cardinality(walk.seen \cup page)
    <3> HIDE DEF page, n, o
    <3>1. Items(walk'.list, table') = items /\ Cardinality(items) = n
          /\ (table' = before' <=> table = before) /\ (AllAlone' <=> AllAlone)
          /\ \A x : Rank(walk'.list, table', x) = Rank(list, table, x)
      BY <1>8 DEF AllAlone, n
    <3> QED
      BY <1>8, <3>1, <2>1 DEF Undisturbed
  <2>2. walk.got = (IF o <= n THEN o ELSE n) /\ walk.total = n
    BY <2>1, <1>1 DEF Undisturbed
  <2>3. walk'.got = IF o + PageLimit <= n THEN o + PageLimit ELSE n
    BY <2>2, <1>1, <1>3, <1>5, <1>8
  <2>4. walk'.at = "done" => o + PageLimit >= n
    BY <1>1, <1>3, <1>8
  <2>5. ASSUME AllAlone
        PROVE  /\ walk.seen \cup page = {x \in items : Rank(list, table, x) < o + PageLimit}
               /\ walk'.got = Cardinality(walk.seen \cup page)
    <3>1. walk.seen = {x \in items : Rank(list, table, x) < o} /\ walk.got = Cardinality(walk.seen)
      BY <2>1, <2>5, <1>1 DEF Undisturbed
    <3>2. \A x \in items : x \in page <=> Rank(list, table, x) >= o /\ Rank(list, table, x) < o + PageLimit
      BY <2>5, <1>10 DEF AllAlone
    <3> HIDE DEF page
    <3>3. walk.seen \cup page = {x \in items : Rank(list, table, x) < o + PageLimit}
      BY <3>1, <3>2, <1>1, <1>3, <1>5
    <3>4. walk.seen \cap page = {}
      BY <3>1, <3>2, <1>1, <1>3, <1>5
    <3>5. IsFiniteSet(walk.seen)
      BY <3>1, <1>3, FS_Subset
    <3>6. Cardinality(walk.seen \cup page) =
            Cardinality(walk.seen) + Cardinality(page) - Cardinality(walk.seen \cap page)
      BY <3>5, <1>5, FS_Union
    <3>7. Cardinality(walk.seen \cap page) = 0 /\ Cardinality(walk.seen) \in Nat
      BY <3>4, <3>5, FS_EmptySet, FS_CardinalityType
    <3> QED
      BY <3>1, <3>3, <3>6, <3>7, <1>6, <1>8
  <2> QED
    BY <2>2, <2>3, <2>4, <2>5
<1>13. TableFits(table') /\ before' \subseteq table' /\ walk'.at # "idle"
  BY <1>1, <1>8
<1> QED
  BY <1>8, <1>11, <1>12, <1>13 DEF PagesInv

LEMMA PagesStepInv == PagesInv /\ [PagesNext]_pagesVars => PagesInv'
<1> SUFFICES ASSUME PagesInv, [PagesNext]_pagesVars PROVE PagesInv'
  OBVIOUS
<1>1. ASSUME NEW row \in Rows, Store(row) PROVE PagesInv'
  BY <1>1, StoreInv
<1>2. ASSUME NEW list \in Lists, BeginWalk(list) PROVE PagesInv'
  BY <1>2, BeginInv
<1>3. CASE CountItems
  BY <1>3, CountInv
<1>4. CASE ReadPage
  BY <1>4, ReadInv
<1>5. CASE UNCHANGED pagesVars
  BY <1>5 DEF pagesVars, PagesInv, TableFits, WalkType, NoneSkipped, Unmoved, Undisturbed, AllAlone
<1> QED
  BY <1>1, <1>2, <1>3, <1>4, <1>5 DEF PagesNext

LEMMA PagesAlways == PagesSpec => []PagesInv
<1>1. PagesInit => PagesInv
  BY PagesInitInv
<1> QED
  BY <1>1, PagesStepInv, PTL DEF PagesSpec

\* A client that reads a list page by page misses nothing that was there when it
\* began, has not moved and shares its timestamp with nothing, whatever is
\* written meanwhile, in whatever order, and however each statement orders equal
\* timestamps: for any sessions, any number of rows and any limit.
THEOREM NoneEverSkipped == PagesSpec => []NoneSkipped
<1>1. PagesInv => NoneSkipped
  BY DEF PagesInv
<1> QED
  BY <1>1, PagesAlways, PTL

\* While nothing is written it gets as many items as it was told, each that is
\* alone among them, and each once if all are.
THEOREM EachAlwaysOnce == PagesSpec => []EachOnce
<1>1. ASSUME PagesInv PROVE EachOnce
  <2> DEFINE items == Items(walk.list, table)
             alone == {x \in items : Alone(walk.list, table, x)}
  <2>1. SUFFICES ASSUME table = before, walk.at = "done"
                 PROVE  /\ walk.got = walk.total /\ walk.total = Cardinality(items)
                        /\ alone \subseteq walk.seen
                        /\ alone = items => walk.seen = items /\ walk.got = Cardinality(walk.seen)
    BY DEF EachOnce
  <2>2. /\ TableFits(table) /\ walk.list \in Lists /\ walk.offset \in Nat
        /\ NoneSkipped /\ Undisturbed
    BY <1>1 DEF PagesInv, WalkType
  <2>3. Cardinality(items) \in Nat
    BY <2>2, ItemsFinite, FS_CardinalityType
  <2>4. walk.got = Cardinality(items) /\ walk.total = Cardinality(items)
    BY <2>1, <2>2, <2>3 DEF Undisturbed
  <2>5. alone \subseteq walk.seen
    BY <2>1, <2>2 DEF NoneSkipped, Unmoved
  <2>6. ASSUME alone = items PROVE walk.seen = items /\ walk.got = Cardinality(walk.seen)
    <3>1. AllAlone
      BY <2>6 DEF AllAlone
    <3>2. walk.seen \subseteq items /\ walk.got = Cardinality(walk.seen)
      BY <2>1, <2>2, <3>1 DEF Undisturbed
    <3> QED
      BY <3>2, <2>5, <2>6
  <2> QED
    BY <2>4, <2>5, <2>6
<1> QED
  BY <1>1, PagesAlways, PTL
=============================================================================
