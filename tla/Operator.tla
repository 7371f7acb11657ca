------------------------------- MODULE Operator -------------------------------
(* The operator (platform/operator/reconciler.py): reconcile_decoy turns a    *)
(* Decoy resource into a Secret, a Deployment and a Service by calls to the   *)
(* Kubernetes API, each of which may fail, and posts a phase.                 *)
(*                                                                            *)
(* One Decoy is modelled: kopf runs an object's handlers one at a time.       *)
(* Kubernetes (storing, merging, garbage collection, pods) and kopf (when a   *)
(* handler runs, what it stores) are external.  Of a spec the port and        *)
(* whether it allows credentials are kept.                                    *)
EXTENDS Naturals

CONSTANTS Specs,      \* specs a user may apply: records [port, creds]
          Never,      \* no spec handled yet
          Absent,     \* no such object
          MaxEdits,   \* bound: changes of the spec after it was first applied
          MaxCrashes  \* bound: times the operator dies during a handler

ASSUME OperatorAssumption ==
    /\ \A s \in Specs : DOMAIN s = {"port", "creds"} /\ s.creds \in BOOLEAN
    /\ Never \notin Specs
    /\ \A s \in Specs :
          /\ Absent # [of |-> s, owned |-> TRUE] /\ Absent # [port |-> s.port, owned |-> TRUE]
          /\ \A c \in BOOLEAN : Absent # [port |-> s.port, creds |-> c, owned |-> TRUE]
    /\ MaxEdits \in Nat /\ MaxCrashes \in Nat

VARIABLES
    decoy,      \* the Decoy: "absent", "live", "deleting" (finalizer held), "gone"
    want,       \* its spec
    handled,    \* the spec kopf recorded as handled last
    phase,      \* status.phase
    pc,         \* where reconcile_decoy is
    seen,       \* the spec it was called with
    found,      \* what its last read returned: the object is there
    outcome,    \* the phase it puts into the patch
    complete,   \* the last handling of all ended with every object applied
    secret, deployment, service, \* the objects
    pods,       \* the deployment has a ready pod, of whichever of its specs
    edits, crashes

userVars == <<decoy, want, edits>>
kopfVars == <<handled, phase, complete>>
handlerVars == <<pc, seen, found, outcome, crashes>>
objects == <<secret, deployment, service>>
vars == <<userVars, kopfVars, handlerVars, objects, pods>>

----------------------------------------------------------------------------
(* Kubernetes.  adopt gives an object its owner, the Decoy.                   *)
SecretOf(s) == [of |-> s, owned |-> TRUE]
DeploymentOf(s) == [port |-> s.port, creds |-> s.creds, owned |-> TRUE]
\* Mutant: a Service that is not adopted.
ServiceNotOwned(s) == [port |-> s.port, owned |-> FALSE]
ServiceOf(s) == [port |-> s.port, owned |-> TRUE]

\* A strategic merge patch merges ports by their number and the environment by
\* name: the port of another spec would be a second one named "service", which
\* the API rejects, and an entry that the new spec lacks stays.
Mergeable(object, s) == object.port = s.port
PatchedDeployment(s) == [port |-> s.port, creds |-> s.creds \/ deployment.creds, owned |-> TRUE]

\* The phases the CRD's schema admits; a patch with another one is rejected.
CrdPhases == {"Pending", "Deploying", "Active", "Degraded", "Retired"}

\* The deployment's pods come up and go down.
PodReady == /\ deployment # Absent /\ ~pods /\ pods' = TRUE
            /\ UNCHANGED <<userVars, kopfVars, handlerVars, objects>>
PodDies  == /\ pods /\ pods' = FALSE
            /\ UNCHANGED <<userVars, kopfVars, handlerVars, objects>>

\* Garbage collection of what a deleted Decoy owns, an object at a time.
Collect ==
    /\ decoy = "gone"
    /\ \/ /\ secret # Absent /\ secret.owned
          /\ secret' = Absent /\ UNCHANGED <<deployment, service, pods>>
       \/ /\ deployment # Absent /\ deployment.owned
          /\ deployment' = Absent /\ pods' = FALSE /\ UNCHANGED <<secret, service>>
       \/ /\ service # Absent /\ service.owned
          /\ service' = Absent /\ UNCHANGED <<secret, deployment, pods>>
    /\ UNCHANGED <<userVars, kopfVars, handlerVars>>

----------------------------------------------------------------------------
(* The user.                                                                  *)
Create == /\ decoy = "absent" /\ decoy' = "live" /\ want' \in Specs
          /\ UNCHANGED <<edits, kopfVars, handlerVars, objects, pods>>
Edit   == /\ decoy = "live" /\ edits < MaxEdits
          /\ want' \in Specs \ {want} /\ edits' = edits + 1
          /\ UNCHANGED <<decoy, kopfVars, handlerVars, objects, pods>>
Delete == /\ decoy = "live" /\ decoy' = "deleting"
          /\ UNCHANGED <<want, edits, kopfVars, handlerVars, objects, pods>>

----------------------------------------------------------------------------
(* kopf: a handler runs while the spec differs from the one recorded, on what *)
(* the spec is then.  delete_decoy only logs; kopf then removes its finalizer.*)
Goto(l) == pc' = l

\* Mutant: a handler for the creation only.
HandleCreation ==
    /\ pc = "idle" /\ decoy = "live" /\ handled = Never
    /\ seen' = want /\ complete' = FALSE /\ outcome' = "none"
    /\ Goto(IF want.creds THEN "secret" ELSE "deployment")
    /\ UNCHANGED <<userVars, handled, phase, found, crashes, objects, pods>>

Handle ==
    /\ pc = "idle" /\ decoy = "live" /\ handled # want
    /\ seen' = want /\ complete' = FALSE /\ outcome' = "none"
    /\ Goto(IF want.creds THEN "secret" ELSE "deployment")
    /\ UNCHANGED <<userVars, handled, phase, found, crashes, objects, pods>>

DeleteDecoy ==
    /\ pc = "idle" /\ decoy = "deleting"
    /\ decoy' = "gone"
    /\ UNCHANGED <<want, edits, kopfVars, handlerVars, objects, pods>>

\* The operator dies and starts again; nothing of the handling is recorded.
Crash ==
    /\ pc # "idle" /\ crashes < MaxCrashes
    /\ crashes' = crashes + 1
    /\ Goto("idle")
    /\ UNCHANGED <<userVars, kopfVars, seen, found, outcome, objects, pods>>

----------------------------------------------------------------------------
(* reconcile_decoy: three objects in turn, each read and then patched or      *)
(* created.  Any exception on the way, a transient one too, is caught there:  *)
(* the phase becomes Error and the handler returns as if it had succeeded.    *)
Steps == [secret     |-> [write |-> "write secret",     next |-> "deployment"],
          deployment |-> [write |-> "write deployment", next |-> "service"],
          service    |-> [write |-> "write service",    next |-> "readiness"]]

Fails == outcome' = "Error" /\ Goto("record")

Read(kind, object) ==
    /\ pc = kind
    /\ \/ Fails /\ UNCHANGED found
       \/ found' = (object # Absent) /\ Goto(Steps[kind].write) /\ UNCHANGED outcome
    /\ UNCHANGED <<userVars, kopfVars, seen, crashes, objects, pods>>

\* The write of an object and what becomes of it: it succeeds, or it fails, in
\* which case it may have been carried out all the same (a timeout).
Written(kind, Effect, unchanged, accepted) ==
    /\ pc = Steps[kind].write
    /\ \/ accepted /\ Effect /\ Goto(Steps[kind].next) /\ UNCHANGED outcome
       \/ accepted /\ Effect /\ Fails
       \/ Fails /\ UNCHANGED unchanged
    /\ UNCHANGED <<userVars, kopfVars, seen, found, crashes, pods>>

\* Mutant: a secret that cannot be written is logged and left.
WriteSecretOrGoOn ==
    /\ pc = "write secret"
    /\ secret' = SecretOf(seen) \/ UNCHANGED secret
    /\ Goto("deployment")
    /\ UNCHANGED <<userVars, kopfVars, seen, found, outcome, crashes, pods, deployment, service>>

ReadSecret == Read("secret", secret)
WriteSecret ==
    /\ Written("secret", secret' = SecretOf(seen), secret, TRUE)
    /\ UNCHANGED <<deployment, service>>

ReadDeployment == Read("deployment", deployment)
WriteDeployment ==
    /\ Written("deployment",
               deployment' = IF found THEN PatchedDeployment(seen) ELSE DeploymentOf(seen),
               deployment, found => Mergeable(deployment, seen))
    /\ UNCHANGED <<secret, service>>

\* Mutant: a service that cannot be written is logged and left.
WriteServiceOrGoOn ==
    /\ pc = "write service"
    /\ service' = ServiceOf(seen) \/ UNCHANGED service
    /\ Goto("readiness")
    /\ UNCHANGED <<userVars, kopfVars, seen, found, outcome, crashes, pods, secret, deployment>>

ReadService == Read("service", service)
WriteService ==
    /\ Written("service", service' = ServiceOf(seen), service,
               found => Mergeable(service, seen))
    /\ UNCHANGED <<secret, deployment>>

\* The deployment is read again: Active if a pod is ready, Deploying if none is
\* or if the read fails.
Readiness ==
    /\ pc = "readiness"
    /\ outcome' \in {"Deploying"} \cup (IF pods THEN {"Active"} ELSE {})
    /\ Goto("record")
    /\ UNCHANGED <<userVars, kopfVars, seen, found, crashes, objects, pods>>

\* kopf records the spec as handled and then posts the status, a second request
\* that may fail or be rejected and is not repeated.
Record ==
    /\ pc = "record"
    /\ handled' = seen /\ complete' = (outcome # "Error")
    /\ Goto("status")
    /\ UNCHANGED <<userVars, phase, seen, found, outcome, crashes, objects, pods>>

PostStatus ==
    /\ pc = "status"
    /\ \/ outcome \in CrdPhases /\ phase' = outcome
       \/ UNCHANGED phase
    /\ Goto("idle")
    /\ UNCHANGED <<userVars, handled, complete, seen, found, outcome, crashes, objects, pods>>

----------------------------------------------------------------------------
Init ==
    /\ decoy = "absent" /\ want \in Specs /\ handled = Never /\ phase = "none"
    /\ pc = "idle" /\ seen = Never /\ found = FALSE /\ outcome = "none"
    /\ complete = FALSE
    /\ secret = Absent /\ deployment = Absent /\ service = Absent
    /\ pods = FALSE /\ edits = 0 /\ crashes = 0

ReconcileDecoy ==
    \/ ReadSecret \/ WriteSecret \/ ReadDeployment \/ WriteDeployment
    \/ ReadService \/ WriteService \/ Readiness \/ Record \/ PostStatus

Next == \/ Create \/ Edit \/ Delete \/ PodReady \/ PodDies
        \/ Handle \/ DeleteDecoy \/ ReconcileDecoy \/ Crash \/ Collect

Spec == Init /\ [][Next]_vars

\* The operator's process runs and its calls return, garbage collection goes on.
FairSpec == Spec /\ WF_vars(Handle \/ ReconcileDecoy \/ DeleteDecoy) /\ WF_vars(Collect)
----------------------------------------------------------------------------
(* Properties.                                                                *)

\* The variables hold what the code and Kubernetes can put into them; a phase is
\* one that reconcile_decoy posts and the CRD admits, which Error is not.
TypeOK ==
    /\ decoy \in {"absent", "live", "deleting", "gone"}
    /\ want \in Specs /\ handled \in Specs \cup {Never}
    /\ phase \in {"none", "Deploying", "Active"}
    /\ pc \in {"idle", "secret", "write secret", "deployment", "write deployment",
              "service", "write service", "readiness", "record", "status"}
    /\ seen \in Specs \cup {Never} /\ (pc # "idle" => seen \in Specs)
    /\ found \in BOOLEAN /\ complete \in BOOLEAN /\ pods \in BOOLEAN
    /\ outcome \in {"none", "Deploying", "Active", "Error"}
    /\ secret \in [of : Specs, owned : BOOLEAN] \cup {Absent}
    /\ deployment # Absent => deployment.creds \in BOOLEAN
    /\ edits \in 0..MaxEdits /\ crashes \in 0..MaxCrashes

\* What one object or the status says of another is there, at every moment until
\* the Decoy is gone, whichever calls failed and wherever the operator died: the
\* secret that the deployment's environment names (its pods could not start
\* without), and both objects behind a phase of Deploying or Active.
ReferencesResolve ==
    decoy # "gone" =>
        /\ deployment # Absent => (deployment.creds => secret # Absent)
        /\ phase # "none" => deployment # Absent /\ service # Absent

\* A handling that ended without an error has left every object as the spec it
\* was called with asks for, and it stays so until the next one begins.  With one
\* exception: what a spec without credentials finds of an earlier one with them
\* is not taken away, in the deployment as in the secret.
CompleteIsApplied ==
    complete /\ decoy # "gone" =>
        /\ deployment # Absent /\ deployment.port = handled.port
        /\ service # Absent /\ service.port = handled.port
        /\ IF handled.creds THEN deployment.creds /\ secret = SecretOf(handled)
           ELSE deployment.creds => secret # Absent /\ secret.of.creds

\* When the user stops editing, the last spec comes to be the one handled last,
\* edits during a handling and crashes of the operator included.
LatestSpecHandled == <>[](decoy # "live" \/ handled = want)

\* A deleted Decoy leaves nothing behind, whenever it is deleted.
EverythingCollected ==
    (decoy = "deleting") ~> (secret = Absent /\ deployment = Absent /\ service = Absent)
=============================================================================
