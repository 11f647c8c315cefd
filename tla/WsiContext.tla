--------------------------------- MODULE WsiContext ---------------------------------
(* The life of the Vulkan objects of a window (native_gpu_sdk_execution_        *)
(* vulkan_wsi.cpp).  The owner makes one context (instance, surface, device,    *)
(* queues) at a time and exports a handle that is its bare address; presenters  *)
(* and shader executors turn the handle into a counted lease, and whoever lets  *)
(* the last reference go destroys the context and frees it.                     *)
(*                                                                            *)
(* Taking a lease is four steps on two atomics, so an owner may close between   *)
(* any two of them.  None of them can tell a freed context: some reference has  *)
(* to outlive the attempt.  That is the one thing asked of the caller           *)
(* (StaysReferenced).  The destruction and the last decrement are one step      *)
(* here, for a context at zero is out of every lease's reach.                  *)
EXTENDS Naturals, FiniteSets

CONSTANTS Owner,
          Presenters,    \* VulkanNativeWindowSwapchainApi objects
          Executors,     \* VulkanNativeShaderExecutor objects
          MaxContexts,   \* bound: contexts the owner ever begins to make
          ModesListed,   \* the surface offers every present mode asked of it
          SurfaceMade    \* vkCreateInstance and the surface creation succeed

Clients == Presenters \cup Executors
Actors == Clients \cup {Owner}
Contexts == 1..MaxContexts

WsiAssumption ==
    /\ Owner \notin Clients
    /\ Presenters \cap Executors = {}
    /\ MaxContexts \in Nat
    /\ ModesListed \in BOOLEAN
    /\ SurfaceMade \in BOOLEAN

VARIABLES made,      \* contexts begun so far: the newest address
          exported,  \* addresses a caller may have in a handle
          refs,      \* references, by context
          closed,    \* owner_released, by context
          freed,     \* how often each context was destroyed and deleted
          held,      \* context_ of each object, 0 for none
          pc,        \* what each object is in the middle of
          target     \* the context it is in the middle of taking

contextVars == <<made, exported, refs, closed, freed, held, pc, target>>

Taking == {"flag", "count", "recheck"}

ContextInit ==
    /\ made = 0
    /\ exported = {}
    /\ refs = [c \in Contexts |-> 0]
    /\ closed = [c \in Contexts |-> FALSE]
    /\ freed = [c \in Contexts |-> 0]
    /\ held = [a \in Actors |-> 0]
    /\ pc = [a \in Actors |-> "idle"]
    /\ target = [a \in Actors |-> 0]

-----------------------------------------------------------------------------
(* References.                                                                *)

Release(c, n) ==
    /\ refs' = [refs EXCEPT ![c] = @ - n]
    /\ freed' = [freed EXCEPT ![c] = IF refs[c] \in 1..n THEN @ + 1 ELSE @]

StaysReferenced(c, a) ==
    refs[c] > 1 \/ \A b \in Clients \ {a} : ~(pc[b] \in Taking /\ target[b] = c)

Goes(a, from, to) == pc[a] = from /\ pc' = [pc EXCEPT ![a] = to]

-----------------------------------------------------------------------------
(* The owner: initialize closes what it had and stages a new context.           *)

CloseOwned(next) ==
    /\ Goes(Owner, "idle", next)
    /\ closed' = [closed EXCEPT ![held[Owner]] = TRUE]
    /\ UNCHANGED <<made, exported, refs, freed, held, target>>

BeginInitialize ==
    \/ /\ held[Owner] = 0
       /\ Goes(Owner, "idle", "stage")
       /\ UNCHANGED <<made, exported, refs, closed, freed, held, target>>
    \/ held[Owner] # 0 /\ CloseOwned("restage")

BeginShutdown == held[Owner] # 0 /\ CloseOwned("close")

LetGoOwned ==
    /\ \/ Goes(Owner, "close", "idle")
       \/ Goes(Owner, "restage", "stage")
    /\ StaysReferenced(held[Owner], Owner)
    /\ Release(held[Owner], 1)
    /\ held' = [held EXCEPT ![Owner] = 0]
    /\ UNCHANGED <<made, exported, closed, target>>

(* The guard of a staged context deletes it whenever the method fails.  The two *)
(* earliest failures delete it by hand as well.                                *)
Deletions(early) == IF early THEN 2 ELSE 1

FailsStaging ==
    /\ \E early \in {FALSE, ~SurfaceMade} :
         freed' = [freed EXCEPT ![made + 1] = Deletions(early)]
    /\ UNCHANGED <<exported, refs, held>>

Publishes ==
    /\ refs' = [refs EXCEPT ![made + 1] = 1]
    /\ held' = [held EXCEPT ![Owner] = made + 1]
    /\ exported' = exported \cup {made + 1}
    /\ UNCHANGED freed

Stage ==
    /\ made < MaxContexts
    /\ Goes(Owner, "stage", "idle")
    /\ made' = made + 1
    /\ Publishes \/ FailsStaging
    /\ UNCHANGED <<closed, target>>

-----------------------------------------------------------------------------
(* A client: configure with a handle takes a lease, then makes its own objects. *)

(* A presenter refuses a second configuration; an executor first lets its       *)
(* present lease go (Shutdown).                                                *)
ConfigureWith(k, c) ==
    /\ held[k] = 0
    /\ c \in exported
    /\ freed[c] = 0
    /\ Goes(k, "idle", "flag")
    /\ target' = [target EXCEPT ![k] = c]
    /\ UNCHANGED <<made, exported, refs, closed, freed, held>>

ReadFlag(k) ==
    /\ Goes(k, "flag", IF closed[target[k]] THEN "idle" ELSE "count")
    /\ UNCHANGED <<made, exported, refs, closed, freed, held, target>>

CountIn(k) ==
    /\ Goes(k, "count", "recheck")
    /\ refs' = [refs EXCEPT ![target[k]] = @ + 1]
    /\ UNCHANGED <<made, exported, closed, freed, held, target>>

GivesUp(k, n) ==
    /\ StaysReferenced(target[k], k)
    /\ Release(target[k], n)
    /\ UNCHANGED <<made, exported, closed, held, target>>

RecheckForgetting(k) ==   \* wrong on purpose
    /\ Goes(k, "recheck", IF closed[target[k]] THEN "idle" ELSE "made")
    /\ UNCHANGED <<made, exported, refs, closed, freed, held, target>>

Recheck(k) ==
    \/ /\ Goes(k, "recheck", "idle")
       /\ closed[target[k]]
       /\ GivesUp(k, 1)
    \/ /\ Goes(k, "recheck", "made")
       /\ ~closed[target[k]]
       /\ UNCHANGED <<made, exported, refs, closed, freed, held, target>>

Configured(k) ==
    /\ Goes(k, "made", "idle")
    /\ held' = [held EXCEPT ![k] = target[k]]
    /\ UNCHANGED <<made, exported, refs, closed, freed, target>>

(* Whatever else fails, the guard lets the lease go.  For a present mode the     *)
(* surface does not list, a presenter lets it go by hand and the guard again.   *)
LetsGo(k) == IF ModesListed \/ k \in Executors THEN {1} ELSE {1, 2}

FailsConfigure(k) ==
    /\ Goes(k, "made", "idle")
    /\ \E n \in LetsGo(k) : GivesUp(k, n)

ShutdownClient(k) ==
    /\ pc[k] = "idle"
    /\ held[k] # 0
    /\ StaysReferenced(held[k], k)
    /\ Release(held[k], 1)
    /\ held' = [held EXCEPT ![k] = 0]
    /\ UNCHANGED <<made, exported, closed, pc, target>>

ContextNext ==
    \/ BeginInitialize
    \/ BeginShutdown
    \/ LetGoOwned
    \/ Stage
    \/ \E k \in Clients :
        \/ \E c \in Contexts : ConfigureWith(k, c)
        \/ ReadFlag(k)
        \/ CountIn(k)
        \/ Recheck(k)
        \/ Configured(k)
        \/ FailsConfigure(k)
        \/ ShutdownClient(k)

ContextSpec == ContextInit /\ [][ContextNext]_contextVars

-----------------------------------------------------------------------------
(* Properties.                                                                *)

WsiTypeOK ==
    /\ made \in 0..MaxContexts
    /\ exported \subseteq 1..made
    /\ refs \in [Contexts -> Nat]
    /\ closed \in [Contexts -> BOOLEAN]
    /\ freed \in [Contexts -> Nat]
    /\ held \in [Actors -> 0..MaxContexts]
    /\ pc \in [Actors -> Taking \cup {"made", "idle", "close", "restage", "stage"}]
    /\ target \in [Actors -> 0..MaxContexts]

LeasesOf(c) ==
    {a \in Actors : held[a] = c \/ (pc[a] \in {"recheck", "made"} /\ target[a] = c)}

(* The count is the number of objects that hold the context, or have counted     *)
(* themselves in and not yet made up their mind.                               *)
CountIsLeases == \A c \in Contexts : refs[c] = Cardinality(LeasesOf(c))

Secured(c) == {a \in Actors : held[a] = c \/ (pc[a] = "made" /\ target[a] = c)}

Touches(a, c) ==
    \/ held[a] = c
    \/ pc[a] \in Taking \cup {"made"} /\ target[a] = c

(* No context is destroyed while an object holds it or is about to look at it:   *)
(* the owner may close, the device lives until the last presenter or executor  *)
(* lets its lease go.                                                         *)
LeaseKeepsContext ==
    \A c \in Contexts, a \in Actors : Touches(a, c) => freed[c] = 0

(* Nothing is destroyed twice.                                                 *)
DestroyedOnce == \A c \in Contexts : freed[c] <= 1

(* Nothing is left behind: a context nobody holds is destroyed.                 *)
NothingLeaks ==
    \A c \in 1..made : LeasesOf(c) = {} => freed[c] > 0

(* A context lives exactly as long as its leases.                              *)
LivesAsLeased == CountIsLeases /\ LeaseKeepsContext /\ DestroyedOnce /\ NothingLeaks

(* Once the owner has begun to close a context nobody else comes to hold it,     *)
(* not even an object that had looked at the flag before.                       *)
NoLeaseAfterClose ==
    [][\A c \in Contexts : closed[c] =>
         Secured(c)' \subseteq Secured(c)]_contextVars

=============================================================================
