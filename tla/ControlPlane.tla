----------------------------- MODULE ControlPlane -----------------------------
\* The life of R16NetworkController (src/src/network/MacNetworkController.cpp)
\* and of one R16WirelessUserClient: start() stage by stage, stop() and free()
\* with everything they give back, and the callers in between.  Callers take the
\* client's lock, then controlLock_, then the workloop gate; the workloop and the
\* interface take the gate alone.
EXTENDS Naturals, Sequences, FiniteSets

VARIABLES
    cpOwner,      \* where start(), stop() or free() is
    cpHeld,       \* resources the controller holds
    cpFence,      \* controlStopping_
    cpRetained,   \* retainedFault_
    cpStarted,    \* the hardware session runs and its timer is armed
    cpQuiet,      \* the device cannot reach memory: not started, or seen to have stopped
    cpClient,     \* the user client: none, open, closed, gone
    cpAt,         \* the other threads
    cpLock        \* who holds which lock

cpVars == <<cpOwner, cpHeld, cpFence, cpRetained, cpStarted, cpQuiet, cpClient, cpAt, cpLock>>

CpCaller == {"call", "close"}      \* externalMethod and closeControl
CpThread == CpCaller \cup {"net", "loop"}
\* What start() acquires, in its order.
CpStages == <<"super", "lock", "provider", "open", "bar", "workloop", "gate", "timer",
              "state", "hardware", "interface">>
CpBorrowed == {"provider", "open", "bar", "gate", "timer", "state"}

CpInit ==
    /\ cpOwner = "start" /\ cpHeld = {} /\ cpFence = TRUE /\ cpRetained = FALSE
    /\ cpStarted = FALSE /\ cpQuiet = TRUE /\ cpClient = "none"
    /\ cpAt = [t \in CpThread |-> "idle"]
    /\ cpLock = [client |-> "none", control |-> "none", gate |-> "none"]

CpFree(lock) == cpLock[lock] = "none"
CpDrop(t) == [l \in DOMAIN cpLock |-> IF cpLock[l] = t THEN "none" ELSE cpLock[l]]
CpOthers == <<cpOwner, cpHeld, cpFence, cpRetained, cpStarted, cpQuiet, cpClient>>
CpReturns(t) == cpAt' = [cpAt EXCEPT ![t] = "idle"] /\ cpLock' = CpDrop(t)

----------------------------------------------------------------------------
(* start(), stop() and free(). *)

CpNextStage == CpStages[Cardinality(cpHeld) + 1]

\* One stage of start(); the hardware starts under the gate, and a stage that
\* fails goes to releaseResources() with what is held by then.
CpStartStage(ok) ==
    /\ cpOwner = "start" /\ Cardinality(cpHeld) < Len(CpStages)
    /\ CpNextStage = "hardware" => CpFree("gate")
    /\ cpHeld' = IF ok THEN cpHeld \cup {CpNextStage} ELSE cpHeld
    /\ cpOwner' = IF ok THEN "start" ELSE "fence"
    \* A hardware start that fails may have armed the session part way.
    /\ cpStarted' = (cpStarted \/ CpNextStage = "hardware")
    /\ cpQuiet' = (cpQuiet /\ CpNextStage # "hardware")
    /\ UNCHANGED <<cpFence, cpRetained, cpClient, cpAt, cpLock>>

\* The control calls are let in and the link is published through them.
CpOpens ==
    /\ cpOwner = "start" /\ Cardinality(cpHeld) = Len(CpStages)
    /\ CpFree("control")
    /\ cpFence' = FALSE /\ cpOwner' = "publish"
    /\ UNCHANGED <<cpHeld, cpRetained, cpStarted, cpQuiet, cpClient, cpAt, cpLock>>
CpPublishes ==
    /\ cpOwner = "publish" /\ CpFree("control") /\ CpFree("gate")
    /\ cpOwner' = "running"
    /\ UNCHANGED <<cpHeld, cpFence, cpRetained, cpStarted, cpQuiet, cpClient, cpAt, cpLock>>

CpStop ==
    /\ cpOwner = "running" /\ cpOwner' = "fence"
    /\ UNCHANGED <<cpHeld, cpFence, cpRetained, cpStarted, cpQuiet, cpClient, cpAt, cpLock>>

\* Mutant: the flag is set without waiting for the calls already let in.
CpBlockAtOnce ==
    /\ cpOwner = "fence"
    /\ cpFence' = TRUE /\ cpOwner' = "quiesce"
    /\ UNCHANGED <<cpHeld, cpRetained, cpStarted, cpQuiet, cpClient, cpAt, cpLock>>
\* blockControlRequests: under controlLock_, which in-flight calls hold.
CpBlock ==
    /\ cpOwner = "fence" /\ ("lock" \in cpHeld => CpFree("control"))
    /\ cpFence' = TRUE /\ cpOwner' = "quiesce"
    /\ UNCHANGED <<cpHeld, cpRetained, cpStarted, cpQuiet, cpClient, cpAt, cpLock>>

\* Mutant: a shutdown that is not proven is released like any other.
CpQuiesceHopes(proven) ==
    /\ cpOwner = "quiesce" /\ ("state" \in cpHeld => CpFree("gate"))
    /\ cpStarted' = FALSE /\ cpOwner' = "detach"
    /\ cpQuiet' = (cpQuiet \/ proven)
    /\ UNCHANGED <<cpHeld, cpFence, cpRetained, cpClient, cpAt, cpLock>>
\* stopGated: shutdown() cancels the timer and proves the device quiet, or the
\* controller keeps itself and every object the session borrows.
CpQuiesce(proven) ==
    /\ cpOwner = "quiesce" /\ ("state" \in cpHeld => CpFree("gate"))
    /\ cpStarted' = FALSE
    /\ "state" \notin cpHeld => proven
    /\ cpOwner' = (IF proven THEN "detach" ELSE "retained")
    /\ cpRetained' = ~proven /\ cpQuiet' = (cpQuiet \/ proven)
    /\ UNCHANGED <<cpHeld, cpFence, cpClient, cpAt, cpLock>>

\* detachInterface waits for the interface's calls and disables it in the gate.
CpDetach ==
    /\ cpOwner = "detach"
    /\ "interface" \in cpHeld => cpAt["net"] = "idle" /\ CpFree("gate")
    /\ cpHeld' = cpHeld \ {"interface", "hardware"} /\ cpOwner' = "destroy"
    /\ UNCHANGED <<cpFence, cpRetained, cpStarted, cpQuiet, cpClient, cpAt, cpLock>>
CpDestroy ==
    /\ cpOwner = "destroy"
    /\ cpHeld' = cpHeld \ {"state"} /\ cpOwner' = "release"
    /\ UNCHANGED <<cpFence, cpRetained, cpStarted, cpQuiet, cpClient, cpAt, cpLock>>
\* The event sources leave the workloop, then the mapping and the provider go.
CpRelease ==
    /\ cpOwner = "release" /\ ("gate" \in cpHeld => CpFree("gate"))
    /\ cpHeld' = cpHeld \ (CpBorrowed \cup {"super"}) /\ cpOwner' = "stopped"
    /\ UNCHANGED <<cpFence, cpRetained, cpStarted, cpQuiet, cpClient, cpAt, cpLock>>
\* free(), once no client keeps a reference.
CpFreed ==
    /\ cpOwner = "stopped" /\ cpClient \in {"none", "gone"}
    /\ cpHeld' = {} /\ cpOwner' = "freed"
    /\ UNCHANGED <<cpFence, cpRetained, cpStarted, cpQuiet, cpClient, cpAt, cpLock>>

----------------------------------------------------------------------------
(* The user client. *)

CpOpen ==
    /\ cpOwner = "running" /\ cpClient = "none" /\ cpClient' = "open"
    /\ UNCHANGED <<cpOwner, cpHeld, cpFence, cpRetained, cpStarted, cpQuiet, cpAt, cpLock>>

\* externalMethod and closeControl take the client's lock.
CpEnter(t) ==
    /\ cpAt[t] = "idle" /\ cpClient \in {"open", "closed"} /\ CpFree("client")
    /\ t = "call" => cpClient = "open"
    /\ cpLock' = [cpLock EXCEPT !.client = t]
    /\ cpAt' = [cpAt EXCEPT ![t] = "client"]
    /\ cpClient' = (IF t = "close" THEN "closed" ELSE cpClient)
    /\ UNCHANGED <<cpOwner, cpHeld, cpFence, cpRetained, cpStarted, cpQuiet>>

\* runControlAction, in its three waits.
CpControl(t) ==
    /\ cpAt[t] = "client" /\ CpFree("control")
    /\ cpLock' = [cpLock EXCEPT !.control = t]
    /\ cpAt' = [cpAt EXCEPT ![t] = "control"]
    /\ UNCHANGED CpOthers
CpRefused(t) ==
    /\ cpAt[t] = "control" /\ (cpFence \/ "gate" \notin cpHeld)
    /\ CpReturns(t)
    /\ UNCHANGED CpOthers
CpGate(t) ==
    /\ cpAt[t] = "control" /\ ~cpFence /\ "gate" \in cpHeld
    /\ cpAt' = [cpAt EXCEPT ![t] = "gate"]
    /\ UNCHANGED <<CpOthers, cpLock>>
CpRuns(t) ==
    /\ cpAt[t] = "gate" /\ CpFree("gate")
    /\ cpLock' = [cpLock EXCEPT !.gate = t]
    /\ cpAt' = [cpAt EXCEPT ![t] = "body"]
    /\ UNCHANGED CpOthers
CpLeaves(t) ==
    /\ cpAt[t] = "body"
    /\ CpReturns(t)
    /\ UNCHANGED CpOthers

\* The client's last reference: closed for good, and the owner is released.
CpClientFree ==
    /\ cpClient = "closed" /\ \A t \in CpCaller : cpAt[t] = "idle"
    /\ cpClient' = "gone"
    /\ UNCHANGED <<cpOwner, cpHeld, cpFence, cpRetained, cpStarted, cpQuiet, cpAt, cpLock>>

----------------------------------------------------------------------------
(* The interface and the workloop. *)

\* outputPacket, enable and disable of an attached interface.
CpOutput ==
    /\ cpAt["net"] = "idle" /\ "interface" \in cpHeld
    /\ cpOwner \in {"start", "publish", "running", "fence", "quiesce"}
    /\ cpAt' = [cpAt EXCEPT !["net"] = "gate"]
    /\ UNCHANGED <<CpOthers, cpLock>>

CpFires ==
    /\ cpAt["loop"] = "idle" /\ cpStarted /\ "timer" \in cpHeld /\ CpFree("gate")
    /\ cpLock' = [cpLock EXCEPT !.gate = "loop"]
    /\ cpAt' = [cpAt EXCEPT !["loop"] = "body"]
    /\ UNCHANGED CpOthers

\* Mutant: the link is published through runControlAction from inside the gate.
CpLinkByControl ==
    /\ cpAt["loop"] = "body" /\ CpFree("control")
    /\ UNCHANGED <<CpOthers, cpLock>>
    /\ cpAt' = [cpAt EXCEPT !["loop"] = "leave"]
\* setLinkStatus inside the gate: applied directly, without controlLock_.
CpLink ==
    /\ cpAt["loop"] = "body"
    /\ cpAt' = [cpAt EXCEPT !["loop"] = "leave"]
    /\ UNCHANGED <<CpOthers, cpLock>>
CpPolled ==
    /\ cpAt["loop"] = "leave"
    /\ CpReturns("loop")
    /\ UNCHANGED CpOthers

\* Steps of calls that are under way, and of the owner.
CpGoesOn ==
    \/ \E t \in CpCaller : CpControl(t) \/ CpRefused(t) \/ CpGate(t)
    \/ \E t \in CpCaller \cup {"net"} : CpRuns(t) \/ CpLeaves(t)
    \/ CpLink \/ CpPolled
CpOwnerGoesOn ==
    \/ \E ok \in BOOLEAN : CpStartStage(ok) \/ CpQuiesce(ok)
    \/ CpOpens \/ CpPublishes \/ CpBlock \/ CpDetach \/ CpDestroy \/ CpRelease

CpNext ==
    \/ CpGoesOn \/ CpOwnerGoesOn
    \/ CpStop \/ CpFreed
    \/ CpOpen \/ (\E t \in CpCaller : CpEnter(t)) \/ CpClientFree
    \/ CpOutput \/ CpFires

----------------------------------------------------------------------------
(* Properties. *)

\* Nobody waits for the gate or runs inside it once the gate, or the session
\* behind it, is gone: releaseResources() fences the callers, waits for the
\* interface and stops the timer before it takes anything away.
CpNothingPulledAway ==
    \A t \in CpThread :
        cpAt[t] \in {"gate", "body", "leave"} => {"gate", "state"} \subseteq cpHeld

\* What the session and the device use goes only after the device was seen
\* quiet, and then all of it goes; a stop, or a start that failed half way, that
\* cannot prove it keeps everything it had acquired.
CpAllOrNothing ==
    /\ CpBorrowed \subseteq cpHeld \/ cpQuiet
    /\ cpOwner \in {"stopped", "freed"} => cpHeld \cap CpBorrowed = {}

\* A call that is under way, or a stop, always finds someone who can go on: the
\* workloop never waits for controlLock_ while a caller that holds it waits for
\* the gate, and stop() waits for neither while it holds the other.
CpNeverStuck ==
    /\ (\E t \in CpThread : cpAt[t] # "idle") => ENABLED CpGoesOn
    /\ cpOwner \in {"fence", "quiesce", "detach", "destroy", "release"} =>
          ENABLED CpGoesOn \/ ENABLED CpOwnerGoesOn
=============================================================================
