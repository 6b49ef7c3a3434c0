------------------------------- MODULE DmaBank -------------------------------
(***************************************************************************)
(* The memory under a ring: MacDmaBuffer, and the bank of them that        *)
(* TxDmaBank and RxDmaQueue allocate, publish and release as one.  A       *)
(* buffer takes its resources in the order of DbSteps and gives them back  *)
(* in the opposite order; unwiring, detaching and unmapping may fail, and  *)
(* the buffer then keeps what it still has for another try.  The first     *)
(* buffer of a bank is its descriptor ring.                                *)
(***************************************************************************)
EXTENDS Naturals, Sequences

CONSTANT DbCount

ASSUME DbAssumption == DbCount \in Nat \ {0}

VARIABLES
    dbHeld,     \* what each buffer holds, a subset of the steps
    dbReady,    \* ready_ of each buffer
    dbVisible,  \* visible_ of each buffer
    dbBank,     \* occupied_, ready_, visible_, faulted_ of the bank; gone when destroyed
    dbDevice    \* the device's DMA runs over the bank

dbVars == <<dbHeld, dbReady, dbVisible, dbBank, dbDevice>>

DbBuffers == 1 .. DbCount

\* Memory, its wiring, the DMA command, its attachment and the device mapping.
DbSteps == <<"memory", "wired", "command", "attached", "mapped">>
DbFirst(k) == {DbSteps[i] : i \in 1 .. k}
DbAll == DbFirst(Len(DbSteps))

DbInit ==
    /\ dbHeld = [b \in DbBuffers |-> {}]
    /\ dbReady = [b \in DbBuffers |-> FALSE] /\ dbVisible = [b \in DbBuffers |-> FALSE]
    /\ dbBank = [occupied |-> FALSE, ready |-> FALSE, visible |-> FALSE, faulted |-> FALSE, gone |-> FALSE]
    /\ dbDevice = FALSE

-----------------------------------------------------------------------------
(* MacDmaBuffer.                                                           *)

\* The steps whose undoing reports an error.
DbFallible == {"wired", "attached", "mapped"}

\* Unwires the memory before the command that maps it is done with.
DbCleanedBackwards(held) == {{}} \cup {held \ DbFirst(k) : k \in {i \in 1 .. Len(DbSteps) : DbSteps[i] \in held}}

\* cleanup() of what is held: nothing is left, or it stopped at a failing step.
DbCleaned(held) == {{}} \cup {DbFirst(k) : k \in {i \in 1 .. Len(DbSteps) : DbSteps[i] \in held \cap DbFallible}}

\* allocate() of one buffer: all of it, or fail() at some step and its cleanup().
DbAllocated == {DbAll} \cup UNION {DbCleaned(DbFirst(k)) : k \in 0 .. Len(DbSteps)}

-----------------------------------------------------------------------------
(* The bank.                                                               *)

\* Every buffer is tried; one that may be visible to the device is left as it is.
DbCleanup(held, visible) ==
    /\ dbHeld' \in {f \in [DbBuffers -> UNION {DbCleaned(held[b]) \cup {held[b]} : b \in DbBuffers}] :
                      \A b \in DbBuffers : f[b] \in IF visible[b] THEN {held[b]} ELSE DbCleaned(held[b])}
    /\ dbReady' = [b \in DbBuffers |-> dbReady[b] /\ visible[b]] /\ dbVisible' = visible

DbFreed == \A b \in DbBuffers : dbHeld'[b] = {}

\* release(): the bank is free when all of its buffers are.
DbReleasedForgets(bank) == dbBank' = [bank EXCEPT !.ready = FALSE, !.occupied = FALSE, !.faulted = FALSE]
DbReleased(bank) == dbBank' = [bank EXCEPT !.ready = FALSE, !.occupied = @ /\ ~DbFreed, !.faulted = @ /\ ~DbFreed]

\* allocate(): one buffer after another, everything given back when one fails.
DbAllocate ==
    /\ ~dbBank.gone /\ ~dbBank.occupied /\ dbDevice' = dbDevice
    /\ \/ /\ dbHeld' = [b \in DbBuffers |-> DbAll] /\ dbReady' = [b \in DbBuffers |-> TRUE]
          /\ dbBank' = [dbBank EXCEPT !.occupied = TRUE, !.ready = TRUE, !.faulted = FALSE] /\ dbVisible' = dbVisible
       \/ \E failing \in DbBuffers, left \in DbAllocated :
             /\ DbCleanup([b \in DbBuffers |-> IF b < failing THEN DbAll ELSE IF b = failing THEN left ELSE dbHeld[b]],
                          dbVisible)
             /\ DbReleased([dbBank EXCEPT !.occupied = TRUE, !.faulted = FALSE])

\* A synchronisation fails: the bank is not used any more.
DbSyncFails ==
    /\ dbBank.ready /\ ~dbBank.faulted
    /\ dbBank' = [dbBank EXCEPT !.faulted = TRUE]
    /\ UNCHANGED <<dbHeld, dbReady, dbVisible, dbDevice>>

\* markDeviceVisible(), before any address reaches the device ...
DbPublish ==
    /\ dbBank.ready /\ ~dbBank.faulted /\ ~dbBank.visible
    /\ dbBank' = [dbBank EXCEPT !.visible = TRUE] /\ dbVisible' = [b \in DbBuffers |-> dbReady[b]]
    /\ UNCHANGED <<dbHeld, dbReady, dbDevice>>

\* ... and the queues are started over it.
DbStart ==
    /\ ~dbBank.gone /\ dbBank.visible /\ ~dbBank.faulted /\ ~dbDevice /\ dbDevice' = TRUE
    /\ UNCHANGED <<dbHeld, dbReady, dbVisible, dbBank>>

\* The stop that precedes releaseAfterDmaStopped() is proven.
DbStop ==
    /\ dbDevice /\ dbDevice' = FALSE
    /\ UNCHANGED <<dbHeld, dbReady, dbVisible, dbBank>>

\* releaseBeforeAttach(), and the retry of a release that failed.
DbRelease ==
    /\ ~dbBank.gone /\ ~dbBank.visible /\ dbBank.occupied
    /\ DbCleanup(dbHeld, dbVisible) /\ DbReleased(dbBank)
    /\ UNCHANGED dbDevice

DbReleaseStopped ==
    /\ ~dbBank.gone /\ ~dbDevice /\ dbBank.occupied
    /\ DbCleanup(dbHeld, [b \in DbBuffers |-> FALSE]) /\ DbReleased([dbBank EXCEPT !.visible = FALSE])
    /\ UNCHANGED dbDevice

\* The destructors run under whatever state is left, running DMA included.
DbDestroyVisible ==
    /\ ~dbBank.gone /\ dbBank' = [dbBank EXCEPT !.gone = TRUE, !.ready = FALSE]
    /\ DbCleanup(dbHeld, [b \in DbBuffers |-> FALSE])
    /\ UNCHANGED dbDevice

DbDestroy ==
    /\ ~dbBank.gone /\ dbBank' = [dbBank EXCEPT !.gone = TRUE, !.ready = FALSE]
    /\ DbCleanup(dbHeld, dbVisible)
    /\ UNCHANGED dbDevice

DbNext ==
    \/ DbAllocate \/ DbSyncFails \/ DbPublish \/ DbStart \/ DbStop
    \/ DbRelease \/ DbReleaseStopped \/ DbDestroy

-----------------------------------------------------------------------------
\* While the device runs over the bank every buffer is mapped and wired, also
\* when the objects are destroyed under it: cleanup() leaks rather than unmaps.
DbMappedWhileRunning == dbDevice => \A b \in DbBuffers : dbHeld[b] = DbAll

\* What is mapped for the device is attached, and wired memory: a cleanup that
\* stops half way never leaves a mapping of memory it has given up.
DbMappingBacked == \A b \in DbBuffers : \E k \in 0 .. Len(DbSteps) : dbHeld[b] = DbFirst(k)

\* A bank that says it is free holds nothing, so that allocate() starts from
\* empty buffers, after any sequence of failed allocations and retries.
DbFreeIsEmpty == ~dbBank.occupied => \A b \in DbBuffers : dbHeld[b] = {} /\ ~dbVisible[b]
=============================================================================
