--------------------------- MODULE CommandLedger ---------------------------
(***************************************************************************)
(* What the shared firmware command bus promises to the clients that share *)
(* it, whatever sequence numbers it uses on the wire: commands are         *)
(* numbered in the order they are issued, each one stays open until it is  *)
(* settled, it is settled at most once, its own client (and nobody else)   *)
(* is notified at that moment or never, and once the bus is down nothing   *)
(* is issued or settled any more.                                          *)
(***************************************************************************)
EXTENDS Naturals, Sequences

CONSTANTS Client, NoClient

VARIABLES
  owners,    \* owners[t] is the client that issued command t
  open,      \* commands issued and not settled
  notices,   \* notifications given: [client, command]
  down       \* the bus has faulted

ledgerVars == <<owners, open, notices, down>>

Init ==
  /\ owners = <<>>
  /\ open = {}
  /\ notices = {}
  /\ down = FALSE

Issue ==
  /\ ~down
  /\ \E c \in Client \cup {NoClient} : owners' = Append(owners, c)
  /\ open' = open \cup {Len(owners) + 1}
  /\ UNCHANGED <<notices, down>>

\* A settlement may itself take the bus down: the firmware refused.
Settle(t) ==
  /\ ~down
  /\ open' = open \ {t}
  /\ notices' = IF owners[t] = NoClient
                  THEN notices
                  ELSE notices \cup {[client |-> owners[t], command |-> t]}
  /\ down' \in BOOLEAN
  /\ UNCHANGED owners

Fail ==
  /\ down' = TRUE
  /\ UNCHANGED <<owners, open, notices>>

Next == Issue \/ (\E t \in open : Settle(t)) \/ Fail

Spec == Init /\ [][Next]_ledgerVars
=============================================================================
