---------------------------- MODULE FrameService ----------------------------
(***************************************************************************)
(* What waylandd promises its clients about frames: a client that commits  *)
(* is owed a notice for the generation of the scene its commit began, and  *)
(* is given it only when the screen shows that generation or a later one.  *)
(* How the scene gets to the screen is left to Relay.                      *)
(***************************************************************************)
EXTENDS Naturals

CONSTANT Clients

VARIABLES
    gen,    \* the generation of the scene
    top,    \* the generation on the screen, 0 when it shows none of this waylandd
    owed,   \* the generations each client waits for
    told    \* ... and those it was told about

vars == <<gen, top, owed, told>>

Init ==
    /\ gen = 0 /\ top = 0
    /\ owed = [c \in Clients |-> {}] /\ told = [c \in Clients |-> {}]

Commit(c) ==
    /\ gen' = gen + 1
    /\ owed' = [owed EXCEPT ![c] = @ \cup {gen + 1}]
    /\ UNCHANGED <<top, told>>

\* The screen moves to a later generation, never to an earlier one.
Show ==
    /\ top' \in (top + 1) .. gen
    /\ UNCHANGED <<gen, owed, told>>

\* The client is told about some of what it waits for and what is on the screen.
Tell(c) ==
    \E G \in SUBSET {g \in owed[c] : g <= top} :
        /\ told' = [told EXCEPT ![c] = @ \cup G]
        /\ \E R \in SUBSET owed[c] : owed' = [owed EXCEPT ![c] = R]
        /\ UNCHANGED <<gen, top>>

\* The client goes, or its surface: it waits for nothing any more.
Drop(c) ==
    /\ gen' \in {gen, gen + 1}
    /\ owed' = [owed EXCEPT ![c] = {}]
    /\ UNCHANGED <<top, told>>

\* A new waylandd begins at generation 0, with new clients.
Renew ==
    /\ gen' = 0 /\ top' = 0
    /\ owed' = [c \in Clients |-> {}] /\ told' = [c \in Clients |-> {}]

Next == Show \/ Renew \/ \E c \in Clients : Commit(c) \/ Tell(c) \/ Drop(c)

Spec == Init /\ [][Next]_vars
=============================================================================
