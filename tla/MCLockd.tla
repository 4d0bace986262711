------------------------------- MODULE MCLockd -------------------------------
(* lockd with its controller and one observer, for TLC. *)
EXTENDS Lockd

MCClients == {"Sessiond", "Watchdog"}

Ask(c, cmd, s) == [src |-> c, cmd |-> cmd, state |-> s]

\* sessiond sends every command; the watchdog also tries what it may not do,
\* and connects without sending.
MCOffered ==
    {Ask("Sessiond", "SetLockState", s) : s \in LockStates}
        \cup {Ask("Sessiond", cmd, "Unlocked") : cmd \in {"AuthPrompt", "GetState"}}
        \cup {Ask("Watchdog", cmd, "Unlocked") :
                  cmd \in {"SetLockState", "GetState", "Unsupported", "Stalled"}}
=============================================================================
