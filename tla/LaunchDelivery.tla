---------------------------- MODULE LaunchDelivery ----------------------------
(***************************************************************************)
(* The watchdog's cache behind a stream that loses, repeats and reorders   *)
(* requests and outlives restarts of the watchdog.  The stream is the list *)
(* of launch states its sender has produced, generation by generation;     *)
(* any of them may arrive at any time, in full or as the difference to its *)
(* predecessor.                                                            *)
(***************************************************************************)
EXTENDS Watchdog, Sequences

CONSTANTS
    Values,          \* component states
    MaxGenerations,   \* generations (model bound)
    MaxSequence      \* launch states per generation (model bound)

States == [Components -> Values]
Entry == [profile : Profiles, generation : Nat, sequence : Nat, comps : States]
Generation == [profile : Profiles, states : Seq(States)]

ASSUME EntryAssumption == None \notin Entry
ASSUME StreamBounds == MaxGenerations \in Nat /\ MaxSequence \in Nat

VARIABLE sent         \* sent[g]: the profile and the states of generation g

deliveryVars == <<cache, sent>>

DeliveryInit ==
    /\ cache = EmptyCache
    /\ sent = <<>>

\* switch_to or a restart of sessiond: the first state of a new generation.
NewGeneration(p, cs) ==
    /\ Len(sent) < MaxGenerations
    /\ sent' = Append(sent, [profile |-> p, states |-> <<cs>>])
    /\ UNCHANGED cache

\* snapshot: the next state of the current generation.
NewState(cs) ==
    /\ sent # <<>>
    /\ Len(sent[Len(sent)].states) < MaxSequence
    /\ sent' = [sent EXCEPT ![Len(sent)] =
                  [profile |-> sent[Len(sent)].profile,
                   states |-> Append(sent[Len(sent)].states, cs)]]
    /\ UNCHANGED cache

Emitted(g, s, cs) == LaunchState(sent[g].profile, g, s, cs)

\* The components that differ between two successive states.
Differing(g, s) == {c \in Components : sent[g].states[s][c] # sent[g].states[s - 1][c]}

\* A request of the given kind for state s of generation g.
Request(kind, g, s) ==
    [kind |-> kind,
     state |-> Emitted(g, s, IF kind = "Delta"
                             THEN [c \in Differing(g, s) |-> sent[g].states[s][c]]
                             ELSE sent[g].states[s])]

\* handle_watchdog_command handles it.
Deliver(kind, g, s) ==
    /\ kind = "Delta" => s > 1
    /\ cache' = NextCache(Request(kind, g, s))
    /\ UNCHANGED sent

\* The watchdog restarts with an empty cache.
Restart ==
    /\ cache' = EmptyCache
    /\ UNCHANGED sent

DeliveryNext ==
    \/ \E p \in Profiles, cs \in States : NewGeneration(p, cs)
    \/ \E cs \in States : NewState(cs)
    \/ \E kind \in {"Full", "Replace", "Delta"}, g \in 1..Len(sent) :
         \E s \in 1..Len(sent[g].states) : Deliver(kind, g, s)
    \/ Restart

DeliverySpec == DeliveryInit /\ [][DeliveryNext]_deliveryVars

-----------------------------------------------------------------------------

\* Every variable has its type.
DeliveryTypeOK ==
    /\ sent \in Seq(Generation)
    /\ cache \in [Profiles -> Entry \cup {None}]

\* Whatever was lost, repeated or reordered, the state the watchdog holds under
\* a stamp is the state the sender gave that stamp: no delta was merged into
\* anything but its predecessor (cache_full_state, apply_delta).
MirrorExact ==
    \A p \in Profiles : cache[p] # None =>
        /\ cache[p].generation \in 1..Len(sent)
        /\ cache[p].sequence \in 1..Len(sent[cache[p].generation].states)
        /\ cache[p].profile = p
        /\ sent[cache[p].generation].profile = p
        /\ cache[p].comps = sent[cache[p].generation].states[cache[p].sequence]

\* A late or repeated request never takes a profile's entry back to an older
\* stamp, nor changes it under the same stamp (cache_full_state, apply_delta);
\* only a restart of the watchdog clears it.
CacheNeverRegresses ==
    [][cache' = EmptyCache \/
       \A p \in Profiles : cache[p] # None =>
           /\ cache'[p] # None
           /\ cache'[p] = cache[p] \/ Older(cache[p], cache'[p])]_deliveryVars
=============================================================================
