---------------------------- MODULE DiscoveryFeed ----------------------------
(***************************************************************************)
(* What discovery promises the rest of the server: the batches a provider  *)
(* offers reach the registry one at a time, each whole, in the order in    *)
(* which its stream yields them.  Only a shutdown may leave batches        *)
(* unapplied.                                                              *)
(***************************************************************************)
EXTENDS TopologyEvents

CONSTANTS Providers,  \* the configured discovery providers
          Batches     \* the batches a stream can yield

VARIABLES registry,  \* the live entities
          offered,   \* provider -> batches its stream has yielded, not applied
          running    \* discovery has not ended

feedVars == <<registry, offered, running>>

Init ==
    /\ registry = {}
    /\ offered = [p \in Providers |-> <<>>]
    /\ running = TRUE

Offer(p) ==
    /\ \E batch \in Batches : offered' = [offered EXCEPT ![p] = Append(@, batch)]
    /\ UNCHANGED <<registry, running>>

Apply(p) ==
    /\ running
    /\ offered[p] # <<>>
    /\ registry' = Merge(registry, Head(offered[p]))
    /\ offered' = [offered EXCEPT ![p] = Tail(@)]
    /\ UNCHANGED running

\* What is offered when discovery ends, or later, is never applied.
End ==
    /\ running
    /\ running' = FALSE
    /\ offered' = [p \in Providers |-> <<>>]
    /\ UNCHANGED registry

Next == End \/ \E p \in Providers : Offer(p) \/ Apply(p)

Spec == Init /\ [][Next]_feedVars

=============================================================================
