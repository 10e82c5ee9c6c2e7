--------------------------- MODULE MCMcpTopology ---------------------------
(***************************************************************************)
(* McpTopology for TLC: one call at a time (calls share nothing), a server *)
(* that appears with a component, an app and an area, and disappears, in   *)
(* one batch each; a component that comes and goes by itself.              *)
(***************************************************************************)
EXTENDS McpTopology

CONSTANTS c1, c2, a1, r1, None

Tree == {ComponentRef(c1), AppRef(a1), AreaRef(r1)}

Appear ==
    [remove |-> {}, components |-> {[id |-> c1, area |-> r1]},
     apps |-> {[id |-> a1, app |-> [host |-> c1, area |-> None]]}, areas |-> {r1}]

Vanish == [remove |-> Tree, components |-> {}, apps |-> {}, areas |-> {}]

Swap ==
    [remove |-> {ComponentRef(c1)}, components |-> {[id |-> c2, area |-> None]},
     apps |-> {}, areas |-> {}]

MCBatches == {Appear, Vanish, Swap}

=============================================================================
