------------------------------ MODULE Queries -------------------------------
(***************************************************************************)
(* The components that ask the server from an effect.  They share nothing,  *)
(* so a behaviour is that of one of them.                                   *)
(***************************************************************************)
EXTENDS Palette, DirNode

VARIABLE component   \* "palette" or "node"

queriesVars == <<paletteVars, nodeVars, component>>

QueriesTypeOK == PaletteTypeOK /\ NodeTypeOK /\ component \in {"palette", "node"}

QueriesInit ==
    /\ PaletteInit
    /\ NodeInit
    /\ component \in {"palette", "node"}

Palettes(A) == component = "palette" /\ A /\ UNCHANGED <<nodeVars, component>>
Nodes(A) == component = "node" /\ A /\ UNCHANGED <<paletteVars, component>>

QueriesNext == Palettes(PaletteNext) \/ Nodes(NodeNext)

\* A timer fires, a fetch ends, and what is due is rendered.
QueriesFairness ==
    /\ \A s \in Search : WF_queriesVars(Palettes(Send(s) \/ SearchEnds(s)))
    /\ \A a \in Listing : WF_queriesVars(Nodes(ServeListing(a) \/ ListingEnds(a)))
    /\ WF_queriesVars(Nodes(Render))

QueriesSpec == QueriesInit /\ [][QueriesNext]_queriesVars /\ QueriesFairness

=============================================================================
