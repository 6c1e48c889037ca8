--------------------------- MODULE MCGatewayRoutes ---------------------------
(* GatewayRoutes with a symmetry set: clients are alike, and nothing orders *)
(* them.                                                                    *)
EXTENDS GatewayRoutes, TLC

ClientSymmetry == Permutations(Client)
===============================================================================
