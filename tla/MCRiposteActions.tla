--------------------------- MODULE MCRiposteActions ---------------------------
(* RiposteActions with one or two sources and a registry of two actions.    *)
EXTENDS RiposteActions, TLC

CONSTANTS ip1, ip2, browser, script

MCIp == {ip1, ip2}
MCOneIp == {ip1}
MCNoAgent == {}
MCAgents == {browser, script}
MCTiers == <<1, 2>>
MCBans == {"ban"}
MCDecoys == {"decoy"}
Symmetry == Permutations(MCIp)
=============================================================================
