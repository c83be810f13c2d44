---------------------------- MODULE MC_L3Bridge ----------------------------
EXTENDS L3BridgeProps, TLC

BridgeSymmetry == Permutations(Roots)
=============================================================================
