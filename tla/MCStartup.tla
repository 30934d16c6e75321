----------------------------- MODULE MCStartup ------------------------------
(* Addresses of six bits.  As in the code, the private blocks are of three     *)
(* sizes and none is smaller than the widest range; the ranges begin at,        *)
(* around and within their bounds, written with or without host bits.  Three    *)
(* migrations and a later release, so that a 1.x file is both adopted and       *)
(* migrated.                                                                  *)
EXTENDS Startup

MCPrivateBlocks == {[addr |-> 8, bits |-> 3], [addr |-> 32, bits |-> 2], [addr |-> 52, bits |-> 4]}
Texts == {[addr |-> x, bits |-> b, v4 |-> TRUE] :
            x \in {0, 7, 8, 10, 15, 16, 32, 45, 47, 48, 52, 54, 55, 56, 63}, b \in 3..6}
NotACIDR == [addr |-> 0, bits |-> 0, v4 |-> FALSE]
MCConfigs == {<<>>, <<NotACIDR>>} \cup {<<x>> : x \in Texts} \cup {<<x, y>> : x, y \in Texts}
=============================================================================
