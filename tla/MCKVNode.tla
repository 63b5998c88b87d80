------------------------------ MODULE MCKVNode ------------------------------
(* Instances of KVNode: key and value lengths.  The values are made of zero, *)
(* the trailer of a three-byte key and '='.                                *)
EXTENDS KVNodeInv

CONSTANTS KeyLen, ValLen

MCKey   == [i \in 1 .. KeyLen |-> 107]
MCOther == <<111>>
MCBytes == <<0, 12, 61>>
MCValues == {[i \in 1 .. ValLen |-> MCBytes[1 + ((i + s) % 3)]] : s \in {0, 1}}

=============================================================================
