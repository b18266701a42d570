------------------------------ MODULE MCParts ------------------------------
(***************************************************************************)
(* The sequential parts for TLC: the image processor, the configuration    *)
(* and the two stores, each on its own, one of them per behaviour.         *)
(***************************************************************************)
EXTENDS Images, Config, Stores, TLC

CONSTANTS p1, p2, i1, i2, v1, v2

VARIABLE part

MCSizes ==
    {0, 1, 2, 3, 4, 5, 7, 127, 128, 129, 255, 257, 300, 341, 383, 511, 512, 513, 700,
     1023, 1025, 2049, 3001, 4095, 4096, 4097}

MCLimits == {-1, 0, 7}

MCSizeOf == [i \in Ids |-> IF i = i1 THEN 1 ELSE 2]

Init ==
    /\ part \in {"images", "config", "stores"}
    /\ ImagesInit
    /\ ConfigInit
    /\ StoresInit

Next ==
    /\ UNCHANGED part
    /\ \/ part = "images" /\ ImagesNext /\ UNCHANGED <<configVars, storesVars>>
       \/ part = "config" /\ ConfigNext /\ UNCHANGED <<imageVars, storesVars>>
       \/ part = "stores" /\ StoresNext /\ UNCHANGED <<imageVars, configVars>>

Spec == Init /\ [][Next]_<<part, imageVars, configVars, storesVars>>
=============================================================================
