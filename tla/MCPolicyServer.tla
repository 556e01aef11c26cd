--------------------------- MODULE MCPolicyServer ---------------------------
(* Small instances of PolicyServer.  The tables have the shape of           *)
(* policytable.tbl: a lone 720p use case on top, wide audio/video           *)
(* combinations below it, kinds that occur in several combinations with     *)
(* different priorities.                                                    *)
EXTENDS PolicyServer

CONSTANTS h1, h2, h3, p1, p2, Video720, Mp3, Jpeg, Camera, Vpp

E(x, p) == [component |-> x, priority |-> p]

MCTable == << << E(Video720, 6) >>,
              << E(Mp3, 5), E(Jpeg, 3) >>,
              << E(Jpeg, 5), E(Camera, 5), E(Mp3, 2) >>,
              << E(Camera, 4) >> >>

MCComponents == {Video720, Mp3, Jpeg, Camera, Vpp}

\* Two processes; equal handle values in different processes happen.
MCKindOf ==
    [i \in [h : {h1, h2, h3}, pid : {p1, p2}] |->
        IF i.h = h1 THEN (IF i.pid = p1 THEN Video720 ELSE Mp3)
        ELSE IF i.h = h2 THEN (IF i.pid = p1 THEN Jpeg ELSE Camera)
        ELSE (IF i.pid = p1 THEN Mp3 ELSE Vpp)]   \* Vpp is in no combination

\* pPendingComponentList is written and never read: one instance that waits is
\* as good as another.
OneWaits == \A i \in DOMAIN pPendingComponentList :
                pPendingComponentList[i] = [h |-> h2, pid |-> p1]
=============================================================================
