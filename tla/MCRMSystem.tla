----------------------------- MODULE MCRMSystem -----------------------------
(* Small instances of RMSystem.                                             *)
EXTENDS RMSystem, TLC

CONSTANTS h1, h2, h3, p1, p2, Mp3, Jpeg, Adpcm, RM_AUDIO, RM_IMAGE

Prio(x, p) == [component |-> x, priority |-> p]
Comp(h, p) == [h |-> h, pid |-> p]

\* A table in which ADPCM and MP3 exclude each other, ADPCM preempts, and the
\* JPEG codec runs beside both.  IMAADPCM is a kind that HandleStateSet's switch
\* does not know: its CPU share is counted nowhere.
MCTable == << << Prio(Adpcm, 6), Prio(Jpeg, 6) >>,
              << Prio(Mp3, 5), Prio(Jpeg, 3) >> >>
MCTypeOf == (Mp3 :> RM_AUDIO) @@ (Jpeg :> RM_IMAGE)

\* One process with three components, with two, with one.
MCTrio == (Comp(h1, p1) :> Mp3) @@ (Comp(h2, p1) :> Jpeg) @@ (Comp(h3, p1) :> Adpcm)
MCTrioCpu == (Comp(h1, p1) :> 2) @@ (Comp(h2, p1) :> 3) @@ (Comp(h3, p1) :> 1)
MCPair == (Comp(h1, p1) :> Mp3) @@ (Comp(h3, p1) :> Adpcm)
MCPairCpu == (Comp(h1, p1) :> 2) @@ (Comp(h3, p1) :> 1)
MCSingle == (Comp(h1, p1) :> Mp3)
MCSingleCpu == (Comp(h1, p1) :> 2)

\* Two processes whose components run side by side.
\* Their handles are equal.
MCPeers == (Comp(h1, p1) :> Mp3) @@ (Comp(h1, p2) :> Jpeg)
MCTwoCpu == (Comp(h1, p1) :> 2) @@ (Comp(h1, p2) :> 3)

\* cyclesAvailable: the load exceeds the frequency, too few are left, enough are.
MCLevels == {-1, 0, 3}
=============================================================================
