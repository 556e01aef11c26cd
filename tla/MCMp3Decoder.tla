---------------------------- MODULE MCMp3Decoder ----------------------------
(* Small instances of Mp3Decoder: one input and one output buffer.         *)
EXTENDS Mp3Decoder, TLC

CONSTANTS i1, o1

MCPortOf == (i1 :> In) @@ (o1 :> Out)

\* The commands of a player: no WaitForResources or Invalid, one port a time.
PlayerCommands == ({"StateSet"} \X {"Loaded", "Idle", "Executing", "Pause"})
    \union ({"Flush", "PortDisable", "PortEnable"} \X {In, Out})

\* Every command of the switch in MP3DEC_HandleCommand.
AllCommands == ({"StateSet"} \X States)
    \union ({"Flush", "PortDisable", "PortEnable"} \X {In, Out, All})
=============================================================================
