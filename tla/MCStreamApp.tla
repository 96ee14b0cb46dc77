------------------------------ MODULE MCStreamApp ------------------------------
(* Instances of StreamApp for TLC: the threads of ipc_simulator, the frames of *)
(* its media file.                                                             *)
EXTENDS StreamApp

CONSTANTS video, audio, none

MCVideoThreads == {video}
MCAudioThreads == {audio}
MCFrames == {[key |-> TRUE, nalus |-> <<"SPS", "PPS", "SEI", "IDR">>],
             [key |-> FALSE, nalus |-> <<"SLICE">>]}
===============================================================================
