------------------------------ MODULE MCOutput ------------------------------
(* Two outputs and one configuration per kind of channel. *)
EXTENDS Output

MCOutputs == {0, 1}
MCChannelConfs == {{"file"}, {"kafka"}, {"mongodb", "socket"}, {"redis"}}
MCSocketType == {"unix", "internet"}
MCRedisThreads == {"main", "stats", "worker"}
=============================================================================
