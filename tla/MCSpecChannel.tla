---------------------------- MODULE MCSpecChannel ----------------------------
(* Behaviours with many inputs are looked at one half of the channel at a time:  *)
(* notices and followers with the disk as it was, or the disk alone, and at last *)
(* edits of the specification alone.                                             *)
EXTENDS SpecChannel

CONSTANT SharedInputs

Alone == relay.published = 0 /\ \A f \in Followers : server.follow[f].at = "off"

Focused ==
    \/ inputs <= SharedInputs
    \/ inputs < MaxInputs /\ (Alone \/ Len(past) = 1)
    \/ Alone /\ disk.media = 0 /\ server.failed = {} /\ watcher.at # "down" /\ ~server.closed

FocusedNext == ChannelNext /\ Focused'

FocusedSpec == ChannelInit /\ [][FocusedNext]_channelVars /\ ChannelFairness
=============================================================================
