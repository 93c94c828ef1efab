----------------------------- MODULE MCIdentity -----------------------------
(* Two senders, one channel; a group of two destinations and a destination  *)
(* that also stands alone, of which one has no IPv6 address.                *)
EXTENDS Identity

CONSTANTS a, b, x, y, empty

MCPeerEntries == <<[hosts |-> {"h1", "h2"}, hash |-> 1], [hosts |-> {"h2"}, hash |-> 2]>>
MCSingletons == {"d1", "d2", "d3"}
MCGroups == [g |-> {"d1", "d2"}]
MCChannels == [one |-> {"d3", "g"}, two |-> {"d1"}]
MCOptions == [d1 |-> {4}, d2 |-> {4, 6}, d3 |-> {6}]
=============================================================================
