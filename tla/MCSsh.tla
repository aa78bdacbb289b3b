------------------------------- MODULE MCSsh -------------------------------
(* Two connections of one slave, the second its reconnect before the master  *)
(* has seen the first one end, each with a channel that may ask again.       *)
EXTENDS SshSessions

CONSTANTS c1, c2, ch1, ch2, a1

MCConnOf == [ch \in Chans |-> IF ch = ch1 THEN c1 ELSE c2]
MCAddrOf == [c \in Conns |-> a1]
=============================================================================
