---------------------------- MODULE MCRemoteCache ----------------------------
(* Small instances of RemoteCache for TLC. *)
EXTENDS RemoteCache

CONSTANTS s1, s2, s3, put, ping

\* The cluster moves the key, grows and shrinks.
TwoViews == {[servers |-> <<s1, s2>>, owners |-> <<s2, s1>>],
             [servers |-> <<s1, s3>>, owners |-> <<s3>>]}
OneView == {[servers |-> <<s1, s2>>, owners |-> <<s2, s1>>]}
==============================================================================
