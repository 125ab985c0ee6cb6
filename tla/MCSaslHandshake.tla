-------------------------- MODULE MCSaslHandshake --------------------------
(* SaslHandshake on servers that offer the mechanism first, last, or not.  *)
EXTENDS SaslHandshake

SomeOffers == {<<"SCRAM-SHA-256", "PLAIN">>, <<"PLAIN", "SCRAM-SHA-256">>,
               <<"DIGEST-MD5">>, <<>>}
============================================================================
