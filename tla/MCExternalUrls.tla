---------------------------- MODULE MCExternalUrls ----------------------------
(* ExternalUrls for TLC with one TCP service, which two URLs may name.        *)
EXTENDS ExternalUrls

TcpRequest == {[ingress |-> "k", slug |-> 0, target |-> "t", path |-> 0]}
==============================================================================
