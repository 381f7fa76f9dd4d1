------------------------------ MODULE MCProbe ------------------------------
(***************************************************************************)
(* Instances of Probe for TLC.                                             *)
(***************************************************************************)
EXTENDS Probe

\* Two reasons suffice to tell a verdict from another failed one.
TwoHostKeyErrors == {"server_host_key_unknown", "server_host_key_mismatch"}
OneHostKeyError  == {"server_host_key_mismatch"}
OneIdentification == {"commented"}
=============================================================================
