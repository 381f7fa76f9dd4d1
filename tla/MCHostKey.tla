----------------------------- MODULE MCHostKey -----------------------------
(***************************************************************************)
(* Instances of HostKey for TLC.                                           *)
(***************************************************************************)
EXTENDS HostKey

\* One format OpenSSH accepts and one it does not.
TwoFormats == {"rsa-sha2-512", "ssh-rsa"}
=============================================================================
