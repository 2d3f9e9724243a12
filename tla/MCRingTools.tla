---------------------------- MODULE MCRingTools ------------------------------
(* A small instance of RingTools.                                           *)
EXTENDS RingTools
AllTools == {"execsnoop", "opensnoop", "bashreadline", "execguard", "keyring_snoop"}
=============================================================================
