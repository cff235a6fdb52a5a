---------------------------- MODULE MCHandshake ----------------------------
(***************************************************************************)
(* Versions and offers of the servers that Handshake is checked with.      *)
(***************************************************************************)
EXTENDS Handshake

(* Up to 3.8, one above it in each part, and Apple's. *)
MCVersions == {[major |-> 3, minor |-> 7], [major |-> 3, minor |-> 8],
               [major |-> 3, minor |-> 889], [major |-> 4, minor |-> 1]}
MCOffers == {{}, {"other"}, {"none", "vnc"}, {"vnc", "other"}, {"diffieHellman", "vnc"},
             {"ultraVNCMSLogonII"}}

(* A server that decides on the security type itself. *)
MCOldVersions == {[major |-> 3, minor |-> 3]}
MCNoneOffered == {{"none"}}
=============================================================================
