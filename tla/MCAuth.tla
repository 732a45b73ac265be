------------------------------- MODULE MCAuth -------------------------------
(***************************************************************************)
(* A small instance of Auth: two accounts (one of them an administrator,   *)
(* spelled with a capital letter so that lowering it changes it), the      *)
(* deployment's realm in two spellings and a foreign realm.                *)
(***************************************************************************)
EXTENDS AuthRefinement, TLC

MCNames == {"alice", "Root"}
MCAdmins == {"Root"}
MCRealms == {"example.lan", "EXAMPLE.LAN", "evil.lan"}
MCDomain == "example.lan"

\* str.lower on the strings of this instance
MCLower(s) ==
    CASE s = "EXAMPLE.LAN" -> "example.lan"
      [] s = "Root"        -> "root"
      [] OTHER             -> s
=============================================================================
