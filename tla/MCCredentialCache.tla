-------------------------- MODULE MCCredentialCache -------------------------
(* Values of the constants of CredentialCache for TLC.                     *)
EXTENDS CredentialCache, TLC

CONSTANTS c1, c2, acme, l1, m1, m2

OneClient == {c1}
MCClients == {c1, c2}
MCAccounts == {acme}
OneAccountOf == [c \in OneClient |-> acme]
MCAccountOf == [c \in MCClients |-> acme]
OneLogin == {l1}
OneAdmin == {m1}
MCAdmins == {m1, m2}
=============================================================================
