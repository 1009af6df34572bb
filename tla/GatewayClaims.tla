----------------------------- MODULE GatewayClaims -----------------------------
(***************************************************************************)
(* What comments, messages and documents of the repository say of the      *)
(* running gateway, and the code does not do.  Each definition quotes its  *)
(* source; each is checked by a run that finds it violated.                *)
(***************************************************************************)
EXTENDS Gateway

\* auth.rs:291 "Active: never deleted (must be revoked by hand)".  The rule
\* never-seen collects every entry older than 24 hours whose last_seen is
\* unset, and nothing sets last_seen.
ActiveNeverCollected ==
  [][\A c \in DOMAIN table.entries :
       up' /\ table.entries[c].status = "Active"
         => c \in DOMAIN table'.entries]_vars

\* confirm.rs:86 "the certificate is confirmed and can be used normally", the
\* answer to every confirmation that got this far.  Between the handler's two
\* locks the collector may drop the entry it has just activated.
ConfirmedIsUsable ==
  \A h \in Handler :
    pc[h] = "confirm_read" => Known(job[h].cert)
==============================================================================
