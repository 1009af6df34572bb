--------------------------- MODULE PermissionLedger ---------------------------
(***************************************************************************)
(* What the gateway promises about certificates, without tables, request   *)
(* ids, locks or handlers: a certificate asks, is decided about once, and  *)
(* keeps that standing until it expires or the service stops; the archive  *)
(* holds past decisions, and a restart may bring back nothing else.        *)
(***************************************************************************)
CONSTANTS
  Subject,      \* the certificates
  Root,         \* those preset as roots
  RootBits,     \* and the bits they are preset with
  Grantable     \* the bits a decision may give

VARIABLES
  serving,      \* the service is running
  standing,     \* what each certificate is to the running service
  archive       \* the last decision recorded about each certificate

ledger == <<serving, standing, archive>>

Unknown  == [state |-> "unknown",  bits |-> {}]
Waits    == [state |-> "waiting",  bits |-> {}]
Refused  == [state |-> "rejected", bits |-> {}]
Active(bits) == [state |-> "active", bits |-> bits]

Nobody == [c \in Subject |-> Unknown]
Roots  == [c \in Subject |-> IF c \in Root THEN Active(RootBits) ELSE Unknown]

LedgerInit ==
  /\ serving = FALSE
  /\ standing = Nobody
  /\ archive = Nobody

Ask(c) ==
  /\ serving
  /\ standing[c] = Unknown
  /\ standing' = [standing EXCEPT ![c] = Waits]
  /\ UNCHANGED <<serving, archive>>

\* A decision ends the wait, and gives no bit beyond the grantable ones.
Settle(c) ==
  /\ serving
  /\ standing[c] = Waits
  /\ standing' = [standing EXCEPT ![c] = standing'[c]]
  /\ \/ standing'[c] = Refused
     \/ /\ standing'[c] = Active(standing'[c].bits)
        /\ standing'[c].bits \subseteq Grantable
  /\ UNCHANGED <<serving, archive>>

\* The archive takes down the standing of a certificate that is decided about.
Record(c) ==
  /\ serving
  /\ standing[c].state \in {"active", "rejected"}
  /\ archive' = [archive EXCEPT ![c] = standing[c]]
  /\ UNCHANGED <<serving, standing>>

Expire ==
  /\ serving
  /\ \A c \in Subject : standing'[c] \in {standing[c], Unknown}
  /\ standing' = [c \in Subject |-> standing'[c]]
  /\ UNCHANGED <<serving, archive>>

Stop ==
  /\ serving
  /\ serving' = FALSE
  /\ standing' = Nobody
  /\ UNCHANGED archive

Resume ==
  /\ ~serving
  /\ serving' = TRUE
  /\ standing' \in {archive, Roots, Nobody}
  /\ UNCHANGED archive

LedgerNext ==
  \/ \E c \in Subject : Ask(c) \/ Settle(c) \/ Record(c)
  \/ Expire \/ Stop \/ Resume

LedgerSpec == LedgerInit /\ [][LedgerNext]_ledger
==============================================================================
