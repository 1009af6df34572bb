---------------------------- MODULE ModuleRegistry ----------------------------
(***************************************************************************)
(* The registry of modules the gateway fills while it starts.  A module    *)
(* declares the permission bits it claims and the core version it needs;   *)
(* registration refuses a module that needs a newer core or claims a bit   *)
(* that is taken.  Bits nobody claims are called locked.                   *)
(*                                                                         *)
(* A version is the sequence of its characters: a digit stands for itself, *)
(* Dot for the full stop, which sorts before every digit.                  *)
(***************************************************************************)
EXTENDS Integers, Sequences, SequencesExt

CONSTANTS
  Declared,  \* declarations: [name, bits, minCore]
  Releases   \* versions of the core

Dot == -1

ASSUME RegistryAssumption ==
  /\ \A m \in Declared : m.bits \in Seq(0..63) /\ m.minCore \in Seq(Dot..9)
  /\ Releases \subseteq Seq(Dot..9)

VARIABLES
  coreVersion, \* CARGO_PKG_VERSION of the program that runs
  modules,     \* declarations of the modules loaded, in order
  claimedBits  \* claimed_bits

registryVars == <<coreVersion, modules, claimedBits>>

CoreBits == <<0, 1, 2>>

ActiveBits == ToSet(claimedBits)
LockedBits == 0..63 \ ActiveBits

\* Strings compare by their first difference, as &str does.
StringLess(s, t) ==
  \E n \in 1..Len(t) :
    /\ \A i \in 1..(n - 1) : i <= Len(s) /\ s[i] = t[i]
    /\ n > Len(s) \/ s[n] < t[n]

\* Mutant: the core must be newer than the module asks for.
TooNewOrSame(m) == ~StringLess(m.minCore, coreVersion)

TooNew(m) == StringLess(coreVersion, m.minCore)

\* Mutant: only the core's own bits are protected.
TakesCoreBit(m) == \E i \in DOMAIN m.bits : m.bits[i] \in ToSet(CoreBits)

TakesClaimedBit(m) == \E i \in DOMAIN m.bits : m.bits[i] \in ActiveBits

Load(m) ==
  /\ ~TooNew(m)
  /\ ~TakesClaimedBit(m)
  /\ claimedBits' = claimedBits \o m.bits
  /\ modules' = Append(modules, m)
  /\ UNCHANGED coreVersion

Skip(m) ==
  /\ TooNew(m) \/ TakesClaimedBit(m)
  /\ UNCHANGED registryVars

\* Each module is offered once: main.rs registers them one after the other.
Register(m) == ~Contains(modules, m) /\ (Load(m) \/ Skip(m))

\* A start of the program, of the same or of another release.
NewRegistry ==
  /\ coreVersion' \in Releases
  /\ modules' = << >>
  /\ claimedBits' = CoreBits

RegistryInit ==
  /\ coreVersion \in Releases
  /\ modules = << >>
  /\ claimedBits = CoreBits

RegistryNext == (\E m \in Declared : Register(m)) \/ NewRegistry
RegistrySpec == RegistryInit /\ [][RegistryNext]_registryVars

------------------------------------------------------------------------------
(* Properties *)

BitsOf(i) == ToSet(modules[i].bits)

\* No bit has two owners, in whatever order modules come; and the bits called
\* locked are those no loaded module and not the core has claimed, so that a
\* module that was skipped locks its bits.
BitsHaveOneOwner ==
  /\ \A i, j \in DOMAIN modules : i # j => BitsOf(i) \cap BitsOf(j) = {}
  /\ \A i \in DOMAIN modules : BitsOf(i) \cap ToSet(CoreBits) = {}
  /\ LockedBits = 0..63 \ (ToSet(CoreBits) \cup UNION {BitsOf(i) : i \in DOMAIN modules})

\* The numbers of a version of three numbers of one digit, and the order of such
\* versions: the reference definition of "older".
OneDigitEach(v) == Len(v) = 5 /\ \A i \in DOMAIN v : (v[i] = Dot) <=> (i % 2 = 0)
Numbers(v) == [k \in 1..3 |-> v[2 * k - 1]]

Older(v, w) ==
  \E k \in 1..3 :
    /\ \A i \in 1..(k - 1) : Numbers(v)[i] = Numbers(w)[i]
    /\ Numbers(v)[k] < Numbers(w)[k]

\* As long as a version is three numbers of one digit each, a module is loaded by
\* no core older than the one it needs, and skipped by a core that is not older
\* only for its bits.  (With two digits neither is so: as strings, 0.10.0 comes
\* before 0.3.6.  Nor with two numbers: 0.3 comes before 0.3.0.)
OldCoresSkip ==
  \A m \in Declared :
    OneDigitEach(m.minCore) /\ OneDigitEach(coreVersion) =>
      IF Older(coreVersion, m.minCore) THEN ~Contains(modules, m)
      ELSE Contains(modules, m) \/ TakesClaimedBit(m) \/ ~TooNew(m)
==============================================================================
