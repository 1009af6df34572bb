-------------------------- MODULE PermissionCatalog --------------------------
(***************************************************************************)
(* The permission catalog: which bits a u64 bitmap may carry, which of     *)
(* them a device may ask for and which of them an administrator may grant. *)
(* A bitmap is the set of the bits that are 1 in it.                       *)
(***************************************************************************)
EXTENDS Integers

Bit    == 0..63
Bitmap == SUBSET Bit

\* permission_catalog(): one row for each permission the program defines.
Catalog ==
  { [bit |-> 0, requestable |-> TRUE,  rootOnly |-> FALSE],   \* connector
    [bit |-> 1, requestable |-> FALSE, rootOnly |-> TRUE ],   \* admin
    [bit |-> 2, requestable |-> TRUE,  rootOnly |-> FALSE],   \* device
    [bit |-> 3, requestable |-> TRUE,  rootOnly |-> FALSE],   \* storage:read
    [bit |-> 4, requestable |-> TRUE,  rootOnly |-> FALSE],   \* storage:write
    [bit |-> 5, requestable |-> TRUE,  rootOnly |-> FALSE],   \* compute:submit
    [bit |-> 6, requestable |-> TRUE,  rootOnly |-> FALSE] }  \* compute:cancel

RequestableBits == {p.bit : p \in {q \in Catalog : q.requestable}}

\* The bits grantable_permissions(is_root) lists.
GrantableBits(isRoot) == {p.bit : p \in {q \in Catalog : isRoot \/ ~q.rootOnly}}

\* What parse_requested_bitmap makes of the bits a request names.  A missing
\* or malformed "requested" field is the raw bitmap {0}.
ParseRequested(raw) == raw \cap RequestableBits

\* Mutant: the administrator who approves is taken for root.
FilterGrantAsRoot(bitmap) == bitmap \cap GrantableBits(TRUE)

\* handle_approve treats every administrator as a non-root one.
FilterGrant(bitmap) == bitmap \cap GrantableBits(FALSE)
==============================================================================
