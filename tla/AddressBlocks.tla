----------------------------- MODULE AddressBlocks -----------------------------
(***************************************************************************)
(* Addresses and CIDR blocks as internal/utils/parser.go computes with     *)
(* them: an address is its octets, most significant first, and a prefix    *)
(* length masks bits from the left.  Octets are smaller in the instances   *)
(* than the eight bits they have, and addresses shorter.                   *)
(***************************************************************************)
EXTENDS Integers, FiniteSets

CONSTANTS Octets,  \* of an address
          Width    \* bits of an octet

ASSUME OctetsAssumption == Octets \in Nat \ {0}
ASSUME WidthAssumption  == Width \in Nat \ {0}

\* What some bits of an octet count, and an octet.
PowerOfTwo[n \in 0 .. Width] == IF n = 0 THEN 1 ELSE 2 * PowerOfTwo[n - 1]

Base == PowerOfTwo[Width]

Bits      == Octets * Width
Addresses == [1 .. Octets -> 0 .. Base - 1]

\* The last address.
Ones == [j \in 1 .. Octets |-> Base - 1]

\* What the first octets say as one number, and all of them.
Values(ip) ==
    LET value[j \in 0 .. Octets] == IF j = 0 THEN 0 ELSE value[j - 1] * Base + ip[j]
    IN  value
Value(ip) == Values(ip)[Octets]

\* Bits of octet j that a prefix of this length leaves to the hosts.
HostBits(j, length) ==
    LET network == length - (j - 1) * Width IN
    IF network <= 0 THEN Width ELSE IF network >= Width THEN 0 ELSE Width - network

Mask(ip, length) ==
    [j \in 1 .. Octets |-> ip[j] - (ip[j] % PowerOfTwo[HostBits(j, length)])]

InBlock(block, length, ip) == Mask(ip, length) = Mask(block, length)

\* The last octet is incremented, and each octet that wraps to zero carries;
\* the address after the last one is the first.
incIP(ip) ==
    [j \in 1 .. Octets |->
        IF \A k \in j + 1 .. Octets : ip[k] = Base - 1
        THEN (ip[j] + 1) % Base
        ELSE ip[j]]

\* The addresses of a block.
Block(ip, length) == {a \in Addresses : InBlock(ip, length, a)}
=============================================================================
