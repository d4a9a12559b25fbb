----------------------------- MODULE ZifAddress -----------------------------
(***************************************************************************)
(* Address algebra and signed directory entries (dht package: Address,    *)
(* Entry, Entry.String, Entry.Verify).                                     *)
(*                                                                         *)
(* A Zif address is 20 bytes; here it is a W-bit number, so that the XOR   *)
(* metric and the "leading zero bits" bucket index keep their meaning with *)
(* W buckets instead of 160.  An entry keeps only the fields a property    *)
(* tells apart: its address, its version (the signed Updated field, which  *)
(* stands for every signed scalar field), the Seeding set, which is signed,*)
(* and the Seeds set, which is not, and its public key: the owner's key is *)
(* identified with its address, OtherKey is anyone else's.  A signature is *)
(* the record of the key and the signed content it was computed over;      *)
(* ed25519 is assumed unforgeable, so an entry verifies iff its signature  *)
(* is by its own key over exactly its own signed content.  Verify never    *)
(* compares the key with the address.  Every other check of Entry.Verify (name, description and      *)
(* public address lengths, key and signature sizes, seed count) is a       *)
(* reason for the same outcome, a failed Verify, and is folded into the    *)
(* "tampered" entries the models offer.                                    *)
(***************************************************************************)
EXTENDS Naturals, Bitwise

CONSTANTS
    W,      \* address width in bits (160 in the code)
    Self    \* the local node's address

Addr == 0 .. (2^W - 1)

ASSUME W \in 1..4 /\ Self \in Addr

\* Number of significant bits of d.
RECURSIVE BitLen(_)
BitLen(d) == IF d = 0 THEN 0 ELSE 1 + BitLen(d \div 2)

\* Address.Xor: the XOR distance of two addresses, as a number.  Comparing
\* the 20-byte distances lexicographically is comparing these numbers.
Distance(a, b) == a ^^ b

\* Address.LeadingZeroes of a W-bit distance.
LeadingZeroes(d) == W - BitLen(d)

\* The routing-table bucket of an address: LeadingZeroes(addr XOR self).
BucketIndex(a) == LeadingZeroes(Distance(a, Self))

Buckets == 0 .. (W - 1)

\* A key that belongs to no address.
OtherKey == 2^W

\* Entry.String/Bytes, signed with key k: the canonical signed bytes cover
\* the address, the scalar fields and the Seeding list, not the Seeds.
Signed(k, a, v, seeding) ==
    [key |-> k, addr |-> a, ver |-> v, seeding |-> seeding]

\* Entry.Verify: ed25519.Verify(entry.PublicKey, entry.Bytes(), signature).
Verify(e) == e.sig = Signed(e.key, e.addr, e.ver, e.seeding)

\* An entry as its owner signs it.
MkEntry(a, v, seeding, seeds) ==
    [addr |-> a, key |-> a, ver |-> v, seeding |-> seeding, seeds |-> seeds,
     sig |-> Signed(a, a, v, seeding)]

\* An entry whose signed content was altered after signing.
Tampered(e, v) == [e EXCEPT !.sig = Signed(e.key, e.addr, v, e.seeding)]

\* An entry for e's address made and signed by someone else with OtherKey.
Forged(e) ==
    [e EXCEPT !.key = OtherKey, !.sig = Signed(OtherKey, e.addr, e.ver, e.seeding)]

=============================================================================
