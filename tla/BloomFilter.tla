---------------------------- MODULE BloomFilter -----------------------------
(***************************************************************************)
(* The Bloom filter of an SSTable.  std::hash is any function: a hash is a *)
(* pair of functions, of the key and of the key with a byte appended.  The *)
(* bit array is the set of its bits that are 1; a filter is written to the *)
(* file and read back byte by byte, with its two counts.                   *)
(***************************************************************************)
EXTENDS Naturals

CONSTANTS
  BitCount,   \* bit_count_
  HashCount,  \* hash_count_
  Word64      \* 2^64

ASSUME BloomConstants ==
  /\ BitCount \in Nat \ {0}
  /\ HashCount \in Nat \ {0}
  /\ Word64 \in Nat \ {0}

EmptyFilter == {}

(* GetHashes: the step between the bits of a key is never 0.               *)
First(hash, key) == hash[1][key]
Stride(hash, key) == IF hash[2][key] = 0 THEN 1 ELSE hash[2][key]

BitIndex(hash, key, i) ==
  ((i * Stride(hash, key) + First(hash, key)) % Word64) % BitCount

BitsOf(hash, key) == {BitIndex(hash, key, i) : i \in 0 .. HashCount - 1}

(* Mutant of AddKey: the last of the bits is not set.                      *)
AddKeyShort(bits, hash, key) ==
  bits \cup {BitIndex(hash, key, i) : i \in 1 .. HashCount - 1}

AddKey(bits, hash, key) == bits \cup BitsOf(hash, key)

MayContain(bits, hash, key) == BitsOf(hash, key) \subseteq bits
=============================================================================
