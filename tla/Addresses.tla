----------------------------- MODULE Addresses ------------------------------
(***************************************************************************)
(* One address family of net/netip, W bits wide (32 or 128 in the code,    *)
(* a few bits in a model): addresses are the integers 0 .. TopAddr, and a  *)
(* prefix is a masked base with a mask length.  The operators keep the     *)
(* names of the helpers in cidr.go and range.go that they stand for.       *)
(***************************************************************************)
LOCAL INSTANCE Integers

CONSTANT W      (* The width of an address in bits. *)

TopAddr == 2^W - 1

Addr == 0 .. TopAddr

(* The low k bits set. *)
lowMask(k) == 2^k - 1

(* netip.Prefix.Masked: the address with its host bits cleared. *)
Masked(a, bits) == a - (a % 2^(W - bits))

(* The last address of the prefix that holds a. *)
lastAddr(a, bits) == Masked(a, bits) + lowMask(W - bits)

(* A prefix as the closed interval its builders store, with its length. *)
Prefix(a, bits) == [lo |-> Masked(a, bits), hi |-> lastAddr(a, bits), length |-> bits]

AllPrefixes == {Prefix(a, bits) : a \in Addr, bits \in 0 .. W}
=============================================================================
