----------------------------- MODULE MCGuestMem -----------------------------
(* GuestMem with an address space of eight pages of two bytes.             *)
EXTENDS GuestMem
=============================================================================
