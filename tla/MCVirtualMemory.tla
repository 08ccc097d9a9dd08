--------------------------- MODULE MCVirtualMemory --------------------------
(* Model-checking instance of VirtualMemory: two units make a page, two    *)
(* pages a granule, and there are two granules and a half.                 *)
EXTENDS VirtualMemory

UserPagesDef == 2..6
=============================================================================
