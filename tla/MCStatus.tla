------------------------------- MODULE MCStatus -------------------------------
(***************************************************************************)
(* An instance of the status helper: three devices, one more than it takes *)
(* to tell a swap with the last element from a shift, two interfaces each. *)
(* Nothing in CmpStatus names a device, an interface or a stamp, so the    *)
(* model values may be permuted.                                           *)
(***************************************************************************)
EXTENDS CmpStatus, TLC

Symmetry == Permutations(DeviceId) \cup Permutations(InterfaceId) \cup Permutations(Stamp)
=============================================================================
