------------------------------ MODULE MCSessions ------------------------------
(* Small instances of Sessions for TLC. *)
EXTENDS Sessions, TLC

Everything == Op
DeactivationAndReset == {"Login", "RefreshToken", "ResetPassword", "DeactivateAccount"}
SignupAndGlobalLogout == {"Signup", "LogoutAll"}

CallAndEmailSymmetry == Permutations(Call) \cup Permutations(Email)
==============================================================================
