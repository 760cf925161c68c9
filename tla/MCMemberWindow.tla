--------------------------- MODULE MCMemberWindow ---------------------------
(* Small instances of MemberWindow. *)
EXTENDS MemberWindow, TLC

CONSTANTS zip, tar

\* The zip fills three windows by size and one, with heavy members, by count;
\* the tar is one window.
MCSizes == zip :> <<6, 6, 6, 1, 2, 2>> @@ tar :> <<6>>
=============================================================================
