--------------------------- MODULE MCOrderedScan ---------------------------
(* Small instances of OrderedScan. *)
EXTENDS OrderedScan

\* Two lanes, three paths, a budget of 6 and a free floor of 2.
MCLanes == {1, 2}
MCCallers == MCLanes \X {"own", "pulled"}
MCSizes == {1, 2, 9}
\* Estimates 4, 2, 4: the first and the last do not fit together.
MCFileSize == <<2, 1, 2>>
\* Estimates 4, 1, 6 (capped at the budget): the last fits only alone.
MCFileSizeBig == <<2, 1, 9>>
MCFileHint == <<"Unknown", "Unknown", "Unknown">>
MCFileHintBig == <<"Unknown", "Flat", "Unknown">>
\* Too low for anything, or ample; or not known, when the live check passes.
MCMemLevels == {1, 20}
MCMemLevelsUnknown == {1, Unknown}
=============================================================================
