---------------------------- MODULE PersisterMC ----------------------------
(***************************************************************************)
(* Terms and keys of one digit and of two, votes of one character and of   *)
(* two, and behind the buffer nothing, an entry or the end of a field.     *)
(***************************************************************************)
EXTENDS PersisterProperties

NoJunk == <<>>
StrayEntry == <<Put, Comma, Zero + 1, Dot>>
StrayField == <<Semicolon, Dot>>
NothingBehind == {NoJunk}
BeyondValues == {NoJunk, StrayEntry, StrayField}

(* What the theorems suppose of memory is so of these.                     *)
ASSUME MemoryIsHarmless == HarmlessMemory
=============================================================================
