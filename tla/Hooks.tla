------------------------------- MODULE Hooks -------------------------------
(***************************************************************************)
(* How the registrar reads a hook's answer.  A hook is an arbitrary        *)
(* contract: its answer is abstracted to what the library looks at, namely *)
(* whether the call succeeded, how many bytes came back, whether they      *)
(* start with the expected selector, and the word where the fee belongs.   *)
(***************************************************************************)
EXTENDS Integers

CONSTANT
    HookFees     \* the fees a hook may answer with

\* One length per case the library tells apart: nothing, a selector alone, a
\* selector and part of the fee's word, both words.
ResponseLengths == {0, 4, 36, 64}

Responses == [ok : BOOLEAN, len : ResponseLengths, sel : BOOLEAN, fee : HookFees]

\* callHook returns instead of reverting.
CallHookAccepts(r) ==
    /\ r.ok
    /\ r.len >= 36
    /\ r.sel

\* The fee callHook returns.  It loads the word at offset 32 of the answer, and
\* accepts answers of 36 to 63 bytes, so the load can run past the answer and
\* bring in whatever follows it in memory.
CallHookFees(r) == IF r.len >= 64 THEN {r.fee} ELSE HookFees

\* The fees with which a hook call can come back to the registrar.
AcceptedFees == UNION {CallHookFees(r) : r \in {q \in Responses : CallHookAccepts(q)}}

\* beforeBurn returns instead of reverting: it looks at the bytes only, never at
\* whether the call succeeded.
BeforeBurnAccepts(r) ==
    /\ r.len >= 4
    /\ r.sel

\* Whether the hook's call had succeeded in the answers beforeBurn accepts.
BurnOutcomes == {r.ok : r \in {q \in Responses : BeforeBurnAccepts(q)}}
=============================================================================
