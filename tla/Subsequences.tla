---------------------------- MODULE Subsequences ----------------------------
(***************************************************************************)
(* SelectSeq for a test that is membership in a set, as a recursive        *)
(* function: what rows a DELETE leaves in a table, what lines of a file a  *)
(* parser keeps.                                                           *)
(***************************************************************************)
EXTENDS Integers, Sequences

\* The elements of s that are not in T, in their order.
Without(s, T) ==
    LET rest[n \in 0 .. Len(s)] ==
            IF n = 0 THEN <<>>
            ELSE IF s[n] \in T THEN rest[n - 1] ELSE Append(rest[n - 1], s[n])
    IN  rest[Len(s)]

=============================================================================
