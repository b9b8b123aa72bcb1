----------------------------- MODULE Collections -----------------------------
(***************************************************************************)
(* Operators on sequences and finite sets that several components use,     *)
(* written so that the proofs can unfold them: CollectionLemmas says what  *)
(* they return.                                                            *)
(***************************************************************************)
EXTENDS Naturals, Sequences, FiniteSetsExt

\* The elements of s that are in S, in their order: SelectSeq with a set.
Only(s, S) ==
    LET sel[i \in 0 .. Len(s)] ==
          IF i = 0 THEN <<>>
          ELSE IF s[i] \in S THEN Append(sel[i - 1], s[i]) ELSE sel[i - 1]
    IN  sel[Len(s)]

\* The sum of f over a finite set of its arguments.
SumOf(f, S) == MapThenSumSet(LAMBDA x : f[x], S)

=============================================================================
