----------------------------- MODULE MCLLMCache -----------------------------
(***************************************************************************)
(* Two processes and one key, since entries do not depend on each other.   *)
(***************************************************************************)
EXTENDS LLMCache

MCRetries == {-1, 1}

-----------------------------------------------------------------------------
\* A file is read as a response exactly when that response was written into an empty one
\* from beginning to end, whatever was written over it before.
ASSUME WritingIsReading ==
    LET R == {[by |-> "p", call |-> n, size |-> s] : n \in 1 .. 2, s \in 1 .. 2}
    IN  \A r, s \in R :
            LET over == [i \in 1 .. (IF r.size > s.size THEN r.size ELSE s.size) |->
                            IF i <= s.size THEN Pieces(s)[i] ELSE Pieces(r)[i]]
            IN  /\ IsWhole(Pieces(r)) /\ Readings(Pieces(r)) = {r}
                /\ WriteAt(WriteAt(<<>>, 1, Piece(r, 1)), r.size, Piece(r, r.size)) = Pieces(r)
                /\ r # s /\ r.size > s.size => Readings(over) = {Malformed}
=============================================================================
