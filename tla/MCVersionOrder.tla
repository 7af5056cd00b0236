--------------------------- MODULE MCVersionOrder ---------------------------
(* Versions of a few identifiers, with their place in the order of strings. *)
EXTENDS VersionOrder, SequencesExt

Number(n, place) == [value |-> n, text |-> place]
Word(place) == [value |-> NaN, text |-> place]

(* "0" < "09" < "1" < "10" < "9" < "alpha" < "beta"                        *)
NumberZero == Number(0, 0)
Some ==
    {NumberZero, Number(9, 1), Number(1, 2), Number(10, 3), Number(9, 4), Word(5), Word(6)}

SomeVersions ==
    LET zero == NumberZero
        one == Number(1, 2)
        ten == Number(10, 3)
        mains == {<<one>>, <<one, zero, zero>>, <<one, zero, zero, one>>, <<one, ten, zero>>}
    IN  [main : mains, pre : BoundedSeq(Some \ {zero, one}, 2)]
=============================================================================
