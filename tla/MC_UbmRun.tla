------------------------------ MODULE MC_UbmRun ------------------------------
(* Traces of four scans of three files. *)
EXTENDS UbmRun

CONSTANT Reads   \* scans in a trace

Name == <<<<"a0", "a1", "a2", "a3", "a4", "a5">>, <<"b0", "b1", "b2">>,
          <<"c0", "c1", "c2", "c3", "c4", "c5">>>>
MC_Blocks == UNION {ToSet(Name[v]) : v \in 1..3}

At(v, p) == [blkno |-> Name[v][p + 1], vnode |-> v, pblkno |-> p]
Read(v, ps) == [k \in 1..Len(ps) |-> At(v, ps[k])]

(* Whole files, a long and a short one; the two in turn, one of them from *)
(* its second block on; and, not at first, blocks out of order.            *)
InOrder ==
    {Read(1, <<0, 1, 2, 3, 4, 5>>), Read(2, <<0, 1, 2>>),
     <<At(2, 0), At(1, 1), At(2, 1), At(1, 2), At(2, 2), At(1, 3), At(1, 0)>>}
Scans == InOrder \cup {Read(3, <<2, 0, 3, 1, 5, 4>>)}

MC_Traces == {first \o FlattenSeq(rest) : first \in InOrder, rest \in [1..(Reads - 1) -> Scans]}

(* The sizes of the segments with the constants of the code. *)
Real == INSTANCE SegSizes WITH UMod <- 65536, FirstSize <- 30, LargeSegment <- 50

ASSUME RealSizes ==
    \A size \in 0..700, r \in {0, 1, 7, 100}, m \in {0, 3, 40} :
        /\ Real!SumAgrees(size, r, m)
        /\ size > r + m + 30 => Real!SizesFit(size, r, m)
=============================================================================
