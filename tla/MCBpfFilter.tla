---------------------------- MODULE MCBpfFilter -----------------------------
(* Frames of every length around the offsets the program loads, with every  *)
(* combination of versions, protocols and kinds of destination.             *)
EXTENDS BpfFilter

FrameWith(len, version, ihl, proto, dst) ==
    LET q == [version |-> version, ihl |-> ihl, len |-> len, total |-> len,
              proto |-> proto, ttl |-> 64, id |-> 7, off |-> 0, more |-> FALSE, src |-> <<10, 0, 1, 5>>,
              dst |-> dst, sport |-> 5000, dport |-> 5001, ulen |-> 8, data |-> "d"]
    IN  [hsum |-> HeaderSum(q), cksum |-> {}] @@ q

FilterFrames ==
    {FrameWith(n, v, h, pr, d) :
        n \in {0, 1, 9, 10, 16, 17, 19, 20, 27, 28, 40}, v \in {0, 4, 6, 15},
        h \in {0, 5, 15}, pr \in {0, 6, UDP, 255},
        d \in {LIMITED_BROADCAST, <<10, 0, 1, 255>>, <<10, 0, 1, 254>>,
               <<223, 0, 0, 251>>, <<224, 0, 0, 0>>, <<239, 255, 255, 250>>,
               <<240, 0, 0, 1>>, <<0, 0, 0, 0>>}}
=============================================================================
