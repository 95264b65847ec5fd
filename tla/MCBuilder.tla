------------------------------ MODULE MCBuilder ------------------------------
(***************************************************************************)
(* Builder and Decode for TLC. Quantities around every boundary of their   *)
(* units; texts that mix notations, lack a unit, have one too many, or are *)
(* words. Intervals that are no interval, and such as formatDuration       *)
(* writes in different units.                                              *)
(***************************************************************************)
EXTENDS Builder

Durations == {0, 1, 999, 1000, 1500, 59000, 59900, 60000, 61000, 90000, 3599000, 3600000,
              3661500, 5400000, 86399000, 86400000, 90061001, 604800000, 694861000}
Sizes     == {0, 1, 512, 1023, 1024, 1536, 524288, 1048576, 1572864, 1073741824}

MCQuantities == {<<"duration", d>> : d \in Durations} \cup {<<"bytes", b>> : b \in Sizes}
                  \cup {<<"int", n>> : n \in {-5, 0, 7}}

Groups == {Number(1, 0, ""), Number(2, 5, "s"), Minus(Number(3, 0, "")), Number(4, 0, "m"),
           Number(1, 0, "x"), Letters("true"), Letters("no"), Letters("<ff>")}

MCOddTexts == {<<>>} \cup {<<<<g>>>> : g \in Groups} \cup {<<<<g, h>>>> : g, h \in Groups}
                \cup {<<<<g>>, <<h>>>> : g, h \in Groups}
                \cup {<<<<Number(1, 0, "d"), Number(3, 0, "")>>, <<g>>, <<h>>>> : g, h \in Groups}

MCWords     == [flags |-> {"detail", ""}, pairs |-> {"=k=v"}, where |-> {"?k=v"}]
MCIntervals == {-1, 1500}
=============================================================================
