--------------------------- MODULE MCStage2Paging ---------------------------
(* Tables of two descriptors, pages of two units and an IPA space of up to  *)
(* 16 pages: one or two concatenated root tables at level 1, or level 0.    *)
EXTENDS Stage2Paging

MCParangeTable == {<<5, 1>>, <<4, 1>>, <<3, 1>>, <<3, 0>>}
MCRanges ==
  {<<2 * p, 2 * i, 2 * n>> : p \in {0, 1, 2, 4}, i \in {0, 1, 2, 4, 8, 13}, n \in {1, 3, 4, 8, 16}}
    \cup {<<0, 0, 3>>}
=============================================================================
