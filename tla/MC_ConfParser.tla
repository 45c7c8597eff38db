---------------------------- MODULE MC_ConfParser ----------------------------
(***************************************************************************)
(* Topology files for ConfParser, built from resource blocks written the  *)
(* way the slash2 sample configurations write them.                        *)
(***************************************************************************)
EXTENDS ConfParser

CONSTANTS NV, MG

SemiKinds == {"site_id", "fsuuid", "type", "id", "fsroot"}
L(k, v) == [k |-> k, v |-> v, hex |-> FALSE, comma |-> FALSE, semi |-> k \in SemiKinds]
HexId(v) == [L("id", v) EXCEPT !.hex = TRUE]
Ifs(h, comma, semi) == [k |-> "ifs", v |-> h, hex |-> FALSE, comma |-> comma, semi |-> semi]
Cont(h, comma, semi) == [k |-> "cont", v |-> h, hex |-> FALSE, comma |-> comma, semi |-> semi]
Close == L("fin_res", NV)
Comment == L("other", NV)

\* An MDS with a one-line ifs, an ION whose ifs spans three lines with the
\* first host on the first, and an MDS without an id.
MdsBlock(n, h) ==
  <<L("new_res", n), L("type", "mds"), L("id", "1"), L("zpool", "pool"),
    Ifs(h, TRUE, TRUE), Close>>
IonBlock(n, h) ==
  <<L("new_res", n), L("type", "ion"), L("id", "2"), L("fsroot", "/fs"),
    Ifs(h, TRUE, FALSE), Cont("hb", TRUE, FALSE), Cont("hc", FALSE, TRUE), Close>>
NoIdBlock(n, h) ==
  <<L("new_res", n), L("type", "mds"), L("zpool", "pool"), Ifs(h, FALSE, TRUE), Close>>

SiteBlock(s, body) == <<L("site", s), L("site_id", "1")>> \o body \o <<Close>>

Headers == {<<>>, <<L("fsuuid", "0x2a"), Comment>>}
Blocks == {MdsBlock("m1", "h1"), IonBlock("i1", "h2"), NoIdBlock("m2", "h3")}

\* Well-formed files: an optional file-scope fsuuid, one site, two blocks.
MCWellFormed == {h \o SiteBlock("A", b1 \o b2) : h \in Headers, b1, b2 \in Blocks}

\* A resource whose ifs host list has no ";" before the end of the file.
MCUnterminated ==
  {SiteBlock("A", MdsBlock("m1", "h1") \o
     <<L("new_res", "m2"), L("type", "mds"), L("id", "1"), L("zpool", "pool"),
       Ifs("h2", TRUE, FALSE), Cont("h3", FALSE, FALSE), Close>>)}

\* Two sites, one resource each.
MCTwoSites == {SiteBlock("A", MdsBlock("m1", "h1")) \o SiteBlock("B", MdsBlock("m2", "h2"))}

\* An ifs directive whose first host is on the second line.
MCIfsNextLine ==
  {SiteBlock("A", <<L("new_res", "i1"), L("type", "ion"), L("id", "2"),
                    L("fsroot", "/fs"), Ifs(NV, FALSE, FALSE), Cont("h1", FALSE, TRUE),
                    Close>>)}

\* A resource id written in hexadecimal.
MCHexId ==
  {SiteBlock("A", <<L("new_res", "m1"), L("type", "mds"), HexId("0x1"),
                    L("zpool", "pool"), Ifs("h1", FALSE, TRUE), Close>>)}
=============================================================================
