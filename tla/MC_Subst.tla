------------------------------ MODULE MC_Subst ------------------------------
(***************************************************************************)
(* The two tables of tsuite.py lines 18-39, with "base" a path under the   *)
(* configured rootdir and "src" the configured srcroot.                   *)
(***************************************************************************)
EXTENDS Subst

CONSTANTS NK

T(k) == [key |-> k]
S(x) == [lit |-> x]

\* "base": path.join(rootdir, "sltest.<tsid>").
MCBuild(base) ==
  [k \in {"base", "mp", "datadir", "ctl", "fs"} |->
     CASE k = "base" -> base
       [] k = "mp" -> <<T("base"), S("/mp")>>
       [] k = "datadir" -> <<T("base"), S("/data")>>
       [] k = "ctl" -> <<T("base"), S("/ctl")>>
       [] k = "fs" -> <<T("base"), S("/fs")>>]

\* The binaries under %slbase% differ only in their literal tail.
SlBins == {"zpool", "zfs_fuse", "slmkjrnl", "slmctl", "slictl", "slashd",
           "slkeymgt", "slmkfs"}

MCSrc(srcroot) ==
  [k \in {"src", "slbase", "tsbase", "clicmd"} \cup SlBins |->
     CASE k = "src" -> srcroot
       [] k = "slbase" -> <<T("src"), S("/slash_nara")>>
       [] k = "tsbase" -> <<T("slbase"), S("/../tsuite")>>
       [] k = "clicmd" -> <<T("base"), S("/cli_cmd.sh")>>
       [] OTHER -> <<T("slbase"), S("/" \o k)>>]

\* A rootdir and a srcroot given as plain paths.
MCBuildPlain == MCBuild(<<S("/r/sltest.7")>>)
MCSrcPlain == MCSrc(<<S("/home/u/src")>>)

\* A srcroot that names a key of src_dirs: "%src%" refers to itself,
\* "%tsbase%" to a path built from it.
MCSrcSelf == MCSrc(<<T("src")>>)
MCSrcLoop == MCSrc(<<T("tsbase")>>)
=============================================================================
