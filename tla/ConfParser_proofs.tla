-------------------------- MODULE ConfParser_proofs --------------------------
(***************************************************************************)
(* Proof of the type of parse_slash2_conf's state for every topology file *)
(* of lines: the read position stays within the file, the copy of        *)
(* slash.conf records only lines of the file, and the registry holds      *)
(* resources whose fields are strings, absent or a mangled host.          *)
(***************************************************************************)
EXTENDS ConfParser, SequenceTheorems, TLAPS

\* The values a line or a scanner variable holds.
Val == STRING \cup {NoVal}

\* The fields of an SL2Res and the values they take.
ResRec == [Fields \cup {"name", "site", "site_id", "fsuuid"} -> STRING \cup {NoVal, Mangled}]

\* The strengthening of TypeOK: the scanner's variables, the resource open
\* (None or a resource), and the inner ifs loop reading with a resource open.
PInv ==
  /\ TypeOK
  /\ site_name \in Val /\ site_id \in Val /\ fsuuid \in Val
  /\ res = NoVal \/ res \in ResRec
  /\ pc = "ifs" => res \in ResRec /\ ifsLine \in LineRec

-----------------------------------------------------------------------------
\* The line the outer loop reads is a line of the file.
LEMMA LineFacts ==
  ASSUME PInv, Reading
  PROVE  /\ pos \in 1..Len(file)
         /\ file \in Seq(LineRec)
         /\ line \in LineRec
         /\ line.v \in Val
<1>a. TypeOK
  BY DEF PInv
<1>b. pos <= Len(file)
  BY DEF Reading
<1>0. file \in Seq(LineRec) /\ pos \in 1..Len(file) + 1 /\ pos <= Len(file)
  BY <1>a, <1>b, Zenon DEF TypeOK
<1>1. file \in Seq(LineRec) /\ pos \in 1..Len(file)
  BY <1>0
<1>2. line \in LineRec
  BY <1>1 DEF line
<1>3. QED
  BY <1>1, <1>2 DEF LineRec, Val

\* Reading a line, copying it and moving on keeps the position and the
\* copy within the file.
LEMMA ReadStep ==
  ASSUME PInv, Reading, Copy, pos' = pos + 1, UNCHANGED <<file, pc>>
  PROVE  /\ file' \in Seq(LineRec)
         /\ pc' \in {"open", "loop", "ifs"} \cup Terminal
         /\ pos' \in 1..Len(file') + 1
         /\ newconf' \in Seq(1..Len(file'))
<1>1. pos \in 1..Len(file) /\ file \in Seq(LineRec)
  BY LineFacts
<1>2. newconf \in Seq(1..Len(file))
  BY Zenon DEF PInv, TypeOK
<1>3. Append(newconf, pos) \in Seq(1..Len(file))
  BY <1>1, <1>2, AppendProperties
<1>4. pc \in {"open", "loop", "ifs"} \cup Terminal
  BY Zenon DEF PInv, TypeOK
<1>5. QED
  BY <1>1, <1>3, <1>4 DEF Copy

LEMMA InitPInv == Init => PInv
<1> SUFFICES ASSUME Init PROVE PInv
  OBVIOUS
<1>1. file \in Seq(LineRec)
  BY ConfParserAssumption DEF Init
<1>2. reg \in [Types -> Seq([Fields \cup {"name", "site", "site_id", "fsuuid"}
                              -> STRING \cup {NoVal, Mangled}])]
  BY DEF Init
<1>3. newconf \in Seq(1..Len(file)) /\ pos \in 1..Len(file) + 1
  BY <1>1 DEF Init
<1>4. TypeOK
  BY <1>1, <1>2, <1>3, Zenon DEF Init, TypeOK
<1>5. QED
  BY <1>4 DEF Init, PInv, Val


-----------------------------------------------------------------------------
\* PInv in four parts: the position and copy, the registry, the scanner's
\* variables, and the resource open.
PosOK ==
  /\ file \in Seq(LineRec)
  /\ pc \in {"open", "loop", "ifs"} \cup Terminal
  /\ pos \in 1..Len(file) + 1
  /\ newconf \in Seq(1..Len(file))
RegOK == reg \in [Types -> Seq(ResRec)]
ScanOK == in_site \in BOOLEAN /\ site_name \in Val /\ site_id \in Val /\ fsuuid \in Val
ResOK ==
  /\ res = NoVal \/ res \in ResRec
  /\ pc = "ifs" => res \in ResRec /\ ifsLine \in LineRec

LEMMA PInvSplit == PInv <=> PosOK /\ RegOK /\ ScanOK /\ ResOK
BY Zenon DEF PInv, TypeOK, PosOK, RegOK, ScanOK, ResOK, ResRec

\* A field, host or registry entry set from a line or the scanner keeps
\* the resource a resource.
LEMMA SetField ==
  ASSUME NEW r \in ResRec, NEW f \in Fields \cup {"name", "site", "site_id", "fsuuid"},
         NEW x \in STRING \cup {NoVal, Mangled}
  PROVE  [r EXCEPT ![f] = x] \in ResRec
BY DEF ResRec

\* SL2Res(name, site_name) is a resource.
LEMMA NewResourceType ==
  ASSUME NEW n \in Val, NEW st \in Val
  PROVE  NewResource(n, st) \in ResRec
BY DEF NewResource, ResRec, Val, Fields

\* The host an ifs directive yields is a host string, absent or mangled.
LEMMA IfsHostType ==
  ASSUME NEW l \in LineRec
  PROVE  IfsHost(l) \in STRING \cup {NoVal, Mangled}
BY DEF IfsHost, LineRec

\* finalize appends a resource to the registry under its type.
LEMMA Finalize ==
  ASSUME RegOK, NEW r \in ResRec, r.type \in Types
  PROVE  [reg EXCEPT ![r.type] = Append(@, r)] \in [Types -> Seq(ResRec)]
BY AppendProperties DEF RegOK


\* The lines that set a scanner variable, or nothing, keep PInv.
LEMMA ScanLines ==
  ASSUME PInv, SiteIdLine \/ SiteLine \/ FsuuidLine \/ OtherLine
  PROVE  PInv'
<1>0. PosOK /\ RegOK /\ ScanOK /\ ResOK
  BY PInvSplit
<1>1. /\ Reading /\ Copy /\ pos' = pos + 1
      /\ UNCHANGED <<file, pc, res, ifsLine, reg>>
  BY Zenon DEF SiteIdLine, SiteLine, FsuuidLine, OtherLine
<1>2. line.v \in Val
  BY <1>1, LineFacts
<1>3. PosOK'
  BY <1>1, ReadStep DEF PosOK
<1>4. ScanOK'
  <2>1. CASE SiteIdLine
    BY <1>0, <1>2, <2>1 DEF SiteIdLine, ScanOK
  <2>2. CASE SiteLine
    BY <1>0, <1>2, <2>2 DEF SiteLine, ScanOK
  <2>3. CASE FsuuidLine
    BY <1>0, <1>2, <2>3 DEF FsuuidLine, ScanOK
  <2>4. CASE OtherLine
    BY <1>0, <2>4 DEF OtherLine, ScanOK
  <2>5. QED
    BY <2>1, <2>2, <2>3, <2>4
<1>5. RegOK' /\ ResOK'
  BY <1>0, <1>1 DEF RegOK, ResOK
<1>6. QED
  BY <1>3, <1>4, <1>5, Zenon DEF PInv, TypeOK, PosOK, RegOK, ScanOK, ResOK, ResRec

\* The lines that fill the open resource keep PInv.
LEMMA ResLines ==
  ASSUME PInv, FieldLine \/ IfsLine \/ NewResLine
  PROVE  PInv'
<1>0. PosOK /\ RegOK /\ ScanOK /\ ResOK
  BY PInvSplit
<1>1. /\ Reading /\ Copy /\ pos' = pos + 1 /\ pc = "loop"
      /\ UNCHANGED <<file, in_site, site_name, site_id, fsuuid, reg>>
  BY Zenon DEF FieldLine, IfsLine, NewResLine, Reading
<1>2. line \in LineRec /\ line.v \in Val
  BY <1>1, LineFacts
<1>3. ScanOK' /\ RegOK'
  BY <1>0, <1>1 DEF ScanOK, RegOK
<1>4. ResOK' /\ pc' \in {"loop", "ifs"}
  <2>1. CASE FieldLine
    <3>1. res \in ResRec /\ FieldOf[Match(line)] \in Fields
      BY <1>0, <2>1 DEF FieldLine, ResOK, FieldOf, FieldKinds, Fields
    <3>2. res' = [res EXCEPT ![FieldOf[Match(line)]] = line.v] /\ pc' = pc
      BY <2>1 DEF FieldLine
    <3>3. line.v \in STRING \cup {NoVal, Mangled}
      BY <1>2 DEF Val
    <3>5. res' \in ResRec
      BY <3>1, <3>2, <3>3, SetField, Zenon
    <3>4. QED
      BY <1>1, <3>2, <3>5 DEF ResOK
  <2>2. CASE IfsLine
    <3>1. res \in ResRec
      BY <1>0, <2>2 DEF IfsLine, ResOK
    <3>2. CASE line.semi
      <4>1. res' = [res EXCEPT !.host = IfsHost(line)] /\ pc' = pc
        BY <2>2, <3>2, Zenon DEF IfsLine
      <4>2. res' \in ResRec
        BY <1>2, <3>1, <4>1, SetField, IfsHostType DEF Fields
      <4>3. QED
        BY <1>1, <4>1, <4>2 DEF ResOK
    <3>3. CASE ~line.semi
      <4>1. pc' = "ifs" /\ ifsLine' = line /\ res' = res
        BY <2>2, <3>3, Zenon DEF IfsLine
      <4>2. QED
        BY <1>2, <3>1, <4>1 DEF ResOK
    <3>4. QED
      BY <3>2, <3>3
  <2>3. CASE NewResLine
    <3>1. res' = NewResource(line.v, site_name) /\ pc' = pc
      BY <2>3 DEF NewResLine
    <3>2. res' \in ResRec
      BY <1>0, <1>2, <3>1, NewResourceType DEF ScanOK
    <3>3. QED
      BY <1>1, <3>1, <3>2 DEF ResOK
  <2>4. QED
    BY <2>1, <2>2, <2>3
<1>5. PosOK'
  <2>1. /\ file' \in Seq(LineRec)
        /\ pos' \in 1..Len(file') + 1
        /\ newconf' \in Seq(1..Len(file'))
    <3>2. /\ file \in Seq(LineRec) /\ pos \in 1..Len(file)
          /\ newconf \in Seq(1..Len(file))
      BY <1>0, <1>1, LineFacts DEF PosOK
    <3>3. Append(newconf, pos) \in Seq(1..Len(file))
      BY <3>2, AppendProperties
    <3>4. QED
      BY <1>1, <3>2, <3>3 DEF Copy
  <2>2. QED
    BY <1>4, <2>1 DEF PosOK
<1>6. QED
  BY <1>3, <1>4, <1>5, Zenon DEF PInv, TypeOK, PosOK, RegOK, ScanOK, ResOK, ResRec


\* "}" with a resource open: finalize appends it, or the parse is rejected.
LEMMA FinResPInv ==
  ASSUME PInv, FinResLine
  PROVE  PInv'
<1>0. PosOK /\ RegOK /\ ScanOK /\ ResOK
  BY PInvSplit
<1>1. /\ Reading /\ Copy /\ pos' = pos + 1 /\ pc = "loop" /\ res # NoVal
      /\ UNCHANGED <<file, in_site, site_name, site_id, fsuuid, ifsLine>>
  BY Zenon DEF FinResLine, Reading
<1> DEFINE r == [res EXCEPT !.site_id = site_id, !.fsuuid = fsuuid]
<1>2. r \in ResRec
  <2>1. res \in ResRec /\ site_id \in STRING \cup {NoVal, Mangled}
        /\ fsuuid \in STRING \cup {NoVal, Mangled}
    BY <1>0, <1>1 DEF ResOK, ScanOK, Val
  <2>2. [res EXCEPT !.site_id = site_id] \in ResRec
    BY <2>1, SetField, Zenon
  <2>3. QED
    BY <2>1, <2>2, SetField, Zenon
<1>3. /\ pc' \in {"loop", "rejected"}
      /\ RegOK' /\ ResOK'
  <2>1. CASE Finalizable(r)
    <3>1. reg' = [reg EXCEPT ![r.type] = Append(@, r)] /\ res' = NoVal /\ pc' = pc
      BY <2>1, Zenon DEF FinResLine
    <3>2. r.type \in Types
      BY <2>1 DEF Finalizable
    <3>3. QED
      BY <1>0, <1>1, <1>2, <3>1, <3>2, Finalize DEF RegOK, ResOK
  <2>2. CASE ~Finalizable(r)
    <3>1. pc' = "rejected" /\ UNCHANGED <<res, reg>>
      BY <2>2, Zenon DEF FinResLine
    <3>2. QED
      BY <1>0, <3>1 DEF RegOK, ResOK
  <2>3. QED
    BY <2>1, <2>2
<1>4. PosOK'
  <2>1. /\ file \in Seq(LineRec) /\ pos \in 1..Len(file)
        /\ newconf \in Seq(1..Len(file))
    BY <1>0, <1>1, LineFacts DEF PosOK
  <2>2. Append(newconf, pos) \in Seq(1..Len(file))
    BY <2>1, AppendProperties
  <2>3. QED
    BY <1>1, <1>3, <2>1, <2>2 DEF Copy, PosOK, Terminal
<1>5. ScanOK'
  BY <1>0, <1>1 DEF ScanOK
<1>6. QED
  BY <1>3, <1>4, <1>5, Zenon DEF PInv, TypeOK, PosOK, RegOK, ScanOK, ResOK, ResRec

\* The inner ifs loop reads on, or stops and sets the host.
LEMMA IfsMorePInv ==
  ASSUME PInv, IfsMore
  PROVE  PInv'
<1>0. PosOK /\ RegOK /\ ScanOK /\ ResOK
  BY PInvSplit
<1>1. /\ pc = "ifs"
      /\ UNCHANGED <<file, in_site, site_name, site_id, fsuuid, ifsLine, reg, newconf>>
  BY Zenon DEF IfsMore
<1>2. res \in ResRec /\ ifsLine \in LineRec
  BY <1>0, <1>1 DEF ResOK
<1>3. file \in Seq(LineRec) /\ pos \in 1..Len(file) + 1 /\ newconf \in Seq(1..Len(file))
  BY <1>0 DEF PosOK
<1>4. CASE pos <= Len(file) /\ ~file[pos].semi
  <2>1. pos' = pos + 1 /\ pc' = pc /\ res' = res
    BY <1>4, Zenon DEF IfsMore
  <2>2. PosOK' /\ ResOK'
    BY <1>1, <1>2, <1>3, <1>4, <2>1 DEF PosOK, ResOK
  <2>3. QED
    BY <1>0, <1>1, <2>2, Zenon DEF PInv, TypeOK, PosOK, RegOK, ScanOK, ResOK, ResRec
<1>5. CASE ~(pos <= Len(file) /\ ~file[pos].semi)
  <2>1. /\ res' = [res EXCEPT !.host = IfsHost(ifsLine)]
        /\ pos' = IF pos <= Len(file) THEN pos + 1 ELSE pos
        /\ pc' = "loop"
    BY <1>5, Zenon DEF IfsMore
  <2>2. res' \in ResRec
    BY <1>2, <2>1, SetField, IfsHostType DEF Fields
  <2>3. PosOK' /\ ResOK'
    BY <1>1, <1>3, <2>1, <2>2 DEF PosOK, ResOK
  <2>4. QED
    BY <1>0, <1>1, <2>3, Zenon DEF PInv, TypeOK, PosOK, RegOK, ScanOK, ResOK, ResRec
<1>6. QED
  BY <1>4, <1>5


\* open and the write of slash.conf only move the control.
LEMMA ControlPInv ==
  ASSUME PInv, Open \/ WriteConf
  PROVE  PInv'
<1>1. /\ pc' \in {"loop", "done", "ioerr"}
      /\ UNCHANGED <<file, pos, in_site, site_name, site_id, fsuuid, res,
                     ifsLine, reg, newconf>>
  BY Zenon DEF Open, WriteConf
<1>2. QED
  BY <1>1, Zenon DEF PInv, TypeOK, Terminal, Val

LEMMA NextPInv == PInv /\ [Next]_vars => PInv'
<1> SUFFICES ASSUME PInv, [Next]_vars PROVE PInv'
  OBVIOUS
<1>1. CASE Open \/ WriteConf
  BY <1>1, ControlPInv
<1>2. CASE SiteIdLine \/ SiteLine \/ FsuuidLine \/ OtherLine
  BY <1>2, ScanLines
<1>3. CASE FieldLine \/ IfsLine \/ NewResLine
  BY <1>3, ResLines
<1>4. CASE FinResLine
  BY <1>4, FinResPInv
<1>5. CASE IfsMore
  BY <1>5, IfsMorePInv
<1>6. CASE Finished \/ UNCHANGED vars
  <2>1. UNCHANGED vars
    BY <1>6 DEF Finished
  <2>2. QED
    BY <2>1, Zenon DEF vars, PInv, TypeOK, Val
<1>7. QED
  BY <1>1, <1>2, <1>3, <1>4, <1>5, <1>6 DEF Next

-----------------------------------------------------------------------------
\* TypeOK of parse_slash2_conf, for every topology file: readline never
\* runs past the end of the file, new_conf holds only lines of the file,
\* and sl2objects holds, under each resource type, resources whose fields
\* are strings read from the file, None, or a host string the ifs
\* recognizer mangled.
THEOREM ParserTypeCorrect == Spec => []TypeOK
<1>1. Init => PInv
  BY InitPInv
<1>2. PInv /\ [Next]_vars => PInv'
  BY NextPInv
<1>3. PInv => TypeOK
  BY DEF PInv
<1>4. QED
  BY <1>1, <1>2, <1>3, PTL DEF Spec

=============================================================================
