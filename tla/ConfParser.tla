----------------------------- MODULE ConfParser -----------------------------
(***************************************************************************)
(* TSuite.parse_slash2_conf (tsuite.py): the line-by-line scan of the      *)
(* slash2 topology file into the registry sl2objects, and the copy of     *)
(* every line into the run's slash.conf.                                  *)
(*                                                                         *)
(* A line is abstracted to the recognizer it is written for and the       *)
(* values the recognizer captures: its kind k, its value v (a site,       *)
(* resource or host name, a number, a path), whether a numeric value is   *)
(* written in hexadecimal, and, for the lines an ifs directive may span,  *)
(* whether a comma follows the first host and whether the line holds a    *)
(* ";".  Which regex of the code matches a line is computed from that.    *)
(***************************************************************************)
EXTENDS Naturals, Sequences

CONSTANTS
  Files,    \* the topology files the run may be given
  NoVal,    \* a field, site, site_id or fsuuid not set (None, or -1)
  Mangled   \* a host string that is not a host name

\* Kinds of line: one per recognizer of the code, "cont" for a line that
\* only continues an ifs host list, "other" for anything else.
Kinds == {"site", "site_id", "fsuuid", "new_res", "type", "id", "zpool",
          "prefmds", "fsroot", "ifs", "fin_res", "cont", "other"}

\* The recognizers that set a field of the open resource, and the field.
FieldOf == [type |-> "type", id |-> "id", zpool |-> "zpool_name",
            prefmds |-> "prefmds", fsroot |-> "fsroot"]
FieldKinds == DOMAIN FieldOf
Fields == {"type", "id", "zpool_name", "prefmds", "fsroot", "host"}

\* The reg dict of parse_slash2_conf: the recognizer that matches a line,
\* or "none".  The id regex takes (\d+) only; site_id and fsuuid also take
\* 0x-prefixed hexadecimal.  A continuation line matches nothing.
Match(l) ==
  IF l.k \in {"cont", "other"} \/ (l.k = "id" /\ l.hex) THEN "none" ELSE l.k

(***************************************************************************)
(* The host of an ifs directive (lines 370-378).  tmp starts as the       *)
(* text after "=" of the ifs line; when that line has no ";", the inner   *)
(* loop appends the whole ifs line again and every following line up to, *)
(* not including, the one holding ";".  The host is the text before the  *)
(* first comma.  It is the first host of the ifs line exactly when that  *)
(* line ends the directive or a comma follows the first host on it.       *)
(***************************************************************************)
IfsHost(l) ==
  IF l.semi \/ (l.comma /\ l.v # NoVal) THEN l.v ELSE Mangled

VARIABLES
  file,      \* the lines of the topology file
  pc,        \* "open", "loop", "ifs", then "done", "rejected" or "ioerr"
  pos,       \* index of the line readline() returns next
  in_site,   \* in_site
  site_name, \* site_name
  site_id,   \* site_id
  fsuuid,    \* fsuuid
  res,       \* the SL2Res being filled, or NoVal
  ifsLine,   \* the ifs line whose host list the inner loop is reading
  reg,       \* sl2objects: resource type -> list of finalized resources
  newconf    \* indices of the lines copied into new_conf

vars == <<file, pc, pos, in_site, site_name, site_id, fsuuid, res, ifsLine,
          reg, newconf>>

Types == {"mds", "ion"}
Terminal == {"done", "rejected", "ioerr"}

\* SL2Res(name, site_name) (module sl2, not in this repository).
NewResource(name, site) ==
  [name |-> name, site |-> site, site_id |-> NoVal, fsuuid |-> NoVal,
   type |-> NoVal, id |-> NoVal, zpool_name |-> NoVal, prefmds |-> NoVal,
   fsroot |-> NoVal, host |-> NoVal]

\* SL2Res.finalize (module sl2): the required fields of the resource's type
\* are set, and the resource is appended to the registry under its type.
Required(r) ==
  {"type", "id", "host"} \cup
    (IF r.type = "mds" THEN {"zpool_name"} ELSE {"fsroot"})
Finalizable(r) == r.type \in Types /\ \A f \in Required(r) : r[f] # NoVal

Init ==
  /\ file \in Files
  /\ pc = "open"
  /\ pos = 1
  /\ in_site = FALSE
  /\ site_name = NoVal
  /\ site_id = NoVal
  /\ fsuuid = NoVal
  /\ res = NoVal
  /\ ifsLine = NoVal
  /\ reg = [t \in Types |-> <<>>]
  /\ newconf = <<>>

\* open(self.conf["slash2"]["conf"]) succeeds or raises IOError.
Open ==
  /\ pc = "open"
  /\ \E ok \in BOOLEAN : pc' = IF ok THEN "loop" ELSE "ioerr"
  /\ UNCHANGED <<file, pos, in_site, site_name, site_id, fsuuid, res,
                 ifsLine, reg, newconf>>

line == file[pos]
Reading == pc = "loop" /\ pos <= Len(file)

\* Mutant: the copy records the line after the one read.
CopyNextLine == newconf' = Append(newconf, pos + 1)

\* Every line read by the outer loop is copied to new_conf before matching.
Copy == newconf' = Append(newconf, pos)

(***************************************************************************)
(* One action per branch of the dispatch at lines 341-396.  Each copies   *)
(* the line, and all but the multi-line ifs move to the next line.        *)
(***************************************************************************)
\* In a site, site_id is taken first, whether or not a resource is open.
SiteIdLine ==
  /\ Reading /\ in_site /\ Match(line) = "site_id"
  /\ site_id' = line.v
  /\ Copy /\ pos' = pos + 1
  /\ UNCHANGED <<file, pc, in_site, site_name, fsuuid, res, ifsLine, reg>>

\* type, id, zpool, prefmds, fsroot of the open resource.
FieldLine ==
  /\ Reading /\ in_site /\ res # NoVal /\ Match(line) \in FieldKinds
  /\ res' = [res EXCEPT ![FieldOf[Match(line)]] = line.v]
  /\ Copy /\ pos' = pos + 1
  /\ UNCHANGED <<file, pc, in_site, site_name, site_id, fsuuid, ifsLine, reg>>

\* An ifs line ending with ";" gives the host at once; otherwise the inner
\* loop reads on.
IfsLine ==
  /\ Reading /\ in_site /\ res # NoVal /\ Match(line) = "ifs"
  /\ IF line.semi
       THEN /\ res' = [res EXCEPT !.host = IfsHost(line)]
            /\ UNCHANGED <<pc, ifsLine>>
       ELSE /\ pc' = "ifs" /\ ifsLine' = line
            /\ UNCHANGED res
  /\ Copy /\ pos' = pos + 1
  /\ UNCHANGED <<file, in_site, site_name, site_id, fsuuid, reg>>

\* One iteration of the inner loop of lines 374-376, or its exit: at end of
\* file, or at the line holding ";", which the readline of line 398 then
\* skips.  None of these lines is copied or matched.
IfsMore ==
  /\ pc = "ifs"
  /\ IF pos <= Len(file) /\ ~file[pos].semi
       THEN /\ pos' = pos + 1 /\ UNCHANGED <<pc, res>>
       ELSE /\ res' = [res EXCEPT !.host = IfsHost(ifsLine)]
            /\ pos' = IF pos <= Len(file) THEN pos + 1 ELSE pos
            /\ pc' = "loop"
  /\ UNCHANGED <<file, in_site, site_name, site_id, fsuuid, ifsLine, reg,
                 newconf>>

\* Mutant: res is not reset to None after a finalize.
FinResLineKeep ==
  /\ Reading /\ in_site /\ res # NoVal /\ Match(line) = "fin_res"
  /\ LET r == [res EXCEPT !.site_id = site_id, !.fsuuid = fsuuid]
     IN IF Finalizable(r)
          THEN /\ reg' = [reg EXCEPT ![r.type] = Append(@, r)]
               /\ UNCHANGED <<pc, res>>
          ELSE /\ pc' = "rejected" /\ UNCHANGED <<res, reg>>
  /\ Copy /\ pos' = pos + 1
  /\ UNCHANGED <<file, in_site, site_name, site_id, fsuuid, ifsLine>>

\* "}" with a resource open: stamp site_id and fsuuid, finalize or exit.
FinResLine ==
  /\ Reading /\ in_site /\ res # NoVal /\ Match(line) = "fin_res"
  /\ LET r == [res EXCEPT !.site_id = site_id, !.fsuuid = fsuuid]
     IN IF Finalizable(r)
          THEN /\ reg' = [reg EXCEPT ![r.type] = Append(@, r)]
               /\ res' = NoVal
               /\ UNCHANGED pc
          ELSE /\ pc' = "rejected" /\ UNCHANGED <<res, reg>>
  /\ Copy /\ pos' = pos + 1
  /\ UNCHANGED <<file, in_site, site_name, site_id, fsuuid, ifsLine>>

NewResLine ==
  /\ Reading /\ in_site /\ res = NoVal /\ Match(line) = "new_res"
  /\ res' = NewResource(line.v, site_name)
  /\ Copy /\ pos' = pos + 1
  /\ UNCHANGED <<file, pc, in_site, site_name, site_id, fsuuid, ifsLine, reg>>

\* Outside a site: site @name enters it (and nothing ever leaves it) ...
SiteLine ==
  /\ Reading /\ ~in_site /\ Match(line) = "site"
  /\ site_name' = line.v /\ in_site' = TRUE
  /\ Copy /\ pos' = pos + 1
  /\ UNCHANGED <<file, pc, site_id, fsuuid, res, ifsLine, reg>>

\* ... and set fsuuid sets the fsuuid.
FsuuidLine ==
  /\ Reading /\ ~in_site /\ Match(line) = "fsuuid"
  /\ fsuuid' = line.v
  /\ Copy /\ pos' = pos + 1
  /\ UNCHANGED <<file, pc, in_site, site_name, site_id, res, ifsLine, reg>>

\* The branches above, as a predicate of the line in the current mode.
Handled(l) ==
  \/ in_site /\ Match(l) = "site_id"
  \/ in_site /\ res # NoVal /\ Match(l) \in FieldKinds \cup {"ifs", "fin_res"}
  \/ in_site /\ res = NoVal /\ Match(l) = "new_res"
  \/ ~in_site /\ Match(l) \in {"site", "fsuuid"}

\* Any other line is copied and otherwise ignored.
OtherLine ==
  /\ Reading /\ ~Handled(line)
  /\ Copy /\ pos' = pos + 1
  /\ UNCHANGED <<file, pc, in_site, site_name, site_id, fsuuid, res, ifsLine, reg>>

\* End of file: slash.conf is written, or IOError makes the parse fail.
WriteConf ==
  /\ pc = "loop" /\ pos > Len(file)
  /\ \E ok \in BOOLEAN : pc' = IF ok THEN "done" ELSE "ioerr"
  /\ UNCHANGED <<file, pos, in_site, site_name, site_id, fsuuid, res, ifsLine,
                 reg, newconf>>

Finished == pc \in Terminal /\ UNCHANGED vars

Next ==
  \/ Open \/ SiteIdLine \/ FieldLine \/ IfsLine \/ IfsMore \/ FinResLine
  \/ NewResLine \/ SiteLine \/ FsuuidLine \/ OtherLine \/ WriteConf \/ Finished

Spec == Init /\ [][Next]_vars

-----------------------------------------------------------------------------
(***************************************************************************)
(* The parser of the design (section 4.2 and 6), as a reference: an       *)
(* explicit state machine over outside-site, in-site, in-resource and     *)
(* in-ifs, folded over the file.  Resource and "}" outside a site, a site *)
(* inside a site and end of file inside a block are fatal; numeric fields *)
(* take decimal or hexadecimal; an ifs directive spans lines up to the    *)
(* one holding ";" and its host is the first host token of the directive. *)
(***************************************************************************)
RefInit ==
  [mode |-> "out", site |-> NoVal, siteId |-> NoVal, fsuuid |-> NoVal,
   res |-> NoVal, reg |-> [t \in Types |-> <<>>], ok |-> TRUE]

RefSetHost(s, h) ==
  IF s.res.host = NoVal THEN [s EXCEPT !.res.host = h] ELSE s

RefStep(s, l) ==
  IF ~s.ok THEN s
  ELSE CASE s.mode = "out" ->
              CASE l.k = "site" -> [s EXCEPT !.mode = "site", !.site = l.v, !.siteId = NoVal]
                [] l.k = "fsuuid" -> [s EXCEPT !.fsuuid = l.v]
                [] l.k \in {"new_res", "fin_res"} -> [s EXCEPT !.ok = FALSE]
                [] OTHER -> s
         [] s.mode = "site" ->
              CASE l.k = "site_id" -> [s EXCEPT !.siteId = l.v]
                [] l.k = "new_res" -> [s EXCEPT !.mode = "res", !.res = NewResource(l.v, s.site)]
                [] l.k = "fin_res" -> [s EXCEPT !.mode = "out"]
                [] l.k = "site" -> [s EXCEPT !.ok = FALSE]
                [] OTHER -> s
         [] s.mode = "res" ->
              CASE l.k \in FieldKinds -> [s EXCEPT !.res[FieldOf[l.k]] = l.v]
                [] l.k = "site_id" -> [s EXCEPT !.siteId = l.v]
                [] l.k = "ifs" ->
                     LET t == [s EXCEPT !.res.host = l.v]
                     IN IF l.semi THEN t ELSE [t EXCEPT !.mode = "ifs"]
                [] l.k = "fin_res" ->
                     LET r == [s.res EXCEPT !.site_id = s.siteId, !.fsuuid = s.fsuuid]
                     IN IF Finalizable(r)
                          THEN [s EXCEPT !.mode = "site", !.res = NoVal,
                                         !.reg[r.type] = Append(@, r)]
                          ELSE [s EXCEPT !.ok = FALSE]
                [] l.k \in {"new_res", "site"} -> [s EXCEPT !.ok = FALSE]
                [] OTHER -> s
         [] s.mode = "ifs" ->
              LET t == RefSetHost(s, IF l.k = "cont" THEN l.v ELSE Mangled)
              IN IF l.semi THEN [t EXCEPT !.mode = "res"] ELSE t

\* The reference's state after the whole file.
RefRun(f) ==
  LET st[i \in 0..Len(f)] == IF i = 0 THEN RefInit ELSE RefStep(st[i - 1], f[i])
  IN st[Len(f)]

RefAccepts(f) == RefRun(f).ok /\ RefRun(f).mode = "out"

-----------------------------------------------------------------------------
(***************************************************************************)
(* Properties.                                                            *)
(***************************************************************************)
LineRec == [k : Kinds, v : STRING \cup {NoVal}, hex : BOOLEAN, comma : BOOLEAN,
            semi : BOOLEAN]

\* A topology file is a sequence of lines, each with a kind and a value
\* that is a string or absent.
ASSUME ConfParserAssumption == Files \subseteq Seq(LineRec)

TypeOK ==
  /\ file \in Seq(LineRec)
  /\ pc \in {"open", "loop", "ifs"} \cup Terminal
  /\ pos \in 1..Len(file) + 1
  /\ in_site \in BOOLEAN
  /\ reg \in [Types -> Seq([Fields \cup {"name", "site", "site_id", "fsuuid"}
                            -> STRING \cup {NoVal, Mangled}])]
  /\ newconf \in Seq(1..Len(file))

\* parse_slash2_conf agrees with the parser of the design: a parse that
\* returns True accepts a file the design accepts and yields the same
\* registry, resource for resource and field for field; a parse that exits
\* on a failed finalize rejects a file the design rejects.
ParseAgrees ==
  /\ pc = "done" => RefAccepts(file) /\ reg = RefRun(file).reg
  /\ pc = "rejected" => ~RefAccepts(file)

\* Every line of the topology file is copied, in order, into the run's
\* slash.conf that a successful parse writes.
ConfCopied == pc = "done" => newconf = [i \in 1..Len(file) |-> i]
=============================================================================
