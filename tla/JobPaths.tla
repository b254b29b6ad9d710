------------------------------ MODULE JobPaths ------------------------------
(***************************************************************************)
(* path.cpp: where the files of a job are put.  A path is a sequence of    *)
(* names and slashes, paths are shorter than MAX_PATH_LEN and hold neither *)
(* "." nor "..".  A file system is a function from the names that lead to  *)
(* a node from the root; there is one symbolic link on the way to a node   *)
(* at most, and it does not lead to another link.                          *)
(***************************************************************************)
EXTENDS Integers, Sequences, SequencesExt, FiniteSetsExt

CONSTANT Cwd     (* what getcwd returns *)

ASSUME CwdAssumption == Cwd # <<>> /\ Head(Cwd) = "/"

Node(kind, data, to, mode) ==
  [kind |-> kind, data |-> data, to |-> to, mode |-> mode]

Dir(mode) == Node("dir", <<>>, <<>>, mode)
Link(to) == Node("link", <<>>, to, "rw")
File(data, mode) == Node("file", data, <<>>, mode)

-----------------------------------------------------------------------------
(* Wrong on purpose: a definition below with a bug that could be made in   *)
(* its code, which must break a property.                                  *)

(* change_to_local_path that takes the given path with its slashes         *)
RequestedAsGiven(uri) == uri

-----------------------------------------------------------------------------
(* No slash at the end, but for the first character                        *)
inplace_strip_tailing_slash(p) ==
  LET last == Max({0} \cup {k \in DOMAIN p : k = 1 \/ p[k] # "/"})
  IN SubSeq(p, 1, last)

inplace_add_tailing_slash(p) == inplace_strip_tailing_slash(p) \o <<"/">>

(* How much of p comes before its base name.  The loop ends before the     *)
(* first character: a slash there is not seen.                             *)
get_base_name_index(p) == Max({0} \cup {k \in 2 .. Len(p) : p[k] = "/"})

merge_path(dir, base) == inplace_strip_tailing_slash(dir) \o <<"/">> \o base

Requested(uri) == inplace_strip_tailing_slash(uri)

(* A path of the remote host in its place under local                      *)
change_to_local_path(path, uri, local, exist) ==
  LET d == IF exist THEN get_base_name_index(Requested(uri))
           ELSE Len(Requested(uri)) + 1
  IN inplace_strip_tailing_slash(
       merge_path(local, SubSeq(path, d + 1, Len(path))))

cwd_path_to_abs_path(p) ==
  IF Head(p) = "/" THEN p ELSE inplace_add_tailing_slash(Cwd) \o p

(* Where a symbolic link leads, from what readlink says of it              *)
symlink_dest_to_abs_path(link, dest) ==
  IF Head(dest) = "/" THEN dest
  ELSE LET abs == cwd_path_to_abs_path(link)
       IN SubSeq(abs, 1, get_base_name_index(abs)) \o dest

-----------------------------------------------------------------------------
(* The kernel's view of a path                                             *)
Names(p) ==
  SelectSeq(IF p # <<>> /\ Head(p) = "/" THEN p ELSE Cwd \o p,
            LAMBDA x : x # "/")

(* The node a path names, a link on the way followed                       *)
Real(fs, p) ==
  LET ns == Names(p)
      links == {k \in 1 .. Len(ns) - 1 :
                  /\ SubSeq(ns, 1, k) \in DOMAIN fs
                  /\ fs[SubSeq(ns, 1, k)].kind = "link"}
  IN IF links = {} THEN ns
     ELSE LET k == CHOOSE k \in links : TRUE
          IN Names(fs[SubSeq(ns, 1, k)].to) \o SubSeq(ns, k + 1, Len(ns))

(* The same with a link at its end followed                                *)
Target(fs, p) ==
  LET q == Real(fs, p)
  IN IF q \in DOMAIN fs /\ fs[q].kind = "link" THEN Names(fs[q].to) ELSE q

ParentIs(fs, q, kind) ==
  q # <<>> /\ Front(q) \in DOMAIN fs /\ fs[Front(q)].kind = kind

-----------------------------------------------------------------------------
KindFlags(kind) ==
  CASE kind = "file" -> {"FILE"} [] kind = "dir" -> {"DIR"} [] OTHER -> {}

(* The flags of path_type; that of GKO_ERR matches no test                 *)
path_type(fs, p) ==
  LET q == Real(fs, inplace_strip_tailing_slash(p))
      to == Target(fs, inplace_strip_tailing_slash(p))
  IN IF p = <<>> THEN {"NONE"}
     ELSE IF q \notin DOMAIN fs
          THEN IF ParentIs(fs, q, "file") THEN {"ERR"} ELSE {"NONE"}
     ELSE IF fs[q].kind # "link" THEN KindFlags(fs[q].kind)
     ELSE {"LINK"} \cup
          (IF to \in DOMAIN fs THEN KindFlags(fs[to].kind) ELSE {"NONE"})

(* Wrong on purpose: gen_snap_fpath that only cuts the name of a file      *)
SnapDirOfFile(fs, p) ==
  IF "FILE" \in path_type(fs, p) THEN SubSeq(p, 1, get_base_name_index(p)) ELSE p

(* The directory of the snapshot: the destination, or what it is in        *)
SnapDir(fs, p) ==
  IF "DIR" \in path_type(fs, p) THEN p
  ELSE SubSeq(p, 1, get_base_name_index(p))

gen_snap_fpath(fs, local) ==
  SnapDir(fs, cwd_path_to_abs_path(inplace_strip_tailing_slash(local)))
  \o <<"/", "._gk_snapshot_">>

(* The local names of a job's files, or nothing where the job is refused   *)
Refused == <<>>

process_path(fs, files, uri, path) ==
  LET out == inplace_strip_tailing_slash(path)
      type == path_type(fs, out)
      single == Len(files) = 1 /\ files[1].size >= 0
      abs == cwd_path_to_abs_path(out)
      base == SubSeq(abs, 1, get_base_name_index(abs))
      Under(exist) ==
        [i \in DOMAIN files |->
           change_to_local_path(files[i].name, uri, out, exist)]
  IN CASE "NONE" \in type ->
            IF \/ "LINK" \in type
               \/ single /\ Last(path) = "/"
               \/ "DIR" \notin path_type(fs, base)
            THEN Refused ELSE Under(FALSE)
       [] "FILE" \in type -> IF single THEN <<out>> ELSE Refused
       [] "DIR" \in type -> Under(TRUE)
       [] OTHER -> Refused
=============================================================================
