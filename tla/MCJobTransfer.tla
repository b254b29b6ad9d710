--------------------------- MODULE MCJobTransfer ----------------------------
(* Jobs and file systems for TLC.  PathCases vary where a small job comes  *)
(* from and goes to, LayoutCases how the files of a job lie in its blocks. *)
EXTENDS JobTransfer

(* The fetching process runs in /w                                         *)
MCCwd == <<"/", "w">>

(* File systems: the root and /w, with a node in it, with one in that      *)
Root == (<<>> :> Dir("rw")) @@ (<<"w">> :> Dir("rw"))
At(name, node) == (<<"w", name>> :> node) @@ Root
In(dir, name, node) == (<<"w", dir, name>> :> node) @@ At(dir, Dir("rw"))

(* A file of a job: its size is -1 for a directory and -2 for a link       *)
Entry(name, size, mode, to) ==
  [name |-> name, size |-> size, mode |-> mode, to |-> to]

(* A directory d with a file and a link to it, as the source at uri has it *)
Tree(uri) ==
  << Entry(uri, -1, "ro", <<>>),
     Entry(uri \o <<"/", "x">>, 1, "ro", <<>>),
     Entry(uri \o <<"/", "y">>, -2, "rw", <<"x">>) >>

(* A job of a single file                                                  *)
One(uri, size) == << Entry(uri, size, "rw", <<>>) >>

(* hashed: the source is to hash the blocks, else it has and is right      *)
Case(jobfiles, uri, path, fsys, hashed) ==
  [files |-> jobfiles, uri |-> uri, path |-> path, fs |-> fsys,
   hashed |-> hashed]

(* What is in the way: nothing, directories, files, links, a directory     *)
(* that cannot be written to                                               *)
Old(n) == File([o \in 1 .. n |-> <<>>], "rw")

Systems ==
  { Root, At("o", Dir("rw")), At("o", Old(2)), At("o", Link(<<"/", "w">>)),
    At("o", Link(<<"/", "n">>)), In("o", "d", Old(0)), In("o", "x", Dir("ro")) }

(* With and without slashes, in the root, in what may be no directory      *)
Destinations ==
  { <<"o">>, <<"/", "w", "/", "o", "/", "/">>, <<"/", "n">>,
    <<"o", "/", "p">> }

(* A directory, a file and a link, fetched to each                         *)
PathCases ==
  { Case(Tree(<<"/", "r", "/", "d">>), <<"/", "r", "/", "d", "/">>, path, fsys, TRUE) :
      path \in Destinations, fsys \in Systems }
  \cup { Case(One(uri, 1), uri, path, fsys, TRUE) :
           uri \in { <<"d">>, <<"/", "d">> }, path \in Destinations,
           fsys \in Systems }
  \cup { Case(<< Entry(<<"/", "d">>, -2, "rw", <<"z">>) >>,
              <<"/", "d">>, <<"o">>, fsys, TRUE) : fsys \in Systems }

(* The job is there already, but its link leads elsewhere and is in a      *)
(* directory that cannot be written to.                                    *)
Stale ==
  (<<"w", "o", "d">> :> Dir("ro")) @@ (<<"w", "o", "d", "x">> :> Old(1))
  @@ (<<"w", "o", "d", "y">> :> Link(<<"/", "n">>)) @@ At("o", Dir("rw"))

StaleCases ==
  { Case(Tree(<<"/", "r", "/", "d">>), <<"/", "r", "/", "d">>, <<"o">>, Stale,
         TRUE) }

(* Files whose sizes are given, in a directory d                           *)
Sized(sizes) ==
  << Entry(<<"d">>, -1, "rw", <<>>) >>
  \o [i \in DOMAIN sizes |-> Entry(<<"d", "/", ToString(i)>>, sizes[i], "rw", <<>>)]

LayoutCase(sizes, hashed) ==
  Case(Sized(sizes), <<"d">>, <<"o">>, At("o", Dir("rw")), hashed)

(* Files that end in the midst of a block, with it and after it, an empty  *)
(* file, a last block that is smaller; and one whose hashing never ends    *)
MCLayouts ==
  { LayoutCase(<<3, 0, 1>>, FALSE), LayoutCase(<<1, 1, 1>>, FALSE),
    LayoutCase(<<3, 0, 1>>, TRUE) }

DigestCases == { LayoutCase(<<1, 1, 3>>, TRUE) }

MCCases == PathCases \cup StaleCases \cup MCLayouts
=============================================================================
