------------------------------ MODULE TomlFile ------------------------------
(***************************************************************************)
(* save_to and load_from of Config, KnownHosts and CacheStore: fs::write   *)
(* creates or truncates one fixed temporary name beside the file and then  *)
(* writes it, fs::rename moves it over the file.  Names point at inodes,   *)
(* so a process goes on writing the inode it opened wherever that moved.   *)
(*                                                                         *)
(* Every field of the three structures has a serde default: an empty file  *)
(* reads like a missing one.                                               *)
(***************************************************************************)
CONSTANTS
  Inodes,    \* inodes of the directory, as many as are ever in use at once
  Contents,  \* what a file may say
  Default,   \* what an empty or missing file says
  None       \* no inode

File == [path : Inodes \cup {None}, tmp : Inodes \cup {None}, data : [Inodes -> Contents]]

NoFile == [path |-> None, tmp |-> None, data |-> [i \in Inodes |-> Default]]

Read(file) == IF file.path = None THEN Default ELSE file.data[file.path]

\* The inode open(O_CREAT | O_TRUNC) gives: the one of the temporary name if it
\* exists, else a free one.
Opens(file, held, i) ==
  IF file.tmp # None THEN i = file.tmp ELSE i \notin held \cup {file.path}

Opened(file, i) ==
  [path |-> file.path, tmp |-> i, data |-> [file.data EXCEPT ![i] = Default]]

Written(file, i, value) == [file EXCEPT !.data[i] = value]

CanRename(file) == file.tmp # None

\* The inode that was replaced has no name any more, and nothing reads it.
Renamed(file) ==
  [path |-> file.tmp, tmp |-> None,
   data |-> [i \in Inodes |-> IF i = file.path THEN Default ELSE file.data[i]]]

=============================================================================
