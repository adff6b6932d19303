---------------------------- MODULE StorageFiles ----------------------------
(* The files below the Application Support root that a start (Bootstrap) and *)
(* a complete deletion (DeleteData) share, as far as they decide on them:    *)
(* whether a file exists, who made it, and how much of it is written.  The   *)
(* pair stands for what the code compares of lstat (dev, ino, size, mode).   *)
EXTENDS Naturals

CONSTANTS
  Starts,   \* runs of the bootstrap helper, one per start of the application
  User,     \* the maker of every file that existed before the behaviour
  Last,     \* number of files a deletion can meet
  Marker    \* settings/.database-initialized, by its place in that order

\* The deletion takes the live directory first, then backups, then settings.
Files == 1 .. Last
Db == 1

ASSUME FilesAssumption == /\ Last \in Nat
                          /\ Marker \in 2 .. Last
                          /\ User \notin Starts

VARIABLES
  home,     \* every file at its own path
  staged    \* the same file below the deletion's staging directory

files == <<home, staged>>

Makers == Starts \union {User}
File == [by : Makers, is : {"absent", "empty", "partial", "complete"}]
Absent == [by |-> User, is |-> "absent"]
UserFile == [by |-> User, is |-> "complete"]
Made(s, how) == [by |-> s, is |-> how]

Exists(file) == file.is # "absent"

FilesType == /\ home \in [Files -> File]
             /\ staged \in [Files -> File]

\* A write through an open descriptor reaches the file wherever it was renamed.
WriteThrough(f, s, how) ==
  /\ home' = IF home[f].by = s THEN [home EXCEPT ![f] = Made(s, how)] ELSE home
  /\ staged' = IF staged[f].by = s THEN [staged EXCEPT ![f] = Made(s, how)] ELSE staged
=============================================================================
