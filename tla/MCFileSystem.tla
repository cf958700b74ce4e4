---------------------------- MODULE MCFileSystem ----------------------------
(***************************************************************************)
(* FileSystem with names of two and one characters, directories of two     *)
(* blocks of two entries, two devices and two mount points.                *)
(***************************************************************************)
EXTENDS FileSystem, TLC

CONSTANTS fd0, fd1, m1, m2

MCDevice == {fd0, fd1}
MCMount == {m1, m2}
MCPath == {<<>>, <<"a">>, <<"a", "b", ".", "c">>, <<"a", "b", "c">>, <<"c">>}

(* A file, a directory whose name begins like the file's, a volume label   *)
(* with the file's name, the end of the directory.                         *)
File == [name |-> <<"a", " ", " ">>, kind |-> "file"]
Dir == [name |-> <<"a", "b", "c">>, kind |-> "dir"]
Label == [name |-> <<"a", " ", " ">>, kind |-> "label"]
Deleted == [name |-> <<"~", "b", "c">>, kind |-> "deleted"]
End == [name |-> <<>>, kind |-> "end"]

Bpb(rsrvd, fats) ==
  [hidden_sectors |-> 0, rsrvd_cnt |-> rsrvd, num_fats |-> fats, sectors_per_fat |-> 2,
   max_root_dir_entries |-> 4, bytes_per_sector |-> 64]

Blocks == [0..1 -> {File, Dir, Label, End}]
Second == [bpb |-> Bpb(2, 1), dir |-> <<0 :> Deleted @@ 1 :> Label, 0 :> Dir @@ 1 :> File>>]

(* Directories of every form in fd0, a full one in fd1. *)
MCDisks ==
  {[d \in MCDevice |-> IF d = fd1 THEN Second
                       ELSE [bpb |-> Bpb(1, 2), dir |-> <<b, c>>]] :
     b \in Blocks, c \in [0..1 -> {File, End}]}
=============================================================================
