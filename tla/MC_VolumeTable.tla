--------------------------- MODULE MC_VolumeTable ---------------------------
(***************************************************************************)
(* Model of the recovery fstab for VolumeTable: the ramdisk at /tmp and    *)
(* mount points /a, /a/b and /b.  Every fstab of up to three lines drawn   *)
(* from the line kinds below is loaded, so tables with nested mount points *)
(* in both orders, duplicates, second devices, fstype2= swaps, malformed   *)
(* lines and comments all occur.                                           *)
(***************************************************************************)
EXTENDS VolumeTable

MCFsTypes == {"ext4", "f2fs", "vfat"}

MCTmpPath == <<"tmp">>

MCPaths == {<<"tmp">>, <<"a">>, <<"b">>, <<"a", "b">>, <<"b", "a">>, <<"tmp", "a">>}

Entry(mp, fs, n, slash, opts) ==
  [lead |-> "text", ntok |-> n, mp |-> mp, fs |-> fs, slash4 |-> slash, opts |-> opts]

MCLines ==
  { [lead |-> "comment", ntok |-> 0, mp |-> <<>>, fs |-> "ext4", slash4 |-> FALSE, opts |-> <<>>],
    Entry(<<"a">>, "ext4", 3, FALSE, <<>>),
    Entry(<<"a", "b">>, "vfat", 4, TRUE, <<>>),
    Entry(<<"b">>, "ext4", 4, FALSE, <<[key |-> "fstype2", val |-> "f2fs"]>>),
    Entry(<<"b">>, "vfat", 5, TRUE, <<[key |-> "lun", val |-> "x"], [key |-> "bad", val |-> "x"]>>),
    Entry(<<"a">>, "vfat", 2, FALSE, <<>>) }

MCFstabFiles == UNION { [1..n -> MCLines] : n \in 1..3 }
=============================================================================
