------------------------------- MODULE MC_Wipes -------------------------------
(* A datamedia device: an f2fs /system whose table type ext4 became       *)
(* fs_type2 with a second device, ext4 /data, the /sdcard alias as the     *)
(* primary storage, yaffs2 /cache, no /sd-ext.                              *)
EXTENDS Wipes

MCVols == {"system", "data", "sdcard", "cache"}

MCFstab ==
  [v \in MCVols |->
     CASE v = "sdcard" -> [fs_type |-> "datamedia", fs_type2 |-> NULL, dev2 |-> FALSE]
       [] v = "cache"  -> [fs_type |-> "yaffs2", fs_type2 |-> NULL, dev2 |-> FALSE]
       [] v = "system" -> [fs_type |-> "f2fs", fs_type2 |-> "ext4", dev2 |-> TRUE]
       [] OTHER        -> [fs_type |-> "ext4", fs_type2 |-> NULL, dev2 |-> FALSE]]

MCDiskInit ==
  [v \in MCVols |-> CASE v = "sdcard" -> {"none"} [] v = "cache" -> {"yaffs2"}
                      [] v = "system" -> {"f2fs", "ext4"} [] OTHER -> {"ext4"}]

MCMenuProcs == {"wipe_data", "wipe_preflash", "wipe_cache", "wipe_dalvik"}
MCProcs == MCMenuProcs \cup {"cmd_wipe_data"}
=============================================================================
