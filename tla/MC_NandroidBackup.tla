-------------------------- MODULE MC_NandroidBackup --------------------------
(* An instance of nandroid_backup for TLC.                                  *)
EXTENDS NandroidBackup

Step(n, c, f, u, a, d, o) ==
  [name |-> n, class |-> c, fs |-> f, umount |-> u, alias |-> a, data |-> d,
   cond |-> o]

(* A datamedia device: boot is an emmc raw dump; system and data are ext4  *)
(* and unmounted after their backup; /sdcard/.android_secure exists or not *)
(* and its mount point is a symlink into /data/media, so it has no entry   *)
(* in the mount table; cache is yaffs2 and stays mounted (umount 0).       *)
MCSteps ==
  << Step("boot", "raw", "emmc", FALSE, FALSE, FALSE, FALSE),
     Step("system", "fs", "ext4", TRUE, FALSE, FALSE, FALSE),
     Step("data", "fs", "ext4", TRUE, FALSE, TRUE, FALSE),
     Step(".android_secure", "fs", "vfat", FALSE, TRUE, FALSE, TRUE),
     Step("cache", "fs", "yaffs2", FALSE, FALSE, FALSE, FALSE) >>
=============================================================================
