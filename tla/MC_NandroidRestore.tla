------------------------- MODULE MC_NandroidRestore -------------------------
(* Instances of nandroid_restore for TLC.                                   *)
EXTENDS NandroidRestore

Step(v, r, u) == [vol |-> v, raw |-> r, umount |-> u]
F(fs, e) == [fs |-> fs, ext |-> e]

(* filesystems[] of nandroid.c 913.                                        *)
MCProbeOrder == <<"yaffs2", "ext2", "ext3", "ext4", "f2fs", "ntfs", "vfat", "exfat", "rfs", "auto">>

(* The backup directories for a choice of files per step.                  *)
DirsOf(choices) == {f \in [1..Len(choices) -> UNION {choices[j] : j \in 1..Len(choices)}] :
                      \A j \in 1..Len(choices) : f[j] \in choices[j]}

(* A datamedia device: emmc boot; f2fs /system that also mounts as ext4   *)
(* (fstype2) with a second device; ext4 /data with /sdcard its alias (the  *)
(* backup lives in /data/media); yaffs2 /cache.  /cache is restored with   *)
(* umount_when_finished 0.                                                 *)
MediaVols == {"boot", "system", "data", "sdcard", "cache"}
MediaFstab ==
  [v \in MediaVols |->
     CASE v = "boot"   -> [fs_type |-> "emmc", fs_type2 |-> NULL, dev2 |-> FALSE]
       [] v = "system" -> [fs_type |-> "f2fs", fs_type2 |-> "ext4", dev2 |-> TRUE]
       [] v = "data"   -> [fs_type |-> "ext4", fs_type2 |-> NULL, dev2 |-> FALSE]
       [] v = "sdcard" -> [fs_type |-> "datamedia", fs_type2 |-> NULL, dev2 |-> FALSE]
       [] v = "cache"  -> [fs_type |-> "yaffs2", fs_type2 |-> NULL, dev2 |-> FALSE]]
MediaDiskInit ==
  [v \in MediaVols |->
     CASE v = "boot" -> {"emmc"} [] v = "system" -> {"f2fs", "ext4"} [] v = "data" -> {"ext4"}
       [] v = "sdcard" -> {"none"} [] v = "cache" -> {"yaffs2"}]
MediaSteps == << Step("boot", TRUE, FALSE), Step("system", FALSE, TRUE),
                 Step("data", FALSE, TRUE), Step("cache", FALSE, FALSE) >>
(* What nandroid_backup writes: boot.img; system.ext4.tar (backed up while *)
(* mounted as ext4) or system.f2fs.tar.gz, with their shards;             *)
(* data.ext4.tar or .tar.gz with shards; cache.yaffs2.img, or a legacy    *)
(* cache.img; or nothing.                                                  *)
MediaDirs == DirsOf(<< {{}, {F("legacy", "img")}},
                       {{}, {F("ext4", "tar"), F("ext4", "tar.a")}, {F("f2fs", "tar.gz"), F("f2fs", "tar.gz.a")}},
                       {{}, {F("ext4", "tar"), F("ext4", "tar.a")}, {F("ext4", "tar.gz"), F("ext4", "tar.gz.a")}},
                       {{}, {F("yaffs2", "img")}, {F("legacy", "img")}} >>)

(* A backup whose /data archive is only its shards (spec.md 8: a         *)
(* directory holding only <name>.ext4.tar.gz.a).                           *)
MediaDirsShards == DirsOf(<< {{}}, {{}}, {{F("ext4", "tar.gz.a")}}, {{}} >>)

(* The archive steps only (no raw boot image): a half-written partition    *)
(* is then one the unpacker was writing when the job stopped.              *)
MediaArchiveSteps == Tail(MediaSteps)
MediaArchiveDirs == DirsOf(<< {{F("ext4", "tar"), F("ext4", "tar.a")}},
                              {{F("ext4", "tar"), F("ext4", "tar.a")}},
                              {{}, {F("yaffs2", "img")}} >>)

(* A device without datamedia: ext4 /data, vfat /sdcard holding the       *)
(* backup, and /sd-ext "auto".                                             *)
ChainVols == {"data", "sdcard", "sdext"}
ChainFstab ==
  [v \in ChainVols |->
     CASE v = "data"   -> [fs_type |-> "ext4", fs_type2 |-> NULL, dev2 |-> FALSE]
       [] v = "sdcard" -> [fs_type |-> "vfat", fs_type2 |-> NULL, dev2 |-> FALSE]
       [] v = "sdext"  -> [fs_type |-> "auto", fs_type2 |-> NULL, dev2 |-> FALSE]]
ChainDiskInit ==
  [v \in ChainVols |->
     CASE v = "data" -> {"ext4"} [] v = "sdcard" -> {"vfat"} [] v = "sdext" -> {"ext4"}]
SdExtSteps == << Step("data", FALSE, TRUE), Step("sdext", FALSE, TRUE) >>
SdExtDirs == DirsOf(<< {{F("ext4", "tar"), F("ext4", "tar.a")}}, {{F("ext4", "tar"), F("ext4", "tar.a")}} >>)
=============================================================================
