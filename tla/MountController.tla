--------------------------- MODULE MountController ---------------------------
(***************************************************************************)
(* Mounting, unmounting and formatting of the volumes of the fstab        *)
(* (roots.c 283-459 and 500-806).  The kernel mount table, the file system *)
(* on each block device and whether the device still holds files are the *)
(* state; ensure_path_mounted, ensure_path_unmounted, format_volume,       *)
(* format_device and preserve_data_media are the actions, each taken on a *)
(* volume's own mount point.                                               *)
(*                                                                         *)
(* Data abstraction.  A volume has a primary device "dev" and, when its   *)
(* fstab line names one, a second device "dev2".  A device holds a file   *)
(* system type (disk) and either "old" files or nothing ("empty").  For   *)
(* /data on a datamedia device the media subtree is tracked apart         *)
(* (media), and so is /data/.layout_version (layout).  The datamedia     *)
(* alias (/sdcard) is a symlink into /data/media (link).  Mount helpers,  *)
(* mkfs tools and MTD erases either succeed or fail.                       *)
(***************************************************************************)
EXTENDS Naturals, Integers, FiniteSets

CONSTANTS
  Vols,          \* the volumes of the fstab other than the /tmp ramdisk
  Data,          \* the volume mounted at /data
  SdExt,         \* the volume mounted at /sd-ext
  Fstab,         \* Fstab[v] = [fs_type, fs_type2, dev2] as load_volume_table left it
  DiskInit,      \* DiskInit[v]: file systems the primary device may hold at start
  SdExtPresent,  \* stat(device of /sd-ext) succeeds
  Encrypted,     \* is_encrypted_data()
  UseF2fs,       \* built with USE_F2FS
  MountHelpers,  \* which of /sbin/mount.exfat, /sbin/mount.ntfs exist
  FormatArgs     \* the <<volume, fs>> pairs format_device is called with

NULL == "NULL"
NONE == [dev |-> "none", fs |-> "none"]
Devs == {"dev", "dev2"}

(* is_data_media() (roots.c 180-188) and the alias volumes it looks for.   *)
Alias == {v \in Vols : Fstab[v].fs_type = "datamedia"}
DataMedia == Alias # {}

(* The flash classes get_flash_type() supports, and the block types        *)
(* ensure_path_mounted tries with try_mount.                               *)
FlashTypes == {"mtd", "bml", "emmc"}
TryMountTypes == {"ext4", "ext3", "f2fs", "rfs", "vfat"}

VARIABLES
  mounted,    \* mounted[v]: the device and type the kernel has at v's mount point, or NONE
  disk,       \* disk[v][d]: the file system on device d of v
  content,    \* content[v][d]: "old" files or "empty"
  media,      \* "kept" or "lost": /data/media on a datamedia device
  layout,     \* /data/.layout_version: "data", "empty" (zero bytes) or "absent"
  link,       \* the /sdcard -> /data/media symlink exists
  preserved,  \* data_media_preserved_state
  op          \* the last call: [name, vol, ret, mkfs]; mkfs names the device
              \* a mkfs or erase rewrote, or "none"

vars == <<mounted, disk, content, media, layout, link, preserved, op>>

-----------------------------------------------------------------------------
(* Mounting                                                                 *)

(* What the kernel accepts: a file system mounts under its own type; the  *)
(* ext4 driver also mounts ext2 and ext3.                                  *)
KernelMounts(onDisk, fs) ==
  \/ onDisk = fs
  \/ fs = "ext4" /\ onDisk \in {"ext2", "ext3"}

(* try_mount() (roots.c 283-300): -1 without a device or a type.           *)
TryMount(v, d, fs) ==
  /\ fs # NULL
  /\ d = "dev" \/ Fstab[v].dev2
  /\ KernelMounts(disk[v][d], fs)

(* The three attempts of roots.c 380-386, in order.                        *)
Attempts(v) ==
  << [dev |-> "dev",  fs |-> Fstab[v].fs_type],
     [dev |-> "dev",  fs |-> Fstab[v].fs_type2],
     [dev |-> "dev2", fs |-> Fstab[v].fs_type2] >>

(* The result of mounting block volume v: the first attempt that works.    *)
FirstMount(v) ==
  LET ok == {k \in 1..3 : TryMount(v, Attempts(v)[k].dev, Attempts(v)[k].fs)} IN
  IF ok = {} THEN NONE
  ELSE Attempts(v)[CHOOSE k \in ok : \A j \in ok : k <= j]

(* The `mount <mount point>` command and, for "auto", mount.exfat and     *)
(* mount.ntfs when they exist (roots.c 388-407): the command detects the  *)
(* kernel file systems; the helpers mount their own.                       *)
CommandMount(v) ==
  LET on == disk[v]["dev"] IN
  IF on \in {"ext2", "ext3", "ext4", "vfat"} THEN [dev |-> "dev", fs |-> on]
  ELSE IF Fstab[v].fs_type = "auto" /\ on \in MountHelpers
       THEN [dev |-> "dev", fs |-> on]
  ELSE NONE

(* ensure_path_mounted() on a volume that is not the alias (roots.c        *)
(* 348-410): already mounted is success; yaffs2 goes through MTD.          *)
MountResult(v) ==
  IF mounted[v] # NONE THEN mounted[v]
  ELSE IF Fstab[v].fs_type = "yaffs2"
       THEN IF disk[v]["dev"] = "yaffs2" THEN [dev |-> "dev", fs |-> "yaffs2"] ELSE NONE
  ELSE IF Fstab[v].fs_type \in TryMountTypes THEN FirstMount(v)
  ELSE CommandMount(v)

RetOf(m) == IF m = NONE THEN -1 ELSE 0

(* setup_data_media() (roots.c 195-215) runs once /data is mounted:        *)
(* /sdcard becomes a symlink to /data/media.                               *)
SetupDataMedia(l, m) == l \/ m # NONE

(* ensure_path_mounted() (roots.c 320-411).  The alias mounts /data unless *)
(* the data is encrypted, then setup_data_media() links /sdcard to         *)
(* /data/media; it returns 0 when encrypted without doing either.          *)
EnsureMounted(v) ==
  \/ /\ v \in Alias
     /\ IF Encrypted
        THEN op' = [name |-> "mount", vol |-> v, ret |-> 0, mkfs |-> "none"] /\ UNCHANGED <<mounted, link>>
        ELSE LET m == MountResult(Data) IN
             /\ mounted' = [mounted EXCEPT ![Data] = m]
             /\ link' = SetupDataMedia(link, m)
             /\ op' = [name |-> "mount", vol |-> v, ret |-> RetOf(m), mkfs |-> "none"]
  \/ /\ v \notin Alias
     /\ LET m == MountResult(v) IN
        /\ mounted' = [mounted EXCEPT ![v] = m]
        /\ op' = [name |-> "mount", vol |-> v, ret |-> RetOf(m), mkfs |-> "none"]
     /\ UNCHANGED link
  /\ UNCHANGED <<disk, content, media, layout, preserved>>

-----------------------------------------------------------------------------
(* Unmounting                                                               *)

(* The early returns of ensure_path_unmounted() (roots.c 415-431): the     *)
(* alias is never unmounted while media is preserved or data encrypted,    *)
(* and neither is /data on those conditions.                               *)
KeptMounted(v) ==
  \/ v \in Alias /\ (preserved \/ Encrypted)
  \/ v = Data /\ Encrypted
  \/ v = Data /\ DataMedia /\ preserved

(* The volume ensure_path_unmounted() really unmounts: the alias stands    *)
(* for /data when it is not kept.                                          *)
UnmountTarget(v) == IF v \in Alias THEN Data ELSE v

(* Possible mount tables after ensure_path_unmounted(v), with its result: *)
(* unmount_mounted_volume() can fail (a busy file system).                 *)
UnmountOutcomes(v, m) ==
  LET t == UnmountTarget(v) IN
  IF KeptMounted(v) \/ m[t] = NONE
  THEN {[ret |-> 0, m |-> m]}
  ELSE {[ret |-> 0, m |-> [m EXCEPT ![t] = NONE]], [ret |-> -1, m |-> m]}

EnsureUnmounted(v) ==
  /\ \E o \in UnmountOutcomes(v, mounted) :
       /\ mounted' = o.m
       /\ op' = [name |-> "unmount", vol |-> v, ret |-> o.ret, mkfs |-> "none"]
  /\ UNCHANGED <<link, disk, content, media, layout, preserved>>

-----------------------------------------------------------------------------
(* Formatting                                                               *)

(* Mutant: a failing mkfs.f2fs whose exit status is returned as is.       *)
MkfsStatusPassedOn(v, fs, name) ==
  \E ok \in BOOLEAN :
    /\ disk' = [disk EXCEPT ![v]["dev"] = IF ok THEN fs ELSE "broken"]
    /\ content' = [content EXCEPT ![v]["dev"] = "empty"]
    /\ media' = IF v = Data THEN "lost" ELSE media
    /\ layout' = IF v = Data THEN "absent" ELSE layout
    /\ op' = [name |-> name, vol |-> v, ret |-> IF ok THEN 0 ELSE 1, mkfs |-> "dev"]

(* A mkfs, an MTD erase or a raw erase of device "dev" of v: it succeeds  *)
(* and leaves an empty file system of type fs, or fails part way and      *)
(* leaves the device unusable; either way the files of /data, its media  *)
(* and its .layout_version included, are gone.                            *)
Mkfs(v, fs, name) ==
  \E ok \in BOOLEAN :
    /\ disk' = [disk EXCEPT ![v]["dev"] = IF ok THEN fs ELSE "broken"]
    /\ content' = [content EXCEPT ![v]["dev"] = "empty"]
    /\ media' = IF v = Data THEN "lost" ELSE media
    /\ layout' = IF v = Data THEN "absent" ELSE layout
    /\ op' = [name |-> name, vol |-> v, ret |-> IF ok THEN 0 ELSE -1, mkfs |-> "dev"]

(* The device whose files a recursive delete of v's mount point reaches,  *)
(* under mount table m: the mounted one, or none for a bare directory.     *)
Reached(v, m) == IF m[v] = NONE THEN "none" ELSE m[v].dev

(* Mutant: the saved .layout_version never written back.                 *)
LayoutNotRestored(l) == "absent"

(* What is left of /data/.layout_version once it was read and /data       *)
(* emptied: written back only when the read returned more than 0 bytes,   *)
(* so an empty marker is not recreated (roots.c 788-803).                 *)
LayoutKept(l) == IF l = "data" THEN "data" ELSE "absent"

(* rmtree_except("/data", "media") with .layout_version saved before and  *)
(* written back (O_EXCL) only when the read returned more than 0 bytes     *)
(* (roots.c 783-803).  It only reaches files when /data is mounted; a     *)
(* failure stops part way and may or may not have removed the marker.      *)
WipeDataInPlace(name) ==
  LET d == Reached(Data, mounted)
      kept == LayoutKept(layout) IN
  \E ok \in BOOLEAN :
    /\ content' = IF d = "none" \/ ~ok THEN content
                  ELSE [content EXCEPT ![Data][d] = "empty"]
    /\ layout' \in IF d = "none" THEN {layout}
                   ELSE IF ok THEN {kept} ELSE {layout, kept}
    /\ op' = [name |-> name, vol |-> Data, ret |-> IF ok THEN 0 ELSE -1, mkfs |-> "none"]
    /\ UNCHANGED <<mounted, disk, media>>

(* Mutant: format_volume without the preserved-media test of line 532.     *)
WipesInPlaceNever(v) == FALSE

(* /data on a datamedia device with the media preserved is wiped in place *)
(* (roots.c 532, 671, 783).                                                *)
WipesInPlace(v) == v = Data /\ DataMedia /\ preserved

(* Mutant: the result of ensure_path_unmounted() not checked.              *)
UnmountFailedIgnored(o) == FALSE

(* format_volume and format_device give up when the unmount fails          *)
(* (roots.c 536-539, 678-681).                                             *)
UnmountFailed(o) == o.ret # 0

(* format_unknown_device(device, path, fs) (roots.c 746-806) entered with  *)
(* mount table m: raw flash is erased; ext2/ext3 are unmounted and         *)
(* rebuilt; otherwise the files under the mount point are deleted (through *)
(* the /sdcard symlink, the media) and the path unmounted.                 *)
FormatUnknown(v, fs, m, name) ==
  \/ /\ fs \in FlashTypes
     /\ Mkfs(v, fs, name) /\ mounted' = m
  \/ /\ fs \notin FlashTypes /\ v = SdExt /\ ~SdExtPresent
     /\ op' = [name |-> name, vol |-> v, ret |-> 0, mkfs |-> "none"]
     /\ mounted' = m /\ UNCHANGED <<disk, content, media, layout>>
  \/ /\ fs \in {"ext2", "ext3"} /\ ~(v = SdExt /\ ~SdExtPresent)
     /\ \E o \in UnmountOutcomes(v, m) :
          /\ mounted' = o.m
          /\ IF o.ret # 0
             THEN /\ op' = [name |-> name, vol |-> v, ret |-> -12, mkfs |-> "none"]
                  /\ UNCHANGED <<disk, content, layout>>
             ELSE Mkfs(v, fs, name)
  \/ /\ fs \notin FlashTypes \cup {"ext2", "ext3"} /\ ~(v = SdExt /\ ~SdExtPresent)
     /\ WipesInPlace(v)
     /\ mounted = m
     /\ WipeDataInPlace(name)
  \/ /\ fs \notin FlashTypes \cup {"ext2", "ext3"} /\ ~(v = SdExt /\ ~SdExtPresent)
     /\ ~WipesInPlace(v)
     /\ \E ok \in BOOLEAN, o \in UnmountOutcomes(v, m) :
          LET d == Reached(v, m)
              throughLink == v \in Alias /\ link /\ m[Data] # NONE IN
          /\ content' = IF d = "none" \/ ~ok THEN content
                        ELSE [content EXCEPT ![v][d] = "empty"]
          /\ media' = IF ok /\ (throughLink \/ (v = Data /\ d # "none")) THEN "lost" ELSE media
          /\ layout' = IF ok /\ v = Data /\ d # "none" THEN "absent" ELSE layout
          /\ mounted' = o.m
          /\ op' = [name |-> name, vol |-> v, ret |-> IF ok THEN 0 ELSE -1, mkfs |-> "none"]
     /\ UNCHANGED disk

Refuse(v, name, r) ==
  /\ op' = [name |-> name, vol |-> v, ret |-> r, mkfs |-> "none"]
  /\ UNCHANGED <<mounted, disk, content, media, layout>>

(* format_volume() (roots.c 500-603) on v's mount point.                   *)
FormatVolume(v) ==
  LET t == Fstab[v].fs_type IN
  /\ CASE v \in Alias -> FormatUnknown(v, NULL, mounted, "format")
       [] v = SdExt /\ ~SdExtPresent -> Refuse(v, "format", -1)
       [] WipesInPlace(v) -> FormatUnknown(v, NULL, mounted, "format")
       [] OTHER ->
            \E o \in UnmountOutcomes(v, mounted) :
              IF UnmountFailed(o) THEN Refuse(v, "format", -1)
              ELSE /\ mounted' = o.m
                   /\ CASE t \in {"yaffs2", "mtd"} -> Mkfs(v, t, "format")
                        [] t = "ext4" -> Mkfs(v, "ext4", "format")
                        [] t = "f2fs" /\ UseF2fs -> Mkfs(v, "f2fs", "format")
                        [] OTHER -> FormatUnknown(v, t, o.m, "format")
  /\ UNCHANGED <<link, preserved>>

(* format_device(device, path, fs) (roots.c 639-742) with the primary      *)
(* device of v.  The f2fs branch tests the fstab type of v, not fs.        *)
FormatDevice(v, fs) ==
  /\ CASE v \in Alias -> FormatUnknown(v, NULL, mounted, "format_device")
       [] fs = "rfs" ->
            \E o \in UnmountOutcomes(v, mounted) :
              IF UnmountFailed(o) THEN Refuse(v, "format_device", -1)
              ELSE mounted' = o.m /\ Mkfs(v, "rfs", "format_device")
       [] WipesInPlace(v) -> FormatUnknown(v, NULL, mounted, "format_device")
       [] OTHER ->
            \E o \in UnmountOutcomes(v, mounted) :
              IF UnmountFailed(o) THEN Refuse(v, "format_device", -1)
              ELSE /\ mounted' = o.m
                   /\ CASE fs \in {"yaffs2", "mtd"} -> Mkfs(v, fs, "format_device")
                        [] fs = "ext4" -> Mkfs(v, "ext4", "format_device")
                        [] Fstab[v].fs_type = "f2fs" /\ UseF2fs ->
                             Mkfs(v, "f2fs", "format_device")
                        [] OTHER -> FormatUnknown(v, fs, o.m, "format_device")
  /\ UNCHANGED <<link, preserved>>

(* preserve_data_media() (roots.c 631-633), called around wipes in         *)
(* recovery.c.                                                             *)
PreserveDataMedia(b) ==
  /\ preserved' = b
  /\ op' = [name |-> "preserve", vol |-> Data, ret |-> 0, mkfs |-> "none"]
  /\ UNCHANGED <<mounted, disk, content, media, layout, link>>
(* Recovery starts with nothing mounted but the ramdisk, the media        *)
(* preserved (roots.c 630) and the devices holding old files.              *)
Init ==
  /\ mounted = [v \in Vols |-> NONE]
  /\ \E c \in {f \in [Vols -> UNION {DiskInit[w] : w \in Vols}] : \A v \in Vols : f[v] \in DiskInit[v]} :
       disk = [v \in Vols |-> [d \in Devs |-> IF d = "dev" THEN c[v] ELSE Fstab[v].fs_type2]]
  /\ content = [v \in Vols |-> [d \in Devs |-> "old"]]
  /\ media = "kept"
  /\ layout \in {"data", "empty", "absent"}
  /\ link = FALSE
  /\ preserved = TRUE
  /\ op = [name |-> "none", vol |-> Data, ret |-> 0, mkfs |-> "none"]

Next ==
  \/ \E v \in Vols : EnsureMounted(v) \/ EnsureUnmounted(v) \/ FormatVolume(v)
  \/ \E a \in FormatArgs : FormatDevice(a[1], a[2])
  \/ \E b \in BOOLEAN : PreserveDataMedia(b)

Spec == Init /\ [][Next]_vars

-----------------------------------------------------------------------------
(* Properties                                                               *)

TypeOK ==
  /\ \A v \in Vols : mounted[v] = NONE \/ mounted[v].dev \in Devs
  /\ content \in [Vols -> [Devs -> {"old", "empty"}]]
  /\ media \in {"kept", "lost"}
  /\ layout \in {"data", "empty", "absent"}
  /\ link \in BOOLEAN /\ preserved \in BOOLEAN
  /\ op.ret \in {0, -1, -12} /\ op.mkfs \in {"dev", "none"}

(* While data_media_preserved_state is set, no mount, unmount or format   *)
(* other than a format of the /sdcard alias itself loses /data/media: the  *)
(* /data wipe goes through rmtree_except(..., "media") and unmounting     *)
(* /data is refused.  Breaking it takes a format of /data reaching mkfs.  *)
MediaSurvivesWhilePreserved ==
  [][(preserved /\ media = "kept" /\ ~(op'.vol \in Alias /\ op'.name # "mount"))
       => media' = "kept"]_vars

(* A mkfs or erase never rewrites a device that is still mounted: every   *)
(* format path unmounts first and gives up when ensure_path_unmounted      *)
(* fails (roots.c 536-539, 678-681, 760-763).                              *)
NeverFormatMounted ==
  [][op'.mkfs # "none" => mounted'[op'.vol] = NONE \/ mounted'[op'.vol].dev # op'.mkfs]_vars
=============================================================================
